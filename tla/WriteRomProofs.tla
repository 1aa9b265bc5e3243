--------------------------- MODULE WriteRomProofs ---------------------------
(***************************************************************************)
(* The flash programmer is right for every size of chip and sector, every  *)
(* contents of chip and file, and a chip that fails whenever it likes:     *)
(* success means that the whole file is on the chip, what was verified     *)
(* stays, and the rest of the chip is kept, or erased with a sector that   *)
(* could not be written otherwise.                                         *)
(***************************************************************************)
EXTENDS WriteRom, SequenceTheorems, WellFoundedInduction, TLAPS

-----------------------------------------------------------------------------
(* The invariant.  The chip has seen exactly the cycles of the command the *)
(* program is sending.  While a sector is worked on, it begins on a sector *)
(* boundary and the buffer holds what is wanted there; between sectors the *)
(* address has kept up with the file, or is past the end.  A 1 that the    *)
(* chip lacks, it lacked from the start: only so is an erase ever chosen.  *)
CmdInv ==
    /\ pc = "erase" => cmd = <<"read", "key1", "key2", "erase", "erase1", "erase2">>[cycle]
    /\ pc \in {"write", "update"} =>
         cycle \in 1..4 /\ cmd = <<"read", "key1", "key2", "program">>[cycle]
    /\ CommandsComplete

Working == pc \in {"check", "erase", "write", "update"}

BufferInv ==
    Working =>
        /\ Count >= 1
        /\ address + Count <= EndAddress + 1
        /\ (address - job.start) + Count <= Len(job.input)
        /\ \A x \in 0..(Count - 1) : At(buffer, x) = job.input[(address - job.start) + x + 1]

PlaceInv ==
    /\ address >= job.start
    /\ pc = "start" => address = job.start /\ used = 0
    /\ pc = "fill" => address <= EndAddress + 1
    /\ pc = "fill" =>
         \/ address = EndAddress + 1
         \/ /\ address = job.start + used
            /\ address % SectorSize = 0 \/ used = Len(job.input)
    /\ Working =>
         /\ address % SectorSize = 0
         /\ \/ address + Count = EndAddress + 1
            \/ /\ address + Count = job.start + used
               /\ Count = SectorSize \/ used = Len(job.input)
    /\ pc = "ok" => address = EndAddress + 1 \/ address = job.start + Len(job.input)

IndexInv ==
    /\ pc = "erase" => i = 0
    /\ pc \in {"write", "update"} => i < Count
    /\ pc \in {"erase", "write", "update"} => attempts >= 1

NeedInv ==
    /\ \A a \in DOMAIN Wanted : Wanted[a] \ chip[a] # {} => HadToErase(a)
    /\ pc = "erase" => HadToErase(address)

RomInv ==
    /\ WriteRomTypeOK
    /\ CmdInv /\ BufferInv /\ PlaceInv /\ IndexInv /\ NeedInv
    /\ VerifiedStays /\ OthersKept

-----------------------------------------------------------------------------
(* Sectors follow each other on sector boundaries.                         *)
LEMMA NextAligned ==
  ASSUME NEW S \in Nat \ {0}, NEW a \in Nat, a % S = 0
  PROVE  (a + S) % S = 0
<1> DEFINE q == a \div S
           p == (a + S) \div S
           r == (a + S) % S
           d == p - q - 1
<1>1. a = S * q /\ q \in Int
  OBVIOUS
<1>2. a + S = S * p + r /\ p \in Int /\ r \in 0..(S - 1)
  OBVIOUS
<1> HIDE DEF q, p, r
<1>3. d \in Int /\ S * d = S * p - S * q - S
  BY <1>1, <1>2
<1>4. S * d = - r
  BY <1>1, <1>2, <1>3
<1> HIDE DEF d
<1>5. CASE d >= 1
  <2>1. S * d >= S
    BY <1>3, <1>5
  <2> QED BY <2>1, <1>4, <1>2
<1>6. CASE d <= -1
  <2>1. S * d <= - S
    BY <1>3, <1>6
  <2> QED BY <2>1, <1>4, <1>2
<1>7. CASE d = 0
  BY <1>7, <1>4, <1>2 DEF r
<1> QED BY <1>3, <1>5, <1>6, <1>7

(* No byte below a sector boundary is in the sector above it.              *)
LEMMA SectorAbove ==
  ASSUME NEW a \in Addr, a % SectorSize = 0, NEW b \in Addr, b < a
  PROVE  b \notin SectorOf(a)
<1>1. b % SectorSize \in 0..(SectorSize - 1)
  BY ChipAssumption DEF Addr
<1>2. b - (b % SectorSize) <= b /\ a - (a % SectorSize) = a
  BY <1>1, ChipAssumption DEF Addr
<1> QED BY <1>1, <1>2, ChipAssumption DEF SectorOf, Addr

(* A byte of the sector that begins at a has the whole of it for its own.  *)
LEMMA SameSector ==
  ASSUME NEW a \in Addr, NEW b \in SectorOf(a)
  PROVE  SectorOf(b) = SectorOf(a)
BY DEF SectorOf

(* A sector's worth of bytes from a boundary on is in the sector.          *)
LEMMA InSector ==
  ASSUME NEW S \in Nat \ {0}, NEW a \in Nat, a % S = 0, NEW x \in 0..(S - 1)
  PROVE  (a + x) % S = x
<1> DEFINE q == a \div S
           p == (a + x) \div S
           r == (a + x) % S
           d == p - q
<1>1. a = S * q /\ q \in Int
  OBVIOUS
<1>2. a + x = S * p + r /\ p \in Int /\ r \in 0..(S - 1)
  OBVIOUS
<1> HIDE DEF q, p, r
<1>3. d \in Int /\ S * d = S * p - S * q
  BY <1>1, <1>2
<1>4. S * d = x - r
  BY <1>1, <1>2, <1>3
<1> HIDE DEF d
<1>5. CASE d >= 1
  <2>1. S * d >= S
    BY <1>3, <1>5
  <2> QED BY <2>1, <1>4, <1>2
<1>6. CASE d <= -1
  <2>1. S * d <= - S
    BY <1>3, <1>6
  <2> QED BY <2>1, <1>4, <1>2
<1>7. CASE d = 0
  BY <1>7, <1>4, <1>2 DEF r
<1> QED BY <1>3, <1>5, <1>6, <1>7

LEMMA PinsInChip == ASSUME NEW a \in Addr PROVE Pins(a) = a
  BY ChipAssumption DEF Pins, Addr

(* A difference is looked for in the buffer and found in it.               *)
LEMMA NatHasMin ==
  ASSUME NEW T, T \subseteq Nat, T # {}
  PROVE  \E m \in T : \A n \in T : m <= n
<1> DEFINE R == OpToRel(<, Nat)
<1>1. IsWellFoundedOn(R, Nat)
  BY NatLessThanWellFounded
<1>2. PICK m \in T : \A n \in T : ~(<<n, m>> \in R)
  <2> HIDE DEF R
  <2> QED BY <1>1, WFMin
<1>3. ASSUME NEW n \in T PROVE m <= n
  <2>1. ~(n < m)
    BY <1>2 DEF OpToRel
  <2> QED BY <2>1
<1> QED BY <1>3

LEMMA DifferenceRange ==
  ASSUME Count \in Nat, NEW a, NEW x \in Nat
  PROVE  Difference(a, x) \in 0..Count
<1> DEFINE diffs == {y \in x..(Count - 1) : At(a, y) # At(buffer, y)}
<1>1. CASE diffs = {}
  BY <1>1 DEF Difference
<1>2. CASE diffs # {}
  <2>1. diffs \subseteq Nat /\ diffs \subseteq 0..Count
    OBVIOUS
  <2>2. \E m \in diffs : \A n \in diffs : m <= n
    <3> HIDE DEF diffs
    <3> QED BY <1>2, <2>1, NatHasMin
  <2>3. (CHOOSE y \in diffs : \A z \in diffs : y <= z) \in diffs
    <3> HIDE DEF diffs
    <3> QED BY <2>2
  <2>4. Difference(a, x) = CHOOSE y \in diffs : \A z \in diffs : y <= z
    BY <1>2 DEF Difference
  <2> QED BY <2>1, <2>3, <2>4
<1> QED BY <1>1, <1>2

LEMMA SomeDifference ==
  ASSUME NEW a \in Seq(Byte), buffer \in Seq(Byte), Len(a) = Count, a # buffer
  PROVE  Difference(a, 0) < Count
<1> DEFINE diffs == {y \in 0..(Count - 1) : At(a, y) # At(buffer, y)}
<1>1. Count \in Nat
  BY DEF Count
<1>2. diffs # {}
  <2>1. PICK x \in 1..Count : a[x] # buffer[x]
    BY <1>1 DEF Count
  <2>2. x - 1 \in 0..(Count - 1) /\ (x - 1) + 1 = x
    BY <1>1
  <2>3. x - 1 \in diffs
    BY <2>1, <2>2 DEF At
  <2> QED BY <2>3
<1>3. diffs \subseteq Nat /\ \A y \in diffs : y < Count
  BY <1>1
<1>4. \E m \in diffs : \A n \in diffs : m <= n
  <2> HIDE DEF diffs
  <2> QED BY <1>2, <1>3, NatHasMin
<1>5. (CHOOSE y \in diffs : \A z \in diffs : y <= z) \in diffs
  <2> HIDE DEF diffs
  <2> QED BY <1>4
<1>6. Difference(a, 0) = CHOOSE y \in diffs : \A z \in diffs : y <= z
  BY <1>2 DEF Difference
<1> QED BY <1>3, <1>5, <1>6

-----------------------------------------------------------------------------
(* One write cycle: the only bytes it may change are the one that is       *)
(* programmed, and those of the sector that is erased.                     *)
LEMMA CycleEffect ==
  ASSUME ChipTypeOK, NEW a \in Addr, NEW v \in Byte, WriteCycle(a, v)
  PROVE  /\ ChipTypeOK'
         /\ \A b \in Addr : \/ chip'[b] = chip[b]
                            \/ cmd = "program" /\ b = a
                            \/ cmd = "erase2" /\ v = Sector /\ b \in SectorOf(a) /\ chip'[b] = Bits
         /\ cmd = "program" => chip[a] \cap v \subseteq chip'[a]
<1>1. cmd' \in Commands
  BY DEF WriteCycle, NextCmd, Commands
<1>2. CASE Programs
  <2>1. PICK kept \in SUBSET chip[a] : chip' = [chip EXCEPT ![a] = kept \cup (@ \cap v)]
    BY <1>2 DEF WriteCycle, Outcomes
  <2>2. kept \cup (chip[a] \cap v) \in Byte
    BY DEF ChipTypeOK, Byte
  <2>3. chip'[a] = kept \cup (chip[a] \cap v)
    BY <2>1 DEF ChipTypeOK
  <2> QED BY <1>1, <1>2, <2>1, <2>2, <2>3 DEF ChipTypeOK, Programs
<1>3. CASE ~Programs
  <2>1. PICK erased \in (IF Erases(v) THEN SUBSET SectorOf(a) ELSE {{}}) :
            chip' = [b \in Addr |-> IF b \in erased THEN Bits ELSE chip[b]]
    BY <1>3 DEF WriteCycle, Outcomes
  <2>2. Bits \in Byte
    BY DEF Byte
  <2>3. chip' \in [Addr -> Byte]
    BY <2>1, <2>2 DEF ChipTypeOK
  <2>4. ASSUME NEW b \in Addr, chip'[b] # chip[b]
        PROVE  cmd = "erase2" /\ v = Sector /\ b \in SectorOf(a) /\ chip'[b] = Bits
    BY <2>1, <2>4 DEF Erases
  <2> QED BY <1>1, <1>3, <2>3, <2>4 DEF ChipTypeOK, Programs
<1> QED BY <1>2, <1>3

(* What is known of the job, and of the sector while it is worked on.      *)
LEMMA JobFacts ==
  ASSUME WriteRomTypeOK
  PROVE  /\ job.start \in Nat /\ job.length \in Nat \ {0} /\ job.start + job.length <= Size
         /\ EndAddress = job.start + job.length - 1 /\ EndAddress \in Nat /\ EndAddress < Size
         /\ job.input \in Seq(Byte) /\ Len(job.input) \in Nat
         /\ address \in Nat /\ used \in Nat /\ used <= Len(job.input)
         /\ Count \in Nat /\ Count <= SectorSize /\ SectorSize \in Nat \ {0} /\ Size \in Nat
<1>1. /\ job.start \in Addr /\ job.length \in Nat \ {0} /\ job.start + job.length <= Size
      /\ job.input \in Seq(Byte)
  BY WriteRomAssumption DEF WriteRomTypeOK
<1>2. job.start \in Nat /\ Size \in Nat /\ SectorSize \in Nat \ {0}
  BY <1>1, ChipAssumption DEF Addr
<1>3. Len(job.input) \in Nat
  BY <1>1
<1>4. address \in Nat /\ used \in 0..Len(job.input) /\ buffer \in Seq(Byte) /\ Len(buffer) <= SectorSize
  BY <1>2 DEF WriteRomTypeOK, Count
<1>5. used \in Nat /\ used <= Len(job.input) /\ Len(buffer) \in Nat
  BY <1>3, <1>4
<1> QED BY <1>1, <1>2, <1>3, <1>4, <1>5 DEF EndAddress, Count

LEMMA SectorFacts ==
  ASSUME RomInv, Working
  PROVE  /\ address \in Addr /\ address % SectorSize = 0 /\ Count >= 1
         /\ \A x \in 0..(Count - 1) : address + x \in Addr /\ At(buffer, x) \in Byte
<1>1. WriteRomTypeOK /\ buffer \in Seq(Byte)
  BY DEF RomInv, WriteRomTypeOK
<1>2. Count >= 1 /\ address + Count <= EndAddress + 1 /\ address % SectorSize = 0
  BY DEF RomInv, BufferInv, PlaceInv
<1>3. \A x \in 0..(Count - 1) : address + x \in Addr
  <2>1. EndAddress \in Nat /\ EndAddress < Size /\ address \in Nat /\ Count \in Nat /\ Size \in Nat
    BY <1>1, JobFacts
  <2>2. ASSUME NEW x \in 0..(Count - 1) PROVE address + x \in 0..(Size - 1)
    BY <1>2, <2>1
  <2> QED BY <2>2 DEF Addr
<1>4. address \in Addr
  BY <1>1, <1>2, JobFacts DEF Addr
<1>5. \A x \in 0..(Count - 1) : At(buffer, x) \in Byte
  BY <1>1, JobFacts DEF At, Count
<1> QED BY <1>2, <1>3, <1>4, <1>5

(* erase_sector changes nothing but the sector being worked on.            *)
LEMMA EraseEffect ==
  ASSUME RomInv, EraseSector
  PROVE  /\ ChipTypeOK' /\ CmdInv' /\ bad' \subseteq 1..Attempts \cup {attempts}
         /\ cycle' \in 1..6 /\ pc' \in {"erase", "write"} /\ i' = 0
         /\ \A b \in Addr : chip'[b] # chip[b] =>
                chip'[b] = Bits /\ b \in SectorOf(address) /\ b >= address
<1> DEFINE c == EraseCycles(address)[cycle]
<1>1. /\ pc = "erase" /\ ChipTypeOK /\ cycle \in 1..6 /\ i = 0
      /\ cmd = <<"read", "key1", "key2", "erase", "erase1", "erase2">>[cycle]
  BY DEF RomInv, WriteRomTypeOK, CmdInv, EraseSector, IndexInv
<1>2. address \in Addr /\ address % SectorSize = 0
  BY <1>1, SectorFacts DEF Working
<1>3. SectorBase(address) = address /\ Pins(address) = address
  BY <1>2, PinsInChip, ChipAssumption DEF SectorBase, Addr
<1>4. /\ cycle = 1 => c = <<Unlock1, Key1>>
      /\ cycle = 2 => c = <<Unlock2, Key2>>
      /\ cycle = 3 => c = <<Unlock1, Erase>>
      /\ cycle = 4 => c = <<Unlock1, Key1>>
      /\ cycle = 5 => c = <<Unlock2, Key2>>
      /\ cycle = 6 => c = <<address, Sector>>
  BY <1>3 DEF EraseCycles
<1>5. Len(EraseCycles(address)) = 6
  BY DEF EraseCycles
<1>6. c[1] \in Addr /\ c[2] \in Byte /\ Pins(c[1]) = c[1]
  <2>1. c[1] \in Addr /\ c[2] \in Byte
    BY <1>1, <1>2, <1>4, ChipAssumption
  <2> QED BY <2>1, PinsInChip
<1>7. WriteCycle(c[1], c[2]) /\ bad' \subseteq bad \cup {attempts}
  BY <1>6 DEF EraseSector, Cycle
<1>8. /\ IF cycle < 6 THEN cycle' = cycle + 1 /\ pc' = pc ELSE cycle' = 1 /\ pc' = "write"
      /\ i' = i
  BY <1>5 DEF EraseSector
<1>9. cmd' = NextCmd(c[1], c[2])
  BY <1>7 DEF WriteCycle
<1> HIDE DEF c
<1>10. CmdInv'
  <2>1. CASE cycle = 1
    BY <1>1, <1>4, <1>8, <1>9, <2>1 DEF NextCmd, CmdInv, CommandsComplete
  <2>2. CASE cycle = 2
    BY <1>1, <1>4, <1>8, <1>9, <2>2 DEF NextCmd, CmdInv, CommandsComplete
  <2>3. CASE cycle = 3
    BY <1>1, <1>4, <1>8, <1>9, <2>3, ChipAssumption DEF NextCmd, CmdInv, CommandsComplete
  <2>4. CASE cycle = 4
    BY <1>1, <1>4, <1>8, <1>9, <2>4 DEF NextCmd, CmdInv, CommandsComplete
  <2>5. CASE cycle = 5
    BY <1>1, <1>4, <1>8, <1>9, <2>5 DEF NextCmd, CmdInv, CommandsComplete
  <2>6. CASE cycle = 6
    BY <1>1, <1>4, <1>8, <1>9, <2>6 DEF NextCmd, CmdInv, CommandsComplete
  <2> QED BY <1>1, <2>1, <2>2, <2>3, <2>4, <2>5, <2>6
<1>11. /\ ChipTypeOK'
       /\ \A b \in Addr : chip'[b] # chip[b] =>
            cmd = "erase2" /\ b \in SectorOf(c[1]) /\ chip'[b] = Bits
  <2>1. cmd # "program"
    BY <1>1
  <2> QED BY <1>1, <1>6, <1>7, <2>1, CycleEffect
<1>12. cmd = "erase2" => c[1] = address
  BY <1>1, <1>4
<1>13. ASSUME NEW b \in Addr, chip'[b] # chip[b]
       PROVE  chip'[b] = Bits /\ b \in SectorOf(address) /\ b >= address
  <2>1. b \in SectorOf(address) /\ chip'[b] = Bits
    BY <1>11, <1>12, <1>13
  <2>2. ~(b < address)
    BY <1>2, <2>1, SectorAbove
  <2> QED BY <1>2, <2>1, <2>2 DEF Addr
<1>14. bad' \subseteq 1..Attempts \cup {attempts}
  BY <1>7 DEF RomInv, WriteRomTypeOK
<1> QED BY <1>1, <1>8, <1>10, <1>11, <1>13, <1>14

(* write_byte changes nothing but the byte it is to write, and takes no 1  *)
(* away from it that is to be there.                                       *)
LEMMA WriteEffect ==
  ASSUME RomInv, WriteByte
  PROVE  /\ ChipTypeOK' /\ CmdInv' /\ bad' \subseteq 1..Attempts \cup {attempts}
         /\ cycle' \in 1..6
         /\ \/ i' = i /\ pc' = pc /\ attempts' = attempts
            \/ i' = Next_i /\ Next_i < Count /\ pc' = pc /\ attempts' = attempts
            \/ i' = Next_i /\ ~(Next_i < Count) /\ pc' = "check" /\ attempts' = attempts - 1
         /\ address + i \in Addr
         /\ \A b \in Addr : chip'[b] # chip[b] => b = address + i
         /\ chip[address + i] \cap At(buffer, i) \subseteq chip'[address + i]
<1> DEFINE cycles == WriteCycles(address + i, At(buffer, i))
           c == cycles[cycle]
<1>1. /\ pc \in {"write", "update"} /\ ChipTypeOK /\ cycle \in 1..4
      /\ cmd = <<"read", "key1", "key2", "program">>[cycle]
      /\ i \in Nat /\ i < Count /\ address \in Nat
  BY DEF RomInv, WriteRomTypeOK, CmdInv, WriteByte, IndexInv
<1>0. Working /\ i \in 0..(Count - 1)
  BY <1>1, JobFacts DEF Working, RomInv
<1>2. address + i \in Addr
  BY <1>0, SectorFacts
<1>3. At(buffer, i) \in Byte
  BY <1>0, SectorFacts
<1>4. /\ cycle = 1 => c = <<Unlock1, Key1>>
      /\ cycle = 2 => c = <<Unlock2, Key2>>
      /\ cycle = 3 => c = <<Unlock1, Program>>
      /\ cycle = 4 => c = <<address + i, At(buffer, i)>>
  BY DEF WriteCycles
<1>5. Len(cycles) = 4
  BY DEF WriteCycles
<1>6. c[1] \in Addr /\ c[2] \in Byte /\ Pins(c[1]) = c[1]
  <2>1. c[1] \in Addr /\ c[2] \in Byte
    BY <1>1, <1>2, <1>3, <1>4, ChipAssumption
  <2> QED BY <2>1, PinsInChip
<1>7. WriteCycle(c[1], c[2]) /\ bad' \subseteq bad \cup {attempts}
  BY <1>6 DEF WriteByte, Cycle
<1>8. IF cycle < 4
        THEN cycle' = cycle + 1 /\ i' = i /\ pc' = pc /\ attempts' = attempts
        ELSE /\ cycle' = 1 /\ i' = Next_i
             /\ IF Next_i < Count THEN pc' = pc /\ attempts' = attempts
                ELSE pc' = "check" /\ attempts' = attempts - 1
  BY <1>5 DEF WriteByte, Counted
<1>9. cmd' = NextCmd(c[1], c[2])
  BY <1>7 DEF WriteCycle
<1> HIDE DEF c
<1>10. CmdInv'
  <2>0. pc' \in {"write", "update", "check"} /\ (cycle < 4 => pc' = pc)
    BY <1>1, <1>8
  <2>1. CASE cycle = 1
    BY <1>1, <1>4, <1>8, <1>9, <2>0, <2>1 DEF NextCmd, CmdInv, CommandsComplete
  <2>2. CASE cycle = 2
    BY <1>1, <1>4, <1>8, <1>9, <2>0, <2>2 DEF NextCmd, CmdInv, CommandsComplete
  <2>3. CASE cycle = 3
    BY <1>1, <1>4, <1>8, <1>9, <2>0, <2>3, ChipAssumption DEF NextCmd, CmdInv, CommandsComplete
  <2>4. CASE cycle = 4
    <3>1. cmd' = "read" /\ cycle' = 1
      BY <1>1, <1>8, <1>9, <2>4 DEF NextCmd
    <3> QED BY <2>0, <3>1 DEF CmdInv, CommandsComplete
  <2> QED BY <1>1, <2>1, <2>2, <2>3, <2>4
<1>11. /\ ChipTypeOK'
       /\ \A b \in Addr : chip'[b] # chip[b] => cmd = "program" /\ b = c[1]
       /\ cmd = "program" => chip[c[1]] \cap c[2] \subseteq chip'[c[1]]
  <2>1. cmd # "erase2"
    BY <1>1
  <2> QED BY <1>1, <1>6, <1>7, <2>1, CycleEffect
<1>12. cmd = "program" => c[1] = address + i /\ c[2] = At(buffer, i)
  BY <1>1, <1>4
<1>15. chip[address + i] \cap At(buffer, i) \subseteq chip'[address + i]
  BY <1>2, <1>11, <1>12
<1>13. bad' \subseteq 1..Attempts \cup {attempts}
  BY <1>7 DEF RomInv, WriteRomTypeOK
<1>14. cycle' \in 1..6
  BY <1>1, <1>8
<1> QED BY <1>2, <1>8, <1>10, <1>11, <1>12, <1>13, <1>14, <1>15

-----------------------------------------------------------------------------
(* What is wanted, in terms of the job.                                    *)
LEMMA WantedFacts ==
  ASSUME WriteRomTypeOK
  PROVE  /\ \A a \in DOMAIN Wanted : /\ a \in Nat /\ a >= job.start
                                     /\ a <= EndAddress /\ a - job.start < Len(job.input)
                                     /\ Wanted[a] = job.input[(a - job.start) + 1]
         /\ \A a \in Nat : (a >= job.start /\ a <= EndAddress /\ a - job.start < Len(job.input))
                              => a \in DOMAIN Wanted
<1> DEFINE n == IF Len(job.input) < job.length THEN Len(job.input) ELSE job.length
<1>1. /\ job.start \in Nat /\ job.length \in Nat \ {0} /\ Len(job.input) \in Nat
      /\ EndAddress = job.start + job.length - 1
  BY JobFacts
<1>2. Wanted = [a \in job.start..(job.start + n - 1) |-> job.input[a - job.start + 1]]
  BY DEF Wanted
<1>3. n \in Nat /\ n <= job.length /\ n <= Len(job.input) /\ (n = job.length \/ n = Len(job.input))
  BY <1>1
<1> HIDE DEF n
<1>4. DOMAIN Wanted = job.start..(job.start + n - 1)
  BY <1>2
<1>5. ASSUME NEW a \in DOMAIN Wanted
      PROVE  /\ a \in Nat /\ a >= job.start
             /\ a <= EndAddress /\ a - job.start < Len(job.input)
             /\ Wanted[a] = job.input[(a - job.start) + 1]
  <2>1. a \in job.start..(job.start + n - 1)
    BY <1>4
  <2>2. Wanted[a] = job.input[a - job.start + 1]
    BY <1>2, <2>1
  <2>3. /\ a \in Nat /\ a >= job.start
        /\ a <= EndAddress /\ a - job.start < Len(job.input)
    BY <1>1, <1>3, <2>1
  <2> QED BY <2>2, <2>3
<1>6. ASSUME NEW a \in Nat, a >= job.start, a <= EndAddress, a - job.start < Len(job.input)
      PROVE  a \in DOMAIN Wanted
  <2>1. a \in job.start..(job.start + n - 1)
    BY <1>1, <1>3, <1>6
  <2> QED BY <1>4, <2>1
<1> QED BY <1>5, <1>6

(* What is wanted and what needs erasing are settled before the first step. *)
LEMMA SameNeed ==
  ASSUME job' = job, old' = old
  PROVE  Wanted' = Wanted /\ \A b : HadToErase(b)' <=> HadToErase(b)
<1>1. Wanted' = Wanted
  BY DEF Wanted
<1> QED BY <1>1 DEF HadToErase

LEMMA KeepChip ==
  ASSUME VerifiedStays, OthersKept, chip' = chip, job' = job, address' = address, old' = old
  PROVE  VerifiedStays' /\ OthersKept'
  BY SameNeed DEF VerifiedStays, OthersKept

LEMMA KeepNeed ==
  ASSUME NeedInv, chip' = chip, job' = job, old' = old, address' = address,
         pc' = "erase" => HadToErase(address)
  PROVE  NeedInv'
  BY SameNeed DEF NeedInv

-----------------------------------------------------------------------------
(* The bytes of the sector that are wanted.                                *)
LEMMA SectorWanted ==
  ASSUME RomInv, Working
  PROVE  \A x \in 0..(Count - 1) : /\ address + x \in DOMAIN Wanted
                                   /\ At(buffer, x) = Wanted[address + x]
<1>1. WriteRomTypeOK
  BY DEF RomInv
<1>2. /\ Count \in Nat /\ address \in Nat /\ job.start \in Nat /\ EndAddress \in Nat
      /\ Len(job.input) \in Nat
  BY <1>1, JobFacts
<1>3. /\ address >= job.start /\ address + Count <= EndAddress + 1
      /\ (address - job.start) + Count <= Len(job.input)
      /\ \A x \in 0..(Count - 1) : At(buffer, x) = job.input[(address - job.start) + x + 1]
  BY DEF RomInv, PlaceInv, BufferInv
<1> SUFFICES ASSUME NEW x \in 0..(Count - 1)
             PROVE  address + x \in DOMAIN Wanted /\ At(buffer, x) = Wanted[address + x]
  OBVIOUS
<1>4. /\ address + x \in Nat /\ address + x >= job.start /\ address + x <= EndAddress
      /\ (address + x) - job.start < Len(job.input)
      /\ (address - job.start) + x + 1 = ((address + x) - job.start) + 1
  BY <1>2, <1>3
<1>5. address + x \in DOMAIN Wanted
  BY <1>1, <1>4, WantedFacts
<1>6. Wanted[address + x] = job.input[((address + x) - job.start) + 1]
  BY <1>1, <1>5, WantedFacts
<1> QED BY <1>3, <1>4, <1>5, <1>6

(* Erasing and writing touch nothing that was verified, and nothing that   *)
(* is not wanted but the rest of the sector.                               *)
LEMMA EraseKeeps ==
  ASSUME RomInv, EraseSector
  PROVE  VerifiedStays' /\ OthersKept' /\ NeedInv'
<1>1. Working /\ WriteRomTypeOK /\ VerifiedStays /\ OthersKept /\ NeedInv /\ HadToErase(address)
  BY DEF EraseSector, Working, RomInv, NeedInv
<1>2. /\ address' = address /\ job' = job /\ old' = old /\ Wanted' = Wanted
      /\ \A b : HadToErase(b)' <=> HadToErase(b)
  BY SameNeed DEF EraseSector
<1>3. \A b \in Addr : chip'[b] # chip[b] =>
        chip'[b] = Bits /\ b \in SectorOf(address) /\ b >= address
  BY EraseEffect
<1>4. DOMAIN Wanted \subseteq Addr
  BY <1>1, WantedFacts, JobFacts DEF Addr
<1>5. address \in Addr
  BY <1>1, SectorFacts
<1>7. VerifiedStays'
  <2> SUFFICES ASSUME NEW a \in DOMAIN Wanted, a < address PROVE chip'[a] = Wanted[a]
    BY <1>2 DEF VerifiedStays
  <2>1. a \in Addr /\ ~(a >= address)
    BY <1>4, <1>5 DEF Addr
  <2> QED BY <1>1, <1>3, <2>1 DEF VerifiedStays
<1>8. OthersKept'
  <2> SUFFICES ASSUME NEW b \in Addr \ DOMAIN Wanted
               PROVE  \/ chip'[b] = old[b]
                      \/ chip'[b] = Bits /\ HadToErase(b)
    BY <1>2 DEF OthersKept
  <2>1. CASE chip'[b] = chip[b]
    BY <1>1, <2>1 DEF OthersKept
  <2>2. CASE chip'[b] # chip[b]
    <3>1. chip'[b] = Bits /\ b \in SectorOf(address)
      BY <1>3, <2>2
    <3>2. SectorOf(b) = SectorOf(address)
      BY <1>5, <3>1, SameSector
    <3> QED BY <1>1, <3>1, <3>2 DEF HadToErase
  <2> QED BY <2>1, <2>2
<1>9. NeedInv'
  <2>1. ASSUME NEW a \in DOMAIN Wanted, Wanted[a] \ chip'[a] # {} PROVE HadToErase(a)
    <3>1. a \in Addr /\ (a - job.start) + 1 \in 1..Len(job.input)
      BY <1>1, <1>4, WantedFacts, JobFacts
    <3>2. job.input[(a - job.start) + 1] \in Byte
      BY <1>1, <3>1, JobFacts
    <3>3. Wanted[a] \subseteq Bits
      BY <1>1, <3>2, WantedFacts DEF Byte
    <3>4. chip'[a] = chip[a]
      BY <1>3, <2>1, <3>1, <3>3
    <3> QED BY <1>1, <2>1, <3>4 DEF NeedInv
  <2>2. HadToErase(address)'
    BY <1>1, <1>2, <1>5 DEF HadToErase
  <2> QED BY <1>2, <1>4, <2>1, <2>2 DEF NeedInv
<1> QED BY <1>7, <1>8, <1>9

LEMMA WriteKeeps ==
  ASSUME RomInv, WriteByte
  PROVE  VerifiedStays' /\ OthersKept' /\ NeedInv'
<1>1. Working /\ WriteRomTypeOK /\ VerifiedStays /\ OthersKept /\ NeedInv /\ i \in 0..(Count - 1)
  <2>1. i \in Nat /\ i < Count /\ Count \in Nat
    BY JobFacts DEF WriteByte, RomInv, IndexInv, WriteRomTypeOK
  <2> QED BY <2>1 DEF WriteByte, Working, RomInv
<1>2. /\ address' = address /\ job' = job /\ old' = old /\ Wanted' = Wanted
      /\ \A b : HadToErase(b)' <=> HadToErase(b)
  BY SameNeed DEF WriteByte
<1>3. /\ \A b \in Addr : chip'[b] # chip[b] => b = address + i
      /\ chip[address + i] \cap At(buffer, i) \subseteq chip'[address + i]
      /\ pc' # "erase"
  BY WriteEffect DEF WriteByte
<1>4. DOMAIN Wanted \subseteq Addr
  BY <1>1, WantedFacts, JobFacts DEF Addr
<1>5. address + i \in DOMAIN Wanted /\ At(buffer, i) = Wanted[address + i]
  BY <1>1, SectorWanted
<1>6. VerifiedStays'
  <2> SUFFICES ASSUME NEW a \in DOMAIN Wanted, a < address PROVE chip'[a] = Wanted[a]
    BY <1>2 DEF VerifiedStays
  <2>1. a \in Addr /\ a # address + i
    BY <1>1, <1>4, JobFacts DEF Addr
  <2> QED BY <1>1, <1>3, <2>1 DEF VerifiedStays
<1>7. OthersKept'
  BY <1>1, <1>2, <1>3, <1>5 DEF OthersKept
<1>8. NeedInv'
  <2>1. ASSUME NEW a \in DOMAIN Wanted, Wanted[a] \ chip'[a] # {} PROVE HadToErase(a)
    <3>1. Wanted[a] \ chip[a] # {}
      BY <1>3, <1>4, <1>5, <2>1
    <3> QED BY <1>1, <3>1 DEF NeedInv
  <2> QED BY <1>2, <1>3, <1>4, <2>1 DEF NeedInv
<1> QED BY <1>6, <1>7, <1>8

-----------------------------------------------------------------------------
(* The invariant holds at first, and every action keeps it.                *)
LEMMA RomInitInv == ASSUME Init PROVE RomInv
<1>1. WriteRomTypeOK
  <2>1. chip \in [Addr -> Byte] /\ old \in [Addr -> Byte] /\ Attempts \in Nat \ {0}
    BY WriteRomAssumption DEF Init
  <2>2. job.start \in 0..Size /\ Len(job.input) \in Nat /\ SectorSize \in Nat
    BY WriteRomAssumption, ChipAssumption DEF Init, Addr
  <2>3. <<>> \in Seq(Byte) /\ Len(buffer) = 0 /\ Len(sector) = 0
    BY DEF Init
  <2> QED BY <2>1, <2>2, <2>3 DEF Init, WriteRomTypeOK, ChipTypeOK, Commands, Count
<1>2. CmdInv /\ BufferInv /\ IndexInv
  BY DEF Init, CmdInv, CommandsComplete, BufferInv, Working, IndexInv
<1>3. PlaceInv
  BY <1>1, JobFacts DEF Init, PlaceInv, Working
<1>4. VerifiedStays
  <2> SUFFICES ASSUME NEW a \in DOMAIN Wanted, a < address PROVE FALSE
    BY DEF VerifiedStays
  <2> QED BY <1>1, WantedFacts, JobFacts DEF Init
<1>5. OthersKept
  BY DEF Init, OthersKept
<1>6. NeedInv
  <2>1. ASSUME NEW a \in DOMAIN Wanted, Wanted[a] \ chip[a] # {} PROVE HadToErase(a)
    <3>1. a \in Addr
      BY <1>1, WantedFacts, JobFacts DEF Addr
    <3>2. a \in SectorOf(a)
      BY <3>1 DEF SectorOf
    <3> QED BY <2>1, <3>2 DEF Init, HadToErase
  <2> QED BY <2>1 DEF Init, NeedInv
<1> QED BY <1>1, <1>2, <1>3, <1>4, <1>5, <1>6 DEF RomInv

LEMMA ReadFacts ==
  ASSUME RomInv, Working
  PROVE  /\ Read \in Seq(Byte) /\ Len(Read) = Count
         /\ \A x \in 0..(Count - 1) : At(Read, x) = chip[address + x]
<1>1. Count \in Nat /\ address \in Nat /\ chip \in [Addr -> Byte]
  BY JobFacts DEF RomInv, WriteRomTypeOK, ChipTypeOK
<1>2. \A x \in 1..Count : Pins(address + x - 1) = address + (x - 1) /\ address + (x - 1) \in Addr
  <2> SUFFICES ASSUME NEW x \in 1..Count
               PROVE  Pins(address + x - 1) = address + (x - 1) /\ address + (x - 1) \in Addr
    OBVIOUS
  <2>1. x - 1 \in 0..(Count - 1) /\ address + x - 1 = address + (x - 1)
    BY <1>1
  <2> QED BY <2>1, SectorFacts, PinsInChip
<1>3. Read = [x \in 1..Count |-> chip[address + (x - 1)]]
  BY <1>2 DEF Read
<1>4. Read \in [1..Count -> Byte]
  BY <1>1, <1>2, <1>3
<1>5. Read \in Seq(Byte) /\ Len(Read) = Count
  BY <1>1, <1>4
<1>6. ASSUME NEW x \in 0..(Count - 1) PROVE At(Read, x) = chip[address + x]
  <2>1. x + 1 \in 1..Count /\ (x + 1) - 1 = x
    BY <1>1
  <2> QED BY <1>3, <2>1 DEF At
<1> QED BY <1>5, <1>6

(* need_erase finds a byte that lacks a 1, and it is one of the sector.    *)
LEMMA NeedFacts ==
  ASSUME RomInv, Working, NeedErase(Read, buffer)
  PROVE  HadToErase(address)
<1>1. Count \in Nat /\ Count <= SectorSize /\ SectorSize \in Nat \ {0} /\ address \in Nat
  BY JobFacts DEF RomInv
<1>2. PICK y \in DOMAIN Read : buffer[y] \ Read[y] # {}
  BY DEF NeedErase
<1>3. y \in 1..Count
  BY <1>1, ReadFacts
<1> DEFINE x == y - 1
           a == address + x
<1>4. x \in 0..(Count - 1) /\ x + 1 = y /\ x \in 0..(SectorSize - 1)
  BY <1>1, <1>3
<1>5. At(buffer, x) \ At(Read, x) # {}
  BY <1>2, <1>4 DEF At
<1> HIDE DEF x
<1>6. a \in DOMAIN Wanted /\ Wanted[a] \ chip[a] # {}
  BY <1>4, <1>5, SectorWanted, ReadFacts
<1>7. a \in Addr /\ address \in Addr /\ address % SectorSize = 0
  BY <1>4, SectorFacts
<1>8. a % SectorSize = x
  BY <1>1, <1>4, <1>7, InSector
<1>9. a \in SectorOf(address)
  <2>1. a - (a % SectorSize) = address /\ address - (address % SectorSize) = address
    BY <1>1, <1>4, <1>7, <1>8
  <2> QED BY <1>7, <2>1 DEF SectorOf
<1>10. SectorOf(a) = SectorOf(address)
  BY <1>7, <1>9, SameSector
<1>11. HadToErase(a)
  BY <1>6 DEF RomInv, NeedInv
<1> QED BY <1>10, <1>11 DEF HadToErase

LEMMA StartInv == ASSUME RomInv, Start \/ FillError \/ Finish PROVE RomInv'
<1>1. /\ UNCHANGED <<chip, cmd, job, address, used, buffer, sector, attempts, i, cycle, old, bad>>
      /\ pc \in {"start", "fill"} /\ pc' \in {"fill", "error", "ok"}
  BY DEF Start, FillError, Finish
<1>2. WriteRomTypeOK'
  BY <1>1 DEF RomInv, WriteRomTypeOK, ChipTypeOK, Count
<1>3. CmdInv' /\ BufferInv' /\ IndexInv'
  BY <1>1 DEF RomInv, CmdInv, CommandsComplete, BufferInv, Working, IndexInv
<1>4. PlaceInv'
  <2>1. WriteRomTypeOK /\ PlaceInv
    BY DEF RomInv
  <2>2. CASE Start
    BY <1>1, <2>1, <2>2, JobFacts DEF Start, PlaceInv, Working, EndAddress, Count
  <2>3. CASE FillError
    BY <1>1, <2>1, <2>3 DEF FillError, PlaceInv, Working
  <2>4. CASE Finish
    <3>1. pc = "fill" /\ pc' = "ok" /\ (address > EndAddress \/ BytesRead = 0)
      BY <2>4 DEF Finish
    <3>2. BytesRead = 0 => used = Len(job.input)
      BY <2>1, JobFacts DEF BytesRead
    <3>3. address \in Nat /\ EndAddress \in Nat
      BY <2>1, JobFacts
    <3>4. address = EndAddress + 1 \/ address = job.start + used
      BY <2>1, <3>1 DEF PlaceInv
    <3>5. address <= EndAddress + 1
      BY <2>1, <3>1 DEF PlaceInv
    <3>6. address = EndAddress + 1 \/ address = job.start + Len(job.input)
      BY <3>1, <3>2, <3>3, <3>4, <3>5
    <3> QED BY <1>1, <2>1, <3>1, <3>6 DEF PlaceInv, Working, EndAddress
  <2> QED BY <2>2, <2>3, <2>4
<1>5. VerifiedStays' /\ OthersKept' /\ NeedInv'
  BY <1>1, KeepChip, KeepNeed DEF RomInv
<1> QED BY <1>2, <1>3, <1>4, <1>5 DEF RomInv

LEMMA FillInv == ASSUME RomInv, Fill PROVE RomInv'
<1> DEFINE n == BytesRead
           m == Clipped(n)
<1>1. /\ UNCHANGED <<chip, cmd, job, address, i, cycle, old>>
      /\ pc = "fill" /\ pc' = "check" /\ address <= EndAddress /\ n > 0
      /\ buffer' = SubSeq(job.input, used + 1, used + m)
      /\ used' = used + n /\ sector' = <<>> /\ bad' = {} /\ attempts' = Attempts
  BY DEF Fill
<1>2. WriteRomTypeOK /\ PlaceInv
  BY DEF RomInv
<1>0. /\ used \in Nat /\ address \in Nat /\ job.start \in Nat /\ EndAddress \in Nat
      /\ SectorSize \in Nat /\ Len(job.input) \in Nat /\ job.input \in Seq(Byte)
  BY <1>2, JobFacts
<1>3. /\ n \in Nat /\ n <= SectorSize /\ used + n <= Len(job.input)
      /\ n = SectorSize \/ used + n = Len(job.input)
  BY <1>2, JobFacts DEF BytesRead
<1>4. /\ m \in Nat /\ m >= 1 /\ m <= n /\ address + m <= EndAddress + 1
      /\ address + m = EndAddress + 1 \/ m = n
  BY <1>0, <1>1, <1>3 DEF Clipped
<1>5. address = job.start + used /\ address % SectorSize = 0
  BY <1>1, <1>2, <1>3, JobFacts DEF PlaceInv
<1> HIDE DEF n, m
<1>6. /\ buffer' \in Seq(Byte) /\ Len(buffer') = m
      /\ \A x \in 1..m : buffer'[x] = job.input[used + x]
  <2>1. /\ used + 1 \in Int /\ used + m \in Int /\ job.input \in Seq(Byte) /\ Len(job.input) \in Nat
        /\ (used + m) - (used + 1) + 1 = m /\ used + 1 <= used + m
    BY <1>0, <1>4
  <2>2. \A x \in (used + 1)..(used + m) : job.input[x] \in Byte
    <3>1. \A x \in (used + 1)..(used + m) : x \in 1..Len(job.input)
      BY <1>0, <1>3, <1>4
    <3> QED BY <2>1, <3>1
  <2>3. /\ SubSeq(job.input, used + 1, used + m) \in Seq(Byte)
        /\ Len(SubSeq(job.input, used + 1, used + m)) = m
        /\ \A x \in 1..m : SubSeq(job.input, used + 1, used + m)[x] = job.input[(used + 1) + x - 1]
    BY <2>1, <2>2, SubSeqProperties
  <2>4. \A x \in 1..m : (used + 1) + x - 1 = used + x
    BY <1>0, <1>4
  <2> QED BY <1>1, <2>3, <2>4
<1>7. Count' = m
  BY <1>6 DEF Count
<1>8. WriteRomTypeOK'
  <2>1. used' \in 0..Len(job.input)
    BY <1>0, <1>1, <1>3
  <2>2. sector' \in Seq(Byte) /\ Len(sector') = 0 /\ Attempts \in Nat
    BY <1>1, WriteRomAssumption
  <2>3. Count' <= SectorSize
    BY <1>0, <1>3, <1>4, <1>7
  <2>4. chip' \in [Addr -> Byte] /\ cmd' \in Commands
    BY <1>1, <1>2 DEF WriteRomTypeOK, ChipTypeOK
  <2>5. /\ job' \in Jobs /\ address' \in 0..Size /\ i' \in 0..SectorSize /\ cycle' \in 1..6
        /\ old' \in [Addr -> Byte] /\ bad' \subseteq 1..Attempts /\ attempts' \in 0..Attempts
    BY <1>1, <1>2, <2>2 DEF WriteRomTypeOK
  <2>6. used' \in 0..Len(job'.input) /\ Len(sector') \in {0, Count'}
    BY <1>1, <2>1, <2>2
  <2> QED BY <1>1, <1>6, <2>2, <2>3, <2>4, <2>5, <2>6 DEF WriteRomTypeOK, ChipTypeOK
<1>9. CmdInv' /\ IndexInv'
  BY <1>1 DEF RomInv, CmdInv, CommandsComplete, IndexInv
<1>10. BufferInv'
  <2>1. ASSUME NEW x \in 0..(m - 1)
        PROVE  buffer'[x + 1] = job.input[(address - job.start) + x + 1]
    <3>1. x + 1 \in 1..m /\ used + (x + 1) = (address - job.start) + x + 1
      BY <1>0, <1>4, <1>5
    <3> QED BY <1>6, <3>1
  <2>2. (address - job.start) + m <= Len(job.input) /\ EndAddress' = EndAddress
    <3>1. (address - job.start) + m <= Len(job.input)
      BY <1>0, <1>3, <1>4, <1>5
    <3> QED BY <1>1, <3>1 DEF EndAddress
  <2> QED BY <1>1, <1>4, <1>7, <2>1, <2>2 DEF BufferInv, Working, At
<1>11. PlaceInv'
  <2>1. \/ address + m = EndAddress + 1
        \/ /\ address + m = job.start + used'
           /\ m = SectorSize \/ used' = Len(job.input)
    <3>1. used' = used + n
      BY <1>1
    <3>2. m = n => address + m = job.start + (used + n)
      BY <1>0, <1>3, <1>4, <1>5
    <3>3. m = n => m = SectorSize \/ used + n = Len(job.input)
      BY <1>3
    <3> QED BY <1>4, <3>1, <3>2, <3>3
  <2>2. EndAddress' = EndAddress /\ address >= job.start
    BY <1>1, <1>2 DEF EndAddress, PlaceInv
  <2> QED BY <1>1, <1>5, <1>7, <2>1, <2>2 DEF PlaceInv, Working
<1>12. VerifiedStays' /\ OthersKept' /\ NeedInv'
  BY <1>1, KeepChip, KeepNeed DEF RomInv
<1> QED BY <1>8, <1>9, <1>10, <1>11, <1>12 DEF RomInv

LEMMA CheckInv == ASSUME RomInv, Verified \/ GiveUp \/ Attempt PROVE RomInv'
<1>1. /\ UNCHANGED <<chip, cmd, job, used, buffer, attempts, old, bad>>
      /\ pc = "check" /\ sector' = Read /\ Count' = Count /\ EndAddress' = EndAddress
  BY DEF Verified, GiveUp, Attempt, Count, EndAddress
<1>2. Working /\ WriteRomTypeOK /\ PlaceInv /\ BufferInv /\ VerifiedStays /\ OthersKept /\ NeedInv
  BY <1>1 DEF Working, RomInv
<1>0. /\ used \in Nat /\ address \in Nat /\ job.start \in Nat /\ EndAddress \in Nat /\ EndAddress < Size
      /\ SectorSize \in Nat \ {0} /\ Len(job.input) \in Nat /\ Count \in Nat /\ Count <= SectorSize
      /\ Size \in Nat
  BY <1>2, JobFacts
<1>3. /\ Count >= 1 /\ address + Count <= EndAddress + 1 /\ address >= job.start
      /\ address % SectorSize = 0
      /\ \/ address + Count = EndAddress + 1
         \/ /\ address + Count = job.start + used
            /\ Count = SectorSize \/ used = Len(job.input)
  BY <1>2 DEF BufferInv, PlaceInv
<1>4. Read \in Seq(Byte) /\ Len(Read) = Count
  BY <1>2, ReadFacts
<1>5. ASSUME address' \in 0..Size, i' \in 0..SectorSize, cycle' \in 1..6,
             pc' \in {"fill", "error", "erase", "update"}
      PROVE  WriteRomTypeOK'
  <2>1. chip' \in [Addr -> Byte] /\ cmd' \in Commands
    BY <1>1, <1>2 DEF WriteRomTypeOK, ChipTypeOK
  <2>2. /\ job' \in Jobs /\ old' \in [Addr -> Byte] /\ bad' \subseteq 1..Attempts
        /\ attempts' \in 0..Attempts /\ used' \in 0..Len(job'.input)
    BY <1>1, <1>2 DEF WriteRomTypeOK
  <2>3. /\ buffer' \in Seq(Byte) /\ sector' \in Seq(Byte)
        /\ Len(sector') \in {0, Count'} /\ Count' <= SectorSize
    BY <1>0, <1>1, <1>2, <1>4 DEF WriteRomTypeOK
  <2> QED BY <1>5, <2>1, <2>2, <2>3 DEF WriteRomTypeOK, ChipTypeOK
<1>6. cmd = "read"
  BY <1>1 DEF RomInv, CmdInv, CommandsComplete
<1>7. CASE Verified
  <2>1. Read = buffer /\ address' = address + Count /\ pc' = "fill" /\ UNCHANGED <<i, cycle>>
    BY <1>7 DEF Verified
  <2>2. WriteRomTypeOK'
    <3>1. address' \in 0..Size
      BY <1>0, <1>3, <2>1
    <3> QED BY <1>2, <1>5, <2>1, <3>1 DEF WriteRomTypeOK
  <2>3. CmdInv' /\ BufferInv' /\ IndexInv'
    BY <1>1, <1>6, <2>1 DEF CmdInv, CommandsComplete, BufferInv, Working, IndexInv
  <2>4. PlaceInv'
    <3>1. Count = SectorSize => (address + Count) % SectorSize = 0
      BY <1>0, <1>3, NextAligned
    <3>2. address' >= job.start /\ address' <= EndAddress + 1
      BY <1>0, <1>3, <2>1
    <3>3. \/ address' = EndAddress + 1
          \/ /\ address' = job.start + used
             /\ address' % SectorSize = 0 \/ used = Len(job.input)
      BY <1>3, <2>1, <3>1
    <3> QED BY <1>1, <2>1, <3>2, <3>3 DEF PlaceInv, Working
  <2>5. VerifiedStays'
    <3>1. Wanted' = Wanted
      BY <1>1 DEF Wanted
    <3> SUFFICES ASSUME NEW a \in DOMAIN Wanted, a < address + Count PROVE chip[a] = Wanted[a]
      BY <1>1, <2>1, <3>1 DEF VerifiedStays
    <3>2. a \in Nat
      BY <1>2, WantedFacts
    <3>3. CASE a < address
      BY <1>2, <3>3 DEF VerifiedStays
    <3>4. CASE a >= address
      <4>1. a - address \in 0..(Count - 1) /\ address + (a - address) = a
        BY <1>0, <3>2, <3>4
      <4>2. At(buffer, a - address) = Wanted[a]
        BY <1>2, <4>1, SectorWanted
      <4>3. At(Read, a - address) = chip[a]
        BY <1>2, <4>1, ReadFacts
      <4> QED BY <2>1, <4>2, <4>3
    <3> QED BY <1>0, <3>2, <3>3, <3>4
  <2>6. OthersKept' /\ NeedInv'
    <3>1. Wanted' = Wanted /\ \A b : HadToErase(b)' <=> HadToErase(b)
      BY <1>1, SameNeed
    <3> QED BY <1>1, <1>2, <2>1, <3>1 DEF OthersKept, NeedInv
  <2> QED BY <2>2, <2>3, <2>4, <2>5, <2>6 DEF RomInv
<1>8. CASE GiveUp
  <2>1. address' = address /\ pc' = "error" /\ UNCHANGED <<i, cycle>>
    BY <1>8 DEF GiveUp
  <2>2. WriteRomTypeOK'
    BY <1>2, <1>5, <2>1 DEF WriteRomTypeOK
  <2>3. CmdInv' /\ BufferInv' /\ IndexInv' /\ PlaceInv'
    BY <1>1, <1>3, <1>6, <2>1 DEF CmdInv, CommandsComplete, BufferInv, Working, IndexInv, PlaceInv
  <2>4. VerifiedStays' /\ OthersKept' /\ NeedInv'
    BY <1>1, <1>2, <2>1, KeepChip, KeepNeed
  <2> QED BY <2>2, <2>3, <2>4 DEF RomInv
<1>9. CASE Attempt
  <2>1. /\ address' = address /\ cycle' = 1 /\ attempts > 0 /\ Read # buffer
        /\ \/ pc' = "erase" /\ i' = 0 /\ NeedErase(Read, buffer)
           \/ pc' = "update" /\ i' = Difference(Read, 0)
    BY <1>9 DEF Attempt
  <2>2. i' \in 0..Count /\ (pc' = "update" => i' < Count)
    <3>1. Difference(Read, 0) \in 0..Count
      BY <1>0, DifferenceRange
    <3>2. Difference(Read, 0) < Count
      BY <1>0, <1>2, <1>4, <2>1, SomeDifference DEF WriteRomTypeOK
    <3> QED BY <1>0, <2>1, <3>1, <3>2
  <2>3. WriteRomTypeOK'
    <3>1. i' \in 0..SectorSize
      BY <1>0, <2>2
    <3> QED BY <1>2, <1>5, <2>1, <3>1 DEF WriteRomTypeOK
  <2>4. CmdInv'
    BY <1>6, <1>1, <2>1 DEF CmdInv, CommandsComplete
  <2>5. BufferInv' /\ PlaceInv'
    BY <1>1, <1>2, <2>1 DEF BufferInv, PlaceInv, Working
  <2>6. IndexInv'
    BY <1>1, <1>2, <1>0, <2>1, <2>2 DEF IndexInv, WriteRomTypeOK
  <2>7. VerifiedStays' /\ OthersKept'
    BY <1>1, <1>2, <2>1, KeepChip
  <2>8. NeedInv'
    <3>1. pc' = "erase" => HadToErase(address)
      BY <1>2, <2>1, NeedFacts
    <3> QED BY <1>1, <1>2, <2>1, <3>1, KeepNeed
  <2> QED BY <2>3, <2>4, <2>5, <2>6, <2>7, <2>8 DEF RomInv
<1> QED BY <1>7, <1>8, <1>9

LEMMA EraseInv == ASSUME RomInv, EraseSector PROVE RomInv'
<1>1. /\ UNCHANGED <<job, address, used, buffer, sector, attempts, i, old>>
      /\ pc = "erase" /\ Count' = Count /\ EndAddress' = EndAddress
  BY DEF EraseSector, Count, EndAddress
<1>2. /\ ChipTypeOK' /\ CmdInv' /\ cycle' \in 1..6 /\ pc' \in {"erase", "write"} /\ i' = 0
      /\ bad' \subseteq 1..Attempts \cup {attempts}
  BY EraseEffect
<1>3. Working /\ WriteRomTypeOK /\ PlaceInv /\ BufferInv /\ IndexInv
  BY <1>1 DEF Working, RomInv
<1>4. attempts \in 1..Attempts
  BY <1>1, <1>3, WriteRomAssumption DEF IndexInv, WriteRomTypeOK
<1>5. WriteRomTypeOK'
  <2>1. bad' \subseteq 1..Attempts
    BY <1>2, <1>4
  <2> QED BY <1>1, <1>2, <1>3, <2>1 DEF WriteRomTypeOK
<1>6. BufferInv' /\ PlaceInv'
  BY <1>1, <1>2, <1>3 DEF BufferInv, PlaceInv, Working
<1>7. IndexInv'
  <2>1. i = 0 /\ Count >= 1 /\ 0 < Count
    BY <1>1, <1>2, <1>3, JobFacts DEF BufferInv
  <2> QED BY <1>1, <1>2, <1>4, <2>1 DEF IndexInv
<1>8. VerifiedStays' /\ OthersKept' /\ NeedInv'
  BY EraseKeeps
<1> QED BY <1>2, <1>5, <1>6, <1>7, <1>8 DEF RomInv

LEMMA WriteInv == ASSUME RomInv, WriteByte PROVE RomInv'
<1>1. /\ UNCHANGED <<job, address, used, buffer, sector, old>>
      /\ pc \in {"write", "update"} /\ Count' = Count /\ EndAddress' = EndAddress
  BY DEF WriteByte, Count, EndAddress
<1>2. /\ ChipTypeOK' /\ CmdInv' /\ cycle' \in 1..6
      /\ bad' \subseteq 1..Attempts \cup {attempts}
      /\ \/ i' = i /\ pc' = pc /\ attempts' = attempts
         \/ i' = Next_i /\ Next_i < Count /\ pc' = pc /\ attempts' = attempts
         \/ i' = Next_i /\ ~(Next_i < Count) /\ pc' = "check" /\ attempts' = attempts - 1
  BY WriteEffect
<1>3. Working /\ WriteRomTypeOK /\ PlaceInv /\ BufferInv /\ IndexInv
  BY <1>1 DEF Working, RomInv
<1>4. attempts \in 1..Attempts /\ Attempts \in Nat /\ i \in Nat /\ i < Count
      /\ Count \in Nat /\ Count <= SectorSize /\ SectorSize \in Nat
  BY <1>1, <1>3, WriteRomAssumption, JobFacts DEF IndexInv, WriteRomTypeOK
<1>5. Next_i \in 0..Count
  <2>1. Difference(sector, i + 1) \in 0..Count
    BY <1>4, DifferenceRange
  <2> QED BY <1>4, <2>1 DEF Next_i
<1>6. i' \in 0..Count /\ attempts' \in 0..Attempts /\ (pc' # "check" => i' < Count /\ attempts' = attempts)
  BY <1>1, <1>2, <1>4, <1>5
<1>7. WriteRomTypeOK'
  <2>1. bad' \subseteq 1..Attempts /\ i' \in 0..SectorSize
    BY <1>2, <1>4, <1>6
  <2>2. pc' \in {"write", "update", "check"}
    BY <1>1, <1>2
  <2> QED BY <1>1, <1>2, <1>3, <1>6, <2>1, <2>2 DEF WriteRomTypeOK
<1>8. BufferInv' /\ PlaceInv'
  BY <1>1, <1>2, <1>3 DEF BufferInv, PlaceInv, Working
<1>9. IndexInv'
  BY <1>1, <1>2, <1>4, <1>6 DEF IndexInv
<1>10. VerifiedStays' /\ OthersKept' /\ NeedInv'
  BY WriteKeeps
<1> QED BY <1>2, <1>7, <1>8, <1>9, <1>10 DEF RomInv

LEMMA RomStepInv == ASSUME RomInv, [Next]_romVars PROVE RomInv'
<1>1. CASE Next
  BY <1>1, StartInv, FillInv, CheckInv, EraseInv, WriteInv DEF Next
<1>2. CASE UNCHANGED romVars
  <2>1. NeedInv' /\ VerifiedStays' /\ OthersKept'
    BY <1>2, KeepChip, KeepNeed DEF romVars, RomInv, NeedInv
  <2> QED BY <1>2, <2>1 DEF romVars, RomInv, WriteRomTypeOK, ChipTypeOK, Count, CmdInv,
              CommandsComplete, BufferInv, Working, PlaceInv, EndAddress, IndexInv
<1> QED BY <1>1, <1>2

LEMMA RomAlways == Spec => []RomInv
BY RomInitInv, RomStepInv, PTL DEF Spec

-----------------------------------------------------------------------------
(* The types: buffers stay within a sector, addresses within the chip.     *)
THEOREM RomTypes == Spec => []WriteRomTypeOK
<1>1. RomInv => WriteRomTypeOK
  BY DEF RomInv
<1> QED BY <1>1, RomAlways, PTL

(* When the program turns to something else, the chip waits for no cycle.  *)
THEOREM RomCommands == Spec => []CommandsComplete
<1>1. RomInv => CommandsComplete
  BY DEF RomInv, CmdInv
<1> QED BY <1>1, RomAlways, PTL

(* A run that reports success has written the whole file, on any chip.     *)
THEOREM RomSuccess == Spec => []SuccessExact
<1>1. ASSUME RomInv PROVE SuccessExact
  <2> SUFFICES ASSUME pc = "ok", NEW a \in DOMAIN Wanted PROVE chip[a] = Wanted[a]
    BY DEF SuccessExact
  <2>1. WriteRomTypeOK /\ VerifiedStays
    BY <1>1 DEF RomInv
  <2>2. address = EndAddress + 1 \/ address = job.start + Len(job.input)
    BY <1>1 DEF RomInv, PlaceInv
  <2>3. a \in Nat /\ a <= EndAddress /\ a - job.start < Len(job.input)
    BY <2>1, WantedFacts
  <2>4. EndAddress \in Nat /\ job.start \in Nat /\ Len(job.input) \in Nat
    BY <2>1, JobFacts
  <2>5. a < address
    BY <2>2, <2>3, <2>4
  <2> QED BY <2>1, <2>5 DEF VerifiedStays
<1> QED BY <1>1, RomAlways, PTL

(* What was verified stays, at every point of a run.                       *)
THEOREM RomKeeps == Spec => []VerifiedStays
<1>1. RomInv => VerifiedStays
  BY DEF RomInv
<1> QED BY <1>1, RomAlways, PTL

(* Whatever becomes of a run, a byte it does not want written is as it was *)
(* or erased with its sector, and then the sector held a 0 where a 1 is    *)
(* wanted.                                                                 *)
THEOREM RomOthersKept == Spec => []OthersKept
<1>1. RomInv => OthersKept
  BY DEF RomInv
<1> QED BY <1>1, RomAlways, PTL
=============================================================================
