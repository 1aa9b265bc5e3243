------------------------------ MODULE WriteRom ------------------------------
(***************************************************************************)
(* The flash programmer (tools/memory/writerom.c): sector by sector it     *)
(* reads the chip, compares, erases if some bit has to become 1, writes,   *)
(* and reads again, up to three times.                                     *)
(*                                                                         *)
(* A step is one write cycle on the bus (write_byte_aux) with the loop     *)
(* around it, so whatever holds in every state also holds when the program *)
(* is killed between two cycles.  Reading a sector changes nothing and is  *)
(* part of the step that compares it.  A program without a file writes     *)
(* 00..ff over and over, as with a file of just that.                      *)
(***************************************************************************)
EXTENDS FlashChip, Sequences

CONSTANTS
    Jobs,       \* [start, length, input]: the arguments and the file's bytes
    Images,     \* what the chip may hold at first
    Attempts    \* 3

(* A length of 0 at address 0, and a range past the end of the chip, would *)
(* wrap around in end_address and in set_address.                          *)
ASSUME WriteRomAssumption ==
    /\ \A j \in Jobs : /\ j.start \in Addr /\ j.length \in Nat \ {0}
                       /\ j.start + j.length <= Size
                       /\ j.input \in Seq(Byte)
    /\ Images \subseteq [Addr -> Byte]
    /\ Attempts \in Nat \ {0}

VARIABLES
    pc,         \* start, fill, check, erase, write, update, ok, error
    job,
    address,
    used,       \* the position in the file
    buffer,     \* the bytes of the sector to be written, from 0
    sector,     \* the same bytes as read from the chip
    attempts,
    i,          \* the byte being written
    cycle,      \* the write cycle of erase_sector or write_byte to be made
    \* history
    old,        \* what the chip held at first
    bad         \* the attempts at this sector in which the chip failed

romVars ==
    <<chip, cmd, pc, job, address, used, buffer, sector, attempts, i, cycle, old, bad>>

Count == Len(buffer)
\* The buffers count from 0, a TLA+ sequence from 1.
At(buf, x) == buf[x + 1]

WriteRomTypeOK ==
    /\ ChipTypeOK
    /\ pc \in {"start", "fill", "check", "erase", "write", "update", "ok", "error"}
    /\ job \in Jobs
    /\ address \in 0..Size /\ used \in 0..Len(job.input)
    /\ buffer \in Seq(Byte) /\ sector \in Seq(Byte)
    /\ Len(sector) \in {0, Count} /\ Count <= SectorSize
    /\ attempts \in 0..Attempts
    /\ i \in 0..SectorSize
    /\ cycle \in 1..6
    /\ old \in [Addr -> Byte]
    /\ bad \subseteq 1..Attempts

Init ==
    /\ chip \in Images /\ cmd = "read"
    /\ pc = "start"
    /\ job \in Jobs
    /\ address = job.start /\ used = 0
    /\ buffer = <<>> /\ sector = <<>>
    /\ attempts = Attempts
    /\ i = 0 /\ cycle = 1
    /\ old = chip /\ bad = {}

-----------------------------------------------------------------------------
(* The start must be on a sector boundary; the file may be missing, or the *)
(* pins not to be had.                                                     *)
Start ==
    /\ pc = "start"
    /\ \/ pc' = "error"
       \/ pc' = "fill" /\ job.start % SectorSize = 0
    /\ UNCHANGED <<chip, cmd, job, address, used, buffer, sector, attempts, i, cycle, old, bad>>

EndAddress == job.start + job.length - 1

(* fread: what is left of the file, up to a sector.                        *)
(* A mutant: all that is left, past the end of the buffer.                 *)
BytesRead_All == Len(job.input) - used
BytesRead ==
    LET left == Len(job.input) - used
    IN  IF left < SectorSize THEN left ELSE SectorSize

(* bytes_read, not past end_address.                                       *)
(* A mutant: one less.                                                     *)
Clipped_Less(n) == IF address + n > EndAddress THEN EndAddress - address ELSE n
Clipped(n) == IF address + n > EndAddress THEN EndAddress - address + 1 ELSE n

Fill ==
    /\ pc = "fill"
    /\ address <= EndAddress /\ BytesRead > 0
    /\ buffer' = SubSeq(job.input, used + 1, used + Clipped(BytesRead))
    /\ used' = used + BytesRead
    /\ attempts' = Attempts
    /\ sector' = <<>> /\ bad' = {}
    /\ pc' = "check"
    /\ UNCHANGED <<chip, cmd, job, address, i, cycle, old>>

(* ferror(input): the program leaves at once.                              *)
FillError ==
    /\ pc = "fill"
    /\ address <= EndAddress
    /\ pc' = "error"
    /\ UNCHANGED <<chip, cmd, job, address, used, buffer, sector, attempts, i, cycle, old, bad>>

Finish ==
    /\ pc = "fill"
    /\ address > EndAddress \/ BytesRead = 0
    /\ pc' = "ok"
    /\ UNCHANGED <<chip, cmd, job, address, used, buffer, sector, attempts, i, cycle, old, bad>>

-----------------------------------------------------------------------------
(* set_address: the chip has 17 address pins.                              *)
Pins(a) == a % Size

Read == [x \in 1..Count |-> chip[Pins(address + x - 1)]]

(* A mutant: the operands are swapped.                                     *)
NeedErase_Swapped(a, b) == \E x \in DOMAIN a : a[x] \ b[x] # {}
(* A mutant: every sector that differs is erased.                          *)
NeedErase_Always(a, b) == TRUE
NeedErase(a, b) == \E x \in DOMAIN a : b[x] \ a[x] # {}

(* compare_sectors: the first difference from x on, or Count.              *)
Difference(a, x) ==
    LET diffs == {y \in x..(Count - 1) : At(a, y) # At(buffer, y)}
    IN  IF diffs = {} THEN Count ELSE CHOOSE y \in diffs : \A z \in diffs : y <= z

Verified ==
    /\ pc = "check"
    /\ Read = buffer
    /\ sector' = Read
    /\ address' = address + Count
    /\ pc' = "fill"
    /\ UNCHANGED <<chip, cmd, job, used, buffer, attempts, i, cycle, old, bad>>

GiveUp ==
    /\ pc = "check"
    /\ Read # buffer
    /\ attempts = 0
    /\ sector' = Read
    /\ pc' = "error"
    /\ UNCHANGED <<chip, cmd, job, address, used, buffer, attempts, i, cycle, old, bad>>

Attempt ==
    /\ pc = "check"
    /\ Read # buffer
    /\ attempts > 0
    /\ sector' = Read
    /\ IF NeedErase(Read, buffer)
         THEN pc' = "erase" /\ i' = 0
         ELSE pc' = "update" /\ i' = Difference(Read, 0)
    /\ cycle' = 1
    /\ UNCHANGED <<chip, cmd, job, address, used, buffer, attempts, old, bad>>

-----------------------------------------------------------------------------
(* write_byte_aux: one cycle of a command.                                 *)
Cycle(a, v) ==
    /\ WriteCycle(Pins(a), v)
    /\ bad' = IF chip' = Intended(Pins(a), v) THEN bad ELSE bad \cup {attempts}

(* A mutant: the mask leaves a bit too many out.                           *)
SectorBase_Wide(a) == a - (a % (2 * SectorSize))
SectorBase(a) == a - (a % SectorSize)

EraseCycles(a) ==
    << <<Unlock1, Key1>>, <<Unlock2, Key2>>, <<Unlock1, Erase>>,
       <<Unlock1, Key1>>, <<Unlock2, Key2>>, <<SectorBase(a), Sector>> >>

(* A mutant: the last cycle, with the byte itself, is missing.             *)
WriteCycles_Short(a, v) ==
    << <<Unlock1, Key1>>, <<Unlock2, Key2>>, <<Unlock1, Program>> >>
WriteCycles(a, v) ==
    << <<Unlock1, Key1>>, <<Unlock2, Key2>>, <<Unlock1, Program>>, <<a, v>> >>

EraseSector ==
    /\ pc = "erase"
    /\ LET c == EraseCycles(address)[cycle] IN Cycle(c[1], c[2])
    /\ IF cycle < Len(EraseCycles(address))
         THEN cycle' = cycle + 1 /\ UNCHANGED pc
         ELSE cycle' = 1 /\ pc' = "write"
    /\ UNCHANGED <<job, address, used, buffer, sector, attempts, i, old>>

(* The byte written after i: the next one, or the next that differs.       *)
Next_i == IF pc = "write" THEN i + 1 ELSE Difference(sector, i + 1)

(* A mutant: the attempts are not counted.                                 *)
Counted_Never == attempts
Counted == attempts - 1

WriteByte ==
    /\ pc \in {"write", "update"}
    /\ LET cycles == WriteCycles(address + i, At(buffer, i))
       IN  /\ Cycle(cycles[cycle][1], cycles[cycle][2])
           /\ IF cycle < Len(cycles)
                THEN cycle' = cycle + 1 /\ UNCHANGED <<i, pc, attempts>>
                ELSE /\ cycle' = 1
                     /\ i' = Next_i
                     /\ IF Next_i < Count THEN UNCHANGED <<pc, attempts>>
                        ELSE pc' = "check" /\ attempts' = Counted
    /\ UNCHANGED <<job, address, used, buffer, sector, old>>

Next ==
    \/ Start \/ Fill \/ FillError \/ Finish
    \/ Verified \/ GiveUp \/ Attempt
    \/ EraseSector \/ WriteByte

Spec == Init /\ [][Next]_romVars /\ WF_romVars(Next)

-----------------------------------------------------------------------------
(* What the chip is to hold: the file, as far as the length goes.          *)
Wanted ==
    LET n == IF Len(job.input) < job.length THEN Len(job.input) ELSE job.length
    IN  [a \in job.start..(job.start + n - 1) |-> job.input[a - job.start + 1]]

(* A run that reports success has written every byte of the file, as far   *)
(* as the length goes, whatever the chip held before and however often it  *)
(* failed.                                                                 *)
SuccessExact ==
    pc = "ok" => \A a \in DOMAIN Wanted : chip[a] = Wanted[a]

(* What has been verified stays so: no later sector's erasing or writing   *)
(* disturbs an earlier one, at no point at which the program may be killed *)
(* or give up.                                                             *)
VerifiedStays ==
    \A a \in DOMAIN Wanted : a < address => chip[a] = Wanted[a]

(* The sector of b cannot be written without erasing it: some byte wanted  *)
(* there has a 1 where the chip held a 0.  Programming takes no wanted 1   *)
(* away, so an attempt that failed adds no need of its own.                *)
HadToErase(b) == \E a \in SectorOf(b) \cap DOMAIN Wanted : Wanted[a] \ old[a] # {}

(* Outside the bytes to be written a byte is as it was, or erased with a   *)
(* sector that could not be written otherwise.                             *)
OthersKept ==
    \A b \in Addr \ DOMAIN Wanted :
        chip[b] = old[b] \/ (chip[b] = Bits /\ HadToErase(b))

(* A command is complete when the program turns to something else: the     *)
(* next cycle would be taken for its data, and a key written to $5555.     *)
CommandsComplete == pc \notin {"erase", "write", "update"} => cmd = "read"

(* The program gives up a sector only when the chip failed at each of its  *)
(* attempts: one attempt on a good chip makes any contents right.          *)
GivesUpOnBadChip == [][GiveUp => bad = 1..Attempts]_romVars

(* The program ends, also when the chip never works.                       *)
Ends == <>(pc \in {"ok", "error"})
=============================================================================
