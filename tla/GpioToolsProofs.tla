-------------------------- MODULE GpioToolsProofs ---------------------------
(***************************************************************************)
(* For every width of the address and the data lines, every image and      *)
(* every job: what the programmers' stores to the pins do to the memory.   *)
(* A program may be killed between any two stores and another started on   *)
(* the pins it left.                                                       *)
(*                                                                         *)
(* The invariant names the place in each routine, by the number of its     *)
(* stores done, and what the pins are there.                               *)
(***************************************************************************)
EXTENDS GpioTools, SequenceTheorems, TLAPS

-----------------------------------------------------------------------------
(* The pins.                                                               *)
PinTypeOK ==
    /\ functions \in [GpioPins -> {FuncInput, FuncOutput}]
    /\ saved \in [GpioPins -> {FuncInput, FuncOutput}]
    /\ latch \subseteq GpioPins

MemTypeOK ==
    /\ PinTypeOK
    /\ store \in [Cells -> MemByte] /\ wanted \in [Cells -> MemByte]
    /\ torn \subseteq Cells /\ writing \subseteq Cells
    /\ job \in ReadJobs /\ address \in Nat
    /\ got \in Seq(MemByte) /\ expect \in Seq(SUBSET MemByte)

(* What a routine r has still to do after k of its stores.                 *)
Rest(r, k) == SubSeq(r, k + 1, Len(r))

(* While we# may be low, ce# keeps its latch high, or the memory is in the *)
(* middle of a write: an address or a strobe may change only then.         *)
Guarded == ~Driven(WriteEnable) /\ ChipEnable \notin latch => Selected \in torn \cup writing

(* Nothing drives the data lines unless something drives oe#.              *)
Turned(f) == (\E p \in DataPins : f[p] = FuncOutput) => f[OutputEnable] = FuncOutput

-----------------------------------------------------------------------------
(* The pins after k stores of each routine.                                *)
Inputs == \A p \in DataPins : functions[p] = FuncInput
Outputs == \A p \in DataPins : functions[p] = FuncOutput
Configured == \A p \in Strobes \cup AddressPins : functions[p] = FuncOutput
Idle == Configured /\ Inputs /\ WriteEnable \in latch
At(c) == latch \cap AddressPins = c
Levels(v) == latch \cap DataPins = v

Configuring(k) ==
    /\ k >= 1 => functions[ChipEnable] = FuncOutput
    /\ k >= 2 => ChipEnable \in latch
    /\ k >= 3 => functions[WriteEnable] = FuncOutput
    /\ k >= 4 => WriteEnable \in latch
    /\ k >= 5 => functions[OutputEnable] = FuncOutput
    /\ k >= 6 => OutputEnable \in latch
    /\ k >= 7 => Inputs
    /\ k >= 11 => \A p \in AddressPins \cap Register(2) : functions[p] = FuncOutput
    /\ k >= 12 => Configured

Reading(c, k) ==
    /\ Idle
    /\ k >= 5 => ChipEnable \notin latch /\ OutputEnable \notin latch
    /\ k >= 6 => latch \cap AddressPins \subseteq c
    /\ k >= 7 => At(c)

(* The routine has set the address, at its third store, drives the data    *)
(* lines from store d on, and lets ce# and we# fall in stores s - 1 and s. *)
Writing(c, v, k, d, s) ==
    /\ Configured
    /\ k < d => Inputs
    /\ k >= 1 => OutputEnable \in latch
    /\ k < s => WriteEnable \in latch
    /\ k >= 2 => latch \cap AddressPins \subseteq c
    /\ k >= 3 => At(c)
    /\ k \in (s - 1)..(s + 5) => ChipEnable \notin latch
    /\ k \in s..(s + 5) => WriteEnable \notin latch
    /\ k \in (s + 1)..(s + 6) => Outputs
    /\ k >= s + 4 => latch \cap DataPins \subseteq v
    /\ k >= s + 5 => Levels(v)
    /\ k >= s + 6 => WriteEnable \in latch
    /\ k >= s + 7 => Inputs

(* And when it has set them the memory has it.                             *)
Stored(c, v, k, s) == k >= s + 5 => store[c] = v

Leaving(k) ==
    /\ WriteEnable \in latch
    /\ k = 0 => Idle
    /\ k >= 1 => OutputEnable \in latch
    /\ k = 1 => Inputs
    /\ k < 4 => functions[OutputEnable] = FuncOutput
    /\ k >= 2 => \A p \in DataPins : functions[p] = saved[p]
    /\ k >= 4 => functions[OutputEnable] = saved[OutputEnable]

-----------------------------------------------------------------------------
(* The samples taken.                                                      *)
Even == Len(expect) = Len(got)
Behind == Len(expect) = Len(got) + 1
Due(c) == expect[Len(expect)] = IF c \in torn THEN MemByte ELSE {wanted[c]}

(* Where the program is.                                                   *)
Finishing == disable_chip \o CopySaved

AtRest == pc \in {"start", "killed", "done"} /\ todo = <<>> /\ writing = {}
Left == pc = "done" => OutputEnable \in latch

InConfigure ==
    /\ pc = "enable" /\ writing = {} /\ Even
    /\ \E k \in 0..12 : todo = Rest(configure_pins, k) /\ Configuring(k)

InEnable ==
    /\ pc \in {"write", "read", "calls"} /\ writing = {} /\ Even /\ Idle
    /\ todo = <<>> \/ \E k \in 0..2 : todo = Rest(enable_chip, k)

InRead ==
    /\ pc \in {"read", "calls"} /\ writing = {}
    /\ \E c \in Cells, k \in 0..8 :
         /\ todo = Rest(read_byte(c), k) /\ Reading(c, k)
         /\ k < 8 => Behind /\ Due(c)
         /\ k = 8 => Even

InWrite ==
    /\ Even
    /\ \E c \in Cells, v \in MemByte :
         /\ writing = {c} /\ wanted[c] = v
         /\ \/ /\ pc = "write"
               /\ \E k \in 0..14 :
                    /\ todo = Rest(write_byte(c, v), k)
                    /\ Writing(c, v, k, 6, 5) /\ Stored(c, v, k, 5)
            \/ /\ pc = "calls"
               /\ \E k \in 0..17 :
                    /\ todo = Rest(write_byte_aux(c, v), k)
                    /\ Writing(c, v, k, 4, 8) /\ Stored(c, v, k, 8)

InFinish ==
    /\ pc = "exit" /\ writing = {} /\ Even
    /\ \E k \in 0..4 : todo = Rest(Finishing, k) /\ Leaving(k)

Place == (AtRest /\ Left) \/ InConfigure \/ InEnable \/ InRead \/ InWrite \/ InFinish

-----------------------------------------------------------------------------
(* readmem's progress.                                                     *)
Progress ==
    /\ pc = "calls" => tool = "writerom"
    /\ pc = "write" => tool = "writemem"
    /\ pc = "start" => got = <<>> /\ expect = <<>>
    /\ tool = "readmem" =>
         /\ pc \in {"enable", "read"} => address = job.start + Len(expect)
         /\ pc = "enable" => expect = <<>>
         /\ pc = "read" => Len(expect) <= job.length
         /\ pc = "exit" => Len(expect) = job.length
         /\ pc = "done" => Len(got) = job.length

SamplesTrue ==
    /\ Len(got) <= Len(expect)
    /\ \A k \in 1..Len(got) : got[k] \in expect[k]

Kept == \A c \in Cells \ (torn \cup writing) : store[c] = wanted[c]

MemInv ==
    /\ MemTypeOK /\ Guarded /\ Turned(functions) /\ Turned(saved) /\ Kept
    /\ Place /\ Progress /\ SamplesTrue

OneTool == tool \in CartTool \/ (tool \in MemTool /\ ~busy /\ MemInv)
-----------------------------------------------------------------------------
(* Routines as sequences of stores.                                        *)
Op == [do: {"function"}, pins: SUBSET GpioPins, to: {FuncInput, FuncOutput}]
      \cup [do: {"high", "low", "sample", "restore"}, pins: SUBSET GpioPins]

LEMMA Pins ==
  /\ AddressPins \subseteq 10..26 /\ DataPins \subseteq 2..9
  /\ AddressPins \subseteq GpioPins /\ DataPins \subseteq GpioPins
  /\ Strobes = {0, 1, 27} /\ Strobes \subseteq GpioPins
BY MemAssumption DEF AddressPins, DataPins, GpioPins, Strobes, ChipEnable,
   WriteEnable, OutputEnable

LEMMA Registers ==
  /\ Register(1) = 0..9 /\ Register(2) = 10..19 /\ Register(3) = 20..27
  /\ \A r \in 1..3 : Register(r) \subseteq GpioPins
<1>1. \A p \in GpioPins : /\ p \div 10 = 0 <=> p <= 9
                          /\ p \div 10 = 1 <=> (10 <= p /\ p <= 19)
                          /\ p \div 10 = 2 <=> 20 <= p
  BY DEF GpioPins
<1>2. Register(1) = 0..9
  BY <1>1 DEF Register, GpioPins
<1>3. Register(2) = 10..19
  BY <1>1 DEF Register, GpioPins
<1>4. Register(3) = 20..27
  BY <1>1 DEF Register, GpioPins
<1> QED BY <1>2, <1>3, <1>4 DEF Register

LEMMA DataRegisters ==
  /\ DataPins \cap Register(1) = DataPins
  /\ DataPins \cap Register(2) = {} /\ DataPins \cap Register(3) = {}
  /\ AddressPins \cap Register(1) = {}
  /\ AddressPins \subseteq Register(2) \cup Register(3)
<1>1. DataPins \subseteq 0..9 /\ AddressPins \subseteq 10..27 /\ AddressPins \subseteq 10..26
  BY Pins
<1>2. /\ Register(1) = 0..9 /\ Register(2) = 10..19 /\ Register(3) = 20..27
  BY Registers
<1>3. DataPins \cap Register(1) = DataPins
  BY <1>1, <1>2
<1>4. DataPins \cap Register(2) = {}
  BY <1>1, <1>2
<1>5. DataPins \cap Register(3) = {}
  BY <1>1, <1>2
<1>6. AddressPins \cap Register(1) = {}
  BY <1>1, <1>2
<1>7. AddressPins \subseteq Register(2) \cup Register(3)
  BY <1>1, <1>2
<1> QED BY <1>3, <1>4, <1>5, <1>6, <1>7

LEMMA Ops ==
  /\ \A P \in SUBSET GpioPins, f \in {FuncInput, FuncOutput} : Function(P, f) \in Op
  /\ \A P \in SUBSET GpioPins :
       High(P) \in Op /\ Low(P) \in Op /\ Sample(P) \in Op /\ Restore(P) \in Op
BY DEF Op, Function, High, Low, Sample, Restore

LEMMA RestStep ==
  ASSUME NEW S, NEW r \in Seq(S), NEW k \in 0..Len(r)
  PROVE  /\ Rest(r, k) = <<>> <=> k = Len(r)
         /\ k < Len(r) => /\ Head(Rest(r, k)) = r[k + 1]
                          /\ Tail(Rest(r, k)) = Rest(r, k + 1)
         /\ Rest(r, 0) = r
<1>1. Len(r) \in Nat /\ \A x \in 1..Len(r) : r[x] \in S
  BY LenProperties, ElementOfSeq
<1>2. CASE k = Len(r)
  <2>1. Rest(r, k) = <<>>
    BY <1>1, <1>2, SubSeqEmpty DEF Rest
  <2> QED BY <1>1, <1>2, <2>1, SubSeqFull DEF Rest
<1>3. CASE k < Len(r)
  <2>1. /\ Head(Rest(r, k)) = r[k + 1]
        /\ Tail(Rest(r, k)) = Rest(r, k + 1)
    BY <1>1, <1>3, HeadTailOfSubSeq DEF Rest
  <2>2. Len(Rest(r, k)) # 0
    BY <1>1, <1>3, SubSeqProperties, Z3 DEF Rest
  <2>3. Rest(r, k) # <<>>
    BY <2>2, EmptySeq
  <2> QED BY <1>1, <1>3, <2>1, <2>3, SubSeqFull DEF Rest
<1> QED BY <1>1, <1>2, <1>3

(* r is s, of length l, and then t, of length m.                           *)
Joins(r, s, t, l, m) ==
    /\ r \in Seq(Op) /\ Len(r) = l + m
    /\ \A x \in 1..(l + m) : r[x] = IF x <= l THEN s[x] ELSE t[x - l]

LEMMA Joined ==
  ASSUME NEW s, NEW t, NEW l, NEW m,
         s \in Seq(Op), t \in Seq(Op), Len(s) = l, Len(t) = m
  PROVE  Joins(s \o t, s, t, l, m)
<1>1. /\ s \o t \in Seq(Op)
      /\ Len(s \o t) = Len(s) + Len(t)
      /\ \A x \in 1..(Len(s) + Len(t)) :
            (s \o t)[x] = IF x <= Len(s) THEN s[x] ELSE t[x - Len(s)]
  BY ConcatProperties
<1> QED BY <1>1 DEF Joins

LEMMA Copied ==
  ASSUME NEW P \in SUBSET GpioPins, NEW f \in {FuncInput, FuncOutput}
  PROVE  /\ CopyFunctions(P, f) \in Seq(Op) /\ Len(CopyFunctions(P, f)) = 3
         /\ \A x \in 1..3 : CopyFunctions(P, f)[x] = Function(P \cap Register(x), f)
<1>1. \A x \in 1..3 : Function(P \cap Register(x), f) \in Op
  BY Ops
<1>2. CopyFunctions(P, f) \in [1..3 -> Op]
  BY <1>1 DEF CopyFunctions
<1>3. CopyFunctions(P, f) \in Seq(Op)
  <2>1. 3 \in Nat
    OBVIOUS
  <2>2. Seq(Op) = UNION {[1..l -> Op] : l \in Nat}
    BY SeqDef
  <2> QED BY <1>2, <2>1, <2>2
<1> QED BY <1>2, <1>3, LenProperties DEF CopyFunctions
LEMMA DataOps ==
  ASSUME NEW f \in {FuncInput, FuncOutput}
  PROVE  LET r == CopyFunctions(DataPins, f) IN
         /\ r \in Seq(Op) /\ Len(r) = 3
         /\ r[1] = Function(DataPins, f)
         /\ r[2] = Function({}, f) /\ r[3] = Function({}, f)
<1> DEFINE r == CopyFunctions(DataPins, f)
<1>1. DataPins \in SUBSET GpioPins
  BY Pins
<1>2. r \in Seq(Op) /\ Len(r) = 3
  BY <1>1, Copied
<1>3. \A x \in 1..3 : r[x] = Function(DataPins \cap Register(x), f)
  BY <1>1, Copied
<1>4. r[1] = Function(DataPins, f)
  BY <1>3, DataRegisters
<1>5. r[2] = Function({}, f)
  BY <1>3, DataRegisters
<1>6. r[3] = Function({}, f)
  BY <1>3, DataRegisters
<1> QED BY <1>2, <1>4, <1>5, <1>6

LEMMA PairOps ==
  ASSUME NEW a \in Op, NEW b \in Op
  PROVE  /\ <<a>> \in Seq(Op) /\ Len(<<a>>) = 1 /\ <<a>>[1] = a
         /\ <<a, b>> \in Seq(Op) /\ Len(<<a, b>>) = 2
         /\ <<a, b>>[1] = a /\ <<a, b>>[2] = b
OBVIOUS

LEMMA AddressOps ==
  ASSUME NEW c \in Cells
  PROVE  LET r == set_address(c) IN
         /\ r \in Seq(Op) /\ Len(r) = 2
         /\ r[1] = Low(AddressPins \ c) /\ r[2] = High(c)
<1>1. Low(AddressPins \ c) \in Op /\ High(c) \in Op
  <2>1. AddressPins \ c \in SUBSET GpioPins /\ c \in SUBSET GpioPins
    BY Pins DEF Cells
  <2> QED BY <2>1, Ops
<1> QED BY <1>1, PairOps DEF set_address

LEMMA LevelOps ==
  ASSUME NEW v \in MemByte
  PROVE  LET r == set_data(v) IN
         /\ r \in Seq(Op) /\ Len(r) = 2
         /\ r[1] = Low(DataPins \ v) /\ r[2] = High(v)
<1>1. Low(DataPins \ v) \in Op /\ High(v) \in Op
  <2>1. DataPins \ v \in SUBSET GpioPins /\ v \in SUBSET GpioPins
    BY Pins DEF MemByte
  <2> QED BY <2>1, Ops
<1> QED BY <1>1, PairOps DEF set_data

LEMMA StrobeOps ==
  \A P \in SUBSET Strobes : High(P) \in Op /\ Low(P) \in Op
                            /\ <<High(P)>> \in Seq(Op)
<1>1. \A P \in SUBSET Strobes : P \in SUBSET GpioPins
  BY Pins
<1>2. \A P \in SUBSET Strobes : High(P) \in Op /\ Low(P) \in Op
  BY <1>1, Ops
<1> QED BY <1>2, PairOps

LEMMA ReadOps ==
  ASSUME NEW c \in Cells
  PROVE  LET r == read_byte(c) IN
         /\ r \in Seq(Op) /\ Len(r) = 8
         /\ r[1] = Function(DataPins, FuncInput)
         /\ r[2] = Function({}, FuncInput) /\ r[3] = Function({}, FuncInput)
         /\ r[4] = High({WriteEnable}) /\ r[5] = Low({ChipEnable, OutputEnable})
         /\ r[6] = Low(AddressPins \ c) /\ r[7] = High(c)
         /\ r[8] = Sample(DataPins)
<1> DEFINE r1 == CopyFunctions(DataPins, FuncInput)
           r2 == <<High({WriteEnable}), Low({ChipEnable, OutputEnable})>>
           r3 == set_address(c)
           r4 == <<Sample(DataPins)>>
<1>1. /\ r1 \in Seq(Op) /\ Len(r1) = 3 /\ r1[1] = Function(DataPins, FuncInput)
      /\ r1[2] = Function({}, FuncInput) /\ r1[3] = Function({}, FuncInput)
  BY DataOps
<1>2. /\ r2 \in Seq(Op) /\ Len(r2) = 2 /\ r2[1] = High({WriteEnable})
      /\ r2[2] = Low({ChipEnable, OutputEnable})
  <2>1. {WriteEnable} \in SUBSET Strobes /\ {ChipEnable, OutputEnable} \in SUBSET Strobes
    BY DEF Strobes
  <2> QED BY <2>1, StrobeOps, PairOps
<1>3. r3 \in Seq(Op) /\ Len(r3) = 2 /\ r3[1] = Low(AddressPins \ c) /\ r3[2] = High(c)
  BY AddressOps
<1>4. r4 \in Seq(Op) /\ Len(r4) = 1 /\ r4[1] = Sample(DataPins)
  <2>1. Sample(DataPins) \in Op
    BY Pins, Ops
  <2> QED BY <2>1, PairOps
<1>5. read_byte(c) = ((r1 \o r2) \o r3) \o r4
  BY DEF read_byte, configure_data_pins_for_input
<1> HIDE DEF r1, r2, r3, r4
<1> DEFINE s2 == r1 \o r2
           s3 == s2 \o r3
           r == s3 \o r4
<1>6. Joins(s2, r1, r2, 3, 2)
  BY <1>1, <1>2, Joined
<1>7. Joins(s3, s2, r3, 5, 2)
  <2>1. s2 \in Seq(Op) /\ Len(s2) = 5
    BY <1>6 DEF Joins
  <2> QED BY <2>1, <1>3, Joined
<1>8. Joins(r, s3, r4, 7, 1)
  <2>1. s3 \in Seq(Op) /\ Len(s3) = 7
    BY <1>7 DEF Joins
  <2> QED BY <2>1, <1>4, Joined
<1> HIDE DEF s2, s3, r
<1>9. r[1] = r1[1] /\ r[2] = r1[2] /\ r[3] = r1[3]
  BY <1>6, <1>7, <1>8 DEF Joins
<1>10. r[4] = r2[1] /\ r[5] = r2[2]
  BY <1>6, <1>7, <1>8 DEF Joins
<1>11. r[6] = r3[1] /\ r[7] = r3[2]
  BY <1>7, <1>8 DEF Joins
<1>12. r[8] = r4[1]
  BY <1>8 DEF Joins
<1>13. r \in Seq(Op) /\ Len(r) = 8
  BY <1>8 DEF Joins
<1> QED
  BY <1>1, <1>2, <1>3, <1>4, <1>5, <1>9, <1>10, <1>11, <1>12, <1>13 DEF s2, s3, r
LEMMA WriteOps ==
  ASSUME NEW c \in Cells, NEW v \in MemByte
  PROVE  LET r == write_byte(c, v) IN
         /\ r \in Seq(Op) /\ Len(r) = 14
         /\ r[1] = High(Strobes)
         /\ r[2] = Low(AddressPins \ c) /\ r[3] = High(c)
         /\ r[4] = Low({ChipEnable}) /\ r[5] = Low({WriteEnable})
         /\ r[6] = Function(DataPins, FuncOutput)
         /\ r[7] = Function({}, FuncOutput) /\ r[8] = Function({}, FuncOutput)
         /\ r[9] = Low(DataPins \ v) /\ r[10] = High(v)
         /\ r[11] = High({WriteEnable})
         /\ r[12] = Function(DataPins, FuncInput)
         /\ r[13] = Function({}, FuncInput) /\ r[14] = Function({}, FuncInput)
<1> DEFINE r1 == <<High(Strobes)>>
           r2 == set_address(c)
           r3 == <<Low({ChipEnable}), Low({WriteEnable})>>
           r4 == CopyFunctions(DataPins, FuncOutput)
           r5 == set_data(v)
           r6 == <<High({WriteEnable})>>
           r7 == CopyFunctions(DataPins, FuncInput)
<1>1. /\ r1 \in Seq(Op) /\ Len(r1) = 1
      /\ r1[1] = High(Strobes)
  <2>1. Strobes \in SUBSET Strobes
    BY DEF Strobes
  <2> QED BY <2>1, StrobeOps, PairOps
<1>2. /\ r2 \in Seq(Op) /\ Len(r2) = 2
      /\ r2[1] = Low(AddressPins \ c)
      /\ r2[2] = High(c)
  BY AddressOps
<1>3. /\ r3 \in Seq(Op) /\ Len(r3) = 2
      /\ r3[1] = Low({ChipEnable})
      /\ r3[2] = Low({WriteEnable})
  <2>1. {ChipEnable} \in SUBSET Strobes /\ {WriteEnable} \in SUBSET Strobes
    BY DEF Strobes
  <2> QED BY <2>1, StrobeOps, PairOps
<1>4. /\ r4 \in Seq(Op) /\ Len(r4) = 3
      /\ r4[1] = Function(DataPins, FuncOutput)
      /\ r4[2] = Function({}, FuncOutput)
      /\ r4[3] = Function({}, FuncOutput)
  BY DataOps
<1>5. /\ r5 \in Seq(Op) /\ Len(r5) = 2
      /\ r5[1] = Low(DataPins \ v)
      /\ r5[2] = High(v)
  BY LevelOps
<1>6. /\ r6 \in Seq(Op) /\ Len(r6) = 1
      /\ r6[1] = High({WriteEnable})
  <2>1. {WriteEnable} \in SUBSET Strobes
    BY DEF Strobes
  <2> QED BY <2>1, StrobeOps, PairOps
<1>7. /\ r7 \in Seq(Op) /\ Len(r7) = 3
      /\ r7[1] = Function(DataPins, FuncInput)
      /\ r7[2] = Function({}, FuncInput)
      /\ r7[3] = Function({}, FuncInput)
  BY DataOps
<1>8. write_byte(c, v) = (((((r1 \o r2) \o r3) \o r4) \o r5) \o r6) \o r7
  BY DEF write_byte, configure_data_pins_for_input,
         configure_data_pins_for_output
<1> HIDE DEF r1, r2, r3, r4, r5, r6, r7
<1> DEFINE s2 == r1 \o r2
           s3 == s2 \o r3
           s4 == s3 \o r4
           s5 == s4 \o r5
           s6 == s5 \o r6
           r == s6 \o r7
<1>9. Joins(s2, r1, r2, 1, 2)
  BY <1>1, <1>2, Joined
<1>10. Joins(s3, s2, r3, 3, 2)
  <2>1. s2 \in Seq(Op) /\ Len(s2) = 3
    BY <1>9 DEF Joins
  <2> QED BY <2>1, <1>3, Joined
<1>11. Joins(s4, s3, r4, 5, 3)
  <2>1. s3 \in Seq(Op) /\ Len(s3) = 5
    BY <1>10 DEF Joins
  <2> QED BY <2>1, <1>4, Joined
<1>12. Joins(s5, s4, r5, 8, 2)
  <2>1. s4 \in Seq(Op) /\ Len(s4) = 8
    BY <1>11 DEF Joins
  <2> QED BY <2>1, <1>5, Joined
<1>13. Joins(s6, s5, r6, 10, 1)
  <2>1. s5 \in Seq(Op) /\ Len(s5) = 10
    BY <1>12 DEF Joins
  <2> QED BY <2>1, <1>6, Joined
<1>14. Joins(r, s6, r7, 11, 3)
  <2>1. s6 \in Seq(Op) /\ Len(s6) = 11
    BY <1>13 DEF Joins
  <2> QED BY <2>1, <1>7, Joined
<1> HIDE DEF s2, s3, s4, s5, s6, r
<1>15. r[1] = r1[1]
  BY <1>9, <1>10, <1>11, <1>12, <1>13, <1>14 DEF Joins
<1>16. r[2] = r2[1] /\ r[3] = r2[2]
  BY <1>9, <1>10, <1>11, <1>12, <1>13, <1>14 DEF Joins
<1>17. r[4] = r3[1] /\ r[5] = r3[2]
  BY <1>10, <1>11, <1>12, <1>13, <1>14 DEF Joins
<1>18. r[6] = r4[1] /\ r[7] = r4[2] /\ r[8] = r4[3]
  BY <1>11, <1>12, <1>13, <1>14 DEF Joins
<1>19. r[9] = r5[1] /\ r[10] = r5[2]
  BY <1>12, <1>13, <1>14 DEF Joins
<1>20. r[11] = r6[1]
  BY <1>13, <1>14 DEF Joins
<1>21. r[12] = r7[1] /\ r[13] = r7[2] /\ r[14] = r7[3]
  BY <1>14 DEF Joins
<1>22. r \in Seq(Op) /\ Len(r) = 14
  BY <1>14 DEF Joins
<1> QED
  BY <1>1, <1>2, <1>3, <1>4, <1>5, <1>6, <1>7, <1>8, <1>15, <1>16, <1>17,
     <1>18, <1>19, <1>20, <1>21, <1>22 DEF s2, s3, s4, s5, s6, r

LEMMA AuxOps ==
  ASSUME NEW c \in Cells, NEW v \in MemByte
  PROVE  LET r == write_byte_aux(c, v) IN
         /\ r \in Seq(Op) /\ Len(r) = 17
         /\ r[1] = High(Strobes)
         /\ r[2] = Low(AddressPins \ c) /\ r[3] = High(c)
         /\ r[4] = Function(DataPins, FuncOutput)
         /\ r[5] = Function({}, FuncOutput) /\ r[6] = Function({}, FuncOutput)
         /\ r[7] = Low({ChipEnable}) /\ r[8] = Low({WriteEnable})
         /\ r[9] = Function(DataPins, FuncOutput)
         /\ r[10] = Function({}, FuncOutput)
         /\ r[11] = Function({}, FuncOutput)
         /\ r[12] = Low(DataPins \ v) /\ r[13] = High(v)
         /\ r[14] = High({WriteEnable})
         /\ r[15] = Function(DataPins, FuncInput)
         /\ r[16] = Function({}, FuncInput) /\ r[17] = Function({}, FuncInput)
<1> DEFINE r1 == <<High(Strobes)>>
           r2 == set_address(c)
           r3 == CopyFunctions(DataPins, FuncOutput)
           r4 == <<Low({ChipEnable}), Low({WriteEnable})>>
           r5 == CopyFunctions(DataPins, FuncOutput)
           r6 == set_data(v)
           r7 == <<High({WriteEnable})>>
           r8 == CopyFunctions(DataPins, FuncInput)
<1>1. /\ r1 \in Seq(Op) /\ Len(r1) = 1
      /\ r1[1] = High(Strobes)
  <2>1. Strobes \in SUBSET Strobes
    BY DEF Strobes
  <2> QED BY <2>1, StrobeOps, PairOps
<1>2. /\ r2 \in Seq(Op) /\ Len(r2) = 2
      /\ r2[1] = Low(AddressPins \ c)
      /\ r2[2] = High(c)
  BY AddressOps
<1>3. /\ r3 \in Seq(Op) /\ Len(r3) = 3
      /\ r3[1] = Function(DataPins, FuncOutput)
      /\ r3[2] = Function({}, FuncOutput)
      /\ r3[3] = Function({}, FuncOutput)
  BY DataOps
<1>4. /\ r4 \in Seq(Op) /\ Len(r4) = 2
      /\ r4[1] = Low({ChipEnable})
      /\ r4[2] = Low({WriteEnable})
  <2>1. {ChipEnable} \in SUBSET Strobes /\ {WriteEnable} \in SUBSET Strobes
    BY DEF Strobes
  <2> QED BY <2>1, StrobeOps, PairOps
<1>5. /\ r5 \in Seq(Op) /\ Len(r5) = 3
      /\ r5[1] = Function(DataPins, FuncOutput)
      /\ r5[2] = Function({}, FuncOutput)
      /\ r5[3] = Function({}, FuncOutput)
  BY DataOps
<1>6. /\ r6 \in Seq(Op) /\ Len(r6) = 2
      /\ r6[1] = Low(DataPins \ v)
      /\ r6[2] = High(v)
  BY LevelOps
<1>7. /\ r7 \in Seq(Op) /\ Len(r7) = 1
      /\ r7[1] = High({WriteEnable})
  <2>1. {WriteEnable} \in SUBSET Strobes
    BY DEF Strobes
  <2> QED BY <2>1, StrobeOps, PairOps
<1>8. /\ r8 \in Seq(Op) /\ Len(r8) = 3
      /\ r8[1] = Function(DataPins, FuncInput)
      /\ r8[2] = Function({}, FuncInput)
      /\ r8[3] = Function({}, FuncInput)
  BY DataOps
<1>9. write_byte_aux(c, v) = ((((((r1 \o r2) \o r3) \o r4) \o r5) \o r6) \o r7) \o r8
  BY DEF write_byte_aux, configure_data_pins_for_input,
         configure_data_pins_for_output
<1> HIDE DEF r1, r2, r3, r4, r5, r6, r7, r8
<1> DEFINE s2 == r1 \o r2
           s3 == s2 \o r3
           s4 == s3 \o r4
           s5 == s4 \o r5
           s6 == s5 \o r6
           s7 == s6 \o r7
           r == s7 \o r8
<1>10. Joins(s2, r1, r2, 1, 2)
  BY <1>1, <1>2, Joined
<1>11. Joins(s3, s2, r3, 3, 3)
  <2>1. s2 \in Seq(Op) /\ Len(s2) = 3
    BY <1>10 DEF Joins
  <2> QED BY <2>1, <1>3, Joined
<1>12. Joins(s4, s3, r4, 6, 2)
  <2>1. s3 \in Seq(Op) /\ Len(s3) = 6
    BY <1>11 DEF Joins
  <2> QED BY <2>1, <1>4, Joined
<1>13. Joins(s5, s4, r5, 8, 3)
  <2>1. s4 \in Seq(Op) /\ Len(s4) = 8
    BY <1>12 DEF Joins
  <2> QED BY <2>1, <1>5, Joined
<1>14. Joins(s6, s5, r6, 11, 2)
  <2>1. s5 \in Seq(Op) /\ Len(s5) = 11
    BY <1>13 DEF Joins
  <2> QED BY <2>1, <1>6, Joined
<1>15. Joins(s7, s6, r7, 13, 1)
  <2>1. s6 \in Seq(Op) /\ Len(s6) = 13
    BY <1>14 DEF Joins
  <2> QED BY <2>1, <1>7, Joined
<1>16. Joins(r, s7, r8, 14, 3)
  <2>1. s7 \in Seq(Op) /\ Len(s7) = 14
    BY <1>15 DEF Joins
  <2> QED BY <2>1, <1>8, Joined
<1> HIDE DEF s2, s3, s4, s5, s6, s7, r
<1>17. r[1] = r1[1]
  BY <1>10, <1>11, <1>12, <1>13, <1>14, <1>15, <1>16 DEF Joins
<1>18. r[2] = r2[1] /\ r[3] = r2[2]
  BY <1>10, <1>11, <1>12, <1>13, <1>14, <1>15, <1>16 DEF Joins
<1>19. r[4] = r3[1] /\ r[5] = r3[2] /\ r[6] = r3[3]
  BY <1>11, <1>12, <1>13, <1>14, <1>15, <1>16 DEF Joins
<1>20. r[7] = r4[1] /\ r[8] = r4[2]
  BY <1>12, <1>13, <1>14, <1>15, <1>16 DEF Joins
<1>21. r[9] = r5[1] /\ r[10] = r5[2] /\ r[11] = r5[3]
  BY <1>13, <1>14, <1>15, <1>16 DEF Joins
<1>22. r[12] = r6[1] /\ r[13] = r6[2]
  BY <1>14, <1>15, <1>16 DEF Joins
<1>23. r[14] = r7[1]
  BY <1>15, <1>16 DEF Joins
<1>24. r[15] = r8[1] /\ r[16] = r8[2] /\ r[17] = r8[3]
  BY <1>16 DEF Joins
<1>25. r \in Seq(Op) /\ Len(r) = 17
  BY <1>16 DEF Joins
<1> QED
  BY <1>1, <1>2, <1>3, <1>4, <1>5, <1>6, <1>7, <1>8, <1>9, <1>17, <1>18,
     <1>19, <1>20, <1>21, <1>22, <1>23, <1>24, <1>25 DEF s2, s3, s4, s5,
     s6, s7, r

LEMMA FinishOps ==
  LET r == disable_chip \o CopySaved IN
  /\ r \in Seq(Op) /\ Len(r) = 4
  /\ r[1] = High(Strobes)
  /\ r[2] = Restore(Register(1)) /\ r[3] = Restore(Register(2))
  /\ r[4] = Restore(Register(3))
<1> DEFINE r1 == <<High(Strobes)>>
           r2 == CopySaved
<1>1. /\ r1 \in Seq(Op) /\ Len(r1) = 1
      /\ r1[1] = High(Strobes)
  <2>1. Strobes \in SUBSET Strobes
    BY DEF Strobes
  <2> QED BY <2>1, StrobeOps, PairOps
<1>2. /\ r2 \in Seq(Op) /\ Len(r2) = 3
      /\ r2[1] = Restore(Register(1))
      /\ r2[2] = Restore(Register(2))
      /\ r2[3] = Restore(Register(3))
  <2>1. \A x \in 1..3 : Restore(Register(x)) \in Op
    BY Registers, Ops
  <2>2. CopySaved \in [1..3 -> Op]
    BY <2>1 DEF CopySaved
  <2>3. Seq(Op) = UNION {[1..l -> Op] : l \in Nat} /\ 3 \in Nat
    BY SeqDef
  <2>4. CopySaved \in Seq(Op)
    BY <2>2, <2>3
  <2> QED BY <2>2, <2>4, LenProperties DEF CopySaved
<1>3. disable_chip \o CopySaved = r1 \o r2
  BY DEF disable_chip
<1> HIDE DEF r1, r2
<1> DEFINE r == r1 \o r2
<1>4. Joins(r, r1, r2, 1, 3)
  BY <1>1, <1>2, Joined
<1> HIDE DEF r
<1>5. r[1] = r1[1]
  BY <1>4 DEF Joins
<1>6. r[2] = r2[1] /\ r[3] = r2[2] /\ r[4] = r2[3]
  BY <1>4 DEF Joins
<1>7. r \in Seq(Op) /\ Len(r) = 4
  BY <1>4 DEF Joins
<1> QED
  BY <1>1, <1>2, <1>3, <1>5, <1>6, <1>7 DEF r

LEMMA ConfigureOps ==
  LET r == configure_pins IN
  /\ r \in Seq(Op) /\ Len(r) = 12
  /\ r[1] = Function({ChipEnable}, FuncOutput)
  /\ r[2] = High({ChipEnable})
  /\ r[3] = Function({WriteEnable}, FuncOutput)
  /\ r[4] = High({WriteEnable})
  /\ r[5] = Function({OutputEnable}, FuncOutput)
  /\ r[6] = High({OutputEnable})
  /\ r[7] = Function(DataPins, FuncInput)
  /\ r[8] = Function({}, FuncInput) /\ r[9] = Function({}, FuncInput)
  /\ r[10] = Function({}, FuncOutput)
  /\ r[11] = Function(AddressPins \cap Register(2), FuncOutput)
  /\ r[12] = Function(AddressPins \cap Register(3), FuncOutput)
<1> DEFINE r1 == << Function({ChipEnable}, FuncOutput), High({ChipEnable}),
              Function({WriteEnable}, FuncOutput), High({WriteEnable}),
              Function({OutputEnable}, FuncOutput), High({OutputEnable}) >>
           r2 == CopyFunctions(DataPins, FuncInput)
           r3 == CopyFunctions(AddressPins, FuncOutput)
<1>1. /\ r1 \in Seq(Op) /\ Len(r1) = 6
      /\ r1[1] = Function({ChipEnable}, FuncOutput)
      /\ r1[2] = High({ChipEnable})
      /\ r1[3] = Function({WriteEnable}, FuncOutput)
      /\ r1[4] = High({WriteEnable})
      /\ r1[5] = Function({OutputEnable}, FuncOutput)
      /\ r1[6] = High({OutputEnable})
  <2>1. \A p \in Strobes : {p} \in SUBSET Strobes /\ {p} \in SUBSET GpioPins
    BY Pins
  <2>2. \A p \in Strobes : Function({p}, FuncOutput) \in Op /\ High({p}) \in Op
    BY <2>1, Ops
  <2>3. ChipEnable \in Strobes /\ WriteEnable \in Strobes /\ OutputEnable \in Strobes
    BY DEF Strobes
  <2> QED BY <2>2, <2>3
<1>2. /\ r2 \in Seq(Op) /\ Len(r2) = 3
      /\ r2[1] = Function(DataPins, FuncInput)
      /\ r2[2] = Function({}, FuncInput)
      /\ r2[3] = Function({}, FuncInput)
  BY DataOps
<1>3. /\ r3 \in Seq(Op) /\ Len(r3) = 3
      /\ r3[1] = Function({}, FuncOutput)
      /\ r3[2] = Function(AddressPins \cap Register(2), FuncOutput)
      /\ r3[3] = Function(AddressPins \cap Register(3), FuncOutput)
  <2>1. AddressPins \in SUBSET GpioPins
    BY Pins
  <2>2. \A x \in 1..3 : r3[x] = Function(AddressPins \cap Register(x), FuncOutput)
    BY <2>1, Copied
  <2>3. r3[1] = Function({}, FuncOutput)
    BY <2>2, DataRegisters
  <2>4. /\ r3[2] = Function(AddressPins \cap Register(2), FuncOutput)
        /\ r3[3] = Function(AddressPins \cap Register(3), FuncOutput)
    BY <2>2
  <2>5. r3 \in Seq(Op) /\ Len(r3) = 3
    BY <2>1, Copied
  <2> QED BY <2>3, <2>4, <2>5
<1>4. configure_pins = (r1 \o r2) \o r3
  BY DEF configure_pins, configure_data_pins_for_input
<1> HIDE DEF r1, r2, r3
<1> DEFINE s2 == r1 \o r2
           r == s2 \o r3
<1>5. Joins(s2, r1, r2, 6, 3)
  BY <1>1, <1>2, Joined
<1>6. Joins(r, s2, r3, 9, 3)
  <2>1. s2 \in Seq(Op) /\ Len(s2) = 9
    BY <1>5 DEF Joins
  <2> QED BY <2>1, <1>3, Joined
<1> HIDE DEF s2, r
<1>7. r[1] = r1[1] /\ r[2] = r1[2] /\ r[3] = r1[3] /\ r[4] = r1[4] /\ r[5] = r1[5] /\ r[6] = r1[6]
  BY <1>5, <1>6 DEF Joins
<1>8. r[7] = r2[1] /\ r[8] = r2[2] /\ r[9] = r2[3]
  BY <1>5, <1>6 DEF Joins
<1>9. r[10] = r3[1] /\ r[11] = r3[2] /\ r[12] = r3[3]
  BY <1>6 DEF Joins
<1>10. r \in Seq(Op) /\ Len(r) = 12
  BY <1>6 DEF Joins
<1> QED
  BY <1>1, <1>2, <1>3, <1>4, <1>7, <1>8, <1>9, <1>10 DEF s2, r

LEMMA EnableOps ==
  LET r == enable_chip IN
  /\ r \in Seq(Op) /\ Len(r) = 2
  /\ r[1] = High({WriteEnable, OutputEnable}) /\ r[2] = Low({ChipEnable})
<1>1. {WriteEnable, OutputEnable} \in SUBSET Strobes /\ {ChipEnable} \in SUBSET Strobes
  BY DEF Strobes
<1> QED BY <1>1, StrobeOps, PairOps DEF enable_chip

LEMMA FinishingOps ==
  /\ Finishing \in Seq(Op) /\ Len(Finishing) = 4
  /\ Finishing[1] = High(Strobes) /\ Finishing[2] = Restore(Register(1))
  /\ Finishing[3] = Restore(Register(2)) /\ Finishing[4] = Restore(Register(3))
BY FinishOps DEF Finishing
-----------------------------------------------------------------------------
(* What a store does to the pins.                                          *)
LEMMA DoesFunction ==
  ASSUME NEW P, NEW f, Set(Function(P, f))
  PROVE  /\ functions' = [p \in GpioPins |-> IF p \in P THEN f ELSE functions[p]]
         /\ latch' = latch
BY DEF Set, Function

LEMMA DoesHigh ==
  ASSUME NEW P, PinTypeOK, Set(High(P))
  PROVE  functions' = functions /\ latch' = latch \cup P
BY DEF Set, High, PinTypeOK

LEMMA DoesLow ==
  ASSUME NEW P, PinTypeOK, Set(Low(P))
  PROVE  functions' = functions /\ latch' = latch \ P
BY DEF Set, Low, PinTypeOK

LEMMA DoesSample ==
  ASSUME NEW P, PinTypeOK, Set(Sample(P))
  PROVE  functions' = functions /\ latch' = latch
BY DEF Set, Sample, PinTypeOK

LEMMA DoesRestore ==
  ASSUME NEW P, Set(Restore(P))
  PROVE  /\ functions' = [p \in GpioPins |-> IF p \in P THEN saved[p] ELSE functions[p]]
         /\ latch' = latch
BY DEF Set, Restore

LEMMA SetTypes ==
  ASSUME PinTypeOK, NEW op \in Op, Set(op), saved' = saved
  PROVE  PinTypeOK'
<1>1. op.pins \in SUBSET GpioPins
  BY DEF Op
<1>2. CASE op.do = "function"
  <2>1. op = Function(op.pins, op.to) /\ op.to \in {FuncInput, FuncOutput}
    BY <1>2 DEF Op, Function
  <2>2. /\ functions' = [p \in GpioPins |-> IF p \in op.pins THEN op.to ELSE functions[p]]
        /\ latch' = latch
    BY <2>1, DoesFunction
  <2> QED BY <2>1, <2>2 DEF PinTypeOK
<1>3. CASE op.do = "restore"
  <2>1. /\ functions' = [p \in GpioPins |-> IF p \in op.pins THEN saved[p] ELSE functions[p]]
        /\ latch' = latch
    BY <1>3 DEF Set
  <2> QED BY <2>1 DEF PinTypeOK
<1>4. CASE op.do \notin {"function", "restore"}
  <2>1. functions' = functions /\ latch' \in {latch \cup op.pins, latch \ op.pins, latch}
    BY <1>4 DEF Set, PinTypeOK
  <2> QED BY <1>1, <2>1 DEF PinTypeOK
<1> QED BY <1>2, <1>3, <1>4

(* The memory is safe while we# is high.                                   *)
LEMMA HighSafe ==
  WriteEnable \in latch => Driven(WriteEnable) /\ ~Takes /\ Guarded
BY DEF Driven, Drives, Takes, Guarded, WriteEnable, PulledUp

LEMMA TurnedSafe ==
  Inputs \/ Configured => Turned(functions)
BY DEF Inputs, Configured, Turned, Strobes, FuncInput, FuncOutput

LEMMA PinsApart ==
  /\ \A p \in AddressPins \cup DataPins : p \notin Strobes
  /\ \A p \in AddressPins : p \notin DataPins
  /\ ChipEnable # WriteEnable /\ OutputEnable # WriteEnable /\ ChipEnable # OutputEnable
  /\ ChipEnable \in Strobes /\ WriteEnable \in Strobes /\ OutputEnable \in Strobes
<1>1. AddressPins \subseteq 10..26 /\ DataPins \subseteq 2..9
  BY Pins
<1>2. \A p \in 2..26 : p # 0 /\ p # 1 /\ p # 27
  OBVIOUS
<1>3. \A p \in AddressPins \cup DataPins : p \notin Strobes
  BY <1>1, <1>2 DEF Strobes, ChipEnable, WriteEnable, OutputEnable
<1>4. \A p \in AddressPins : p \notin DataPins
  BY <1>1
<1> QED BY <1>3, <1>4 DEF Strobes, ChipEnable, WriteEnable, OutputEnable

LEMMA PinRegisters ==
  /\ DataPins \subseteq GpioPins /\ OutputEnable \in GpioPins
  /\ \A p \in DataPins : p \in Register(1) /\ p \notin Register(2) /\ p \notin Register(3)
  /\ OutputEnable \in Register(3) /\ OutputEnable \notin Register(1)
  /\ OutputEnable \notin Register(2)
<1>1. \A p \in DataPins : p \in 2..9
  BY Pins
<1>2. \A p \in DataPins : p \in Register(1) /\ p \notin Register(2) /\ p \notin Register(3)
  BY <1>1, Registers
<1>3. /\ OutputEnable \in Register(3) /\ OutputEnable \notin Register(1)
      /\ OutputEnable \notin Register(2)
  BY Registers DEF OutputEnable
<1> QED BY <1>2, <1>3, Pins DEF Strobes

LEMMA ReadPins ==
  ASSUME PinTypeOK, NEW c \in Cells, NEW k \in 0..7, Reading(c, k),
         NEW op, op = read_byte(c)[k + 1], Set(op)
  PROVE  Reading(c, k + 1)'
<1> DEFINE r == read_byte(c)
<1>0. /\ r[1] = Function(DataPins, FuncInput)
      /\ r[2] = Function({}, FuncInput) /\ r[3] = Function({}, FuncInput)
      /\ r[4] = High({WriteEnable}) /\ r[5] = Low({ChipEnable, OutputEnable})
      /\ r[6] = Low(AddressPins \ c) /\ r[7] = High(c) /\ r[8] = Sample(DataPins)
      /\ op = r[k + 1]
  BY ReadOps
<1> HIDE DEF r
<1> USE DEF Reading, Idle, Inputs, Configured, At
<1>1. CASE k = 0
  <2>1. op = Function(DataPins, FuncInput)
    BY <1>1, <1>0
  <2>2. Idle'
    BY <2>1, DoesFunction, PinsApart, Pins
  <2> QED BY <1>1, <2>2
<1>2. CASE k \in {1, 2}
  <2>1. op = Function({}, FuncInput)
    BY <1>2, <1>0
  <2>2. Idle'
    BY <2>1, DoesFunction, Pins
  <2> QED BY <1>2, <2>2
<1>3. CASE k = 3
  <2>1. op = High({WriteEnable})
    BY <1>3, <1>0
  <2>2. Idle'
    BY <2>1, DoesHigh
  <2> QED BY <1>3, <2>2
<1>4. CASE k = 4
  <2>1. op = Low({ChipEnable, OutputEnable})
    BY <1>4, <1>0
  <2> QED BY <1>4, <2>1, DoesLow, PinsApart
<1>5. CASE k = 5
  <2>1. op = Low(AddressPins \ c)
    BY <1>5, <1>0
  <2>2. functions' = functions /\ latch' = latch \ (AddressPins \ c)
    BY <2>1, DoesLow
  <2>3. WriteEnable \in latch' /\ ChipEnable \notin latch' /\ OutputEnable \notin latch'
    BY <1>5, <2>2, PinsApart
  <2>4. latch' \cap AddressPins \subseteq c
    BY <2>2
  <2> QED BY <1>5, <2>2, <2>3, <2>4
<1>6. CASE k = 6
  <2>1. op = High(c)
    BY <1>6, <1>0
  <2>2. functions' = functions /\ latch' = latch \cup c
    BY <2>1, DoesHigh
  <2>3. c \subseteq AddressPins
    BY DEF Cells
  <2>4. WriteEnable \in latch' /\ ChipEnable \notin latch' /\ OutputEnable \notin latch'
    BY <1>6, <2>2, <2>3, PinsApart
  <2>5. latch' \cap AddressPins = c
    BY <1>6, <2>2, <2>3
  <2> QED BY <1>6, <2>2, <2>4, <2>5
<1>7. CASE k = 7
  <2>1. op = Sample(DataPins)
    BY <1>7, <1>0
  <2> QED BY <1>7, <2>1, DoesSample
<1> QED BY <1>1, <1>2, <1>3, <1>4, <1>5, <1>6, <1>7
LEMMA WritePins ==
  ASSUME PinTypeOK, NEW c \in Cells, NEW v \in MemByte,
         NEW k \in 0..13, Writing(c, v, k, 6, 5),
         NEW op, op = write_byte(c, v)[k + 1], Set(op)
  PROVE  Writing(c, v, k + 1, 6, 5)'
<1>a. /\ c \subseteq AddressPins /\ v \subseteq DataPins
      /\ \A p \in AddressPins : p \notin DataPins /\ p # ChipEnable /\ p # WriteEnable
      /\ \A p \in DataPins : p \notin AddressPins
  BY PinsApart DEF Cells, MemByte, Strobes
<1> DEFINE r == write_byte(c, v)
<1>0. /\ r[1] = High(Strobes)
      /\ r[2] = Low(AddressPins \ c)
      /\ r[3] = High(c)
      /\ r[4] = Low({ChipEnable})
      /\ r[5] = Low({WriteEnable})
      /\ r[6] = Function(DataPins, FuncOutput)
      /\ r[7] = Function({}, FuncOutput)
      /\ r[8] = Function({}, FuncOutput)
      /\ r[9] = Low(DataPins \ v)
      /\ r[10] = High(v)
      /\ r[11] = High({WriteEnable})
      /\ r[12] = Function(DataPins, FuncInput)
      /\ r[13] = Function({}, FuncInput)
      /\ r[14] = Function({}, FuncInput)
      /\ op = r[k + 1]
  BY WriteOps
<1> HIDE DEF r
<1> USE DEF Writing, Configured, Inputs, Outputs, At, Levels, Cells, MemByte
<1>1. CASE k = 0
  <2>1. op = High(Strobes)
    BY <1>1, <1>0
  <2>2. functions' = functions /\ latch' = latch \cup Strobes
    BY <2>1, DoesHigh
  <2> QED BY <1>1, <2>2, PinsApart, Pins
<1>2. CASE k = 1
  <2>1. op = Low(AddressPins \ c)
    BY <1>2, <1>0
  <2>2. functions' = functions /\ latch' = latch \ (AddressPins \ c)
    BY <2>1, DoesLow
  <2> QED BY <1>2, <2>2, PinsApart, Pins
<1>3. CASE k = 2
  <2>1. op = High(c)
    BY <1>3, <1>0
  <2>2. functions' = functions /\ latch' = latch \cup c
    BY <2>1, DoesHigh
  <2>3. Configured' /\ Inputs'
    BY <1>3, <2>2, PinsApart, Pins
  <2>4. OutputEnable \in latch' /\ WriteEnable \in latch'
    BY <1>3, <2>2, PinsApart, Pins
  <2>5. latch' \cap AddressPins = c
    <3>1. latch \cap AddressPins \subseteq c
      BY <1>3
    <3> QED BY <2>2, <3>1, <1>a
  <2> QED BY <1>3, <2>3, <2>4, <2>5
<1>4. CASE k = 3
  <2>1. op = Low({ChipEnable})
    BY <1>4, <1>0
  <2>2. functions' = functions /\ latch' = latch \ {ChipEnable}
    BY <2>1, DoesLow
  <2> QED BY <1>4, <2>2, PinsApart, Pins
<1>5. CASE k = 4
  <2>1. op = Low({WriteEnable})
    BY <1>5, <1>0
  <2>2. functions' = functions /\ latch' = latch \ {WriteEnable}
    BY <2>1, DoesLow
  <2>3. Configured' /\ Inputs'
    BY <1>5, <2>2, PinsApart, Pins
  <2>4. OutputEnable \in latch' /\ ChipEnable \notin latch' /\ WriteEnable \notin latch'
    BY <1>5, <2>2, PinsApart, Pins
  <2>5. latch' \cap AddressPins = c
    <3>1. latch \cap AddressPins = c
      BY <1>5
    <3> QED BY <2>2, <3>1, <1>a
  <2> QED BY <1>5, <2>3, <2>4, <2>5
<1>6. CASE k = 5
  <2>1. op = Function(DataPins, FuncOutput)
    BY <1>6, <1>0
  <2>2. /\ functions' = [p \in GpioPins |-> IF p \in DataPins THEN FuncOutput ELSE functions[p]]
        /\ latch' = latch
    BY <2>1, DoesFunction
  <2> QED BY <1>6, <2>2, PinsApart, Pins
<1>7. CASE k = 6
  <2>1. op = Function({}, FuncOutput)
    BY <1>7, <1>0
  <2>2. /\ functions' = [p \in GpioPins |-> IF p \in {} THEN FuncOutput ELSE functions[p]]
        /\ latch' = latch
    BY <2>1, DoesFunction
  <2> QED BY <1>7, <2>2, PinsApart, Pins
<1>8. CASE k = 7
  <2>1. op = Function({}, FuncOutput)
    BY <1>8, <1>0
  <2>2. /\ functions' = [p \in GpioPins |-> IF p \in {} THEN FuncOutput ELSE functions[p]]
        /\ latch' = latch
    BY <2>1, DoesFunction
  <2>3. Configured' /\ Outputs'
    BY <1>8, <2>2, PinsApart, Pins
  <2>4. OutputEnable \in latch' /\ ChipEnable \notin latch' /\ WriteEnable \notin latch'
    BY <1>8, <2>2, PinsApart, Pins
  <2>5. latch' \cap AddressPins = c
    <3>1. latch \cap AddressPins = c
      BY <1>8
    <3> QED BY <2>2, <3>1, <1>a
  <2> QED BY <1>8, <2>3, <2>4, <2>5
<1>9. CASE k = 8
  <2>1. op = Low(DataPins \ v)
    BY <1>9, <1>0
  <2>2. functions' = functions /\ latch' = latch \ (DataPins \ v)
    BY <2>1, DoesLow
  <2>3. Configured' /\ Outputs'
    BY <1>9, <2>2, PinsApart, Pins
  <2>4. OutputEnable \in latch' /\ ChipEnable \notin latch' /\ WriteEnable \notin latch'
    BY <1>9, <2>2, PinsApart, Pins
  <2>5. latch' \cap AddressPins = c
    <3>1. latch \cap AddressPins = c
      BY <1>9
    <3> QED BY <2>2, <3>1, <1>a
  <2>6. latch' \cap DataPins \subseteq v
    BY <1>9, <2>2, PinsApart, Pins
  <2> QED BY <1>9, <2>3, <2>4, <2>5, <2>6
<1>10. CASE k = 9
  <2>1. op = High(v)
    BY <1>10, <1>0
  <2>2. functions' = functions /\ latch' = latch \cup v
    BY <2>1, DoesHigh
  <2>3. Configured' /\ Outputs'
    BY <1>10, <2>2, PinsApart, Pins
  <2>4. OutputEnable \in latch' /\ ChipEnable \notin latch' /\ WriteEnable \notin latch'
    BY <1>10, <2>2, PinsApart, Pins
  <2>5. latch' \cap AddressPins = c
    <3>1. latch \cap AddressPins = c
      BY <1>10
    <3> QED BY <2>2, <3>1, <1>a
  <2>6. latch' \cap DataPins = v
    <3>1. latch \cap DataPins \subseteq v
      BY <1>10
    <3> QED BY <2>2, <3>1, <1>a
  <2> QED BY <1>10, <2>3, <2>4, <2>5, <2>6
<1>11. CASE k = 10
  <2>1. op = High({WriteEnable})
    BY <1>11, <1>0
  <2>2. functions' = functions /\ latch' = latch \cup {WriteEnable}
    BY <2>1, DoesHigh
  <2> QED BY <1>11, <2>2, PinsApart, Pins
<1>12. CASE k = 11
  <2>1. op = Function(DataPins, FuncInput)
    BY <1>12, <1>0
  <2>2. /\ functions' = [p \in GpioPins |-> IF p \in DataPins THEN FuncInput ELSE functions[p]]
        /\ latch' = latch
    BY <2>1, DoesFunction
  <2> QED BY <1>12, <2>2, PinsApart, Pins
<1>13. CASE k = 12
  <2>1. op = Function({}, FuncInput)
    BY <1>13, <1>0
  <2>2. /\ functions' = [p \in GpioPins |-> IF p \in {} THEN FuncInput ELSE functions[p]]
        /\ latch' = latch
    BY <2>1, DoesFunction
  <2> QED BY <1>13, <2>2, PinsApart, Pins
<1>14. CASE k = 13
  <2>1. op = Function({}, FuncInput)
    BY <1>14, <1>0
  <2>2. /\ functions' = [p \in GpioPins |-> IF p \in {} THEN FuncInput ELSE functions[p]]
        /\ latch' = latch
    BY <2>1, DoesFunction
  <2> QED BY <1>14, <2>2, PinsApart, Pins
<1> QED BY <1>1, <1>2, <1>3, <1>4, <1>5, <1>6, <1>7, <1>8, <1>9, <1>10, <1>11, <1>12, <1>13, <1>14

LEMMA AuxPins ==
  ASSUME PinTypeOK, NEW c \in Cells, NEW v \in MemByte,
         NEW k \in 0..16, Writing(c, v, k, 4, 8),
         NEW op, op = write_byte_aux(c, v)[k + 1], Set(op)
  PROVE  Writing(c, v, k + 1, 4, 8)'
<1>a. /\ c \subseteq AddressPins /\ v \subseteq DataPins
      /\ \A p \in AddressPins : p \notin DataPins /\ p # ChipEnable /\ p # WriteEnable
      /\ \A p \in DataPins : p \notin AddressPins
  BY PinsApart DEF Cells, MemByte, Strobes
<1> DEFINE r == write_byte_aux(c, v)
<1>0. /\ r[1] = High(Strobes)
      /\ r[2] = Low(AddressPins \ c)
      /\ r[3] = High(c)
      /\ r[4] = Function(DataPins, FuncOutput)
      /\ r[5] = Function({}, FuncOutput)
      /\ r[6] = Function({}, FuncOutput)
      /\ r[7] = Low({ChipEnable})
      /\ r[8] = Low({WriteEnable})
      /\ r[9] = Function(DataPins, FuncOutput)
      /\ r[10] = Function({}, FuncOutput)
      /\ r[11] = Function({}, FuncOutput)
      /\ r[12] = Low(DataPins \ v)
      /\ r[13] = High(v)
      /\ r[14] = High({WriteEnable})
      /\ r[15] = Function(DataPins, FuncInput)
      /\ r[16] = Function({}, FuncInput)
      /\ r[17] = Function({}, FuncInput)
      /\ op = r[k + 1]
  BY AuxOps
<1> HIDE DEF r
<1> USE DEF Writing, Configured, Inputs, Outputs, At, Levels, Cells, MemByte
<1>1. CASE k = 0
  <2>1. op = High(Strobes)
    BY <1>1, <1>0
  <2>2. functions' = functions /\ latch' = latch \cup Strobes
    BY <2>1, DoesHigh
  <2> QED BY <1>1, <2>2, PinsApart, Pins
<1>2. CASE k = 1
  <2>1. op = Low(AddressPins \ c)
    BY <1>2, <1>0
  <2>2. functions' = functions /\ latch' = latch \ (AddressPins \ c)
    BY <2>1, DoesLow
  <2> QED BY <1>2, <2>2, PinsApart, Pins
<1>3. CASE k = 2
  <2>1. op = High(c)
    BY <1>3, <1>0
  <2>2. functions' = functions /\ latch' = latch \cup c
    BY <2>1, DoesHigh
  <2>3. Configured' /\ Inputs'
    BY <1>3, <2>2, PinsApart, Pins
  <2>4. OutputEnable \in latch' /\ WriteEnable \in latch'
    BY <1>3, <2>2, PinsApart, Pins
  <2>5. latch' \cap AddressPins = c
    <3>1. latch \cap AddressPins \subseteq c
      BY <1>3
    <3> QED BY <2>2, <3>1, <1>a
  <2> QED BY <1>3, <2>3, <2>4, <2>5
<1>4. CASE k = 3
  <2>1. op = Function(DataPins, FuncOutput)
    BY <1>4, <1>0
  <2>2. /\ functions' = [p \in GpioPins |-> IF p \in DataPins THEN FuncOutput ELSE functions[p]]
        /\ latch' = latch
    BY <2>1, DoesFunction
  <2> QED BY <1>4, <2>2, PinsApart, Pins
<1>5. CASE k = 4
  <2>1. op = Function({}, FuncOutput)
    BY <1>5, <1>0
  <2>2. /\ functions' = [p \in GpioPins |-> IF p \in {} THEN FuncOutput ELSE functions[p]]
        /\ latch' = latch
    BY <2>1, DoesFunction
  <2> QED BY <1>5, <2>2, PinsApart, Pins
<1>6. CASE k = 5
  <2>1. op = Function({}, FuncOutput)
    BY <1>6, <1>0
  <2>2. /\ functions' = [p \in GpioPins |-> IF p \in {} THEN FuncOutput ELSE functions[p]]
        /\ latch' = latch
    BY <2>1, DoesFunction
  <2> QED BY <1>6, <2>2, PinsApart, Pins
<1>7. CASE k = 6
  <2>1. op = Low({ChipEnable})
    BY <1>7, <1>0
  <2>2. functions' = functions /\ latch' = latch \ {ChipEnable}
    BY <2>1, DoesLow
  <2> QED BY <1>7, <2>2, PinsApart, Pins
<1>8. CASE k = 7
  <2>1. op = Low({WriteEnable})
    BY <1>8, <1>0
  <2>2. functions' = functions /\ latch' = latch \ {WriteEnable}
    BY <2>1, DoesLow
  <2>3. Configured'
    BY <1>8, <2>2, PinsApart, Pins
  <2>4. OutputEnable \in latch' /\ ChipEnable \notin latch' /\ WriteEnable \notin latch'
    BY <1>8, <2>2, PinsApart, Pins
  <2>5. latch' \cap AddressPins = c
    <3>1. latch \cap AddressPins = c
      BY <1>8
    <3> QED BY <2>2, <3>1, <1>a
  <2> QED BY <1>8, <2>3, <2>4, <2>5
<1>9. CASE k = 8
  <2>1. op = Function(DataPins, FuncOutput)
    BY <1>9, <1>0
  <2>2. /\ functions' = [p \in GpioPins |-> IF p \in DataPins THEN FuncOutput ELSE functions[p]]
        /\ latch' = latch
    BY <2>1, DoesFunction
  <2> QED BY <1>9, <2>2, PinsApart, Pins
<1>10. CASE k = 9
  <2>1. op = Function({}, FuncOutput)
    BY <1>10, <1>0
  <2>2. /\ functions' = [p \in GpioPins |-> IF p \in {} THEN FuncOutput ELSE functions[p]]
        /\ latch' = latch
    BY <2>1, DoesFunction
  <2> QED BY <1>10, <2>2, PinsApart, Pins
<1>11. CASE k = 10
  <2>1. op = Function({}, FuncOutput)
    BY <1>11, <1>0
  <2>2. /\ functions' = [p \in GpioPins |-> IF p \in {} THEN FuncOutput ELSE functions[p]]
        /\ latch' = latch
    BY <2>1, DoesFunction
  <2>3. Configured' /\ Outputs'
    BY <1>11, <2>2, PinsApart, Pins
  <2>4. OutputEnable \in latch' /\ ChipEnable \notin latch' /\ WriteEnable \notin latch'
    BY <1>11, <2>2, PinsApart, Pins
  <2>5. latch' \cap AddressPins = c
    <3>1. latch \cap AddressPins = c
      BY <1>11
    <3> QED BY <2>2, <3>1, <1>a
  <2> QED BY <1>11, <2>3, <2>4, <2>5
<1>12. CASE k = 11
  <2>1. op = Low(DataPins \ v)
    BY <1>12, <1>0
  <2>2. functions' = functions /\ latch' = latch \ (DataPins \ v)
    BY <2>1, DoesLow
  <2>3. Configured' /\ Outputs'
    BY <1>12, <2>2, PinsApart, Pins
  <2>4. OutputEnable \in latch' /\ ChipEnable \notin latch' /\ WriteEnable \notin latch'
    BY <1>12, <2>2, PinsApart, Pins
  <2>5. latch' \cap AddressPins = c
    <3>1. latch \cap AddressPins = c
      BY <1>12
    <3> QED BY <2>2, <3>1, <1>a
  <2>6. latch' \cap DataPins \subseteq v
    BY <1>12, <2>2, PinsApart, Pins
  <2> QED BY <1>12, <2>3, <2>4, <2>5, <2>6
<1>13. CASE k = 12
  <2>1. op = High(v)
    BY <1>13, <1>0
  <2>2. functions' = functions /\ latch' = latch \cup v
    BY <2>1, DoesHigh
  <2>3. Configured' /\ Outputs'
    BY <1>13, <2>2, PinsApart, Pins
  <2>4. OutputEnable \in latch' /\ ChipEnable \notin latch' /\ WriteEnable \notin latch'
    BY <1>13, <2>2, PinsApart, Pins
  <2>5. latch' \cap AddressPins = c
    <3>1. latch \cap AddressPins = c
      BY <1>13
    <3> QED BY <2>2, <3>1, <1>a
  <2>6. latch' \cap DataPins = v
    <3>1. latch \cap DataPins \subseteq v
      BY <1>13
    <3> QED BY <2>2, <3>1, <1>a
  <2> QED BY <1>13, <2>3, <2>4, <2>5, <2>6
<1>14. CASE k = 13
  <2>1. op = High({WriteEnable})
    BY <1>14, <1>0
  <2>2. functions' = functions /\ latch' = latch \cup {WriteEnable}
    BY <2>1, DoesHigh
  <2> QED BY <1>14, <2>2, PinsApart, Pins
<1>15. CASE k = 14
  <2>1. op = Function(DataPins, FuncInput)
    BY <1>15, <1>0
  <2>2. /\ functions' = [p \in GpioPins |-> IF p \in DataPins THEN FuncInput ELSE functions[p]]
        /\ latch' = latch
    BY <2>1, DoesFunction
  <2> QED BY <1>15, <2>2, PinsApart, Pins
<1>16. CASE k = 15
  <2>1. op = Function({}, FuncInput)
    BY <1>16, <1>0
  <2>2. /\ functions' = [p \in GpioPins |-> IF p \in {} THEN FuncInput ELSE functions[p]]
        /\ latch' = latch
    BY <2>1, DoesFunction
  <2> QED BY <1>16, <2>2, PinsApart, Pins
<1>17. CASE k = 16
  <2>1. op = Function({}, FuncInput)
    BY <1>17, <1>0
  <2>2. /\ functions' = [p \in GpioPins |-> IF p \in {} THEN FuncInput ELSE functions[p]]
        /\ latch' = latch
    BY <2>1, DoesFunction
  <2> QED BY <1>17, <2>2, PinsApart, Pins
<1> QED BY <1>1, <1>2, <1>3, <1>4, <1>5, <1>6, <1>7, <1>8, <1>9, <1>10, <1>11, <1>12, <1>13, <1>14, <1>15, <1>16, <1>17

LEMMA ConfigurePins ==
  ASSUME PinTypeOK, NEW k \in 0..11, Configuring(k),
         NEW op, op = configure_pins[k + 1], Set(op)
  PROVE  Configuring(k + 1)'
<1> DEFINE r == configure_pins
<1>0. /\ r[1] = Function({ChipEnable}, FuncOutput)
      /\ r[2] = High({ChipEnable})
      /\ r[3] = Function({WriteEnable}, FuncOutput)
      /\ r[4] = High({WriteEnable})
      /\ r[5] = Function({OutputEnable}, FuncOutput)
      /\ r[6] = High({OutputEnable})
      /\ r[7] = Function(DataPins, FuncInput)
      /\ r[8] = Function({}, FuncInput)
      /\ r[9] = Function({}, FuncInput)
      /\ r[10] = Function({}, FuncOutput)
      /\ r[11] = Function(AddressPins \cap Register(2), FuncOutput)
      /\ r[12] = Function(AddressPins \cap Register(3), FuncOutput)
      /\ op = r[k + 1]
  BY ConfigureOps
<1> HIDE DEF r
<1> USE DEF Configuring, Configured, Inputs
<1>1. CASE k = 0
  <2>1. op = Function({ChipEnable}, FuncOutput)
    BY <1>1, <1>0
  <2>2. /\ functions' = [p \in GpioPins |-> IF p \in {ChipEnable} THEN FuncOutput ELSE functions[p]]
        /\ latch' = latch
    BY <2>1, DoesFunction
  <2> QED BY <1>1, <2>2, PinsApart, Pins
<1>2. CASE k = 1
  <2>1. op = High({ChipEnable})
    BY <1>2, <1>0
  <2>2. functions' = functions /\ latch' = latch \cup {ChipEnable}
    BY <2>1, DoesHigh
  <2> QED BY <1>2, <2>2, PinsApart, Pins
<1>3. CASE k = 2
  <2>1. op = Function({WriteEnable}, FuncOutput)
    BY <1>3, <1>0
  <2>2. /\ functions' = [p \in GpioPins |-> IF p \in {WriteEnable} THEN FuncOutput ELSE functions[p]]
        /\ latch' = latch
    BY <2>1, DoesFunction
  <2> QED BY <1>3, <2>2, PinsApart, Pins
<1>4. CASE k = 3
  <2>1. op = High({WriteEnable})
    BY <1>4, <1>0
  <2>2. functions' = functions /\ latch' = latch \cup {WriteEnable}
    BY <2>1, DoesHigh
  <2> QED BY <1>4, <2>2, PinsApart, Pins
<1>5. CASE k = 4
  <2>1. op = Function({OutputEnable}, FuncOutput)
    BY <1>5, <1>0
  <2>2. /\ functions' = [p \in GpioPins |-> IF p \in {OutputEnable} THEN FuncOutput ELSE functions[p]]
        /\ latch' = latch
    BY <2>1, DoesFunction
  <2> QED BY <1>5, <2>2, PinsApart, Pins
<1>6. CASE k = 5
  <2>1. op = High({OutputEnable})
    BY <1>6, <1>0
  <2>2. functions' = functions /\ latch' = latch \cup {OutputEnable}
    BY <2>1, DoesHigh
  <2> QED BY <1>6, <2>2, PinsApart, Pins
<1>7. CASE k = 6
  <2>1. op = Function(DataPins, FuncInput)
    BY <1>7, <1>0
  <2>2. /\ functions' = [p \in GpioPins |-> IF p \in DataPins THEN FuncInput ELSE functions[p]]
        /\ latch' = latch
    BY <2>1, DoesFunction
  <2> QED BY <1>7, <2>2, PinsApart, Pins
<1>8. CASE k = 7
  <2>1. op = Function({}, FuncInput)
    BY <1>8, <1>0
  <2>2. /\ functions' = [p \in GpioPins |-> IF p \in {} THEN FuncInput ELSE functions[p]]
        /\ latch' = latch
    BY <2>1, DoesFunction
  <2> QED BY <1>8, <2>2, PinsApart, Pins
<1>9. CASE k = 8
  <2>1. op = Function({}, FuncInput)
    BY <1>9, <1>0
  <2>2. /\ functions' = [p \in GpioPins |-> IF p \in {} THEN FuncInput ELSE functions[p]]
        /\ latch' = latch
    BY <2>1, DoesFunction
  <2> QED BY <1>9, <2>2, PinsApart, Pins
<1>10. CASE k = 9
  <2>1. op = Function({}, FuncOutput)
    BY <1>10, <1>0
  <2>2. /\ functions' = [p \in GpioPins |-> IF p \in {} THEN FuncOutput ELSE functions[p]]
        /\ latch' = latch
    BY <2>1, DoesFunction
  <2> QED BY <1>10, <2>2, PinsApart, Pins
<1>11. CASE k = 10
  <2>1. op = Function(AddressPins \cap Register(2), FuncOutput)
    BY <1>11, <1>0
  <2>2. /\ functions' = [p \in GpioPins |-> IF p \in AddressPins \cap Register(2) THEN FuncOutput ELSE functions[p]]
        /\ latch' = latch
    BY <2>1, DoesFunction
  <2> QED BY <1>11, <2>2, PinsApart, Pins
<1>12. CASE k = 11
  <2>1. op = Function(AddressPins \cap Register(3), FuncOutput)
    BY <1>12, <1>0
  <2>2. /\ functions' = [p \in GpioPins |-> IF p \in AddressPins \cap Register(3) THEN FuncOutput ELSE functions[p]]
        /\ latch' = latch
    BY <2>1, DoesFunction
  <2>3. \A p \in Strobes : functions'[p] = FuncOutput
    BY <1>12, <2>2, PinsApart, Pins
  <2>4. \A p \in AddressPins : functions'[p] = FuncOutput
    <3>1. \A p \in AddressPins \cap Register(2) : functions[p] = FuncOutput
      BY <1>12
    <3> QED BY <2>2, <3>1, DataRegisters, Pins
  <2>5. Strobes \subseteq latch' /\ \A p \in DataPins : functions'[p] = FuncInput
    BY <1>12, <2>2, PinsApart, Pins
  <2>6. Configured' /\ Inputs'
    BY <2>3, <2>4, <2>5
  <2>7. ChipEnable \in latch' /\ WriteEnable \in latch' /\ OutputEnable \in latch'
    BY <2>5, PinsApart
  <2>8. \A p \in Strobes : functions'[p] = FuncOutput
    BY <2>3
  <2> QED BY <1>12, <2>4, <2>6, <2>7, <2>8, PinsApart
<1> QED BY <1>1, <1>2, <1>3, <1>4, <1>5, <1>6, <1>7, <1>8, <1>9, <1>10, <1>11, <1>12

LEMMA FinishPins ==
  ASSUME PinTypeOK, NEW k \in 0..3, Leaving(k),
         NEW op, op = Finishing[k + 1], Set(op), saved' = saved
  PROVE  Leaving(k + 1)'
<1> DEFINE r == Finishing
<1>0. /\ r[1] = High(Strobes)
      /\ r[2] = Restore(Register(1))
      /\ r[3] = Restore(Register(2))
      /\ r[4] = Restore(Register(3))
      /\ op = r[k + 1]
  BY FinishingOps
<1> HIDE DEF r
<1> USE DEF Leaving, Idle, Configured, Inputs
<1>1. CASE k = 0
  <2>1. op = High(Strobes)
    BY <1>1, <1>0
  <2>2. functions' = functions /\ latch' = latch \cup Strobes
    BY <2>1, DoesHigh
  <2> QED BY <1>1, <2>2, PinsApart, Pins
<1>2. CASE k = 1
  <2>1. op = Restore(Register(1))
    BY <1>2, <1>0
  <2>2. /\ functions' = [p \in GpioPins |-> IF p \in Register(1) THEN saved[p] ELSE functions[p]]
        /\ latch' = latch
    BY <2>1, DoesRestore
  <2>3. \A p \in DataPins : functions'[p] = saved'[p]
    BY <1>2, <2>2, PinRegisters
  <2>4. functions'[OutputEnable] = FuncOutput
    BY <1>2, <2>2, PinRegisters
  <2>5. WriteEnable \in latch' /\ OutputEnable \in latch'
    BY <1>2, <2>2, PinRegisters
  <2> QED BY <1>2, <2>3, <2>4, <2>5
<1>3. CASE k = 2
  <2>1. op = Restore(Register(2))
    BY <1>3, <1>0
  <2>2. /\ functions' = [p \in GpioPins |-> IF p \in Register(2) THEN saved[p] ELSE functions[p]]
        /\ latch' = latch
    BY <2>1, DoesRestore
  <2>3. \A p \in DataPins : functions'[p] = saved'[p]
    BY <1>3, <2>2, PinRegisters
  <2>4. functions'[OutputEnable] = FuncOutput
    BY <1>3, <2>2, PinRegisters
  <2>5. WriteEnable \in latch' /\ OutputEnable \in latch'
    BY <1>3, <2>2, PinRegisters
  <2> QED BY <1>3, <2>3, <2>4, <2>5
<1>4. CASE k = 3
  <2>1. op = Restore(Register(3))
    BY <1>4, <1>0
  <2>2. /\ functions' = [p \in GpioPins |-> IF p \in Register(3) THEN saved[p] ELSE functions[p]]
        /\ latch' = latch
    BY <2>1, DoesRestore
  <2>3. \A p \in DataPins : functions'[p] = saved'[p]
    BY <1>4, <2>2, PinRegisters
  <2>4. functions'[OutputEnable] = saved'[OutputEnable]
    BY <1>4, <2>2, PinRegisters
  <2>5. WriteEnable \in latch' /\ OutputEnable \in latch'
    BY <1>4, <2>2, PinRegisters
  <2> QED BY <1>4, <2>3, <2>4, <2>5
<1> QED BY <1>1, <1>2, <1>3, <1>4

LEMMA EnablePins ==
  ASSUME PinTypeOK, NEW k \in 0..1, Idle,
         NEW op, op = enable_chip[k + 1], Set(op)
  PROVE  Idle'
<1> DEFINE r == enable_chip
<1>0. /\ r[1] = High({WriteEnable, OutputEnable})
      /\ r[2] = Low({ChipEnable})
      /\ op = r[k + 1]
  BY EnableOps
<1> HIDE DEF r
<1> USE DEF Idle, Configured, Inputs
<1>1. CASE k = 0
  <2>1. op = High({WriteEnable, OutputEnable})
    BY <1>1, <1>0
  <2>2. functions' = functions /\ latch' = latch \cup {WriteEnable, OutputEnable}
    BY <2>1, DoesHigh
  <2> QED BY <1>1, <2>2, PinsApart, Pins
<1>2. CASE k = 1
  <2>1. op = Low({ChipEnable})
    BY <1>2, <1>0
  <2>2. functions' = functions /\ latch' = latch \ {ChipEnable}
    BY <2>1, DoesLow
  <2> QED BY <1>2, <2>2, PinsApart, Pins
<1> QED BY <1>1, <1>2
(* Only read_byte samples.                                                 *)
LEMMA Silent ==
  /\ \A P, f : Function(P, f).do # "sample"
  /\ \A P : High(P).do # "sample" /\ Low(P).do # "sample" /\ Restore(P).do # "sample"
BY DEF Function, High, Low, Restore

LEMMA WriteSilent ==
  ASSUME NEW c \in Cells, NEW v \in MemByte
  PROVE  \A x \in 1..14 : write_byte(c, v)[x].do # "sample"
<1> DEFINE r == write_byte(c, v)
<1>0. /\ r[1] = High(Strobes)
      /\ r[2] = Low(AddressPins \ c)
      /\ r[3] = High(c)
      /\ r[4] = Low({ChipEnable})
      /\ r[5] = Low({WriteEnable})
      /\ r[6] = Function(DataPins, FuncOutput)
      /\ r[7] = Function({}, FuncOutput)
      /\ r[8] = Function({}, FuncOutput)
      /\ r[9] = Low(DataPins \ v)
      /\ r[10] = High(v)
      /\ r[11] = High({WriteEnable})
      /\ r[12] = Function(DataPins, FuncInput)
      /\ r[13] = Function({}, FuncInput)
      /\ r[14] = Function({}, FuncInput)
  BY WriteOps
<1> HIDE DEF r
<1>1. /\ r[1].do # "sample"
      /\ r[2].do # "sample"
      /\ r[3].do # "sample"
      /\ r[4].do # "sample"
      /\ r[5].do # "sample"
      /\ r[6].do # "sample"
      /\ r[7].do # "sample"
  BY <1>0, Silent
<1>2. /\ r[8].do # "sample"
      /\ r[9].do # "sample"
      /\ r[10].do # "sample"
      /\ r[11].do # "sample"
      /\ r[12].do # "sample"
      /\ r[13].do # "sample"
      /\ r[14].do # "sample"
  BY <1>0, Silent
<1>3. \A x \in 1..14 : r[x].do # "sample"
  BY <1>1, <1>2
<1> QED BY <1>3 DEF r

LEMMA AuxSilent ==
  ASSUME NEW c \in Cells, NEW v \in MemByte
  PROVE  \A x \in 1..17 : write_byte_aux(c, v)[x].do # "sample"
<1> DEFINE r == write_byte_aux(c, v)
<1>0. /\ r[1] = High(Strobes)
      /\ r[2] = Low(AddressPins \ c)
      /\ r[3] = High(c)
      /\ r[4] = Function(DataPins, FuncOutput)
      /\ r[5] = Function({}, FuncOutput)
      /\ r[6] = Function({}, FuncOutput)
      /\ r[7] = Low({ChipEnable})
      /\ r[8] = Low({WriteEnable})
      /\ r[9] = Function(DataPins, FuncOutput)
      /\ r[10] = Function({}, FuncOutput)
      /\ r[11] = Function({}, FuncOutput)
      /\ r[12] = Low(DataPins \ v)
      /\ r[13] = High(v)
      /\ r[14] = High({WriteEnable})
      /\ r[15] = Function(DataPins, FuncInput)
      /\ r[16] = Function({}, FuncInput)
      /\ r[17] = Function({}, FuncInput)
  BY AuxOps
<1> HIDE DEF r
<1>1. /\ r[1].do # "sample"
      /\ r[2].do # "sample"
      /\ r[3].do # "sample"
      /\ r[4].do # "sample"
      /\ r[5].do # "sample"
      /\ r[6].do # "sample"
      /\ r[7].do # "sample"
      /\ r[8].do # "sample"
      /\ r[9].do # "sample"
  BY <1>0, Silent
<1>2. /\ r[10].do # "sample"
      /\ r[11].do # "sample"
      /\ r[12].do # "sample"
      /\ r[13].do # "sample"
      /\ r[14].do # "sample"
      /\ r[15].do # "sample"
      /\ r[16].do # "sample"
      /\ r[17].do # "sample"
  BY <1>0, Silent
<1>3. \A x \in 1..17 : r[x].do # "sample"
  BY <1>1, <1>2
<1> QED BY <1>3 DEF r

LEMMA ConfigureSilent ==
  \A x \in 1..12 : configure_pins[x].do # "sample"
<1> DEFINE r == configure_pins
<1>0. /\ r[1] = Function({ChipEnable}, FuncOutput)
      /\ r[2] = High({ChipEnable})
      /\ r[3] = Function({WriteEnable}, FuncOutput)
      /\ r[4] = High({WriteEnable})
      /\ r[5] = Function({OutputEnable}, FuncOutput)
      /\ r[6] = High({OutputEnable})
      /\ r[7] = Function(DataPins, FuncInput)
      /\ r[8] = Function({}, FuncInput)
      /\ r[9] = Function({}, FuncInput)
      /\ r[10] = Function({}, FuncOutput)
      /\ r[11] = Function(AddressPins \cap Register(2), FuncOutput)
      /\ r[12] = Function(AddressPins \cap Register(3), FuncOutput)
  BY ConfigureOps
<1> HIDE DEF r
<1>1. /\ r[1].do # "sample"
      /\ r[2].do # "sample"
      /\ r[3].do # "sample"
      /\ r[4].do # "sample"
      /\ r[5].do # "sample"
      /\ r[6].do # "sample"
  BY <1>0, Silent
<1>2. /\ r[7].do # "sample"
      /\ r[8].do # "sample"
      /\ r[9].do # "sample"
      /\ r[10].do # "sample"
      /\ r[11].do # "sample"
      /\ r[12].do # "sample"
  BY <1>0, Silent
<1>3. \A x \in 1..12 : r[x].do # "sample"
  BY <1>1, <1>2
<1> QED BY <1>3 DEF r

LEMMA EnableSilent ==
  \A x \in 1..2 : enable_chip[x].do # "sample"
<1> DEFINE r == enable_chip
<1>0. /\ r[1] = High({WriteEnable, OutputEnable})
      /\ r[2] = Low({ChipEnable})
  BY EnableOps
<1> HIDE DEF r
<1>1. /\ r[1].do # "sample"
  BY <1>0, Silent
<1>2. /\ r[2].do # "sample"
  BY <1>0, Silent
<1>3. \A x \in 1..2 : r[x].do # "sample"
  BY <1>1, <1>2
<1> QED BY <1>3 DEF r

LEMMA FinishSilent ==
  \A x \in 1..4 : Finishing[x].do # "sample"
<1> DEFINE r == Finishing
<1>0. /\ r[1] = High(Strobes)
      /\ r[2] = Restore(Register(1))
      /\ r[3] = Restore(Register(2))
      /\ r[4] = Restore(Register(3))
  BY FinishingOps
<1> HIDE DEF r
<1>1. /\ r[1].do # "sample"
      /\ r[2].do # "sample"
  BY <1>0, Silent
<1>2. /\ r[3].do # "sample"
      /\ r[4].do # "sample"
  BY <1>0, Silent
<1>3. \A x \in 1..4 : r[x].do # "sample"
  BY <1>1, <1>2
<1> QED BY <1>3 DEF r

LEMMA ReadSilent ==
  ASSUME NEW c \in Cells
  PROVE  \A x \in 1..7 : read_byte(c)[x].do # "sample"
<1> DEFINE r == read_byte(c)
<1>0. /\ r[1] = Function(DataPins, FuncInput)
      /\ r[2] = Function({}, FuncInput)
      /\ r[3] = Function({}, FuncInput)
      /\ r[4] = High({WriteEnable})
      /\ r[5] = Low({ChipEnable, OutputEnable})
      /\ r[6] = Low(AddressPins \ c)
      /\ r[7] = High(c)
  BY ReadOps
<1> HIDE DEF r
<1>1. /\ r[1].do # "sample"
      /\ r[2].do # "sample"
      /\ r[3].do # "sample"
      /\ r[4].do # "sample"
  BY <1>0, Silent
<1>2. /\ r[5].do # "sample"
      /\ r[6].do # "sample"
      /\ r[7].do # "sample"
  BY <1>0, Silent
<1>3. \A x \in 1..7 : r[x].do # "sample"
  BY <1>1, <1>2
<1> QED BY <1>3 DEF r


(* The step that takes the next store of a routine.                        *)
LEMMA PinDoes ==
  ASSUME Pin, NEW r, r \in Seq(Op), NEW k \in 0..Len(r), todo = Rest(r, k),
         NEW op, op = r[k + 1]
  PROVE  /\ k < Len(r) /\ todo' = Rest(r, k + 1) /\ op \in Op /\ Set(op) /\ Reacts
         /\ UNCHANGED <<saved, tool, pc, job, address, expect, wanted, writing, torn>>
         /\ op.do # "sample" => got' = got
         /\ op.do = "sample" => \E v \in Seen : got' = Append(got, v \cap op.pins)
<1>1. PICK v \in Seen : Do(v)
  BY DEF Pin
<1>2. todo # <<>>
  BY <1>1 DEF Do
<1>3. k < Len(r) /\ Head(todo) = op /\ Tail(todo) = Rest(r, k + 1)
  <2>1. Len(r) \in Nat
    BY LenProperties
  <2> QED BY <1>2, <2>1, RestStep
<1>4. op \in Op
  BY <1>3, ElementOfSeq
<1>5. Set(op)
  BY <1>1, <1>3 DEF Do, Set
<1>6. /\ todo' = Rest(r, k + 1) /\ UNCHANGED <<saved, tool, pc>>
      /\ op.do # "sample" => got' = got
      /\ op.do = "sample" => got' = Append(got, v \cap op.pins)
  BY <1>1, <1>3 DEF Do
<1>7. Reacts /\ UNCHANGED <<job, address, expect, wanted, writing, torn>>
  BY DEF Pin
<1> QED BY <1>3, <1>4, <1>5, <1>6, <1>7

(* Whatever the pins do, what is read and what is kept are bytes.          *)
LEMMA PinTypes ==
  ASSUME MemTypeOK, Pin, NEW r, r \in Seq(Op), NEW k \in 0..Len(r), todo = Rest(r, k)
  PROVE  MemTypeOK'
<1>1. PICK op : op = r[k + 1]
  OBVIOUS
<1>2. /\ op \in Op /\ Set(op) /\ Reacts
      /\ UNCHANGED <<saved, tool, pc, job, address, expect, wanted, writing, torn>>
      /\ op.do # "sample" => got' = got
      /\ op.do = "sample" => \E v \in Seen : got' = Append(got, v \cap op.pins)
  BY <1>1, PinDoes
<1>3. PinTypeOK'
  BY <1>2, SetTypes DEF MemTypeOK
<1>4. store' \in [Cells -> MemByte]
  <2>1. CASE Takes'
    <3>1. PICK v \in OnLines' : store' = [store EXCEPT ![Selected'] = v]
      BY <1>2, <2>1 DEF Reacts
    <3>2. v \in MemByte
      BY <3>1 DEF OnLines
    <3> QED BY <3>1, <3>2 DEF MemTypeOK
  <2>2. CASE ~Takes'
    BY <1>2, <2>2 DEF Reacts, MemTypeOK
  <2> QED BY <2>1, <2>2
<1>5. got' \in Seq(MemByte)
  <2>1. ASSUME NEW v \in Seen PROVE v \in MemByte
    <3>1. Selected \in Cells
      BY DEF Selected, Cells
    <3> QED BY <2>1, <3>1 DEF Seen, OnLines, MemTypeOK
  <2>2. \A v \in Seen : v \cap op.pins \in MemByte
    BY <2>1 DEF MemByte
  <2>3. got \in Seq(MemByte)
    BY DEF MemTypeOK
  <2>4. CASE op.do # "sample"
    BY <1>2, <2>3, <2>4
  <2>5. CASE op.do = "sample"
    <3>1. PICK v \in Seen : got' = Append(got, v \cap op.pins)
      BY <1>2, <2>5
    <3>2. v \cap op.pins \in MemByte
      BY <2>2
    <3> QED BY <3>1, <3>2, <2>3
  <2> QED BY <2>4, <2>5
<1> QED BY <1>2, <1>3, <1>4, <1>5 DEF MemTypeOK

(* No cell is written but the one being written and those that are torn.   *)
LEMMA StoreSafe ==
  ASSUME MemTypeOK, MemTypeOK', Reacts, Guarded', torn' = torn, writing' = writing,
         wanted' = wanted, Kept
  PROVE  Kept'
<1>1. CASE Takes'
  <2>1. PICK v \in OnLines' : store' = [store EXCEPT ![Selected'] = v]
    BY <1>1 DEF Reacts
  <2>2. Selected' \in torn' \cup writing'
    BY <1>1 DEF Takes, Guarded, Driven, Drives, PulledUp, ChipEnable
  <2> QED BY <2>1, <2>2 DEF MemTypeOK, Kept
<1>2. CASE ~Takes'
  BY <1>2 DEF Reacts, Kept
<1> QED BY <1>1, <1>2

(* A store of a routine that takes no sample.                              *)
LEMMA QuietPin ==
  ASSUME MemInv, Pin, NEW r, r \in Seq(Op), NEW k \in 0..Len(r), todo = Rest(r, k),
         \A x \in 1..Len(r) : r[x].do # "sample"
  PROVE  /\ k < Len(r) /\ todo' = Rest(r, k + 1) /\ Set(r[k + 1])
         /\ UNCHANGED <<saved, tool, pc, job, address, expect, wanted, writing, torn, got>>
         /\ Reacts /\ MemTypeOK' /\ Turned(saved)' /\ Progress' /\ SamplesTrue'
         /\ Even <=> Even'
         /\ Guarded' => Kept'
<1>1. PICK op : op = r[k + 1]
  OBVIOUS
<1>2. /\ k < Len(r) /\ todo' = Rest(r, k + 1) /\ Set(op) /\ Reacts
      /\ UNCHANGED <<saved, tool, pc, job, address, expect, wanted, writing, torn>>
      /\ op.do # "sample" => got' = got
  BY <1>1, PinDoes
<1>3. got' = got
  <2>1. Len(r) \in Nat /\ k + 1 \in 1..Len(r)
    BY <1>2, LenProperties
  <2> QED BY <1>1, <1>2, <2>1
<1>4. MemTypeOK'
  BY PinTypes DEF MemInv
<1>5. Turned(saved)' /\ Progress' /\ SamplesTrue' /\ (Even <=> Even')
  BY <1>2, <1>3 DEF MemInv, Turned, Progress, SamplesTrue, Even
<1>6. Guarded' => Kept'
  BY <1>2, <1>4, StoreSafe DEF MemInv
<1>7. Set(r[k + 1])
  BY <1>1, <1>2 DEF Set
<1> QED BY <1>2, <1>3, <1>4, <1>5, <1>6, <1>7

LEMMA ConfigureSafe ==
  ASSUME MemInv, MemTypeOK', NEW k \in 0..11, Configuring(k), Configuring(k + 1)',
         NEW op, op = configure_pins[k + 1], Set(op), torn' = torn, writing' = writing
  PROVE  Guarded' /\ Turned(functions)'
<1> DEFINE r == configure_pins
<1>0. /\ r[1] = Function({ChipEnable}, FuncOutput) /\ r[2] = High({ChipEnable})
      /\ r[3] = Function({WriteEnable}, FuncOutput) /\ r[4] = High({WriteEnable})
      /\ r[5] = Function({OutputEnable}, FuncOutput) /\ r[6] = High({OutputEnable})
      /\ op = r[k + 1]
  BY ConfigureOps
<1> HIDE DEF r
<1>1. PinTypeOK
  BY DEF MemInv, MemTypeOK
<1>2. Guarded'
  <2>1. CASE k = 0
    <3>1. op = Function({ChipEnable}, FuncOutput)
      BY <1>0, <2>1
    <3>2. /\ functions' = [p \in GpioPins |-> IF p \in {ChipEnable} THEN FuncOutput
                                              ELSE functions[p]]
          /\ latch' = latch
      BY <3>1, DoesFunction
    <3>3. \A p \in AddressPins \cup {WriteEnable} : functions'[p] = functions[p]
      BY <3>2, Pins, PinsApart
    <3>4. (Driven(WriteEnable)' <=> Driven(WriteEnable)) /\ Selected' = Selected
      BY <3>2, <3>3 DEF Driven, Drives, Selected
    <3> QED BY <3>2, <3>4 DEF Guarded, MemInv
  <2>2. CASE k \in 1..2
    <3>1. ChipEnable \in latch'
      BY <2>2 DEF Configuring
    <3> QED BY <3>1 DEF Guarded
  <2>3. CASE k \in 3..11
    <3>1. WriteEnable \in latch'
      BY <2>3 DEF Configuring
    <3>2. Driven(WriteEnable)'
      BY <3>1 DEF Driven, Drives, WriteEnable, PulledUp
    <3> QED BY <3>2 DEF Guarded
  <2> QED BY <2>1, <2>2, <2>3
<1>3. Turned(functions)'
  <2>1. CASE k >= 4
    BY <2>1 DEF Configuring, Turned
  <2>2. CASE k < 4
    <3>1. /\ \A p \in DataPins : functions'[p] = functions[p]
          /\ functions'[OutputEnable] = functions[OutputEnable]
      <4>1. CASE k = 0
        <5>1. op = Function({ChipEnable}, FuncOutput)
          BY <1>0, <4>1
        <5> QED BY <5>1, DoesFunction, Pins, PinsApart
      <4>2. CASE k = 1
        <5>1. op = High({ChipEnable})
          BY <1>0, <4>2
        <5> QED BY <5>1, <1>1, DoesHigh
      <4>3. CASE k = 2
        <5>1. op = Function({WriteEnable}, FuncOutput)
          BY <1>0, <4>3
        <5> QED BY <5>1, DoesFunction, Pins, PinsApart
      <4>4. CASE k = 3
        <5>1. op = High({WriteEnable})
          BY <1>0, <4>4
        <5> QED BY <5>1, <1>1, DoesHigh
      <4> QED BY <2>2, <4>1, <4>2, <4>3, <4>4
    <3> QED BY <3>1 DEF Turned, MemInv
  <2> QED BY <2>1, <2>2
<1> QED BY <1>2, <1>3

LEMMA ConfigurePin ==
  ASSUME MemInv, Pin, InConfigure
  PROVE  MemInv'
<1>1. PICK k \in 0..12 : todo = Rest(configure_pins, k) /\ Configuring(k)
  BY DEF InConfigure
<1>2. PICK r : r = configure_pins
  OBVIOUS
<1>3. /\ r \in Seq(Op) /\ Len(r) = 12 /\ todo = Rest(r, k)
      /\ \A x \in 1..Len(r) : r[x].do # "sample"
  BY <1>1, <1>2, ConfigureOps, ConfigureSilent
<1>4. /\ k < 12 /\ todo' = Rest(r, k + 1) /\ Set(r[k + 1])
      /\ UNCHANGED <<saved, tool, pc, job, address, expect, wanted, writing, torn, got>>
      /\ MemTypeOK' /\ Turned(saved)' /\ Progress' /\ SamplesTrue' /\ (Even <=> Even')
      /\ Guarded' => Kept'
  BY <1>3, QuietPin
<1>5. PICK op : op = configure_pins[k + 1] /\ Set(op)
  BY <1>2, <1>4
<1>6. PinTypeOK /\ k \in 0..11
  BY <1>4 DEF MemInv, MemTypeOK
<1>7. Configuring(k + 1)'
  BY <1>1, <1>5, <1>6, ConfigurePins
<1>8. Guarded' /\ Turned(functions)'
  BY <1>1, <1>4, <1>5, <1>6, <1>7, ConfigureSafe
<1>9. InConfigure'
  <2>1. k + 1 \in 0..12
    BY <1>6
  <2>2. configure_pins' = configure_pins
    BY DEF configure_pins, configure_data_pins_for_input, CopyFunctions, Function, High,
           Register
  <2> QED BY <1>2, <1>4, <1>7, <2>1 DEF InConfigure
<1> QED BY <1>4, <1>8, <1>9 DEF MemInv, Place

LEMMA IdleSafe ==
  ASSUME Idle' PROVE Guarded' /\ Turned(functions)'
<1>1. WriteEnable \in latch'
  BY DEF Idle
<1>2. Driven(WriteEnable)'
  BY <1>1 DEF Driven, Drives, WriteEnable, PulledUp
<1> QED BY <1>2 DEF Guarded, Idle, Inputs, Turned, FuncInput, FuncOutput

LEMMA EnablePin ==
  ASSUME MemInv, Pin, InEnable
  PROVE  MemInv'
<1>1. todo # <<>>
  BY DEF Pin, Do
<1>2. PICK k \in 0..2 : todo = Rest(enable_chip, k)
  BY <1>1 DEF InEnable
<1>3. PICK r : r = enable_chip
  OBVIOUS
<1>4. /\ r \in Seq(Op) /\ Len(r) = 2 /\ todo = Rest(r, k)
      /\ \A x \in 1..Len(r) : r[x].do # "sample"
  BY <1>2, <1>3, EnableOps, EnableSilent
<1>5. /\ k < 2 /\ todo' = Rest(r, k + 1) /\ Set(r[k + 1])
      /\ UNCHANGED <<saved, tool, pc, job, address, expect, wanted, writing, torn, got>>
      /\ MemTypeOK' /\ Turned(saved)' /\ Progress' /\ SamplesTrue' /\ (Even <=> Even')
      /\ Guarded' => Kept'
  BY <1>4, QuietPin
<1>6. PICK op : op = enable_chip[k + 1] /\ Set(op)
  BY <1>3, <1>5
<1>7. PinTypeOK /\ k \in 0..1 /\ Idle
  BY <1>5 DEF MemInv, MemTypeOK, InEnable
<1>8. Idle'
  BY <1>6, <1>7, EnablePins
<1>9. Guarded' /\ Turned(functions)'
  BY <1>8, IdleSafe
<1>10. InEnable'
  <2>1. k + 1 \in 0..2
    BY <1>7
  <2>2. enable_chip' = enable_chip
    BY DEF enable_chip, High, Low
  <2> QED BY <1>3, <1>5, <1>8, <2>1 DEF InEnable
<1> QED BY <1>5, <1>9, <1>10 DEF MemInv, Place

LEMMA FinishPin ==
  ASSUME MemInv, Pin, InFinish
  PROVE  MemInv'
<1>1. PICK k \in 0..4 : todo = Rest(Finishing, k) /\ Leaving(k)
  BY DEF InFinish
<1>2. PICK r : r = Finishing
  OBVIOUS
<1>3. /\ r \in Seq(Op) /\ Len(r) = 4 /\ todo = Rest(r, k)
      /\ \A x \in 1..Len(r) : r[x].do # "sample"
  BY <1>1, <1>2, FinishingOps, FinishSilent
<1>4. /\ k < 4 /\ todo' = Rest(r, k + 1) /\ Set(r[k + 1])
      /\ UNCHANGED <<saved, tool, pc, job, address, expect, wanted, writing, torn, got>>
      /\ MemTypeOK' /\ Turned(saved)' /\ Progress' /\ SamplesTrue' /\ (Even <=> Even')
      /\ Guarded' => Kept'
  BY <1>3, QuietPin
<1>5. PICK op : op = Finishing[k + 1] /\ Set(op)
  BY <1>2, <1>4
<1>6. PinTypeOK /\ k \in 0..3
  BY <1>4 DEF MemInv, MemTypeOK
<1>7. Leaving(k + 1)'
  BY <1>1, <1>4, <1>5, <1>6, FinishPins
<1>8. Guarded'
  <2>1. WriteEnable \in latch'
    BY <1>7 DEF Leaving
  <2>2. Driven(WriteEnable)'
    BY <2>1 DEF Driven, Drives, WriteEnable, PulledUp
  <2> QED BY <2>2 DEF Guarded
<1>9. Turned(functions)'
  <2>1. CASE k < 3
    BY <1>6, <1>7, <2>1 DEF Leaving, Turned
  <2>2. CASE k = 3
    <3>1. /\ \A p \in DataPins : functions'[p] = saved'[p]
          /\ functions'[OutputEnable] = saved'[OutputEnable]
      BY <1>7, <2>2 DEF Leaving
    <3> QED BY <1>4, <3>1 DEF Turned
  <2> QED BY <1>6, <2>1, <2>2
<1>10. InFinish'
  <2>1. k + 1 \in 0..4
    BY <1>6
  <2> QED BY <1>2, <1>4, <1>7, <2>1 DEF InFinish
<1> QED BY <1>4, <1>8, <1>9, <1>10 DEF MemInv, Place

(* What write_byte and write_byte_aux drive is what the memory takes.      *)
LEMMA WritingSafe ==
  ASSUME MemTypeOK', NEW c \in Cells, NEW v \in MemByte, NEW k \in Nat, NEW d, NEW s,
         s \in {5, 8}, Writing(c, v, k, d, s)', Stored(c, v, k - 1, s) \/ k = 0,
         Reacts, MemTypeOK, writing' = {c}
  PROVE  Guarded' /\ Turned(functions)' /\ Stored(c, v, k, s)'
<1>1. Configured'
  BY DEF Writing
<1>2. Turned(functions)'
  BY <1>1 DEF Configured, Turned, Strobes
<1>3. CASE k \in s..(s + 5)
  <2>1. At(c)'
    BY <1>3 DEF Writing
  <2>2. \A p \in AddressPins : functions'[p] = FuncOutput
    BY <1>1 DEF Configured
  <2>3. Selected' = c
    BY <2>1, <2>2 DEF Selected, Driven, Drives, At
  <2>4. Guarded'
    BY <2>3 DEF Guarded
  <2>5. ASSUME k = s + 5 PROVE store'[c] = v
    <3>1. /\ ChipEnable \notin latch' /\ WriteEnable \notin latch'
          /\ Levels(v)' /\ Outputs'
      BY <1>3, <2>5 DEF Writing
    <3>2. Takes'
      BY <1>1, <3>1 DEF Takes, Driven, Drives, Configured, Strobes
    <3>3. PICK u \in OnLines' : store' = [store EXCEPT ![Selected'] = u]
      BY <3>2 DEF Reacts
    <3>4. u \subseteq DataPins /\ \A p \in DataPins : p \in u <=> p \in latch'
      BY <3>1, <3>3 DEF OnLines, Outputs, Drives, MemByte
    <3>5. u = v
      BY <3>1, <3>4 DEF Levels, MemByte
    <3> QED BY <2>3, <3>3, <3>5 DEF MemTypeOK
  <2> QED BY <1>2, <1>3, <2>4, <2>5 DEF Stored
<1>4. CASE k \notin s..(s + 5)
  <2>1. WriteEnable \in latch'
    BY <1>4 DEF Writing
  <2>2. Driven(WriteEnable)'
    BY <2>1 DEF Driven, Drives, WriteEnable, PulledUp
  <2>3. store' = store
    BY <2>2 DEF Reacts, Takes
  <2> QED BY <1>2, <1>4, <2>2, <2>3 DEF Guarded, Stored
<1> QED BY <1>3, <1>4

LEMMA WritePin ==
  ASSUME MemInv, Pin, InWrite
  PROVE  MemInv'
<1>1. PICK c \in Cells, v \in MemByte :
         /\ writing = {c} /\ wanted[c] = v
         /\ \/ /\ pc = "write"
               /\ \E k \in 0..14 :
                    /\ todo = Rest(write_byte(c, v), k)
                    /\ Writing(c, v, k, 6, 5) /\ Stored(c, v, k, 5)
            \/ /\ pc = "calls"
               /\ \E k \in 0..17 :
                    /\ todo = Rest(write_byte_aux(c, v), k)
                    /\ Writing(c, v, k, 4, 8) /\ Stored(c, v, k, 8)
  BY DEF InWrite
<1>2. PinTypeOK /\ MemTypeOK /\ Even
  BY DEF MemInv, MemTypeOK, InWrite
<1>3. CASE pc = "write"
  <2>1. PICK k \in 0..14 :
           /\ todo = Rest(write_byte(c, v), k)
           /\ Writing(c, v, k, 6, 5) /\ Stored(c, v, k, 5)
    BY <1>1, <1>3
  <2>2. PICK r : r = write_byte(c, v)
    OBVIOUS
  <2>3. /\ r \in Seq(Op) /\ Len(r) = 14 /\ todo = Rest(r, k)
        /\ \A x \in 1..Len(r) : r[x].do # "sample"
    BY <2>1, <2>2, WriteOps, WriteSilent
  <2>4. /\ k < 14 /\ todo' = Rest(r, k + 1) /\ Set(r[k + 1]) /\ Reacts
        /\ UNCHANGED <<saved, tool, pc, job, address, expect, wanted, writing, torn, got>>
        /\ MemTypeOK' /\ Turned(saved)' /\ Progress' /\ SamplesTrue' /\ (Even <=> Even')
        /\ Guarded' => Kept'
    BY <2>3, QuietPin
  <2>5. PICK op : op = write_byte(c, v)[k + 1] /\ Set(op)
    BY <2>2, <2>4
  <2>6. Writing(c, v, k + 1, 6, 5)'
    BY <1>2, <2>1, <2>4, <2>5, WritePins
  <2>7. PICK j \in 0..14 : j = k + 1
    BY <2>4
  <2>8. Guarded' /\ Turned(functions)' /\ Stored(c, v, j, 5)'
    <3>1. Writing(c, v, j, 6, 5)' /\ writing' = {c}
      BY <1>1, <2>4, <2>6, <2>7
    <3>2. Stored(c, v, j - 1, 5)
      BY <2>1, <2>7
    <3> QED BY <1>2, <2>4, <3>1, <3>2, WritingSafe
  <2>9. InWrite'
    <3>1. writing' = {c} /\ wanted'[c] = v /\ Even' /\ pc' = "write"
      BY <1>1, <1>2, <1>3, <2>4
    <3>2. todo' = Rest(write_byte(c, v), j) /\ Writing(c, v, j, 6, 5)'
      BY <2>2, <2>4, <2>6, <2>7
    <3> QED BY <2>8, <3>1, <3>2 DEF InWrite
  <2> QED BY <2>4, <2>8, <2>9 DEF MemInv, Place
<1>4. CASE pc = "calls"
  <2>1. PICK k \in 0..17 :
           /\ todo = Rest(write_byte_aux(c, v), k)
           /\ Writing(c, v, k, 4, 8) /\ Stored(c, v, k, 8)
    BY <1>1, <1>4
  <2>2. PICK r : r = write_byte_aux(c, v)
    OBVIOUS
  <2>3. /\ r \in Seq(Op) /\ Len(r) = 17 /\ todo = Rest(r, k)
        /\ \A x \in 1..Len(r) : r[x].do # "sample"
    BY <2>1, <2>2, AuxOps, AuxSilent
  <2>4. /\ k < 17 /\ todo' = Rest(r, k + 1) /\ Set(r[k + 1]) /\ Reacts
        /\ UNCHANGED <<saved, tool, pc, job, address, expect, wanted, writing, torn, got>>
        /\ MemTypeOK' /\ Turned(saved)' /\ Progress' /\ SamplesTrue' /\ (Even <=> Even')
        /\ Guarded' => Kept'
    BY <2>3, QuietPin
  <2>5. PICK op : op = write_byte_aux(c, v)[k + 1] /\ Set(op)
    BY <2>2, <2>4
  <2>6. Writing(c, v, k + 1, 4, 8)'
    BY <1>2, <2>1, <2>4, <2>5, AuxPins
  <2>7. PICK j \in 0..17 : j = k + 1
    BY <2>4
  <2>8. Guarded' /\ Turned(functions)' /\ Stored(c, v, j, 8)'
    <3>1. Writing(c, v, j, 4, 8)' /\ writing' = {c}
      BY <1>1, <2>4, <2>6, <2>7
    <3>2. Stored(c, v, j - 1, 8)
      BY <2>1, <2>7
    <3> QED BY <1>2, <2>4, <3>1, <3>2, WritingSafe
  <2>9. InWrite'
    <3>1. writing' = {c} /\ wanted'[c] = v /\ Even' /\ pc' = "calls"
      BY <1>1, <1>2, <1>4, <2>4
    <3>2. todo' = Rest(write_byte_aux(c, v), j) /\ Writing(c, v, j, 4, 8)'
      BY <2>2, <2>4, <2>6, <2>7
    <3> QED BY <2>8, <3>1, <3>2 DEF InWrite
  <2> QED BY <2>4, <2>8, <2>9 DEF MemInv, Place
<1> QED BY <1>1, <1>3, <1>4

LEMMA ReadPin ==
  ASSUME MemInv, Pin, InRead
  PROVE  MemInv'
<1>1. PICK c \in Cells, k \in 0..8 :
         /\ todo = Rest(read_byte(c), k) /\ Reading(c, k)
         /\ k < 8 => Behind /\ Due(c)
  BY DEF InRead
<1>2. PICK r : r = read_byte(c)
  OBVIOUS
<1>3. PICK op : op = r[k + 1]
  OBVIOUS
<1>4. r \in Seq(Op) /\ Len(r) = 8 /\ todo = Rest(r, k)
  BY <1>1, <1>2, ReadOps
<1>5. /\ k < 8 /\ todo' = Rest(r, k + 1) /\ op \in Op /\ Set(op) /\ Reacts
      /\ UNCHANGED <<saved, tool, pc, job, address, expect, wanted, writing, torn>>
      /\ op.do # "sample" => got' = got
      /\ op.do = "sample" => \E v \in Seen : got' = Append(got, v \cap op.pins)
  BY <1>3, <1>4, PinDoes
<1>6. MemTypeOK /\ MemTypeOK' /\ PinTypeOK /\ k \in 0..7
  <2>1. MemTypeOK
    BY DEF MemInv
  <2>2. MemTypeOK'
    BY <1>4, <2>1, PinTypes
  <2> QED BY <1>5, <2>1, <2>2 DEF MemTypeOK
<1>7. Reading(c, k + 1)'
  BY <1>1, <1>2, <1>3, <1>5, <1>6, ReadPins
<1>8. Guarded' /\ Turned(functions)'
  BY <1>7, IdleSafe DEF Reading
<1>9. Kept' /\ Turned(saved)'
  BY <1>5, <1>6, <1>8, StoreSafe DEF MemInv, Turned
<1>10. writing = {} /\ pc \in {"read", "calls"}
  BY DEF InRead
<1>11. CASE k < 7
  <2>1. op.do # "sample"
    BY <1>2, <1>3, <1>6, <1>11, ReadSilent
  <2>2. got' = got
    BY <1>5, <2>1
  <2>3. Progress' /\ SamplesTrue'
    BY <1>5, <2>2 DEF MemInv, Progress, SamplesTrue
  <2>4. InRead'
    <3>1. PICK j \in 0..8 : j = k + 1 /\ j < 8
      BY <1>6, <1>11
    <3>2. Behind' /\ Due(c)'
      BY <1>1, <1>5, <1>11, <2>2 DEF Behind, Due
    <3>3. todo' = Rest(read_byte(c), j) /\ Reading(c, j)'
      BY <1>2, <1>5, <1>7, <3>1
    <3> QED BY <1>5, <1>10, <3>1, <3>2, <3>3 DEF InRead
  <2> QED BY <1>6, <1>8, <1>9, <2>3, <2>4 DEF MemInv, Place
<1>12. CASE k = 7
  <2>1. op = Sample(DataPins)
    <3>1. read_byte(c)[8] = Sample(DataPins)
      BY ReadOps
    <3> QED BY <1>2, <1>3, <1>12, <3>1
  <2>2. op.do = "sample" /\ op.pins = DataPins
    BY <2>1 DEF Sample
  <2>3. Gives /\ Selected = c
    <3>1. /\ Idle /\ ChipEnable \notin latch /\ OutputEnable \notin latch /\ At(c)
      BY <1>1, <1>12 DEF Reading
    <3>2. \A p \in Strobes \cup AddressPins : functions[p] = FuncOutput
      BY <3>1 DEF Idle, Configured
    <3>3. WriteEnable \in latch
      BY <3>1 DEF Idle
    <3>4. Gives
      BY <3>1, <3>2, <3>3 DEF Gives, Driven, Drives, Strobes
    <3> QED BY <3>1, <3>2, <3>4 DEF Selected, Driven, Drives, At
  <2>4. store[c] \in MemByte /\ store[c] \cap DataPins = store[c]
    BY <1>6 DEF MemTypeOK, MemByte
  <2>5. got' = Append(got, store[c])
    BY <1>5, <2>2, <2>3, <2>4 DEF Seen
  <2>6. /\ Len(got) \in Nat /\ Len(got') = Len(got) + 1 /\ got'[Len(got) + 1] = store[c]
        /\ \A x \in 1..Len(got) : got'[x] = got[x]
    BY <1>6, <2>4, <2>5 DEF MemTypeOK
  <2>7. store[c] \in expect[Len(expect)]
    BY <1>1, <1>10, <1>12, <2>4 DEF Due, MemInv, Kept
  <2>8. Even'
    BY <1>1, <1>5, <1>12, <2>6 DEF Behind, Even
  <2>9. SamplesTrue'
    <3>1. Len(expect) = Len(got) + 1 /\ \A x \in 1..Len(got) : got[x] \in expect[x]
      BY <1>1, <1>12 DEF Behind, MemInv, SamplesTrue
    <3>2. ASSUME NEW x \in 1..(Len(got) + 1) PROVE got'[x] \in expect[x]
      <4>1. CASE x = Len(got) + 1
        BY <2>6, <2>7, <3>1, <4>1
      <4>2. CASE x # Len(got) + 1
        BY <2>6, <3>1, <4>2
      <4> QED BY <4>1, <4>2
    <3> QED BY <1>5, <2>6, <3>1, <3>2 DEF SamplesTrue
  <2>10. Progress'
    BY <1>5, <1>10 DEF MemInv, Progress
  <2>11. InRead'
    <3>1. todo' = Rest(read_byte(c), 8) /\ Reading(c, 8)'
      BY <1>2, <1>5, <1>7, <1>12
    <3> QED BY <1>5, <1>10, <2>8, <3>1 DEF InRead
  <2> QED BY <1>6, <1>8, <1>9, <2>9, <2>10, <2>11 DEF MemInv, Place
<1> QED BY <1>6, <1>11, <1>12

LEMMA PinInv ==
  ASSUME MemInv, Pin
  PROVE  MemInv'
<1>1. todo # <<>>
  BY DEF Pin, Do
<1> QED BY <1>1, ConfigurePin, EnablePin, ReadPin, WritePin, FinishPin
        DEF MemInv, Place, AtRest

-----------------------------------------------------------------------------
(* Between two routines.                                                   *)
LEMMA AtReturn ==
  ASSUME MemInv, todo = <<>>, pc \in {"write", "read", "calls"}
  PROVE  Idle /\ Even /\ \A c \in writing : store[c] = wanted[c]
<1>1. CASE InEnable
  BY <1>1 DEF InEnable
<1>2. CASE InRead
  <2>1. PICK c \in Cells, k \in 0..8 :
          todo = Rest(read_byte(c), k) /\ Reading(c, k) /\ (k = 8 => Even)
    BY <1>2 DEF InRead
  <2>2. PICK r : r = read_byte(c)
    OBVIOUS
  <2>3. r \in Seq(Op) /\ Len(r) = 8 /\ Rest(r, k) = <<>>
    BY <2>1, <2>2, ReadOps
  <2>4. k = 8
    BY <2>3, RestStep
  <2> QED BY <1>2, <2>1, <2>4 DEF InRead, Reading
<1>3. CASE InWrite
  <2>1. PICK c \in Cells, v \in MemByte :
         /\ writing = {c} /\ wanted[c] = v
         /\ \/ \E k \in 0..14 :
                    /\ todo = Rest(write_byte(c, v), k)
                    /\ Writing(c, v, k, 6, 5) /\ Stored(c, v, k, 5)
            \/ \E k \in 0..17 :
                    /\ todo = Rest(write_byte_aux(c, v), k)
                    /\ Writing(c, v, k, 4, 8) /\ Stored(c, v, k, 8)
    BY <1>3 DEF InWrite
  <2>2. CASE \E k \in 0..14 :
                    /\ todo = Rest(write_byte(c, v), k)
                    /\ Writing(c, v, k, 6, 5) /\ Stored(c, v, k, 5)
    <3>1. PICK k \in 0..14 : /\ todo = Rest(write_byte(c, v), k)
                             /\ Writing(c, v, k, 6, 5) /\ Stored(c, v, k, 5)
      BY <2>2
    <3>2. PICK r : r = write_byte(c, v)
      OBVIOUS
    <3>3. r \in Seq(Op) /\ Len(r) = 14 /\ Rest(r, k) = <<>>
      BY <3>1, <3>2, WriteOps
    <3>4. k = 14
      BY <3>3, RestStep
    <3>5. Idle
      BY <3>1, <3>4 DEF Writing, Idle
    <3>6. store[c] = v
      BY <3>1, <3>4 DEF Stored
    <3> QED BY <1>3, <2>1, <3>5, <3>6 DEF InWrite
  <2>3. CASE \E k \in 0..17 :
                    /\ todo = Rest(write_byte_aux(c, v), k)
                    /\ Writing(c, v, k, 4, 8) /\ Stored(c, v, k, 8)
    <3>1. PICK k \in 0..17 : /\ todo = Rest(write_byte_aux(c, v), k)
                             /\ Writing(c, v, k, 4, 8) /\ Stored(c, v, k, 8)
      BY <2>3
    <3>2. PICK r : r = write_byte_aux(c, v)
      OBVIOUS
    <3>3. r \in Seq(Op) /\ Len(r) = 17 /\ Rest(r, k) = <<>>
      BY <3>1, <3>2, AuxOps
    <3>4. k = 17
      BY <3>3, RestStep
    <3>5. Idle
      BY <3>1, <3>4 DEF Writing, Idle
    <3>6. store[c] = v
      BY <3>1, <3>4 DEF Stored
    <3> QED BY <1>3, <2>1, <3>5, <3>6 DEF InWrite
  <2> QED BY <2>1, <2>2, <2>3
<1> QED BY <1>1, <1>2, <1>3 DEF MemInv, Place, AtRest, InConfigure, InFinish

LEMMA ConfigureReturn ==
  ASSUME MemInv, todo = <<>>, pc = "enable"
  PROVE  Idle /\ Even /\ writing = {}
<1>1. InConfigure
  BY DEF MemInv, Place, AtRest, InEnable, InRead, InWrite, InFinish
<1>2. PICK k \in 0..12 : todo = Rest(configure_pins, k) /\ Configuring(k)
  BY <1>1 DEF InConfigure
<1>3. k = 12
  <2>1. PICK r : r = configure_pins
    OBVIOUS
  <2>2. r \in Seq(Op) /\ Len(r) = 12 /\ Rest(r, k) = <<>>
    BY <1>2, <2>1, ConfigureOps
  <2> QED BY <2>2, RestStep
<1> QED BY <1>1, <1>2, <1>3 DEF Configuring, Idle, InConfigure

LEMMA FinishReturn ==
  ASSUME MemInv, todo = <<>>, pc = "exit"
  PROVE  WriteEnable \in latch /\ OutputEnable \in latch /\ Even /\ writing = {}
<1>1. InFinish
  BY DEF MemInv, Place, AtRest, InEnable, InRead, InWrite, InConfigure
<1>2. PICK k \in 0..4 : todo = Rest(Finishing, k) /\ Leaving(k)
  BY <1>1 DEF InFinish
<1>3. k = 4
  <2>1. PICK r : r = Finishing
    OBVIOUS
  <2>2. r \in Seq(Op) /\ Len(r) = 4 /\ Rest(r, k) = <<>>
    BY <1>2, <2>1, FinishingOps
  <2> QED BY <2>2, RestStep
<1> QED BY <1>1, <1>2, <1>3 DEF Leaving, InFinish

(* What any call keeps.                                                    *)
LEMMA CallKeeps ==
  ASSUME MemInv, NEW from, NEW to, NEW ops, NEW write, Call(from, to, ops, write),
         WriteEnable \in latch \/ (writing = {} /\ write = {}),
         \A c \in writing : store[c] = wanted[c],
         \A c \in Cells \ write : wanted'[c] = wanted[c]
  PROVE  /\ todo = <<>> /\ pc = from /\ pc' = to /\ todo' = ops
         /\ torn' = torn \ writing /\ writing' = write
         /\ UNCHANGED <<functions, latch, saved, tool, store, job, got>>
         /\ Guarded' /\ Turned(functions)' /\ Turned(saved)' /\ Kept'
<1>1. /\ todo = <<>> /\ pc = from /\ pc' = to /\ todo' = ops
      /\ torn' = torn \ writing /\ writing' = write
      /\ UNCHANGED <<functions, latch, saved, tool, store, job, got>>
  BY DEF Call, Main
<1>2. Guarded'
  <2>1. CASE WriteEnable \in latch
    BY <1>1, <2>1 DEF Guarded, Driven, Drives, WriteEnable, PulledUp
  <2>2. CASE writing = {} /\ write = {}
    <3>1. torn' \cup writing' = torn \cup writing
      BY <1>1, <2>2
    <3> QED BY <1>1, <3>1 DEF MemInv, Guarded, Driven, Drives, Selected
  <2> QED BY <2>1, <2>2
<1>3. Kept'
  BY <1>1 DEF MemInv, Kept
<1>4. Turned(functions)' /\ Turned(saved)'
  BY <1>1 DEF MemInv, Turned
<1> QED BY <1>1, <1>2, <1>3, <1>4

(* A routine that has yet to begin.                                        *)
LEMMA RestZero ==
  ASSUME NEW r, r \in Seq(Op) PROVE Rest(r, 0) = r
<1>1. 0 \in 0..Len(r)
  BY LenProperties
<1> QED BY <1>1, RestStep

LEMMA ConfigureInv == ASSUME MemInv, Configure PROVE MemInv'
<1>1. /\ pc = "start" /\ Call("start", "enable", configure_pins, {})
      /\ UNCHANGED <<expect, wanted>>
      /\ address' = IF tool = "readmem" THEN job.start ELSE 0
  BY DEF Configure, Call, Main
<1>2. writing = {} /\ got = <<>> /\ expect = <<>>
  BY <1>1 DEF MemInv, Place, AtRest, InConfigure, InEnable, InRead, InWrite, InFinish, Progress
<1>3. /\ pc' = "enable" /\ todo' = configure_pins
      /\ torn' = torn \ writing /\ writing' = {}
      /\ UNCHANGED <<functions, latch, saved, tool, store, job, got>>
      /\ Guarded' /\ Turned(functions)' /\ Turned(saved)' /\ Kept'
  BY <1>1, <1>2, CallKeeps
<1>4. MemTypeOK'
  <2>1. job.start \in Nat
    BY MemAssumption DEF MemInv, MemTypeOK
  <2> QED BY <1>1, <1>3, <2>1 DEF MemInv, MemTypeOK, PinTypeOK
<1>5. InConfigure'
  <2>1. Configuring(0)'
    BY DEF Configuring
  <2>2. todo' = Rest(configure_pins, 0)
    BY <1>3, RestZero, ConfigureOps
  <2>3. Even'
    BY <1>1, <1>2, <1>3 DEF Even
  <2> QED BY <1>3, <2>1, <2>2, <2>3 DEF InConfigure
<1>6. Progress' /\ SamplesTrue'
  <2>1. Len(expect) = 0 /\ job.start \in Nat
    BY <1>2, MemAssumption DEF MemInv, MemTypeOK
  <2> QED BY <1>1, <1>2, <1>3, <2>1 DEF MemInv, Progress, SamplesTrue
<1> QED BY <1>3, <1>4, <1>5, <1>6 DEF MemInv, Place

LEMMA EnableInv == ASSUME MemInv, tool \in MemTool, Enable PROVE MemInv'
<1>1. /\ todo = <<>> /\ pc = "enable" /\ Call("enable", First[tool], enable_chip, {})
      /\ UNCHANGED <<expect, wanted, address>>
  BY DEF Enable, Call, Main
<1>2. writing = {} /\ Even /\ Idle /\ WriteEnable \in latch
  BY <1>1, ConfigureReturn DEF Idle
<1>3. PICK to : to = First[tool]
  OBVIOUS
<1>4. Call("enable", to, enable_chip, {})
  BY <1>1, <1>3
<1>5. /\ pc' = to /\ todo' = enable_chip
      /\ torn' = torn \ writing /\ writing' = {}
      /\ UNCHANGED <<functions, latch, saved, tool, store, job, got>>
      /\ Guarded' /\ Turned(functions)' /\ Turned(saved)' /\ Kept'
  BY <1>1, <1>2, <1>4, CallKeeps
<1>6. MemTypeOK'
  BY <1>1, <1>5 DEF MemInv, MemTypeOK, PinTypeOK
<1>7. /\ tool = "writemem" => to = "write"
      /\ tool = "readmem" => to = "read"
      /\ tool = "writerom" => to = "calls"
      /\ to \in {"write", "read", "calls"}
  BY <1>3 DEF First, MemTool
<1>8. InEnable'
  <2>1. todo' = Rest(enable_chip, 0)
    BY <1>5, RestZero, EnableOps
  <2>2. Even' /\ Idle'
    BY <1>1, <1>2, <1>5 DEF Even, Idle, Configured, Inputs
  <2> QED BY <1>5, <1>7, <2>1, <2>2 DEF InEnable
<1>9. Progress' /\ SamplesTrue'
  <2>1. tool = "readmem" => /\ address = job.start + Len(expect) /\ expect = <<>>
                            /\ job.length \in Nat
    BY <1>1, MemAssumption DEF MemInv, Progress, MemTypeOK
  <2>2. SamplesTrue'
    BY <1>1, <1>5 DEF MemInv, SamplesTrue
  <2>3. tool = "readmem" => Len(expect) <= job.length
    BY <2>1
  <2>4. Progress'
    BY <1>1, <1>5, <1>7, <2>1, <2>3 DEF Progress, MemTool
  <2> QED BY <2>2, <2>4
<1> QED BY <1>5, <1>6, <1>8, <1>9 DEF MemInv, Place

(* A read is expected to find what was last written, or a torn cell.       *)
LEMMA ReadInv ==
  ASSUME MemInv, NEW from, from \in {"read", "calls"}, NEW c \in Cells, Read(from, c),
         address' \in Nat, from = "calls" => address' = address,
         tool = "readmem" /\ from = "read" =>
            /\ address' = address + 1 /\ address <= job.start + job.length - 1
  PROVE  MemInv'
<1>1. /\ todo = <<>> /\ pc = from /\ Call(from, from, read_byte(c), {})
      /\ wanted' = wanted
      /\ expect' = Append(expect, IF c \in torn \ writing THEN MemByte ELSE {wanted[c]})
  BY DEF Read, Call, Main
<1>2. Idle /\ Even /\ (\A d \in writing : store[d] = wanted[d]) /\ WriteEnable \in latch
  BY <1>1, AtReturn DEF Idle
<1>3. /\ pc' = from /\ todo' = read_byte(c)
      /\ torn' = torn \ writing /\ writing' = {}
      /\ UNCHANGED <<functions, latch, saved, tool, store, job, got>>
      /\ Guarded' /\ Turned(functions)' /\ Turned(saved)' /\ Kept'
  BY <1>1, <1>2, CallKeeps
<1>4. PICK e \in SUBSET MemByte : e = IF c \in torn \ writing THEN MemByte ELSE {wanted[c]}
  BY DEF MemInv, MemTypeOK
<1>5. /\ expect' \in Seq(SUBSET MemByte) /\ Len(expect) \in Nat
      /\ Len(expect') = Len(expect) + 1 /\ expect'[Len(expect) + 1] = e
      /\ \A x \in 1..Len(expect) : expect'[x] = expect[x]
  <2>1. expect \in Seq(SUBSET MemByte) /\ expect' = Append(expect, e)
    BY <1>1, <1>4 DEF MemInv, MemTypeOK
  <2> QED BY <2>1
<1>6. MemTypeOK'
  <2>1. MemTypeOK
    BY DEF MemInv
  <2>2. torn' \subseteq Cells /\ writing' \subseteq Cells
    BY <1>3, <2>1 DEF MemTypeOK
  <2> QED BY <1>1, <1>3, <1>5, <2>1, <2>2 DEF MemTypeOK, PinTypeOK
<1>7. InRead'
  <2>1. Reading(c, 0)'
    BY <1>2, <1>3 DEF Reading, Idle, Configured, Inputs
  <2>2. todo' = Rest(read_byte(c), 0)
    BY <1>3, RestZero, ReadOps
  <2>3. Behind'
    BY <1>2, <1>3, <1>5 DEF Even, Behind
  <2>4. Due(c)'
    BY <1>1, <1>3, <1>4, <1>5 DEF Due
  <2> QED BY <1>3, <2>1, <2>2, <2>3, <2>4 DEF InRead
<1>8. SamplesTrue'
  <2>1. Len(got) <= Len(expect) /\ \A x \in 1..Len(got) : got[x] \in expect[x]
    BY DEF MemInv, SamplesTrue
  <2>2. Len(got) \in Nat
    BY DEF MemInv, MemTypeOK
  <2>3. \A x \in 1..Len(got) : x \in 1..Len(expect)
    BY <1>5, <2>1, <2>2
  <2> QED BY <1>3, <1>5, <2>1, <2>2, <2>3 DEF SamplesTrue
<1>9. Progress'
  <2>1. from = "calls" => tool = "writerom"
    BY <1>1 DEF MemInv, Progress
  <2>2. ASSUME tool = "readmem", from = "read"
        PROVE  address' = job.start + Len(expect') /\ Len(expect') <= job.length
    <3>1. address = job.start + Len(expect)
      BY <1>1, <2>2 DEF MemInv, Progress
    <3>2. job.start \in Nat /\ job.length \in Nat
      BY MemAssumption DEF MemInv, MemTypeOK
    <3>3. job' = job /\ address' = address + 1 /\ address <= job.start + job.length - 1
      BY <1>3, <2>2
    <3>4. PICK s \in Nat, l \in Nat, m \in Nat : s = job.start /\ l = job.length /\ m = Len(expect)
      BY <1>5, <3>2
    <3>5. address' = s + (m + 1) /\ m + 1 <= l
      BY <3>1, <3>3, <3>4
    <3> QED BY <1>5, <3>3, <3>4, <3>5
  <2> QED BY <1>3, <2>1, <2>2 DEF Progress
<1> QED BY <1>3, <1>6, <1>7, <1>8, <1>9 DEF MemInv, Place

(* What a write has to begin with.                                         *)
LEMMA WriteBegins ==
  ASSUME MemInv, NEW from, from \in {"write", "calls"}, NEW c \in Cells, NEW v \in MemByte,
         NEW ops, Write(from, from, ops, c, v), address' \in Nat
  PROVE  /\ pc = from /\ pc' = from /\ todo' = ops /\ writing' = {c} /\ wanted'[c] = v
         /\ MemTypeOK' /\ Guarded' /\ Turned(functions)' /\ Turned(saved)' /\ Kept'
         /\ Even' /\ Idle' /\ SamplesTrue' /\ Progress'
<1>1. /\ todo = <<>> /\ pc = from /\ Call(from, from, ops, {c})
      /\ wanted' = [wanted EXCEPT ![c] = v] /\ expect' = expect
  BY DEF Write, Call, Main
<1>2. Idle /\ Even /\ (\A d \in writing : store[d] = wanted[d]) /\ WriteEnable \in latch
  BY <1>1, AtReturn DEF Idle
<1>3. \A d \in Cells \ {c} : wanted'[d] = wanted[d]
  BY <1>1 DEF MemInv, MemTypeOK
<1>4. /\ pc' = from /\ todo' = ops
      /\ torn' = torn \ writing /\ writing' = {c}
      /\ UNCHANGED <<functions, latch, saved, tool, store, job, got>>
      /\ Guarded' /\ Turned(functions)' /\ Turned(saved)' /\ Kept'
  BY <1>1, <1>2, <1>3, CallKeeps
<1>5. MemTypeOK' /\ wanted'[c] = v
  <2>1. MemTypeOK
    BY DEF MemInv
  <2>2. torn' \subseteq Cells /\ writing' \subseteq Cells
    BY <1>4, <2>1 DEF MemTypeOK
  <2>3. wanted' \in [Cells -> MemByte] /\ wanted'[c] = v
    BY <1>1, <2>1 DEF MemTypeOK
  <2> QED BY <1>1, <1>4, <2>1, <2>2, <2>3 DEF MemTypeOK, PinTypeOK
<1>6. Even' /\ Idle' /\ SamplesTrue'
  BY <1>1, <1>2, <1>4 DEF Even, Idle, Configured, Inputs, MemInv, SamplesTrue
<1>7. Progress'
  BY <1>1, <1>4 DEF MemInv, Progress
<1> QED BY <1>1, <1>4, <1>5, <1>6, <1>7

LEMMA WriteNextInv == ASSUME MemInv, WriteNext PROVE MemInv'
<1>1. PICK c \in Cells, v \in MemByte : c = Cell(address) /\ v = ByteOf(address)
  BY DEF Cell, ByteOf, PinsOf, Cells, MemByte
<1>2. Write("write", "write", write_byte(c, v), c, v)
  BY <1>1 DEF WriteNext
<1>3. address' \in Nat
  BY DEF WriteNext, MemInv, MemTypeOK
<1>4. PICK ops : ops = write_byte(c, v)
  OBVIOUS
<1>5. /\ pc' = "write" /\ todo' = ops /\ writing' = {c} /\ wanted'[c] = v
      /\ MemTypeOK' /\ Guarded' /\ Turned(functions)' /\ Turned(saved)' /\ Kept'
      /\ Even' /\ Idle' /\ SamplesTrue' /\ Progress'
  BY <1>2, <1>3, <1>4, WriteBegins
<1>6. InWrite'
  <2>1. Writing(c, v, 0, 6, 5)' /\ Stored(c, v, 0, 5)'
    BY <1>5 DEF Writing, Stored, Idle
  <2>2. todo' = Rest(write_byte(c, v), 0)
    <3>1. ops \in Seq(Op)
      BY <1>4, WriteOps
    <3> QED BY <1>4, <1>5, <3>1, RestZero
  <2>3. 0 \in 0..14
    OBVIOUS
  <2> QED BY <1>5, <2>1, <2>2, <2>3 DEF InWrite
<1> QED BY <1>5, <1>6 DEF MemInv, Place

LEMMA WrittenInv == ASSUME MemInv, Written PROVE MemInv'
<1>1. /\ todo = <<>> /\ pc = "write" /\ Call("write", "read", <<>>, {})
      /\ UNCHANGED <<expect, wanted>> /\ address' = 0
  BY DEF Written, Call, Main
<1>2. Idle /\ Even /\ (\A c \in writing : store[c] = wanted[c]) /\ WriteEnable \in latch
  BY <1>1, AtReturn DEF Idle
<1>3. /\ pc' = "read" /\ todo' = <<>>
      /\ torn' = torn \ writing /\ writing' = {}
      /\ UNCHANGED <<functions, latch, saved, tool, store, job, got>>
      /\ Guarded' /\ Turned(functions)' /\ Turned(saved)' /\ Kept'
  BY <1>1, <1>2, CallKeeps
<1>4. MemTypeOK'
  BY <1>1, <1>3 DEF MemInv, MemTypeOK, PinTypeOK
<1>5. InEnable'
  BY <1>1, <1>2, <1>3 DEF InEnable, Even, Idle, Configured, Inputs
<1>6. Progress' /\ SamplesTrue'
  BY <1>1, <1>3 DEF MemInv, Progress, SamplesTrue
<1> QED BY <1>3, <1>4, <1>5, <1>6 DEF MemInv, Place

LEMMA ReadNextInv == ASSUME MemInv, ReadNext PROVE MemInv'
<1>1. PICK c \in Cells : c = Cell(address)
  BY DEF Cell, PinsOf, Cells
<1>2. Read("read", c) /\ address <= EndAddress /\ address' = address + 1
  BY <1>1 DEF ReadNext
<1>3. address' \in Nat
  BY <1>2 DEF MemInv, MemTypeOK
<1>4. tool = "readmem" => address <= job.start + job.length - 1
  BY <1>2 DEF EndAddress
<1> QED BY <1>2, <1>3, <1>4, ReadInv

LEMMA SomeCallInv == ASSUME MemInv, SomeCall PROVE MemInv'
<1>1. PICK c \in Cells :
        \/ Read("calls", c)
        \/ \E v \in MemByte : Write("calls", "calls", write_byte_aux(c, v), c, v)
  BY DEF SomeCall
<1>2. address' = address /\ address' \in Nat
  BY DEF SomeCall, MemInv, MemTypeOK
<1>3. CASE Read("calls", c)
  BY <1>2, <1>3, ReadInv
<1>4. ASSUME NEW v \in MemByte, Write("calls", "calls", write_byte_aux(c, v), c, v)
      PROVE  MemInv'
  <2>1. PICK ops : ops = write_byte_aux(c, v)
    OBVIOUS
  <2>2. /\ pc' = "calls" /\ todo' = ops /\ writing' = {c} /\ wanted'[c] = v
        /\ MemTypeOK' /\ Guarded' /\ Turned(functions)' /\ Turned(saved)' /\ Kept'
        /\ Even' /\ Idle' /\ SamplesTrue' /\ Progress'
    BY <1>2, <1>4, <2>1, WriteBegins
  <2>3. InWrite'
    <3>1. Writing(c, v, 0, 4, 8)' /\ Stored(c, v, 0, 8)'
      BY <2>2 DEF Writing, Stored, Idle
    <3>2. todo' = Rest(write_byte_aux(c, v), 0)
      <4>1. ops \in Seq(Op)
        BY <2>1, AuxOps
      <4> QED BY <2>1, <2>2, <4>1, RestZero
    <3>3. 0 \in 0..17
      OBVIOUS
    <3> QED BY <2>2, <3>1, <3>2, <3>3 DEF InWrite
  <2> QED BY <2>2, <2>3 DEF MemInv, Place
<1> QED BY <1>1, <1>3, <1>4

LEMMA FinishInv == ASSUME MemInv, Finish PROVE MemInv'
<1>1. PICK from : from = pc
  OBVIOUS
<1>2. /\ todo = <<>> /\ from \in {"read", "calls"} /\ Call(from, "exit", Finishing, {})
      /\ UNCHANGED <<expect, wanted, address>>
      /\ pc = "read" => address > EndAddress
  BY <1>1 DEF Finish, Call, Main, Finishing
<1>3. Idle /\ Even /\ (\A c \in writing : store[c] = wanted[c]) /\ WriteEnable \in latch
  BY <1>1, <1>2, AtReturn DEF Idle
<1>4. /\ pc' = "exit" /\ todo' = Finishing
      /\ torn' = torn \ writing /\ writing' = {}
      /\ UNCHANGED <<functions, latch, saved, tool, store, job, got>>
      /\ Guarded' /\ Turned(functions)' /\ Turned(saved)' /\ Kept'
  BY <1>2, <1>3, CallKeeps
<1>5. MemTypeOK'
  BY <1>2, <1>4 DEF MemInv, MemTypeOK, PinTypeOK
<1>6. InFinish'
  <2>1. Leaving(0)'
    BY <1>3, <1>4 DEF Leaving, Idle, Configured, Inputs, Strobes
  <2>2. todo' = Rest(Finishing, 0)
    BY <1>4, RestZero, FinishingOps
  <2> QED BY <1>2, <1>3, <1>4, <2>1, <2>2 DEF InFinish, Even
<1>7. SamplesTrue'
  BY <1>2, <1>4 DEF MemInv, SamplesTrue
<1>8. Progress'
  <2>1. ASSUME tool = "readmem" PROVE Len(expect) = job.length
    <3>1. pc = "read"
      BY <1>1, <1>2, <2>1 DEF MemInv, Progress
    <3>2. PICK s \in Nat, l \in Nat, m \in Nat : s = job.start /\ l = job.length /\ m = Len(expect)
      BY MemAssumption DEF MemInv, MemTypeOK
    <3>3. address = s + m /\ m <= l /\ address > s + l - 1
      BY <1>2, <2>1, <3>1, <3>2 DEF MemInv, Progress, EndAddress
    <3> QED BY <3>2, <3>3
  <2> QED BY <1>2, <1>4, <2>1 DEF Progress
<1> QED BY <1>4, <1>5, <1>6, <1>7, <1>8 DEF MemInv, Place

LEMMA ExitInv == ASSUME MemInv, Exit PROVE MemInv'
<1>1. /\ todo = <<>> /\ pc = "exit" /\ Call("exit", "done", <<>>, {})
      /\ UNCHANGED <<expect, wanted, address>>
  BY DEF Exit, Call, Main
<1>2. WriteEnable \in latch /\ OutputEnable \in latch /\ Even /\ writing = {}
  BY <1>1, FinishReturn
<1>3. /\ pc' = "done" /\ todo' = <<>>
      /\ torn' = torn \ writing /\ writing' = {}
      /\ UNCHANGED <<functions, latch, saved, tool, store, job, got>>
      /\ Guarded' /\ Turned(functions)' /\ Turned(saved)' /\ Kept'
  BY <1>1, <1>2, CallKeeps
<1>4. MemTypeOK'
  BY <1>1, <1>3 DEF MemInv, MemTypeOK, PinTypeOK
<1>5. AtRest' /\ Left'
  BY <1>2, <1>3 DEF AtRest, Left
<1>6. Progress' /\ SamplesTrue'
  BY <1>1, <1>2, <1>3 DEF MemInv, Progress, SamplesTrue, Even
<1> QED BY <1>3, <1>4, <1>5, <1>6 DEF MemInv, Place

LEMMA KilledInv == ASSUME MemInv, Killed PROVE MemInv'
<1>1. /\ pc' = "killed" /\ todo' = <<>> /\ torn' = torn \cup writing /\ writing' = {}
      /\ UNCHANGED <<functions, latch, saved, got, tool, store, job, address, expect, wanted>>
  BY DEF Killed, Kill
<1>2. MemTypeOK' /\ Turned(functions)' /\ Turned(saved)'
  BY <1>1 DEF MemInv, MemTypeOK, PinTypeOK, Turned
<1>3. torn' \cup writing' = torn \cup writing
  BY <1>1
<1>4. Guarded'
  BY <1>1, <1>3 DEF MemInv, Guarded, Driven, Drives, Selected
<1>5. Kept'
  BY <1>1, <1>3 DEF MemInv, Kept
<1>6. AtRest' /\ Left' /\ Progress' /\ SamplesTrue'
  BY <1>1 DEF AtRest, Left, MemInv, Progress, SamplesTrue
<1> QED BY <1>2, <1>4, <1>5, <1>6 DEF MemInv, Place

LEMMA AgainInv == ASSUME MemInv, Again PROVE MemInv'
<1>1. /\ pc \in {"done", "killed"} /\ pc' = "start" /\ todo' = <<>> /\ got' = <<>>
      /\ saved' = functions /\ expect' = <<>>
      /\ UNCHANGED <<functions, latch, store, address, writing, wanted, torn>>
      /\ job' \in ReadJobs
  BY DEF Again, Begins, MemInv, MemTypeOK
<1>2. writing = {}
  BY <1>1 DEF MemInv, Place, AtRest, InConfigure, InEnable, InRead, InWrite, InFinish
<1>3. MemTypeOK'
  <2>1. got' \in Seq(MemByte) /\ expect' \in Seq(SUBSET MemByte)
    BY <1>1
  <2> QED BY <1>1, <2>1 DEF MemInv, MemTypeOK, PinTypeOK
<1>4. Guarded' /\ Kept' /\ Turned(functions)' /\ Turned(saved)'
  BY <1>1 DEF MemInv, Guarded, Driven, Drives, Selected, Kept, Turned
<1>5. AtRest' /\ Left'
  BY <1>1, <1>2 DEF AtRest, Left
<1>6. Progress' /\ SamplesTrue'
  BY <1>1 DEF Progress, SamplesTrue
<1> QED BY <1>3, <1>4, <1>5, <1>6 DEF MemInv, Place

LEMMA MemInitInv == ASSUME MemInit PROVE MemInv
<1>1. /\ todo = <<>> /\ got = <<>> /\ expect = <<>> /\ pc = "start" /\ writing = {}
      /\ saved = functions /\ store = wanted /\ wanted \in [Cells -> MemByte]
      /\ job \in ReadJobs /\ address = 0 /\ torn = IF Takes THEN {Selected} ELSE {}
  BY MemAssumption DEF MemInit, GpioInit
<1>2. \/ functions = [p \in GpioPins |-> FuncInput] /\ latch \in {{}, GpioPins}
      \/ functions = [p \in GpioPins |-> FuncOutput] /\ latch = {}
  BY DEF MemInit, GpioInit, LeftLow
<1>3. PinTypeOK
  BY <1>1, <1>2 DEF PinTypeOK
<1>4. Selected \in Cells
  BY DEF Selected, Cells
<1>5. MemTypeOK
  <2>1. got \in Seq(MemByte) /\ expect \in Seq(SUBSET MemByte)
    BY <1>1
  <2> QED BY <1>1, <1>3, <1>4, <2>1 DEF MemTypeOK
<1>6. Turned(functions) /\ Turned(saved)
  BY <1>1, <1>2, PinRegisters DEF Turned, FuncInput, FuncOutput
<1>7. Guarded
  <2>1. CASE functions = [p \in GpioPins |-> FuncInput]
    <3>1. Driven(WriteEnable)
      BY <2>1 DEF Driven, Drives, WriteEnable, PulledUp, GpioPins, FuncInput, FuncOutput
    <3> QED BY <3>1 DEF Guarded
  <2>2. CASE functions = [p \in GpioPins |-> FuncOutput] /\ latch = {}
    <3>1. Takes
      BY <2>2 DEF Takes, Driven, Drives, WriteEnable, ChipEnable, GpioPins
    <3> QED BY <1>1, <3>1 DEF Guarded
  <2> QED BY <1>2, <2>1, <2>2
<1>8. Kept /\ AtRest /\ Left /\ Progress /\ SamplesTrue
  BY <1>1 DEF Kept, AtRest, Left, Progress, SamplesTrue
<1> QED BY <1>5, <1>6, <1>7, <1>8 DEF MemInv, Place

-----------------------------------------------------------------------------
LEMMA ToolsApart == MemTool \cap CartTool = {}
BY DEF MemTool, CartTool

LEMMA OneToolInit == Init => OneTool
<1>1. CASE MemInit /\ NoCartridge
  <2>1. tool \in MemTool /\ ~busy
    BY <1>1 DEF MemInit, GpioInit, NoCartridge
  <2> QED BY <1>1, <2>1, MemInitInv DEF OneTool
<1>2. CASE CartInit /\ NoMemory
  <2>1. tool \in CartTool
    BY <1>2, CartAssumption DEF CartInit, GpioInit
  <2> QED BY <2>1 DEF OneTool
<1> QED BY <1>1, <1>2 DEF Init

LEMMA MemStep ==
  ASSUME MemInv, tool \in MemTool, MemNext
  PROVE  MemInv' /\ tool' \in MemTool
<1>1. MemInv'
  BY PinInv, ConfigureInv, EnableInv, WriteNextInv, WrittenInv, ReadNextInv, SomeCallInv,
     FinishInv, ExitInv, KilledInv, AgainInv DEF MemNext
<1>2. tool' = tool \/ Again
  BY DEF MemNext, Pin, Do, Configure, Enable, WriteNext, Written, ReadNext, SomeCall, Read,
         Write, Finish, Exit, Call, Main, Killed, Kill
<1>3. Again => tool' \in MemTool
  BY DEF Again, Begins
<1> QED BY <1>1, <1>2, <1>3

LEMMA CartStays ==
  ASSUME tool \in CartTool, CartNext
  PROVE  tool' \in CartTool
<1>1. CASE CartAgain
  BY <1>1, CartAssumption DEF CartAgain, Begins
<1>2. CASE CartMain
  BY <1>2 DEF CartMain, CartConfigure, SendDevice, SendHigh, SendLow, Refused, Exits,
     ReadPage, NoPage, SendNext, PageSent, Poll, PollAgain, PollsSpent, PageDone, AllDone,
     ReadAgain, Located, Receive, PrintByte, AllRead, CartExit, CartCall, Main
<1>3. CASE CartPin \/ Ready \/ Remove \/ CartKilled
  BY <1>3 DEF CartPin, Do, Ready, Remove, CartKilled, Kill, gpioVars
<1> QED BY <1>1, <1>2, <1>3 DEF CartNext

LEMMA OnlyReady ==
  ASSUME CartNext, tool \notin CartTool PROVE Ready
BY DEF CartNext, CartPin, Remove, CartMain, CartKilled, CartAgain, CartConfigure, SendDevice,
   SendHigh, SendLow, Refused, Exits, ReadPage, NoPage, SendNext, PageSent, Poll, PollAgain,
   PollsSpent, PageDone, AllDone, ReadAgain, Located, Receive, PrintByte, AllRead, CartExit,
   CartCall

LEMMA OnlyMem ==
  ASSUME MemNext PROVE tool \in MemTool
BY DEF MemNext, Pin, Configure, Enable, WriteNext, Written, ReadNext, SomeCall, Read,
   Write, Finish, Exit, Call, Killed, Again

LEMMA OneToolStep == OneTool /\ [Next]_toolsVars => OneTool'
<1> SUFFICES ASSUME OneTool, [Next]_toolsVars PROVE OneTool'
  OBVIOUS
<1>1. CASE MemNext /\ UNCHANGED cartVars
  <2>1. tool \in MemTool /\ tool \notin CartTool
    BY <1>1, OnlyMem, ToolsApart
  <2>2. ~busy /\ MemInv
    BY <2>1 DEF OneTool
  <2>3. busy' = busy
    BY <1>1 DEF cartVars, chipVars
  <2> QED BY <1>1, <2>1, <2>2, <2>3, MemStep DEF OneTool
<1>2. CASE CartNext /\ UNCHANGED memVars
  <2>1. CASE tool \in CartTool
    BY <1>2, <2>1, CartStays DEF OneTool
  <2>2. CASE tool \notin CartTool
    <3>1. busy /\ ~busy
      BY <1>2, <2>2, OnlyReady DEF Ready, OneTool
    <3> QED BY <3>1
  <2> QED BY <2>1, <2>2
<1>3. CASE UNCHANGED toolsVars
  <2>1. UNCHANGED <<functions, latch, saved, todo, got, tool, pc, store, job, address,
                    expect, wanted, writing, torn, busy>>
    BY <1>3 DEF toolsVars, gpioVars, memVars, cartVars, chipVars
  <2>2. MemInv => MemInv'
    <3>1. MemTypeOK /\ Guarded /\ Kept => MemTypeOK' /\ Guarded' /\ Kept'
      BY <2>1 DEF MemTypeOK, PinTypeOK, Guarded, Kept, Driven, Drives, Selected
    <3>2. /\ Turned(functions) => Turned(functions)'
          /\ Turned(saved) => Turned(saved)'
      BY <2>1 DEF Turned
    <3>3. Progress /\ SamplesTrue => Progress' /\ SamplesTrue'
      BY <2>1 DEF Progress, SamplesTrue
    <3>4. Place => Place'
      <4>1. AtRest /\ Left => AtRest' /\ Left'
        BY <2>1 DEF AtRest, Left
      <4>2. InConfigure => InConfigure'
        BY <2>1 DEF InConfigure, Configuring, Even, Configured, Inputs
      <4>3. InEnable => InEnable'
        BY <2>1 DEF InEnable, Even, Idle, Configured, Inputs
      <4>4. InRead => InRead'
        BY <2>1 DEF InRead, Reading, At, Behind, Due, Even, Idle, Configured, Inputs
      <4>5. InWrite => InWrite'
        BY <2>1 DEF InWrite, Writing, Stored, At, Levels, Even, Configured, Inputs, Outputs
      <4>6. InFinish => InFinish'
        BY <2>1 DEF InFinish, Leaving, Even, Idle, Configured, Inputs
      <4> QED BY <4>1, <4>2, <4>3, <4>4, <4>5, <4>6 DEF Place
    <3> QED BY <3>1, <3>2, <3>3, <3>4 DEF MemInv
  <2> QED BY <2>1, <2>2 DEF OneTool
<1> QED BY <1>1, <1>2, <1>3 DEF Next

LEMMA OneToolAlways == Spec => []OneTool
BY OneToolInit, OneToolStep, PTL DEF Spec

-----------------------------------------------------------------------------
(* The pins and the memory keep to their types, whichever program runs.    *)
THEOREM MemoryTypes == Spec => [](tool \in MemTool => MemTypeOK)
<1>1. OneTool => (tool \in MemTool => MemTypeOK)
  BY ToolsApart DEF OneTool, MemInv
<1> QED BY <1>1, OneToolAlways, PTL

(* For every width of the address and the data, every order of writes and  *)
(* reads and a program killed between any two stores and started again: a  *)
(* cell is as last written, but for the one being written and torn ones.   *)
THEOREM MemoryAsAsked == Spec => []StoreAsAsked
<1>1. OneTool => StoreAsAsked
  BY ToolsApart DEF OneTool, MemInv, StoreAsAsked, Kept
<1> QED BY <1>1, OneToolAlways, PTL

(* From the end of configure_pins to the end of the program the Pi and the *)
(* '245 never both drive the data lines, restoring the functions included. *)
THEOREM MemoryNoFight == Spec => []NoFight
<1>1. ASSUME OneTool, tool \in MemTool, pc \notin {"start", "enable", "killed"}
      PROVE  Driven(OutputEnable) \/ \A p \in DataPins : ~Drives(p)
  <2>1. MemInv
    BY <1>1, ToolsApart DEF OneTool
  <2>2. Inputs => \A p \in DataPins : ~Drives(p)
    BY DEF Inputs, Drives, FuncInput, FuncOutput
  <2>3. OutputEnable \in latch => Driven(OutputEnable) \/ \A p \in DataPins : ~Drives(p)
    BY <2>1 DEF MemInv, Turned, Driven, Drives
  <2>4. CASE AtRest /\ Left
    BY <1>1, <2>3, <2>4 DEF AtRest, Left
  <2>5. CASE InEnable \/ InRead
    BY <2>2, <2>5 DEF InEnable, InRead, Reading, Idle
  <2>6. CASE InWrite
    <3>1. PICK c, v, k, d, s : k \in Nat /\ d \in {4, 6} /\ Writing(c, v, k, d, s)
      BY <2>6 DEF InWrite
    <3> QED BY <2>2, <2>3, <3>1 DEF Writing
  <2>7. CASE InFinish
    BY <2>2, <2>3, <2>7 DEF InFinish, Leaving, Idle
  <2> QED BY <1>1, <2>1, <2>4, <2>5, <2>6, <2>7 DEF MemInv, Place, InConfigure
<1> QED BY <1>1, OneToolAlways, PTL DEF NoFight

(* Each byte read is what was last written to its cell, and a readmem that *)
(* ends has read every byte it was asked for.                              *)
THEOREM MemoryDump == Spec => []DumpTrue
<1>1. OneTool => DumpTrue
  <2> SUFFICES ASSUME OneTool, tool \in MemTool
               PROVE  /\ \A k \in DOMAIN got : got[k] \in expect[k]
                      /\ pc = "done" /\ tool = "readmem" => Len(got) = job.length
    BY DEF DumpTrue
  <2>1. MemInv
    BY ToolsApart DEF OneTool
  <2>2. DOMAIN got = 1..Len(got)
    BY <2>1 DEF MemInv, MemTypeOK
  <2> QED BY <2>1, <2>2 DEF MemInv, SamplesTrue, Progress
<1> QED BY <1>1, OneToolAlways, PTL
=============================================================================
