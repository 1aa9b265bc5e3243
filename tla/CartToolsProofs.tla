--------------------------- MODULE CartToolsProofs ---------------------------
(***************************************************************************)
(* For every page size, cartridge, file and range, and every number of     *)
(* polls: what writecart writes and readcart prints, store by store, with  *)
(* the cartridge pulled out and a program killed at any moment.            *)
(*                                                                         *)
(* The invariant names the place in each routine, by the stores done, with *)
(* the lines and what the device is there, and what the file has to say of *)
(* the cells and of the page collected.                                    *)
(***************************************************************************)
EXTENDS GpioToolsProofs

-----------------------------------------------------------------------------
(* The cartridge: the lines, and what the device is there while it is      *)
(* plugged in.                                                             *)
Modes == {"idle", "ctl", "hi", "lo", "data", "send", "deaf"}

CartTypeOK ==
    /\ PinTypeOK
    /\ todo \in Seq(Op) /\ got \in Seq(SUBSET {SdaPin})
    /\ cjob \in CartJobs /\ tool = cjob.tool
    /\ rom \in [0..(Size - 1) -> Nat] /\ old \in [0..(Size - 1) -> Nat]
    /\ DOMAIN page \subseteq 0..(Size - 1) /\ page \in [DOMAIN page -> Nat]
    /\ late \subseteq 0..(Size - 1)
    /\ present \in BOOLEAN /\ busy \in BOOLEAN /\ pull \in BOOLEAN
    /\ mode \in Modes /\ bits \in Nat /\ shift \in Nat /\ ptr \in Nat
    /\ pos \in Nat /\ len \in Nat /\ used \in Nat /\ n \in Nat /\ i \in Nat
    /\ safe \in Nat /\ more \in Nat /\ printed \in Seq([1..Width -> BOOLEAN])

Clean == page = None /\ ~busy
Gone == ~present => Clean /\ ~pull

Wired ==
    /\ functions[VccPin] = FuncOutput /\ functions[SclPin] = FuncOutput
    /\ VccPin \in latch
SdaOut == functions[SdaPin] = FuncOutput
SclHigh == SclPin \in latch
SdaHigh == SdaPin \in latch

(* Nobody holds a line.                                                    *)
Free == Wired /\ SdaOut /\ SclHigh /\ SdaHigh /\ ~pull

PowerOn == configure_cart \o enable_cart

Powering(k) ==
    /\ k >= 1 => functions[VccPin] = FuncOutput
    /\ k >= 2 => Clean /\ ~pull /\ (VccPin \in latch <=> k = 7)
    /\ k >= 3 => functions[SclPin] = FuncOutput
    /\ k >= 4 => SclHigh
    /\ k >= 5 => SdaOut
    /\ k >= 6 => SdaHigh

Starting(k) ==
    /\ Wired /\ SdaOut /\ ~pull /\ (SclHigh <=> k < 2) /\ (SdaHigh <=> k = 0)
    /\ present /\ k >= 1 => mode = "ctl" /\ bits = 0 /\ shift = 0

Restarting(k) ==
    /\ Wired /\ SdaOut /\ ~pull /\ (SclHigh <=> k \in {2, 3})
    /\ k \in {1, 2} => SdaHigh
    /\ k >= 3 => ~SdaHigh
    /\ present /\ k >= 3 => mode = "ctl" /\ bits = 0 /\ shift = 0

(* j bits of v are sent, and c stores of the next done.                    *)
Sending(m, v, j, c) ==
    /\ Wired /\ SdaOut /\ ~pull /\ got = <<>>
    /\ SclHigh <=> c = 2
    /\ c # 0 => (SdaHigh <=> Bit(v, j + 1) = 1)
    /\ present => LET b == IF c = 2 THEN j + 1 ELSE j IN
                  mode = m /\ bits = b /\ shift = v \div 2 ^ (Width - b)

NextMode(m, v) ==
    CASE m = "ctl" -> IF v = CtlRead THEN "send" ELSE "hi"
      [] m = "hi" -> "lo"
      [] OTHER -> "data"

(* The bit that the device shows next.                                     *)
Shows(p, j) == pull = (Bit(rom[p % Size], j + 1) = 0)

(* All of them are sent, and c stores of the acknowledge done.             *)
Acking(m, v, c) ==
    /\ Wired /\ (SdaOut <=> c \notin 2..5) /\ (SclHigh <=> c \in {3, 4})
    /\ c >= 1 => SdaHigh
    /\ Len(got) = IF c >= 4 THEN 1 ELSE 0
    /\ present =>
         \/ mode = "deaf" /\ ~pull /\ m = "ctl" /\ pc = "polled"
         \/ /\ mode = m /\ c < 5 /\ pull /\ shift = v
            /\ bits = IF c >= 3 THEN Width + 1 ELSE Width
         \/ /\ mode = NextMode(m, v) /\ c >= 5 /\ bits = 0 /\ shift = 0
            /\ IF mode = "send" THEN Shows(ptr, 0) ELSE ~pull

InByte(m, v, t) ==
    \/ \E j \in 0..(Width - 1), c \in 0..2 :
         todo = Rest(send_byte(v), 3 * j + c) \o t /\ Sending(m, v, j, c)
    \/ \E c \in 0..6 :
         todo = Rest(send_byte(v), 3 * Width + c) \o t /\ Acking(m, v, c)

(* The device is to send the byte at p, or does not listen to a poll.      *)
Deaf == pc = "polled" /\ mode = "deaf" /\ ~pull
Samples(k) == Len(got) = IF pc = "byte" THEN k ELSE 1 + k

Turning(p, c) ==
    /\ Wired /\ SdaOut /\ ~SclHigh /\ (c = 1 => SdaHigh) /\ Samples(0)
    /\ present => Deaf \/ (mode = "send" /\ bits = 0 /\ ptr = p /\ Shows(p, 0))

Showing(p, j, c) ==
    /\ Wired /\ ~SdaOut /\ SdaHigh /\ (SclHigh <=> c # 0)
    /\ Samples(IF c = 2 THEN j + 1 ELSE j)
    /\ present => Deaf \/ /\ mode = "send" /\ ptr = p /\ Shows(p, j)
                          /\ bits = IF c # 0 THEN j + 1 ELSE j

Shown(p, c) ==
    /\ Wired /\ (SdaOut <=> c = 1) /\ SdaHigh /\ ~SclHigh /\ Samples(Width)
    /\ present => Deaf \/ (mode = "send" /\ bits = Width /\ ptr = p + 1 /\ ~pull)

InReceive(p, t) ==
    \/ \E c \in 0..1 : todo = Rest(recv_byte, c) \o t /\ Turning(p, c)
    \/ \E j \in 0..(Width - 1), c \in 0..2 :
         todo = Rest(recv_byte, 2 + 3 * j + c) \o t /\ Showing(p, j, c)
    \/ \E c \in 0..1 : todo = Rest(recv_byte, 2 + 3 * Width + c) \o t /\ Shown(p, c)

AckPlace(p, k) ==
    /\ Wired /\ SdaOut /\ (SclHigh <=> k = 2) /\ Samples(Width)
    /\ k >= 1 => ~SdaHigh
    /\ present => /\ mode = "send" /\ ptr = p
                  /\ bits = IF k = 3 THEN 0 ELSE IF k = 2 THEN Width + 1 ELSE Width
                  /\ IF k = 3 THEN Shows(p, 0) ELSE ~pull

NakPlace(k) ==
    /\ Wired /\ SdaOut /\ ~pull /\ (SclHigh <=> k = 2) /\ Samples(Width)
    /\ k >= 1 => SdaHigh
    /\ present => \/ Deaf
                  \/ k < 2 /\ mode = "send" /\ bits = Width
                  \/ k >= 2 /\ mode = "deaf"

(* The STOP of a page, and of a poll.                                      *)
Stopping(k) ==
    /\ Wired /\ SdaOut /\ ~pull /\ (SclHigh <=> k >= 2)
    /\ k >= 1 => (SdaHigh <=> k = 3)
    /\ k = 3 /\ present => mode = "idle"

Leave == stop \o disable_cart \o CopySaved

Parting(k) ==
    /\ k < 4 => Wired
    /\ k < 6 => SdaOut /\ functions[SclPin] = FuncOutput
    /\ k = 0 /\ SclHigh /\ present => mode = "idle"
    /\ k = 1 => ~SclHigh /\ ~SdaHigh
    /\ k = 2 => SclHigh /\ ~SdaHigh
    /\ k >= 3 => SclHigh /\ SdaHigh
    /\ k >= 4 => VccPin \notin latch
-----------------------------------------------------------------------------
(* What the file has to say of the cells.                                  *)
HighByte == (pos \div 2 ^ Width) % 2 ^ Width
LowByte == pos % 2 ^ Width
Pointed == 2 ^ Width * HighByte + LowByte

Bytes(lo, hi) == [a \in lo..(hi - 1) |-> cjob.input[a - cjob.start + 1]]

(* The byte under way has been taken.                                      *)
ByteTaken == got # <<>> /\ bits = 0

Right(lo, hi) == \A a \in lo..(hi - 1) : rom[a] = cjob.input[a - cjob.start + 1]

Pending ==
    /\ ~busy => page = None
    /\ present => \A a \in (cjob.start + safe)..(cjob.start + used - 1) :
                     rom[a] = cjob.input[a - cjob.start + 1] \/ a \in DOMAIN page

Answers == got # <<>> /\ got[1] = {} =>
    Clean /\ Right(cjob.start + safe, cjob.start + used)

Silence == pull \/ (present /\ mode = "send") => ~busy

-----------------------------------------------------------------------------
(* Where the program is.                                                   *)
AtBegin ==
    /\ pc = "begin"
    /\ LET t == IF tool = "readcart" THEN start ELSE <<>> IN
       \E k \in 0..7 : todo = Rest(PowerOn, k) \o t /\ Powering(k)
                       /\ (k < 2 => used = 0 /\ printed = <<>> /\ safe = 0)

AtBeginStart ==
    /\ pc = "begin" /\ tool = "readcart" /\ Clean
    /\ \E k \in 0..2 : todo = Rest(start, k) /\ Starting(k)

AtDeviceStart ==
    /\ pc = "device" /\ tool = "writecart" /\ Clean /\ got = <<>>
    /\ \E k \in 0..2 : todo = Rest(start, k) \o send_byte(CtlWrite) /\ Starting(k)

AtDevice == pc = "device" /\ Clean /\ InByte("ctl", CtlWrite, <<>>)

AtHigh ==
    /\ pc = "high" /\ Clean /\ InByte("hi", HighByte, <<>>)
    /\ present /\ ByteTaken => ptr = HighByte

AtLow ==
    /\ pc = "low" /\ Clean /\ InByte("lo", LowByte, <<>>)
    /\ present => ptr = IF ByteTaken THEN Pointed ELSE HighByte

AtData ==
    /\ pc = "data" /\ tool = "writecart"
    /\ InByte("data", cjob.input[used + i + 1], <<>>)
    /\ present => /\ ~busy
                  /\ ByteTaken => page = Bytes(pos, pos + i + 1)
                  /\ ~ByteTaken => page = Bytes(pos, pos + i)
                  /\ ~ByteTaken => ptr = pos + i
                  /\ ByteTaken /\ i + 1 < n => ptr = pos + i + 1

AtStop ==
    /\ pc = "poll" /\ tool = "writecart"
    /\ \E k \in 0..2 :
         /\ todo = Rest(stop, k) /\ Stopping(k)
         /\ present => /\ mode = "data" /\ bits = (IF k = 2 THEN 1 ELSE 0)
                       /\ ~busy /\ page = Bytes(cjob.start + safe, cjob.start + used)

AtPoll == pc = "poll" /\ tool = "writecart" /\ todo = <<>> /\ Free /\ Pending
          /\ (present => mode = "idle")

AtPolled ==
    /\ pc = "polled" /\ tool = "writecart" /\ Pending /\ Answers /\ Silence
    /\ LET t2 == stop
           t1 == send_nak \o t2
           t0 == recv_byte \o t1 IN
       \/ \E k \in 0..2 : todo = Rest(start, k) \o (send_byte(CtlRead) \o t0)
                           /\ Starting(k) /\ got = <<>>
       \/ InByte("ctl", CtlRead, t0)
       \/ \E p \in Nat : InReceive(p, t1)
       \/ \E k \in 0..3 : todo = Rest(send_nak, k) \o t2 /\ NakPlace(k)
       \/ \E k \in 0..3 : /\ todo = Rest(stop, k) /\ Stopping(k) /\ got # <<>>
                          /\ present /\ k < 3 => mode = "deaf"

AtAgain ==
    /\ pc = "again" /\ tool = "readcart" /\ Clean
    /\ present => ptr = Pointed
    /\ \/ \E k \in 0..4 : todo = Rest(restart, k) \o send_byte(CtlRead)
                           /\ Restarting(k) /\ got = <<>>
       \/ InByte("ctl", CtlRead, <<>>)

AtRead ==
    /\ pc = "read" /\ tool = "readcart" /\ Clean /\ todo = <<>>
    /\ Wired /\ SdaOut /\ ~SclHigh
    /\ present /\ len > 0 => mode = "send" /\ bits = 0 /\ ptr = pos /\ Shows(pos, 0)

AtByte ==
    /\ pc = "byte" /\ tool = "readcart" /\ Clean /\ len > 0
    /\ present => \A b \in DOMAIN got : (got[b] # {}) = (Bit(rom[pos], b) = 1)
    /\ LET t == IF len > 1 THEN send_ack ELSE send_nak IN
       \/ InReceive(pos, t)
       \/ \E k \in 0..3 : todo = Rest(t, k) /\ IF len > 1 THEN AckPlace(pos + 1, k) ELSE NakPlace(k)

AtExit == pc = "exit" /\ \E k \in 0..8 : todo = Rest(Leave, k) /\ Parting(k)

AtCartRest ==
    /\ pc \in {"start", "killed", "done"} /\ todo = <<>>
    /\ pc = "start" => safe = 0 /\ printed = <<>>

CartPlace ==
    \/ AtCartRest \/ AtBegin \/ AtBeginStart \/ AtDeviceStart \/ AtDevice \/ AtHigh
    \/ AtLow \/ AtData \/ AtStop \/ AtPoll \/ AtPolled \/ AtAgain \/ AtRead \/ AtByte
    \/ AtExit

CartCounts ==
    /\ pc \notin {"start", "killed", "exit", "done"} =>
         /\ pos + len = cjob.start + cjob.length
         /\ tool = "readcart" => pos = cjob.start + Len(printed)
         /\ tool = "writecart" =>
              /\ pos = cjob.start + used /\ used <= Len(cjob.input) /\ safe <= used
              /\ pc \notin {"poll", "polled"} => safe = used
    /\ pc = "data" => i < n /\ n <= len /\ used + n <= Len(cjob.input)
                      /\ (pos % page_size) + n <= page_size
    /\ pc \in {"exit", "done"} /\ n = 0 =>
         IF tool = "writecart" THEN safe = Lesser(cjob.length, Len(cjob.input))
         ELSE Len(printed) = cjob.length

PageRight ==
    tool = "writecart" =>
    \A a \in DOMAIN page :
       \/ a \in DOMAIN Wanted /\ page[a] = Wanted[a]
       \/ a \in late /\ safe = 0 /\ pc \in {"start", "begin", "killed"}

RomRight ==
    tool = "writecart" =>
    /\ \A a \in DOMAIN Wanted :
         rom[a] = Wanted[a] \/ ((rom[a] = old[a] \/ a \in late) /\ a >= cjob.start + safe)
    /\ \A a \in DOMAIN rom \ (DOMAIN Wanted \cup late) : rom[a] = old[a]

PrintRight ==
    tool = "readcart" =>
    /\ printed # <<>> => Clean
    /\ present => \A k \in DOMAIN printed : \A b \in 1..Width :
         printed[k][b] = (Bit(rom[cjob.start + k - 1], b) = 1)

CartInv ==
    /\ CartTypeOK /\ Gone /\ CartPlace /\ CartCounts
    /\ PageRight /\ RomRight /\ PrintRight

-----------------------------------------------------------------------------
(* The wires, and powers of 2 up to the width of a byte.                   *)
LEMMA Wires ==
  /\ VccPin \in GpioPins /\ SclPin \in GpioPins /\ SdaPin \in GpioPins
  /\ VccPin # SclPin /\ VccPin # SdaPin /\ SclPin # SdaPin
  /\ SdaPin \in PulledUp /\ FuncInput # FuncOutput
BY DEF VccPin, SclPin, SdaPin, GpioPins, PulledUp, FuncInput, FuncOutput

(* The powers of 2 that bytes and bits need.                               *)
LEMMA PowerOf ==
  ASSUME NEW k \in 0..8
  PROVE  2 ^ k \in Nat \ {0} /\ (k < 8 => 2 ^ (k + 1) = 2 * 2 ^ k)
<1>1. 2 ^ 0 = 1 /\ 2 ^ 1 = 2 /\ 2 ^ 2 = 4 /\ 2 ^ 3 = 8
  BY SMT
<1>2. 2 ^ 4 = 16 /\ 2 ^ 5 = 32 /\ 2 ^ 6 = 64
  BY SMT
<1>3. 2 ^ 7 = 128 /\ 2 ^ 8 = 256
  BY SMT
<1>4. k \in {0, 1, 2, 3, 4, 5, 6, 7, 8}
  OBVIOUS
<1>5. CASE k = 0
  BY <1>1, <1>5
<1>6. CASE k = 1
  BY <1>1, <1>6
<1>7. CASE k = 2
  BY <1>1, <1>7
<1>8. CASE k = 3
  BY <1>1, <1>2, <1>8
<1>9. CASE k = 4
  BY <1>2, <1>9
<1>10. CASE k = 5
  BY <1>2, <1>10
<1>11. CASE k = 6
  BY <1>2, <1>3, <1>11
<1>12. CASE k = 7
  BY <1>3, <1>12
<1>13. CASE k = 8
  BY <1>3, <1>13
<1> QED BY <1>4, <1>5, <1>6, <1>7, <1>8, <1>9, <1>10, <1>11, <1>12, <1>13

(* A byte has at least one bit.                                            *)
LEMMA ByteWidth == Width \in 1..8 /\ 2 ^ Width \in Nat \ {0} /\ 2 ^ Width >= 2
<1>1. Width \in 1..8
  BY CartAssumption
<1>2. PICK k \in 0..7 : k + 1 = Width
  BY <1>1
<1>3. k \in 0..8 /\ k < 8
  OBVIOUS
<1>4. 2 ^ k \in Nat \ {0} /\ 2 ^ (k + 1) = 2 * 2 ^ k
  BY <1>3, PowerOf, Zenon
<1> QED BY <1>1, <1>2, <1>4

(* Of the bits of a byte, the first ones, as a number.                     *)
LEMMA FirstBits ==
  ASSUME NEW v \in Nat
  PROVE  /\ v < 2 ^ Width => v \div 2 ^ (Width - 0) = 0
         /\ v \div 2 ^ (Width - Width) = v
         /\ \A j \in 0..(Width - 1) :
              /\ Bit(v, j + 1) \in {0, 1}
              /\ v \div 2 ^ (Width - (j + 1))
                 = 2 * (v \div 2 ^ (Width - j)) + Bit(v, j + 1)
<1>1. 2 ^ 0 = 1 /\ Width - Width = 0 /\ Width - 0 = Width
  BY ByteWidth, PowerOf
<1>2. v < 2 ^ Width => v \div 2 ^ Width = 0
  BY ByteWidth
<1>3. ASSUME NEW j \in 0..(Width - 1)
      PROVE  /\ Bit(v, j + 1) \in {0, 1}
             /\ v \div 2 ^ (Width - (j + 1))
                = 2 * (v \div 2 ^ (Width - j)) + Bit(v, j + 1)
  <2> DEFINE x == 2 ^ (Width - (j + 1))
             y == v \div x
  <2>1. PICK k \in 0..7 : k = Width - (j + 1) /\ k + 1 = Width - j
    BY ByteWidth
  <2>2. x \in Nat \ {0} /\ 2 ^ (Width - j) = 2 * x
    <3>1. k \in 0..8 /\ k < 8
      OBVIOUS
    <3>2. 2 ^ k \in Nat \ {0} /\ 2 ^ (k + 1) = 2 * 2 ^ k
      BY <3>1, PowerOf, Zenon
    <3> QED BY <2>1, <3>2
  <2>3. \A z \in Nat \ {0} : v \div (2 * z) = (v \div z) \div 2 /\ v \div z \in Nat
    BY Z3
  <2> HIDE DEF x
  <2>4. v \div 2 ^ (Width - j) = y \div 2 /\ y \in Nat
    BY <2>2, <2>3, ZenonT(30)
  <2>5. Bit(v, j + 1) = y % 2
    BY DEF Bit, x
  <2> HIDE DEF y
  <2>6. y % 2 \in {0, 1} /\ y = 2 * (y \div 2) + (y % 2)
    BY <2>4
  <2> QED BY <2>4, <2>5, <2>6 DEF x, y
<1>4. v \div 1 = v
  OBVIOUS
<1>5. v \div 2 ^ (Width - Width) = v
  BY <1>1, <1>4, Zenon
<1>6. v < 2 ^ Width => v \div 2 ^ (Width - 0) = 0
  BY <1>1, <1>2, Zenon
<1> QED BY <1>3, <1>5, <1>6, Zenon

(* A bit is 0 or 1.                                                        *)
LEMMA BitsAre ==
  ASSUME NEW v \in Nat, NEW k \in 1..Width
  PROVE  Bit(v, k) \in {0, 1}
<1>1. k - 1 \in 0..(Width - 1) /\ (k - 1) + 1 = k
  BY ByteWidth
<1> QED BY <1>1, FirstBits

-----------------------------------------------------------------------------
(* A routine in front of others.                                           *)
LEMMA ThenStep ==
  ASSUME NEW r \in Seq(Op), NEW t \in Seq(Op), NEW k \in 0..Len(r)
  PROVE  /\ k = Len(r) => Rest(r, k) \o t = t
         /\ Rest(r, 0) \o t = r \o t
         /\ k < Len(r) => /\ Rest(r, k) \o t # <<>>
                          /\ Head(Rest(r, k) \o t) = r[k + 1]
                          /\ Tail(Rest(r, k) \o t) = Rest(r, k + 1) \o t
<1> DEFINE q == Rest(r, k)
<1>1. /\ q = <<>> <=> k = Len(r)
      /\ k < Len(r) => Head(q) = r[k + 1] /\ Tail(q) = Rest(r, k + 1)
      /\ Rest(r, 0) = r
  BY RestStep
<1>2. Len(r) \in Nat
  BY LenProperties
<1>3. q \in Seq(Op)
  <2>1. \A x \in (k + 1)..Len(r) : r[x] \in Op
    BY <1>2, ElementOfSeq
  <2> QED BY <1>2, <2>1, SubSeqProperties DEF Rest
<1>4. CASE k = Len(r)
  <2>1. <<>> \o t = t
    BY ConcatEmptySeq
  <2> QED BY <1>1, <1>4, <2>1
<1>5. CASE k < Len(r)
  <2>1. q # <<>>
    BY <1>1, <1>2, <1>5
  <2> HIDE DEF q
  <2>2. q \o t # <<>> /\ Head(q \o t) = Head(q) /\ Tail(q \o t) = Tail(q) \o t
    BY <1>3, <2>1
  <2> QED BY <1>1, <1>2, <1>5, <2>1, <2>2 DEF q
<1> QED BY <1>1, <1>2, <1>4, <1>5

-----------------------------------------------------------------------------
(* The routines of the cartridge's programmers, store by store.            *)
LEMMA WireOps ==
  /\ \A P \in SUBSET {VccPin, SclPin, SdaPin} : High(P) \in Op /\ Low(P) \in Op
  /\ Input \in Op /\ Output \in Op /\ Sample({SdaPin}) \in Op
  /\ Function({VccPin}, FuncOutput) \in Op /\ Function({SclPin}, FuncOutput) \in Op
  /\ \A v : Value(SdaPin, v) \in Op
<1>1. \A P \in SUBSET {VccPin, SclPin, SdaPin} : P \in SUBSET GpioPins
  BY Wires
<1>2. {SdaPin} \in SUBSET GpioPins /\ {VccPin} \in SUBSET GpioPins /\ {SclPin} \in SUBSET GpioPins
  BY Wires
<1>3. \A P \in SUBSET {VccPin, SclPin, SdaPin} : High(P) \in Op /\ Low(P) \in Op
  BY <1>1, Ops
<1>4. /\ Input \in Op /\ Output \in Op /\ Sample({SdaPin}) \in Op
      /\ Function({VccPin}, FuncOutput) \in Op /\ Function({SclPin}, FuncOutput) \in Op
  BY <1>2, Ops DEF Input, Output
<1>5. High({SdaPin}) \in Op /\ Low({SdaPin}) \in Op
  BY <1>2, Ops
<1> QED BY <1>3, <1>4, <1>5 DEF Value

(* The stores of each routine, one by one.                                 *)
LEMMA StartOps ==
  /\ start \in Seq(Op) /\ Len(start) = 2
  /\ start[1] = Low({SdaPin}) /\ start[2] = Low({SclPin})
<1>1. Low({SdaPin}) \in Op /\ Low({SclPin}) \in Op
  BY WireOps
<1> QED BY <1>1, PairOps DEF start

LEMMA RestartOps ==
  /\ restart \in Seq(Op) /\ Len(restart) = 4
  /\ restart[1] = High({SdaPin}) /\ restart[2] = High({SclPin})
  /\ restart[3] = Low({SdaPin}) /\ restart[4] = Low({SclPin})
<1>1. /\ Low({SdaPin}) \in Op /\ Low({SclPin}) \in Op
      /\ High({SdaPin}) \in Op /\ High({SclPin}) \in Op
  BY WireOps
<1> QED BY <1>1 DEF restart

LEMMA StopOps ==
  /\ stop \in Seq(Op) /\ Len(stop) = 3
  /\ stop[1] = Low({SclPin, SdaPin}) /\ stop[2] = High({SclPin}) /\ stop[3] = High({SdaPin})
<1>1. /\ Low({SclPin, SdaPin}) \in Op
      /\ High({SdaPin}) \in Op /\ High({SclPin}) \in Op
  BY WireOps
<1> QED BY <1>1 DEF stop

LEMMA ClockOps ==
  /\ Clock \in Seq(Op) /\ Len(Clock) = 2
  /\ Clock[1] = High({SclPin}) /\ Clock[2] = Low({SclPin})
<1>1. High({SclPin}) \in Op /\ Low({SclPin}) \in Op
  BY WireOps
<1> QED BY <1>1, PairOps DEF Clock

LEMMA LookClockOps ==
  /\ LookClock \in Seq(Op) /\ Len(LookClock) = 3
  /\ LookClock[1] = High({SclPin}) /\ LookClock[2] = Sample({SdaPin})
  /\ LookClock[3] = Low({SclPin})
<1>1. High({SclPin}) \in Op /\ Low({SclPin}) \in Op /\ Sample({SdaPin}) \in Op
  BY WireOps
<1> QED BY <1>1 DEF LookClock

LEMMA AckOps ==
  /\ send_ack \in Seq(Op) /\ Len(send_ack) = 3 /\ send_ack[1] = Low({SdaPin})
  /\ send_ack[2] = High({SclPin}) /\ send_ack[3] = Low({SclPin})
<1>1. <<Low({SdaPin})>> \in Seq(Op) /\ Len(<<Low({SdaPin})>>) = 1
      /\ <<Low({SdaPin})>>[1] = Low({SdaPin})
  BY WireOps, PairOps
<1> DEFINE a == <<Low({SdaPin})>>
<1> HIDE DEF a
<1>2. Joins(a \o Clock, a, Clock, 1, 2)
  BY <1>1, ClockOps, Joined DEF a
<1> QED BY <1>1, <1>2, ClockOps DEF Joins, send_ack, a

LEMMA NakOps ==
  /\ send_nak \in Seq(Op) /\ Len(send_nak) = 3 /\ send_nak[1] = High({SdaPin})
  /\ send_nak[2] = High({SclPin}) /\ send_nak[3] = Low({SclPin})
<1>1. <<High({SdaPin})>> \in Seq(Op) /\ Len(<<High({SdaPin})>>) = 1
      /\ <<High({SdaPin})>>[1] = High({SdaPin})
  BY WireOps, PairOps
<1> DEFINE a == <<High({SdaPin})>>
<1> HIDE DEF a
<1>2. Joins(a \o Clock, a, Clock, 1, 2)
  BY <1>1, ClockOps, Joined DEF a
<1> QED BY <1>1, <1>2, ClockOps DEF Joins, send_nak, a

LEMMA PowerOps ==
  /\ PowerOn \in Seq(Op) /\ Len(PowerOn) = 7
  /\ PowerOn[1] = Function({VccPin}, FuncOutput) /\ PowerOn[2] = Low({VccPin})
  /\ PowerOn[3] = Function({SclPin}, FuncOutput) /\ PowerOn[4] = High({SclPin})
  /\ PowerOn[5] = Output /\ PowerOn[6] = High({SdaPin})
  /\ PowerOn[7] = High({SclPin, SdaPin, VccPin})
<1> DEFINE a == configure_cart
           b == enable_cart
<1>1. /\ a \in Seq(Op) /\ Len(a) = 6
      /\ a[1] = Function({VccPin}, FuncOutput) /\ a[2] = Low({VccPin})
      /\ a[3] = Function({SclPin}, FuncOutput) /\ a[4] = High({SclPin})
      /\ a[5] = Output /\ a[6] = High({SdaPin})
  <2>1. /\ Function({VccPin}, FuncOutput) \in Op /\ Low({VccPin}) \in Op
        /\ Function({SclPin}, FuncOutput) \in Op /\ High({SclPin}) \in Op
        /\ Function({SdaPin}, FuncOutput) \in Op /\ High({SdaPin}) \in Op
    BY WireOps DEF Output
  <2> QED BY <2>1 DEF configure_cart, Output
<1>2. /\ b \in Seq(Op) /\ Len(b) = 1 /\ b[1] = High({SclPin, SdaPin, VccPin})
  <2>1. High({SclPin, SdaPin, VccPin}) \in Op
    BY WireOps
  <2> QED BY <2>1, PairOps DEF enable_cart
<1> HIDE DEF a, b
<1>3. Joins(a \o b, a, b, 6, 1)
  BY <1>1, <1>2, Joined
<1> QED BY <1>1, <1>2, <1>3 DEF Joins, PowerOn, a, b

(* The stores that end a program.                                          *)
LEMMA LeaveOps ==
  /\ Leave \in Seq(Op) /\ Len(Leave) = 8
  /\ Leave[1] = Low({SclPin, SdaPin}) /\ Leave[2] = High({SclPin})
  /\ Leave[3] = High({SdaPin}) /\ Leave[4] = Low({VccPin})
  /\ Leave[5] = High({SclPin, SdaPin})
  /\ \A x \in 6..8 : Leave[x] = Restore(Register(x - 5))
<1> DEFINE a == stop
           b == disable_cart
           c == CopySaved
<1>1. /\ a \in Seq(Op) /\ Len(a) = 3 /\ a[1] = Low({SclPin, SdaPin})
      /\ a[2] = High({SclPin}) /\ a[3] = High({SdaPin})
  BY StopOps
<1>2. /\ b \in Seq(Op) /\ Len(b) = 2 /\ b[1] = Low({VccPin})
      /\ b[2] = High({SclPin, SdaPin})
  <2>1. Low({VccPin}) \in Op /\ High({SclPin, SdaPin}) \in Op
    BY WireOps
  <2> QED BY <2>1, PairOps DEF disable_cart
<1>3. c \in Seq(Op) /\ Len(c) = 3 /\ \A x \in 1..3 : c[x] = Restore(Register(x))
  <2>1. \A x \in 1..3 : Restore(Register(x)) \in Op
    BY Registers, Ops
  <2>2. CopySaved \in [1..3 -> Op]
    BY <2>1 DEF CopySaved
  <2>3. Seq(Op) = UNION {[1..l -> Op] : l \in Nat} /\ 3 \in Nat
    BY SeqDef
  <2>4. CopySaved \in Seq(Op)
    BY <2>2, <2>3
  <2> QED BY <2>2, <2>4, LenProperties DEF CopySaved
<1>4. Leave = (a \o b) \o c
  BY DEF Leave
<1> HIDE DEF a, b, c
<1> DEFINE d == a \o b
<1>5. Joins(d, a, b, 3, 2)
  BY <1>1, <1>2, Joined
<1>6. d \in Seq(Op) /\ Len(d) = 5
  BY <1>5 DEF Joins
<1> HIDE DEF d
<1>7. Joins(d \o c, d, c, 5, 3)
  BY <1>3, <1>6, Joined
<1>8. Leave = d \o c
  BY <1>4 DEF d
<1>9. Leave \in Seq(Op) /\ Len(Leave) = 8
  BY <1>7, <1>8 DEF Joins
<1>10. /\ Leave[1] = d[1] /\ Leave[2] = d[2] /\ Leave[3] = d[3]
       /\ Leave[4] = d[4] /\ Leave[5] = d[5]
  BY <1>7, <1>8 DEF Joins
<1>11. \A x \in 6..8 : Leave[x] = c[x - 5]
  BY <1>7, <1>8 DEF Joins
<1>12. d[1] = a[1] /\ d[2] = a[2] /\ d[3] = a[3] /\ d[4] = b[1] /\ d[5] = b[2]
  BY <1>5 DEF Joins
<1>13. \A x \in 6..8 : Leave[x] = Restore(Register(x - 5))
  BY <1>3, <1>11
<1> QED BY <1>1, <1>2, <1>9, <1>10, <1>12, <1>13

(* The stores of send_byte: three to a bit, then the acknowledge's.        *)
LEMMA SendOps ==
  ASSUME NEW v
  PROVE  LET r == send_byte(v) IN
         /\ r \in Seq(Op) /\ Len(r) = 3 * Width + 6
         /\ \A j \in 0..(Width - 1) :
              /\ r[3 * j + 1] = Value(SdaPin, Bit(v, j + 1))
              /\ r[3 * j + 2] = High({SclPin}) /\ r[3 * j + 3] = Low({SclPin})
         /\ r[3 * Width + 1] = High({SdaPin}) /\ r[3 * Width + 2] = Input
         /\ r[3 * Width + 3] = High({SclPin}) /\ r[3 * Width + 4] = Sample({SdaPin})
         /\ r[3 * Width + 5] = Low({SclPin}) /\ r[3 * Width + 6] = Output
<1> DEFINE W == 3 * Width
           a == [x \in 1..W |->
                    IF x % 3 = 1 THEN Value(SdaPin, Bit(v, 1 + (x \div 3)))
                                 ELSE Clock[1 + ((x + 1) % 3)]]
           b == <<High({SdaPin}), Input>>
           c == LookClock
           d == <<Output>>
<1>1. W \in Nat
  BY ByteWidth
<1>2. a \in Seq(Op) /\ Len(a) = W
  <2>1. ASSUME NEW x \in 1..W PROVE a[x] \in Op
    <3>1. CASE x % 3 = 1
      BY <3>1, WireOps
    <3>2. CASE x % 3 # 1
      <4>1. 1 + ((x + 1) % 3) \in {1, 2}
        BY <3>2
      <4>2. Clock[1] \in Op /\ Clock[2] \in Op
        BY ClockOps, WireOps
      <4>3. Clock[1 + ((x + 1) % 3)] \in Op
        BY <4>1, <4>2
      <4> QED BY <3>2, <4>3
    <3> QED BY <3>1, <3>2
  <2>2. a \in [1..W -> Op]
    BY <2>1
  <2>3. Seq(Op) = UNION {[1..l -> Op] : l \in Nat}
    BY SeqDef
  <2>4. a \in Seq(Op)
    BY <1>1, <2>2, <2>3
  <2> QED BY <1>1, <2>2, <2>4, LenProperties
<1>3. ASSUME NEW j \in 0..(Width - 1)
      PROVE  /\ 3 * j + 1 <= W /\ 3 * j + 2 <= W /\ 3 * j + 3 <= W
             /\ a[3 * j + 1] = Value(SdaPin, Bit(v, j + 1))
             /\ a[3 * j + 2] = High({SclPin}) /\ a[3 * j + 3] = Low({SclPin})
  <2>1. 3 * j + 1 \in 1..W /\ 3 * j + 2 \in 1..W /\ 3 * j + 3 \in 1..W
    BY ByteWidth
  <2>2. (3 * j + 1) % 3 = 1 /\ 1 + ((3 * j + 1) \div 3) = j + 1
    OBVIOUS
  <2>3. (3 * j + 2) % 3 = 2 /\ 1 + (((3 * j + 2) + 1) % 3) = 1
    OBVIOUS
  <2>4. (3 * j + 3) % 3 = 0 /\ 1 + (((3 * j + 3) + 1) % 3) = 2
    OBVIOUS
  <2>5. a[3 * j + 1] = Value(SdaPin, Bit(v, 1 + ((3 * j + 1) \div 3)))
    BY <2>1, <2>2
  <2>6. a[3 * j + 2] = Clock[1 + (((3 * j + 2) + 1) % 3)]
    BY <2>1, <2>3
  <2>7. a[3 * j + 3] = Clock[1 + (((3 * j + 3) + 1) % 3)]
    BY <2>1, <2>4
  <2>8. a[3 * j + 1] = Value(SdaPin, Bit(v, j + 1))
    BY <2>2, <2>5, Zenon
  <2>9. a[3 * j + 2] = Clock[1]
    BY <2>3, <2>6, Zenon
  <2>10. a[3 * j + 3] = Clock[2]
    BY <2>4, <2>7, Zenon
  <2> HIDE DEF a
  <2> QED BY <2>1, <2>8, <2>9, <2>10, ClockOps
<1>4. b \in Seq(Op) /\ Len(b) = 2 /\ b[1] = High({SdaPin}) /\ b[2] = Input
  <2>1. High({SdaPin}) \in Op /\ Input \in Op
    BY WireOps
  <2> QED BY <2>1, PairOps
<1>5. /\ c \in Seq(Op) /\ Len(c) = 3 /\ c[1] = High({SclPin})
      /\ c[2] = Sample({SdaPin}) /\ c[3] = Low({SclPin})
  BY LookClockOps
<1>6. d \in Seq(Op) /\ Len(d) = 1 /\ d[1] = Output
  BY WireOps, PairOps
<1>7. send_byte(v) = ((a \o b) \o c) \o d
  BY DEF send_byte
<1> HIDE DEF a, b, c, d, W
<1> DEFINE e == a \o b
           f == e \o c
           g == f \o d
<1>8. Joins(e, a, b, W, 2)
  BY <1>2, <1>4, Joined
<1>9. Joins(f, e, c, W + 2, 3)
  <2>1. e \in Seq(Op) /\ Len(e) = W + 2
    BY <1>8 DEF Joins
  <2> QED BY <2>1, <1>5, Joined
<1>10. Joins(g, f, d, W + 5, 1)
  <2>1. f \in Seq(Op) /\ Len(f) = W + 5
    BY <1>1, <1>9 DEF Joins
  <2> QED BY <2>1, <1>6, Joined
<1> HIDE DEF e, f, g
<1>11. g \in Seq(Op) /\ Len(g) = W + 6
  BY <1>1, <1>10 DEF Joins
<1>12. \A x \in 1..W : g[x] = a[x]
  BY <1>1, <1>8, <1>9, <1>10 DEF Joins
<1>13. g[W + 1] = b[1] /\ g[W + 2] = b[2]
  BY <1>1, <1>8, <1>9, <1>10 DEF Joins
<1>14. g[W + 3] = c[1] /\ g[W + 4] = c[2] /\ g[W + 5] = c[3]
  BY <1>1, <1>9, <1>10 DEF Joins
<1>15. g[W + 6] = d[1]
  BY <1>1, <1>10 DEF Joins
<1>16. ASSUME NEW j \in 0..(Width - 1)
       PROVE  /\ g[3 * j + 1] = Value(SdaPin, Bit(v, j + 1))
              /\ g[3 * j + 2] = High({SclPin}) /\ g[3 * j + 3] = Low({SclPin})
  BY <1>1, <1>3, <1>12
<1>17. send_byte(v) = g
  BY <1>7 DEF e, f, g
<1> HIDE DEF g
<1> QED BY <1>4, <1>5, <1>6, <1>11, <1>13, <1>14, <1>15, <1>16, <1>17 DEF W

(* The stores of recv_byte: three to a bit, between two turns of the       *)
(* line.                                                                   *)
LEMMA ReceiveOps ==
  LET r == recv_byte IN
  /\ r \in Seq(Op) /\ Len(r) = 3 * Width + 3
  /\ r[1] = High({SdaPin}) /\ r[2] = Input
  /\ \A j \in 0..(Width - 1) :
       /\ r[3 * j + 3] = High({SclPin}) /\ r[3 * j + 4] = Sample({SdaPin})
       /\ r[3 * j + 5] = Low({SclPin})
  /\ r[3 * Width + 3] = Output
<1> DEFINE W == 3 * Width
           a == <<High({SdaPin}), Input>>
           b == Times(Width, LookClock)
           c == <<Output>>
<1>1. W \in Nat
  BY ByteWidth
<1>2. a \in Seq(Op) /\ Len(a) = 2 /\ a[1] = High({SdaPin}) /\ a[2] = Input
  <2>1. High({SdaPin}) \in Op /\ Input \in Op
    BY WireOps
  <2> QED BY <2>1, PairOps
<1>3. Len(LookClock) = 3 /\ Width * 3 = W
  BY LookClockOps, ByteWidth
<1>4. b = [x \in 1..W |-> LookClock[1 + ((x - 1) % 3)]]
  BY <1>3, Zenon DEF Times
<1>5. b \in Seq(Op) /\ Len(b) = W
  <2>1. ASSUME NEW x \in 1..W PROVE LookClock[1 + ((x - 1) % 3)] \in Op
    <3>1. 1 + ((x - 1) % 3) \in {1, 2, 3}
      OBVIOUS
    <3>2. LookClock[1] \in Op /\ LookClock[2] \in Op /\ LookClock[3] \in Op
      BY LookClockOps, WireOps
    <3> QED BY <3>1, <3>2
  <2>2. b \in [1..W -> Op]
    BY <1>4, <2>1
  <2>3. Seq(Op) = UNION {[1..l -> Op] : l \in Nat}
    BY SeqDef
  <2>4. b \in Seq(Op)
    BY <1>1, <2>2, <2>3
  <2> QED BY <1>1, <2>2, <2>4, LenProperties
<1>6. ASSUME NEW j \in 0..(Width - 1)
      PROVE  /\ 3 * j + 1 \in 1..W /\ 3 * j + 2 \in 1..W /\ 3 * j + 3 \in 1..W
             /\ b[3 * j + 1] = High({SclPin}) /\ b[3 * j + 2] = Sample({SdaPin})
             /\ b[3 * j + 3] = Low({SclPin})
  <2>1. 3 * j + 1 \in 1..W /\ 3 * j + 2 \in 1..W /\ 3 * j + 3 \in 1..W
    BY ByteWidth
  <2>2. /\ 1 + (((3 * j + 1) - 1) % 3) = 1 /\ 1 + (((3 * j + 2) - 1) % 3) = 2
        /\ 1 + (((3 * j + 3) - 1) % 3) = 3
    OBVIOUS
  <2>3. /\ b[3 * j + 1] = LookClock[1 + (((3 * j + 1) - 1) % 3)]
        /\ b[3 * j + 2] = LookClock[1 + (((3 * j + 2) - 1) % 3)]
        /\ b[3 * j + 3] = LookClock[1 + (((3 * j + 3) - 1) % 3)]
    BY <1>4, <2>1, Zenon
  <2>4. b[3 * j + 1] = LookClock[1] /\ b[3 * j + 2] = LookClock[2] /\ b[3 * j + 3] = LookClock[3]
    BY <2>2, <2>3, Zenon
  <2> HIDE DEF b
  <2> QED BY <2>1, <2>4, LookClockOps
<1>7. c \in Seq(Op) /\ Len(c) = 1 /\ c[1] = Output
  BY WireOps, PairOps
<1>8. recv_byte = (a \o b) \o c
  BY DEF recv_byte
<1> HIDE DEF a, b, c, W
<1> DEFINE d == a \o b
           e == d \o c
<1>9. Joins(d, a, b, 2, W)
  BY <1>2, <1>5, Joined
<1>10. Joins(e, d, c, W + 2, 1)
  <2>1. d \in Seq(Op) /\ Len(d) = W + 2
    BY <1>1, <1>9 DEF Joins
  <2> QED BY <2>1, <1>7, Joined
<1> HIDE DEF d, e
<1>11. e \in Seq(Op) /\ Len(e) = W + 3
  BY <1>1, <1>10 DEF Joins
<1>12. e[1] = a[1] /\ e[2] = a[2]
  BY <1>1, <1>9, <1>10 DEF Joins
<1>13. \A x \in 1..W : e[x + 2] = b[x]
  BY <1>1, <1>9, <1>10 DEF Joins
<1>14. e[W + 3] = c[1]
  BY <1>1, <1>10 DEF Joins
<1>15. ASSUME NEW j \in 0..(Width - 1)
       PROVE  /\ e[3 * j + 3] = High({SclPin}) /\ e[3 * j + 4] = Sample({SdaPin})
              /\ e[3 * j + 5] = Low({SclPin})
  <2>1. /\ (3 * j + 1) + 2 = 3 * j + 3 /\ (3 * j + 2) + 2 = 3 * j + 4
        /\ (3 * j + 3) + 2 = 3 * j + 5
    OBVIOUS
  <2>2. /\ e[(3 * j + 1) + 2] = High({SclPin}) /\ e[(3 * j + 2) + 2] = Sample({SdaPin})
        /\ e[(3 * j + 3) + 2] = Low({SclPin})
    BY <1>6, <1>13
  <2> QED BY <2>1, <2>2, Zenon
<1>16. recv_byte = e
  BY <1>8 DEF d, e
<1> HIDE DEF e
<1> QED BY <1>2, <1>7, <1>11, <1>12, <1>14, <1>15, <1>16 DEF W

-----------------------------------------------------------------------------
(* What a store does to the wires, and the device to it.                   *)
LEMMA LineSets ==
  ASSUME PinTypeOK, Wired
  PROVE  /\ Set(High({SclPin})) => /\ Wired' /\ SclHigh'
                                   /\ (SdaHigh' <=> SdaHigh) /\ (SdaOut' <=> SdaOut)
         /\ Set(Low({SclPin})) => /\ Wired' /\ ~SclHigh'
                                  /\ (SdaHigh' <=> SdaHigh) /\ (SdaOut' <=> SdaOut)
         /\ Set(High({SdaPin})) => /\ Wired' /\ SdaHigh'
                                   /\ (SclHigh' <=> SclHigh) /\ (SdaOut' <=> SdaOut)
         /\ Set(Low({SdaPin})) => /\ Wired' /\ ~SdaHigh'
                                  /\ (SclHigh' <=> SclHigh) /\ (SdaOut' <=> SdaOut)
         /\ Set(Low({SclPin, SdaPin})) => /\ Wired' /\ ~SdaHigh' /\ ~SclHigh'
                                          /\ (SdaOut' <=> SdaOut)
         /\ Set(Input) => /\ Wired' /\ ~SdaOut'
                          /\ (SclHigh' <=> SclHigh) /\ (SdaHigh' <=> SdaHigh)
         /\ Set(Output) => /\ Wired' /\ SdaOut'
                           /\ (SclHigh' <=> SclHigh) /\ (SdaHigh' <=> SdaHigh)
         /\ Set(Sample({SdaPin})) => /\ Wired' /\ (SdaOut' <=> SdaOut)
                                     /\ (SclHigh' <=> SclHigh) /\ (SdaHigh' <=> SdaHigh)
<1>1. ASSUME NEW P, Set(High(P)), VccPin \notin P
      PROVE  /\ Wired' /\ (SdaOut' <=> SdaOut)
             /\ (SclHigh' <=> (SclHigh \/ SclPin \in P)) /\ (SdaHigh' <=> (SdaHigh \/ SdaPin \in P))
  <2>1. functions' = functions /\ latch' = latch \cup P
    BY <1>1, DoesHigh
  <2> QED BY <2>1 DEF Wired, SdaOut, SclHigh, SdaHigh
<1>2. ASSUME NEW P, Set(Low(P)), VccPin \notin P
      PROVE  /\ Wired' /\ (SdaOut' <=> SdaOut)
             /\ (SclHigh' <=> (SclHigh /\ SclPin \notin P)) /\ (SdaHigh' <=> (SdaHigh /\ SdaPin \notin P))
  <2>1. functions' = functions /\ latch' = latch \ P
    BY <1>2, DoesLow
  <2> QED BY <1>2, <2>1 DEF Wired, SdaOut, SclHigh, SdaHigh
<1>3. ASSUME NEW f, Set(Function({SdaPin}, f))
      PROVE  /\ Wired' /\ (SdaOut' <=> (f = FuncOutput))
             /\ (SclHigh' <=> SclHigh) /\ (SdaHigh' <=> SdaHigh)
  <2>1. /\ functions' = [p \in GpioPins |-> IF p \in {SdaPin} THEN f ELSE functions[p]]
        /\ latch' = latch
    BY <1>3, DoesFunction
  <2>2. functions'[SdaPin] = f
    BY <2>1, Wires
  <2>3. functions'[VccPin] = functions[VccPin] /\ functions'[SclPin] = functions[SclPin]
    BY <2>1, Wires
  <2> QED BY <2>1, <2>2, <2>3 DEF Wired, SdaOut, SclHigh, SdaHigh
<1>4. ASSUME Set(Sample({SdaPin}))
      PROVE  /\ Wired' /\ (SdaOut' <=> SdaOut)
             /\ (SclHigh' <=> SclHigh) /\ (SdaHigh' <=> SdaHigh)
  <2>1. functions' = functions /\ latch' = latch
    BY <1>4, DoesSample
  <2> QED BY <2>1 DEF Wired, SdaOut, SclHigh, SdaHigh
<1>5. /\ VccPin \notin {SclPin} /\ VccPin \notin {SdaPin} /\ VccPin \notin {SclPin, SdaPin}
      /\ SclPin \notin {SdaPin} /\ SdaPin \notin {SclPin}
  BY Wires
<1>6. SclHigh \in BOOLEAN /\ SdaHigh \in BOOLEAN /\ SdaOut \in BOOLEAN
  BY DEF SclHigh, SdaHigh, SdaOut
<1>7. Set(High({SclPin})) => /\ Wired' /\ SclHigh'
                             /\ (SdaHigh' <=> SdaHigh) /\ (SdaOut' <=> SdaOut)
  BY <1>1, <1>5, <1>6
<1>8. Set(Low({SclPin})) => /\ Wired' /\ ~SclHigh'
                            /\ (SdaHigh' <=> SdaHigh) /\ (SdaOut' <=> SdaOut)
  BY <1>2, <1>5, <1>6
<1>9. Set(High({SdaPin})) => /\ Wired' /\ SdaHigh'
                             /\ (SclHigh' <=> SclHigh) /\ (SdaOut' <=> SdaOut)
  BY <1>1, <1>5, <1>6
<1>10. Set(Low({SdaPin})) => /\ Wired' /\ ~SdaHigh'
                             /\ (SclHigh' <=> SclHigh) /\ (SdaOut' <=> SdaOut)
  BY <1>2, <1>5, <1>6
<1>11. Set(Low({SclPin, SdaPin})) => /\ Wired' /\ ~SdaHigh' /\ ~SclHigh'
                                     /\ (SdaOut' <=> SdaOut)
  BY <1>2, <1>5, <1>6
<1>12. Set(Input) => /\ Wired' /\ ~SdaOut'
                     /\ (SclHigh' <=> SclHigh) /\ (SdaHigh' <=> SdaHigh)
  BY <1>3, Wires DEF Input
<1>13. Set(Output) => /\ Wired' /\ SdaOut'
                      /\ (SclHigh' <=> SclHigh) /\ (SdaHigh' <=> SdaHigh)
  BY <1>3 DEF Output
<1> QED BY <1>4, <1>7, <1>8, <1>9, <1>10, <1>11, <1>12, <1>13

(* What a store of a routine does: to the stores left, to the levels       *)
(* read, and to no variable of the program.                                *)
LEMMA CartDoes ==
  ASSUME CartTypeOK, CartPin, NEW r \in Seq(Op), NEW t \in Seq(Op),
         NEW k \in 0..(Len(r) - 1), todo = Rest(r, k) \o t
  PROVE  /\ todo' = Rest(r, k + 1) \o t
         /\ r[k + 1] \in Op /\ Set(r[k + 1])
         /\ got' = IF r[k + 1].do = "sample"
                   THEN Append(got, (IF Wire THEN {SdaPin} ELSE {}) \cap r[k + 1].pins)
                   ELSE got
         /\ UNCHANGED <<saved, tool, pc>>
         /\ present' = present /\ CartReacts /\ UNCHANGED mainVars
<1>1. Len(r) \in Nat
  BY LenProperties
<1>2. k \in 0..Len(r) /\ k < Len(r)
  BY <1>1
<1>3. Head(todo) = r[k + 1] /\ Tail(todo) = Rest(r, k + 1) \o t
  BY <1>2, ThenStep
<1>4. r[k + 1] \in Op
  BY <1>1, <1>2, ElementOfSeq
<1> QED BY <1>3, <1>4 DEF CartPin, Do

(* What no store of a routine but a sample adds to.                        *)
LEMMA NoSample ==
  /\ \A P : High(P).do # "sample" /\ Low(P).do # "sample" /\ Restore(P).do # "sample"
  /\ \A P, f : Function(P, f).do # "sample"
  /\ Input.do # "sample" /\ Output.do # "sample"
  /\ \A v : Value(SdaPin, v).do # "sample"
  /\ \A P : Sample(P).do = "sample" /\ Sample(P).pins = P
BY DEF High, Low, Restore, Function, Input, Output, Value, Sample

(* The contents, plugged in or not.                                        *)
CartSame == rom' = rom /\ page' = page /\ busy' = busy

(* The lines as the cartridge sees them.                                   *)
LEMMA LinesAre ==
  ASSUME Wired
  PROVE  /\ (Powered <=> present) /\ (Scl <=> SclHigh)
         /\ (Driven(SdaPin) <=> (SdaOut => SdaHigh))
         /\ (Wire <=> ((SdaOut => SdaHigh) /\ ~pull))
BY Wires DEF Wired, Powered, Scl, SclHigh, Driven, Drives, SdaOut, SdaHigh, Wire

(* The lines it sees after the store.                                      *)
LEMMA LinesWillBe ==
  ASSUME Wired'
  PROVE  /\ (Powered' <=> present') /\ (Scl' <=> SclHigh')
         /\ (Driven(SdaPin)' <=> (SdaOut' => SdaHigh'))
BY Wires DEF Wired, Powered, Scl, SclHigh, Driven, Drives, SdaOut, SdaHigh

(* A store that takes the power away leaves a cartridge at rest.           *)
LEMMA PowerGone ==
  ASSUME CartTypeOK, PowerLost
  PROVE  /\ ~busy => rom' = rom
         /\ page' = None /\ ~busy' /\ ~pull' /\ mode' = "idle"
         /\ Clean => CartSame
<1>1. ~busy => rom' = [c \in DOMAIN rom |-> rom[c]]
  BY DEF PowerLost
<1>2. rom = [c \in DOMAIN rom |-> rom[c]]
  BY DEF CartTypeOK
<1> QED BY <1>1, <1>2 DEF PowerLost, Clean, CartSame, CartTypeOK

Settled == rom' = rom /\ page' = page /\ busy' = busy /\ mode' = mode /\ bits' = bits
           /\ shift' = shift /\ ptr' = ptr /\ pull' = pull

(* What the cartridge does at a store that leaves the power on.            *)
LEMMA Reaction ==
  ASSUME CartTypeOK, Gone, CartReacts, present' = present, Wired, Wired'
  PROVE  /\ ~present => CartSame /\ ~pull'
         /\ present =>
              LET w == (SdaOut => SdaHigh) /\ ~pull
                  l == (SdaOut' => SdaHigh') /\ ~pull IN
              /\ ~SclHigh /\ SclHigh' => Rises(l)
              /\ SclHigh /\ ~SclHigh' => Falls \/ (w /\ ~l /\ StartSeen)
              /\ SclHigh /\ SclHigh' /\ w /\ ~l => StartSeen
              /\ SclHigh /\ SclHigh' /\ ~w /\ l => StopSeen
              /\ ~SclHigh /\ ~SclHigh' => Settled
              /\ SclHigh /\ SclHigh' /\ (w <=> l) => Settled
<1>1. /\ (Powered' <=> present) /\ (Scl <=> SclHigh) /\ (Scl' <=> SclHigh')
      /\ (Wire <=> ((SdaOut => SdaHigh) /\ ~pull))
      /\ (Driven(SdaPin)' <=> (SdaOut' => SdaHigh'))
  BY LinesAre, LinesWillBe
<1>2. ASSUME ~present
      PROVE  CartSame /\ ~pull'
  <2>1. PowerLost
    BY <1>1, <1>2 DEF CartReacts
  <2> QED BY <1>2, <2>1, PowerGone DEF Gone
<1>3. ASSUME present
      PROVE  LET l == Driven(SdaPin)' /\ ~pull IN
             /\ ~Scl /\ Scl' => Rises(l)
             /\ Scl /\ ~Scl' => Falls \/ (Wire /\ ~l /\ StartSeen)
             /\ Scl /\ Scl' /\ Wire /\ ~l => StartSeen
             /\ Scl /\ Scl' /\ ~Wire /\ l => StopSeen
             /\ ~Scl /\ ~Scl' => Settled
             /\ Scl /\ Scl' /\ (Wire <=> l) => Settled
  <2> DEFINE l == Driven(SdaPin)' /\ ~pull
  <2>1. CASE ~Scl /\ ~(Scl')
    BY <1>1, <1>3, <2>1 DEF CartReacts, Settled
  <2>2. CASE ~Scl /\ Scl'
    BY <1>1, <1>3, <2>2 DEF CartReacts
  <2>3. CASE Scl /\ ~(Scl')
    BY <1>1, <1>3, <2>3 DEF CartReacts
  <2>4. CASE Scl /\ Scl' /\ Wire /\ ~l
    BY <1>1, <1>3, <2>4 DEF CartReacts
  <2>5. CASE Scl /\ Scl' /\ ~Wire /\ l
    BY <1>1, <1>3, <2>5 DEF CartReacts
  <2>6. CASE Scl /\ Scl' /\ ~(Wire /\ ~l) /\ ~(~Wire /\ l)
    BY <1>1, <1>3, <2>6 DEF CartReacts, Settled
  <2> QED BY <2>1, <2>2, <2>3, <2>4, <2>5, <2>6
<1> QED BY <1>1, <1>2, <1>3

-----------------------------------------------------------------------------
(* The stores of the routines, with what the device makes of them.         *)
LEMMA Raises ==
  ASSUME CartTypeOK, Gone, CartReacts, present' = present, Wired, ~SclHigh,
         Set(High({SclPin}))
  PROVE  /\ Wired' /\ SclHigh' /\ (SdaHigh' <=> SdaHigh) /\ (SdaOut' <=> SdaOut)
         /\ CartSame /\ (~present => ~pull')
         /\ present => Rises((SdaOut => SdaHigh) /\ ~pull)
<1>1. /\ Wired' /\ SclHigh' /\ (SdaHigh' <=> SdaHigh) /\ (SdaOut' <=> SdaOut)
  BY LineSets DEF CartTypeOK
<1>2. ~present => CartSame /\ ~pull'
  BY <1>1, Reaction
<1>3. present => Rises((SdaOut' => SdaHigh') /\ ~pull)
  BY <1>1, Reaction
<1>4. ((SdaOut' => SdaHigh') /\ ~pull) \in BOOLEAN
      /\ ((SdaOut => SdaHigh) /\ ~pull) \in BOOLEAN
  OBVIOUS
<1>5. ((SdaOut' => SdaHigh') /\ ~pull) = ((SdaOut => SdaHigh) /\ ~pull)
  BY <1>1, <1>4
<1>6. present => Rises((SdaOut => SdaHigh) /\ ~pull)
  BY <1>3, <1>5, Zenon
<1>7. present => CartSame
  BY <1>3 DEF Rises, CartSame
<1> QED BY <1>1, <1>2, <1>6, <1>7

(* SCL goes down.                                                          *)
LEMMA Lowers ==
  ASSUME CartTypeOK, Gone, CartReacts, present' = present, Wired, SclHigh,
         Set(Low({SclPin}))
  PROVE  /\ Wired' /\ ~SclHigh' /\ (SdaHigh' <=> SdaHigh) /\ (SdaOut' <=> SdaOut)
         /\ ~present => CartSame /\ ~pull'
         /\ present => Falls
<1>1. /\ Wired' /\ ~SclHigh' /\ (SdaHigh' <=> SdaHigh) /\ (SdaOut' <=> SdaOut)
  BY LineSets DEF CartTypeOK
<1>2. ~present => CartSame /\ ~pull'
  BY <1>1, Reaction
<1>3. present => LET w == (SdaOut => SdaHigh) /\ ~pull
                     l == (SdaOut' => SdaHigh') /\ ~pull IN
                 Falls \/ (w /\ ~l /\ StartSeen)
  BY <1>1, Reaction
<1> QED BY <1>1, <1>2, <1>3

(* The clock is low, or is high and nothing but a look is taken.           *)
LEMMA Quiets ==
  ASSUME CartTypeOK, Gone, CartReacts, present' = present, Wired, ~SclHigh,
         NEW op, Set(op), op \in {High({SdaPin}), Low({SdaPin}), Input, Output}
  PROVE  /\ Wired' /\ ~SclHigh' /\ CartSame /\ (~present => ~pull')
         /\ present => Settled
         /\ op = High({SdaPin}) => SdaHigh' /\ (SdaOut' <=> SdaOut)
         /\ op = Low({SdaPin}) => ~SdaHigh' /\ (SdaOut' <=> SdaOut)
         /\ op = Input => ~SdaOut' /\ (SdaHigh' <=> SdaHigh)
         /\ op = Output => SdaOut' /\ (SdaHigh' <=> SdaHigh)
<1>1. /\ Wired' /\ ~SclHigh'
      /\ op = High({SdaPin}) => SdaHigh' /\ (SdaOut' <=> SdaOut)
      /\ op = Low({SdaPin}) => ~SdaHigh' /\ (SdaOut' <=> SdaOut)
      /\ op = Input => ~SdaOut' /\ (SdaHigh' <=> SdaHigh)
      /\ op = Output => SdaOut' /\ (SdaHigh' <=> SdaHigh)
  BY LineSets DEF CartTypeOK
<1>2. /\ ~present => CartSame /\ ~pull'
      /\ present => Settled
  BY <1>1, Reaction
<1>3. Settled => CartSame
  BY DEF Settled, CartSame
<1> QED BY <1>1, <1>2, <1>3

(* A level is read, and nothing changes.                                   *)
LEMMA Looks ==
  ASSUME CartTypeOK, Gone, CartReacts, present' = present, Wired, SclHigh,
         Set(Sample({SdaPin}))
  PROVE  /\ Wired' /\ SclHigh' /\ (SdaHigh' <=> SdaHigh) /\ (SdaOut' <=> SdaOut)
         /\ CartSame /\ (~present => ~pull')
         /\ present => Settled
<1>1. /\ Wired' /\ SclHigh' /\ (SdaHigh' <=> SdaHigh) /\ (SdaOut' <=> SdaOut)
  BY LineSets DEF CartTypeOK
<1>2. /\ ~present => CartSame /\ ~pull'
      /\ present => Settled
  BY <1>1, Reaction
<1>3. Settled => CartSame
  BY DEF Settled, CartSame
<1> QED BY <1>1, <1>2, <1>3

(* SDA goes down: a start, if SCL is up.                                   *)
LEMMA Drops ==
  ASSUME CartTypeOK, Gone, CartReacts, present' = present, Wired,
         SclHigh, SdaOut, SdaHigh, ~pull, Set(Low({SdaPin}))
  PROVE  /\ Wired' /\ SclHigh' /\ ~SdaHigh' /\ SdaOut'
         /\ ~present => CartSame /\ ~pull'
         /\ present => StartSeen
<1>1. /\ Wired' /\ SclHigh' /\ ~SdaHigh' /\ SdaOut'
  BY LineSets DEF CartTypeOK
<1> QED BY <1>1, Reaction

(* SDA goes up: a stop, if SCL is up.                                      *)
LEMMA Lifts ==
  ASSUME CartTypeOK, Gone, CartReacts, present' = present, Wired,
         SclHigh, SdaOut, ~SdaHigh, Set(High({SdaPin}))
  PROVE  /\ Wired' /\ SclHigh' /\ SdaHigh' /\ SdaOut'
         /\ ~present => CartSame /\ ~pull'
         /\ present => IF pull THEN Settled ELSE StopSeen
<1>1. /\ Wired' /\ SclHigh' /\ SdaHigh' /\ SdaOut'
  BY LineSets DEF CartTypeOK
<1> QED BY <1>1, Reaction

(* The clock has fallen, by what the frame is to the device.               *)
LEMMA FallsDoes ==
  ASSUME Falls, Width \in 1..8, bits \in Nat, mode \in Modes
  PROVE  /\ rom' = rom /\ busy' = busy
         /\ Receiving /\ bits > Width => Taken
         /\ ~(Receiving /\ bits > Width) => page' = page /\ shift' = shift
         /\ Receiving /\ bits < Width => mode' = mode /\ bits' = bits /\ ptr' = ptr /\ ~pull'
         /\ Receiving /\ bits = Width =>
              /\ bits' = bits /\ ptr' = ptr
              /\ IF Accepts THEN mode' = mode /\ pull' ELSE mode' = "deaf" /\ ~pull'
         /\ mode = "send" /\ bits < Width =>
              /\ mode' = mode /\ bits' = bits /\ ptr' = ptr
              /\ pull' = (Bit(rom[ptr % Size], bits + 1) = 0)
         /\ mode = "send" /\ bits = Width =>
              mode' = mode /\ bits' = bits /\ ptr' = ptr + 1 /\ ~pull'
         /\ mode = "send" /\ bits > Width =>
              /\ mode' = mode /\ bits' = 0 /\ ptr' = ptr
              /\ pull' = (Bit(rom[ptr % Size], 1) = 0)
         /\ mode \in {"idle", "deaf"} => mode' = mode /\ bits' = bits /\ ptr' = ptr /\ ~pull'
<1>1. rom' = rom /\ busy' = busy
  BY DEF Falls
<1>2. CASE Receiving /\ bits > Width
  <2>1. Taken
    BY <1>2 DEF Falls
  <2> QED BY <1>1, <1>2, <2>1 DEF Receiving
<1>3. CASE ~(Receiving /\ bits > Width)
  <2>1. /\ page' = page /\ shift' = shift
        /\ mode' = IF Receiving /\ bits = Width /\ ~Accepts THEN "deaf" ELSE mode
        /\ bits' = IF mode = "send" /\ bits > Width THEN 0 ELSE bits
        /\ ptr' = IF mode = "send" /\ bits = Width THEN ptr + 1 ELSE ptr
        /\ pull' = CASE mode = "send" -> bits' < Width /\ Zero(1 + bits')
                     [] Receiving -> bits = Width /\ Accepts
                     [] OTHER -> FALSE
    BY <1>3 DEF Falls
  <2>2. CASE Receiving
    <3>1. mode # "send" /\ mode \notin {"idle", "deaf"}
      BY <2>2 DEF Receiving
    <3>2. pull' = (bits = Width /\ Accepts)
      BY <2>1, <2>2, <3>1, Zenon
    <3>3. CASE bits < Width
      <4>1. bits # Width
        BY <3>3
      <4>2. ~pull'
        BY <3>2, <4>1
      <4> QED BY <1>1, <1>3, <2>1, <2>2, <3>1, <3>3, <4>1, <4>2
    <3>4. CASE bits = Width
      <4>1. CASE Accepts
        <5>1. pull'
          BY <3>2, <3>4, <4>1, Zenon
        <5> QED BY <1>1, <1>3, <2>1, <2>2, <3>1, <3>4, <4>1, <5>1
      <4>2. CASE ~Accepts
        <5>1. ~pull'
          BY <3>2, <3>4, <4>2, Zenon
        <5> QED BY <1>1, <1>3, <2>1, <2>2, <3>1, <3>4, <4>2, <5>1
      <4> QED BY <4>1, <4>2
    <3> QED BY <1>3, <2>2, <3>3, <3>4
  <2>3. CASE mode = "send"
    <3>1. ~Receiving /\ mode \notin {"idle", "deaf"}
      BY <2>3 DEF Receiving
    <3>2. pull' = (bits' < Width /\ Zero(1 + bits'))
      BY <2>1, <2>3, <3>1
    <3>3. mode' = mode
      BY <2>1, <3>1
    <3>4. CASE bits < Width
      <4>1. bits' = bits /\ ptr' = ptr
        BY <2>1, <3>4
      <4>2. pull' = (bits < Width /\ (Bit(rom[ptr % Size], 1 + bits) = 0))
        BY <3>2, <4>1, Zenon DEF Zero
      <4>3. 1 + bits = bits + 1
        OBVIOUS
      <4>4. pull' = (Bit(rom[ptr % Size], bits + 1) = 0)
        BY <3>4, <4>2, <4>3, Zenon
      <4> QED BY <1>1, <1>3, <2>1, <2>3, <3>1, <3>3, <3>4, <4>1, <4>4
    <3>5. CASE bits = Width
      <4>1. bits' = bits /\ ptr' = ptr + 1
        BY <2>1, <2>3, <3>5
      <4>2. ~(bits' < Width)
        BY <3>5, <4>1
      <4>3. ~pull'
        BY <3>2, <4>2, Zenon
      <4> QED BY <1>1, <1>3, <2>1, <2>3, <3>1, <3>3, <3>5, <4>1, <4>3
    <3>6. CASE bits > Width
      <4>1. bits' = 0 /\ ptr' = ptr /\ 1 + bits' = 1 /\ bits' < Width
        BY <2>1, <2>3, <3>6
      <4>2. pull' = (bits' < Width /\ (Bit(rom[ptr % Size], 1) = 0))
        BY <3>2, <4>1, Zenon DEF Zero
      <4>3. pull' = (Bit(rom[ptr % Size], 1) = 0)
        BY <4>1, <4>2, Zenon
      <4> QED BY <1>1, <1>3, <2>1, <2>3, <3>1, <3>3, <3>6, <4>1, <4>3
    <3> QED BY <3>4, <3>5, <3>6
  <2>4. CASE ~Receiving /\ mode # "send"
    <3>1. ~pull'
      BY <2>1, <2>4, Zenon
    <3> QED BY <1>1, <1>3, <2>1, <2>4, <3>1
  <2> QED BY <2>2, <2>3, <2>4
<1> QED BY <1>2, <1>3

-----------------------------------------------------------------------------
(* The routines, store by store.                                           *)
LEMMA StartPin ==
  ASSUME CartTypeOK, Gone, CartPin, NEW t \in Seq(Op), NEW k \in 0..1,
         todo = Rest(start, k) \o t, Starting(k), ~busy => page = None
  PROVE  /\ todo' = Rest(start, k + 1) \o t /\ Starting(k + 1)'
         /\ got' = got /\ CartSame /\ (present => ptr' = ptr)
<1>1. k \in 0..(Len(start) - 1)
  BY StartOps
<1>2. /\ todo' = Rest(start, k + 1) \o t /\ Set(start[k + 1]) /\ CartReacts
      /\ present' = present
      /\ start[k + 1].do # "sample" => got' = got
  BY <1>1, CartDoes, StartOps
<1>3. Wired /\ SdaOut /\ ~pull
  BY DEF Starting
<1>4. CASE k = 0
  <2>1. Set(Low({SdaPin})) /\ got' = got
    BY <1>2, <1>4, StartOps, NoSample
  <2>2. SclHigh /\ SdaHigh
    BY <1>4 DEF Starting
  <2>3. /\ Wired' /\ SclHigh' /\ ~SdaHigh' /\ SdaOut'
        /\ ~present => CartSame /\ ~pull'
        /\ present => StartSeen
    BY <1>2, <1>3, <2>1, <2>2, Drops
  <2>4. CartSame /\ ~pull' /\ (present => ptr' = ptr)
    BY <2>3 DEF StartSeen, CartSame
  <2>5. present' => mode' = "ctl" /\ bits' = 0 /\ shift' = 0
    BY <1>2, <2>3 DEF StartSeen
  <2>6. Starting(1)'
    BY <2>3, <2>4, <2>5 DEF Starting
  <2> QED BY <1>2, <1>4, <2>1, <2>4, <2>6
<1>5. CASE k = 1
  <2>1. Set(Low({SclPin})) /\ got' = got
    BY <1>2, <1>5, StartOps, NoSample
  <2>2. SclHigh /\ ~SdaHigh /\ (present => mode = "ctl" /\ bits = 0 /\ shift = 0)
    BY <1>5 DEF Starting
  <2>3. /\ Wired' /\ ~SclHigh' /\ (SdaHigh' <=> SdaHigh) /\ (SdaOut' <=> SdaOut)
        /\ ~present => CartSame /\ ~pull'
        /\ present => Falls
    BY <1>2, <1>3, <2>1, <2>2, Lowers
  <2>4. present => /\ CartSame /\ ptr' = ptr /\ ~pull'
                   /\ mode' = "ctl" /\ bits' = 0 /\ shift' = 0
    BY <2>2, <2>3, ByteWidth, FallsDoes, SMTT(30) DEF CartSame, Receiving, CartTypeOK
  <2>5. Starting(2)'
    BY <1>2, <1>3, <2>2, <2>3, <2>4 DEF Starting
  <2> QED BY <1>2, <1>5, <2>1, <2>3, <2>4, <2>5
<1> QED BY <1>4, <1>5

(* A store of a repeated start.                                            *)
LEMMA RestartPin ==
  ASSUME CartTypeOK, Gone, CartPin, NEW t \in Seq(Op), NEW k \in 0..3,
         todo = Rest(restart, k) \o t, Restarting(k), ~busy => page = None
  PROVE  /\ todo' = Rest(restart, k + 1) \o t /\ Restarting(k + 1)'
         /\ got' = got /\ CartSame /\ (present => ptr' = ptr)
<1>1. k \in 0..(Len(restart) - 1)
  BY RestartOps
<1>2. /\ todo' = Rest(restart, k + 1) \o t /\ Set(restart[k + 1]) /\ CartReacts
      /\ present' = present
      /\ restart[k + 1].do # "sample" => got' = got
  BY <1>1, CartDoes, RestartOps
<1>3. Wired /\ SdaOut /\ ~pull
  BY DEF Restarting
<1>4. CASE k = 0
  <2>1. Set(High({SdaPin})) /\ got' = got
    BY <1>2, <1>4, RestartOps, NoSample
  <2>2. ~SclHigh
    BY <1>4 DEF Restarting
  <2>3. /\ Wired' /\ ~SclHigh' /\ CartSame /\ (~present => ~pull')
        /\ present => Settled
        /\ SdaHigh' /\ (SdaOut' <=> SdaOut)
    BY <1>2, <1>3, <2>1, <2>2, Quiets
  <2>4. ~pull' /\ (present => ptr' = ptr)
    BY <1>3, <2>3 DEF Settled
  <2>5. Restarting(1)'
    BY <1>3, <2>3, <2>4 DEF Restarting
  <2> QED BY <1>2, <1>4, <2>1, <2>3, <2>4, <2>5
<1>5. CASE k = 1
  <2>1. Set(High({SclPin})) /\ got' = got
    BY <1>2, <1>5, RestartOps, NoSample
  <2>2. ~SclHigh /\ SdaHigh
    BY <1>5 DEF Restarting
  <2>3. /\ Wired' /\ SclHigh' /\ (SdaHigh' <=> SdaHigh) /\ (SdaOut' <=> SdaOut)
        /\ CartSame /\ (~present => ~pull')
        /\ present => Rises((SdaOut => SdaHigh) /\ ~pull)
    BY <1>2, <1>3, <2>1, <2>2, Raises
  <2>4. ~pull' /\ (present => ptr' = ptr)
    BY <1>3, <2>3 DEF Rises
  <2>5. Restarting(2)'
    BY <1>3, <2>2, <2>3, <2>4 DEF Restarting
  <2> QED BY <1>2, <1>5, <2>1, <2>3, <2>4, <2>5
<1>6. CASE k = 2
  <2>1. Set(Low({SdaPin})) /\ got' = got
    BY <1>2, <1>6, RestartOps, NoSample
  <2>2. SclHigh /\ SdaHigh
    BY <1>6 DEF Restarting
  <2>3. /\ Wired' /\ SclHigh' /\ ~SdaHigh' /\ SdaOut'
        /\ ~present => CartSame /\ ~pull'
        /\ present => StartSeen
    BY <1>2, <1>3, <2>1, <2>2, Drops
  <2>4. CartSame /\ ~pull' /\ (present => ptr' = ptr)
    BY <2>3 DEF StartSeen, CartSame
  <2>5. present' => mode' = "ctl" /\ bits' = 0 /\ shift' = 0
    BY <1>2, <2>3 DEF StartSeen
  <2>6. Restarting(3)'
    BY <2>3, <2>4, <2>5 DEF Restarting
  <2> QED BY <1>2, <1>6, <2>1, <2>4, <2>6
<1>7. CASE k = 3
  <2>1. Set(Low({SclPin})) /\ got' = got
    BY <1>2, <1>7, RestartOps, NoSample
  <2>2. SclHigh /\ ~SdaHigh /\ (present => mode = "ctl" /\ bits = 0 /\ shift = 0)
    BY <1>7 DEF Restarting
  <2>3. /\ Wired' /\ ~SclHigh' /\ (SdaHigh' <=> SdaHigh) /\ (SdaOut' <=> SdaOut)
        /\ ~present => CartSame /\ ~pull'
        /\ present => Falls
    BY <1>2, <1>3, <2>1, <2>2, Lowers
  <2>4. present => /\ CartSame /\ ptr' = ptr /\ ~pull'
                   /\ mode' = "ctl" /\ bits' = 0 /\ shift' = 0
    BY <2>2, <2>3, ByteWidth, FallsDoes, SMTT(30) DEF CartSame, Receiving, CartTypeOK
  <2>5. Restarting(4)'
    BY <1>2, <1>3, <2>2, <2>3, <2>4 DEF Restarting
  <2> QED BY <1>2, <1>7, <2>1, <2>3, <2>4, <2>5
<1> QED BY <1>4, <1>5, <1>6, <1>7

(* A store of a stop.                                                      *)
LEMMA StopPin ==
  ASSUME CartTypeOK, Gone, CartPin, NEW t \in Seq(Op), NEW k \in 0..2,
         todo = Rest(stop, k) \o t, Stopping(k)
  PROVE  /\ todo' = Rest(stop, k + 1) \o t /\ Stopping(k + 1)' /\ got' = got
         /\ rom' = rom /\ page' = page
         /\ present =>
              /\ k < 2 => mode' = mode
              /\ k = 0 => bits' = bits
              /\ k = 1 /\ mode = "data" => bits' = bits + 1
         /\ busy' = (busy \/ (present /\ k = 2 /\ mode = "data" /\ bits = 1 /\ page # None))
<1>1. k \in 0..(Len(stop) - 1)
  BY StopOps
<1>2. /\ todo' = Rest(stop, k + 1) \o t /\ Set(stop[k + 1]) /\ CartReacts
      /\ present' = present
      /\ stop[k + 1].do # "sample" => got' = got
  BY <1>1, CartDoes, StopOps
<1>3. Wired /\ SdaOut /\ ~pull /\ busy \in BOOLEAN
  BY DEF Stopping, CartTypeOK
<1>4. CASE k = 0
  <2>1. Set(Low({SclPin, SdaPin})) /\ got' = got
    BY <1>2, <1>4, StopOps, NoSample
  <2>2. ~SclHigh
    BY <1>4 DEF Stopping
  <2>3. Wired' /\ ~SdaHigh' /\ ~SclHigh' /\ (SdaOut' <=> SdaOut)
    BY <1>3, <2>1, LineSets DEF CartTypeOK
  <2>4. /\ ~present => CartSame /\ ~pull'
        /\ present => Settled
    BY <1>2, <1>3, <2>2, <2>3, Reaction
  <2>5. CartSame /\ ~pull' /\ (present => mode' = mode /\ bits' = bits)
    BY <1>3, <2>4 DEF Settled, CartSame
  <2>6. Stopping(1)'
    BY <1>3, <2>3, <2>5 DEF Stopping
  <2> QED BY <1>2, <1>3, <1>4, <2>1, <2>5, <2>6 DEF CartSame
<1>5. CASE k = 1
  <2>1. Set(High({SclPin})) /\ got' = got
    BY <1>2, <1>5, StopOps, NoSample
  <2>2. ~SclHigh /\ ~SdaHigh
    BY <1>5 DEF Stopping
  <2>3. /\ Wired' /\ SclHigh' /\ (SdaHigh' <=> SdaHigh) /\ (SdaOut' <=> SdaOut)
        /\ CartSame /\ (~present => ~pull')
        /\ present => Rises((SdaOut => SdaHigh) /\ ~pull)
    BY <1>2, <1>3, <2>1, <2>2, Raises
  <2>4. ~pull' /\ (present => mode' = mode /\ (mode = "data" => bits' = bits + 1))
    BY <1>3, <2>2, <2>3 DEF Rises
  <2>5. Stopping(2)'
    BY <1>3, <2>2, <2>3, <2>4 DEF Stopping
  <2> QED BY <1>2, <1>3, <1>5, <2>1, <2>3, <2>4, <2>5 DEF CartSame
<1>6. CASE k = 2
  <2>1. Set(High({SdaPin})) /\ got' = got
    BY <1>2, <1>6, StopOps, NoSample
  <2>2. SclHigh /\ ~SdaHigh
    BY <1>6 DEF Stopping
  <2>3. /\ Wired' /\ SclHigh' /\ SdaHigh' /\ SdaOut'
        /\ ~present => CartSame /\ ~pull'
        /\ present => IF pull THEN Settled ELSE StopSeen
    BY <1>2, <1>3, <2>1, <2>2, Lifts
  <2>4. present => StopSeen
    BY <1>3, <2>3
  <2>5. ~pull' /\ (present => mode' = "idle")
    BY <2>3, <2>4 DEF StopSeen
  <2>6. Stopping(3)'
    BY <1>2, <2>3, <2>5 DEF Stopping
  <2>7. CASE present
    <3>1. /\ rom' = rom /\ page' = page
          /\ busy' = (busy \/ (mode = "data" /\ bits = 1 /\ page # None))
      BY <2>4, <2>7 DEF StopSeen
    <3> QED BY <1>2, <1>6, <2>1, <2>6, <2>7, <3>1
  <2>8. CASE ~present
    <3>1. rom' = rom /\ page' = page /\ busy' = busy
      BY <2>3, <2>8 DEF CartSame
    <3> QED BY <1>2, <1>3, <1>6, <2>1, <2>6, <2>8, <3>1
  <2> QED BY <2>7, <2>8
<1> QED BY <1>4, <1>5, <1>6

(* A bit of a byte sent.                                                   *)
LEMMA BitPin ==
  ASSUME CartTypeOK, Gone, CartPin, NEW t \in Seq(Op),
         NEW m \in {"ctl", "hi", "lo", "data"}, NEW v \in CartByte,
         m = "ctl" => v \in {CtlWrite, CtlRead},
         present /\ busy => m = "ctl" /\ pc = "polled",
         NEW j \in 0..(Width - 1), NEW c \in 0..2,
         todo = Rest(send_byte(v), 3 * j + c) \o t, Sending(m, v, j, c)
  PROVE  /\ todo' = Rest(send_byte(v), (3 * j + c) + 1) \o t
         /\ c < 2 => Sending(m, v, j, c + 1)'
         /\ c = 2 /\ j < Width - 1 => Sending(m, v, j + 1, 0)'
         /\ c = 2 /\ j = Width - 1 => Acking(m, v, 0)'
         /\ got' = got /\ CartSame /\ (present => ptr' = ptr)
         /\ pull' => ~busy
<1> DEFINE r == send_byte(v)
<1>1. Width \in 1..8 /\ v \in Nat /\ v < 2 ^ Width
  BY ByteWidth DEF CartByte
<1>2. /\ r \in Seq(Op) /\ Len(r) = 3 * Width + 6
      /\ r[3 * j + 1] = Value(SdaPin, Bit(v, j + 1))
      /\ r[3 * j + 2] = High({SclPin}) /\ r[3 * j + 3] = Low({SclPin})
  BY SendOps
<1> HIDE DEF r
<1>3. 3 * j + c \in 0..(Len(r) - 1)
  BY <1>1, <1>2
<1>4. /\ todo' = Rest(r, (3 * j + c) + 1) \o t /\ Set(r[(3 * j + c) + 1]) /\ CartReacts
      /\ present' = present /\ pc' = pc
      /\ r[(3 * j + c) + 1].do # "sample" => got' = got
  <2>1. todo = Rest(r, 3 * j + c) \o t
    BY DEF r
  <2> QED BY <1>2, <1>3, <2>1, CartDoes
<1>5. Bit(v, j + 1) \in {0, 1}
      /\ v \div 2 ^ (Width - (j + 1)) = 2 * (v \div 2 ^ (Width - j)) + Bit(v, j + 1)
  BY <1>1, FirstBits
<1>6. v \div 2 ^ (Width - Width) = v
  BY <1>1, FirstBits
<1>7. Wired /\ SdaOut /\ ~pull /\ got = <<>>
  BY DEF Sending
<1>8. CASE c = 0
  <2>1. (3 * j + c) + 1 = 3 * j + 1
    BY <1>8
  <2>2. PICK op : op = r[3 * j + 1]
    OBVIOUS
  <2>3. /\ op = (IF Bit(v, j + 1) = 0 THEN Low({SdaPin}) ELSE High({SdaPin}))
        /\ Set(op) /\ got' = got
    BY <1>2, <1>4, <2>1, <2>2, NoSample DEF Value
  <2>4. ~SclHigh
    BY <1>8 DEF Sending
  <2>5. /\ Wired' /\ ~SclHigh' /\ CartSame /\ (~present => ~pull')
        /\ present => Settled
        /\ op = High({SdaPin}) => SdaHigh' /\ (SdaOut' <=> SdaOut)
        /\ op = Low({SdaPin}) => ~SdaHigh' /\ (SdaOut' <=> SdaOut)
    <3>1. op \in {High({SdaPin}), Low({SdaPin}), Input, Output}
      BY <2>3
    <3> QED BY <1>4, <1>7, <2>3, <2>4, <3>1, Quiets
  <2>6. SdaOut' /\ (SdaHigh' <=> Bit(v, j + 1) = 1)
    BY <1>5, <1>7, <2>3, <2>5
  <2>7. ~pull' /\ (present => ptr' = ptr /\ mode' = mode /\ bits' = bits /\ shift' = shift)
    BY <1>7, <2>5 DEF Settled
  <2>8. present => mode = m /\ bits = j /\ shift = v \div 2 ^ (Width - j)
    BY <1>8 DEF Sending
  <2>9. present' => mode' = m /\ bits' = j /\ shift' = v \div 2 ^ (Width - j)
    BY <1>4, <2>7, <2>8
  <2>10. Sending(m, v, j, 1)'
    BY <1>7, <2>3, <2>5, <2>6, <2>7, <2>9 DEF Sending
  <2> QED BY <1>4, <1>8, <2>3, <2>5, <2>7, <2>10 DEF r
<1>9. CASE c = 1
  <2>1. (3 * j + c) + 1 = 3 * j + 2
    BY <1>9
  <2>2. Set(High({SclPin})) /\ got' = got
    BY <1>2, <1>4, <2>1, NoSample
  <2>3. ~SclHigh /\ (SdaHigh <=> Bit(v, j + 1) = 1)
    BY <1>9 DEF Sending
  <2>4. /\ Wired' /\ SclHigh' /\ (SdaHigh' <=> SdaHigh) /\ (SdaOut' <=> SdaOut)
        /\ CartSame /\ (~present => ~pull')
        /\ present => Rises((SdaOut => SdaHigh) /\ ~pull)
    BY <1>4, <1>7, <2>2, <2>3, Raises
  <2>5. present => mode = m /\ bits = j /\ shift = v \div 2 ^ (Width - j)
    BY <1>9 DEF Sending
  <2>6. present => /\ mode' = mode /\ bits' = bits + 1 /\ ptr' = ptr /\ pull' = pull
                   /\ shift' = 2 * shift + (IF SdaHigh THEN 1 ELSE 0)
    BY <1>1, <1>7, <2>4, <2>5 DEF Rises, Receiving
  <2>7. present => shift' = v \div 2 ^ (Width - (j + 1))
    <3>1. (IF SdaHigh THEN 1 ELSE 0) = Bit(v, j + 1)
      BY <1>5, <2>3
    <3> QED BY <1>5, <2>5, <2>6, <3>1
  <2>8. ~pull'
    BY <1>7, <2>4, <2>6
  <2>9. present' => mode' = m /\ bits' = j + 1 /\ shift' = v \div 2 ^ (Width - (j + 1))
    BY <1>4, <2>5, <2>6, <2>7
  <2>10. Sending(m, v, j, 2)'
    BY <1>7, <2>2, <2>3, <2>4, <2>8, <2>9 DEF Sending
  <2> QED BY <1>4, <1>9, <2>2, <2>4, <2>6, <2>8, <2>10 DEF r
<1>10. CASE c = 2
  <2>1. (3 * j + c) + 1 = 3 * j + 3
    BY <1>10
  <2>2. Set(Low({SclPin})) /\ got' = got
    BY <1>2, <1>4, <2>1, NoSample
  <2>3. SclHigh
    BY <1>10 DEF Sending
  <2>4. /\ Wired' /\ ~SclHigh' /\ (SdaHigh' <=> SdaHigh) /\ (SdaOut' <=> SdaOut)
        /\ ~present => CartSame /\ ~pull'
        /\ present => Falls
    BY <1>4, <1>7, <2>2, <2>3, Lowers
  <2>5. present => mode = m /\ bits = j + 1 /\ shift = v \div 2 ^ (Width - (j + 1))
    BY <1>10 DEF Sending
  <2>6. CASE ~present
    <3>1. CartSame /\ ~pull' /\ ~present'
      BY <1>4, <2>4, <2>6
    <3>2. Sending(m, v, j + 1, 0)'
      BY <1>7, <2>2, <2>4, <3>1 DEF Sending
    <3>3. Acking(m, v, 0)'
      BY <1>7, <2>2, <2>4, <3>1, EmptySeq DEF Acking
    <3> QED BY <1>4, <1>10, <2>2, <2>6, <3>1, <3>2, <3>3 DEF r
  <2>7. CASE present /\ j < Width - 1
    <3>1. Receiving /\ bits < Width
      BY <1>1, <2>5, <2>7 DEF Receiving
    <3>2. /\ rom' = rom /\ busy' = busy /\ page' = page /\ shift' = shift
          /\ mode' = mode /\ bits' = bits /\ ptr' = ptr /\ ~pull'
      <4>1. bits \in Nat /\ mode \in Modes
        BY DEF CartTypeOK
      <4>2. ~(bits > Width)
        <5>1. bits \in Nat /\ Width \in Nat /\ bits < Width
          BY <1>1, <3>1, <4>1
        <5> QED BY <5>1
      <4> QED BY <1>1, <2>4, <2>7, <3>1, <4>1, <4>2, FallsDoes
    <3>3. mode' = m /\ bits' = j + 1 /\ shift' = v \div 2 ^ (Width - (j + 1))
      BY <2>5, <2>7, <3>2
    <3>4. Sending(m, v, j + 1, 0)'
      BY <1>7, <2>2, <2>4, <3>2, <3>3 DEF Sending
    <3>5. CartSame
      BY <3>2 DEF CartSame
    <3> QED BY <1>4, <1>10, <2>2, <2>7, <3>2, <3>4, <3>5 DEF r
  <2>8. CASE present /\ j = Width - 1
    <3>1. j + 1 = Width
      BY <2>8, <1>1
    <3>2. Receiving /\ bits = Width /\ shift = v /\ mode = m
      <4>1. v \div 2 ^ (Width - (j + 1)) = v
        BY <1>6, <3>1, Zenon
      <4> QED BY <2>5, <2>8, <3>1, <4>1 DEF Receiving
    <3>3. /\ rom' = rom /\ busy' = busy /\ page' = page /\ shift' = shift
          /\ bits' = bits /\ ptr' = ptr
          /\ IF Accepts THEN mode' = mode /\ pull' ELSE mode' = "deaf" /\ ~pull'
      BY <1>1, <2>4, <2>8, <3>2, FallsDoes DEF CartTypeOK
    <3>4. CartSame
      BY <3>3 DEF CartSame
    <3>5. Accepts <=> ~(m = "ctl" /\ busy)
      BY <3>2 DEF Accepts
    <3>6. CASE Accepts
      <4>1. mode' = m /\ pull' /\ shift' = v /\ bits' = Width
        BY <3>2, <3>3, <3>6
      <4>2. Acking(m, v, 0)'
        BY <1>1, <1>4, <1>7, <2>2, <2>4, <4>1, EmptySeq DEF Acking
      <4>3. ~busy
        BY <2>8, <3>5, <3>6
      <4> QED BY <1>4, <1>10, <2>2, <2>8, <3>3, <3>4, <4>2, <4>3 DEF r
    <3>7. CASE ~Accepts
      <4>1. mode' = "deaf" /\ ~pull' /\ m = "ctl" /\ pc' = "polled"
        BY <1>4, <2>8, <3>3, <3>5, <3>7
      <4>2. Acking(m, v, 0)'
        BY <1>4, <1>7, <2>2, <2>4, <4>1, EmptySeq DEF Acking
      <4> QED BY <1>4, <1>10, <2>2, <2>8, <3>3, <3>4, <4>1, <4>2 DEF r
    <3> QED BY <3>6, <3>7
  <2> QED BY <1>1, <2>6, <2>7, <2>8
<1>11. c = 0 \/ c = 1 \/ c = 2
  OBVIOUS
<1> QED BY <1>8, <1>9, <1>10, <1>11, Zenon

(* The acknowledge of a byte sent.                                         *)
LEMMA TakenDoes ==
  ASSUME Taken, NEW m \in {"ctl", "hi", "lo", "data"}, mode = m, NEW v, shift = v
  PROVE  /\ mode' = NextMode(m, v) /\ bits' = 0 /\ shift' = 0
         /\ ptr' = CASE m = "hi" -> v
                     [] m = "lo" -> 2 ^ Width * ptr + v
                     [] m = "data" -> NextInPage(ptr % Size)
                     [] OTHER -> ptr
         /\ page' = IF m # "data" THEN page
                    ELSE [c \in DOMAIN page \cup {ptr % Size} |->
                             IF c = ptr % Size THEN v ELSE page[c]]
         /\ pull' = (mode' = "send" /\ Bit(rom[ptr' % Size], 1) = 0)
<1>1. mode' = AfterByte[mode]
  BY DEF Taken
<1>2. AfterByte[m] = NextMode(m, v)
  BY DEF AfterByte, NextMode
<1>3. mode' = NextMode(m, v)
  BY <1>1, <1>2
<1>4. /\ bits' = 0 /\ shift' = 0
      /\ ptr' = CASE m = "hi" -> v
                  [] m = "lo" -> 2 ^ Width * ptr + v
                  [] m = "data" -> NextInPage(ptr % Size)
                  [] OTHER -> ptr
      /\ page' = IF m # "data" THEN page
                 ELSE [c \in DOMAIN page \cup {ptr % Size} |->
                          IF c = ptr % Size THEN v ELSE page[c]]
  BY DEF Taken
<1>5. pull' = (mode' = "send" /\ Bit(rom[ptr' % Size], 1) = 0)
  BY DEF Taken, Zero
<1> QED BY <1>3, <1>4, <1>5

(* A store of the acknowledge of a byte sent.                              *)
LEMMA AcknowledgePin ==
  ASSUME CartTypeOK, Gone, CartPin, NEW t \in Seq(Op),
         NEW m \in {"ctl", "hi", "lo", "data"}, NEW v \in CartByte,
         pull => ~busy, present /\ mode = "send" => ~busy,
         NEW c \in 0..5,
         todo = Rest(send_byte(v), 3 * Width + c) \o t, Acking(m, v, c)
  PROVE  /\ todo' = Rest(send_byte(v), (3 * Width + c) + 1) \o t
         /\ Acking(m, v, c + 1)'
         /\ got' = IF c = 3 THEN <<IF pull THEN {} ELSE {SdaPin}>> ELSE got
         /\ rom' = rom /\ busy' = busy
         /\ ~(present /\ c = 4 /\ mode = m) => page' = page /\ (present => ptr' = ptr)
         /\ present /\ c = 4 /\ mode = m =>
              /\ ptr' = CASE m = "hi" -> v
                          [] m = "lo" -> 2 ^ Width * ptr + v
                          [] m = "data" -> NextInPage(ptr % Size)
                          [] OTHER -> ptr
              /\ page' = IF m # "data" THEN page
                         ELSE [x \in DOMAIN page \cup {ptr % Size} |->
                                  IF x = ptr % Size THEN v ELSE page[x]]
         /\ pull' => ~busy
         /\ present /\ mode' = "send" => ~busy
<1> DEFINE r == send_byte(v)
<1>1. Width \in 1..8 /\ v \in Nat
  BY ByteWidth DEF CartByte
<1>2. /\ r \in Seq(Op) /\ Len(r) = 3 * Width + 6
      /\ r[3 * Width + 1] = High({SdaPin}) /\ r[3 * Width + 2] = Input
      /\ r[3 * Width + 3] = High({SclPin}) /\ r[3 * Width + 4] = Sample({SdaPin})
      /\ r[3 * Width + 5] = Low({SclPin}) /\ r[3 * Width + 6] = Output
  BY SendOps
<1> HIDE DEF r
<1>3. 3 * Width + c \in 0..(Len(r) - 1)
  BY <1>1, <1>2
<1>4. /\ todo' = Rest(r, (3 * Width + c) + 1) \o t /\ Set(r[(3 * Width + c) + 1])
      /\ CartReacts /\ present' = present /\ pc' = pc
      /\ got' = IF r[(3 * Width + c) + 1].do = "sample"
                THEN Append(got, (IF Wire THEN {SdaPin} ELSE {})
                                 \cap r[(3 * Width + c) + 1].pins)
                ELSE got
  <2>1. todo = Rest(r, 3 * Width + c) \o t
    BY DEF r
  <2> QED BY <1>2, <1>3, <2>1, CartDoes
<1>5. bits \in Nat /\ mode \in Modes /\ m \in Modes /\ m # "deaf" /\ m # "send"
  BY DEF CartTypeOK, Modes
<1>6. Wired /\ (SdaOut <=> c \notin 2..5) /\ (SclHigh <=> c \in {3, 4}) /\ (c >= 1 => SdaHigh)
      /\ Len(got) = (IF c >= 4 THEN 1 ELSE 0)
  BY DEF Acking
<1>7. present =>
        \/ mode = "deaf" /\ ~pull /\ m = "ctl" /\ pc = "polled"
        \/ /\ mode = m /\ c < 5 /\ pull /\ shift = v
           /\ bits = IF c >= 3 THEN Width + 1 ELSE Width
        \/ /\ mode = NextMode(m, v) /\ c >= 5 /\ bits = 0 /\ shift = 0
           /\ IF mode = "send" THEN Shows(ptr, 0) ELSE ~pull
  BY DEF Acking
<1>8. NextMode(m, v) \notin {"deaf", m} \/ m = "data"
  BY DEF NextMode
<1>9. CASE c = 0
  <2>1. (3 * Width + c) + 1 = 3 * Width + 1
    BY <1>1, <1>9
  <2>2. Set(High({SdaPin})) /\ got' = got
    BY <1>2, <1>4, <2>1, NoSample
  <2>3. /\ Wired' /\ ~SclHigh' /\ CartSame /\ (~present => ~pull')
        /\ present => Settled
        /\ SdaHigh' /\ (SdaOut' <=> SdaOut)
    <3>1. ~SclHigh
      BY <1>6, <1>9
    <3> QED BY <1>4, <1>6, <2>2, <3>1, Quiets
  <2>4. present => /\ mode' = mode /\ bits' = bits /\ shift' = shift /\ ptr' = ptr
                   /\ pull' = pull
    BY <2>3 DEF Settled
  <2>5. Acking(m, v, 1)'
    BY <1>1, <1>4, <1>6, <1>7, <1>9, <2>2, <2>3, <2>4 DEF Acking
  <2> QED BY <1>4, <1>9, <2>2, <2>3, <2>4, <2>5 DEF CartSame, r
<1>10. CASE c = 1
  <2>1. (3 * Width + c) + 1 = 3 * Width + 2
    BY <1>1, <1>10
  <2>2. Set(Input) /\ got' = got
    BY <1>2, <1>4, <2>1, NoSample
  <2>3. /\ Wired' /\ ~SclHigh' /\ CartSame /\ (~present => ~pull')
        /\ present => Settled
        /\ ~SdaOut' /\ (SdaHigh' <=> SdaHigh)
    <3>1. ~SclHigh
      BY <1>6, <1>10
    <3> QED BY <1>4, <1>6, <2>2, <3>1, Quiets
  <2>4. present => /\ mode' = mode /\ bits' = bits /\ shift' = shift /\ ptr' = ptr
                   /\ pull' = pull
    BY <2>3 DEF Settled
  <2>5. Acking(m, v, 2)'
    BY <1>1, <1>4, <1>6, <1>7, <1>10, <2>2, <2>3, <2>4 DEF Acking
  <2> QED BY <1>4, <1>10, <2>2, <2>3, <2>4, <2>5 DEF CartSame, r
<1>11. CASE c = 2
  <2>1. (3 * Width + c) + 1 = 3 * Width + 3
    BY <1>1, <1>11
  <2>2. Set(High({SclPin})) /\ got' = got
    BY <1>2, <1>4, <2>1, NoSample
  <2>3. /\ Wired' /\ SclHigh' /\ (SdaHigh' <=> SdaHigh) /\ (SdaOut' <=> SdaOut)
        /\ CartSame /\ (~present => ~pull')
        /\ present => Rises((SdaOut => SdaHigh) /\ ~pull)
    <3>1. ~SclHigh
      BY <1>6, <1>11
    <3> QED BY <1>4, <1>6, <2>2, <3>1, Raises
  <2>4. present => ptr' = ptr /\ pull' = pull
    BY <2>3 DEF Rises
  <2>5. present /\ mode = "deaf" => mode' = "deaf"
    BY <2>3 DEF Rises
  <2>6. present /\ mode = m => mode' = m /\ bits' = Width + 1 /\ shift' = v
    <3>1. present /\ mode = m => bits = Width /\ shift = v
      BY <1>5, <1>7, <1>11
    <3> QED BY <1>1, <1>5, <2>3, <3>1 DEF Rises, Receiving
  <2>7. Acking(m, v, 3)'
    BY <1>1, <1>4, <1>5, <1>6, <1>7, <1>11, <2>2, <2>3, <2>4, <2>5, <2>6 DEF Acking
  <2>8. present => mode' = mode
    BY <1>7, <1>11, <2>5, <2>6
  <2> QED BY <1>4, <1>11, <2>2, <2>3, <2>4, <2>7, <2>8 DEF CartSame, r
<1>12. CASE c = 3
  <2>1. (3 * Width + c) + 1 = 3 * Width + 4
    BY <1>1, <1>12
  <2>2. /\ Set(Sample({SdaPin}))
        /\ got' = Append(got, (IF Wire THEN {SdaPin} ELSE {}) \cap {SdaPin})
    BY <1>2, <1>4, <2>1, NoSample
  <2>3. SclHigh /\ ~SdaOut /\ SdaHigh
    BY <1>6, <1>12
  <2>4. got = <<>>
    BY <1>6, <1>12, EmptySeq DEF CartTypeOK
  <2>5. Wire <=> ~pull
    BY <1>6, <2>3, LinesAre
  <2>6. got' = <<IF pull THEN {} ELSE {SdaPin}>>
    <3>1. (IF Wire THEN {SdaPin} ELSE {}) \cap {SdaPin} = IF pull THEN {} ELSE {SdaPin}
      BY <2>5
    <3> QED BY <2>2, <2>4, <3>1
  <2>7. Len(got') = 1
    BY <2>6
  <2>8. /\ Wired' /\ SclHigh' /\ (SdaHigh' <=> SdaHigh) /\ (SdaOut' <=> SdaOut)
        /\ CartSame /\ (~present => ~pull')
        /\ present => Settled
    BY <1>4, <1>6, <2>2, <2>3, Looks
  <2>9. present => /\ mode' = mode /\ bits' = bits /\ shift' = shift /\ ptr' = ptr
                   /\ pull' = pull
    BY <2>8 DEF Settled
  <2>10. Acking(m, v, 4)'
    BY <1>1, <1>4, <1>6, <1>7, <1>12, <2>3, <2>7, <2>8, <2>9 DEF Acking
  <2>11. /\ rom' = rom /\ busy' = busy /\ page' = page /\ (present => ptr' = ptr)
         /\ pull' => ~busy
         /\ present /\ mode' = "send" => ~busy
    BY <2>8, <2>9 DEF CartSame
  <2>12. got' = IF c = 3 THEN <<IF pull THEN {} ELSE {SdaPin}>> ELSE got
    BY <1>12, <2>6, Zenon
  <2>14. c # 4
    BY <1>12
  <2>13. todo' = Rest(send_byte(v), (3 * Width + c) + 1) \o t /\ Acking(m, v, c + 1)'
    BY <1>4, <1>12, <2>10 DEF r
  <2> QED BY <2>11, <2>12, <2>13, <2>14, Zenon
<1>13. CASE c = 4
  <2>1. (3 * Width + c) + 1 = 3 * Width + 5
    BY <1>1, <1>13
  <2>2. Set(Low({SclPin})) /\ got' = got
    BY <1>2, <1>4, <2>1, NoSample
  <2>3. SclHigh
    BY <1>6, <1>13
  <2>4. /\ Wired' /\ ~SclHigh' /\ (SdaHigh' <=> SdaHigh) /\ (SdaOut' <=> SdaOut)
        /\ ~present => CartSame /\ ~pull'
        /\ present => Falls
    BY <1>4, <1>6, <2>2, <2>3, Lowers
  <2> DEFINE Lines == /\ Wired' /\ ~SdaOut' /\ ~SclHigh' /\ SdaHigh' /\ Len(got') = 1
             Kind ==    \/ mode' = "deaf" /\ ~pull' /\ m = "ctl" /\ pc' = "polled"
                        \/ /\ mode' = NextMode(m, v) /\ bits' = 0 /\ shift' = 0
                           /\ IF mode' = "send" THEN Shows(ptr, 0)' ELSE ~pull'
  <2>8. Lines
    BY <1>6, <1>13, <2>2, <2>4
  <2>9. ASSUME present' => Kind PROVE Acking(m, v, 5)'
    <3>1. /\ 5 \in 2..5 /\ 5 \notin {3, 4} /\ (IF 5 >= 4 THEN 1 ELSE 0) = 1
          /\ 5 >= 5
      OBVIOUS
    <3> QED BY <2>8, <2>9, <3>1, Zenon DEF Acking
  <2> HIDE DEF Lines, Kind
  <2>5. CASE ~present
    <3>1. Acking(m, v, 5)'
      BY <1>4, <2>5, <2>9
    <3> QED BY <1>4, <1>13, <2>2, <2>4, <2>5, <3>1 DEF CartSame, r
  <2>6. CASE present /\ mode = "deaf"
    <3>1. ~Receiving
      BY <2>6 DEF Receiving
    <3>2. /\ rom' = rom /\ busy' = busy /\ page' = page
          /\ mode' = mode /\ ptr' = ptr /\ ~pull'
      BY <1>1, <1>5, <2>4, <2>6, <3>1, FallsDoes
    <3>3. m = "ctl" /\ pc = "polled"
      BY <1>5, <1>7, <1>13, <2>6
    <3>4. Acking(m, v, 5)'
      BY <1>4, <2>6, <2>9, <3>2, <3>3 DEF Kind
    <3> QED BY <1>4, <1>5, <1>13, <2>2, <2>6, <3>2, <3>4 DEF r
  <2>7. CASE present /\ mode = m
    <3>1. bits > Width /\ Receiving /\ shift = v /\ pull
      BY <1>1, <1>5, <1>7, <1>13, <2>7 DEF Receiving
    <3>2. Taken /\ rom' = rom /\ busy' = busy
      BY <1>1, <1>5, <2>4, <2>7, <3>1, FallsDoes
    <3>3. /\ mode' = NextMode(m, v) /\ bits' = 0 /\ shift' = 0
          /\ ptr' = CASE m = "hi" -> v
                      [] m = "lo" -> 2 ^ Width * ptr + v
                      [] m = "data" -> NextInPage(ptr % Size)
                      [] OTHER -> ptr
          /\ page' = IF m # "data" THEN page
                     ELSE [x \in DOMAIN page \cup {ptr % Size} |->
                              IF x = ptr % Size THEN v ELSE page[x]]
          /\ pull' = (mode' = "send" /\ Bit(rom[ptr' % Size], 1) = 0)
      BY <2>7, <3>1, <3>2, TakenDoes
    <3>4. IF mode' = "send" THEN Shows(ptr, 0)' ELSE ~pull'
      <4>1. 0 + 1 = 1
        OBVIOUS
      <4>2. CASE mode' = "send"
        <5>1. pull' = (Bit(rom'[ptr' % Size], 0 + 1) = 0)
          BY <3>2, <3>3, <4>1, <4>2, Zenon
        <5> QED BY <4>2, <5>1 DEF Shows
      <4>3. CASE mode' # "send"
        BY <3>3, <4>3, Zenon
      <4> QED BY <4>2, <4>3
    <3>5. mode' = NextMode(m, v) /\ bits' = 0 /\ shift' = 0
      BY <3>3
    <3>6. Acking(m, v, 5)'
      <4>1. Kind
        BY <3>4, <3>5, Zenon DEF Kind
      <4> QED BY <2>9, <4>1
    <3>7. ~busy
      BY <3>1
    <3> QED BY <1>4, <1>13, <2>2, <2>7, <3>2, <3>3, <3>6, <3>7 DEF r
  <2> QED BY <1>7, <1>13, <2>5, <2>6, <2>7
<1>14. CASE c = 5
  <2>1. (3 * Width + c) + 1 = 3 * Width + 6
    BY <1>1, <1>14, Z3
  <2>2. Set(Output) /\ got' = got
    BY <1>2, <1>4, <2>1, NoSample
  <2>3. /\ Wired' /\ ~SclHigh' /\ CartSame /\ (~present => ~pull')
        /\ present => Settled
        /\ SdaOut' /\ (SdaHigh' <=> SdaHigh)
    <3>1. ~SclHigh
      BY <1>6, <1>14
    <3> QED BY <1>4, <1>6, <2>2, <3>1, Quiets
  <2>4. present => /\ rom' = rom /\ mode' = mode /\ bits' = bits /\ shift' = shift
                   /\ ptr' = ptr /\ pull' = pull
    BY <2>3 DEF Settled
  <2>5. present => \/ mode' = "deaf" /\ ~pull' /\ m = "ctl" /\ pc' = "polled"
                   \/ /\ mode' = NextMode(m, v) /\ bits' = 0 /\ shift' = 0
                      /\ IF mode' = "send" THEN Shows(ptr, 0)' ELSE ~pull'
    <3>1. present => (Shows(ptr, 0)' <=> Shows(ptr, 0))
      BY <2>4 DEF Shows
    <3> QED BY <1>4, <1>7, <1>14, <2>4, <3>1
  <2>7. Wired' /\ SdaOut' /\ ~SclHigh' /\ SdaHigh' /\ Len(got') = 1
    BY <1>6, <1>14, <2>2, <2>3
  <2>6. Acking(m, v, 6)'
    <3>1. /\ 6 \notin 2..5 /\ 6 \notin {3, 4} /\ (IF 6 >= 4 THEN 1 ELSE 0) = 1
          /\ 6 >= 5
      OBVIOUS
    <3>2. present' => present
      BY <1>4
    <3> QED BY <2>5, <2>7, <3>1, <3>2, Zenon DEF Acking
  <2> QED BY <1>4, <1>14, <2>2, <2>3, <2>4, <2>6 DEF CartSame, r
<1>15. c \in {0, 1, 2, 3, 4, 5}
  OBVIOUS
<1> QED BY <1>9, <1>10, <1>11, <1>12, <1>13, <1>14, <1>15

-----------------------------------------------------------------------------
(* A byte received, from the first store to the last.                      *)
LEMMA TurningPin ==
  ASSUME CartTypeOK, Gone, CartPin, NEW t \in Seq(Op), NEW p \in Nat,
         NEW c \in 0..1, todo = Rest(recv_byte, c) \o t, Turning(p, c)
  PROVE  /\ todo' = Rest(recv_byte, c + 1) \o t
         /\ IF c = 0 THEN Turning(p, 1)' ELSE Showing(p, 0, 0)'
         /\ got' = got /\ CartSame
         /\ pull' \/ (present /\ mode' = "send") => present /\ mode = "send"
<1> DEFINE r == recv_byte
<1>1. Width \in 1..8
  BY ByteWidth
<1>2. /\ r \in Seq(Op) /\ Len(r) = 3 * Width + 3
      /\ r[1] = High({SdaPin}) /\ r[2] = Input
  BY ReceiveOps
<1> HIDE DEF r
<1>3. c \in 0..(Len(r) - 1)
  BY <1>1, <1>2
<1>4. /\ todo' = Rest(r, c + 1) \o t /\ Set(r[c + 1]) /\ CartReacts
      /\ present' = present /\ pc' = pc
      /\ r[c + 1].do # "sample" => got' = got
  <2>1. todo = Rest(r, c) \o t
    BY DEF r
  <2> QED BY <1>2, <1>3, <2>1, CartDoes
<1>5. Wired /\ SdaOut /\ ~SclHigh /\ (c = 1 => SdaHigh) /\ Samples(0)
      /\ (present => Deaf \/ (mode = "send" /\ bits = 0 /\ ptr = p /\ Shows(p, 0)))
  BY DEF Turning
<1>6. ASSUME present => Settled, present' = present, got' = got, pc' = pc
      PROVE  /\ Samples(0)'
             /\ present' => \/ Deaf'
                            \/ mode' = "send" /\ bits' = 0 /\ ptr' = p /\ Shows(p, 0)'
             /\ present => mode' = mode /\ pull' = pull
  <2>1. Samples(0)'
    BY <1>5, <1>6 DEF Samples
  <2>2. Deaf /\ present => Deaf'
    BY <1>6 DEF Deaf, Settled
  <2>3. Shows(p, 0) /\ present => Shows(p, 0)'
    BY <1>6 DEF Shows, Settled
  <2>4. present => mode' = mode /\ bits' = bits /\ ptr' = ptr /\ pull' = pull
    BY <1>6 DEF Settled
  <2> QED BY <1>5, <1>6, <2>1, <2>2, <2>3, <2>4
<1>7. present /\ pull => mode = "send"
  BY <1>5 DEF Deaf
<1>8. CASE c = 0
  <2>1. Set(High({SdaPin})) /\ got' = got
    BY <1>2, <1>4, <1>8, NoSample
  <2>2. /\ Wired' /\ ~SclHigh' /\ CartSame /\ (~present => ~pull')
        /\ present => Settled
        /\ SdaHigh' /\ (SdaOut' <=> SdaOut)
    BY <1>4, <1>5, <2>1, Quiets
  <2>3. Turning(p, 1)'
    BY <1>4, <1>5, <1>6, <2>1, <2>2 DEF Turning
  <2> QED BY <1>4, <1>6, <1>7, <1>8, <2>1, <2>2, <2>3 DEF r
<1>9. CASE c = 1
  <2>1. Set(Input) /\ got' = got
    BY <1>2, <1>4, <1>9, NoSample
  <2>2. /\ Wired' /\ ~SclHigh' /\ CartSame /\ (~present => ~pull')
        /\ present => Settled
        /\ ~SdaOut' /\ (SdaHigh' <=> SdaHigh)
    BY <1>4, <1>5, <2>1, Quiets
  <2>3. Showing(p, 0, 0)'
    BY <1>4, <1>5, <1>6, <1>9, <2>1, <2>2 DEF Showing
  <2> QED BY <1>4, <1>6, <1>7, <1>9, <2>1, <2>2, <2>3 DEF r
<1> QED BY <1>8, <1>9

(* A store of a byte read: its bits are shown one by one.                  *)
LEMMA ShowingPin ==
  ASSUME CartTypeOK, Gone, CartPin, NEW t \in Seq(Op), NEW p \in Nat,
         NEW j \in 0..(Width - 1), NEW c \in 0..2,
         todo = Rest(recv_byte, 2 + 3 * j + c) \o t, Showing(p, j, c)
  PROVE  /\ todo' = Rest(recv_byte, (2 + 3 * j + c) + 1) \o t
         /\ c < 2 => Showing(p, j, c + 1)'
         /\ c = 2 /\ j < Width - 1 => Showing(p, j + 1, 0)'
         /\ c = 2 /\ j = Width - 1 => Shown(p, 0)'
         /\ got' = (IF c = 1 THEN Append(got, IF pull THEN {} ELSE {SdaPin}) ELSE got)
         /\ CartSame
         /\ pull' \/ (present /\ mode' = "send") => present /\ mode = "send"
<1> DEFINE r == recv_byte
<1>1. Width \in 1..8
  BY ByteWidth
<1>2. /\ r \in Seq(Op) /\ Len(r) = 3 * Width + 3
      /\ r[3 * j + 3] = High({SclPin}) /\ r[3 * j + 4] = Sample({SdaPin})
      /\ r[3 * j + 5] = Low({SclPin})
  BY ReceiveOps
<1> HIDE DEF r
<1>3. 2 + 3 * j + c \in 0..(Len(r) - 1)
  BY <1>1, <1>2
<1>4. /\ todo' = Rest(r, (2 + 3 * j + c) + 1) \o t /\ Set(r[(2 + 3 * j + c) + 1])
      /\ CartReacts /\ present' = present /\ pc' = pc
      /\ got' = IF r[(2 + 3 * j + c) + 1].do = "sample"
                THEN Append(got, (IF Wire THEN {SdaPin} ELSE {})
                                 \cap r[(2 + 3 * j + c) + 1].pins)
                ELSE got
  <2>1. todo = Rest(r, 2 + 3 * j + c) \o t
    BY DEF r
  <2> QED BY <1>2, <1>3, <2>1, CartDoes
<1>5. /\ Wired /\ ~SdaOut /\ SdaHigh /\ (SclHigh <=> c # 0)
      /\ Samples(IF c = 2 THEN j + 1 ELSE j)
      /\ present => Deaf \/ /\ mode = "send" /\ ptr = p /\ Shows(p, j)
                            /\ bits = IF c # 0 THEN j + 1 ELSE j
  BY DEF Showing
<1>6. present /\ (pull \/ mode = "send") => mode = "send" /\ ~Deaf
  BY <1>5 DEF Deaf
<1>7. bits \in Nat /\ mode \in Modes /\ busy \in BOOLEAN /\ Len(got) \in Nat
  BY LenProperties DEF CartTypeOK
<1>8. CASE c = 0
  <2>1. (2 + 3 * j + c) + 1 = 3 * j + 3
    BY <1>8
  <2>2. Set(High({SclPin})) /\ got' = got
    BY <1>2, <1>4, <2>1, NoSample
  <2>3. /\ Wired' /\ SclHigh' /\ (SdaHigh' <=> SdaHigh) /\ (SdaOut' <=> SdaOut)
        /\ CartSame /\ (~present => ~pull')
        /\ present => Rises((SdaOut => SdaHigh) /\ ~pull)
    <3>1. ~SclHigh
      BY <1>5, <1>8
    <3> QED BY <1>4, <1>5, <2>2, <3>1, Raises
  <2>4. present => /\ rom' = rom /\ ptr' = ptr /\ pull' = pull
                   /\ mode = "deaf" => mode' = "deaf"
                   /\ mode = "send" => mode' = "send" /\ bits' = j + 1
    <3>1. mode = "send" /\ present => bits = j /\ bits # Width
      BY <1>1, <1>5, <1>8 DEF Deaf
    <3> QED BY <1>1, <2>3, <3>1 DEF Rises
  <2>5. Samples(j)'
    BY <1>4, <1>5, <1>8, <2>2 DEF Samples
  <2>6. present /\ Deaf => Deaf'
    BY <1>4, <2>4 DEF Deaf
  <2>7. present /\ Shows(p, j) => Shows(p, j)'
    BY <2>4 DEF Shows
  <2>8. present' => Deaf' \/ /\ mode' = "send" /\ ptr' = p /\ Shows(p, j)'
                             /\ bits' = j + 1
    BY <1>4, <1>5, <2>4, <2>6, <2>7
  <2>9. Showing(p, j, 1)'
    BY <1>5, <2>3, <2>5, <2>8 DEF Showing
  <2>10. present => mode' = mode
    BY <1>5, <2>4 DEF Deaf
  <2> QED BY <1>4, <1>6, <1>8, <2>2, <2>3, <2>4, <2>9, <2>10 DEF r
<1>9. CASE c = 1
  <2>1. (2 + 3 * j + c) + 1 = 3 * j + 4
    BY <1>9
  <2>2. /\ Set(Sample({SdaPin}))
        /\ got' = Append(got, (IF Wire THEN {SdaPin} ELSE {}) \cap {SdaPin})
    BY <1>2, <1>4, <2>1, NoSample
  <2>3. Wire <=> ~pull
    BY <1>5, LinesAre
  <2>4. got' = Append(got, IF pull THEN {} ELSE {SdaPin})
    <3>1. (IF Wire THEN {SdaPin} ELSE {}) \cap {SdaPin} = IF pull THEN {} ELSE {SdaPin}
      BY <2>3
    <3> QED BY <2>2, <3>1
  <2>5. Len(got') = Len(got) + 1
    <3>1. got \in Seq(SUBSET {SdaPin}) /\ (IF pull THEN {} ELSE {SdaPin}) \in SUBSET {SdaPin}
      BY DEF CartTypeOK
    <3> QED BY <2>4, <3>1
  <2>6. /\ Wired' /\ SclHigh' /\ (SdaHigh' <=> SdaHigh) /\ (SdaOut' <=> SdaOut)
        /\ CartSame /\ (~present => ~pull')
        /\ present => Settled
    <3>1. SclHigh
      BY <1>5, <1>9
    <3> QED BY <1>4, <1>5, <2>2, <3>1, Looks
  <2>7. present => /\ rom' = rom /\ ptr' = ptr /\ pull' = pull
                   /\ mode' = mode /\ bits' = bits
    BY <2>6 DEF Settled
  <2>8. Samples(j + 1)'
    BY <1>4, <1>5, <1>7, <1>9, <2>5 DEF Samples
  <2>9. present /\ Deaf => Deaf'
    BY <1>4, <2>7 DEF Deaf
  <2>10. present /\ Shows(p, j) => Shows(p, j)'
    BY <2>7 DEF Shows
  <2>11. present' => Deaf' \/ /\ mode' = "send" /\ ptr' = p /\ Shows(p, j)'
                              /\ bits' = j + 1
    BY <1>4, <1>5, <1>9, <2>7, <2>9, <2>10
  <2>12. Showing(p, j, 2)'
    BY <1>5, <2>6, <2>8, <2>11 DEF Showing
  <2>13. got' = (IF c = 1 THEN Append(got, IF pull THEN {} ELSE {SdaPin}) ELSE got)
    BY <1>9, <2>4, Zenon
  <2>14. pull' \/ (present /\ mode' = "send") => present /\ mode = "send"
    BY <1>4, <1>6, <2>6, <2>7
  <2>15. /\ todo' = Rest(recv_byte, (2 + 3 * j + c) + 1) \o t
         /\ c < 2 => Showing(p, j, c + 1)'
         /\ c # 2
    BY <1>4, <1>9, <2>12 DEF r
  <2> QED BY <2>6, <2>13, <2>14, <2>15, Zenon
<1>10. CASE c = 2
  <2>1. (2 + 3 * j + c) + 1 = 3 * j + 5
    BY <1>10
  <2>2. Set(Low({SclPin})) /\ got' = got
    BY <1>2, <1>4, <2>1, NoSample
  <2>3. /\ Wired' /\ ~SclHigh' /\ (SdaHigh' <=> SdaHigh) /\ (SdaOut' <=> SdaOut)
        /\ ~present => CartSame /\ ~pull'
        /\ present => Falls
    <3>1. SclHigh
      BY <1>5, <1>10
    <3> QED BY <1>4, <1>5, <2>2, <3>1, Lowers
  <2>4. Samples(j + 1)'
    BY <1>4, <1>5, <1>10, <2>2 DEF Samples
  <2>5. ASSUME present' => Deaf' \/ /\ mode' = "send" /\ ptr' = p /\ Shows(p, j + 1)'
                                    /\ bits' = j + 1
        PROVE  Showing(p, j + 1, 0)'
    BY <1>5, <2>3, <2>4, <2>5 DEF Showing
  <2>6. ASSUME present' => Deaf' \/ /\ mode' = "send" /\ bits' = Width
                                    /\ ptr' = p + 1 /\ ~pull',
               j = Width - 1
        PROVE  Shown(p, 0)'
    <3>1. j + 1 = Width
      BY <1>1, <2>6
    <3> QED BY <1>5, <2>3, <2>4, <2>6, <3>1 DEF Shown
  <2>7. CASE ~present
    <3>1. CartSame /\ ~pull' /\ ~present'
      BY <1>4, <2>3, <2>7
    <3> QED BY <1>4, <1>10, <2>2, <2>5, <2>6, <2>7, <3>1 DEF r
  <2>8. CASE present /\ Deaf
    <3>1. mode = "deaf" /\ ~Receiving
      BY <2>8 DEF Deaf, Receiving
    <3>2. /\ rom' = rom /\ busy' = busy /\ page' = page /\ mode' = mode /\ ~pull'
      BY <1>1, <1>7, <2>3, <2>8, <3>1, FallsDoes
    <3>3. Deaf'
      BY <1>4, <2>8, <3>1, <3>2 DEF Deaf
    <3> QED BY <1>4, <1>10, <2>2, <2>5, <2>6, <2>8, <3>1, <3>2, <3>3 DEF r, CartSame
  <2>9. CASE present /\ ~Deaf
    <3>1. mode = "send" /\ ptr = p /\ bits = j + 1 /\ ~Receiving
      BY <1>5, <1>10, <2>9 DEF Receiving
    <3>2. rom' = rom /\ busy' = busy /\ page' = page
      BY <1>1, <1>7, <2>3, <2>9, <3>1, FallsDoes
    <3>3. CASE j < Width - 1
      <4>1. bits < Width
        BY <1>1, <3>1, <3>3
      <4>2. /\ mode' = mode /\ bits' = bits /\ ptr' = ptr
            /\ pull' = (Bit(rom[ptr % Size], bits + 1) = 0)
        BY <1>1, <1>7, <2>3, <2>9, <3>1, <4>1, FallsDoes
      <4>3. pull' = (Bit(rom'[p % Size], (j + 1) + 1) = 0)
        BY <3>1, <3>2, <4>2, Zenon
      <4>4. Shows(p, j + 1)'
        BY <4>3 DEF Shows
      <4>5. Showing(p, j + 1, 0)'
        BY <2>5, <3>1, <4>2, <4>4
      <4>6. ~(j = Width - 1)
        BY <1>1, <3>3
      <4> QED BY <1>4, <1>10, <2>2, <2>9, <3>1, <3>2, <4>5, <4>6 DEF r, CartSame
    <3>4. CASE j = Width - 1
      <4>1. bits = Width
        BY <1>1, <3>1, <3>4
      <4>2. mode' = mode /\ bits' = bits /\ ptr' = ptr + 1 /\ ~pull'
        BY <1>1, <1>7, <2>3, <2>9, <3>1, <4>1, FallsDoes
      <4>3. Shown(p, 0)'
        BY <2>6, <3>1, <3>4, <4>1, <4>2
      <4>4. ~(j < Width - 1)
        BY <1>1, <3>4
      <4> QED BY <1>4, <1>10, <2>2, <2>9, <3>1, <3>2, <4>3, <4>4 DEF r, CartSame
    <3> QED BY <1>1, <3>3, <3>4
  <2> QED BY <2>7, <2>8, <2>9
<1>11. c = 0 \/ c = 1 \/ c = 2
  OBVIOUS
<1> QED BY <1>8, <1>9, <1>10, <1>11, Zenon

(* A store of the acknowledge of a byte read.                              *)
LEMMA ShownPin ==
  ASSUME CartTypeOK, Gone, CartPin, NEW t \in Seq(Op), NEW p \in Nat,
         todo = Rest(recv_byte, 2 + 3 * Width) \o t, Shown(p, 0)
  PROVE  /\ todo' = t /\ todo' = Rest(recv_byte, 2 + 3 * Width + 1) \o t
         /\ Shown(p, 1)' /\ got' = got /\ CartSame
         /\ pull' \/ (present /\ mode' = "send") => present /\ mode = "send"
<1> DEFINE r == recv_byte
           k == 2 + 3 * Width
<1>1. k \in Nat /\ k + 1 = 3 * Width + 3
  BY ByteWidth
<1>2. r \in Seq(Op) /\ Len(r) = k + 1 /\ r[k + 1] = Output
  BY <1>1, ReceiveOps
<1>3. todo = Rest(r, k) \o t
  OBVIOUS
<1> HIDE DEF r, k
<1>4. k \in 0..(Len(r) - 1) /\ k + 1 \in 0..Len(r)
  BY <1>1, <1>2
<1>5. /\ todo' = Rest(r, k + 1) \o t /\ Set(Output) /\ CartReacts
      /\ present' = present /\ pc' = pc /\ got' = got
  <2>1. /\ todo' = Rest(r, k + 1) \o t /\ Set(r[k + 1]) /\ CartReacts
        /\ present' = present /\ pc' = pc
        /\ r[k + 1].do # "sample" => got' = got
    BY <1>2, <1>3, <1>4, CartDoes
  <2> QED BY <1>2, <2>1, NoSample
<1>6. todo' = t
  BY <1>2, <1>4, <1>5, ThenStep
<1>7. /\ Wired /\ SdaHigh /\ ~SclHigh /\ Samples(Width)
      /\ present => Deaf \/ (mode = "send" /\ bits = Width /\ ptr = p + 1 /\ ~pull)
  BY DEF Shown
<1>8. /\ Wired' /\ ~SclHigh' /\ CartSame /\ (~present => ~pull')
      /\ present => Settled
      /\ SdaOut' /\ (SdaHigh' <=> SdaHigh)
  BY <1>5, <1>7, Quiets
<1>9. present => /\ mode' = mode /\ bits' = bits /\ ptr' = ptr /\ pull' = pull
  BY <1>8 DEF Settled
<1>10. Samples(Width)'
  BY <1>5, <1>7 DEF Samples
<1>11. present /\ Deaf => Deaf'
  BY <1>5, <1>9 DEF Deaf
<1>12. Shown(p, 1)'
  BY <1>5, <1>7, <1>8, <1>9, <1>10, <1>11 DEF Shown
<1>13. pull' \/ (present /\ mode' = "send") => present /\ mode = "send"
  BY <1>7, <1>8, <1>9 DEF Deaf
<1> QED BY <1>5, <1>6, <1>8, <1>12, <1>13 DEF r, k

-----------------------------------------------------------------------------
(* What the program answers to a byte received.                            *)
LEMMA AckPin ==
  ASSUME CartTypeOK, Gone, CartPin, NEW t \in Seq(Op), NEW p \in Nat,
         NEW k \in 0..2, todo = Rest(send_ack, k) \o t, AckPlace(p, k)
  PROVE  /\ todo' = Rest(send_ack, k + 1) \o t /\ AckPlace(p, k + 1)'
         /\ got' = got /\ CartSame
         /\ pull' => present /\ mode = "send"
<1>1. k \in 0..(Len(send_ack) - 1) /\ Width \in 1..8 /\ bits \in Nat /\ mode \in Modes
  BY AckOps, ByteWidth DEF CartTypeOK
<1>2. /\ todo' = Rest(send_ack, k + 1) \o t /\ Set(send_ack[k + 1]) /\ CartReacts
      /\ present' = present /\ pc' = pc
      /\ send_ack[k + 1].do # "sample" => got' = got
  BY <1>1, CartDoes, AckOps
<1>3. /\ Wired /\ SdaOut /\ (SclHigh <=> k = 2) /\ Samples(Width)
      /\ k >= 1 => ~SdaHigh
      /\ present => /\ mode = "send" /\ ptr = p /\ ~pull
                    /\ bits = IF k = 2 THEN Width + 1 ELSE Width
  BY DEF AckPlace
<1>4. CASE k = 0
  <2>1. Set(Low({SdaPin})) /\ got' = got
    BY <1>2, <1>4, AckOps, NoSample
  <2>2. /\ Wired' /\ ~SclHigh' /\ CartSame /\ (~present => ~pull')
        /\ present => Settled
        /\ ~SdaHigh' /\ (SdaOut' <=> SdaOut)
    <3>1. ~SclHigh
      BY <1>3, <1>4
    <3> QED BY <1>2, <1>3, <2>1, <3>1, Quiets
  <2>3. present => mode' = mode /\ ptr' = ptr /\ bits' = bits /\ pull' = pull
    BY <2>2 DEF Settled
  <2>4. Samples(Width)'
    BY <1>2, <1>3, <2>1 DEF Samples
  <2>5. AckPlace(p, 1)'
    BY <1>2, <1>3, <1>4, <2>2, <2>3, <2>4 DEF AckPlace
  <2> QED BY <1>2, <1>3, <1>4, <2>1, <2>2, <2>3, <2>5
<1>5. CASE k = 1
  <2>1. Set(High({SclPin})) /\ got' = got
    BY <1>2, <1>5, AckOps, NoSample
  <2>2. /\ Wired' /\ SclHigh' /\ (SdaHigh' <=> SdaHigh) /\ (SdaOut' <=> SdaOut)
        /\ CartSame /\ (~present => ~pull')
        /\ present => Rises((SdaOut => SdaHigh) /\ ~pull)
    BY <1>2, <1>3, <1>5, <2>1, Raises
  <2>3. present => mode' = mode /\ ptr' = ptr /\ bits' = Width + 1 /\ pull' = pull
    BY <1>3, <1>5, <2>2 DEF Rises
  <2>4. Samples(Width)'
    BY <1>2, <1>3, <2>1 DEF Samples
  <2>5. AckPlace(p, 2)'
    BY <1>2, <1>3, <1>5, <2>2, <2>3, <2>4 DEF AckPlace
  <2> QED BY <1>2, <1>3, <1>5, <2>1, <2>2, <2>3, <2>5
<1>6. CASE k = 2
  <2>1. Set(Low({SclPin})) /\ got' = got
    BY <1>2, <1>6, AckOps, NoSample
  <2>2. /\ Wired' /\ ~SclHigh' /\ (SdaHigh' <=> SdaHigh) /\ (SdaOut' <=> SdaOut)
        /\ ~present => CartSame /\ ~pull'
        /\ present => Falls
    BY <1>2, <1>3, <1>6, <2>1, Lowers
  <2>3. present => /\ mode = "send" /\ bits > Width /\ ~Receiving
    BY <1>1, <1>3, <1>6 DEF Receiving
  <2>4. present => /\ rom' = rom /\ page' = page /\ busy' = busy
                   /\ mode' = mode /\ ptr' = ptr /\ bits' = 0
                   /\ pull' = (Bit(rom[ptr % Size], 1) = 0)
    BY <1>1, <2>2, <2>3, FallsDoes
  <2>5. present => Shows(p, 0)'
    <3>1. 0 + 1 = 1
      OBVIOUS
    <3>2. present => pull' = (Bit(rom'[p % Size], 0 + 1) = 0)
      BY <1>3, <2>4, <3>1, Zenon
    <3> QED BY <3>2 DEF Shows
  <2>6. Samples(Width)'
    BY <1>2, <1>3, <2>1 DEF Samples
  <2>7. AckPlace(p, 3)'
    BY <1>2, <1>3, <1>6, <2>2, <2>4, <2>5, <2>6 DEF AckPlace
  <2> QED BY <1>2, <1>3, <1>6, <2>1, <2>2, <2>4, <2>7 DEF CartSame
<1> QED BY <1>4, <1>5, <1>6

(* A store of the refusal that ends a read.                                *)
LEMMA NakPin ==
  ASSUME CartTypeOK, Gone, CartPin, NEW t \in Seq(Op),
         NEW k \in 0..2, todo = Rest(send_nak, k) \o t, NakPlace(k)
  PROVE  /\ todo' = Rest(send_nak, k + 1) \o t /\ NakPlace(k + 1)'
         /\ got' = got /\ CartSame /\ ~pull'
         /\ present /\ mode' = "send" => mode = "send"
<1>1. k \in 0..(Len(send_nak) - 1) /\ Width \in 1..8 /\ bits \in Nat /\ mode \in Modes
  BY NakOps, ByteWidth DEF CartTypeOK
<1>2. /\ todo' = Rest(send_nak, k + 1) \o t /\ Set(send_nak[k + 1]) /\ CartReacts
      /\ present' = present /\ pc' = pc
      /\ send_nak[k + 1].do # "sample" => got' = got
  BY <1>1, CartDoes, NakOps
<1>3. /\ Wired /\ SdaOut /\ ~pull /\ (SclHigh <=> k = 2) /\ Samples(Width)
      /\ k >= 1 => SdaHigh
      /\ present => mode = "deaf" \/ (k < 2 /\ mode = "send" /\ bits = Width)
  BY DEF NakPlace, Deaf
<1>4. Deaf /\ present => pc = "polled" /\ mode = "deaf"
  BY DEF Deaf
<1>5. CASE k = 0
  <2>1. Set(High({SdaPin})) /\ got' = got
    BY <1>2, <1>5, NakOps, NoSample
  <2>2. /\ Wired' /\ ~SclHigh' /\ CartSame /\ (~present => ~pull')
        /\ present => Settled
        /\ SdaHigh' /\ (SdaOut' <=> SdaOut)
    <3>1. ~SclHigh
      BY <1>3, <1>5
    <3> QED BY <1>2, <1>3, <2>1, <3>1, Quiets
  <2>3. present => mode' = mode /\ bits' = bits /\ pull' = pull
    BY <2>2 DEF Settled
  <2>4. Samples(Width)'
    BY <1>2, <1>3, <2>1 DEF Samples
  <2>5. present => Deaf' \/ (mode' = "send" /\ bits' = Width)
    BY <1>2, <1>3, <1>5, <2>3 DEF NakPlace, Deaf
  <2>6. NakPlace(1)'
    BY <1>2, <1>3, <2>2, <2>3, <2>4, <2>5 DEF NakPlace
  <2> QED BY <1>2, <1>3, <1>5, <2>1, <2>2, <2>3, <2>6
<1>6. CASE k = 1
  <2>1. Set(High({SclPin})) /\ got' = got
    BY <1>2, <1>6, NakOps, NoSample
  <2>2. /\ Wired' /\ SclHigh' /\ (SdaHigh' <=> SdaHigh) /\ (SdaOut' <=> SdaOut)
        /\ CartSame /\ (~present => ~pull')
        /\ present => Rises((SdaOut => SdaHigh) /\ ~pull)
    BY <1>2, <1>3, <1>6, <2>1, Raises
  <2>3. present => mode' = "deaf" /\ pull' = pull
    BY <1>3, <1>6, <2>2 DEF Rises
  <2>4. Samples(Width)'
    BY <1>2, <1>3, <2>1 DEF Samples
  <2>5. NakPlace(2)'
    BY <1>2, <1>3, <1>6, <2>2, <2>3, <2>4 DEF NakPlace
  <2> QED BY <1>2, <1>3, <1>6, <2>1, <2>2, <2>3, <2>5
<1>7. CASE k = 2
  <2>1. Set(Low({SclPin})) /\ got' = got
    BY <1>2, <1>7, NakOps, NoSample
  <2>2. /\ Wired' /\ ~SclHigh' /\ (SdaHigh' <=> SdaHigh) /\ (SdaOut' <=> SdaOut)
        /\ ~present => CartSame /\ ~pull'
        /\ present => Falls
    BY <1>2, <1>3, <1>7, <2>1, Lowers
  <2>3. present => mode = "deaf" /\ ~Receiving
    BY <1>3, <1>7 DEF Receiving
  <2>4. present => /\ rom' = rom /\ page' = page /\ busy' = busy
                   /\ mode' = mode /\ ~pull'
    BY <1>1, <2>2, <2>3, FallsDoes
  <2>5. Samples(Width)'
    BY <1>2, <1>3, <2>1 DEF Samples
  <2>6. NakPlace(3)'
    BY <1>2, <1>3, <1>7, <2>2, <2>3, <2>4, <2>5 DEF NakPlace
  <2> QED BY <1>2, <1>7, <2>1, <2>2, <2>3, <2>4, <2>6 DEF CartSame
<1> QED BY <1>5, <1>6, <1>7

-----------------------------------------------------------------------------
(* The power.                                                              *)
LEMMA PowerPin ==
  ASSUME CartTypeOK, Gone, CartPin, NEW t \in Seq(Op),
         NEW k \in 0..6, todo = Rest(PowerOn, k) \o t, Powering(k)
  PROVE  /\ todo' = Rest(PowerOn, k + 1) \o t /\ Powering(k + 1)'
         /\ got' = got /\ (CartSame \/ PowerLost) /\ (k >= 2 => CartSame)
<1>1. k \in 0..(Len(PowerOn) - 1)
  BY PowerOps
<1>2. /\ todo' = Rest(PowerOn, k + 1) \o t /\ Set(PowerOn[k + 1]) /\ CartReacts
      /\ present' = present
      /\ PowerOn[k + 1].do # "sample" => got' = got
  BY <1>1, CartDoes, PowerOps
<1>3. ~Powered' => PowerLost
  BY <1>2 DEF CartReacts
<1>4. CASE k = 0
  <2>1. Set(Function({VccPin}, FuncOutput)) /\ got' = got
    BY <1>2, <1>4, PowerOps, NoSample
  <2>2. /\ functions' = [p \in GpioPins |-> IF p \in {VccPin} THEN FuncOutput ELSE functions[p]]
        /\ latch' = latch
    BY <2>1, DoesFunction
  <2>3. functions'[VccPin] = FuncOutput /\ (Scl' <=> Scl) /\ (Driven(SdaPin)' <=> Driven(SdaPin))
    BY <2>2, Wires DEF Scl, Driven, Drives
  <2>4. Powered' => CartSame
    BY <1>2, <2>3 DEF CartReacts, CartSame, Wire
  <2>5. Powering(1)'
    BY <2>3 DEF Powering
  <2> QED BY <1>2, <1>3, <1>4, <2>1, <2>4, <2>5
<1>5. CASE k = 1
  <2>1. Set(Low({VccPin})) /\ got' = got
    BY <1>2, <1>5, PowerOps, NoSample
  <2>2. functions' = functions /\ latch' = latch \ {VccPin}
    BY <2>1, DoesLow DEF CartTypeOK
  <2>3. ~Powered'
    BY <2>2 DEF Powered, Driven, Drives
  <2>4. PowerLost /\ Clean' /\ ~pull'
    BY <1>3, <2>3 DEF PowerLost, Clean, None
  <2>5. Powering(2)'
    BY <1>5, <2>2, <2>4 DEF Powering
  <2> QED BY <1>2, <1>5, <2>1, <2>4, <2>5
<1>6. ASSUME k \in 2..5, functions'[VccPin] = FuncOutput, VccPin \notin latch'
      PROVE  Clean' /\ ~pull' /\ CartSame
  <2>1. ~Powered'
    BY <1>6 DEF Powered, Driven, Drives
  <2>2. Clean
    BY <1>6 DEF Powering
  <2> QED BY <1>3, <2>1, <2>2, PowerGone DEF Clean, None
<1>7. k \in 2..5 => functions[VccPin] = FuncOutput /\ VccPin \notin latch
  BY DEF Powering
<1>8. CASE k = 2
  <2>1. Set(Function({SclPin}, FuncOutput)) /\ got' = got
    BY <1>2, <1>8, PowerOps, NoSample
  <2>2. /\ functions' = [p \in GpioPins |-> IF p \in {SclPin} THEN FuncOutput ELSE functions[p]]
        /\ latch' = latch
    BY <2>1, DoesFunction
  <2>3. functions'[VccPin] = FuncOutput /\ functions'[SclPin] = FuncOutput
    BY <1>7, <1>8, <2>2, Wires
  <2>4. Clean' /\ ~pull' /\ CartSame
    BY <1>6, <1>7, <1>8, <2>2, <2>3
  <2>5. Powering(3)'
    BY <1>7, <1>8, <2>2, <2>3, <2>4 DEF Powering
  <2> QED BY <1>2, <1>8, <2>1, <2>4, <2>5
<1>9. CASE k = 3
  <2>1. Set(High({SclPin})) /\ got' = got
    BY <1>2, <1>9, PowerOps, NoSample
  <2>2. functions' = functions /\ latch' = latch \cup {SclPin}
    BY <2>1, DoesHigh DEF CartTypeOK
  <2>3. VccPin \notin latch' /\ SclHigh'
    BY <1>7, <1>9, <2>2, Wires DEF SclHigh
  <2>4. Clean' /\ ~pull' /\ CartSame
    BY <1>6, <1>7, <1>9, <2>2, <2>3
  <2>5. Powering(4)'
    BY <1>7, <1>9, <2>2, <2>3, <2>4 DEF Powering
  <2> QED BY <1>2, <1>9, <2>1, <2>4, <2>5
<1>10. CASE k = 4
  <2>1. Set(Output) /\ got' = got
    BY <1>2, <1>10, PowerOps, NoSample
  <2>2. /\ functions' = [p \in GpioPins |-> IF p \in {SdaPin} THEN FuncOutput ELSE functions[p]]
        /\ latch' = latch
    BY <2>1, DoesFunction DEF Output
  <2>3. /\ functions'[VccPin] = FuncOutput /\ functions'[SclPin] = functions[SclPin]
        /\ functions'[SdaPin] = FuncOutput
    BY <1>7, <1>10, <2>2, Wires
  <2>4. Clean' /\ ~pull' /\ CartSame
    BY <1>6, <1>7, <1>10, <2>2, <2>3
  <2>5. Powering(5)'
    BY <1>7, <1>10, <2>2, <2>3, <2>4 DEF Powering, SclHigh, SdaOut
  <2> QED BY <1>2, <1>10, <2>1, <2>4, <2>5
<1>11. CASE k = 5
  <2>1. Set(High({SdaPin})) /\ got' = got
    BY <1>2, <1>11, PowerOps, NoSample
  <2>2. functions' = functions /\ latch' = latch \cup {SdaPin}
    BY <2>1, DoesHigh DEF CartTypeOK
  <2>3. VccPin \notin latch' /\ SdaHigh' /\ (SclHigh => SclHigh') /\ (SdaOut => SdaOut')
    BY <1>7, <1>11, <2>2, Wires DEF SdaHigh, SclHigh, SdaOut
  <2>4. Clean' /\ ~pull' /\ CartSame
    BY <1>6, <1>7, <1>11, <2>2, <2>3
  <2>5. Powering(6)'
    BY <1>7, <1>11, <2>2, <2>3, <2>4 DEF Powering
  <2> QED BY <1>2, <1>11, <2>1, <2>4, <2>5
<1>12. CASE k = 6
  <2>1. Set(High({SclPin, SdaPin, VccPin})) /\ got' = got
    BY <1>2, <1>12, PowerOps, NoSample
  <2>2. functions' = functions /\ latch' = latch \cup {SclPin, SdaPin, VccPin}
    BY <2>1, DoesHigh DEF CartTypeOK
  <2>3. /\ functions[VccPin] = FuncOutput /\ functions[SclPin] = FuncOutput
        /\ Clean /\ ~pull /\ SclHigh /\ SdaOut /\ SdaHigh
    BY <1>12 DEF Powering
  <2>4. /\ Scl /\ Scl' /\ Driven(SdaPin) /\ Driven(SdaPin)' /\ Wire
    BY <2>2, <2>3 DEF Scl, Driven, Drives, SclHigh, SdaOut, SdaHigh, Wire
  <2>5. CartSame /\ ~pull'
    <3>1. CASE Powered'
      BY <1>2, <2>3, <2>4, <3>1 DEF CartReacts, CartSame
    <3>2. CASE ~Powered'
      BY <1>3, <2>3, <3>2, PowerGone
    <3> QED BY <3>1, <3>2
  <2>6. Clean'
    BY <2>3, <2>5 DEF CartSame, Clean, None
  <2>7. Powering(7)'
    BY <2>2, <2>3, <2>5, <2>6 DEF Powering, SclHigh, SdaHigh, SdaOut
  <2> QED BY <1>2, <1>12, <2>1, <2>5, <2>7
<1>13. k \in {0, 1, 2, 3, 4, 5, 6}
  OBVIOUS
<1> QED BY <1>4, <1>5, <1>8, <1>9, <1>10, <1>11, <1>12, <1>13

-----------------------------------------------------------------------------
(* A store of the program's end.                                           *)
LEMMA LeavePin ==
  ASSUME CartTypeOK, Gone, CartPin,
         NEW k \in 0..7, todo = Rest(Leave, k), Parting(k)
  PROVE  /\ todo' = Rest(Leave, k + 1) /\ Parting(k + 1)' /\ got' = got
         /\ PowerLost \/ (rom' = rom /\ (page' = page \/ (page' = None /\ ~busy)))
         /\ Clean => CartSame
<1>1. k \in 0..Len(Leave) /\ k < Len(Leave) /\ Leave \in Seq(Op) /\ k \in 0..(Len(Leave) - 1)
  BY LeaveOps
<1>2. /\ todo' = Rest(Leave, k + 1) /\ Set(Leave[k + 1]) /\ CartReacts
      /\ present' = present
      /\ Leave[k + 1].do # "sample" => got' = got
  <2>1. Head(todo) = Leave[k + 1] /\ Tail(todo) = Rest(Leave, k + 1)
    BY <1>1, RestStep
  <2> QED BY <2>1 DEF CartPin, Do
<1>3. ~Powered' => PowerLost
  BY <1>2 DEF CartReacts
<1>4. PowerLost /\ Clean => CartSame
  BY PowerGone
<1>5. PinTypeOK /\ page = [c \in DOMAIN page |-> page[c]]
  BY DEF CartTypeOK
<1>6. CASE k = 0
  <2>1. Set(Low({SclPin, SdaPin})) /\ got' = got
    BY <1>2, <1>6, LeaveOps, NoSample
  <2>2. Wired /\ SdaOut /\ functions[SclPin] = FuncOutput
        /\ (SclHigh /\ present => mode = "idle")
    BY <1>6 DEF Parting
  <2>3. Wired' /\ ~SdaHigh' /\ ~SclHigh' /\ (SdaOut' <=> SdaOut)
    BY <1>5, <2>1, <2>2, LineSets
  <2>4. CASE ~present
    <3>1. CartSame
      BY <1>2, <2>2, <2>3, <2>4, Reaction
    <3> QED BY <1>2, <1>6, <2>1, <2>2, <2>3, <3>1 DEF Parting, Wired, CartSame
  <2>5. CASE present /\ ~SclHigh
    <3>1. Settled
      BY <1>2, <2>2, <2>3, <2>5, Reaction
    <3>2. CartSame
      BY <3>1 DEF Settled, CartSame
    <3> QED BY <1>2, <1>6, <2>1, <2>2, <2>3, <3>2 DEF Parting, Wired, CartSame
  <2>6. CASE present /\ SclHigh
    <3>1. Falls \/ StartSeen
      BY <1>2, <2>2, <2>3, <2>6, Reaction
    <3>2. Falls => CartSame
      <4>1. mode = "idle" /\ ~Receiving
        BY <2>2, <2>6 DEF Receiving
      <4> QED BY <4>1 DEF Falls, CartSame
    <3>3. StartSeen => /\ rom' = rom /\ (page' = page \/ (page' = None /\ ~busy))
                       /\ busy' = busy /\ (Clean => CartSame)
      BY DEF StartSeen, Clean, CartSame
    <3>4. rom' = rom /\ (page' = page \/ (page' = None /\ ~busy)) /\ (Clean => CartSame)
      BY <3>1, <3>2, <3>3 DEF CartSame
    <3>5. Parting(1)'
      BY <2>2, <2>3 DEF Parting, Wired
    <3> QED BY <1>2, <1>6, <2>1, <3>4, <3>5
  <2> QED BY <2>4, <2>5, <2>6
<1>7. CASE k = 1
  <2>1. Set(High({SclPin})) /\ got' = got
    BY <1>2, <1>7, LeaveOps, NoSample
  <2>2. Wired /\ SdaOut /\ functions[SclPin] = FuncOutput /\ ~SclHigh /\ ~SdaHigh
    BY <1>7 DEF Parting
  <2>3. /\ Wired' /\ SclHigh' /\ (SdaHigh' <=> SdaHigh) /\ (SdaOut' <=> SdaOut)
        /\ CartSame
    BY <1>2, <2>1, <2>2, Raises
  <2>4. Parting(2)'
    BY <2>2, <2>3 DEF Parting, Wired
  <2> QED BY <1>2, <1>7, <2>1, <2>3, <2>4 DEF CartSame
<1>8. CASE k = 2
  <2>1. Set(High({SdaPin})) /\ got' = got
    BY <1>2, <1>8, LeaveOps, NoSample
  <2>2. Wired /\ SdaOut /\ functions[SclPin] = FuncOutput /\ SclHigh /\ ~SdaHigh
    BY <1>8 DEF Parting
  <2>3. /\ Wired' /\ SclHigh' /\ SdaHigh' /\ SdaOut'
        /\ ~present => CartSame /\ ~pull'
        /\ present => IF pull THEN Settled ELSE StopSeen
    BY <1>2, <2>1, <2>2, Lifts
  <2>4. rom' = rom /\ page' = page /\ (Clean => CartSame)
    <3>1. StopSeen => rom' = rom /\ page' = page /\ (Clean => busy' = FALSE)
      BY DEF StopSeen, Clean
    <3>2. Clean => busy = FALSE
      BY DEF Clean, CartTypeOK
    <3>3. StopSeen => rom' = rom /\ page' = page /\ (Clean => CartSame)
      BY <3>1, <3>2 DEF CartSame
    <3>4. Settled => rom' = rom /\ page' = page /\ CartSame
      BY DEF Settled, CartSame
    <3> QED BY <2>3, <3>3, <3>4 DEF CartSame
  <2>5. Parting(3)'
    BY <2>2, <2>3 DEF Parting, Wired
  <2> QED BY <1>2, <1>8, <2>1, <2>4, <2>5
<1>9. CASE k = 3
  <2>1. Set(Low({VccPin})) /\ got' = got
    BY <1>2, <1>9, LeaveOps, NoSample
  <2>2. functions' = functions /\ latch' = latch \ {VccPin}
    BY <1>5, <2>1, DoesLow
  <2>3. ~Powered'
    BY <2>2 DEF Powered, Driven, Drives
  <2>4. SdaOut /\ functions[SclPin] = FuncOutput /\ SclHigh /\ SdaHigh
    BY <1>9 DEF Parting
  <2>5. Parting(4)'
    BY <2>2, <2>4, Wires DEF Parting, SdaOut, SclHigh, SdaHigh
  <2> QED BY <1>2, <1>3, <1>4, <1>9, <2>1, <2>3, <2>5
<1>10. CASE k = 4
  <2>1. Set(High({SclPin, SdaPin})) /\ got' = got
    BY <1>2, <1>10, LeaveOps, NoSample
  <2>2. functions' = functions /\ latch' = latch \cup {SclPin, SdaPin}
    BY <1>5, <2>1, DoesHigh
  <2>3. SdaOut /\ functions[SclPin] = FuncOutput /\ SclHigh /\ SdaHigh /\ VccPin \notin latch
    BY <1>10 DEF Parting
  <2>4. VccPin \notin latch'
    BY <2>2, <2>3, Wires
  <2>5. ~Powered'
    BY <2>4 DEF Powered, Driven, Drives
  <2>6. Parting(5)'
    BY <2>2, <2>3, <2>4 DEF Parting, SdaOut, SclHigh, SdaHigh
  <2> QED BY <1>2, <1>3, <1>4, <1>10, <2>1, <2>5, <2>6
<1>11. CASE k \in 5..7
  <2>1. Set(Restore(Register((k + 1) - 5))) /\ got' = got
    <3>1. k + 1 \in 6..8
      BY <1>11
    <3>2. Leave[k + 1] = Restore(Register((k + 1) - 5))
      BY <3>1, LeaveOps
    <3> QED BY <1>2, <3>2, NoSample
  <2>2. latch' = latch
    BY <2>1, DoesRestore
  <2>3. SclHigh /\ SdaHigh /\ VccPin \notin latch
    BY <1>11 DEF Parting
  <2>4. ~Powered'
    BY <2>2, <2>3 DEF Powered, Driven, Drives
  <2>5. Parting(k + 1)'
    BY <1>11, <2>2, <2>3 DEF Parting, SclHigh, SdaHigh
  <2> QED BY <1>2, <1>3, <1>4, <2>1, <2>4, <2>5
<1>12. k = 0 \/ k = 1 \/ k = 2 \/ k = 3 \/ k = 4 \/ k \in 5..7
  OBVIOUS
<1> QED BY <1>6, <1>7, <1>8, <1>9, <1>10, <1>11, <1>12

-----------------------------------------------------------------------------
(* What holds of the cartridge whatever the pins do.                       *)
LEMMA PagePlace ==
  ASSUME NEW p \in Nat
  PROVE  p % Size \in 0..(Size - 1) /\ NextInPage(p) \in Nat
<1>1. Size \in Nat \ {0} /\ DevicePage \in Nat \ {0}
  BY CartAssumption
<1>2. p % Size \in 0..(Size - 1)
  BY <1>1
<1>3. p % DevicePage \in 0..p /\ (p + 1) % DevicePage \in Nat
  BY <1>1, Z3
<1>4. p - (p % DevicePage) \in Nat
  BY <1>3
<1> QED BY <1>2, <1>3, <1>4 DEF NextInPage

(* The device's registers keep their types, whatever the edges.            *)
LEMMA DeviceTypes ==
  ASSUME CartTypeOK, CartReacts
  PROVE  /\ rom' \in [0..(Size - 1) -> Nat]
         /\ DOMAIN page' \subseteq 0..(Size - 1) /\ page' \in [DOMAIN page' -> Nat]
         /\ busy' \in BOOLEAN /\ pull' \in BOOLEAN
         /\ mode' \in Modes /\ bits' \in Nat /\ shift' \in Nat /\ ptr' \in Nat
<1> DEFINE Typed == /\ rom' \in [0..(Size - 1) -> Nat]
                    /\ DOMAIN page' \subseteq 0..(Size - 1) /\ page' \in [DOMAIN page' -> Nat]
                    /\ busy' \in BOOLEAN /\ pull' \in BOOLEAN
                    /\ mode' \in Modes /\ bits' \in Nat /\ shift' \in Nat /\ ptr' \in Nat
<1>1. /\ rom \in [0..(Size - 1) -> Nat]
      /\ DOMAIN page \subseteq 0..(Size - 1) /\ page \in [DOMAIN page -> Nat]
      /\ busy \in BOOLEAN /\ pull \in BOOLEAN
      /\ mode \in Modes /\ bits \in Nat /\ shift \in Nat /\ ptr \in Nat
  BY DEF CartTypeOK
<1>2. DOMAIN None = {} /\ None \in [{} -> Nat]
  BY DEF None
<1>3. PowerLost => Typed
  <2> SUFFICES ASSUME PowerLost PROVE Typed
    OBVIOUS
  <2>1. PICK done \in IF busy THEN SUBSET DOMAIN page ELSE {{}} :
          rom' = [c \in DOMAIN rom |-> IF c \in done THEN page[c] ELSE rom[c]]
    BY DEF PowerLost
  <2>2. done \subseteq DOMAIN page
    BY <2>1
  <2>3. rom' \in [0..(Size - 1) -> Nat]
    BY <1>1, <2>1, <2>2
  <2>4. /\ page' = None /\ busy' = FALSE /\ mode' = "idle"
        /\ bits' = 0 /\ shift' = 0 /\ ptr' = 0 /\ pull' = FALSE
    BY DEF PowerLost
  <2> QED BY <1>2, <2>3, <2>4 DEF Modes
<1>4. StartSeen => Typed
  <2> SUFFICES ASSUME StartSeen PROVE Typed
    OBVIOUS
  <2>1. /\ mode' \in Modes /\ bits' \in Nat /\ shift' \in Nat /\ ptr' \in Nat
        /\ rom' = rom /\ busy' = busy /\ pull' = FALSE
    BY <1>1 DEF StartSeen, Modes
  <2>2. page' = page \/ page' = None
    BY DEF StartSeen
  <2>3. DOMAIN page' \subseteq 0..(Size - 1) /\ page' \in [DOMAIN page' -> Nat]
    BY <1>1, <1>2, <2>2
  <2> QED BY <1>1, <2>1, <2>3
<1>5. StopSeen => Typed
  <2> SUFFICES ASSUME StopSeen PROVE Typed
    OBVIOUS
  <2>1. mode' \in Modes /\ bits' \in Nat /\ shift' \in Nat /\ pull' \in BOOLEAN
    BY DEF StopSeen, Modes
  <2>2. busy' \in BOOLEAN
    BY DEF StopSeen
  <2>3. rom' = rom /\ page' = page /\ ptr' = ptr
    BY DEF StopSeen
  <2> QED BY <1>1, <2>1, <2>2, <2>3
<1>6. ASSUME NEW line, Rises(line) PROVE Typed
  <2>1. bits' \in Nat /\ shift' \in Nat
    BY <1>1, <1>6 DEF Rises
  <2>2. mode' \in Modes
    BY <1>1, <1>6 DEF Rises, Modes
  <2> QED BY <1>1, <1>6, <2>1, <2>2 DEF Rises
<1>7. Falls => Typed
  <2> SUFFICES ASSUME Falls PROVE Typed
    OBVIOUS
  <2>1. CASE Receiving /\ bits > Width
    <3>1. Taken /\ rom' = rom /\ busy' = busy
      BY <2>1 DEF Falls
    <3>2. mode \in {"ctl", "hi", "lo", "data"}
      BY <2>1 DEF Receiving
    <3>3. mode' \in Modes /\ bits' = 0 /\ shift' = 0
      BY <3>1, <3>2 DEF Taken, AfterByte, Modes
    <3>4. pull' \in BOOLEAN
      BY <3>1 DEF Taken
    <3>5. ptr % Size \in 0..(Size - 1) /\ ptr % Size \in Nat
      BY <1>1, PagePlace
    <3>6. ptr' \in Nat
      <4>1. NextInPage(ptr % Size) \in Nat
        BY <3>5, PagePlace
      <4>2. PICK w : w = 2 ^ Width
        OBVIOUS
      <4>3. w \in Nat /\ w * ptr + shift \in Nat
        BY <1>1, <4>2, ByteWidth
      <4>4. ptr' = CASE mode = "hi" -> shift
                     [] mode = "lo" -> w * ptr + shift
                     [] mode = "data" -> NextInPage(ptr % Size)
                     [] OTHER -> ptr
        BY <3>1, <4>2 DEF Taken
      <4> QED BY <1>1, <4>1, <4>3, <4>4
    <3>7. DOMAIN page' \subseteq 0..(Size - 1) /\ page' \in [DOMAIN page' -> Nat]
      <4>1. page' = IF mode # "data" THEN page
                    ELSE [c \in DOMAIN page \cup {ptr % Size} |->
                             IF c = ptr % Size THEN shift ELSE page[c]]
        BY <3>1 DEF Taken
      <4> QED BY <1>1, <3>5, <4>1
    <3> QED BY <1>1, <3>1, <3>3, <3>4, <3>6, <3>7
  <2>2. CASE ~(Receiving /\ bits > Width)
    <3>1. /\ UNCHANGED <<rom, busy, page, shift>>
          /\ mode' = IF Receiving /\ bits = Width /\ ~Accepts THEN "deaf" ELSE mode
          /\ bits' = IF mode = "send" /\ bits > Width THEN 0 ELSE bits
          /\ ptr' = IF mode = "send" /\ bits = Width THEN ptr + 1 ELSE ptr
          /\ pull' = CASE mode = "send" -> bits' < Width /\ Zero(1 + bits')
                       [] Receiving -> bits = Width /\ Accepts
                       [] OTHER -> FALSE
      BY <2>2 DEF Falls
    <3>2. pull' \in BOOLEAN
      <4>1. CASE mode = "send"
        <5>1. ~Receiving
          BY <4>1 DEF Receiving
        <5> QED BY <3>1, <4>1, <5>1
      <4>2. CASE Receiving
        <5>1. mode # "send"
          BY <4>2 DEF Receiving
        <5> QED BY <3>1, <4>2, <5>1
      <4>3. CASE mode # "send" /\ ~Receiving
        BY <3>1, <4>3
      <4> QED BY <4>1, <4>2, <4>3
    <3>3. mode' \in Modes /\ bits' \in Nat /\ ptr' \in Nat
      BY <1>1, <3>1 DEF Modes
    <3> QED BY <1>1, <3>1, <3>2, <3>3
  <2> QED BY <2>1, <2>2
<1>8. UNCHANGED <<rom, page, busy, mode, bits, shift, ptr, pull>> => Typed
  BY <1>1
<1> HIDE DEF Typed
<1>9. PICK line : line = (Driven(SdaPin)' /\ ~pull)
  OBVIOUS
<1>10. \/ PowerLost \/ Rises(line) \/ Falls \/ StartSeen \/ StopSeen
       \/ UNCHANGED <<rom, page, busy, mode, bits, shift, ptr, pull>>
  <2>1. \/ PowerLost \/ Rises(Driven(SdaPin)' /\ ~pull) \/ Falls \/ StartSeen \/ StopSeen
        \/ UNCHANGED <<rom, page, busy, mode, bits, shift, ptr, pull>>
    BY DEF CartReacts
  <2> QED BY <1>9, <2>1
<1>11. Typed
  BY <1>3, <1>4, <1>5, <1>6, <1>7, <1>8, <1>10
<1> QED BY <1>11 DEF Typed

(* The same for a whole store.                                             *)
LEMMA CartPinTypes ==
  ASSUME CartTypeOK, CartPin
  PROVE  CartTypeOK'
<1>1. /\ todo # <<>> /\ todo' = Tail(todo) /\ Set(Head(todo))
      /\ got' = IF Head(todo).do = "sample"
                THEN Append(got, (IF Wire THEN {SdaPin} ELSE {}) \cap Head(todo).pins)
                ELSE got
      /\ UNCHANGED <<saved, tool, pc>>
      /\ present' = present /\ CartReacts /\ UNCHANGED mainVars
  BY DEF CartPin, Do
<1>2. todo \in Seq(Op) /\ Head(todo) \in Op /\ todo' \in Seq(Op)
  BY <1>1 DEF CartTypeOK
<1>3. PinTypeOK'
  BY <1>1, <1>2, SetTypes DEF CartTypeOK
<1>4. got' \in Seq(SUBSET {SdaPin})
  <2>1. got \in Seq(SUBSET {SdaPin})
    BY DEF CartTypeOK
  <2>2. (IF Wire THEN {SdaPin} ELSE {}) \cap Head(todo).pins \in SUBSET {SdaPin}
    OBVIOUS
  <2> QED BY <1>1, <2>1, <2>2
<1>5. /\ rom' \in [0..(Size - 1) -> Nat]
      /\ DOMAIN page' \subseteq 0..(Size - 1) /\ page' \in [DOMAIN page' -> Nat]
      /\ busy' \in BOOLEAN /\ pull' \in BOOLEAN
      /\ mode' \in Modes /\ bits' \in Nat /\ shift' \in Nat /\ ptr' \in Nat
  BY <1>1, DeviceTypes
<1>6. /\ UNCHANGED <<cjob, pos, len, used, n, i, printed, old, safe, late, more>>
  BY <1>1 DEF mainVars
<1> QED BY <1>1, <1>2, <1>3, <1>4, <1>5, <1>6 DEF CartTypeOK

(* A cartridge pulled out stays at rest.                                   *)
LEMMA GoneStays ==
  ASSUME CartTypeOK, Gone, CartReacts, present' = present
  PROVE  Gone'
<1>1. CASE present
  BY <1>1 DEF Gone
<1>2. CASE ~present
  <2>1. ~Powered'
    BY <1>2 DEF Powered
  <2>2. PowerLost
    BY <2>1 DEF CartReacts
  <2> QED BY <2>2 DEF PowerLost, Gone, Clean, None
<1> QED BY <1>1, <1>2

-----------------------------------------------------------------------------
(* The job, and what is kept of the file.                                  *)
LEMMA JobTypes ==
  ASSUME CartTypeOK
  PROVE  /\ tool \in CartTool /\ cjob.start \in Nat /\ cjob.length \in Nat
         /\ cjob.input \in Seq(CartByte) /\ Len(cjob.input) \in Nat
         /\ cjob.start + Len(cjob.input) <= Size
         /\ tool = "readcart" => cjob.start + cjob.length <= Size
<1>1. cjob \in CartJobs /\ tool = cjob.tool
  BY DEF CartTypeOK
<1>2. /\ cjob.tool \in CartTool /\ cjob.start \in Nat /\ cjob.length \in Nat
      /\ cjob.input \in Seq(CartByte)
      /\ cjob.start + Len(cjob.input) <= Size
      /\ cjob.tool = "readcart" => cjob.start + cjob.length <= Size
  BY <1>1, CartAssumption
<1> QED BY <1>1, <1>2, LenProperties

(* What a job wants, cell by cell.                                         *)
LEMMA WantedIs ==
  ASSUME CartTypeOK
  PROVE  /\ Lesser(cjob.length, Len(cjob.input)) \in Nat
         /\ Lesser(cjob.length, Len(cjob.input)) <= Len(cjob.input)
         /\ DOMAIN Wanted = cjob.start..(cjob.start + Lesser(cjob.length, Len(cjob.input)) - 1)
         /\ \A a \in DOMAIN Wanted : /\ a \in 0..(Size - 1) /\ a >= cjob.start
                                     /\ Wanted[a] = cjob.input[a - cjob.start + 1]
         /\ \A a \in cjob.start..(cjob.start + Lesser(cjob.length, Len(cjob.input)) - 1) :
              a \in DOMAIN Wanted
<1>1. /\ Lesser(cjob.length, Len(cjob.input)) \in Nat
      /\ Lesser(cjob.length, Len(cjob.input)) <= Len(cjob.input)
  BY JobTypes DEF Lesser
<1>2. DOMAIN Wanted = cjob.start..(cjob.start + Lesser(cjob.length, Len(cjob.input)) - 1)
  BY DEF Wanted
<1>3. Size \in Nat \ {0}
  BY CartAssumption
<1>4. ASSUME NEW a \in DOMAIN Wanted
      PROVE  /\ a \in 0..(Size - 1) /\ a >= cjob.start
             /\ Wanted[a] = cjob.input[a - cjob.start + 1]
  <2>1. a \in cjob.start..(cjob.start + Lesser(cjob.length, Len(cjob.input)) - 1)
    BY <1>2
  <2>2. Wanted[a] = cjob.input[a - cjob.start + 1]
    BY <2>1 DEF Wanted
  <2> QED BY <1>1, <1>3, <2>1, <2>2, JobTypes
<1> QED BY <1>1, <1>2, <1>4

Safely ==
    /\ Clean => CartSame
    /\ PowerLost \/ (rom' = rom /\ (page' = page \/ page' = None))

Data == CartCounts /\ PageRight /\ RomRight /\ PrintRight

(* A step of the device, of a main that goes on as it was: cells may take  *)
(* what is in the page.                                                    *)
LEMMA CellsKept ==
  ASSUME CartTypeOK, Data, UNCHANGED <<mainVars, tool, pc>>, present' => present,
         Clean => CartSame, DOMAIN rom' = DOMAIN rom,
         \A a \in DOMAIN rom : rom'[a] = rom[a] \/ (a \in DOMAIN page /\ rom'[a] = page[a]),
         page' = page \/ page' = None
  PROVE  Data'
<1>1. UNCHANGED <<cjob, pos, len, used, n, i, printed, old, safe, late, more, tool, pc>>
  BY DEF mainVars
<1>2. CartCounts'
  BY <1>1 DEF Data, CartCounts
<1>3. Wanted' = Wanted
  BY <1>1 DEF Wanted
<1>4. /\ DOMAIN rom = 0..(Size - 1) /\ DOMAIN rom' = DOMAIN rom
      /\ \A a \in DOMAIN rom : rom'[a] = rom[a] \/ (a \in DOMAIN page /\ rom'[a] = page[a])
      /\ page' = page \/ page' = None
  BY DEF CartTypeOK
<1>5. PageRight'
  <2>1. PageRight
    BY DEF Data
  <2>2. CASE page' = page
    BY <1>1, <1>3, <2>1, <2>2 DEF PageRight
  <2>3. CASE page' = None
    BY <2>3 DEF PageRight, None
  <2> QED BY <1>4, <2>2, <2>3
<1>6. RomRight'
  <2> SUFFICES ASSUME tool = "writecart"
               PROVE  /\ \A a \in DOMAIN Wanted :
                           rom'[a] = Wanted[a] \/ ((rom'[a] = old[a] \/ a \in late) /\ a >= cjob.start + safe)
                      /\ \A a \in DOMAIN rom \ (DOMAIN Wanted \cup late) : rom'[a] = old[a]
    BY <1>1, <1>3, <1>4 DEF RomRight
  <2>1. /\ \A a \in DOMAIN Wanted :
             rom[a] = Wanted[a] \/ ((rom[a] = old[a] \/ a \in late) /\ a >= cjob.start + safe)
        /\ \A a \in DOMAIN rom \ (DOMAIN Wanted \cup late) : rom[a] = old[a]
        /\ \A a \in DOMAIN page :
             \/ a \in DOMAIN Wanted /\ page[a] = Wanted[a]
             \/ a \in late /\ safe = 0
    BY DEF Data, RomRight, PageRight
  <2>2. ASSUME NEW a \in DOMAIN Wanted
        PROVE  rom'[a] = Wanted[a] \/ ((rom'[a] = old[a] \/ a \in late) /\ a >= cjob.start + safe)
    <3>1. a \in DOMAIN rom /\ a >= cjob.start /\ a \in Int
      BY <1>4, WantedIs
    <3>2. CASE rom'[a] = rom[a]
      BY <2>1, <3>2
    <3>3. CASE a \in DOMAIN page /\ rom'[a] = page[a]
      <4>1. cjob.start + 0 = cjob.start
        BY JobTypes
      <4> QED BY <2>1, <3>1, <3>3, <4>1
    <3> QED BY <1>4, <3>1, <3>2, <3>3
  <2>3. ASSUME NEW a \in DOMAIN rom \ (DOMAIN Wanted \cup late)
        PROVE  rom'[a] = old[a]
    BY <1>4, <2>1
  <2> QED BY <2>2, <2>3
<1>7. PrintRight'
  <2> SUFFICES ASSUME tool = "readcart"
               PROVE  /\ printed # <<>> => Clean'
                      /\ present' => \A k \in DOMAIN printed : \A b \in 1..Width :
                           printed[k][b] = (Bit(rom'[cjob.start + k - 1], b) = 1)
    BY <1>1 DEF PrintRight, Bit
  <2>1. PrintRight
    BY DEF Data
  <2>2. CASE printed = <<>>
    BY <2>2
  <2>3. CASE printed # <<>>
    <3>1. Clean /\ CartSame
      BY <2>1, <2>3 DEF PrintRight
    <3>2. Clean'
      BY <3>1 DEF Clean, CartSame, None
    <3> QED BY <2>1, <3>1, <3>2 DEF PrintRight, CartSame
  <2> QED BY <2>2, <2>3
<1> QED BY <1>2, <1>5, <1>6, <1>7 DEF Data

(* A store that is safe keeps what is known of the cells.                  *)
LEMMA DataKept ==
  ASSUME CartTypeOK, Data, UNCHANGED <<mainVars, tool, pc>>, present' => present, Safely
  PROVE  Data'
<1>1. /\ DOMAIN rom' = DOMAIN rom
      /\ \A a \in DOMAIN rom : rom'[a] = rom[a] \/ (a \in DOMAIN page /\ rom'[a] = page[a])
      /\ page' = page \/ page' = None
  <2>1. CASE PowerLost
    <3>1. PICK done \in IF busy THEN SUBSET DOMAIN page ELSE {{}} :
            rom' = [c \in DOMAIN rom |-> IF c \in done THEN page[c] ELSE rom[c]]
      BY <2>1 DEF PowerLost
    <3>2. done \subseteq DOMAIN page
      BY <3>1
    <3> QED BY <2>1, <3>1, <3>2 DEF PowerLost, CartTypeOK
  <2>2. CASE rom' = rom /\ (page' = page \/ page' = None)
    BY <2>2 DEF CartTypeOK
  <2> QED BY <2>1, <2>2 DEF Safely
<1>2. Clean => CartSame
  BY DEF Safely
<1> QED BY <1>1, <1>2, CellsKept

(* One that leaves the cartridge alone is.                                 *)
LEMMA SameSafely ==
  CartSame => Safely
BY DEF CartSame, Safely, Clean

(* A sequence with nothing behind it.                                      *)
LEMMA Alone ==
  ASSUME NEW r \in Seq(Op), NEW k \in 0..Len(r)
  PROVE  Rest(r, k) \o <<>> = Rest(r, k) /\ (k = Len(r) <=> Rest(r, k) = <<>>)
<1>1. \A x \in (k + 1)..Len(r) : r[x] \in Op
  BY ElementOfSeq, LenProperties
<1>2. Rest(r, k) \in Seq(Op)
  BY <1>1, SubSeqProperties, LenProperties DEF Rest
<1>3. Rest(r, k) \o <<>> = Rest(r, k)
  BY <1>2, ConcatEmptySeq
<1> QED BY <1>3, RestStep

-----------------------------------------------------------------------------
(* A byte sent, from the first store to the last.                          *)
TakesByte(m, v) ==
    /\ ptr' = CASE m = "hi" -> v
                [] m = "lo" -> 2 ^ Width * ptr + v
                [] m = "data" -> NextInPage(ptr % Size)
                [] OTHER -> ptr
    /\ page' = IF m # "data" THEN page
               ELSE [x \in DOMAIN page \cup {ptr % Size} |->
                        IF x = ptr % Size THEN v ELSE page[x]]

(* A store of a byte sent, with its acknowledge.                           *)
LEMMA BytePin ==
  ASSUME CartTypeOK, Gone, CartPin, NEW t \in Seq(Op),
         NEW m \in {"ctl", "hi", "lo", "data"}, NEW v \in CartByte,
         m = "ctl" => v \in {CtlWrite, CtlRead},
         present /\ busy => m = "ctl" /\ pc = "polled", Silence,
         InByte(m, v, t), ~(todo = t /\ Acking(m, v, 6))
  PROVE  /\ InByte(m, v, t)' /\ rom' = rom /\ busy' = busy
         /\ m # "data" => page' = page
         /\ m = "ctl" /\ present => ptr' = ptr
         /\ got # <<>> => got' = got
         /\ got' \in {got, <<IF pull THEN {} ELSE {SdaPin}>>}
         /\ Silence'
         /\ ~present => page' = page
         /\ present /\ pc # "polled" =>
              IF ~ByteTaken /\ ByteTaken' THEN TakesByte(m, v)
              ELSE page' = page /\ ptr' = ptr /\ (ByteTaken <=> ByteTaken')
<1> DEFINE Goal == /\ InByte(m, v, t)' /\ rom' = rom /\ busy' = busy
                   /\ m # "data" => page' = page
                   /\ m = "ctl" /\ present => ptr' = ptr
                   /\ got # <<>> => got' = got
                   /\ got' \in {got, <<IF pull THEN {} ELSE {SdaPin}>>}
                   /\ Silence'
                   /\ ~present => page' = page
                   /\ present /\ pc # "polled" =>
                        IF ~ByteTaken /\ ByteTaken' THEN TakesByte(m, v)
                        ELSE page' = page /\ ptr' = ptr /\ (ByteTaken <=> ByteTaken')
<1>1. Width \in 1..8 /\ present' = present /\ pc' = pc
      /\ busy \in BOOLEAN /\ bits \in Nat /\ bits' \in Nat
  BY ByteWidth, CartPinTypes DEF CartPin, Do, CartTypeOK
<1>2. ASSUME NEW j \in 0..(Width - 1), NEW c \in 0..2,
             todo = Rest(send_byte(v), 3 * j + c) \o t, Sending(m, v, j, c)
      PROVE  Goal
  <2>1. /\ todo' = Rest(send_byte(v), (3 * j + c) + 1) \o t
        /\ c < 2 => Sending(m, v, j, c + 1)'
        /\ c = 2 /\ j < Width - 1 => Sending(m, v, j + 1, 0)'
        /\ c = 2 /\ j = Width - 1 => Acking(m, v, 0)'
        /\ got' = got /\ CartSame /\ (present => ptr' = ptr)
        /\ pull' => ~busy
    BY <1>2, BitPin
  <2>2. InByte(m, v, t)' /\ (present => mode' # "send")
    <3>1. CASE c < 2
      <4>1. (3 * j + c) + 1 = 3 * j + (c + 1) /\ c + 1 \in 0..2
        BY <3>1
      <4>2. todo' = Rest(send_byte(v), 3 * j + (c + 1)) \o t /\ Sending(m, v, j, c + 1)'
        BY <2>1, <3>1, <4>1
      <4>3. present => mode' = m
        BY <1>1, <4>2 DEF Sending
      <4> QED BY <4>1, <4>2, <4>3, Zenon DEF InByte
    <3>2. CASE c = 2 /\ j < Width - 1
      <4>1. (3 * j + c) + 1 = 3 * (j + 1) + 0 /\ j + 1 \in 0..(Width - 1) /\ 0 \in 0..2
        BY <1>1, <3>2
      <4>2. todo' = Rest(send_byte(v), 3 * (j + 1) + 0) \o t /\ Sending(m, v, j + 1, 0)'
        BY <2>1, <3>2, <4>1
      <4>3. present => mode' = m
        BY <1>1, <4>2 DEF Sending
      <4> QED BY <4>1, <4>2, <4>3, Zenon DEF InByte
    <3>3. CASE c = 2 /\ j = Width - 1
      <4>1. (3 * j + c) + 1 = 3 * Width + 0 /\ 0 \in 0..6
        BY <1>1, <3>3
      <4>2. todo' = Rest(send_byte(v), 3 * Width + 0) \o t /\ Acking(m, v, 0)'
        BY <2>1, <3>3, <4>1
      <4>3. present => mode' # "send"
        BY <1>1, <4>2 DEF Acking
      <4> QED BY <4>1, <4>2, <4>3, Zenon DEF InByte
    <3> QED BY <1>1, <3>1, <3>2, <3>3
  <2>3. got = <<>> /\ got' = <<>>
    BY <1>2, <2>1 DEF Sending
  <2>4. ~ByteTaken /\ ~ByteTaken'
    BY <2>3 DEF ByteTaken
  <2>5. rom' = rom /\ page' = page /\ busy' = busy
    BY <2>1 DEF CartSame
  <2>6. Silence'
    BY <1>1, <2>1, <2>2, <2>5 DEF Silence
  <2>7. got' \in {got, <<IF pull THEN {} ELSE {SdaPin}>>}
    BY <2>1
  <2> QED BY <2>1, <2>2, <2>3, <2>4, <2>5, <2>6, <2>7
<1>3. ASSUME NEW c \in 0..6, todo = Rest(send_byte(v), 3 * Width + c) \o t, Acking(m, v, c)
      PROVE  Goal
  <2>1. c \in 0..5
    <3>1. c = 6 => todo = t
      <4>1. Len(send_byte(v)) = 3 * Width + 6 /\ send_byte(v) \in Seq(Op)
        BY SendOps
      <4>2. 3 * Width + 6 \in 0..Len(send_byte(v))
        BY <1>1, <4>1
      <4>3. Rest(send_byte(v), 3 * Width + 6) \o t = t
        BY <4>1, <4>2, ThenStep
      <4> QED BY <1>3, <4>3, Zenon
    <3> QED BY <1>3, <3>1
  <2>2. /\ todo' = Rest(send_byte(v), (3 * Width + c) + 1) \o t
        /\ Acking(m, v, c + 1)'
        /\ got' = IF c = 3 THEN <<IF pull THEN {} ELSE {SdaPin}>> ELSE got
        /\ rom' = rom /\ busy' = busy
        /\ ~(present /\ c = 4 /\ mode = m) => page' = page /\ (present => ptr' = ptr)
        /\ present /\ c = 4 /\ mode = m => TakesByte(m, v)
        /\ pull' => ~busy
        /\ present /\ mode' = "send" => ~busy
    <3>1. (pull => ~busy) /\ (present /\ mode = "send" => ~busy)
      BY DEF Silence
    <3> QED BY <1>3, <2>1, <3>1, AcknowledgePin DEF TakesByte
  <2>3. InByte(m, v, t)'
    <3>1. (3 * Width + c) + 1 = 3 * Width + (c + 1) /\ c + 1 \in 0..6
      BY <1>1, <2>1
    <3>2. todo' = Rest(send_byte(v), 3 * Width + (c + 1)) \o t
      BY <2>2, <3>1
    <3> QED BY <2>2, <3>1, <3>2, Zenon DEF InByte
  <2>4. Silence'
    BY <1>1, <2>2 DEF Silence
  <2>5. Len(got) = (IF c >= 4 THEN 1 ELSE 0) /\ (c < 4 => got = <<>>) /\ (c >= 4 => got # <<>>)
    <3>1. Len(got) = (IF c >= 4 THEN 1 ELSE 0)
      BY <1>3 DEF Acking
    <3>2. got \in Seq(SUBSET {SdaPin})
      BY DEF CartTypeOK
    <3>3. c < 4 => got = <<>>
      BY <3>1, <3>2, EmptySeq
    <3>4. c >= 4 => got # <<>>
      <4>1. c >= 4 => Len(got) # 0
        BY <3>1
      <4>2. got = <<>> => Len(got) = 0
        BY EmptySeq, Zenon
      <4> QED BY <4>1, <4>2
    <3> QED BY <3>1, <3>3, <3>4
  <2>6. c >= 3 => got' # <<>>
    BY <2>2, <2>5
  <2>7. c < 3 => got' = <<>>
    BY <2>2, <2>5
  <2>8. m \in {"ctl", "lo", "hi"} => (TakesByte(m, v) => page' = page)
    BY DEF TakesByte
  <2>9. m = "ctl" => (TakesByte(m, v) => ptr' = ptr)
    BY DEF TakesByte
  <2>10. got # <<>> => got' = got
    BY <2>2, <2>5
  <2>11. got' \in {got, <<IF pull THEN {} ELSE {SdaPin}>>}
    BY <2>2
  <2>12. ~present => page' = page
    BY <2>2
  <2>13. ASSUME present, pc # "polled"
         PROVE  IF ~ByteTaken /\ ByteTaken' THEN TakesByte(m, v)
                ELSE page' = page /\ ptr' = ptr /\ (ByteTaken <=> ByteTaken')
    <3>1. c < 5 => mode = m /\ bits # 0
      BY <1>1, <1>3, <2>13 DEF Acking
    <3>2. c >= 5 => bits = 0
      BY <1>1, <1>3, <2>13 DEF Acking
    <3>3. c + 1 < 5 => bits' # 0
      BY <1>1, <2>1, <2>2, <2>13 DEF Acking
    <3>4. c + 1 >= 5 => bits' = 0
      BY <1>1, <2>1, <2>2, <2>13 DEF Acking
    <3>5. CASE c < 4
      <4>1. ~ByteTaken /\ ~ByteTaken' /\ c # 4
        BY <3>1, <3>3, <3>5 DEF ByteTaken
      <4> QED BY <2>2, <2>13, <4>1
    <3>6. CASE c = 4
      <4>1. ~ByteTaken /\ ByteTaken'
        BY <2>6, <3>1, <3>4, <3>6 DEF ByteTaken
      <4> QED BY <2>2, <2>13, <3>1, <3>6, <4>1
    <3>7. CASE c = 5
      <4>1. ByteTaken /\ ByteTaken' /\ c # 4
        BY <2>5, <2>6, <3>2, <3>4, <3>7 DEF ByteTaken
      <4> QED BY <2>2, <2>13, <4>1
    <3> QED BY <2>1, <3>5, <3>6, <3>7
  <2>14. m # "data" => page' = page
    BY <2>2, <2>8
  <2>15. m = "ctl" /\ present => ptr' = ptr
    BY <2>2, <2>9
  <2> QED BY <2>2, <2>3, <2>4, <2>10, <2>11, <2>12, <2>13, <2>14, <2>15
<1> HIDE DEF Goal
<1>4. Goal
  BY <1>2, <1>3 DEF InByte
<1> QED BY <1>4 DEF Goal

(* A store of a byte read, with its acknowledge.                           *)
LEMMA ReceivePin ==
  ASSUME CartTypeOK, Gone, CartPin, NEW t \in Seq(Op), NEW p \in Nat,
         InReceive(p, t), ~(todo = t /\ Shown(p, 1))
  PROVE  /\ InReceive(p, t)' /\ CartSame
         /\ \/ got' = got
            \/ /\ got' = Append(got, IF pull THEN {} ELSE {SdaPin})
               /\ present /\ pc = "byte" =>
                    /\ Len(got) + 1 \in 1..Width
                    /\ pull = (Bit(rom[p % Size], Len(got) + 1) = 0)
         /\ pc = "polled" => got # <<>>
         /\ pull' \/ (present /\ mode' = "send") => present /\ mode = "send"
<1> DEFINE Goal == /\ InReceive(p, t)' /\ CartSame
                   /\ \/ got' = got
                      \/ /\ got' = Append(got, IF pull THEN {} ELSE {SdaPin})
                         /\ present /\ pc = "byte" =>
                              /\ Len(got) + 1 \in 1..Width
                              /\ pull = (Bit(rom[p % Size], Len(got) + 1) = 0)
                   /\ pc = "polled" => got # <<>>
                   /\ pull' \/ (present /\ mode' = "send") => present /\ mode = "send"
<1>1. Width \in 1..8 /\ Len(got) \in Nat
  BY ByteWidth, LenProperties DEF CartTypeOK
<1>2. ASSUME NEW k \in Nat, Samples(k), pc = "polled" PROVE got # <<>>
  <2>1. Len(got) # 0
    BY <1>2 DEF Samples
  <2>2. got = <<>> => Len(got) = 0
    BY EmptySeq, Zenon
  <2> QED BY <2>1, <2>2
<1>3. ASSUME NEW c \in 0..1, todo = Rest(recv_byte, c) \o t, Turning(p, c)
      PROVE  Goal
  <2>1. /\ todo' = Rest(recv_byte, c + 1) \o t
        /\ IF c = 0 THEN Turning(p, 1)' ELSE Showing(p, 0, 0)'
        /\ got' = got /\ CartSame
        /\ pull' \/ (present /\ mode' = "send") => present /\ mode = "send"
    BY <1>3, TurningPin
  <2>2. InReceive(p, t)'
    <3>1. CASE c = 0
      <4>1. c + 1 = 1 /\ 1 \in 0..1
        BY <3>1
      <4>2. todo' = Rest(recv_byte, 1) \o t /\ Turning(p, 1)'
        BY <2>1, <3>1, <4>1
      <4> QED BY <4>1, <4>2, Zenon DEF InReceive
    <3>2. CASE c = 1
      <4>1. c + 1 = 2 + 3 * 0 + 0 /\ 0 \in 0..(Width - 1) /\ 0 \in 0..2
        BY <1>1, <3>2
      <4>2. todo' = Rest(recv_byte, 2 + 3 * 0 + 0) \o t /\ Showing(p, 0, 0)'
        BY <2>1, <3>2, <4>1
      <4> QED BY <4>1, <4>2, Zenon DEF InReceive
    <3> QED BY <3>1, <3>2
  <2>3. pc = "polled" => got # <<>>
    BY <1>2, <1>3 DEF Turning
  <2> QED BY <2>1, <2>2, <2>3
<1>4. ASSUME NEW j \in 0..(Width - 1), NEW c \in 0..2,
             todo = Rest(recv_byte, 2 + 3 * j + c) \o t, Showing(p, j, c)
      PROVE  Goal
  <2>1. /\ todo' = Rest(recv_byte, (2 + 3 * j + c) + 1) \o t
        /\ c < 2 => Showing(p, j, c + 1)'
        /\ c = 2 /\ j < Width - 1 => Showing(p, j + 1, 0)'
        /\ c = 2 /\ j = Width - 1 => Shown(p, 0)'
        /\ got' = (IF c = 1 THEN Append(got, IF pull THEN {} ELSE {SdaPin}) ELSE got)
        /\ CartSame
        /\ pull' \/ (present /\ mode' = "send") => present /\ mode = "send"
    BY <1>4, ShowingPin
  <2>2. InReceive(p, t)'
    <3>1. CASE c < 2
      <4>1. (2 + 3 * j + c) + 1 = 2 + 3 * j + (c + 1) /\ c + 1 \in 0..2
        BY <3>1
      <4>2. todo' = Rest(recv_byte, 2 + 3 * j + (c + 1)) \o t /\ Showing(p, j, c + 1)'
        BY <2>1, <3>1, <4>1
      <4> QED BY <4>1, <4>2, Zenon DEF InReceive
    <3>2. CASE c = 2 /\ j < Width - 1
      <4>1. /\ (2 + 3 * j + c) + 1 = 2 + 3 * (j + 1) + 0
            /\ j + 1 \in 0..(Width - 1) /\ 0 \in 0..2
        BY <1>1, <3>2
      <4>2. todo' = Rest(recv_byte, 2 + 3 * (j + 1) + 0) \o t /\ Showing(p, j + 1, 0)'
        BY <2>1, <3>2, <4>1
      <4> QED BY <4>1, <4>2, Zenon DEF InReceive
    <3>3. CASE c = 2 /\ j = Width - 1
      <4>1. (2 + 3 * j + c) + 1 = 2 + 3 * Width + 0 /\ 0 \in 0..1
        BY <1>1, <3>3
      <4>2. todo' = Rest(recv_byte, 2 + 3 * Width + 0) \o t /\ Shown(p, 0)'
        BY <2>1, <3>3, <4>1
      <4> QED BY <4>1, <4>2, Zenon DEF InReceive
    <3> QED BY <1>1, <3>1, <3>2, <3>3
  <2>3. pc = "polled" => got # <<>>
    BY <1>2, <1>4 DEF Showing
  <2>4. present /\ pc = "byte" /\ c = 1 =>
          /\ Len(got) + 1 \in 1..Width
          /\ pull = (Bit(rom[p % Size], Len(got) + 1) = 0)
    <3> SUFFICES ASSUME present, pc = "byte", c = 1
                 PROVE  /\ Len(got) + 1 \in 1..Width
                        /\ pull = (Bit(rom[p % Size], Len(got) + 1) = 0)
      OBVIOUS
    <3>1. Len(got) = j /\ Shows(p, j)
      BY <1>4 DEF Showing, Samples, Deaf
    <3>2. Len(got) + 1 \in 1..Width
      BY <1>1, <3>1
    <3>3. pull = (Bit(rom[p % Size], Len(got) + 1) = 0)
      BY <3>1, Zenon DEF Shows
    <3> QED BY <3>2, <3>3
  <2>5. \/ got' = got
        \/ /\ got' = Append(got, IF pull THEN {} ELSE {SdaPin})
           /\ present /\ pc = "byte" =>
                /\ Len(got) + 1 \in 1..Width
                /\ pull = (Bit(rom[p % Size], Len(got) + 1) = 0)
    BY <2>1, <2>4, Zenon
  <2> QED BY <2>1, <2>2, <2>3, <2>5, Zenon
<1>5. ASSUME NEW c \in 0..1, todo = Rest(recv_byte, 2 + 3 * Width + c) \o t, Shown(p, c)
      PROVE  Goal
  <2>1. CASE c = 0
    <3>1. 2 + 3 * Width + c = 2 + 3 * Width
      BY <1>1, <2>1
    <3>2. todo = Rest(recv_byte, 2 + 3 * Width) \o t /\ Shown(p, 0)
      BY <1>5, <2>1, <3>1
    <3>3. /\ todo' = Rest(recv_byte, 2 + 3 * Width + 1) \o t
          /\ Shown(p, 1)' /\ got' = got /\ CartSame
          /\ pull' \/ (present /\ mode' = "send") => present /\ mode = "send"
      BY <3>2, ShownPin
    <3>4. 1 \in 0..1
      OBVIOUS
    <3>5. InReceive(p, t)'
      BY <3>3, <3>4, Zenon DEF InReceive
    <3>6. pc = "polled" => got # <<>>
      BY <1>1, <1>2, <1>5 DEF Shown
    <3> QED BY <3>3, <3>5, <3>6
  <2>2. CASE c = 1
    <3>1. recv_byte \in Seq(Op) /\ Len(recv_byte) = 3 * Width + 3
      BY ReceiveOps
    <3>2. 2 + 3 * Width + c = 3 * Width + 3 /\ 3 * Width + 3 \in 0..Len(recv_byte)
      BY <1>1, <2>2, <3>1
    <3>3. Rest(recv_byte, 3 * Width + 3) \o t = t
      BY <3>1, <3>2, ThenStep
    <3>4. todo = t
      BY <1>5, <3>2, <3>3, Zenon
    <3> QED BY <1>5, <2>2, <3>4
  <2> QED BY <2>1, <2>2
<1> HIDE DEF Goal
<1>6. Goal
  BY <1>3, <1>4, <1>5 DEF InReceive
<1> QED BY <1>6 DEF Goal

-----------------------------------------------------------------------------
(* Where one routine ends the next one begins.                             *)
LEMMA CartRoutines ==
  /\ start \in Seq(Op) /\ restart \in Seq(Op) /\ stop \in Seq(Op) /\ recv_byte \in Seq(Op)
  /\ send_ack \in Seq(Op) /\ send_nak \in Seq(Op) /\ PowerOn \in Seq(Op) /\ Leave \in Seq(Op)
  /\ <<>> \in Seq(Op) /\ \A v : send_byte(v) \in Seq(Op)
BY StartOps, RestartOps, StopOps, ReceiveOps, AckOps, NakOps, PowerOps, LeaveOps, SendOps, EmptySeq

(* What is sent before data are bytes.                                     *)
LEMMA ControlBytes ==
  /\ CtlWrite \in CartByte /\ CtlRead \in CartByte /\ CtlRead # CtlWrite
  /\ CartByte \subseteq Nat
  /\ pos \in Nat => HighByte \in CartByte /\ LowByte \in CartByte
<1> DEFINE w == 2 ^ Width
<1>1. PICK k \in 0..7 : k + 1 = Width
  BY ByteWidth
<1>2. 2 ^ k \in Nat \ {0} /\ 2 ^ (k + 1) = 2 * 2 ^ k
  <2>1. k \in 0..8 /\ k < 8
    OBVIOUS
  <2> QED BY <2>1, PowerOf, Zenon
<1>3. PICK h : h = 2 ^ k
  OBVIOUS
<1>4. w = 2 * h /\ h \in Nat \ {0}
  BY <1>1, <1>2, <1>3, Zenon
<1>5. CartByte = 0..(w - 1)
  BY DEF CartByte
<1>6. CtlWrite \in CartByte /\ CtlWrite % 2 = 0
  BY CartAssumption
<1> HIDE DEF w
<1>7. CtlWrite \in 0..(2 * h - 1) /\ CtlWrite % 2 = 0
  BY <1>4, <1>5, <1>6
<1>8. CtlWrite + 1 \in 0..(2 * h - 1)
  BY <1>4, <1>7
<1>9. CtlRead \in CartByte /\ CtlRead # CtlWrite
  BY <1>4, <1>5, <1>7, <1>8 DEF CtlRead
<1>10. w \in Nat \ {0} /\ CartByte \subseteq Nat
  BY <1>4, <1>5
<1>11. ASSUME pos \in Nat
       PROVE  HighByte \in CartByte /\ LowByte \in CartByte
  <2>1. \A x \in Nat : x % w \in 0..(w - 1) /\ x \div w \in Nat
    BY <1>10, Z3
  <2>2. HighByte = (pos \div w) % w /\ LowByte = pos % w
    BY DEF HighByte, LowByte, w
  <2> QED BY <1>5, <1>11, <2>1, <2>2
<1> QED BY <1>6, <1>9, <1>10, <1>11

(* A byte none of whose stores is done.                                    *)
LEMMA ByteBegins ==
  ASSUME NEW t \in Seq(Op), NEW v \in CartByte, todo = send_byte(v) \o t, got = <<>>,
         Wired, SdaOut, ~pull, ~SclHigh, NEW m,
         present => mode = m /\ bits = 0 /\ shift = 0
  PROVE  InByte(m, v, t)
<1>1. v \in Nat /\ v < 2 ^ Width /\ Width \in 1..8
  BY ByteWidth DEF CartByte
<1>2. v \div 2 ^ (Width - 0) = 0
  BY <1>1, FirstBits
<1>3. Sending(m, v, 0, 0)
  BY <1>2 DEF Sending
<1>4. todo = Rest(send_byte(v), 3 * 0 + 0) \o t
  <2>1. send_byte(v) \in Seq(Op) /\ 0 \in 0..Len(send_byte(v)) /\ 3 * 0 + 0 = 0
    BY SendOps, LenProperties
  <2>2. Rest(send_byte(v), 0) \o t = send_byte(v) \o t
    BY <2>1, ThenStep
  <2> QED BY <2>1, <2>2, Zenon
<1>5. 0 \in 0..(Width - 1) /\ 0 \in 0..2
  BY <1>1
<1> QED BY <1>3, <1>4, <1>5, Zenon DEF InByte

-----------------------------------------------------------------------------
(* A store, at each place of the program.                                  *)
LEMMA PinKeeps ==
  ASSUME CartPin
  PROVE  /\ UNCHANGED <<tool, pc, present, cjob, pos, len, used, n, i, printed, old, safe,
                        late, more, mainVars>>
         /\ todo # <<>> /\ CartReacts
         /\ HighByte' = HighByte /\ LowByte' = LowByte /\ Pointed' = Pointed
BY DEF CartPin, Do, mainVars, HighByte, LowByte, Pointed

(* A device with nothing to program stays so.                              *)
LEMMA CleanStays ==
  ASSUME Clean, CartSame
  PROVE  Clean'
BY DEF Clean, CartSame, None

(* A store of the first address to a cartridge just powered.               *)
LEMMA BeginPin ==
  ASSUME CartTypeOK, Gone, CartPin, AtBegin
  PROVE  CartPlace' /\ Safely
<1> DEFINE t == IF tool = "readcart" THEN start ELSE <<>>
<1>1. PICK k \in 0..7 : todo = Rest(PowerOn, k) \o t /\ Powering(k)
                        /\ (k < 2 => used = 0 /\ printed = <<>> /\ safe = 0)
  BY DEF AtBegin
<1>2. t \in Seq(Op) /\ PowerOn \in Seq(Op) /\ Len(PowerOn) = 7
  BY CartRoutines, PowerOps
<1>3. pc = "begin" /\ t' = t
  BY PinKeeps DEF AtBegin
<1> HIDE DEF t
<1>4. CASE k < 7
  <2>1. k \in 0..6 /\ k + 1 \in 0..7
    BY <1>4
  <2>2. /\ todo' = Rest(PowerOn, k + 1) \o t /\ Powering(k + 1)'
        /\ (CartSame \/ PowerLost)
    BY <1>1, <1>2, <2>1, PowerPin
  <2>3. k + 1 < 2 => used' = 0 /\ printed' = <<>> /\ safe' = 0
    BY <1>1, PinKeeps
  <2>4. AtBegin'
    <3>1. pc' = "begin" /\ tool' = tool
      BY <1>3, PinKeeps
    <3> QED BY <1>3, <2>1, <2>2, <2>3, <3>1 DEF AtBegin, t
  <2>5. Safely
    BY <2>2, PowerGone DEF Safely, CartSame, PowerLost
  <2> QED BY <2>4, <2>5 DEF CartPlace
<1>5. CASE k = 7
  <2>1. todo = t
    <3>1. 7 \in 0..Len(PowerOn)
      BY <1>2
    <3>2. Rest(PowerOn, 7) \o t = t
      BY <1>2, <3>1, ThenStep
    <3> QED BY <1>1, <1>5, <3>2
  <2>2. tool = "readcart" /\ todo = start
    BY <2>1, PinKeeps DEF t
  <2>3. start \in Seq(Op) /\ 0 \in 0..Len(start) /\ <<>> \in Seq(Op)
    BY CartRoutines, LenProperties
  <2>4. Rest(start, 0) = start /\ Rest(start, 0) \o <<>> = Rest(start, 0)
    BY <2>3, RestStep, Alone
  <2>5. todo = Rest(start, 0) \o <<>>
    BY <2>2, <2>4
  <2>6. Clean /\ Starting(0)
    BY <1>1, <1>5 DEF Powering, Starting, Wired
  <2>7. todo' = Rest(start, 0 + 1) \o <<>> /\ Starting(0 + 1)' /\ CartSame
    <3>1. 0 \in 0..1 /\ (~busy => page = None)
      BY <2>6 DEF Clean
    <3> QED BY <2>3, <2>5, <2>6, <3>1, StartPin
  <2>8. todo' = Rest(start, 1) /\ Starting(1)'
    <3>1. 0 + 1 = 1 /\ 1 \in 0..Len(start)
      BY StartOps
    <3>2. Rest(start, 1) \o <<>> = Rest(start, 1)
      BY <2>3, <3>1, Alone
    <3> QED BY <2>7, <3>1, <3>2
  <2>9. AtBeginStart'
    <3>1. pc' = "begin" /\ tool' = "readcart" /\ Clean'
      BY <1>3, <2>2, <2>6, <2>7, PinKeeps, CleanStays
    <3>2. 1 \in 0..2
      OBVIOUS
    <3> QED BY <2>8, <3>1, <3>2 DEF AtBeginStart
  <2> QED BY <2>7, <2>9, SameSafely DEF CartPlace
<1> QED BY <1>4, <1>5

(* A store of the start before it.                                         *)
LEMMA BeginStartPin ==
  ASSUME CartTypeOK, Gone, CartPin, AtBeginStart
  PROVE  CartPlace' /\ Safely
<1>1. PICK k \in 0..2 : todo = Rest(start, k) /\ Starting(k)
  BY DEF AtBeginStart
<1>2. start \in Seq(Op) /\ Len(start) = 2 /\ <<>> \in Seq(Op)
  BY CartRoutines, StartOps
<1>3. Rest(start, k) \o <<>> = Rest(start, k) /\ (k = 2 <=> Rest(start, k) = <<>>)
  <2>1. k \in 0..Len(start)
    BY <1>2
  <2>2. Rest(start, k) \o <<>> = Rest(start, k) /\ (k = Len(start) <=> Rest(start, k) = <<>>)
    BY <1>2, <2>1, Alone
  <2> QED BY <1>2, <2>2
<1>4. k \in 0..1 /\ k + 1 \in 0..2
  BY <1>1, <1>3, PinKeeps
<1>5. pc = "begin" /\ tool = "readcart" /\ Clean /\ (~busy => page = None)
  BY DEF AtBeginStart, Clean
<1>6. todo' = Rest(start, k + 1) \o <<>> /\ Starting(k + 1)' /\ CartSame
  <2>1. todo = Rest(start, k) \o <<>>
    BY <1>1, <1>3
  <2> QED BY <1>1, <1>2, <1>4, <1>5, <2>1, StartPin
<1>7. Rest(start, k + 1) \o <<>> = Rest(start, k + 1)
  <2>1. k + 1 \in 0..Len(start)
    BY <1>2, <1>4
  <2> QED BY <1>2, <2>1, Alone
<1>8. pc' = "begin" /\ tool' = "readcart" /\ Clean'
  BY <1>5, <1>6, PinKeeps, CleanStays
<1>9. AtBeginStart'
  BY <1>4, <1>6, <1>7, <1>8 DEF AtBeginStart
<1> QED BY <1>6, <1>9, SameSafely DEF CartPlace

(* A store of the device's address before a page.                          *)
LEMMA DevicePin ==
  ASSUME CartTypeOK, Gone, CartPin, AtDevice
  PROVE  CartPlace' /\ Safely
<1>1. pc = "device" /\ Clean /\ InByte("ctl", CtlWrite, <<>>)
  BY DEF AtDevice
<1>2. Silence /\ ~(present /\ busy)
  BY <1>1 DEF Clean, Silence
<1>3. InByte("ctl", CtlWrite, <<>>)' /\ rom' = rom /\ busy' = busy /\ page' = page
  <2>1. "ctl" \in {"ctl", "hi", "lo", "data"} /\ "ctl" # "data"
    OBVIOUS
  <2>2. ~(todo = <<>> /\ Acking("ctl", CtlWrite, 6))
    BY PinKeeps
  <2>3. CtlWrite \in CartByte /\ CtlWrite \in {CtlWrite, CtlRead} /\ <<>> \in Seq(Op)
    BY ControlBytes, CartRoutines
  <2> QED BY <1>1, <1>2, <2>1, <2>2, <2>3, BytePin
<1>4. CartSame /\ Clean' /\ pc' = "device"
  BY <1>1, <1>3, CleanStays, PinKeeps DEF CartSame
<1>5. AtDevice'
  BY <1>3, <1>4 DEF AtDevice
<1> QED BY <1>4, <1>5, SameSafely DEF CartPlace

(* A store of the start before it.                                         *)
LEMMA DeviceStartPin ==
  ASSUME CartTypeOK, Gone, CartPin, AtDeviceStart
  PROVE  CartPlace' /\ Safely
<1> DEFINE t == send_byte(CtlWrite)
<1>1. PICK k \in 0..2 : todo = Rest(start, k) \o t /\ Starting(k)
  BY DEF AtDeviceStart
<1>2. start \in Seq(Op) /\ Len(start) = 2 /\ t \in Seq(Op) /\ <<>> \in Seq(Op)
  BY CartRoutines, StartOps
<1>3. pc = "device" /\ tool = "writecart" /\ Clean /\ got = <<>> /\ (~busy => page = None)
  BY DEF AtDeviceStart, Clean
<1> HIDE DEF t
<1>4. CASE k < 2
  <2>1. k \in 0..1 /\ k + 1 \in 0..2
    BY <1>4
  <2>2. todo' = Rest(start, k + 1) \o t /\ Starting(k + 1)' /\ got' = got /\ CartSame
    BY <1>1, <1>2, <1>3, <2>1, StartPin
  <2>3. pc' = "device" /\ tool' = "writecart" /\ Clean' /\ got' = <<>>
    BY <1>3, <2>2, PinKeeps, CleanStays
  <2>4. AtDeviceStart'
    BY <2>1, <2>2, <2>3 DEF AtDeviceStart, t
  <2> QED BY <2>2, <2>4, SameSafely DEF CartPlace
<1>5. CASE k = 2
  <2>1. todo = t
    <3>1. 2 \in 0..Len(start)
      BY <1>2
    <3>2. Rest(start, 2) \o t = t
      BY <1>2, <3>1, ThenStep
    <3> QED BY <1>1, <1>5, <3>2
  <2>2. t \o <<>> = t
    BY <1>2, ConcatEmptySeq
  <2>3. todo = send_byte(CtlWrite) \o <<>>
    BY <2>1, <2>2 DEF t
  <2>4. InByte("ctl", CtlWrite, <<>>)
    <3>1. Wired /\ SdaOut /\ ~pull /\ ~SclHigh /\ (present => mode = "ctl" /\ bits = 0 /\ shift = 0)
      BY <1>1, <1>5 DEF Starting
    <3> QED BY <1>2, <1>3, <2>3, <3>1, ByteBegins, ControlBytes
  <2>5. AtDevice
    BY <1>3, <2>4 DEF AtDevice
  <2> QED BY <2>5, DevicePin
<1> QED BY <1>4, <1>5

(* A store of the address's high byte.                                     *)
LEMMA HighPin ==
  ASSUME CartTypeOK, Gone, CartPin, AtHigh
  PROVE  CartPlace' /\ Safely
<1>1. /\ pc = "high" /\ Clean /\ InByte("hi", HighByte, <<>>)
      /\ present /\ ByteTaken => ptr = HighByte
  BY DEF AtHigh
<1>2. Silence /\ ~(present /\ busy)
  BY <1>1 DEF Clean, Silence
<1>3. /\ InByte("hi", HighByte, <<>>)' /\ rom' = rom /\ busy' = busy /\ page' = page
      /\ present /\ pc # "polled" =>
              IF ~ByteTaken /\ ByteTaken' THEN TakesByte("hi", HighByte)
              ELSE page' = page /\ ptr' = ptr /\ (ByteTaken <=> ByteTaken')
  <2>0. PICK v \in CartByte : v = HighByte
    BY ControlBytes DEF CartTypeOK
  <2>1. "hi" \in {"ctl", "hi", "lo", "data"} /\ "hi" # "data" /\ "hi" # "ctl" /\ <<>> \in Seq(Op)
    BY CartRoutines
  <2>2. ~(todo = <<>> /\ Acking("hi", v, 6))
    BY PinKeeps
  <2>3. InByte("hi", v, <<>>) /\ HighByte' = v
    BY <1>1, <2>0, PinKeeps
  <2>4. /\ InByte("hi", v, <<>>)' /\ rom' = rom /\ busy' = busy /\ page' = page
        /\ present /\ pc # "polled" =>
              IF ~ByteTaken /\ ByteTaken' THEN TakesByte("hi", v)
              ELSE page' = page /\ ptr' = ptr /\ (ByteTaken <=> ByteTaken')
    BY <1>2, <2>1, <2>2, <2>3, BytePin
  <2>5. InByte("hi", HighByte, <<>>)'
    BY <2>3, <2>4
  <2> QED BY <2>0, <2>4, <2>5
<1>4. CartSame /\ Clean' /\ pc' = "high" /\ present' = present
  BY <1>1, <1>3, CleanStays, PinKeeps DEF CartSame
<1>5. present /\ ByteTaken' => ptr' = HighByte
  BY <1>1, <1>3 DEF TakesByte
<1>6. AtHigh'
  BY <1>3, <1>4, <1>5, PinKeeps DEF AtHigh
<1> QED BY <1>4, <1>6, SameSafely DEF CartPlace

(* A store of the address's low byte.                                      *)
LEMMA LowPin ==
  ASSUME CartTypeOK, Gone, CartPin, AtLow
  PROVE  CartPlace' /\ Safely
<1>1. /\ pc = "low" /\ Clean /\ InByte("lo", LowByte, <<>>)
      /\ present => ptr = IF ByteTaken THEN Pointed ELSE HighByte
  BY DEF AtLow
<1>2. Silence /\ ~(present /\ busy)
  BY <1>1 DEF Clean, Silence
<1>3. /\ InByte("lo", LowByte, <<>>)' /\ rom' = rom /\ busy' = busy /\ page' = page
      /\ present /\ pc # "polled" =>
              IF ~ByteTaken /\ ByteTaken' THEN TakesByte("lo", LowByte)
              ELSE page' = page /\ ptr' = ptr /\ (ByteTaken <=> ByteTaken')
  <2>0. PICK v \in CartByte : v = LowByte
    BY ControlBytes DEF CartTypeOK
  <2>1. "lo" \in {"ctl", "hi", "lo", "data"} /\ "lo" # "data" /\ "lo" # "ctl" /\ <<>> \in Seq(Op)
    BY CartRoutines
  <2>2. ~(todo = <<>> /\ Acking("lo", v, 6))
    BY PinKeeps
  <2>3. InByte("lo", v, <<>>) /\ LowByte' = v
    BY <1>1, <2>0, PinKeeps
  <2>4. /\ InByte("lo", v, <<>>)' /\ rom' = rom /\ busy' = busy /\ page' = page
        /\ present /\ pc # "polled" =>
              IF ~ByteTaken /\ ByteTaken' THEN TakesByte("lo", v)
              ELSE page' = page /\ ptr' = ptr /\ (ByteTaken <=> ByteTaken')
    BY <1>2, <2>1, <2>2, <2>3, BytePin
  <2>5. InByte("lo", LowByte, <<>>)'
    BY <2>3, <2>4
  <2> QED BY <2>0, <2>4, <2>5
<1>4. CartSame /\ Clean' /\ pc' = "low" /\ present' = present
  BY <1>1, <1>3, CleanStays, PinKeeps DEF CartSame
<1>5. ASSUME present PROVE ptr' = IF ByteTaken' THEN Pointed ELSE HighByte
  <2>1. CASE ~ByteTaken /\ ByteTaken'
    <3>1. ptr' = 2 ^ Width * ptr + LowByte
      BY <1>1, <1>3, <1>5, <2>1 DEF TakesByte
    <3>2. ptr = HighByte
      BY <1>1, <1>5, <2>1
    <3>3. ptr' = Pointed
      BY <3>1, <3>2, Zenon DEF Pointed
    <3> QED BY <2>1, <3>3
  <2>2. CASE ~(~ByteTaken /\ ByteTaken')
    <3>1. ptr' = ptr /\ (ByteTaken <=> ByteTaken')
      BY <1>1, <1>3, <1>5, <2>2
    <3> QED BY <1>1, <1>5, <3>1
  <2> QED BY <2>1, <2>2
<1>6. AtLow'
  BY <1>3, <1>4, <1>5, PinKeeps DEF AtLow
<1> QED BY <1>4, <1>6, SameSafely DEF CartPlace

(* The same, with its length named.                                        *)
LEMMA AloneAt ==
  ASSUME NEW r \in Seq(Op), NEW l, Len(r) = l, NEW k \in 0..l
  PROVE  Rest(r, k) \o <<>> = Rest(r, k) /\ (k = l <=> Rest(r, k) = <<>>)
<1>1. k \in 0..Len(r)
  OBVIOUS
<1>2. Rest(r, k) \o <<>> = Rest(r, k) /\ (k = Len(r) <=> Rest(r, k) = <<>>)
  BY <1>1, Alone
<1> QED BY <1>2

(* A sequence done: what is behind it is left.                             *)
LEMMA EndsAt ==
  ASSUME NEW r \in Seq(Op), NEW l, Len(r) = l, NEW t \in Seq(Op)
  PROVE  Rest(r, l) \o t = t
<1>1. Len(r) \in 0..Len(r)
  BY LenProperties
<1>2. Rest(r, Len(r)) \o t = t
  BY <1>1, ThenStep
<1> QED BY <1>2

(* A sequence not begun: all of it is left.                                *)
LEMMA FrontAt ==
  ASSUME NEW r \in Seq(Op), NEW t \in Seq(Op)
  PROVE  Rest(r, 0) \o t = r \o t /\ Rest(r, 0) = r /\ 0 \in 0..Len(r)
<1>1. 0 \in 0..Len(r)
  BY LenProperties
<1> QED BY <1>1, ThenStep, RestStep

(* A store of the second start of a readcart, or of the address that asks  *)
(* for bytes.                                                              *)
LEMMA AgainPin ==
  ASSUME CartTypeOK, Gone, CartPin, AtAgain
  PROVE  CartPlace' /\ Safely
<1>1. /\ pc = "again" /\ tool = "readcart" /\ Clean
      /\ present => ptr = Pointed
  BY DEF AtAgain
<1>2. Silence /\ ~(present /\ busy) /\ (~busy => page = None)
  BY <1>1 DEF Clean, Silence
<1>3. /\ restart \in Seq(Op) /\ Len(restart) = 4 /\ <<>> \in Seq(Op)
      /\ send_byte(CtlRead) \in Seq(Op) /\ CtlRead \in CartByte
  BY CartRoutines, RestartOps, ControlBytes
<1>4. ASSUME CartSame, present => ptr' = ptr
      PROVE  /\ pc' = "again" /\ tool' = "readcart" /\ Clean'
             /\ present' => ptr' = Pointed'
  BY <1>1, <1>4, PinKeeps, CleanStays
<1>5. ASSUME InByte("ctl", CtlRead, <<>>)
      PROVE  CartPlace' /\ Safely
  <2>1. "ctl" \in {"ctl", "hi", "lo", "data"} /\ "ctl" # "data" /\ CtlRead \in {CtlWrite, CtlRead}
    OBVIOUS
  <2>2. ~(todo = <<>> /\ Acking("ctl", CtlRead, 6))
    BY PinKeeps
  <2>3. /\ InByte("ctl", CtlRead, <<>>)' /\ rom' = rom /\ busy' = busy /\ page' = page
        /\ present => ptr' = ptr
    BY <1>2, <1>3, <1>5, <2>1, <2>2, BytePin
  <2>4. CartSame
    BY <2>3 DEF CartSame
  <2>5. AtAgain'
    BY <1>4, <2>3, <2>4 DEF AtAgain
  <2> QED BY <2>4, <2>5, SameSafely DEF CartPlace
<1>6. ASSUME NEW k \in 0..4, todo = Rest(restart, k) \o send_byte(CtlRead),
             Restarting(k), got = <<>>
      PROVE  CartPlace' /\ Safely
  <2>1. CASE k < 4
    <3>1. k \in 0..3 /\ k + 1 \in 0..4
      BY <2>1
    <3>2. /\ todo' = Rest(restart, k + 1) \o send_byte(CtlRead) /\ Restarting(k + 1)'
          /\ got' = got /\ CartSame /\ (present => ptr' = ptr)
      BY <1>2, <1>3, <1>6, <3>1, RestartPin
    <3>3. AtAgain'
      BY <1>4, <1>6, <3>1, <3>2 DEF AtAgain
    <3> QED BY <3>2, <3>3, SameSafely DEF CartPlace
  <2>2. CASE k = 4
    <3>1. todo = send_byte(CtlRead)
      BY <1>3, <1>6, <2>2, EndsAt
    <3>2. send_byte(CtlRead) \o <<>> = send_byte(CtlRead)
      BY <1>3, ConcatEmptySeq
    <3>3. /\ Wired /\ SdaOut /\ ~pull /\ ~SclHigh
          /\ present => mode = "ctl" /\ bits = 0 /\ shift = 0
      BY <1>6, <2>2 DEF Restarting
    <3>4. InByte("ctl", CtlRead, <<>>)
      BY <1>3, <1>6, <3>1, <3>2, <3>3, ByteBegins
    <3> QED BY <1>5, <3>4
  <2> QED BY <2>1, <2>2
<1> QED BY <1>5, <1>6 DEF AtAgain

(* A store of the stop behind the bytes of a page.                         *)
LEMMA StoppedPin ==
  ASSUME CartTypeOK, Gone, CartPin, AtStop
  PROVE  CartPlace' /\ Safely
<1>1. PICK k \in 0..2 :
        /\ todo = Rest(stop, k) /\ Stopping(k)
        /\ present => /\ mode = "data" /\ bits = (IF k = 2 THEN 1 ELSE 0)
                      /\ ~busy /\ page = Bytes(cjob.start + safe, cjob.start + used)
  BY DEF AtStop
<1>2. pc = "poll" /\ tool = "writecart"
  BY DEF AtStop
<1>3. stop \in Seq(Op) /\ Len(stop) = 3 /\ <<>> \in Seq(Op)
  BY CartRoutines, StopOps
<1>4. k \in 0..3 /\ k + 1 \in 0..3
  BY <1>1
<1>5. Rest(stop, k) \o <<>> = Rest(stop, k) /\ Rest(stop, k + 1) \o <<>> = Rest(stop, k + 1)
  BY <1>3, <1>4, AloneAt
<1>6. /\ todo' = Rest(stop, k + 1) \o <<>> /\ Stopping(k + 1)' /\ got' = got
      /\ rom' = rom /\ page' = page
      /\ present =>
           /\ k < 2 => mode' = mode
           /\ k = 0 => bits' = bits
           /\ k = 1 /\ mode = "data" => bits' = bits + 1
      /\ busy' = (busy \/ (present /\ k = 2 /\ mode = "data" /\ bits = 1 /\ page # None))
  <2>1. todo = Rest(stop, k) \o <<>> /\ Stopping(k)
    BY <1>1, <1>5
  <2> QED BY <1>3, <2>1, StopPin
<1>7. busy \in BOOLEAN
  BY DEF CartTypeOK
<1>8. Safely
  <2>1. Clean => CartSame
    <3>1. Clean => page = None /\ ~busy
      BY DEF Clean
    <3>2. Clean => busy' = busy
      BY <1>6, <1>7, <3>1
    <3> QED BY <1>6, <3>2 DEF CartSame
  <2> QED BY <1>6, <2>1 DEF Safely
<1>9. CASE k < 2
  <2>1. k + 1 \in 0..2 /\ (k + 1 = 2 <=> k = 1) /\ k # 2
    BY <1>9
  <2>2. busy' = busy
    BY <1>6, <1>7, <2>1
  <2>3. present => /\ mode' = "data" /\ bits' = (IF k + 1 = 2 THEN 1 ELSE 0)
                   /\ ~busy' /\ page' = Bytes(cjob.start + safe, cjob.start + used)
    <3>1. k = 0 \/ k = 1
      BY <1>1, <1>9
    <3> QED BY <1>1, <1>6, <1>9, <2>1, <2>2, <3>1
  <2>4. Bytes(cjob.start + safe, cjob.start + used)' = Bytes(cjob.start + safe, cjob.start + used)
    BY PinKeeps DEF Bytes
  <2>5. AtStop'
    <3>1. todo' = Rest(stop, k + 1) /\ pc' = "poll" /\ tool' = "writecart" /\ present' = present
      BY <1>2, <1>5, <1>6, PinKeeps
    <3> QED BY <1>6, <2>1, <2>3, <2>4, <3>1 DEF AtStop
  <2> QED BY <1>8, <2>5 DEF CartPlace
<1>10. CASE k = 2
  <2>1. todo' = <<>> /\ Stopping(3)'
    <3>1. k + 1 = 3
      BY <1>10
    <3>2. Rest(stop, 3) \o <<>> = <<>>
      BY <1>3, EndsAt
    <3> QED BY <1>6, <3>1, <3>2
  <2>2. Free' /\ (present' => mode' = "idle")
    BY <2>1 DEF Stopping, Free
  <2>3. ~busy' => page' = None
    <3>1. CASE ~present
      BY <1>6, <3>1 DEF Gone, Clean
    <3>2. CASE present
      <4>1. mode = "data" /\ bits = 1
        BY <1>1, <1>10, <3>2
      <4>2. busy' = (busy \/ page # None)
        BY <1>6, <1>7, <1>10, <3>2, <4>1
      <4> QED BY <1>6, <4>2
    <3> QED BY <3>1, <3>2
  <2>4. present => \A a \in (cjob.start + safe)..(cjob.start + used - 1) : a \in DOMAIN page'
    <3>1. present => page' = Bytes(cjob.start + safe, cjob.start + used)
      BY <1>1, <1>6
    <3>2. cjob.start \in Nat /\ safe \in Nat /\ used \in Nat
      BY JobTypes DEF CartTypeOK
    <3>3. \A a \in (cjob.start + safe)..(cjob.start + used - 1) :
            a \in (cjob.start + safe)..((cjob.start + used) - 1)
      BY <3>2
    <3> QED BY <3>1, <3>3 DEF Bytes
  <2>5. Pending'
    BY <2>3, <2>4, PinKeeps DEF Pending
  <2>6. AtPoll'
    BY <1>2, <2>1, <2>2, <2>5, PinKeeps DEF AtPoll
  <2> QED BY <1>8, <2>6 DEF CartPlace
<1> QED BY <1>1, <1>9, <1>10

(* A store of the way out.                                                 *)
LEMMA ExitPin ==
  ASSUME CartTypeOK, Gone, CartPin, AtExit
  PROVE  CartPlace' /\ Safely
<1>1. PICK k \in 0..8 : todo = Rest(Leave, k) /\ Parting(k)
  BY DEF AtExit
<1>2. Leave \in Seq(Op) /\ Len(Leave) = 8
  BY CartRoutines, LeaveOps
<1>3. k = 8 <=> Rest(Leave, k) = <<>>
  BY <1>2, AloneAt
<1>4. k \in 0..7 /\ k + 1 \in 0..8
  BY <1>1, <1>3, PinKeeps
<1>5. /\ todo' = Rest(Leave, k + 1) /\ Parting(k + 1)' /\ got' = got
      /\ PowerLost \/ (rom' = rom /\ (page' = page \/ (page' = None /\ ~busy)))
      /\ Clean => CartSame
  BY <1>1, <1>4, LeavePin
<1>6. pc' = "exit"
  BY PinKeeps DEF AtExit
<1>7. AtExit'
  BY <1>4, <1>5, <1>6 DEF AtExit
<1>8. Safely
  BY <1>5 DEF Safely
<1> QED BY <1>7, <1>8 DEF CartPlace

-----------------------------------------------------------------------------
(* Within a page the next cell is the next address.                        *)
LEMMA Divides ==
  ASSUME NEW m \in Nat \ {0}, NEW x \in Nat
  PROVE  x = m * (x \div m) + (x % m) /\ x \div m \in Nat /\ x % m \in 0..(m - 1)
BY Z3

(* A remainder is what a quotient leaves.                                  *)
LEMMA Remainder ==
  ASSUME NEW m \in Nat \ {0}, NEW x \in Nat, NEW q \in Nat, NEW r \in 0..(m - 1),
         x = m * q + r
  PROVE  x % m = r
BY Z3

(* The next cell of a page, inside the page.                               *)
LEMMA NextCell ==
  ASSUME NEW p \in Nat, (p % page_size) + 1 < page_size
  PROVE  NextInPage(p) = p + 1
<1>1. page_size \in Nat \ {0} /\ DevicePage \in Nat \ {0} /\ DevicePage % page_size = 0
  BY CartAssumption
<1>2. PICK e \in Nat : DevicePage = page_size * e
  <2>1. /\ DevicePage = page_size * (DevicePage \div page_size) + 0
        /\ DevicePage \div page_size \in Nat
    BY <1>1, Divides
  <2> QED BY <1>1, <2>1
<1>3. PICK q \in Nat, r \in 0..(page_size - 1) : p = page_size * q + r /\ r = p % page_size
  BY <1>1, Divides
<1>4. PICK a \in Nat, b \in 0..(DevicePage - 1) : p = DevicePage * a + b /\ b = p % DevicePage
  BY <1>1, Divides
<1>5. (p + 1) % page_size = r + 1
  <2>1. p + 1 = page_size * q + (r + 1) /\ r + 1 \in 0..(page_size - 1) /\ p + 1 \in Nat
    BY <1>1, <1>3
  <2> QED BY <1>1, <2>1, Remainder
<1>6. b + 1 # DevicePage
  <2> SUFFICES ASSUME b + 1 = DevicePage PROVE FALSE
    OBVIOUS
  <2>1. p + 1 = DevicePage * (a + 1)
    BY <1>1, <1>4
  <2>2. DevicePage * (a + 1) = page_size * (e * (a + 1))
    BY <1>1, <1>2
  <2>3. e * (a + 1) \in Nat /\ 0 \in 0..(page_size - 1) /\ p + 1 \in Nat
    BY <1>1
  <2>4. p + 1 = page_size * (e * (a + 1)) + 0
    BY <1>1, <2>1, <2>2, <2>3
  <2>5. (p + 1) % page_size = 0
    BY <1>1, <2>3, <2>4, Remainder
  <2> QED BY <1>3, <1>5, <2>5
<1>7. (p + 1) % DevicePage = b + 1
  <2>1. p + 1 = DevicePage * a + (b + 1) /\ b + 1 \in 0..(DevicePage - 1) /\ p + 1 \in Nat
    BY <1>1, <1>4, <1>6
  <2> QED BY <1>1, <2>1, Remainder
<1>8. NextInPage(p) = (p - b) + (b + 1)
  BY <1>4, <1>7 DEF NextInPage
<1>9. b \in Int
  BY <1>1, <1>4
<1> QED BY <1>8, <1>9

(* A byte taken into the page, or dropped with it, keeps what is known of  *)
(* the cells, if the page is right.                                        *)
LEMMA DataTaken ==
  ASSUME Data, UNCHANGED <<mainVars, tool, pc>>, rom' = rom, tool = "writecart", PageRight'
  PROVE  Data'
<1>1. UNCHANGED <<cjob, pos, len, used, n, i, printed, old, safe, late, more, tool, pc>>
  BY DEF mainVars
<1>2. CartCounts'
  BY <1>1 DEF Data, CartCounts
<1>3. Wanted' = Wanted
  BY <1>1 DEF Wanted
<1>4. RomRight'
  BY <1>1, <1>3 DEF Data, RomRight
<1>5. PrintRight'
  BY <1>1 DEF PrintRight
<1> QED BY <1>2, <1>4, <1>5 DEF Data

(* A byte of the page: it goes into its cell.                              *)
LEMMA DataPin ==
  ASSUME CartTypeOK, Gone, Data, CartPin, AtData
  PROVE  CartPlace' /\ Data'
<1> DEFINE v == cjob.input[used + i + 1]
           I == InByte("data", v, <<>>)
<1>1. /\ pc = "data" /\ tool = "writecart" /\ I
      /\ present => /\ ~busy
                    /\ ByteTaken => page = Bytes(pos, pos + i + 1)
                    /\ ~ByteTaken => page = Bytes(pos, pos + i)
                    /\ ~ByteTaken => ptr = pos + i
                    /\ ByteTaken /\ i + 1 < n => ptr = pos + i + 1
  BY DEF AtData
<1>2. /\ i < n /\ n <= len /\ used + n <= Len(cjob.input)
      /\ pos = cjob.start + used /\ safe = used /\ pos + len = cjob.start + cjob.length
  BY <1>1 DEF Data, CartCounts
<1>12. (pos % page_size) + n <= page_size
  BY <1>1 DEF Data, CartCounts
<1>3. /\ cjob.start \in Nat /\ cjob.length \in Nat /\ cjob.input \in Seq(CartByte)
      /\ Len(cjob.input) \in Nat /\ cjob.start + Len(cjob.input) <= Size
      /\ Size \in Nat \ {0} /\ page_size \in Nat \ {0}
      /\ pos \in Nat /\ len \in Nat /\ used \in Nat /\ n \in Nat /\ i \in Nat /\ ptr \in Nat
  BY JobTypes, CartAssumption DEF CartTypeOK
<1>4. v \in CartByte
  <2>1. used + i + 1 \in 1..Len(cjob.input)
    BY <1>2, <1>3
  <2> QED BY <1>3, <2>1, ElementOfSeq
<1>5. /\ UNCHANGED <<tool, pc, present, cjob, pos, len, used, n, i, mainVars>>
      /\ todo # <<>>
  BY PinKeeps
<1>6. v' = v /\ \A lo, hi : Bytes(lo, hi)' = Bytes(lo, hi)
  BY <1>5 DEF Bytes
<1>7. Silence /\ ~(present /\ busy)
  BY <1>1 DEF Gone, Silence
<1> HIDE DEF v
<1>8. /\ I' /\ rom' = rom /\ busy' = busy
      /\ ~present => page' = page
      /\ present => IF ~ByteTaken /\ ByteTaken' THEN TakesByte("data", v)
                    ELSE page' = page /\ ptr' = ptr /\ (ByteTaken <=> ByteTaken')
  <2>1. "data" \in {"ctl", "hi", "lo", "data"} /\ "data" # "ctl" /\ <<>> \in Seq(Op)
    BY CartRoutines
  <2>2. PICK w \in CartByte : w = v
    BY <1>4
  <2>3. InByte("data", w, <<>>)
    BY <1>1, <2>2
  <2>4. ~(todo = <<>> /\ Acking("data", w, 6))
    BY <1>5
  <2>5. /\ InByte("data", w, <<>>)' /\ rom' = rom /\ busy' = busy
        /\ ~present => page' = page
        /\ present /\ pc # "polled" =>
             IF ~ByteTaken /\ ByteTaken' THEN TakesByte("data", w)
             ELSE page' = page /\ ptr' = ptr /\ (ByteTaken <=> ByteTaken')
    BY <1>7, <2>1, <2>3, <2>4, BytePin
  <2>6. v' = w
    BY <1>6, <2>2
  <2>7. I'
    BY <2>5, <2>6
  <2> QED BY <1>1, <2>2, <2>5, <2>7
<1>9. ASSUME present, ~ByteTaken, ByteTaken'
      PROVE  /\ page' = Bytes(pos, pos + i + 1)
             /\ i + 1 < n => ptr' = pos + i + 1
             /\ \A a \in DOMAIN page' : \/ a \in DOMAIN page /\ page'[a] = page[a]
                                        \/ a = pos + i /\ page'[a] = v
  <2>1. ptr = pos + i /\ page = Bytes(pos, pos + i) /\ TakesByte("data", v)
    BY <1>1, <1>8, <1>9
  <2>2. ptr % Size = pos + i
    <3>1. ptr \in 0..(Size - 1) /\ ptr = Size * 0 + ptr
      BY <1>2, <1>3, <2>1, SMTT(30)
    <3>2. ptr % Size = ptr
      BY <1>3, <3>1, Remainder
    <3> QED BY <2>1, <3>2
  <2>3. /\ ptr' = NextInPage(pos + i)
        /\ page' = [x \in DOMAIN page \cup {pos + i} |-> IF x = pos + i THEN v ELSE page[x]]
    BY <2>1, <2>2 DEF TakesByte
  <2>4. page' = Bytes(pos, pos + i + 1)
    <3>1. DOMAIN page = pos..((pos + i) - 1)
          /\ \A a \in DOMAIN page : page[a] = cjob.input[a - cjob.start + 1]
      BY <2>1 DEF Bytes
    <3>2. DOMAIN page \cup {pos + i} = pos..((pos + i + 1) - 1)
      BY <1>3, <3>1
    <3>3. v = cjob.input[(pos + i) - cjob.start + 1]
      <4>1. (pos + i) - cjob.start + 1 = used + i + 1
        BY <1>2, <1>3, SMTT(30)
      <4> QED BY <4>1 DEF v
    <3>4. page' = [a \in pos..((pos + i + 1) - 1) |-> cjob.input[a - cjob.start + 1]]
      BY <2>3, <3>1, <3>2, <3>3
    <3> QED BY <3>4 DEF Bytes
  <2>5. ASSUME i + 1 < n PROVE ptr' = pos + i + 1
    <3>1. PICK q \in Nat, r \in 0..(page_size - 1) : pos = page_size * q + r /\ r = pos % page_size
      BY <1>3, Divides
    <3>2. (pos + i) % page_size = r + i
      <4>1. r + i \in 0..(page_size - 1)
        <5>1. r + n <= page_size
          BY <1>12, <3>1
        <5>2. r \in Nat
          BY <1>3
        <5> QED BY <1>3, <2>5, <5>1, <5>2
      <4>2. pos + i = page_size * q + (r + i) /\ pos + i \in Nat
        BY <1>3, <3>1, SMTT(30)
      <4> QED BY <1>3, <4>1, <4>2, Remainder
    <3>3. ((pos + i) % page_size) + 1 < page_size /\ pos + i \in Nat
      <4>1. r + n <= page_size /\ r \in Nat
        BY <1>3, <1>12, <3>1
      <4>2. (r + i) + 1 < page_size /\ pos + i \in Nat
        BY <1>3, <2>5, <4>1
      <4> QED BY <3>2, <4>2
    <3> QED BY <2>3, <3>3, NextCell
  <2> QED BY <2>3, <2>4, <2>5
<1>10. AtData'
  <2>1. ASSUME present
        PROVE  /\ ~busy'
               /\ ByteTaken' => page' = Bytes(pos, pos + i + 1)
               /\ ~ByteTaken' => page' = Bytes(pos, pos + i)
               /\ ~ByteTaken' => ptr' = pos + i
               /\ ByteTaken' /\ i + 1 < n => ptr' = pos + i + 1
    <3>1. CASE ~ByteTaken /\ ByteTaken'
      BY <1>1, <1>8, <1>9, <2>1, <3>1
    <3>2. CASE ~(~ByteTaken /\ ByteTaken')
      BY <1>1, <1>8, <2>1, <3>2
    <3> QED BY <3>1, <3>2
  <2> QED BY <1>1, <1>5, <1>6, <1>8, <2>1 DEF AtData, v
<1>11. Data'
  <2>1. CASE page' = page
    <3>1. Safely
      BY <1>8, <2>1 DEF Safely, CartSame
    <3> QED BY <1>5, <3>1, DataKept
  <2>2. CASE present /\ ~ByteTaken /\ ByteTaken'
    <3>1. pos + i \in DOMAIN Wanted /\ Wanted[pos + i] = v
      <4>1. pos + i \in cjob.start..(cjob.start + Lesser(cjob.length, Len(cjob.input)) - 1)
        <5>1. PICK h \in Nat : h = Lesser(cjob.length, Len(cjob.input))
          BY WantedIs
        <5>2. h = cjob.length \/ h = Len(cjob.input)
          BY <5>1 DEF Lesser
        <5>3. used + i < cjob.length /\ used + i < Len(cjob.input)
          BY <1>2, <1>3
        <5>4. used + i < h /\ used + i \in Nat
          BY <1>3, <5>2, <5>3
        <5>5. pos + i = cjob.start + (used + i)
          BY <1>2, <1>3
        <5>6. pos + i \in cjob.start..(cjob.start + h - 1)
          BY <1>3, <5>4, <5>5
        <5> QED BY <5>1, <5>6
      <4>2. (pos + i) - cjob.start + 1 = used + i + 1
        BY <1>2, <1>3, SMTT(30)
      <4> QED BY <4>1, <4>2, WantedIs DEF v
    <3>2. Wanted' = Wanted
      BY <1>5 DEF Wanted
    <3>3. PageRight'
      <4>1. PageRight
        BY DEF Data
      <4> QED BY <1>1, <1>5, <1>9, <2>2, <3>1, <3>2, <4>1 DEF PageRight
    <3> QED BY <1>1, <1>5, <1>8, <3>3, DataTaken
  <2> QED BY <1>8, <2>1, <2>2
<1> QED BY <1>10, <1>11 DEF CartPlace

-----------------------------------------------------------------------------
(* A poll.                                                                 *)
LEMMA PolledKept ==
  ASSUME CartTypeOK, Gone, Silence, Pending, Answers, CartSame,
         UNCHANGED <<mainVars, present>>,
         \/ got' = got
         \/ got' = <<IF pull THEN {} ELSE {SdaPin}>>
         \/ got # <<>> /\ got' = Append(got, IF pull THEN {} ELSE {SdaPin})
  PROVE  Pending' /\ Answers'
<1>1. UNCHANGED <<cjob, safe, used, present>> /\ rom' = rom /\ page' = page /\ busy' = busy
  BY DEF mainVars, CartSame
<1>2. Pending'
  BY <1>1 DEF Pending, None
<1>3. ASSUME got' # <<>>, got'[1] = {}
      PROVE  Clean /\ Right(cjob.start + safe, cjob.start + used)
  <2>1. CASE got # <<>> /\ got[1] = {}
    BY <2>1 DEF Answers
  <2>2. CASE pull
    <3>1. present /\ ~busy
      BY <2>2 DEF Gone, Silence
    <3>2. page = None
      BY <3>1 DEF Pending
    <3>3. Right(cjob.start + safe, cjob.start + used)
      <4>1. \A a \in (cjob.start + safe)..(cjob.start + used - 1) :
              rom[a] = cjob.input[a - cjob.start + 1]
        BY <3>1, <3>2 DEF Pending, None
      <4>2. cjob.start \in Nat /\ safe \in Nat /\ used \in Nat
        BY JobTypes DEF CartTypeOK
      <4>3. \A a \in (cjob.start + safe)..((cjob.start + used) - 1) :
              a \in (cjob.start + safe)..(cjob.start + used - 1)
        BY <4>2
      <4> QED BY <4>1, <4>3 DEF Right
    <3> QED BY <3>1, <3>2, <3>3 DEF Clean
  <2>3. got # <<>> /\ got' = Append(got, IF pull THEN {} ELSE {SdaPin}) => got'[1] = got[1]
    <3>1. got \in Seq(SUBSET {SdaPin})
      BY DEF CartTypeOK
    <3>2. (IF pull THEN {} ELSE {SdaPin}) \in SUBSET {SdaPin}
      OBVIOUS
    <3>3. got # <<>> => 1 \in 1..Len(got)
      BY <3>1, EmptySeq, LenProperties
    <3> QED BY <3>1, <3>2, <3>3, AppendProperties
  <2>4. got' = <<IF pull THEN {} ELSE {SdaPin}>> => pull
    <3> SUFFICES ASSUME got' = <<IF pull THEN {} ELSE {SdaPin}>>, ~pull PROVE FALSE
      OBVIOUS
    <3>1. got'[1] = {SdaPin}
      OBVIOUS
    <3> QED BY <1>3, <3>1
  <2> QED BY <1>3, <2>1, <2>2, <2>3, <2>4
<1>4. Answers'
  BY <1>1, <1>3 DEF Answers, Clean, Right, None
<1> QED BY <1>2, <1>4

(* A level that has been read is there.                                    *)
LEMMA Sampled ==
  ASSUME got \in Seq(SUBSET {SdaPin}), NEW k \in Nat, Len(got) = 1 + k
  PROVE  got # <<>>
<1>1. Len(got) # 0
  OBVIOUS
<1>2. got = <<>> => Len(got) = 0
  BY EmptySeq, Zenon
<1> QED BY <1>1, <1>2

(* A store of a poll.                                                      *)
LEMMA PolledPin ==
  ASSUME CartTypeOK, Gone, CartPin, AtPolled
  PROVE  CartPlace' /\ Safely
<1> DEFINE t2 == stop
           t1 == send_nak \o t2
           t0 == recv_byte \o t1
           OnStart == \E k \in 0..2 : todo = Rest(start, k) \o (send_byte(CtlRead) \o t0)
                                       /\ Starting(k) /\ got = <<>>
           OnByte == InByte("ctl", CtlRead, t0)
           OnAnswer == \E p \in Nat : InReceive(p, t1)
           OnNak == \E k \in 0..3 : todo = Rest(send_nak, k) \o t2 /\ NakPlace(k)
           OnStop == \E k \in 0..3 : /\ todo = Rest(stop, k) /\ Stopping(k) /\ got # <<>>
                                     /\ present /\ k < 3 => mode = "deaf"
           Goal == CartPlace' /\ Safely
<1>1. /\ pc = "polled" /\ tool = "writecart" /\ Pending /\ Answers /\ Silence
      /\ OnStart \/ OnByte \/ OnAnswer \/ OnNak \/ OnStop
  BY DEF AtPolled
<1>2. /\ t0 \in Seq(Op) /\ t1 \in Seq(Op) /\ t2 \in Seq(Op) /\ <<>> \in Seq(Op)
      /\ send_byte(CtlRead) \in Seq(Op) /\ send_byte(CtlRead) \o t0 \in Seq(Op)
      /\ start \in Seq(Op) /\ recv_byte \in Seq(Op) /\ send_nak \in Seq(Op) /\ stop \in Seq(Op)
  BY CartRoutines, ConcatProperties
<1>3. /\ UNCHANGED <<tool, pc, present, cjob, pos, len, used, n, i, mainVars>>
      /\ todo # <<>>
  BY PinKeeps
<1>4. ~busy => page = None
  BY <1>1 DEF Pending
<1>5. got \in Seq(SUBSET {SdaPin}) /\ Width \in Nat
  BY ByteWidth DEF CartTypeOK
<1>6. ASSUME CartSame, Silence',
             \/ got' = got
             \/ got' = <<IF pull THEN {} ELSE {SdaPin}>>
             \/ got # <<>> /\ got' = Append(got, IF pull THEN {} ELSE {SdaPin}),
             OnStart' \/ OnByte' \/ OnAnswer' \/ OnNak' \/ OnStop'
      PROVE  Goal
  <2>1. Pending' /\ Answers' /\ pc' = "polled" /\ tool' = "writecart"
    BY <1>1, <1>3, <1>6, PolledKept
  <2>2. AtPolled'
    BY <1>6, <2>1 DEF AtPolled
  <2> QED BY <1>6, <2>2, SameSafely DEF CartPlace
<1>7. CASE OnStop
  <2>1. PICK k \in 0..3 : /\ todo = Rest(stop, k) /\ Stopping(k) /\ got # <<>>
                          /\ present /\ k < 3 => mode = "deaf"
    BY <1>7
  <2>2. Rest(stop, k) \o <<>> = Rest(stop, k) /\ (k = 3 <=> Rest(stop, k) = <<>>)
    <3>1. Len(stop) = 3 /\ stop \in Seq(Op)
      BY StopOps
    <3> QED BY <3>1, AloneAt
  <2>3. k \in 0..2 /\ k + 1 \in 0..3
    BY <1>3, <2>1, <2>2
  <2>4. /\ todo' = Rest(stop, k + 1) \o <<>> /\ Stopping(k + 1)' /\ got' = got
        /\ rom' = rom /\ page' = page
        /\ present /\ k < 2 => mode' = mode
        /\ busy' = (busy \/ (present /\ k = 2 /\ mode = "data" /\ bits = 1 /\ page # None))
    <3>1. todo = Rest(stop, k) \o <<>>
      BY <2>1, <2>2
    <3> QED BY <1>2, <2>1, <2>3, <3>1, StopPin
  <2>5. todo' = Rest(stop, k + 1)
    <3>1. Rest(stop, k + 1) \o <<>> = Rest(stop, k + 1)
      BY <1>2, <2>3, StopOps, AloneAt
    <3> QED BY <2>4, <3>1
  <2>6. CartSame
    <3>1. ~(present /\ mode = "data") /\ busy \in BOOLEAN
      BY <2>1, <2>3 DEF CartTypeOK
    <3>2. busy' = busy
      BY <2>4, <3>1
    <3> QED BY <2>4, <3>2 DEF CartSame
  <2>7. (present' /\ k + 1 < 3 => mode' = "deaf") /\ (present' => mode' # "send") /\ ~pull'
    <3>1. k < 2 \/ k + 1 = 3
      BY <2>3
    <3>2. k + 1 = 3 /\ present' => mode' = "idle"
      BY <2>4 DEF Stopping
    <3>3. ~pull'
      BY <2>4 DEF Stopping
    <3> QED BY <1>3, <2>1, <2>3, <2>4, <3>1, <3>2, <3>3
  <2>8. Silence'
    BY <2>7 DEF Silence
  <2>9. got' # <<>>
    BY <2>1, <2>4
  <2>10. OnStop'
    BY <2>3, <2>4, <2>5, <2>7, <2>9
  <2> QED BY <1>6, <2>4, <2>6, <2>8, <2>10
<1>8. CASE OnNak
  <2>1. PICK k \in 0..3 : todo = Rest(send_nak, k) \o t2 /\ NakPlace(k)
    BY <1>8
  <2>2. CASE k < 3
    <3>1. k \in 0..2 /\ k + 1 \in 0..3
      BY <2>2
    <3>2. /\ todo' = Rest(send_nak, k + 1) \o t2 /\ NakPlace(k + 1)'
          /\ got' = got /\ CartSame /\ ~pull'
          /\ present /\ mode' = "send" => mode = "send"
      BY <1>2, <2>1, <3>1, NakPin
    <3>3. Silence'
      BY <1>1, <1>3, <3>2 DEF Silence, CartSame
    <3>4. OnNak'
      BY <3>1, <3>2
    <3> QED BY <1>6, <3>2, <3>3, <3>4
  <2>3. CASE k = 3
    <3>1. Rest(send_nak, 3) \o t2 = t2 /\ Rest(stop, 0) = stop
      BY <1>2, NakOps, EndsAt, FrontAt
    <3>2. todo = Rest(stop, 0)
      BY <2>1, <2>3, <3>1
    <3>3. Stopping(0) /\ (present => mode = "deaf")
      BY <2>1, <2>3 DEF NakPlace, Stopping, Deaf
    <3>4. got # <<>>
      <4>1. Len(got) = 1 + Width
        BY <1>1, <2>1 DEF NakPlace, Samples
      <4> QED BY <1>5, <4>1, Sampled
    <3>5. 0 \in 0..3
      OBVIOUS
    <3>6. OnStop
      BY <3>2, <3>3, <3>4, <3>5
    <3> QED BY <1>7, <3>6
  <2> QED BY <2>2, <2>3
<1>9. CASE OnAnswer
  <2>1. PICK p \in Nat : InReceive(p, t1)
    BY <1>9
  <2>2. CASE todo = t1 /\ Shown(p, 1)
    <3>1. Rest(send_nak, 0) \o t2 = t1
      BY <1>2, FrontAt
    <3>2. NakPlace(0)
      BY <2>2 DEF Shown, NakPlace, Gone, Deaf
    <3>3. 0 \in 0..3
      OBVIOUS
    <3>4. OnNak
      BY <2>2, <3>1, <3>2, <3>3
    <3> QED BY <1>8, <3>4
  <2>3. CASE ~(todo = t1 /\ Shown(p, 1))
    <3>1. /\ InReceive(p, t1)' /\ CartSame /\ got # <<>>
          /\ \/ got' = got
             \/ got' = Append(got, IF pull THEN {} ELSE {SdaPin})
          /\ pull' \/ (present /\ mode' = "send") => present /\ mode = "send"
      BY <1>1, <1>2, <2>1, <2>3, ReceivePin
    <3>2. Silence'
      BY <1>1, <1>3, <3>1 DEF Silence, CartSame
    <3>3. OnAnswer'
      BY <3>1
    <3> QED BY <1>6, <3>1, <3>2, <3>3
  <2> QED BY <2>2, <2>3
<1>10. CASE OnByte
  <2>1. CASE todo = t0 /\ Acking("ctl", CtlRead, 6)
    <3>1. Rest(recv_byte, 0) \o t1 = t0
      BY <1>2, FrontAt
    <3>2. Turning(ptr, 0)
      <4>1. /\ Wired /\ SdaOut /\ ~SclHigh /\ Len(got) = 1
            /\ present =>
                 \/ mode = "deaf" /\ ~pull
                 \/ /\ mode = NextMode("ctl", CtlRead) /\ bits = 0
                    /\ IF mode = "send" THEN Shows(ptr, 0) ELSE ~pull
        BY <2>1 DEF Acking
      <4>2. NextMode("ctl", CtlRead) = "send"
        BY DEF NextMode
      <4>3. Samples(0)
        BY <1>1, <4>1 DEF Samples
      <4> QED BY <1>1, <4>1, <4>2, <4>3 DEF Turning, Deaf
    <3>3. 0 \in 0..1 /\ ptr \in Nat
      BY DEF CartTypeOK
    <3>4. InReceive(ptr, t1)
      BY <2>1, <3>1, <3>2, <3>3, Zenon DEF InReceive
    <3>5. OnAnswer
      BY <3>3, <3>4
    <3> QED BY <1>9, <3>5
  <2>2. CASE ~(todo = t0 /\ Acking("ctl", CtlRead, 6))
    <3>1. /\ "ctl" \in {"ctl", "hi", "lo", "data"} /\ "ctl" # "data"
          /\ CtlRead \in {CtlWrite, CtlRead} /\ CtlRead \in CartByte
      BY ControlBytes
    <3>2. /\ InByte("ctl", CtlRead, t0)' /\ rom' = rom /\ busy' = busy /\ page' = page
          /\ got' \in {got, <<IF pull THEN {} ELSE {SdaPin}>>}
          /\ Silence'
      BY <1>1, <1>2, <1>10, <2>2, <3>1, BytePin
    <3>3. CartSame
      BY <3>2 DEF CartSame
    <3>4. OnByte'
      BY <3>2
    <3> QED BY <1>6, <3>2, <3>3, <3>4
  <2> QED BY <2>1, <2>2
<1>11. CASE OnStart
  <2>1. PICK k \in 0..2 : todo = Rest(start, k) \o (send_byte(CtlRead) \o t0)
                          /\ Starting(k) /\ got = <<>>
    BY <1>11
  <2>2. CASE k < 2
    <3>1. k \in 0..1 /\ k + 1 \in 0..2
      BY <2>2
    <3>2. /\ todo' = Rest(start, k + 1) \o (send_byte(CtlRead) \o t0)
          /\ Starting(k + 1)' /\ got' = got /\ CartSame
      BY <1>2, <1>4, <2>1, <3>1, StartPin
    <3>3. ~pull' /\ (present' => mode' = "ctl")
      BY <3>1, <3>2 DEF Starting
    <3>4. Silence'
      BY <3>3 DEF Silence
    <3>5. OnStart'
      BY <2>1, <3>1, <3>2
    <3> QED BY <1>6, <3>2, <3>4, <3>5
  <2>3. CASE k = 2
    <3>1. todo = send_byte(CtlRead) \o t0
      <4>1. \A t \in Seq(Op) : Rest(start, 2) \o t = t
        <5>1. Len(start) = 2 /\ start \in Seq(Op)
          BY StartOps
        <5> QED BY <5>1, EndsAt
      <4>2. Rest(start, 2) \o (send_byte(CtlRead) \o t0) = send_byte(CtlRead) \o t0
        BY <1>2, <4>1
      <4> QED BY <2>1, <2>3, <4>2
    <3>2. /\ Wired /\ SdaOut /\ ~pull /\ ~SclHigh
          /\ present => mode = "ctl" /\ bits = 0 /\ shift = 0
      BY <2>1, <2>3 DEF Starting
    <3>3. OnByte
      BY <1>2, <2>1, <3>1, <3>2, ByteBegins, ControlBytes
    <3> QED BY <1>10, <3>3
  <2> QED BY <2>2, <2>3
<1>12. Goal
  BY <1>1, <1>7, <1>8, <1>9, <1>10, <1>11
<1> QED BY <1>12

(* A byte that is read.                                                    *)
LEMMA ReadBytePin ==
  ASSUME CartTypeOK, Gone, Data, CartPin, AtByte
  PROVE  CartPlace' /\ Safely
<1> DEFINE t == IF len > 1 THEN send_ack ELSE send_nak
           Told == present => \A b \in DOMAIN got : (got[b] # {}) = (Bit(rom[pos], b) = 1)
           Answer(k) == todo = Rest(t, k)
                        /\ IF len > 1 THEN AckPlace(pos + 1, k) ELSE NakPlace(k)
<1>1. /\ pc = "byte" /\ tool = "readcart" /\ Clean /\ len > 0 /\ Told
      /\ InReceive(pos, t) \/ \E k \in 0..3 : Answer(k)
  BY DEF AtByte
<1>2. /\ t \in Seq(Op) /\ Len(t) = 3 /\ <<>> \in Seq(Op)
      /\ len > 1 => t = send_ack
      /\ ~(len > 1) => t = send_nak
  BY CartRoutines, AckOps, NakOps
<1>3. /\ UNCHANGED <<tool, pc, present, pos, len>> /\ t' = t /\ todo # <<>>
  BY PinKeeps
<1>4. /\ pos \in Nat /\ pos < Size /\ pos % Size = pos /\ got \in Seq(SUBSET {SdaPin})
      /\ rom[pos] \in Nat
  <2>1. pos + len = cjob.start + cjob.length /\ cjob.start + cjob.length <= Size
    BY <1>1, JobTypes DEF Data, CartCounts
  <2>2. /\ cjob.start \in Nat /\ cjob.length \in Nat /\ pos \in Nat /\ len \in Nat
        /\ Size \in Nat \ {0} /\ got \in Seq(SUBSET {SdaPin}) /\ rom \in [0..(Size - 1) -> Nat]
    BY JobTypes, CartAssumption DEF CartTypeOK
  <2>3. pos \in 0..(Size - 1)
    BY <1>1, <2>1, <2>2
  <2>4. pos = Size * 0 + pos
    BY <2>2
  <2>5. pos % Size = pos
    BY <2>2, <2>3, <2>4, Remainder
  <2> QED BY <2>2, <2>3, <2>5
<1> HIDE DEF t
<1>5. ASSUME CartSame, Told', InReceive(pos, t)' \/ \E k \in 0..3 : Answer(k)'
      PROVE  CartPlace' /\ Safely
  <2>1. pc' = "byte" /\ tool' = "readcart" /\ Clean' /\ len' > 0
    BY <1>1, <1>3, <1>5, CleanStays
  <2>2. InReceive(pos, t)' \/ (\E k \in 0..3 : Answer(k))'
    BY <1>5
  <2>3. AtByte'
    BY <1>5, <2>1, <2>2 DEF AtByte, t
  <2> QED BY <1>5, <2>3, SameSafely DEF CartPlace
<1>6. ASSUME NEW k \in 0..3, Answer(k)
      PROVE  CartPlace' /\ Safely
  <2>1. Rest(t, k) \o <<>> = Rest(t, k) /\ (k = 3 <=> Rest(t, k) = <<>>)
    BY <1>2, AloneAt, ZenonT(60)
  <2>2. k \in 0..2 /\ k + 1 \in 0..3
    BY <1>3, <1>6, <2>1
  <2>3. todo = Rest(t, k) \o <<>>
    BY <1>6, <2>1
  <2>4. /\ todo' = Rest(t, k + 1) \o <<>> /\ got' = got /\ CartSame
        /\ (IF len > 1 THEN AckPlace(pos + 1, k + 1) ELSE NakPlace(k + 1))'
    <3>1. CASE len > 1
      <4>1. todo = Rest(send_ack, k) \o <<>> /\ AckPlace(pos + 1, k) /\ pos + 1 \in Nat
        BY <1>2, <1>4, <1>6, <2>3, <3>1
      <4>2. PICK p \in Nat : p = pos + 1
        BY <4>1
      <4>3. /\ todo' = Rest(send_ack, k + 1) \o <<>> /\ AckPlace(p, k + 1)'
            /\ got' = got /\ CartSame
        BY <1>2, <2>2, <4>1, <4>2, AckPin
      <4>4. pos' + 1 = p
        BY <1>3, <4>2
      <4>5. AckPlace(pos + 1, k + 1)'
        BY <4>3, <4>4
      <4> QED BY <1>2, <1>3, <3>1, <4>3, <4>5
    <3>2. CASE ~(len > 1)
      <4>1. todo = Rest(send_nak, k) \o <<>> /\ NakPlace(k)
        BY <1>2, <1>6, <2>3, <3>2
      <4>2. /\ todo' = Rest(send_nak, k + 1) \o <<>> /\ NakPlace(k + 1)'
            /\ got' = got /\ CartSame
        BY <1>2, <2>2, <4>1, NakPin
      <4> QED BY <1>2, <1>3, <3>2, <4>2
    <3> QED BY <3>1, <3>2
  <2>5. Told'
    BY <1>1, <1>3, <2>4 DEF CartSame, Bit
  <2>6. Answer(k + 1)'
    <3>1. Rest(t, k + 1) \o <<>> = Rest(t, k + 1)
      BY <1>2, <2>2, AloneAt
    <3> QED BY <1>3, <2>4, <3>1
  <2> QED BY <1>5, <2>2, <2>4, <2>5, <2>6
<1>7. ASSUME InReceive(pos, t)
      PROVE  CartPlace' /\ Safely
  <2>1. CASE todo = t /\ Shown(pos, 1)
    <3>1. Rest(t, 0) = t /\ 0 \in 0..3
      BY <1>2, FrontAt
    <3>2. Wired /\ SdaOut /\ ~SclHigh /\ Samples(Width) /\ ~pull
          /\ (present => mode = "send" /\ bits = Width /\ ptr = pos + 1)
      BY <1>1, <2>1 DEF Shown, Deaf, Gone
    <3>3. AckPlace(pos + 1, 0) /\ NakPlace(0)
      BY <3>2 DEF AckPlace, NakPlace
    <3>4. Answer(0)
      BY <2>1, <3>1, <3>3
    <3> QED BY <1>6, <3>1, <3>4
  <2>2. CASE ~(todo = t /\ Shown(pos, 1))
    <3>1. PICK p \in Nat, w \in Seq(Op) : p = pos /\ w = t
      BY <1>2, <1>4
    <3>5. InReceive(p, w) /\ ~(todo = w /\ Shown(p, 1))
      BY <1>7, <2>2, <3>1
    <3>2. /\ InReceive(p, w)' /\ CartSame
          /\ \/ got' = got
             \/ /\ got' = Append(got, IF pull THEN {} ELSE {SdaPin})
                /\ present /\ pc = "byte" =>
                     /\ Len(got) + 1 \in 1..Width
                     /\ pull = (Bit(rom[p % Size], Len(got) + 1) = 0)
      BY <3>5, ReceivePin
    <3>3. InReceive(pos, t)'
      BY <1>3, <3>1, <3>2
    <3>4. Told'
      <4> SUFFICES ASSUME present, NEW b \in DOMAIN got'
                   PROVE  (got'[b] # {}) = (Bit(rom[pos], b) = 1)
        BY <1>3, <3>2 DEF CartSame, Bit
      <4>1. CASE got' = got
        BY <1>1, <4>1
      <4>2. CASE /\ got' = Append(got, IF pull THEN {} ELSE {SdaPin})
                 /\ Len(got) + 1 \in 1..Width
                 /\ pull = (Bit(rom[p % Size], Len(got) + 1) = 0)
        <5>1. (IF pull THEN {} ELSE {SdaPin}) \in SUBSET {SdaPin}
          OBVIOUS
        <5>2. CASE b = Len(got) + 1
          <6>1. got'[b] = (IF pull THEN {} ELSE {SdaPin})
            BY <1>4, <4>2, <5>1, <5>2, AppendProperties
          <6>2. Bit(rom[pos], b) \in {0, 1}
            BY <1>4, <4>2, <5>2, BitsAre
          <6>3. pull = (Bit(rom[pos], b) = 0) /\ pull \in BOOLEAN
            BY <1>4, <3>1, <4>2, <5>2 DEF CartTypeOK
          <6>4. CASE pull
            <7>1. got'[b] = {} /\ Bit(rom[pos], b) = 0
              BY <6>1, <6>3, <6>4
            <7> QED BY <7>1
          <6>5. CASE ~pull
            <7>1. got'[b] = {SdaPin} /\ Bit(rom[pos], b) = 1
              BY <6>1, <6>2, <6>3, <6>5
            <7>2. got'[b] # {}
              BY <7>1
            <7> QED BY <7>1, <7>2
          <6> QED BY <6>4, <6>5
        <5>3. CASE b # Len(got) + 1
          <6>1. b \in DOMAIN got /\ got'[b] = got[b]
            <7>1. Len(got) \in Nat /\ Len(got') = Len(got) + 1 /\ got' \in Seq(SUBSET {SdaPin})
              BY <1>4, <4>2, <5>1, AppendProperties, LenProperties
            <7>2. b \in 1..Len(got')
              BY <7>1, LenProperties
            <7>3. b \in 1..Len(got)
              BY <5>3, <7>1, <7>2
            <7> QED BY <1>4, <4>2, <5>1, <7>3, AppendProperties, LenProperties
          <6> QED BY <1>1, <6>1
        <5> QED BY <5>2, <5>3
      <4> QED BY <1>1, <3>2, <4>1, <4>2
    <3> QED BY <1>5, <3>2, <3>3, <3>4
  <2> QED BY <2>1, <2>2
<1> QED BY <1>1, <1>6, <1>7

-----------------------------------------------------------------------------
(* A store keeps the invariant.                                            *)
LEMMA CartPinInv ==
  ASSUME CartInv, CartPin
  PROVE  CartInv'
<1>1. CartTypeOK /\ Gone /\ CartPlace /\ Data
  BY DEF CartInv, Data
<1>2. CartTypeOK'
  BY <1>1, CartPinTypes
<1>3. Gone'
  BY <1>1, PinKeeps, GoneStays
<1>4. todo # <<>> /\ UNCHANGED <<mainVars, tool, pc, present>>
  BY PinKeeps
<1>5. (CartPlace' /\ Data') \/ (CartPlace' /\ Safely)
  <2>1. CASE AtBegin
    BY <1>1, <2>1, BeginPin
  <2>2. CASE AtBeginStart
    BY <1>1, <2>2, BeginStartPin
  <2>3. CASE AtDeviceStart
    BY <1>1, <2>3, DeviceStartPin
  <2>4. CASE AtDevice
    BY <1>1, <2>4, DevicePin
  <2>5. CASE AtHigh
    BY <1>1, <2>5, HighPin
  <2>6. CASE AtLow
    BY <1>1, <2>6, LowPin
  <2>7. CASE AtData
    BY <1>1, <2>7, DataPin
  <2>8. CASE AtStop
    BY <1>1, <2>8, StoppedPin
  <2>9. CASE AtPolled
    BY <1>1, <2>9, PolledPin
  <2>10. CASE AtAgain
    BY <1>1, <2>10, AgainPin
  <2>11. CASE AtByte
    BY <1>1, <2>11, ReadBytePin
  <2>12. CASE AtExit
    BY <1>1, <2>12, ExitPin
  <2>13. ~AtCartRest /\ ~AtPoll /\ ~AtRead
    BY <1>4 DEF AtCartRest, AtPoll, AtRead
  <2> QED BY <1>1, <2>1, <2>2, <2>3, <2>4, <2>5, <2>6, <2>7, <2>8, <2>9, <2>10, <2>11, <2>12,
             <2>13 DEF CartPlace
<1>6. CartPlace' /\ Data'
  BY <1>1, <1>4, <1>5, DataKept
<1> QED BY <1>2, <1>3, <1>6 DEF CartInv, Data

-----------------------------------------------------------------------------
(* The page has been programmed.                                           *)
LEMMA ReadyByte ==
  ASSUME NEW m, NEW v, NEW t, InByte(m, v, t), present => mode # "send",
         UNCHANGED <<gpioVars, present, mode, bits, shift, pull, ptr>>
  PROVE  InByte(m, v, t)'
<1>1. UNCHANGED <<functions, latch, todo, got, pc, present, mode, bits, shift, pull, ptr>>
  BY DEF gpioVars
<1>2. ASSUME NEW j, NEW c, Sending(m, v, j, c)
      PROVE  Sending(m, v, j, c)'
  BY <1>1, <1>2 DEF Sending, Wired, SdaOut, SclHigh, SdaHigh
<1>3. ASSUME NEW c, Acking(m, v, c)
      PROVE  Acking(m, v, c)'
  <2>1. /\ Wired /\ (SdaOut <=> c \notin 2..5) /\ (SclHigh <=> c \in {3, 4})
        /\ c >= 1 => SdaHigh
        /\ Len(got) = IF c >= 4 THEN 1 ELSE 0
    BY <1>3 DEF Acking
  <2>2. present =>
          \/ mode = "deaf" /\ ~pull /\ m = "ctl" /\ pc = "polled"
          \/ /\ mode = m /\ c < 5 /\ pull /\ shift = v
             /\ bits = IF c >= 3 THEN Width + 1 ELSE Width
          \/ /\ mode = NextMode(m, v) /\ c >= 5 /\ bits = 0 /\ shift = 0
             /\ ~pull
    BY <1>3 DEF Acking
  <2> QED BY <1>1, <2>1, <2>2 DEF Acking, Wired, SdaOut, SclHigh, SdaHigh
<1> QED BY <1>1, <1>2, <1>3 DEF InByte

(* A page's programming ends while a byte is being read.                   *)
LEMMA ReadyReceive ==
  ASSUME NEW p, NEW t, InReceive(p, t), present => mode # "send",
         UNCHANGED <<gpioVars, present, mode, bits, shift, pull, ptr>>
  PROVE  InReceive(p, t)'
<1>1. UNCHANGED <<functions, latch, todo, got, pc, present, mode, bits, shift, pull, ptr>>
  BY DEF gpioVars
<1>2. ASSUME NEW c, Turning(p, c)
      PROVE  Turning(p, c)'
  <2>1. Wired /\ SdaOut /\ ~SclHigh /\ (c = 1 => SdaHigh) /\ Samples(0) /\ (present => Deaf)
    BY <1>2 DEF Turning
  <2> QED BY <1>1, <2>1 DEF Turning, Wired, SdaOut, SclHigh, SdaHigh, Samples, Deaf
<1>3. ASSUME NEW j, NEW c, Showing(p, j, c)
      PROVE  Showing(p, j, c)'
  <2>1. /\ Wired /\ ~SdaOut /\ SdaHigh /\ (SclHigh <=> c # 0)
        /\ Samples(IF c = 2 THEN j + 1 ELSE j) /\ (present => Deaf)
    BY <1>3 DEF Showing
  <2> QED BY <1>1, <2>1 DEF Showing, Wired, SdaOut, SclHigh, SdaHigh, Samples, Deaf
<1>4. ASSUME NEW c, Shown(p, c)
      PROVE  Shown(p, c)'
  BY <1>1, <1>4 DEF Shown, Wired, SdaOut, SclHigh, SdaHigh, Samples, Deaf
<1> QED BY <1>1, <1>2, <1>3, <1>4 DEF InReceive

(* A page's programming may end at any moment.                             *)
LEMMA ReadyInv ==
  ASSUME CartInv, Ready
  PROVE  CartInv'
<1>1. CartTypeOK /\ Gone /\ CartPlace /\ Data
  BY DEF CartInv, Data
<1>2. /\ busy /\ busy' = FALSE /\ page' = None
      /\ rom' = [c \in DOMAIN rom |-> IF c \in DOMAIN page THEN page[c] ELSE rom[c]]
      /\ UNCHANGED <<gpioVars, present, mode, bits, shift, ptr, pull, mainVars>>
      /\ UNCHANGED <<functions, latch, saved, todo, got, tool, pc>>
      /\ UNCHANGED <<cjob, pos, len, used, n, i, printed, old, safe, late, more>>
  BY DEF Ready, gpioVars, mainVars
<1>3. ~Clean /\ present
  BY <1>1, <1>2 DEF Clean, Gone
<1>4. CartTypeOK'
  <2>1. rom' \in [0..(Size - 1) -> Nat] /\ DOMAIN page' \subseteq 0..(Size - 1)
        /\ page' \in [DOMAIN page' -> Nat]
    BY <1>1, <1>2 DEF CartTypeOK, None
  <2> QED BY <1>1, <1>2, <2>1 DEF CartTypeOK, PinTypeOK
<1>5. Gone'
  BY <1>2, <1>3 DEF Gone
<1>6. Data'
  <2>1. /\ DOMAIN rom' = DOMAIN rom
        /\ \A a \in DOMAIN rom : rom'[a] = rom[a] \/ (a \in DOMAIN page /\ rom'[a] = page[a])
    BY <1>2
  <2> QED BY <1>1, <1>2, <1>3, <2>1, CellsKept
<1>7. ASSUME Pending, pc \in {"poll", "polled"}, tool = "writecart"
      PROVE  Pending'
  <2> SUFFICES ASSUME NEW a \in (cjob.start + safe)..(cjob.start + used - 1)
               PROVE  rom'[a] = cjob.input[a - cjob.start + 1]
    BY <1>2 DEF Pending
  <2>1. rom[a] = cjob.input[a - cjob.start + 1] \/ a \in DOMAIN page
    BY <1>3, <1>7 DEF Pending
  <2>2. a \in DOMAIN rom
    <3>1. used <= Len(cjob.input)
      BY <1>1, <1>7 DEF Data, CartCounts
    <3>2. /\ cjob.start \in Nat /\ Len(cjob.input) \in Nat /\ used \in Nat /\ safe \in Nat
          /\ cjob.start + Len(cjob.input) <= Size /\ Size \in Nat \ {0}
          /\ DOMAIN rom = 0..(Size - 1)
      BY <1>1, JobTypes, CartAssumption DEF CartTypeOK
    <3>3. a \in 0..(Size - 1)
      BY <3>1, <3>2
    <3> QED BY <3>2, <3>3
  <2>3. a \in DOMAIN page => page[a] = cjob.input[a - cjob.start + 1]
    <3>1. a \in DOMAIN page => a \in DOMAIN Wanted /\ page[a] = Wanted[a]
      BY <1>1, <1>7 DEF Data, PageRight
    <3> QED BY <1>1, <3>1, WantedIs
  <2> QED BY <1>2, <2>1, <2>2, <2>3
<1>8. CartPlace'
  <2>1. CASE AtCartRest
    BY <1>2, <2>1 DEF AtCartRest, CartPlace
  <2>2. CASE AtBegin
    <3> DEFINE t == IF tool = "readcart" THEN start ELSE <<>>
    <3>1. PICK k \in 0..7 : /\ todo = Rest(PowerOn, k) \o t /\ Powering(k)
                            /\ k < 2 => used = 0 /\ printed = <<>> /\ safe = 0
      BY <2>2 DEF AtBegin
    <3>2. k < 2
      BY <1>3, <3>1 DEF Powering
    <3>3. Powering(k)'
      BY <1>2, <3>1, <3>2 DEF Powering
    <3>4. AtBegin'
      BY <1>2, <2>2, <3>1, <3>2, <3>3 DEF AtBegin
    <3> QED BY <3>4 DEF CartPlace
  <2>3. CASE AtPoll
    BY <1>2, <1>7, <2>3 DEF AtPoll, CartPlace, Free, Wired, SdaOut, SclHigh, SdaHigh
  <2>4. CASE AtPolled
    <3> DEFINE t2 == stop
               t1 == send_nak \o t2
               t0 == recv_byte \o t1
               OnStart == \E k \in 0..2 : todo = Rest(start, k) \o (send_byte(CtlRead) \o t0)
                                           /\ Starting(k) /\ got = <<>>
               OnByte == InByte("ctl", CtlRead, t0)
               OnAnswer == \E p \in Nat : InReceive(p, t1)
               OnNak == \E k \in 0..3 : todo = Rest(send_nak, k) \o t2 /\ NakPlace(k)
               OnStop == \E k \in 0..3 : /\ todo = Rest(stop, k) /\ Stopping(k) /\ got # <<>>
                                         /\ present /\ k < 3 => mode = "deaf"
    <3>1. /\ pc = "polled" /\ tool = "writecart" /\ Pending /\ Answers /\ Silence
          /\ OnStart \/ OnByte \/ OnAnswer \/ OnNak \/ OnStop
      BY <2>4 DEF AtPolled
    <3>2. Pending' /\ pc' = "polled" /\ tool' = "writecart" /\ Silence'
      BY <1>2, <1>7, <3>1 DEF Silence
    <3>3. Answers'
      BY <1>2, <1>3, <3>1 DEF Answers
    <3>4. mode # "send"
      BY <1>2, <1>3, <3>1 DEF Silence
    <3>5. OnStart => OnStart'
      BY <1>2 DEF Starting, Wired, SdaOut, SclHigh, SdaHigh
    <3>6. OnByte => OnByte'
      BY <1>2, <3>4, ReadyByte
    <3>7. OnAnswer => OnAnswer'
      BY <1>2, <3>4, ReadyReceive
    <3>8. OnNak => OnNak'
      BY <1>2 DEF NakPlace, Wired, SdaOut, SclHigh, SdaHigh, Samples, Deaf
    <3>9. OnStop => OnStop'
      BY <1>2 DEF Stopping, Wired, SdaOut, SclHigh, SdaHigh
    <3>10. AtPolled'
      BY <3>1, <3>2, <3>3, <3>5, <3>6, <3>7, <3>8, <3>9 DEF AtPolled
    <3> QED BY <3>10 DEF CartPlace
  <2>5. CASE AtExit
    <3>1. PICK k \in 0..8 : todo = Rest(Leave, k) /\ Parting(k)
      BY <2>5 DEF AtExit
    <3>2. Parting(k)'
      BY <1>2, <3>1 DEF Parting, Wired, SdaOut, SclHigh, SdaHigh
    <3>3. AtExit'
      BY <1>2, <2>5, <3>1, <3>2 DEF AtExit
    <3> QED BY <3>3 DEF CartPlace
  <2>6. /\ ~AtBeginStart /\ ~AtDeviceStart /\ ~AtDevice /\ ~AtHigh /\ ~AtLow
        /\ ~AtAgain /\ ~AtRead /\ ~AtByte
    BY <1>3 DEF AtBeginStart, AtDeviceStart, AtDevice, AtHigh, AtLow, AtAgain, AtRead, AtByte
  <2>7. ~AtData /\ ~AtStop
    BY <1>2, <1>3 DEF AtData, AtStop
  <2> QED BY <1>1, <2>1, <2>2, <2>3, <2>4, <2>5, <2>6, <2>7 DEF CartPlace
<1> QED BY <1>4, <1>5, <1>6, <1>8 DEF CartInv, Data

-----------------------------------------------------------------------------
(* The cartridge is pulled out: nothing of it holds a place up.            *)
LEMMA LostByte ==
  ASSUME NEW m, NEW v, NEW t, InByte(m, v, t), UNCHANGED gpioVars, ~present', ~pull'
  PROVE  InByte(m, v, t)'
<1>1. UNCHANGED <<functions, latch, todo, got, pc>>
  BY DEF gpioVars
<1>2. ASSUME NEW j, NEW c, Sending(m, v, j, c)
      PROVE  Sending(m, v, j, c)'
  BY <1>1, <1>2 DEF Sending, Wired, SdaOut, SclHigh, SdaHigh
<1>3. ASSUME NEW c, Acking(m, v, c)
      PROVE  Acking(m, v, c)'
  BY <1>1, <1>3 DEF Acking, Wired, SdaOut, SclHigh, SdaHigh
<1> QED BY <1>1, <1>2, <1>3 DEF InByte

(* The cartridge goes while a byte is being read.                          *)
LEMMA LostReceive ==
  ASSUME NEW p, NEW t, InReceive(p, t), UNCHANGED gpioVars, ~present'
  PROVE  InReceive(p, t)'
<1>1. UNCHANGED <<functions, latch, todo, got, pc>>
  BY DEF gpioVars
<1>2. ASSUME NEW c, Turning(p, c)
      PROVE  Turning(p, c)'
  BY <1>1, <1>2 DEF Turning, Wired, SdaOut, SclHigh, SdaHigh, Samples
<1>3. ASSUME NEW j, NEW c, Showing(p, j, c)
      PROVE  Showing(p, j, c)'
  BY <1>1, <1>3 DEF Showing, Wired, SdaOut, SclHigh, SdaHigh, Samples
<1>4. ASSUME NEW c, Shown(p, c)
      PROVE  Shown(p, c)'
  BY <1>1, <1>4 DEF Shown, Wired, SdaOut, SclHigh, SdaHigh, Samples
<1> QED BY <1>1, <1>2, <1>3, <1>4 DEF InReceive

(* The cartridge may be pulled out at any moment.                          *)
LEMMA RemoveInv ==
  ASSUME CartInv, Remove
  PROVE  CartInv'
<1>1. CartTypeOK /\ Gone /\ CartPlace /\ Data
  BY DEF CartInv, Data
<1>2. /\ present /\ ~present' /\ present' = FALSE /\ PowerLost
      /\ UNCHANGED <<gpioVars, mainVars>>
      /\ UNCHANGED <<functions, latch, saved, todo, got, tool, pc>>
      /\ UNCHANGED <<cjob, pos, len, used, n, i, printed, old, safe, late, more>>
  BY DEF Remove, gpioVars, mainVars
<1>3. page' = None /\ ~busy' /\ ~pull' /\ Clean' /\ (Clean => CartSame)
  BY <1>1, <1>2, PowerGone DEF Clean, None
<1>4. CartTypeOK'
  <2>1. CartReacts
    BY <1>2 DEF CartReacts, Powered
  <2>2. /\ rom' \in [0..(Size - 1) -> Nat]
        /\ DOMAIN page' \subseteq 0..(Size - 1) /\ page' \in [DOMAIN page' -> Nat]
        /\ busy' \in BOOLEAN /\ pull' \in BOOLEAN
        /\ mode' \in Modes /\ bits' \in Nat /\ shift' \in Nat /\ ptr' \in Nat
    BY <1>1, <2>1, DeviceTypes
  <2> QED BY <1>1, <1>2, <2>2 DEF CartTypeOK, PinTypeOK
<1>5. Gone'
  BY <1>3 DEF Gone
<1>6. Data'
  <2>1. Safely
    BY <1>2, <1>3 DEF Safely
  <2> QED BY <1>1, <1>2, <2>1, DataKept
<1>7. /\ HighByte' = HighByte /\ LowByte' = LowByte
      /\ \A lo, hi : Bytes(lo, hi)' = Bytes(lo, hi)
  BY <1>2 DEF HighByte, LowByte, Bytes
<1>8. Pending'
  BY <1>2, <1>3 DEF Pending
<1>9. ASSUME NEW k, Starting(k) PROVE Starting(k)'
  BY <1>2, <1>3, <1>9 DEF Starting, Wired, SdaOut, SclHigh, SdaHigh
<1>10. ASSUME NEW k, Stopping(k) PROVE Stopping(k)'
  BY <1>2, <1>3, <1>10 DEF Stopping, Wired, SdaOut, SclHigh, SdaHigh
<1>11. ASSUME NEW k, NakPlace(k) PROVE NakPlace(k)'
  BY <1>2, <1>3, <1>11 DEF NakPlace, Wired, SdaOut, SclHigh, SdaHigh, Samples
<1>12. CartPlace'
  <2>1. CASE AtCartRest
    BY <1>2, <2>1 DEF AtCartRest, CartPlace
  <2>2. CASE AtBegin
    <3>1. \A k \in 0..7 : Powering(k) => Powering(k)'
      BY <1>2, <1>3 DEF Powering, SclHigh, SdaOut, SdaHigh
    <3>2. AtBegin'
      BY <1>2, <2>2, <3>1 DEF AtBegin
    <3> QED BY <3>2 DEF CartPlace
  <2>3. CASE AtBeginStart
    BY <1>2, <1>3, <1>9, <2>3 DEF AtBeginStart, CartPlace
  <2>4. CASE AtDeviceStart
    BY <1>2, <1>3, <1>9, <2>4 DEF AtDeviceStart, CartPlace
  <2>5. CASE AtDevice
    BY <1>2, <1>3, <2>5, LostByte DEF AtDevice, CartPlace
  <2>6. CASE AtHigh
    <3>1. PICK v : v = HighByte
      OBVIOUS
    <3>2. InByte("hi", v, <<>>)'
      BY <1>2, <1>3, <2>6, <3>1, LostByte DEF AtHigh
    <3>3. InByte("hi", HighByte, <<>>)'
      BY <1>7, <3>1, <3>2
    <3>4. AtHigh'
      BY <1>2, <1>3, <2>6, <3>3 DEF AtHigh
    <3> QED BY <3>4 DEF CartPlace
  <2>7. CASE AtLow
    <3>1. PICK v : v = LowByte
      OBVIOUS
    <3>2. InByte("lo", v, <<>>)'
      BY <1>2, <1>3, <2>7, <3>1, LostByte DEF AtLow
    <3>3. InByte("lo", LowByte, <<>>)'
      BY <1>7, <3>1, <3>2
    <3>4. AtLow'
      BY <1>2, <1>3, <2>7, <3>3 DEF AtLow
    <3> QED BY <3>4 DEF CartPlace
  <2>8. CASE AtData
    <3>1. PICK v : v = cjob.input[used + i + 1]
      OBVIOUS
    <3>2. InByte("data", v, <<>>)'
      BY <1>2, <1>3, <2>8, <3>1, LostByte DEF AtData
    <3>3. InByte("data", cjob.input[used + i + 1], <<>>)'
      BY <1>2, <3>1, <3>2
    <3>4. AtData'
      BY <1>2, <2>8, <3>3 DEF AtData
    <3> QED BY <3>4 DEF CartPlace
  <2>9. CASE AtStop
    BY <1>2, <1>10, <2>9 DEF AtStop, CartPlace
  <2>10. CASE AtPoll
    BY <1>2, <1>3, <1>8, <2>10 DEF AtPoll, CartPlace, Free, Wired, SdaOut, SclHigh, SdaHigh
  <2>11. CASE AtPolled
    <3> DEFINE t2 == stop
               t1 == send_nak \o t2
               t0 == recv_byte \o t1
               OnStart == \E k \in 0..2 : todo = Rest(start, k) \o (send_byte(CtlRead) \o t0)
                                           /\ Starting(k) /\ got = <<>>
               OnByte == InByte("ctl", CtlRead, t0)
               OnAnswer == \E p \in Nat : InReceive(p, t1)
               OnNak == \E k \in 0..3 : todo = Rest(send_nak, k) \o t2 /\ NakPlace(k)
               OnStop == \E k \in 0..3 : /\ todo = Rest(stop, k) /\ Stopping(k) /\ got # <<>>
                                         /\ present /\ k < 3 => mode = "deaf"
    <3>1. /\ pc = "polled" /\ tool = "writecart" /\ Answers
          /\ OnStart \/ OnByte \/ OnAnswer \/ OnNak \/ OnStop
      BY <2>11 DEF AtPolled
    <3>2. pc' = "polled" /\ tool' = "writecart" /\ Silence'
      BY <1>2, <1>3, <3>1 DEF Silence
    <3>3. Answers'
      BY <1>2, <1>3, <3>1 DEF Answers, Right, CartSame
    <3>4. OnStart => OnStart'
      BY <1>2, <1>9
    <3>5. OnByte => OnByte'
      BY <1>2, <1>3, LostByte
    <3>6. OnAnswer => OnAnswer'
      BY <1>2, LostReceive
    <3>7. OnNak => OnNak'
      BY <1>2, <1>11
    <3>8. OnStop => OnStop'
      BY <1>2, <1>10
    <3>9. AtPolled'
      BY <1>8, <3>1, <3>2, <3>3, <3>4, <3>5, <3>6, <3>7, <3>8 DEF AtPolled
    <3> QED BY <3>9 DEF CartPlace
  <2>12. CASE AtAgain
    <3>1. \A k \in 0..4 : Restarting(k) => Restarting(k)'
      BY <1>2, <1>3 DEF Restarting, Wired, SdaOut, SclHigh, SdaHigh
    <3>2. InByte("ctl", CtlRead, <<>>) => InByte("ctl", CtlRead, <<>>)'
      BY <1>2, <1>3, LostByte
    <3>3. AtAgain'
      BY <1>2, <1>3, <2>12, <3>1, <3>2 DEF AtAgain
    <3> QED BY <3>3 DEF CartPlace
  <2>13. CASE AtRead
    BY <1>2, <1>3, <2>13 DEF AtRead, CartPlace, Wired, SdaOut, SclHigh
  <2>14. CASE AtByte
    <3> DEFINE t == IF len > 1 THEN send_ack ELSE send_nak
    <3>1. PICK p, w : p = pos /\ w = t
      OBVIOUS
    <3>2. t' = w /\ pos' = p
      BY <1>2, <3>1
    <3>3. InReceive(pos, t) => InReceive(pos, t)'
      <4>1. InReceive(pos, t) => InReceive(p, w)
        BY <3>1
      <4>2. InReceive(p, w) => InReceive(p, w)'
        BY <1>2, LostReceive
      <4>3. InReceive(p, w)' => InReceive(pos, t)'
        BY <3>2
      <4> QED BY <4>1, <4>2, <4>3
    <3>4. \A k \in 0..3 : AckPlace(pos + 1, k) => AckPlace(pos + 1, k)'
      BY <1>2 DEF AckPlace, Wired, SdaOut, SclHigh, SdaHigh, Samples
    <3> HIDE DEF t
    <3>5. /\ pc = "byte" /\ tool = "readcart" /\ len > 0
          /\ InReceive(pos, t) \/ \E k \in 0..3 :
               todo = Rest(t, k) /\ IF len > 1 THEN AckPlace(pos + 1, k) ELSE NakPlace(k)
      BY <2>14 DEF AtByte, t
    <3>6. InReceive(pos, t)' \/ (\E k \in 0..3 :
            todo = Rest(t, k) /\ IF len > 1 THEN AckPlace(pos + 1, k) ELSE NakPlace(k))'
      BY <1>2, <1>11, <3>1, <3>2, <3>3, <3>4, <3>5
    <3>7. AtByte'
      BY <1>2, <1>3, <3>5, <3>6 DEF AtByte, t
    <3> QED BY <3>7 DEF CartPlace
  <2>15. CASE AtExit
    <3>1. PICK k \in 0..8 : todo = Rest(Leave, k) /\ Parting(k)
      BY <2>15 DEF AtExit
    <3>2. Parting(k)'
      BY <1>2, <3>1 DEF Parting, Wired, SdaOut, SclHigh, SdaHigh
    <3>3. AtExit'
      BY <1>2, <2>15, <3>1, <3>2 DEF AtExit
    <3> QED BY <3>3 DEF CartPlace
  <2> QED BY <1>1, <2>1, <2>2, <2>3, <2>4, <2>5, <2>6, <2>7, <2>8, <2>9, <2>10, <2>11, <2>12,
             <2>13, <2>14, <2>15 DEF CartPlace
<1> QED BY <1>4, <1>5, <1>6, <1>12 DEF CartInv, Data

-----------------------------------------------------------------------------
(* What holds when the stores have been done.                              *)
LEMMA Emptied ==
  ASSUME NEW r \in Seq(Op), NEW l, Len(r) = l, NEW t \in Seq(Op), NEW k \in 0..l,
         Rest(r, k) \o t = <<>>
  PROVE  k = l /\ t = <<>>
<1>1. k \in 0..Len(r) /\ l \in Nat
  BY LenProperties
<1>2. ~(k < Len(r))
  BY <1>1, ThenStep
<1>3. k = Len(r)
  BY <1>1, <1>2
<1>4. Rest(r, k) \o t = t
  BY <1>1, <1>3, ThenStep
<1> QED BY <1>3, <1>4

(* A call that returns from a byte has had its acknowledge, and nothing    *)
(* is behind it.                                                           *)
LEMMA ByteDone ==
  ASSUME NEW m, NEW v, NEW t \in Seq(Op), InByte(m, v, t), todo = <<>>
  PROVE  t = <<>> /\ Acking(m, v, 6)
<1>1. send_byte(v) \in Seq(Op) /\ Len(send_byte(v)) = 3 * Width + 6 /\ Width \in 1..8
  BY SendOps, ByteWidth
<1>2. ASSUME NEW j \in 0..(Width - 1), NEW c \in 0..2,
             todo = Rest(send_byte(v), 3 * j + c) \o t
      PROVE  FALSE
  <2>1. PICK k \in 0..(3 * Width + 6) : k = 3 * j + c /\ k < 3 * Width
    BY <1>1
  <2>2. Rest(send_byte(v), k) \o t = <<>>
    BY <1>2, <2>1
  <2>3. k = 3 * Width + 6
    BY <1>1, <2>2, Emptied
  <2> QED BY <1>1, <2>1, <2>3
<1>3. ASSUME NEW c \in 0..6, todo = Rest(send_byte(v), 3 * Width + c) \o t, Acking(m, v, c)
      PROVE  t = <<>> /\ Acking(m, v, 6)
  <2>1. PICK k \in 0..(3 * Width + 6) : k = 3 * Width + c
    BY <1>1
  <2>2. Rest(send_byte(v), k) \o t = <<>>
    BY <1>3, <2>1
  <2>3. k = 3 * Width + 6 /\ t = <<>>
    BY <1>1, <2>2, Emptied
  <2>4. c = 6
    BY <1>1, <2>1, <2>3
  <2> QED BY <1>3, <2>3, <2>4
<1> QED BY <1>2, <1>3 DEF InByte

(* The acknowledge has been sampled.                                       *)
LEMMA AfterAck ==
  ASSUME CartTypeOK, Gone, NEW m, NEW v, Acking(m, v, 6), pc # "polled"
  PROVE  /\ Wired /\ SdaOut /\ ~SclHigh /\ SdaHigh /\ got # <<>>
         /\ present => /\ mode = NextMode(m, v) /\ bits = 0 /\ shift = 0 /\ ByteTaken
                       /\ IF mode = "send" THEN Shows(ptr, 0) ELSE ~pull
         /\ ~present => ~pull
<1>1. /\ Wired /\ SdaOut /\ ~SclHigh /\ SdaHigh /\ Len(got) = 1
      /\ present => /\ mode = NextMode(m, v) /\ bits = 0 /\ shift = 0
                    /\ IF mode = "send" THEN Shows(ptr, 0) ELSE ~pull
  BY DEF Acking
<1>2. got # <<>>
  <2>1. Len(got) = 1 + 0 /\ 0 \in Nat /\ got \in Seq(SUBSET {SdaPin})
    BY <1>1 DEF CartTypeOK
  <2> QED BY <2>1, Sampled
<1> QED BY <1>1, <1>2 DEF ByteTaken, Gone

(* A call does not return from the middle of a byte read.                  *)
LEMMA ReceiveGoesOn ==
  ASSUME NEW p, NEW t \in Seq(Op), t # <<>>, todo = <<>>
  PROVE  ~InReceive(p, t)
<1>1. recv_byte \in Seq(Op) /\ Len(recv_byte) = 3 * Width + 3 /\ Width \in 1..8
  BY ReceiveOps, ByteWidth
<1>2. ASSUME NEW k \in 0..(3 * Width + 3), todo = Rest(recv_byte, k) \o t
      PROVE  FALSE
  <2>1. Rest(recv_byte, k) \o t = <<>>
    BY <1>2
  <2>2. t = <<>>
    BY <1>1, <2>1, Emptied
  <2> QED BY <2>2
<1>3. /\ \A c \in 0..1 : c \in 0..(3 * Width + 3)
      /\ \A j \in 0..(Width - 1), c \in 0..2 : 2 + 3 * j + c \in 0..(3 * Width + 3)
      /\ \A c \in 0..1 : 2 + 3 * Width + c \in 0..(3 * Width + 3)
  BY <1>1
<1> QED BY <1>2, <1>3 DEF InReceive

(* The place a label stands for.                                           *)
LEMMA PlaceOf ==
  ASSUME CartPlace
  PROVE  /\ pc \in {"start", "killed", "done"} => AtCartRest
         /\ pc = "begin" => AtBegin \/ AtBeginStart
         /\ pc = "device" => AtDeviceStart \/ AtDevice
         /\ pc = "high" => AtHigh
         /\ pc = "low" => AtLow
         /\ pc = "data" => AtData
         /\ pc = "poll" => AtStop \/ AtPoll
         /\ pc = "polled" => AtPolled
         /\ pc = "again" => AtAgain
         /\ pc = "read" => AtRead
         /\ pc = "byte" => AtByte
         /\ pc = "exit" => AtExit
<1>1. /\ AtCartRest => pc \in {"start", "killed", "done"}
      /\ AtBegin \/ AtBeginStart => pc = "begin"
      /\ AtDeviceStart \/ AtDevice => pc = "device"
      /\ AtHigh => pc = "high"
      /\ AtLow => pc = "low"
      /\ AtData => pc = "data"
      /\ AtStop \/ AtPoll => pc = "poll"
      /\ AtPolled => pc = "polled"
      /\ AtAgain => pc = "again"
      /\ AtRead => pc = "read"
      /\ AtByte => pc = "byte"
      /\ AtExit => pc = "exit"
  BY DEF AtCartRest, AtBegin, AtBeginStart, AtDeviceStart, AtDevice, AtHigh, AtLow, AtData,
     AtStop, AtPoll, AtPolled, AtAgain, AtRead, AtByte, AtExit
<1> QED BY <1>1 DEF CartPlace

(* What a call that returns leaves behind, label by label.                 *)
LEMMA BeginReturn ==
  ASSUME CartTypeOK, CartPlace, todo = <<>>, pc = "begin"
  PROVE  Clean /\ IF tool = "readcart" THEN Starting(2) ELSE Powering(7)
<1>1. CASE AtBegin
  <2> DEFINE t == IF tool = "readcart" THEN start ELSE <<>>
  <2>1. PICK k \in 0..7 : todo = Rest(PowerOn, k) \o t /\ Powering(k)
    BY <1>1 DEF AtBegin
  <2>2. t \in Seq(Op) /\ PowerOn \in Seq(Op) /\ Len(PowerOn) = 7
    BY CartRoutines, PowerOps
  <2> HIDE DEF t
  <2>3. k = 7 /\ t = <<>>
    BY <2>1, <2>2, Emptied
  <2>4. tool # "readcart"
    <3>1. start # <<>>
      <4>1. Len(start) # 0
        BY StartOps
      <4>2. start = <<>> => Len(start) = 0
        BY EmptySeq, Zenon
      <4> QED BY <4>1, <4>2
    <3> QED BY <2>3, <3>1 DEF t
  <2>5. Powering(7)
    BY <2>1, <2>3
  <2>6. Clean
    BY <2>5 DEF Powering
  <2> QED BY <2>4, <2>5, <2>6
<1>2. CASE AtBeginStart
  <2>1. PICK k \in 0..2 : todo = Rest(start, k) /\ Starting(k)
    BY <1>2 DEF AtBeginStart
  <2>2. start \in Seq(Op) /\ Len(start) = 2
    BY CartRoutines, StartOps
  <2>3. k = 2
    BY <2>1, <2>2, AloneAt
  <2> QED BY <1>2, <2>1, <2>3 DEF AtBeginStart
<1> QED BY <1>1, <1>2, PlaceOf

LEMMA DeviceReturn ==
  ASSUME CartTypeOK, CartPlace, todo = <<>>, pc = "device"
  PROVE  Clean /\ Acking("ctl", CtlWrite, 6)
<1>1. ~AtDeviceStart
  <2> SUFFICES ASSUME AtDeviceStart PROVE FALSE
    OBVIOUS
  <2> DEFINE t == send_byte(CtlWrite)
  <2>1. PICK k \in 0..2 : todo = Rest(start, k) \o t
    BY DEF AtDeviceStart
  <2>2. start \in Seq(Op) /\ Len(start) = 2 /\ t \in Seq(Op)
    BY CartRoutines, StartOps
  <2>3. Len(t) # 0
    BY SendOps, ByteWidth
  <2> HIDE DEF t
  <2>4. t = <<>>
    BY <2>1, <2>2, Emptied
  <2>5. t = <<>> => Len(t) = 0
    BY EmptySeq, Zenon
  <2> QED BY <2>3, <2>4, <2>5
<1>2. AtDevice
  BY <1>1, PlaceOf
<1>3. Clean /\ InByte("ctl", CtlWrite, <<>>)
  BY <1>2 DEF AtDevice
<1> QED BY <1>3, ByteDone, CartRoutines

LEMMA AddressReturn ==
  ASSUME CartTypeOK, CartPlace, todo = <<>>
  PROVE  /\ pc = "high" => /\ Clean /\ Acking("hi", HighByte, 6)
                           /\ present /\ ByteTaken => ptr = HighByte
         /\ pc = "low" => /\ Clean /\ Acking("lo", LowByte, 6)
                          /\ present /\ ByteTaken => ptr = Pointed
         /\ pc = "again" => /\ Clean /\ tool = "readcart" /\ Acking("ctl", CtlRead, 6)
                            /\ present => ptr = Pointed
<1>1. <<>> \in Seq(Op)
  BY CartRoutines
<1>2. ASSUME pc = "high"
      PROVE  /\ Clean /\ Acking("hi", HighByte, 6)
             /\ present /\ ByteTaken => ptr = HighByte
  <2>1. AtHigh
    BY <1>2, PlaceOf
  <2>2. /\ Clean /\ InByte("hi", HighByte, <<>>)
        /\ present /\ ByteTaken => ptr = HighByte
    BY <2>1 DEF AtHigh
  <2>3. Acking("hi", HighByte, 6)
    BY <1>1, <2>2, ByteDone
  <2> QED BY <2>2, <2>3
<1>3. ASSUME pc = "low"
      PROVE  /\ Clean /\ Acking("lo", LowByte, 6)
             /\ present /\ ByteTaken => ptr = Pointed
  <2>1. AtLow
    BY <1>3, PlaceOf
  <2>2. /\ Clean /\ InByte("lo", LowByte, <<>>)
        /\ present /\ ByteTaken => ptr = Pointed
    BY <2>1 DEF AtLow
  <2>3. Acking("lo", LowByte, 6)
    BY <1>1, <2>2, ByteDone
  <2> QED BY <2>2, <2>3
<1>4. ASSUME pc = "again"
      PROVE  /\ Clean /\ tool = "readcart" /\ Acking("ctl", CtlRead, 6)
             /\ present => ptr = Pointed
  <2>1. AtAgain
    BY <1>4, PlaceOf
  <2>2. Clean /\ tool = "readcart" /\ (present => ptr = Pointed)
    BY <2>1 DEF AtAgain
  <2>3. ASSUME NEW k \in 0..4, todo = Rest(restart, k) \o send_byte(CtlRead)
        PROVE  FALSE
    <3> DEFINE t == send_byte(CtlRead)
    <3>1. restart \in Seq(Op) /\ Len(restart) = 4 /\ t \in Seq(Op)
      BY CartRoutines, RestartOps
    <3>2. Len(t) # 0
      BY SendOps, ByteWidth
    <3>3. Rest(restart, k) \o t = <<>>
      BY <2>3
    <3> HIDE DEF t
    <3>4. t = <<>>
      BY <3>1, <3>3, Emptied
    <3>5. t = <<>> => Len(t) = 0
      BY EmptySeq, Zenon
    <3> QED BY <3>2, <3>4, <3>5
  <2>4. InByte("ctl", CtlRead, <<>>)
    BY <2>1, <2>3 DEF AtAgain
  <2>5. Acking("ctl", CtlRead, 6)
    BY <1>1, <2>4, ByteDone
  <2> QED BY <2>2, <2>5
<1> QED BY <1>2, <1>3, <1>4

LEMMA DataReturn ==
  ASSUME CartTypeOK, CartPlace, todo = <<>>, pc = "data"
  PROVE  AtData /\ Acking("data", cjob.input[used + i + 1], 6)
<1>1. AtData /\ <<>> \in Seq(Op)
  BY PlaceOf, CartRoutines
<1>2. InByte("data", cjob.input[used + i + 1], <<>>)
  BY <1>1 DEF AtData
<1> QED BY <1>1, <1>2, ByteDone

LEMMA PollReturn ==
  ASSUME CartTypeOK, CartPlace, todo = <<>>, pc = "poll"
  PROVE  AtPoll
<1>1. ~AtStop
  <2> SUFFICES ASSUME NEW k \in 0..2, todo = Rest(stop, k) PROVE FALSE
    BY DEF AtStop
  <2>1. stop \in Seq(Op) /\ Len(stop) = 3 /\ k \in 0..3 /\ k # 3
    BY CartRoutines, StopOps
  <2> QED BY <2>1, AloneAt
<1> QED BY <1>1, PlaceOf

LEMMA PolledReturn ==
  ASSUME CartTypeOK, CartPlace, todo = <<>>, pc = "polled"
  PROVE  tool = "writecart" /\ Pending /\ Answers /\ Stopping(3) /\ got # <<>>
<1> DEFINE t2 == stop
           t1 == send_nak \o t2
           t0 == recv_byte \o t1
<1>1. AtPolled
  BY PlaceOf
<1>2. /\ tool = "writecart" /\ Pending /\ Answers
      /\ \/ \E k \in 0..2 : todo = Rest(start, k) \o (send_byte(CtlRead) \o t0)
         \/ InByte("ctl", CtlRead, t0)
         \/ \E p \in Nat : InReceive(p, t1)
         \/ \E k \in 0..3 : todo = Rest(send_nak, k) \o t2
         \/ \E k \in 0..3 : todo = Rest(stop, k) /\ Stopping(k) /\ got # <<>>
  BY <1>1 DEF AtPolled
<1>3. /\ t0 \in Seq(Op) /\ t1 \in Seq(Op) /\ t2 \in Seq(Op)
      /\ send_byte(CtlRead) \in Seq(Op) /\ send_byte(CtlRead) \o t0 \in Seq(Op)
      /\ start \in Seq(Op) /\ recv_byte \in Seq(Op) /\ send_nak \in Seq(Op) /\ stop \in Seq(Op)
  BY CartRoutines, ConcatProperties
<1>4. t2 # <<>>
  <2>1. Len(stop) # 0
    BY StopOps
  <2>2. stop = <<>> => Len(stop) = 0
    BY EmptySeq, Zenon
  <2> QED BY <2>1, <2>2
<1>5. t1 # <<>>
  BY <1>3, <1>4, ConcatEqualIffEmpty
<1>6. t0 # <<>>
  <2> HIDE DEF t1
  <2> QED BY <1>3, <1>5, ConcatEqualIffEmpty
<1>7. send_byte(CtlRead) \o t0 # <<>>
  <2> HIDE DEF t0
  <2> QED BY <1>3, <1>6, ConcatEqualIffEmpty
<1> HIDE DEF t0, t1, t2
<1>8. ASSUME NEW k \in 0..2, todo = Rest(start, k) \o (send_byte(CtlRead) \o t0)
      PROVE  FALSE
  <2>1. PICK w \in Seq(Op) : w = send_byte(CtlRead) \o t0
    BY <1>3
  <2>2. Rest(start, k) \o w = <<>>
    BY <1>8, <2>1
  <2>3. start \in Seq(Op) /\ Len(start) = 2
    BY CartRoutines, StartOps
  <2>4. w = <<>>
    BY <2>2, <2>3, Emptied
  <2> QED BY <1>7, <2>1, <2>4
<1>9. ~InByte("ctl", CtlRead, t0)
  BY <1>3, <1>6, ByteDone
<1>10. \A p \in Nat : ~InReceive(p, t1)
  BY <1>3, <1>5, ReceiveGoesOn
<1>11. ASSUME NEW k \in 0..3, todo = Rest(send_nak, k) \o t2
       PROVE  FALSE
  <2>1. send_nak \in Seq(Op) /\ Len(send_nak) = 3 /\ t2 \in Seq(Op)
    BY <1>3, NakOps
  <2>2. Rest(send_nak, k) \o t2 = <<>>
    BY <1>11
  <2>3. t2 = <<>>
    BY <2>1, <2>2, Emptied
  <2> QED BY <1>4, <2>3
<1>12. PICK k \in 0..3 : todo = Rest(stop, k) /\ Stopping(k) /\ got # <<>>
  BY <1>2, <1>8, <1>9, <1>10, <1>11
<1>13. k = 3
  <2>1. stop \in Seq(Op) /\ Len(stop) = 3
    BY CartRoutines, StopOps
  <2>2. Rest(stop, k) = <<>>
    BY <1>12
  <2> QED BY <2>1, <2>2, AloneAt
<1> QED BY <1>2, <1>12, <1>13

LEMMA ByteReturn ==
  ASSUME CartTypeOK, CartPlace, todo = <<>>, pc = "byte"
  PROVE  /\ tool = "readcart" /\ Clean /\ len > 0
         /\ present => \A b \in DOMAIN got : (got[b] # {}) = (Bit(rom[pos], b) = 1)
         /\ IF len > 1 THEN AckPlace(pos + 1, 3) ELSE NakPlace(3)
<1> DEFINE t == IF len > 1 THEN send_ack ELSE send_nak
<1>1. /\ tool = "readcart" /\ Clean /\ len > 0
      /\ present => \A b \in DOMAIN got : (got[b] # {}) = (Bit(rom[pos], b) = 1)
      /\ \/ InReceive(pos, t)
         \/ \E k \in 0..3 : todo = Rest(t, k) /\ IF len > 1 THEN AckPlace(pos + 1, k) ELSE NakPlace(k)
  BY PlaceOf DEF AtByte
<1>2. t \in Seq(Op) /\ Len(t) = 3
  BY CartRoutines, AckOps, NakOps
<1> HIDE DEF t
<1>3. t # <<>>
  <2>1. t = <<>> => Len(t) = 0
    BY EmptySeq, Zenon
  <2> QED BY <1>2, <2>1
<1>4. ~InReceive(pos, t)
  BY <1>2, <1>3, ReceiveGoesOn
<1>5. PICK k \in 0..3 : todo = Rest(t, k) /\ IF len > 1 THEN AckPlace(pos + 1, k) ELSE NakPlace(k)
  BY <1>1, <1>4
<1>6. k = 3
  <2>1. Rest(t, k) = <<>>
    BY <1>5
  <2> QED BY <1>2, <2>1, AloneAt
<1> QED BY <1>1, <1>5, <1>6

-----------------------------------------------------------------------------
(* A byte to be sent next.                                                 *)
LEMMA NextByteBegins ==
  ASSUME NEW t \in Seq(Op), NEW v \in CartByte, todo' = send_byte(v) \o t, got' = <<>>,
         Wired', SdaOut', ~pull', ~SclHigh', NEW m,
         present' => mode' = m /\ bits' = 0 /\ shift' = 0
  PROVE  InByte(m, v, t)'
<1>1. v \in Nat /\ v < 2 ^ Width /\ Width \in 1..8
  BY ByteWidth DEF CartByte
<1>2. v \div 2 ^ (Width - 0) = 0
  BY <1>1, FirstBits
<1>3. Sending(m, v, 0, 0)'
  BY <1>2 DEF Sending
<1>4. todo' = Rest(send_byte(v), 3 * 0 + 0) \o t
  <2>1. send_byte(v) \in Seq(Op) /\ 0 \in 0..Len(send_byte(v)) /\ 3 * 0 + 0 = 0
    BY SendOps, LenProperties
  <2>2. Rest(send_byte(v), 0) \o t = send_byte(v) \o t
    BY <2>1, ThenStep
  <2> QED BY <2>1, <2>2, Zenon
<1>5. 0 \in 0..(Width - 1) /\ 0 \in 0..2
  BY <1>1
<1> QED BY <1>3, <1>4, <1>5, Zenon DEF InByte

(* The two bytes of an address give it again.                              *)
LEMMA PointedIs ==
  ASSUME pos \in Nat, pos < Size
  PROVE  Pointed = pos
<1> DEFINE w == 2 ^ Width
<1>1. PICK k : k = Width
  OBVIOUS
<1>2. k \in {1, 2, 3, 4, 5, 6, 7, 8}
  BY <1>1, ByteWidth
<1>3. 2 ^ (2 * k) = 2 ^ k * 2 ^ k
  <2>1. 2 ^ 1 = 2 /\ 2 ^ 2 = 4 /\ 2 ^ 3 = 8 /\ 2 ^ 4 = 16 /\ 2 ^ 5 = 32 /\ 2 ^ 6 = 64
    BY SMT
  <2>2. 2 ^ 7 = 128 /\ 2 ^ 8 = 256 /\ 2 ^ 10 = 1024 /\ 2 ^ 12 = 4096
    BY SMT
  <2>3. 2 ^ 14 = 16384 /\ 2 ^ 16 = 65536
    BY SMT
  <2>4. CASE k = 1
    BY <2>1, <2>4
  <2>5. CASE k = 2
    BY <2>1, <2>5
  <2>6. CASE k = 3
    BY <2>1, <2>6
  <2>7. CASE k = 4
    BY <2>1, <2>2, <2>7
  <2>8. CASE k = 5
    BY <2>1, <2>2, <2>8
  <2>9. CASE k = 6
    BY <2>1, <2>2, <2>9
  <2>10. CASE k = 7
    BY <2>2, <2>3, <2>10
  <2>11. CASE k = 8
    BY <2>2, <2>3, <2>11
  <2> QED BY <1>2, <2>4, <2>5, <2>6, <2>7, <2>8, <2>9, <2>10, <2>11
<1>4. Size <= w * w /\ w \in Nat \ {0} /\ Size \in Nat
  BY <1>1, <1>3, CartAssumption, ByteWidth
<1>5. Pointed = w * ((pos \div w) % w) + (pos % w)
  BY DEF Pointed, HighByte, LowByte
<1> HIDE DEF w
<1>6. PICK q \in Nat, r \in 0..(w - 1) : pos = w * q + r /\ q = pos \div w /\ r = pos % w
  BY <1>4, Divides
<1>7. q \in 0..(w - 1)
  <2>1. w * q + r < w * w
    BY <1>4, <1>6
  <2>2. ~(q >= w)
    <3> SUFFICES ASSUME q >= w PROVE FALSE
      OBVIOUS
    <3>1. w * q >= w * w
      BY <1>4
    <3> QED BY <1>4, <2>1, <3>1
  <2> QED BY <1>4, <2>2
<1>8. q % w = q
  <2>1. q = w * 0 + q
    BY <1>4
  <2> QED BY <1>4, <1>7, <2>1, Remainder
<1> QED BY <1>5, <1>6, <1>8

-----------------------------------------------------------------------------
(* main goes on: the lines and the cartridge are as they were.             *)
LEMMA CartCalled ==
  ASSUME CartInv, NEW from, NEW to, NEW ops, CartCall(from, to, ops)
  PROVE  /\ CartTypeOK /\ Gone /\ CartPlace /\ Data
         /\ todo = <<>> /\ pc = from /\ pc' = to /\ todo' = ops /\ got' = <<>>
         /\ UNCHANGED <<functions, latch, saved, tool, cjob, old, late, more>>
         /\ UNCHANGED <<present, rom, page, busy, mode, bits, shift, ptr, pull>>
         /\ (Wired' <=> Wired) /\ (SdaOut' <=> SdaOut) /\ (SclHigh' <=> SclHigh)
         /\ (SdaHigh' <=> SdaHigh) /\ (Clean' <=> Clean)
         /\ pos \in Nat /\ len \in Nat /\ used \in Nat /\ n \in Nat /\ i \in Nat /\ safe \in Nat
         /\ tool \in CartTool
<1>1. /\ todo = <<>> /\ pc = from /\ pc' = to /\ todo' = ops /\ got' = <<>>
      /\ UNCHANGED <<functions, latch, saved, tool, cjob, old, late, more>>
      /\ UNCHANGED <<present, rom, page, busy, mode, bits, shift, ptr, pull>>
      /\ tool \in CartTool
  BY DEF CartCall, Main, chipVars
<1>2. /\ (Wired' <=> Wired) /\ (SdaOut' <=> SdaOut) /\ (SclHigh' <=> SclHigh)
      /\ (SdaHigh' <=> SdaHigh) /\ (Clean' <=> Clean)
  BY <1>1 DEF Wired, SdaOut, SclHigh, SdaHigh, Clean, None
<1>3. CartTypeOK /\ Gone /\ CartPlace /\ Data
  BY DEF CartInv, Data
<1>4. /\ pos \in Nat /\ len \in Nat /\ used \in Nat /\ n \in Nat /\ i \in Nat /\ safe \in Nat
  BY <1>3 DEF CartTypeOK
<1> QED BY <1>1, <1>2, <1>3, <1>4

(* A call keeps the types, if what it changes has them.                    *)
LEMMA CartCallTypes ==
  ASSUME CartInv, NEW from, NEW to, NEW ops \in Seq(Op), CartCall(from, to, ops),
         pos' \in Nat, len' \in Nat, used' \in Nat, n' \in Nat, i' \in Nat, safe' \in Nat,
         printed' \in Seq([1..Width -> BOOLEAN])
  PROVE  CartTypeOK' /\ Gone'
<1>1. CartTypeOK /\ Gone
  BY DEF CartInv
<1>2. got' \in Seq(SUBSET {SdaPin})
  BY CartCalled, EmptySeq
<1>3. /\ todo' = ops
      /\ UNCHANGED <<functions, latch, saved, tool, cjob, old, late, more>>
      /\ UNCHANGED <<present, rom, page, busy, mode, bits, shift, ptr, pull>>
  BY CartCalled
<1>4. CartTypeOK'
  BY <1>1, <1>2, <1>3 DEF CartTypeOK, PinTypeOK
<1>5. Gone'
  BY <1>1, <1>3 DEF Gone, Clean, None
<1> QED BY <1>4, <1>5

(* A call that prints nothing keeps the invariant, if the counts and the   *)
(* place are right.                                                        *)
LEMMA CartCallKeeps ==
  ASSUME CartInv, NEW from, NEW to, NEW ops \in Seq(Op), CartCall(from, to, ops),
         UNCHANGED <<printed, safe>>,
         pos' \in Nat, len' \in Nat, used' \in Nat, n' \in Nat, i' \in Nat,
         \/ Clean
         \/ from \notin {"start", "begin", "killed"}
         \/ to \in {"start", "begin", "killed"},
         CartCounts', CartPlace'
  PROVE  CartInv'
<1>1. CartTypeOK' /\ Gone'
  <2>1. safe' \in Nat /\ printed' \in Seq([1..Width -> BOOLEAN])
    BY DEF CartInv, CartTypeOK
  <2> QED BY <2>1, CartCallTypes
<1>2. /\ pc = from /\ pc' = to /\ Data /\ (Clean' <=> Clean)
      /\ UNCHANGED <<tool, cjob, old, late, present, rom, page>>
  BY CartCalled
<1>3. Wanted' = Wanted
  BY <1>2 DEF Wanted
<1>4. PageRight'
  <2>1. PageRight
    BY <1>2 DEF Data
  <2>2. CASE Clean
    BY <1>2, <2>2 DEF PageRight, Clean, None
  <2>3. CASE from \notin {"start", "begin", "killed"} \/ to \in {"start", "begin", "killed"}
    BY <1>2, <1>3, <2>1, <2>3 DEF PageRight
  <2> QED BY <2>2, <2>3
<1>5. RomRight'
  <2>1. RomRight
    BY <1>2 DEF Data
  <2> QED BY <1>2, <1>3, <2>1 DEF RomRight
<1>6. PrintRight'
  <2>1. PrintRight
    BY <1>2 DEF Data
  <2> QED BY <1>2, <2>1 DEF PrintRight, Bit
<1> QED BY <1>1, <1>4, <1>5, <1>6 DEF CartInv

(* What main knows when it has the program's way to go.                    *)
LEMMA CountsHold ==
  ASSUME CartInv
  PROVE  /\ pc \notin {"start", "killed", "exit", "done"} =>
              /\ pos + len = cjob.start + cjob.length
              /\ tool = "readcart" => pos = cjob.start + Len(printed)
              /\ tool = "writecart" =>
                   /\ pos = cjob.start + used /\ used <= Len(cjob.input) /\ safe <= used
                   /\ pc \notin {"poll", "polled"} => safe = used
         /\ cjob.start \in Nat /\ cjob.length \in Nat /\ Len(cjob.input) \in Nat
         /\ cjob.input \in Seq(CartByte)
         /\ cjob.start + Len(cjob.input) <= Size /\ Size \in Nat \ {0}
         /\ tool = "readcart" => cjob.start + cjob.length <= Size
BY JobTypes, CartAssumption DEF CartInv, CartCounts

(* A step of main on which the counts stay.                                *)
LEMMA CountsStay ==
  ASSUME CartInv, NEW from, NEW to, NEW ops, CartCall(from, to, ops),
         UNCHANGED <<pos, len, used, printed, safe>>,
         from \notin {"start", "killed", "exit", "done", "poll", "polled"},
         to \notin {"data", "exit", "done"}
  PROVE  CartCounts'
<1>1. pc = from /\ pc' = to /\ UNCHANGED <<tool, cjob>>
  BY CartCalled
<1>2. CartCounts
  BY DEF CartInv
<1> QED BY <1>1, <1>2 DEF CartCounts

(* Each action keeps the invariant.                                        *)
LEMMA CartConfigureInv == ASSUME CartInv, CartConfigure PROVE CartInv'
<1> DEFINE t == IF tool = "readcart" THEN start ELSE <<>>
           ops == configure_cart \o enable_cart \o t
<1>1. /\ CartCall("start", "begin", ops)
      /\ pos' = cjob.start /\ len' = cjob.length
      /\ used' = 0 /\ safe' = 0 /\ n' = 0 /\ i' = 0 /\ printed' = <<>>
  BY DEF CartConfigure
<1>2. ops = PowerOn \o t /\ t \in Seq(Op) /\ PowerOn \in Seq(Op) /\ ops \in Seq(Op)
  <2>1. t \in Seq(Op) /\ PowerOn \in Seq(Op) /\ ops = PowerOn \o t
    BY CartRoutines DEF PowerOn
  <2> HIDE DEF t, ops
  <2> QED BY <2>1, ConcatProperties
<1> HIDE DEF ops, t
<1>3. /\ pc = "start" /\ pc' = "begin" /\ todo' = ops /\ CartPlace
      /\ UNCHANGED <<tool, cjob>>
  BY <1>1, CartCalled
<1>4. safe = 0 /\ printed = <<>>
  BY <1>3, PlaceOf DEF AtCartRest
<1>5. CartPlace'
  <2>1. Rest(PowerOn, 0) \o t = ops
    BY <1>2, FrontAt
  <2>2. Powering(0)'
    BY DEF Powering
  <2>3. t' = t
    BY <1>3 DEF t
  <2>4. 0 \in 0..7 /\ todo' = Rest(PowerOn, 0) \o t
    BY <1>3, <2>1
  <2>5. AtBegin'
    BY <1>1, <1>3, <2>2, <2>3, <2>4 DEF AtBegin, t
  <2> QED BY <2>5 DEF CartPlace
<1>6. CartCounts'
  <2>1. cjob.start \in Nat /\ cjob.length \in Nat /\ Len(cjob.input) \in Nat
    BY CountsHold
  <2>2. Len(printed') = 0
    BY <1>1, EmptySeq
  <2> QED BY <1>1, <1>3, <2>1, <2>2 DEF CartCounts
<1>7. pos' \in Nat /\ len' \in Nat /\ used' \in Nat /\ n' \in Nat /\ i' \in Nat
  BY <1>1, CountsHold
<1> QED BY <1>1, <1>2, <1>4, <1>5, <1>6, <1>7, CartCallKeeps

LEMMA SendDeviceInv == ASSUME CartInv, SendDevice PROVE CartInv'
<1> DEFINE b == send_byte(CtlWrite)
           t == IF tool = "writecart" THEN start ELSE <<>>
           ops == t \o b
<1>1. CartCall("begin", "device", ops) /\ UNCHANGED <<pos, len, used, n, i, printed, safe>>
  BY DEF SendDevice
<1>2. b \in Seq(Op) /\ t \in Seq(Op) /\ start \in Seq(Op) /\ <<>> \in Seq(Op) /\ ops \in Seq(Op)
  <2>1. b \in Seq(Op) /\ t \in Seq(Op) /\ start \in Seq(Op) /\ <<>> \in Seq(Op)
    BY CartRoutines
  <2> HIDE DEF b, t
  <2> QED BY <2>1, ConcatProperties
<1> HIDE DEF b, t, ops
<1>3. /\ pc = "begin" /\ pc' = "device" /\ todo = <<>> /\ todo' = ops /\ got' = <<>>
      /\ CartTypeOK /\ Gone /\ CartPlace /\ tool \in CartTool
      /\ UNCHANGED <<tool, present, rom, page, busy, mode, bits, shift, ptr, pull>>
      /\ (Wired' <=> Wired) /\ (SdaOut' <=> SdaOut) /\ (SclHigh' <=> SclHigh)
      /\ (SdaHigh' <=> SdaHigh) /\ (Clean' <=> Clean)
      /\ pos \in Nat /\ len \in Nat /\ used \in Nat /\ n \in Nat /\ i \in Nat
  BY <1>1, CartCalled
<1>4. Clean /\ IF tool = "readcart" THEN Starting(2) ELSE Powering(7)
  BY <1>3, BeginReturn
<1>5. CartPlace'
  <2>1. CASE tool = "writecart"
    <3>1. todo' = start \o b
      BY <1>3, <2>1 DEF ops, t
    <3>2. todo' = Rest(start, 0) \o b
      BY <1>2, <3>1, FrontAt
    <3>3. Starting(0)'
      BY <1>3, <1>4, <2>1 DEF Powering, Starting, Wired
    <3>4. 0 \in 0..2
      OBVIOUS
    <3>5. AtDeviceStart'
      BY <1>3, <1>4, <2>1, <3>2, <3>3, <3>4 DEF AtDeviceStart, b
    <3> QED BY <3>5 DEF CartPlace
  <2>2. CASE tool = "readcart"
    <3>1. todo' = b
      BY <1>2, <1>3, <2>2, ConcatEmptySeq DEF ops, t
    <3>2. todo' = send_byte(CtlWrite) \o <<>>
      BY <1>2, <3>1, ConcatEmptySeq DEF b
    <3>3. Wired /\ SdaOut /\ ~pull /\ ~SclHigh /\ (present => mode = "ctl" /\ bits = 0 /\ shift = 0)
      BY <1>4, <2>2 DEF Starting
    <3>4. /\ Wired' /\ SdaOut' /\ ~pull' /\ ~SclHigh'
          /\ present' => mode' = "ctl" /\ bits' = 0 /\ shift' = 0
      BY <1>3, <3>3
    <3>5. InByte("ctl", CtlWrite, <<>>)'
      BY <1>2, <1>3, <3>2, <3>4, NextByteBegins, ControlBytes
    <3>6. AtDevice'
      BY <1>3, <1>4, <3>5 DEF AtDevice
    <3> QED BY <3>6 DEF CartPlace
  <2> QED BY <1>3, <2>1, <2>2 DEF CartTool
<1>6. CartCounts'
  BY <1>1, CountsStay
<1>7. pos' \in Nat /\ len' \in Nat /\ used' \in Nat /\ n' \in Nat /\ i' \in Nat
  BY <1>1, <1>3
<1> QED BY <1>1, <1>2, <1>4, <1>5, <1>6, <1>7, CartCallKeeps

(* A byte of the address, after one that was acknowledged.                 *)
LEMMA SendHighInv == ASSUME CartInv, SendHigh PROVE CartInv'
<1> DEFINE ops == send_byte(HighByte)
<1>1. CartCall("device", "high", ops) /\ UNCHANGED <<pos, len, used, n, i, printed, safe>>
  BY DEF SendHigh, HighByte
<1>2. ops \in Seq(Op) /\ <<>> \in Seq(Op) /\ ops \o <<>> = ops
  <2>1. ops \in Seq(Op) /\ <<>> \in Seq(Op)
    BY CartRoutines
  <2> HIDE DEF ops
  <2> QED BY <2>1, ConcatEmptySeq
<1>3. /\ pc = "device" /\ pc' = "high" /\ todo = <<>> /\ todo' = ops /\ got' = <<>>
      /\ CartTypeOK /\ Gone /\ CartPlace
      /\ UNCHANGED <<tool, present, rom, page, busy, mode, bits, shift, ptr, pull>>
      /\ (Wired' <=> Wired) /\ (SdaOut' <=> SdaOut) /\ (SclHigh' <=> SclHigh)
      /\ (Clean' <=> Clean)
      /\ pos \in Nat /\ len \in Nat /\ used \in Nat /\ n \in Nat /\ i \in Nat
  BY <1>1, CartCalled
<1>4. Clean /\ Acking("ctl", CtlWrite, 6)
  BY <1>3, DeviceReturn
<1>5. /\ Wired /\ SdaOut /\ ~SclHigh /\ ~pull
      /\ present => mode = "hi" /\ bits = 0 /\ shift = 0
  <2>1. NextMode("ctl", CtlWrite) = "hi" /\ pc # "polled"
    BY <1>3, ControlBytes DEF NextMode
  <2>2. /\ Wired /\ SdaOut /\ ~SclHigh
        /\ present => /\ mode = NextMode("ctl", CtlWrite) /\ bits = 0 /\ shift = 0
                      /\ IF mode = "send" THEN Shows(ptr, 0) ELSE ~pull
        /\ ~present => ~pull
    BY <1>3, <1>4, <2>1, AfterAck
  <2> QED BY <2>1, <2>2
<1>6. AtHigh'
  <2>1. PICK v \in CartByte : v = HighByte /\ v = HighByte'
    BY <1>1, <1>3, ControlBytes DEF HighByte
  <2>2. todo' = send_byte(v) \o <<>>
    BY <1>2, <1>3, <2>1
  <2>3. InByte("hi", v, <<>>)'
    BY <1>2, <1>3, <1>5, <2>2, NextByteBegins
  <2>4. InByte("hi", HighByte, <<>>)'
    BY <2>1, <2>3
  <2>5. ~ByteTaken'
    BY <1>3 DEF ByteTaken
  <2> QED BY <1>3, <1>4, <2>4, <2>5 DEF AtHigh
<1>7. CartPlace'
  BY <1>6 DEF CartPlace
<1>8. CartCounts'
  BY <1>1, CountsStay
<1> HIDE DEF ops
<1>9. pos' \in Nat /\ len' \in Nat /\ used' \in Nat /\ n' \in Nat /\ i' \in Nat
  BY <1>1, <1>3
<1> QED BY <1>1, <1>2, <1>4, <1>7, <1>8, <1>9, CartCallKeeps

LEMMA SendLowInv == ASSUME CartInv, SendLow PROVE CartInv'
<1> DEFINE ops == send_byte(LowByte)
<1>1. CartCall("high", "low", ops) /\ UNCHANGED <<pos, len, used, n, i, printed, safe>>
  BY DEF SendLow, LowByte
<1>2. ops \in Seq(Op) /\ <<>> \in Seq(Op) /\ ops \o <<>> = ops
  <2>1. ops \in Seq(Op) /\ <<>> \in Seq(Op)
    BY CartRoutines
  <2> HIDE DEF ops
  <2> QED BY <2>1, ConcatEmptySeq
<1>3. /\ pc = "high" /\ pc' = "low" /\ todo = <<>> /\ todo' = ops /\ got' = <<>>
      /\ CartTypeOK /\ Gone /\ CartPlace
      /\ UNCHANGED <<tool, present, rom, page, busy, mode, bits, shift, ptr, pull>>
      /\ (Wired' <=> Wired) /\ (SdaOut' <=> SdaOut) /\ (SclHigh' <=> SclHigh)
      /\ (Clean' <=> Clean)
      /\ pos \in Nat /\ len \in Nat /\ used \in Nat /\ n \in Nat /\ i \in Nat
  BY <1>1, CartCalled
<1>4. /\ Clean /\ Acking("hi", HighByte, 6)
      /\ present /\ ByteTaken => ptr = HighByte
  BY <1>3, AddressReturn
<1>5. /\ Wired /\ SdaOut /\ ~SclHigh /\ ~pull
      /\ present => mode = "lo" /\ bits = 0 /\ shift = 0 /\ ptr = HighByte
  <2>1. NextMode("hi", HighByte) = "lo" /\ pc # "polled"
    BY <1>3 DEF NextMode
  <2>2. /\ Wired /\ SdaOut /\ ~SclHigh
        /\ present => /\ mode = NextMode("hi", HighByte) /\ bits = 0 /\ shift = 0 /\ ByteTaken
                      /\ IF mode = "send" THEN Shows(ptr, 0) ELSE ~pull
        /\ ~present => ~pull
    BY <1>3, <1>4, <2>1, AfterAck
  <2> QED BY <1>4, <2>1, <2>2
<1>6. AtLow'
  <2>1. PICK v \in CartByte : v = LowByte /\ v = LowByte'
    BY <1>1, <1>3, ControlBytes DEF LowByte
  <2>2. todo' = send_byte(v) \o <<>>
    BY <1>2, <1>3, <2>1
  <2>3. InByte("lo", v, <<>>)'
    BY <1>2, <1>3, <1>5, <2>2, NextByteBegins
  <2>4. InByte("lo", LowByte, <<>>)'
    BY <2>1, <2>3
  <2>5. ~ByteTaken' /\ HighByte' = HighByte
    BY <1>1, <1>3 DEF ByteTaken, HighByte
  <2> QED BY <1>3, <1>4, <1>5, <2>4, <2>5 DEF AtLow
<1>7. CartPlace'
  BY <1>6 DEF CartPlace
<1>8. CartCounts'
  BY <1>1, CountsStay
<1> HIDE DEF ops
<1>9. pos' \in Nat /\ len' \in Nat /\ used' \in Nat /\ n' \in Nat /\ i' \in Nat
  BY <1>1, <1>3
<1> QED BY <1>1, <1>2, <1>4, <1>7, <1>8, <1>9, CartCallKeeps

-----------------------------------------------------------------------------
(* The program goes to leave.                                              *)
LEMMA ExitPlace ==
  ASSUME CartInv, CartCall(pc, "exit", Leave), Wired, SdaOut,
         SclHigh /\ present => mode = "idle"
  PROVE  Leave \in Seq(Op) /\ CartPlace' /\ pc # "exit"
<1>1. /\ pc' = "exit" /\ todo' = Leave /\ (Wired' <=> Wired) /\ (SdaOut' <=> SdaOut)
      /\ (SclHigh' <=> SclHigh) /\ UNCHANGED <<present, mode>> /\ CartPlace /\ CartTypeOK
      /\ todo = <<>>
  BY CartCalled
<1>2. Leave \in Seq(Op) /\ Rest(Leave, 0) = Leave
  BY CartRoutines, FrontAt
<1>3. Parting(0)'
  BY <1>1 DEF Parting, Wired
<1>4. 0 \in 0..8 /\ todo' = Rest(Leave, 0)
  BY <1>1, <1>2
<1>5. AtExit'
  BY <1>1, <1>3, <1>4 DEF AtExit
<1>6. pc # "exit"
  <2> SUFFICES ASSUME pc = "exit" PROVE FALSE
    OBVIOUS
  <2>1. PICK k \in 0..8 : todo = Rest(Leave, k) /\ Parting(k)
    BY <1>1, PlaceOf DEF AtExit
  <2>2. k = 8
    <3>1. Leave \in Seq(Op) /\ Len(Leave) = 8 /\ Rest(Leave, k) = <<>>
      BY <1>1, <1>2, <2>1, LeaveOps
    <3> QED BY <3>1, AloneAt
  <2>3. VccPin \notin latch
    BY <2>1, <2>2 DEF Parting
  <2> QED BY <2>3 DEF Wired
<1> QED BY <1>2, <1>5, <1>6 DEF CartPlace

(* The ways a program ends.                                                *)
LEMMA LeaveInv ==
  ASSUME CartInv, NEW code \in {0, 1}, Exits(code), UNCHANGED safe, Wired, SdaOut,
         SclHigh /\ present => mode = "idle", pc \notin {"start", "begin", "killed"},
         code = 0 => IF tool = "writecart"
                     THEN safe = Lesser(cjob.length, Len(cjob.input))
                     ELSE Len(printed) = cjob.length
  PROVE  CartInv'
<1>1. /\ CartCall(pc, "exit", Leave) /\ n' = code
      /\ UNCHANGED <<pos, len, used, i, printed>>
  BY DEF Exits, Leave
<1>2. Leave \in Seq(Op) /\ CartPlace'
  BY <1>1, ExitPlace
<1>3. pc' = "exit" /\ UNCHANGED <<tool, cjob>>
  BY <1>1, CartCalled
<1>4. CartCounts'
  BY <1>1, <1>3 DEF CartCounts
<1>5. pos' \in Nat /\ len' \in Nat /\ used' \in Nat /\ n' \in Nat /\ i' \in Nat
  <2>1. pos \in Nat /\ len \in Nat /\ used \in Nat /\ i \in Nat
    BY DEF CartInv, CartTypeOK
  <2> QED BY <1>1, <2>1
<1> QED BY <1>1, <1>2, <1>4, <1>5, CartCallKeeps

LEMMA RefusedInv == ASSUME CartInv, Refused PROVE CartInv'
<1>1. pc \in {"device", "high", "low", "again", "data"} /\ Exits(1) /\ UNCHANGED safe
  BY DEF Refused
<1>2. CartTypeOK /\ Gone /\ CartPlace /\ todo = <<>>
  <2>1. CartCall(pc, "exit", Leave)
    BY <1>1 DEF Exits, Leave
  <2> QED BY <2>1, CartCalled
<1>3. PICK m, v : Acking(m, v, 6)
  BY <1>1, <1>2, DeviceReturn, AddressReturn, DataReturn
<1>4. Wired /\ SdaOut /\ ~SclHigh
  BY <1>1, <1>2, <1>3, AfterAck
<1> QED BY <1>1, <1>4, LeaveInv

LEMMA NoPageInv == ASSUME CartInv, NoPage PROVE CartInv'
<1>1. PICK code \in {0, 1} : Exits(code) /\ (code = 0 => BytesRead = 0)
  BY DEF NoPage
<1>2. tool = "writecart" /\ pc = "low" /\ UNCHANGED safe
  BY DEF NoPage
<1>3. CartTypeOK /\ Gone /\ CartPlace /\ todo = <<>>
  <2>1. CartCall(pc, "exit", Leave)
    BY <1>1 DEF Exits, Leave
  <2> QED BY <2>1, CartCalled
<1>4. Wired /\ SdaOut /\ ~SclHigh
  BY <1>2, <1>3, AddressReturn, AfterAck
<1>5. code = 0 => safe = Lesser(cjob.length, Len(cjob.input))
  <2>1. /\ pos + len = cjob.start + cjob.length /\ pos = cjob.start + used
        /\ used <= Len(cjob.input) /\ safe = used
        /\ cjob.start \in Nat /\ cjob.length \in Nat /\ Len(cjob.input) \in Nat
    BY <1>2, CountsHold
  <2>2. pos \in Nat /\ len \in Nat /\ used \in Nat
    BY <1>3 DEF CartTypeOK
  <2>3. PICK r \in Nat \ {0} : r = page_size - (pos % page_size)
    <3>1. page_size \in Nat \ {0} /\ pos % page_size \in 0..(page_size - 1)
      BY <2>2, CartAssumption, Divides
    <3> QED BY <3>1
  <2>4. BytesRead = 0 => len = 0 \/ used = Len(cjob.input)
    BY <2>1, <2>2, <2>3 DEF BytesRead, Lesser
  <2>5. len = 0 \/ used = Len(cjob.input) => used = Lesser(cjob.length, Len(cjob.input))
    BY <2>1, <2>2 DEF Lesser
  <2> QED BY <1>1, <2>1, <2>4, <2>5
<1> QED BY <1>1, <1>2, <1>4, <1>5, LeaveInv

LEMMA PollsSpentInv == ASSUME CartInv, PollsSpent PROVE CartInv'
<1>1. pc = "polled" /\ Exits(1) /\ UNCHANGED safe
  BY DEF PollsSpent
<1>2. CartTypeOK /\ CartPlace /\ todo = <<>>
  <2>1. CartCall(pc, "exit", Leave)
    BY <1>1 DEF Exits, Leave
  <2> QED BY <2>1, CartCalled
<1>3. Wired /\ SdaOut /\ (present => mode = "idle")
  BY <1>1, <1>2, PolledReturn DEF Stopping
<1> QED BY <1>1, <1>3, LeaveInv

LEMMA AllReadInv == ASSUME CartInv, AllRead PROVE CartInv'
<1>1. pc = "read" /\ len = 0 /\ Exits(0) /\ UNCHANGED safe
  BY DEF AllRead
<1>2. CartTypeOK /\ CartPlace /\ todo = <<>>
  <2>1. CartCall(pc, "exit", Leave)
    BY <1>1 DEF Exits, Leave
  <2> QED BY <2>1, CartCalled
<1>3. tool = "readcart" /\ Wired /\ SdaOut /\ ~SclHigh
  BY <1>1, <1>2, PlaceOf DEF AtRead
<1>4. Len(printed) = cjob.length
  <2>1. /\ pos + len = cjob.start + cjob.length /\ pos = cjob.start + Len(printed)
        /\ cjob.start \in Nat /\ cjob.length \in Nat
    BY <1>1, <1>3, CountsHold
  <2>2. Len(printed) \in Nat /\ pos \in Nat
    BY <1>2, LenProperties DEF CartTypeOK
  <2> QED BY <1>1, <2>1, <2>2
<1> QED BY <1>1, <1>3, <1>4, LeaveInv

(* The program ends.                                                       *)
LEMMA CartExitInv == ASSUME CartInv, CartExit PROVE CartInv'
<1>1. CartCall("exit", "done", <<>>) /\ UNCHANGED <<pos, len, used, n, i, printed, safe>>
  BY DEF CartExit
<1>2. pc = "exit" /\ pc' = "done" /\ todo' = <<>> /\ UNCHANGED <<tool, cjob>>
  BY <1>1, CartCalled
<1>3. CartCounts'
  BY <1>1, <1>2 DEF CartCounts, CartInv
<1>4. CartPlace'
  BY <1>2 DEF CartPlace, AtCartRest
<1>5. pos' \in Nat /\ len' \in Nat /\ used' \in Nat /\ n' \in Nat /\ i' \in Nat
  BY <1>1 DEF CartInv, CartTypeOK
<1>6. <<>> \in Seq(Op)
  BY CartRoutines
<1> QED BY <1>1, <1>3, <1>4, <1>5, <1>6, CartCallKeeps

-----------------------------------------------------------------------------
(* What readcart does.                                                     *)
LEMMA ReadAgainInv == ASSUME CartInv, ReadAgain PROVE CartInv'
<1> DEFINE b == send_byte(CtlRead)
           ops == restart \o b
<1>1. /\ CartCall("low", "again", ops) /\ UNCHANGED <<pos, len, used, n, i, printed, safe>>
      /\ tool = "readcart"
  BY DEF ReadAgain
<1>2. ops \in Seq(Op) /\ b \in Seq(Op) /\ restart \in Seq(Op)
  <2>1. b \in Seq(Op) /\ restart \in Seq(Op)
    BY CartRoutines
  <2> HIDE DEF b
  <2> QED BY <2>1, ConcatProperties
<1> HIDE DEF b, ops
<1>3. /\ pc = "low" /\ pc' = "again" /\ todo = <<>> /\ todo' = ops /\ got' = <<>>
      /\ CartTypeOK /\ Gone /\ CartPlace
      /\ UNCHANGED <<tool, present, rom, page, busy, mode, bits, shift, ptr, pull>>
      /\ (Wired' <=> Wired) /\ (SdaOut' <=> SdaOut) /\ (SclHigh' <=> SclHigh)
      /\ (Clean' <=> Clean)
      /\ pos \in Nat /\ len \in Nat /\ used \in Nat /\ n \in Nat /\ i \in Nat
  BY <1>1, CartCalled
<1>4. Clean /\ Acking("lo", LowByte, 6) /\ (present /\ ByteTaken => ptr = Pointed)
  BY <1>3, AddressReturn
<1>5. Wired /\ SdaOut /\ ~SclHigh /\ ~pull /\ (present => ptr = Pointed)
  <2>1. NextMode("lo", LowByte) = "data" /\ pc # "polled"
    BY <1>3 DEF NextMode
  <2>2. /\ Wired /\ SdaOut /\ ~SclHigh
        /\ present => /\ mode = NextMode("lo", LowByte) /\ ByteTaken
                      /\ IF mode = "send" THEN Shows(ptr, 0) ELSE ~pull
        /\ ~present => ~pull
    BY <1>3, <1>4, <2>1, AfterAck
  <2> QED BY <1>4, <2>1, <2>2
<1>6. AtAgain'
  <2>1. Rest(restart, 0) \o b = ops
    BY <1>2, FrontAt DEF ops
  <2>2. todo' = Rest(restart, 0) \o send_byte(CtlRead) /\ 0 \in 0..4
    BY <1>3, <2>1 DEF b
  <2>3. Restarting(0)'
    BY <1>3, <1>5 DEF Restarting
  <2>4. Pointed' = Pointed
    BY <1>1 DEF Pointed, HighByte, LowByte
  <2> QED BY <1>1, <1>3, <1>4, <1>5, <2>2, <2>3, <2>4 DEF AtAgain
<1>7. CartPlace'
  BY <1>6 DEF CartPlace
<1>8. CartCounts'
  BY <1>1, CountsStay
<1>9. pos' \in Nat /\ len' \in Nat /\ used' \in Nat /\ n' \in Nat /\ i' \in Nat
  BY <1>1, <1>3
<1> QED BY <1>1, <1>2, <1>4, <1>7, <1>8, <1>9, CartCallKeeps

LEMMA LocatedInv == ASSUME CartInv, Located PROVE CartInv'
<1>1. CartCall("again", "read", <<>>) /\ UNCHANGED <<pos, len, used, n, i, printed, safe>>
  BY DEF Located
<1>2. <<>> \in Seq(Op)
  BY CartRoutines
<1>3. /\ pc = "again" /\ pc' = "read" /\ todo = <<>> /\ todo' = <<>> /\ got' = <<>>
      /\ CartTypeOK /\ Gone /\ CartPlace
      /\ UNCHANGED <<tool, present, rom, page, busy, mode, bits, shift, ptr, pull>>
      /\ (Wired' <=> Wired) /\ (SdaOut' <=> SdaOut) /\ (SclHigh' <=> SclHigh)
      /\ (Clean' <=> Clean)
      /\ pos \in Nat /\ len \in Nat /\ used \in Nat /\ n \in Nat /\ i \in Nat
  BY <1>1, CartCalled
<1>4. Clean /\ tool = "readcart" /\ Acking("ctl", CtlRead, 6) /\ (present => ptr = Pointed)
  BY <1>3, AddressReturn
<1>5. /\ Wired /\ SdaOut /\ ~SclHigh
      /\ present => mode = "send" /\ bits = 0 /\ Shows(ptr, 0)
  <2>1. NextMode("ctl", CtlRead) = "send" /\ pc # "polled"
    BY <1>3 DEF NextMode
  <2>2. /\ Wired /\ SdaOut /\ ~SclHigh
        /\ present => /\ mode = NextMode("ctl", CtlRead) /\ bits = 0
                      /\ IF mode = "send" THEN Shows(ptr, 0) ELSE ~pull
    BY <1>3, <1>4, <2>1, AfterAck
  <2> QED BY <2>1, <2>2
<1>6. len > 0 => Pointed = pos
  <2>1. pos + len = cjob.start + cjob.length /\ cjob.start + cjob.length <= Size
    BY <1>3, <1>4, CountsHold
  <2>2. cjob.start \in Nat /\ cjob.length \in Nat /\ Size \in Nat
    BY CountsHold
  <2>3. len > 0 => pos < Size
    BY <1>3, <2>1, <2>2
  <2> QED BY <1>3, <2>3, PointedIs
<1>7. AtRead'
  BY <1>1, <1>3, <1>4, <1>5, <1>6 DEF AtRead, Shows, Bit
<1>8. CartPlace'
  BY <1>7 DEF CartPlace
<1>9. CartCounts'
  BY <1>1, CountsStay
<1>10. pos' \in Nat /\ len' \in Nat /\ used' \in Nat /\ n' \in Nat /\ i' \in Nat
  BY <1>1, <1>3
<1> QED BY <1>1, <1>2, <1>4, <1>8, <1>9, <1>10, CartCallKeeps

LEMMA ReceiveInv == ASSUME CartInv, Receive PROVE CartInv'
<1> DEFINE t == IF len > 1 THEN send_ack ELSE send_nak
           ops == recv_byte \o t
<1>1. /\ CartCall("read", "byte", ops) /\ UNCHANGED <<pos, len, used, n, i, printed, safe>>
      /\ len > 0
  BY DEF Receive
<1>2. ops \in Seq(Op) /\ t \in Seq(Op) /\ recv_byte \in Seq(Op) /\ t' = t
  <2>1. t \in Seq(Op) /\ recv_byte \in Seq(Op) /\ t' = t
    BY <1>1, CartRoutines
  <2> HIDE DEF t
  <2> QED BY <2>1, ConcatProperties
<1> HIDE DEF t, ops
<1>3. /\ pc = "read" /\ pc' = "byte" /\ todo = <<>> /\ todo' = ops /\ got' = <<>>
      /\ CartTypeOK /\ Gone /\ CartPlace
      /\ UNCHANGED <<tool, present, rom, page, busy, mode, bits, shift, ptr, pull>>
      /\ (Wired' <=> Wired) /\ (SdaOut' <=> SdaOut) /\ (SclHigh' <=> SclHigh)
      /\ (Clean' <=> Clean)
      /\ pos \in Nat /\ len \in Nat /\ used \in Nat /\ n \in Nat /\ i \in Nat
  BY <1>1, CartCalled
<1>4. /\ Clean /\ tool = "readcart" /\ Wired /\ SdaOut /\ ~SclHigh
      /\ present => mode = "send" /\ bits = 0 /\ ptr = pos /\ Shows(pos, 0)
  BY <1>1, <1>3, PlaceOf DEF AtRead
<1>5. AtByte'
  <2>1. Turning(pos, 0)'
    <3>1. Samples(0)'
      BY <1>3, EmptySeq DEF Samples
    <3> QED BY <1>1, <1>3, <1>4, <3>1 DEF Turning, Shows, Bit
  <2>2. todo' = Rest(recv_byte, 0) \o t'
    BY <1>2, <1>3, FrontAt DEF ops
  <2>3. 0 \in 0..1
    OBVIOUS
  <2>4. (\E c \in 0..1 : todo = Rest(recv_byte, c) \o t /\ Turning(pos, c))'
    BY <2>1, <2>2, <2>3
  <2>5. InReceive(pos, t)'
    BY <2>4 DEF InReceive
  <2>6. got' = <<>> => DOMAIN got' = {}
    BY EmptySeq
  <2> QED BY <1>1, <1>3, <1>4, <2>5, <2>6 DEF AtByte, t
<1>6. CartPlace'
  BY <1>5 DEF CartPlace
<1>7. CartCounts'
  BY <1>1, CountsStay
<1>8. pos' \in Nat /\ len' \in Nat /\ used' \in Nat /\ n' \in Nat /\ i' \in Nat
  BY <1>1, <1>3
<1> QED BY <1>1, <1>2, <1>4, <1>6, <1>7, <1>8, CartCallKeeps

LEMMA PrintByteInv == ASSUME CartInv, PrintByte PROVE CartInv'
<1> DEFINE f == [k \in 1..Width |-> got[k] # {}]
<1>1. /\ CartCall("byte", "read", <<>>) /\ printed' = Append(printed, f)
      /\ len' = len - 1 /\ pos' = pos + 1 /\ UNCHANGED <<used, n, i, safe>>
  BY DEF PrintByte
<1>2. f \in [1..Width -> BOOLEAN] /\ \A k \in 1..Width : f[k] = (got[k] # {})
  OBVIOUS
<1> HIDE DEF f
<1>3. /\ pc = "byte" /\ pc' = "read" /\ todo = <<>> /\ todo' = <<>>
      /\ CartTypeOK /\ Gone /\ CartPlace /\ Data
      /\ UNCHANGED <<tool, cjob, present, rom, page, busy, mode, bits, shift, ptr, pull>>
      /\ (Wired' <=> Wired) /\ (SdaOut' <=> SdaOut) /\ (SclHigh' <=> SclHigh)
      /\ (Clean' <=> Clean)
      /\ pos \in Nat /\ len \in Nat /\ used \in Nat /\ n \in Nat /\ i \in Nat /\ safe \in Nat
  BY <1>1, CartCalled
<1>4. /\ tool = "readcart" /\ Clean /\ len > 0
      /\ present => \A b \in DOMAIN got : (got[b] # {}) = (Bit(rom[pos], b) = 1)
      /\ IF len > 1 THEN AckPlace(pos + 1, 3) ELSE NakPlace(3)
  BY <1>3, ByteReturn
<1>5. /\ Wired /\ SdaOut /\ ~SclHigh /\ Len(got) = Width
      /\ present /\ len > 1 => mode = "send" /\ bits = 0 /\ ptr = pos + 1 /\ Shows(pos + 1, 0)
  <2>1. CASE len > 1
    BY <1>3, <1>4, <2>1 DEF AckPlace, Samples
  <2>2. CASE ~(len > 1)
    BY <1>3, <1>4, <2>2 DEF NakPlace, Samples
  <2> QED BY <2>1, <2>2
<1>6. /\ printed \in Seq([1..Width -> BOOLEAN]) /\ Len(printed) \in Nat
      /\ printed' \in Seq([1..Width -> BOOLEAN]) /\ Len(printed') = Len(printed) + 1
      /\ \A k \in 1..Len(printed) : printed'[k] = printed[k]
      /\ printed'[Len(printed) + 1] = f
  <2>1. printed \in Seq([1..Width -> BOOLEAN])
    BY <1>3 DEF CartTypeOK
  <2> QED BY <1>1, <1>2, <2>1, AppendProperties, LenProperties
<1>7. CartTypeOK' /\ Gone'
  <2>1. /\ pos' \in Nat /\ len' \in Nat /\ used' \in Nat /\ n' \in Nat /\ i' \in Nat
        /\ safe' \in Nat /\ <<>> \in Seq(Op)
    BY <1>1, <1>3, <1>4, CartRoutines
  <2> QED BY <1>1, <1>6, <2>1, CartCallTypes
<1>8. CartPlace'
  <2>1. len' > 0 => len > 1
    BY <1>1, <1>3
  <2>2. AtRead'
    BY <1>1, <1>3, <1>4, <1>5, <2>1 DEF AtRead, Shows, Bit
  <2> QED BY <2>2 DEF CartPlace
<1>9. /\ pos + len = cjob.start + cjob.length /\ pos = cjob.start + Len(printed)
      /\ cjob.start \in Nat /\ cjob.length \in Nat
  BY <1>3, <1>4, CountsHold
<1>10. CartCounts'
  <2>1. pos' + len' = cjob.start + cjob.length /\ pos' = cjob.start + Len(printed')
    <3>1. pos' = pos + 1 /\ len' = len - 1 /\ pos \in Nat /\ len \in Nat
      BY <1>1, <1>3
    <3>2. PICK l \in Nat : l = Len(printed) /\ Len(printed') = l + 1
      BY <1>6
    <3>3. PICK s \in Nat : s = cjob.start
      BY <1>9
    <3>4. pos = s + l
      BY <1>9, <3>2, <3>3
    <3>5. pos' + len' = pos + len
      BY <3>1
    <3>6. pos' = s + (l + 1)
      BY <3>1, <3>4
    <3> QED BY <1>9, <3>2, <3>3, <3>5, <3>6
  <2> QED BY <1>3, <1>4, <2>1 DEF CartCounts
<1>11. PageRight' /\ RomRight'
  BY <1>3, <1>4 DEF PageRight, RomRight
<1>12. PrintRight'
  <2> SUFFICES ASSUME present, NEW k \in DOMAIN printed', NEW b \in 1..Width
               PROVE  printed'[k][b] = (Bit(rom[cjob.start + k - 1], b) = 1)
    BY <1>3, <1>4 DEF PrintRight, Bit
  <2>1. k \in 1..(Len(printed) + 1)
    BY <1>6, LenProperties
  <2>2. CASE k = Len(printed) + 1
    <3>1. cjob.start + k - 1 = pos
      BY <1>6, <1>9, <2>2
    <3>2. b \in DOMAIN got
      <4>1. got \in Seq(SUBSET {SdaPin})
        BY <1>3 DEF CartTypeOK
      <4> QED BY <1>5, <4>1, LenProperties
    <3>3. printed'[k] = f /\ f[b] = (got[b] # {})
      BY <1>2, <1>6, <2>2
    <3>4. (got[b] # {}) = (Bit(rom[pos], b) = 1)
      BY <1>4, <3>2
    <3> QED BY <3>1, <3>3, <3>4
  <2>3. CASE k # Len(printed) + 1
    <3>1. k \in 1..Len(printed) /\ k \in DOMAIN printed
      BY <1>6, <2>1, <2>3, LenProperties
    <3>2. printed[k][b] = (Bit(rom[cjob.start + k - 1], b) = 1)
      BY <1>3, <1>4, <3>1 DEF Data, PrintRight
    <3> QED BY <1>6, <3>1, <3>2
  <2> QED BY <2>2, <2>3
<1> QED BY <1>7, <1>8, <1>10, <1>11, <1>12 DEF CartInv

-----------------------------------------------------------------------------
(* writecart sends a page.                                                 *)
LEMMA ReadCount ==
  ASSUME CartInv, pc = "low", tool = "writecart", BytesRead > 0
  PROVE  /\ BytesRead \in Nat /\ BytesRead <= len /\ used + BytesRead <= Len(cjob.input)
         /\ (pos % page_size) + BytesRead <= page_size /\ pos < Size
         /\ cjob.input[used + 1] \in CartByte
<1>1. /\ pos = cjob.start + used /\ cjob.start \in Nat /\ Len(cjob.input) \in Nat
      /\ cjob.start + Len(cjob.input) <= Size /\ Size \in Nat /\ cjob.input \in Seq(CartByte)
  BY CountsHold
<1>2. pos \in Nat /\ len \in Nat /\ used \in Nat
  BY DEF CartInv, CartTypeOK
<1>3. PICK q \in Nat : q = pos % page_size /\ q <= page_size - 1
  BY <1>2, CartAssumption, Divides
<1>4. /\ BytesRead \in Nat /\ BytesRead <= len /\ used + BytesRead <= Len(cjob.input)
      /\ q + BytesRead <= page_size
  <2>1. PICK r \in Nat, l \in Nat, s \in Nat :
          r = page_size - q /\ l = len /\ s = Len(cjob.input) - used
    <3>1. page_size \in Nat \ {0} /\ used <= Len(cjob.input)
      BY CartAssumption, CountsHold
    <3>2. page_size - q \in Nat
      BY <1>3, <3>1
    <3>3. Len(cjob.input) - used \in Nat
      BY <1>1, <1>2, <3>1
    <3> QED BY <1>2, <3>2, <3>3
  <2>2. BytesRead = Lesser(Lesser(r, l), s)
    BY <1>3, <2>1 DEF BytesRead
  <2>3. PICK m \in Nat : m = BytesRead /\ m <= r /\ m <= l /\ m <= s
    BY <2>2 DEF Lesser
  <2>4. page_size \in Nat /\ Len(cjob.input) \in Nat
    BY <1>1, CartAssumption
  <2>5. used + m <= Len(cjob.input) /\ q + m <= page_size
    BY <1>2, <2>1, <2>3, <2>4
  <2> QED BY <2>1, <2>3, <2>5
<1>5. used + 1 \in 1..Len(cjob.input)
  BY <1>1, <1>2, <1>4
<1>6. cjob.input[used + 1] \in CartByte
  BY <1>1, <1>5, ElementOfSeq
<1>7. pos < Size
  BY <1>1, <1>2, <1>5
<1> QED BY <1>3, <1>4, <1>6, <1>7

LEMMA ReadPageInv == ASSUME CartInv, ReadPage PROVE CartInv'
<1> DEFINE ops == send_byte(cjob.input[used + 1])
<1>1. /\ CartCall("low", "data", ops) /\ UNCHANGED <<pos, len, used, printed, safe>>
      /\ tool = "writecart" /\ BytesRead > 0 /\ n' = BytesRead /\ i' = 0
  BY DEF ReadPage
<1>2. ops \in Seq(Op) /\ <<>> \in Seq(Op) /\ ops \o <<>> = ops
  <2>1. ops \in Seq(Op) /\ <<>> \in Seq(Op)
    BY CartRoutines
  <2> HIDE DEF ops
  <2> QED BY <2>1, ConcatEmptySeq
<1>3. /\ pc = "low" /\ pc' = "data" /\ todo = <<>> /\ todo' = ops /\ got' = <<>>
      /\ CartTypeOK /\ Gone /\ CartPlace
      /\ UNCHANGED <<tool, cjob, present, rom, page, busy, mode, bits, shift, ptr, pull>>
      /\ (Wired' <=> Wired) /\ (SdaOut' <=> SdaOut) /\ (SclHigh' <=> SclHigh)
      /\ (Clean' <=> Clean)
      /\ pos \in Nat /\ len \in Nat /\ used \in Nat
  BY <1>1, CartCalled
<1>4. Clean /\ Acking("lo", LowByte, 6) /\ (present /\ ByteTaken => ptr = Pointed)
  BY <1>3, AddressReturn
<1>5. /\ Wired /\ SdaOut /\ ~SclHigh /\ ~pull
      /\ present => mode = "data" /\ bits = 0 /\ shift = 0 /\ ptr = Pointed
  <2>1. NextMode("lo", LowByte) = "data" /\ pc # "polled"
    BY <1>3 DEF NextMode
  <2>2. /\ Wired /\ SdaOut /\ ~SclHigh
        /\ present => /\ mode = NextMode("lo", LowByte) /\ bits = 0 /\ shift = 0 /\ ByteTaken
                      /\ IF mode = "send" THEN Shows(ptr, 0) ELSE ~pull
        /\ ~present => ~pull
    BY <1>3, <1>4, <2>1, AfterAck
  <2> QED BY <1>4, <2>1, <2>2
<1>6. /\ BytesRead \in Nat /\ BytesRead <= len /\ used + BytesRead <= Len(cjob.input)
      /\ (pos % page_size) + BytesRead <= page_size /\ pos < Size
      /\ cjob.input[used + 1] \in CartByte
  BY <1>1, <1>3, ReadCount
<1>7. Pointed = pos
  BY <1>3, <1>6, PointedIs
<1>8. AtData'
  <2>1. PICK v \in CartByte : v = cjob.input[used + 1]
    BY <1>6
  <2>2. used' + i' + 1 = used + 1 /\ pos' + i' = pos
    BY <1>1, <1>3
  <2>3. InByte("data", v, <<>>)'
    <3>1. todo' = send_byte(v) \o <<>>
      BY <1>2, <1>3, <2>1
    <3> QED BY <1>2, <1>3, <1>5, <3>1, NextByteBegins
  <2>4. InByte("data", cjob.input[used + i + 1], <<>>)'
    BY <1>3, <2>1, <2>2, <2>3
  <2>5. ~ByteTaken'
    BY <1>3 DEF ByteTaken
  <2>6. Bytes(pos, pos + i)' = None
    <3>1. pos'..((pos' + i') - 1) = {}
      BY <1>1, <1>3
    <3> QED BY <3>1 DEF Bytes, None
  <2>7. present' => /\ ~busy' /\ page' = Bytes(pos, pos + i)' /\ ptr' = pos' + i'
    BY <1>3, <1>4, <1>5, <1>7, <2>2, <2>6 DEF Clean
  <2> QED BY <1>1, <1>3, <2>4, <2>5, <2>7 DEF AtData
<1>9. CartPlace'
  BY <1>8 DEF CartPlace
<1>10. CartCounts'
  <2>1. /\ pos + len = cjob.start + cjob.length /\ pos = cjob.start + used
        /\ used <= Len(cjob.input) /\ safe <= used /\ safe = used
    BY <1>1, <1>3, CountsHold
  <2>2. 0 < BytesRead
    BY <1>1, <1>6
  <2> QED BY <1>1, <1>3, <1>6, <2>1, <2>2 DEF CartCounts, CartTool
<1> HIDE DEF ops
<1>11. pos' \in Nat /\ len' \in Nat /\ used' \in Nat /\ n' \in Nat /\ i' \in Nat
  BY <1>1, <1>3, <1>6
<1> QED BY <1>1, <1>2, <1>4, <1>9, <1>10, <1>11, CartCallKeeps

LEMMA SendNextInv == ASSUME CartInv, SendNext PROVE CartInv'
<1> DEFINE ops == send_byte(cjob.input[used + i + 2])
<1>1. /\ CartCall("data", "data", ops) /\ UNCHANGED <<pos, len, used, n, printed, safe>>
      /\ i + 1 < n /\ i' = i + 1
  BY DEF SendNext
<1>2. ops \in Seq(Op) /\ <<>> \in Seq(Op) /\ ops \o <<>> = ops
  <2>1. ops \in Seq(Op) /\ <<>> \in Seq(Op)
    BY CartRoutines
  <2> HIDE DEF ops
  <2> QED BY <2>1, ConcatEmptySeq
<1>3. /\ pc = "data" /\ pc' = "data" /\ todo = <<>> /\ todo' = ops /\ got' = <<>>
      /\ CartTypeOK /\ Gone /\ CartPlace
      /\ UNCHANGED <<tool, cjob, present, rom, page, busy, mode, bits, shift, ptr, pull>>
      /\ (Wired' <=> Wired) /\ (SdaOut' <=> SdaOut) /\ (SclHigh' <=> SclHigh)
      /\ pos \in Nat /\ len \in Nat /\ used \in Nat /\ n \in Nat /\ i \in Nat
  BY <1>1, CartCalled
<1>4. AtData /\ Acking("data", cjob.input[used + i + 1], 6)
  BY <1>3, DataReturn
<1>5. /\ Wired /\ SdaOut /\ ~SclHigh /\ ~pull
      /\ present => mode = "data" /\ bits = 0 /\ shift = 0 /\ ByteTaken
  <2>1. NextMode("data", cjob.input[used + i + 1]) = "data" /\ pc # "polled"
    BY <1>3 DEF NextMode
  <2>2. /\ Wired /\ SdaOut /\ ~SclHigh
        /\ present => /\ mode = NextMode("data", cjob.input[used + i + 1]) /\ bits = 0
                      /\ shift = 0 /\ ByteTaken
                      /\ IF mode = "send" THEN Shows(ptr, 0) ELSE ~pull
        /\ ~present => ~pull
    BY <1>3, <1>4, <2>1, AfterAck
  <2> QED BY <2>1, <2>2
<1>6. /\ tool = "writecart"
      /\ present => ~busy /\ page = Bytes(pos, pos + i + 1) /\ ptr = pos + i + 1
  BY <1>1, <1>4, <1>5 DEF AtData
<1>7. CartCounts /\ i < n /\ n <= len /\ used + n <= Len(cjob.input)
  BY <1>3 DEF CartInv, CartCounts
<1>8. AtData'
  <2>1. used' + i' + 1 = used + i + 2 /\ pos' + i' = pos + i + 1
    BY <1>1, <1>3
  <2>2. PICK v \in CartByte : v = cjob.input[used + i + 2]
    <3>1. Len(cjob.input) \in Nat /\ cjob.input \in Seq(CartByte)
      BY CountsHold
    <3>2. used + i + 2 \in 1..Len(cjob.input)
      BY <1>1, <1>3, <1>7, <3>1
    <3> QED BY <3>1, <3>2, ElementOfSeq
  <2>3. InByte("data", v, <<>>)'
    <3>1. todo' = send_byte(v) \o <<>>
      BY <1>2, <1>3, <2>2
    <3> QED BY <1>2, <1>3, <1>5, <3>1, NextByteBegins
  <2>4. InByte("data", cjob.input[used + i + 1], <<>>)'
    BY <1>3, <2>1, <2>2, <2>3
  <2>5. ~ByteTaken'
    BY <1>3 DEF ByteTaken
  <2>6. Bytes(pos, pos + i)' = Bytes(pos, pos + i + 1)
    BY <1>1, <1>3, <2>1 DEF Bytes
  <2>7. present' => ~busy' /\ page' = Bytes(pos, pos + i)' /\ ptr' = pos' + i'
    BY <1>3, <1>6, <2>1, <2>6
  <2> QED BY <1>3, <1>6, <2>4, <2>5, <2>7 DEF AtData
<1>9. CartPlace'
  BY <1>8 DEF CartPlace
<1>10. CartCounts'
  BY <1>1, <1>3, <1>7 DEF CartCounts
<1> HIDE DEF ops
<1>11. pos' \in Nat /\ len' \in Nat /\ used' \in Nat /\ n' \in Nat /\ i' \in Nat
  BY <1>1, <1>3
<1> QED BY <1>1, <1>2, <1>3, <1>9, <1>10, <1>11, CartCallKeeps

LEMMA PageSentInv == ASSUME CartInv, PageSent PROVE CartInv'
<1>1. /\ CartCall("data", "poll", stop) /\ UNCHANGED <<n, printed, safe>>
      /\ i + 1 = n /\ i' = 0 /\ len' = len - n /\ pos' = pos + n /\ used' = used + n
  BY DEF PageSent
<1>2. stop \in Seq(Op) /\ Rest(stop, 0) = stop
  BY CartRoutines, FrontAt
<1>3. /\ pc = "data" /\ pc' = "poll" /\ todo = <<>> /\ todo' = stop
      /\ CartTypeOK /\ Gone /\ CartPlace
      /\ UNCHANGED <<tool, cjob, present, rom, page, busy, mode, bits, shift, ptr, pull>>
      /\ (Wired' <=> Wired) /\ (SdaOut' <=> SdaOut) /\ (SclHigh' <=> SclHigh)
      /\ pos \in Nat /\ len \in Nat /\ used \in Nat /\ n \in Nat /\ i \in Nat
  BY <1>1, CartCalled
<1>4. AtData /\ Acking("data", cjob.input[used + i + 1], 6)
  BY <1>3, DataReturn
<1>5. /\ Wired /\ SdaOut /\ ~SclHigh /\ ~pull
      /\ present => mode = "data" /\ bits = 0 /\ ByteTaken
  <2>1. NextMode("data", cjob.input[used + i + 1]) = "data" /\ pc # "polled"
    BY <1>3 DEF NextMode
  <2>2. /\ Wired /\ SdaOut /\ ~SclHigh
        /\ present => /\ mode = NextMode("data", cjob.input[used + i + 1]) /\ bits = 0
                      /\ ByteTaken /\ IF mode = "send" THEN Shows(ptr, 0) ELSE ~pull
        /\ ~present => ~pull
    BY <1>3, <1>4, <2>1, AfterAck
  <2> QED BY <2>1, <2>2
<1>6. tool = "writecart" /\ (present => ~busy /\ page = Bytes(pos, pos + i + 1))
  BY <1>1, <1>4, <1>5 DEF AtData
<1>7. /\ n <= len /\ used + n <= Len(cjob.input)
      /\ pos + len = cjob.start + cjob.length /\ pos = cjob.start + used /\ safe = used
      /\ cjob.start \in Nat
  <2>1. n <= len /\ used + n <= Len(cjob.input)
    BY <1>3 DEF CartInv, CartCounts
  <2> QED BY <1>3, <1>6, <2>1, CountsHold
<1>8. AtStop'
  <2>1. Stopping(0)'
    BY <1>3, <1>5 DEF Stopping
  <2>2. Bytes(cjob.start + safe, cjob.start + used)' = Bytes(pos, pos + i + 1)
    <3>1. cjob.start + safe = pos /\ cjob.start + used' = pos + i + 1
      <4>1. PICK s \in Nat : s = cjob.start
        BY <1>7
      <4>2. pos = s + used /\ safe = used /\ used' = used + (i + 1)
        BY <1>1, <1>7, <4>1
      <4>3. s + used' = pos + i + 1
        BY <1>3, <4>2
      <4> QED BY <4>1, <4>2, <4>3
    <3> QED BY <1>1, <1>3, <3>1 DEF Bytes
  <2>3. 0 \in 0..2 /\ todo' = Rest(stop, 0)
    BY <1>2, <1>3
  <2> QED BY <1>3, <1>5, <1>6, <2>1, <2>2, <2>3 DEF AtStop
<1>9. CartPlace'
  BY <1>8 DEF CartPlace
<1>10. pos' \in Nat /\ len' \in Nat /\ used' \in Nat /\ n' \in Nat /\ i' \in Nat
  BY <1>1, <1>3, <1>7
<1>11. CartCounts'
  <2>1. /\ pos' + len' = cjob.start + cjob.length /\ pos' = cjob.start + used'
        /\ used' <= Len(cjob.input) /\ safe <= used'
    BY <1>1, <1>3, <1>7
  <2> QED BY <1>1, <1>3, <1>6, <2>1 DEF CartCounts
<1> QED BY <1>1, <1>2, <1>3, <1>9, <1>10, <1>11, CartCallKeeps

(* Routines one after the other.                                           *)
LEMMA Associates ==
  ASSUME NEW p \in Seq(Op), NEW q \in Seq(Op), NEW r \in Seq(Op)
  PROVE  p \o q \o r = p \o (q \o r)
BY ConcatAssociative

(* Sequences put together, one way or the other.                           *)
LEMMA AssociatesAs ==
  ASSUME NEW c \in Seq(Op), NEW d \in Seq(Op), NEW x \in Seq(Op), NEW y \in Seq(Op),
         x = c \o d
  PROVE  x \o y = c \o (d \o y)
BY Associates

(* Four of them.                                                           *)
LEMMA GroupsFour ==
  ASSUME NEW c \in Seq(Op), NEW d \in Seq(Op), NEW e \in Seq(Op), NEW f \in Seq(Op)
  PROVE  c \o d \o e \o f  = c \o (d \o (e \o f)) /\ d \o (e \o f) \in Seq(Op)
<1>1. PICK x \in Seq(Op) : x = c \o d
  BY ConcatProperties
<1>2. PICK y \in Seq(Op) : y = e \o f
  BY ConcatProperties
<1>3. x \o y = c \o (d \o y)
  BY <1>1, AssociatesAs
<1>4. x \o e \o f = x \o y
  BY <1>2, Associates
<1>5. d \o y \in Seq(Op)
  BY <1>2, ConcatProperties
<1> QED BY <1>1, <1>2, <1>3, <1>4, <1>5

(* The stores of a poll that begins again, as its parts.                   *)
LEMMA Regrouped ==
  ASSUME NEW c \in Seq(Op), NEW d \in Seq(Op), NEW e \in Seq(Op), NEW f \in Seq(Op),
         NEW g \in Seq(Op)
  PROVE  /\ c \o d \o e \o f \o g = c \o (d \o (e \o (f \o g)))
         /\ c \o d \o e \o f \o g \in Seq(Op) /\ d \o (e \o (f \o g)) \in Seq(Op)
<1>1. PICK x \in Seq(Op) : x = c \o d
  BY ConcatProperties
<1>2. PICK y \in Seq(Op) : y = e \o (f \o g) /\ x \o e \o f \o g = x \o y
  <2>1. x \o e \o f \o g = x \o (e \o (f \o g)) /\ e \o (f \o g) \in Seq(Op)
    BY GroupsFour
  <2> QED BY <2>1
<1>3. x \o y = c \o (d \o y)
  BY <1>1, AssociatesAs
<1>5. d \o y \in Seq(Op)
  BY <1>2, ConcatProperties
<1>6. c \o (d \o y) \in Seq(Op)
  BY <1>5, ConcatProperties
<1> QED BY <1>1, <1>2, <1>3, <1>5, <1>6

LEMMA PollInv == ASSUME CartInv, Poll PROVE CartInv'
<1> DEFINE b == send_byte(CtlRead)
           ops == start \o b \o recv_byte \o send_nak \o stop
           t == b \o (recv_byte \o (send_nak \o stop))
<1>1. CartCall("poll", "polled", ops) /\ UNCHANGED <<pos, len, used, n, i, printed, safe>>
  BY DEF Poll
<1>2. ops \in Seq(Op) /\ ops = start \o t /\ t \in Seq(Op) /\ start \in Seq(Op)
  <2>1. /\ start \in Seq(Op) /\ b \in Seq(Op) /\ recv_byte \in Seq(Op)
        /\ send_nak \in Seq(Op) /\ stop \in Seq(Op)
    BY CartRoutines
  <2> HIDE DEF b
  <2>2. PICK c \in Seq(Op), d \in Seq(Op), e \in Seq(Op), f \in Seq(Op), g \in Seq(Op) :
          c = start /\ d = b /\ e = recv_byte /\ f = send_nak /\ g = stop
    BY <2>1
  <2>3. ops = c \o d \o e \o f \o g /\ t = d \o (e \o (f \o g))
    BY <2>2
  <2>4. /\ c \o d \o e \o f \o g = c \o (d \o (e \o (f \o g)))
        /\ c \o d \o e \o f \o g \in Seq(Op) /\ d \o (e \o (f \o g)) \in Seq(Op)
    BY Regrouped, Zenon
  <2> HIDE DEF ops, t
  <2> QED BY <2>1, <2>2, <2>3, <2>4
<1> HIDE DEF ops, b, t
<1>3. /\ pc = "poll" /\ pc' = "polled" /\ todo = <<>> /\ todo' = ops /\ got' = <<>>
      /\ CartTypeOK /\ CartPlace
      /\ UNCHANGED <<tool, cjob, present, rom, page, busy, mode, bits, shift, ptr, pull>>
      /\ (Wired' <=> Wired) /\ (SdaOut' <=> SdaOut) /\ (SclHigh' <=> SclHigh)
      /\ (SdaHigh' <=> SdaHigh)
      /\ pos \in Nat /\ len \in Nat /\ used \in Nat /\ n \in Nat /\ i \in Nat
  BY <1>1, CartCalled
<1>4. AtPoll
  BY <1>3, PollReturn
<1>5. AtPolled'
  <2>1. tool = "writecart" /\ Free /\ Pending /\ (present => mode = "idle")
    BY <1>4 DEF AtPoll
  <2>2. Starting(0)'
    BY <1>3, <2>1 DEF Free, Starting
  <2>3. Pending'
    BY <1>1, <1>3, <2>1 DEF Pending
  <2>4. Answers' /\ Silence'
    BY <1>3, <2>1 DEF Answers, Silence, Free
  <2>5. todo' = Rest(start, 0) \o t /\ 0 \in 0..2
    BY <1>2, <1>3, FrontAt
  <2>6. todo' = Rest(start, 0) \o (send_byte(CtlRead) \o (recv_byte \o (send_nak \o stop)))
    BY <2>5 DEF t, b
  <2> QED BY <1>3, <2>1, <2>2, <2>3, <2>4, <2>5, <2>6 DEF AtPolled
<1>6. CartPlace'
  BY <1>5 DEF CartPlace
<1>7. CartCounts'
  BY <1>1, <1>3 DEF CartInv, CartCounts
<1>8. pos' \in Nat /\ len' \in Nat /\ used' \in Nat /\ n' \in Nat /\ i' \in Nat
  BY <1>1, <1>3
<1> QED BY <1>1, <1>2, <1>3, <1>6, <1>7, <1>8, CartCallKeeps

LEMMA PollAgainInv == ASSUME CartInv, PollAgain PROVE CartInv'
<1>1. /\ CartCall("polled", "poll", <<>>) /\ UNCHANGED <<pos, len, used, printed, safe>>
      /\ i' = i + 1 /\ n' = 1
  BY DEF PollAgain
<1>2. <<>> \in Seq(Op)
  BY CartRoutines
<1>3. /\ pc = "polled" /\ pc' = "poll" /\ todo = <<>> /\ todo' = <<>>
      /\ CartTypeOK /\ CartPlace
      /\ UNCHANGED <<tool, cjob, present, rom, page, busy, mode, bits, shift, ptr, pull>>
      /\ (Wired' <=> Wired) /\ (SdaOut' <=> SdaOut) /\ (SclHigh' <=> SclHigh)
      /\ (SdaHigh' <=> SdaHigh)
      /\ pos \in Nat /\ len \in Nat /\ used \in Nat /\ n \in Nat /\ i \in Nat
  BY <1>1, CartCalled
<1>4. tool = "writecart" /\ Pending /\ Stopping(3)
  BY <1>3, PolledReturn
<1>5. AtPoll'
  <2>1. Free'
    BY <1>3, <1>4 DEF Stopping, Free
  <2>2. Pending'
    BY <1>1, <1>3, <1>4 DEF Pending
  <2>3. present => mode = "idle"
    BY <1>4 DEF Stopping
  <2> QED BY <1>3, <1>4, <2>1, <2>2, <2>3 DEF AtPoll
<1>6. CartPlace'
  BY <1>5 DEF CartPlace
<1>7. CartCounts'
  BY <1>1, <1>3 DEF CartInv, CartCounts
<1>8. pos' \in Nat /\ len' \in Nat /\ used' \in Nat /\ n' \in Nat /\ i' \in Nat
  BY <1>1, <1>3
<1> QED BY <1>1, <1>2, <1>3, <1>6, <1>7, <1>8, CartCallKeeps

(* An answer that reads as one: the page has been programmed.              *)
LEMMA Acknowledged ==
  ASSUME CartInv, pc = "polled", todo = <<>>, Answered, safe' = used,
         UNCHANGED <<tool, cjob, old, late, rom, page>>
  PROVE  /\ tool = "writecart" /\ Clean /\ Stopping(3)
         /\ PageRight' /\ RomRight' /\ PrintRight'
<1>1. CartTypeOK /\ CartPlace /\ RomRight
  BY DEF CartInv
<1>2. tool = "writecart" /\ Answers /\ Stopping(3) /\ got # <<>>
  BY <1>1, PolledReturn
<1>3. Clean /\ Right(cjob.start + safe, cjob.start + used)
  BY <1>2 DEF Answers, Answered, Nak
<1>4. PageRight' /\ PrintRight'
  BY <1>2, <1>3 DEF PageRight, PrintRight, Clean, None
<1>5. RomRight'
  <2>1. Wanted' = Wanted
    BY DEF Wanted
  <2>2. \A a \in DOMAIN rom \ (DOMAIN Wanted \cup late) : rom[a] = old[a]
    BY <1>1, <1>2 DEF RomRight
  <2>3. ASSUME NEW a \in DOMAIN Wanted
        PROVE  rom[a] = Wanted[a] \/ ((rom[a] = old[a] \/ a \in late) /\ a >= cjob.start + used)
    <3>1. rom[a] = Wanted[a] \/ ((rom[a] = old[a] \/ a \in late) /\ a >= cjob.start + safe)
      BY <1>1, <1>2 DEF RomRight
    <3>2. a \in Nat /\ Wanted[a] = cjob.input[a - cjob.start + 1]
      BY <1>1, WantedIs
    <3>3. cjob.start \in Nat /\ used \in Nat /\ safe \in Nat
      BY <1>1, CountsHold DEF CartTypeOK
    <3>4. CASE a >= cjob.start + safe /\ a < cjob.start + used
      <4>1. a \in (cjob.start + safe)..((cjob.start + used) - 1)
        BY <3>2, <3>3, <3>4
      <4> QED BY <1>3, <3>2, <4>1 DEF Right
    <3>5. CASE ~(a >= cjob.start + safe)
      BY <3>1, <3>5
    <3>6. CASE a >= cjob.start + used
      BY <3>1, <3>6
    <3> QED BY <3>2, <3>3, <3>4, <3>5, <3>6
  <2> QED BY <2>1, <2>2, <2>3 DEF RomRight
<1> QED BY <1>2, <1>3, <1>4, <1>5

LEMMA PageDoneInv == ASSUME CartInv, PageDone PROVE CartInv'
<1>1. /\ CartCall("polled", "begin", <<>>) /\ UNCHANGED <<pos, len, used, i, printed>>
      /\ n' = 0 /\ safe' = used /\ Answered
  BY DEF PageDone
<1>2. /\ pc = "polled" /\ pc' = "begin" /\ todo = <<>> /\ todo' = <<>>
      /\ CartTypeOK /\ CartPlace
      /\ UNCHANGED <<tool, cjob, old, late, functions, latch>>
      /\ UNCHANGED <<present, rom, page, busy, mode, bits, shift, ptr, pull>>
      /\ (Wired' <=> Wired) /\ (SdaOut' <=> SdaOut) /\ (SclHigh' <=> SclHigh)
      /\ (SdaHigh' <=> SdaHigh) /\ (Clean' <=> Clean)
      /\ pos \in Nat /\ len \in Nat /\ used \in Nat /\ n \in Nat /\ i \in Nat
  BY <1>1, CartCalled
<1>3. /\ tool = "writecart" /\ Clean /\ Stopping(3)
      /\ PageRight' /\ RomRight' /\ PrintRight'
  BY <1>1, <1>2, Acknowledged
<1>4. CartTypeOK' /\ Gone'
  <2>1. /\ pos' \in Nat /\ len' \in Nat /\ used' \in Nat /\ n' \in Nat /\ i' \in Nat
        /\ safe' \in Nat /\ <<>> \in Seq(Op) /\ printed' \in Seq([1..Width -> BOOLEAN])
    BY <1>1, <1>2, CartRoutines DEF CartTypeOK
  <2> QED BY <1>1, <2>1, CartCallTypes
<1>5. CartPlace'
  <2>1. Powering(7)'
    BY <1>2, <1>3 DEF Stopping, Powering, Wired
  <2>2. todo' = Rest(PowerOn, 7) \o <<>>
    <3>1. PowerOn \in Seq(Op) /\ Len(PowerOn) = 7 /\ <<>> \in Seq(Op)
      BY CartRoutines, PowerOps
    <3>2. Rest(PowerOn, 7) \o <<>> = <<>>
      BY <3>1, EndsAt
    <3> QED BY <1>2, <3>2
  <2>3. 7 \in 0..7 /\ ~(7 < 2) /\ tool' # "readcart"
    BY <1>2, <1>3
  <2>4. AtBegin'
    BY <1>2, <2>1, <2>2, <2>3 DEF AtBegin
  <2> QED BY <2>4 DEF CartPlace
<1>6. CartCounts'
  <2>1. /\ pos + len = cjob.start + cjob.length /\ pos = cjob.start + used
        /\ used <= Len(cjob.input)
    BY <1>2, <1>3, CountsHold
  <2>2. used <= used
    BY <1>2
  <2> QED BY <1>1, <1>2, <1>3, <2>1, <2>2 DEF CartCounts
<1> QED BY <1>3, <1>4, <1>5, <1>6 DEF CartInv

LEMMA AllDoneInv == ASSUME CartInv, AllDone PROVE CartInv'
<1>1. /\ CartCall(pc, "exit", Leave) /\ UNCHANGED <<pos, len, used, i, printed>>
      /\ n' = 0 /\ pc = "polled" /\ len = 0 /\ safe' = used /\ Answered
  BY DEF AllDone, Exits, Leave
<1>2. /\ pc' = "exit" /\ todo = <<>> /\ CartTypeOK /\ CartPlace
      /\ UNCHANGED <<tool, cjob, old, late, rom, page>>
      /\ pos \in Nat /\ len \in Nat /\ used \in Nat /\ n \in Nat /\ i \in Nat
  BY <1>1, CartCalled
<1>3. /\ tool = "writecart" /\ Clean /\ Stopping(3)
      /\ PageRight' /\ RomRight' /\ PrintRight'
  BY <1>1, <1>2, Acknowledged
<1>4. Leave \in Seq(Op) /\ CartPlace'
  BY <1>1, <1>3, ExitPlace DEF Stopping
<1>5. CartTypeOK' /\ Gone'
  <2>1. /\ pos' \in Nat /\ len' \in Nat /\ used' \in Nat /\ n' \in Nat /\ i' \in Nat
        /\ safe' \in Nat /\ printed' \in Seq([1..Width -> BOOLEAN])
    BY <1>1, <1>2 DEF CartTypeOK
  <2> QED BY <1>1, <1>4, <2>1, CartCallTypes
<1>6. CartCounts'
  <2>1. /\ pos + len = cjob.start + cjob.length /\ pos = cjob.start + used
        /\ used <= Len(cjob.input)
        /\ cjob.start \in Nat /\ cjob.length \in Nat /\ Len(cjob.input) \in Nat
    BY <1>1, <1>3, CountsHold
  <2>2. used = Lesser(cjob.length, Len(cjob.input))
    BY <1>1, <1>2, <2>1 DEF Lesser
  <2> QED BY <1>1, <1>2, <1>3, <2>2 DEF CartCounts
<1> QED BY <1>3, <1>4, <1>5, <1>6 DEF CartInv

-----------------------------------------------------------------------------
(* The program is killed, and another started; and at first.               *)
LEMMA CartKilledInv == ASSUME CartInv, CartKilled PROVE CartInv'
<1>1. /\ pc' = "killed" /\ todo' = <<>>
      /\ UNCHANGED <<functions, latch, saved, got, tool, cjob, pos, len, used, n, i, printed,
                     old, safe, late, more>>
      /\ UNCHANGED <<present, rom, page, busy, mode, bits, shift, ptr, pull>>
  BY DEF CartKilled, Kill, cartVars, chipVars, mainVars
<1>2. CartTypeOK' /\ Gone'
  <2>1. <<>> \in Seq(Op)
    BY CartRoutines
  <2> QED BY <1>1, <2>1 DEF CartInv, CartTypeOK, PinTypeOK, Gone, Clean, None
<1>3. CartPlace'
  BY <1>1 DEF CartPlace, AtCartRest
<1>4. CartCounts'
  BY <1>1 DEF CartCounts
<1>5. Wanted' = Wanted
  BY <1>1 DEF Wanted
<1>6. PageRight'
  BY <1>1, <1>5 DEF CartInv, PageRight
<1>7. RomRight'
  BY <1>1, <1>5 DEF CartInv, RomRight
<1>8. PrintRight'
  BY <1>1 DEF CartInv, PrintRight, Clean, None, Bit
<1> QED BY <1>2, <1>3, <1>4, <1>6, <1>7, <1>8 DEF CartInv

(* The cells a program begins with are the old ones.                       *)
LEMMA BeginsRight ==
  ASSUME rom' = old', safe' = 0, cjob'.start \in Nat
  PROVE  RomRight'
<1>1. ASSUME NEW a \in DOMAIN Wanted'
      PROVE  a >= cjob'.start + safe'
  BY DEF Wanted
<1> QED BY <1>1 DEF RomRight

LEMMA CartAgainInv == ASSUME CartInv, CartAgain PROVE CartInv'
<1>1. /\ pc' = "start" /\ todo' = <<>> /\ got' = <<>> /\ saved' = functions
      /\ UNCHANGED <<functions, latch, pos, len, used, n, i>>
      /\ UNCHANGED <<present, rom, page, busy, mode, bits, shift, ptr, pull>>
      /\ cjob' \in CartJobs /\ tool' = cjob'.tool /\ more > 0 /\ more' = more - 1
      /\ old' = rom /\ late' = DOMAIN page /\ safe' = 0 /\ printed' = <<>>
  BY DEF CartAgain, Begins, chipVars
<1>2. cjob'.start \in Nat /\ cjob'.tool \in CartTool
  BY <1>1, CartAssumption
<1>3. CartTypeOK' /\ Gone'
  <2>1. /\ <<>> \in Seq(Op) /\ got' \in Seq(SUBSET {SdaPin})
        /\ printed' \in Seq([1..Width -> BOOLEAN])
    BY <1>1, CartRoutines, EmptySeq
  <2>2. more' \in Nat
    BY <1>1 DEF CartInv, CartTypeOK
  <2> QED BY <1>1, <2>1, <2>2 DEF CartInv, CartTypeOK, PinTypeOK, Gone, Clean, None
<1>4. CartPlace'
  BY <1>1 DEF CartPlace, AtCartRest
<1>5. CartCounts'
  BY <1>1 DEF CartCounts
<1>6. PageRight'
  BY <1>1 DEF PageRight
<1>7. RomRight'
  BY <1>1, <1>2, BeginsRight
<1>8. PrintRight'
  BY <1>1, EmptySeq DEF PrintRight
<1> QED BY <1>3, <1>4, <1>5, <1>6, <1>7, <1>8 DEF CartInv

(* The programs begin with any pins and an idle cartridge.                 *)
LEMMA CartInitInv == ASSUME CartInit PROVE CartInv
<1>1. /\ cjob \in CartJobs /\ tool = cjob.tool /\ pc = "start" /\ todo = <<>> /\ got = <<>>
      /\ saved = functions /\ present \in BOOLEAN /\ rom \in CartImages /\ old = rom
      /\ page = None /\ busy = FALSE /\ mode = "idle" /\ bits = 0 /\ shift = 0 /\ ptr = 0
      /\ pull = FALSE /\ pos = 0 /\ len = 0 /\ used = 0 /\ n = 0 /\ i = 0
      /\ printed = <<>> /\ safe = 0 /\ late = {} /\ more = MaxCartRuns
  BY DEF CartInit, GpioInit
<1>2. \/ functions = [p \in GpioPins |-> FuncInput] /\ latch \in {{}, GpioPins}
      \/ functions = [p \in GpioPins |-> FuncOutput] /\ latch = {}
  BY DEF CartInit, GpioInit, LeftLow
<1>3. PinTypeOK
  BY <1>1, <1>2 DEF PinTypeOK
<1>4. /\ cjob.start \in Nat /\ MaxCartRuns \in Nat
      /\ rom \in [0..(Size - 1) -> Nat]
  <2>1. CartByte \subseteq Nat
    BY ControlBytes
  <2> QED BY <1>1, <2>1, CartAssumption
<1>5. CartTypeOK
  <2>1. /\ <<>> \in Seq(Op) /\ got \in Seq(SUBSET {SdaPin})
        /\ printed \in Seq([1..Width -> BOOLEAN])
    BY <1>1, CartRoutines, EmptySeq
  <2>2. DOMAIN page = {} /\ page \in [DOMAIN page -> Nat]
    BY <1>1 DEF None
  <2> QED BY <1>1, <1>3, <1>4, <2>1, <2>2 DEF CartTypeOK, Modes
<1>6. Gone /\ CartPlace /\ CartCounts
  BY <1>1 DEF Gone, Clean, CartPlace, AtCartRest, CartCounts
<1>7. PageRight
  BY <1>1 DEF PageRight, None
<1>8. RomRight
  <2>1. ASSUME NEW a \in DOMAIN Wanted
        PROVE  a >= cjob.start + safe
    BY <1>1, <1>4 DEF Wanted
  <2> QED BY <1>1, <2>1 DEF RomRight
<1>9. PrintRight
  BY <1>1, EmptySeq DEF PrintRight
<1> QED BY <1>5, <1>6, <1>7, <1>8, <1>9 DEF CartInv

(* Every step of the two programs keeps the invariant.                     *)
LEMMA CartStep == ASSUME CartInv, CartNext PROVE CartInv'
<1>1. CASE CartPin
  BY <1>1, CartPinInv
<1>2. CASE Ready
  BY <1>2, ReadyInv
<1>3. CASE Remove
  BY <1>3, RemoveInv
<1>4. CASE CartMain
  BY <1>4, CartConfigureInv, SendDeviceInv, SendHighInv, SendLowInv, RefusedInv, ReadPageInv,
     NoPageInv, SendNextInv, PageSentInv, PollInv, PollAgainInv, PollsSpentInv, PageDoneInv,
     AllDoneInv, ReadAgainInv, LocatedInv, ReceiveInv, PrintByteInv, AllReadInv,
     CartExitInv DEF CartMain
<1>5. CASE CartKilled
  BY <1>5, CartKilledInv
<1>6. CASE CartAgain
  BY <1>6, CartAgainInv
<1> QED BY <1>1, <1>2, <1>3, <1>4, <1>5, <1>6 DEF CartNext

-----------------------------------------------------------------------------
(* Of the two programmers, the cartridge's.                                *)
OneCart == tool \in CartTool => CartInv

(* With the other programmer beside them, which leaves these variables     *)
(* alone.                                                                  *)
LEMMA OneCartInit == Init => OneCart
<1> SUFFICES ASSUME Init, tool \in CartTool PROVE CartInv
  BY DEF OneCart
<1>1. ~MemInit
  BY ToolsApart DEF MemInit, GpioInit
<1> QED BY <1>1, CartInitInv DEF Init

(* A step that changes nothing.                                            *)
LEMMA SameLines ==
  ASSUME UNCHANGED <<functions, latch, pc, todo, got>>,
         UNCHANGED <<present, rom, page, busy, mode, bits, shift, ptr, pull>>
  PROVE  /\ (Wired' <=> Wired) /\ (SdaOut' <=> SdaOut) /\ (SclHigh' <=> SclHigh)
         /\ (SdaHigh' <=> SdaHigh) /\ (Clean' <=> Clean)
         /\ \A k : Starting(k) => Starting(k)'
         /\ \A k : Restarting(k) => Restarting(k)'
         /\ \A k : Stopping(k) => Stopping(k)'
         /\ \A k : Powering(k) => Powering(k)'
         /\ \A k : Parting(k) => Parting(k)'
         /\ \A k : NakPlace(k) => NakPlace(k)'
         /\ \A p, k : AckPlace(p, k) => AckPlace(p, k)'
         /\ \A m, v, t : InByte(m, v, t) => InByte(m, v, t)'
         /\ \A p, t : InReceive(p, t) => InReceive(p, t)'
<1>1. /\ (Wired' <=> Wired) /\ (SdaOut' <=> SdaOut) /\ (SclHigh' <=> SclHigh)
      /\ (SdaHigh' <=> SdaHigh) /\ (Clean' <=> Clean)
  BY DEF Wired, SdaOut, SclHigh, SdaHigh, Clean, None
<1>2. /\ \A k : Starting(k) => Starting(k)'
      /\ \A k : Restarting(k) => Restarting(k)'
      /\ \A k : Stopping(k) => Stopping(k)'
      /\ \A k : Powering(k) => Powering(k)'
      /\ \A k : Parting(k) => Parting(k)'
  BY <1>1 DEF Starting, Restarting, Stopping, Powering, Parting
<1>3. \A p, j : Shows(p, j) => Shows(p, j)'
  BY DEF Shows, Bit
<1>4. \A k : Samples(k) => Samples(k)'
  BY DEF Samples
<1>5. /\ \A k : NakPlace(k) => NakPlace(k)'
      /\ \A p, k : AckPlace(p, k) => AckPlace(p, k)'
  BY <1>1, <1>3, <1>4 DEF NakPlace, AckPlace, Deaf
<1>6. ASSUME NEW m, NEW v, NEW t, InByte(m, v, t)
      PROVE  InByte(m, v, t)'
  <2>1. \A j, c : Sending(m, v, j, c) => Sending(m, v, j, c)'
    BY <1>1 DEF Sending, Bit
  <2>2. \A c : Acking(m, v, c) => Acking(m, v, c)'
    BY <1>1, <1>3 DEF Acking, NextMode
  <2> QED BY <1>6, <2>1, <2>2 DEF InByte
<1>7. ASSUME NEW p, NEW t, InReceive(p, t)
      PROVE  InReceive(p, t)'
  <2>1. \A c : Turning(p, c) => Turning(p, c)'
    BY <1>1, <1>3, <1>4 DEF Turning, Deaf
  <2>2. \A j, c : Showing(p, j, c) => Showing(p, j, c)'
    BY <1>1, <1>3, <1>4 DEF Showing, Deaf
  <2>3. \A c : Shown(p, c) => Shown(p, c)'
    BY <1>1, <1>4 DEF Shown, Deaf
  <2> QED BY <1>7, <2>1, <2>2, <2>3 DEF InReceive
<1> QED BY <1>1, <1>2, <1>5, <1>6, <1>7

(* The place depends on the pins, the device and the program.              *)
LEMMA SamePlace ==
  ASSUME CartPlace, UNCHANGED <<functions, latch, saved, todo, got, tool, pc>>,
         UNCHANGED <<present, rom, page, busy, mode, bits, shift, ptr, pull>>,
         UNCHANGED <<cjob, pos, len, used, n, i, printed, old, safe, late, more>>
  PROVE  CartPlace'
<1>1. HighByte' = HighByte /\ LowByte' = LowByte /\ Pointed' = Pointed
  BY DEF HighByte, LowByte, Pointed
<1>2. (Clean' <=> Clean) /\ (ByteTaken' <=> ByteTaken)
  BY SameLines DEF ByteTaken
<1>3. \A lo, hi : Bytes(lo, hi)' = Bytes(lo, hi)
  BY DEF Bytes
<1>4. /\ AtCartRest => AtCartRest'
      /\ AtBegin => AtBegin'
      /\ AtBeginStart => AtBeginStart'
      /\ AtDeviceStart => AtDeviceStart'
      /\ AtDevice => AtDevice'
  BY <1>2, SameLines DEF AtCartRest, AtBegin, AtBeginStart, AtDeviceStart, AtDevice
<1>5. AtHigh => AtHigh'
  BY <1>1, <1>2, SameLines DEF AtHigh
<1>6. AtLow => AtLow'
  BY <1>1, <1>2, SameLines DEF AtLow
<1>7. AtData => AtData'
  BY <1>2, <1>3, SameLines DEF AtData
<1>8. AtStop => AtStop'
  BY <1>3, SameLines DEF AtStop
<1>9. Pending => Pending'
  BY DEF Pending
<1>10. AtPoll => AtPoll'
  BY <1>9, SameLines DEF AtPoll, Free
<1>11. AtPolled => AtPolled'
  <2>1. (Answers => Answers') /\ (Silence => Silence')
    BY <1>2 DEF Answers, Silence, Right
  <2> QED BY <1>9, <2>1, SameLines DEF AtPolled
<1>12. AtAgain => AtAgain'
  BY <1>1, <1>2, SameLines DEF AtAgain
<1>13. AtRead => AtRead'
  BY <1>2, SameLines DEF AtRead, Shows, Bit
<1>14. AtByte => AtByte'
  BY <1>2, SameLines DEF AtByte, Bit
<1>15. AtExit => AtExit'
  BY SameLines DEF AtExit
<1> QED BY <1>4, <1>5, <1>6, <1>7, <1>8, <1>10, <1>11, <1>12, <1>13, <1>14, <1>15 DEF CartPlace

(* A step of the other programmer changes nothing here.                    *)
LEMMA SameCart ==
  ASSUME CartInv, UNCHANGED <<gpioVars, cartVars>>
  PROVE  CartInv'
<1>1. /\ UNCHANGED <<functions, latch, saved, todo, got, tool, pc>>
      /\ UNCHANGED <<present, rom, page, busy, mode, bits, shift, ptr, pull>>
      /\ UNCHANGED <<cjob, pos, len, used, n, i, printed, old, safe, late, more>>
  BY DEF gpioVars, cartVars, chipVars, mainVars
<1>2. CartTypeOK' /\ Gone'
  BY <1>1 DEF CartInv, CartTypeOK, PinTypeOK, Gone, Clean, None
<1>3. Wanted' = Wanted
  BY <1>1 DEF Wanted
<1>4. CartCounts' /\ PageRight' /\ RomRight'
  BY <1>1, <1>3 DEF CartInv, CartCounts, PageRight, RomRight, Lesser
<1>5. PrintRight'
  BY <1>1 DEF CartInv, PrintRight, Clean, None, Bit
<1>6. CartPlace'
  BY <1>1, SamePlace DEF CartInv
<1> QED BY <1>2, <1>4, <1>5, <1>6 DEF CartInv

LEMMA OneCartStep == OneCart /\ [Next]_toolsVars => OneCart'
<1> SUFFICES ASSUME OneCart, [Next]_toolsVars, tool' \in CartTool PROVE CartInv'
  BY DEF OneCart
<1>1. CASE MemNext /\ UNCHANGED cartVars
  <2>1. tool \in MemTool
    BY <1>1, OnlyMem
  <2>2. tool' \in MemTool
    <3>1. tool' = tool \/ Again
      BY <1>1 DEF MemNext, Pin, Do, Configure, Enable, WriteNext, Written, ReadNext, SomeCall,
         Read, Write, Finish, Exit, Call, Main, Killed, Kill
    <3>2. Again => tool' \in MemTool
      BY DEF Again, Begins
    <3> QED BY <2>1, <3>1, <3>2
  <2> QED BY <2>2, ToolsApart
<1>2. CASE CartNext /\ UNCHANGED memVars
  <2>1. tool \in CartTool
    <3> SUFFICES ASSUME tool \notin CartTool PROVE FALSE
      OBVIOUS
    <3>1. tool' = tool
      BY <1>2, OnlyReady DEF Ready, gpioVars
    <3> QED BY <3>1
  <2> QED BY <1>2, <2>1, CartStep DEF OneCart
<1>3. CASE UNCHANGED toolsVars
  <2>1. UNCHANGED <<gpioVars, cartVars>> /\ tool' = tool
    BY <1>3 DEF toolsVars, gpioVars
  <2> QED BY <2>1, SameCart DEF OneCart
<1> QED BY <1>1, <1>2, <1>3 DEF Next

LEMMA OneCartAlways == Spec => []OneCart
BY OneCartInit, OneCartStep, PTL DEF Spec

(* For every file, range, page size and cartridge, whatever it held, with  *)
(* the cartridge pulled out and a program killed at any store, a page half *)
(* programmed and a poll answered or not: what writecart acknowledged is   *)
(* right, a success means all of it, and nothing else has been changed.    *)
THEOREM CartridgeProgrammed == Spec => []Programmed
<1>1. OneCart => Programmed
  <2> SUFFICES ASSUME CartInv, tool = "writecart"
               PROVE  /\ \A a \in DOMAIN Wanted :
                           \/ rom[a] = Wanted[a]
                           \/ /\ rom[a] = old[a] \/ a \in late
                              /\ a >= cjob.start + safe /\ ~(pc = "done" /\ n = 0)
                      /\ \A a \in DOMAIN rom \ (DOMAIN Wanted \cup late) : rom[a] = old[a]
    BY DEF OneCart, CartTool, Programmed
  <2>1. RomRight /\ CartCounts /\ CartTypeOK
    BY DEF CartInv
  <2>2. ASSUME NEW a \in DOMAIN Wanted, pc = "done", n = 0
        PROVE  ~(a >= cjob.start + safe)
    <3>1. safe = Lesser(cjob.length, Len(cjob.input))
      BY <2>1, <2>2 DEF CartCounts
    <3>2. PICK s \in Nat : s = safe
      BY <2>1 DEF CartTypeOK
    <3>3. a \in cjob.start..(cjob.start + s - 1) /\ cjob.start \in Nat
      BY <2>1, <3>1, <3>2, WantedIs, JobTypes
    <3> QED BY <3>2, <3>3
  <2> QED BY <2>1, <2>2 DEF RomRight
<1> QED BY <1>1, OneCartAlways, PTL

(* What readcart prints are the cartridge's bytes, bit by bit, in order,   *)
(* and a readcart that ends well has printed all it was asked for.         *)
THEOREM CartridgeDump == Spec => []DumpExact
<1>1. OneCart => DumpExact
  <2> SUFFICES ASSUME CartInv, tool = "readcart", present
               PROVE  /\ \A k \in DOMAIN printed : \A b \in 1..Width :
                           printed[k][b] = (Bit(rom[cjob.start + k - 1], b) = 1)
                      /\ pc = "done" /\ n = 0 => Len(printed) = cjob.length
    BY DEF OneCart, CartTool, DumpExact
  <2> QED BY DEF CartInv, PrintRight, CartCounts
<1> QED BY <1>1, OneCartAlways, PTL
=============================================================================
