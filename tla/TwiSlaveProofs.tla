--------------------------- MODULE TwiSlaveProofs ---------------------------
(***************************************************************************)
(* The serial port, alone and behind the ROM's routines.                   *)
(*                                                                         *)
(* Alone: type correctness and the framing of its bit counter, for every   *)
(* image size and every sequence of stores to SERCR.  Behind the routines: *)
(* the two agree on where they are between any two calls, and together     *)
(* they are the serial EEPROM of TwiEeprom.                                *)
(***************************************************************************)
EXTENDS TwiBus, SequenceTheorems, TLAPS

(* The counter is the heart of the handler, and the values it takes are    *)
(* what makes its updates stay within a byte: adding 8 to a low nibble of  *)
(* 7, or 24 when TWI_ADDR_SET was clear, cannot overflow.                  *)
SlaveInv == TypeOK /\ FrameCounter

LEMMA ShiftedByte == ASSUME TypeOK PROVE Shifted \in Byte
<1>1. 2 * serir + sercr.sda \in Nat
  BY DEF TypeOK, Byte, Pins
<1> HIDE DEF TypeOK
<1> QED BY <1>1 DEF Shifted, Byte

LEMMA SdaLowByte == ASSUME NEW b \in Byte PROVE SdaLow(b) \in Byte
  BY DEF SdaLow, Byte

LEMMA HereInImage == ASSUME TypeOK PROVE Here \in 0..(CartSize - 1)
  BY CartSizeAssumption DEF TypeOK, Here

(* The frame counter after an acknowledge clock, and after any other.      *)
LEMMA CounterSteps ==
  ASSUME TypeOK, FrameCounter
  PROVE  /\ ~WaitingForAck =>
              /\ Dec(twi_status) \in Byte
              /\ Dec(twi_status) % 16 \in 7..15
              /\ Dec(twi_status) \div 16 \in {0, 1, 15}
         /\ WaitingForAck =>
              /\ twi_status + 8 \in Byte
              /\ (twi_status + 8) % 16 = 15
              /\ (twi_status + 8) \div 16 \in {0, 1, 15}
         /\ WaitingForAck /\ ~AddrSet =>
              /\ twi_status + 24 \in Byte
              /\ (twi_status + 24) % 16 = 15
              /\ (twi_status + 24) \div 16 = 1
  BY DEF TypeOK, FrameCounter, WaitingForAck, AddrSet, Dec, Byte

LEMMA InitSlaveInv == ASSUME Init PROVE SlaveInv
<1>1. InitBytes \subseteq Byte /\ Garbage \subseteq Byte
  BY BytesAssumption DEF Byte
<1>2. cartridge \in [0..(CartSize - 1) -> Byte]
  BY <1>1 DEF Init
<1>3. data \in Byte /\ twi_status \in Byte /\ cartridge_addr \in Nat
  BY DEF Init, Byte
<1>4. cartridge_bits \in Byte /\ cartridge_state \in Byte /\ serir \in Byte
      /\ twi_addr \in Byte
  BY <1>1 DEF Init
<1> QED BY <1>2, <1>3, <1>4 DEF Init, SlaveInv, TypeOK, FrameCounter

LEMMA WriteSlaveInv ==
  ASSUME SlaveInv, NEW val \in Pins, WriteSercr(val)
  PROVE  SlaveInv'
<1>1. attached' \in BOOLEAN /\ sercr' \in Pins
  BY DEF SlaveInv, TypeOK, WriteSercr
<1>2. TypeOK /\ FrameCounter
  BY DEF SlaveInv
<1>3. Shifted \in Byte /\ SdaLow(Shifted) \in Byte
  BY <1>2, ShiftedByte, SdaLowByte
<1>4. CASE SclLow(val) \/ SclHigh(val)
  <2>1. twi_status' \in {twi_status, 0, 15} /\ serir' = serir /\ twi_addr' = twi_addr
        /\ UNCHANGED cartVars
    BY <1>4 DEF SclLow, SclHigh
  <2>2. FrameCounter'
    BY <1>2, <2>1 DEF FrameCounter
  <2>3. TypeOK'
    BY <1>1, <1>2, <2>1 DEF TypeOK, cartVars, Byte
  <2> QED BY <2>2, <2>3 DEF SlaveInv
<1>5. CASE AckClock(val)
  <2>1. serir' \in Byte
    BY <1>3, <1>5 DEF AckClock
  <2>2. twi_status' \in Byte /\ FrameCounter'
    <3>1. WaitingForAck /\ twi_status \in Byte
      BY <1>2, <1>5 DEF AckClock, TypeOK
    <3>2. \/ twi_status' = twi_status + 8 + 0
          \/ ~AddrSet /\ twi_status' = twi_status + 8 + 16
      BY <1>5, Zenon DEF AckClock
    <3>3. CASE twi_status' = twi_status + 8 + 0
      BY <1>2, <3>1, <3>3, CounterSteps DEF FrameCounter, Byte
    <3>4. CASE ~AddrSet /\ twi_status' = twi_status + 8 + 16
      BY <1>2, <3>1, <3>4, CounterSteps DEF FrameCounter, Byte
    <3> QED BY <3>2, <3>3, <3>4
  <2>3. cartridge_state' \in Byte /\ cartridge_addr' \in Nat /\ cartridge_bits' \in Byte
    <3>1. \/ /\ cartridge_state' = 1
             /\ cartridge_addr' = (twi_addr \div 2) % 8
             /\ cartridge_bits' = 0
          \/ UNCHANGED <<cartridge_state, cartridge_addr, cartridge_bits>>
      BY <1>5, Zenon DEF AckClock
    <3>2. (twi_addr \div 2) % 8 \in Nat
      BY <1>2 DEF TypeOK, Byte
    <3>3. /\ cartridge_state' \in {cartridge_state, 1}
          /\ cartridge_addr' \in {cartridge_addr, (twi_addr \div 2) % 8}
          /\ cartridge_bits' \in {cartridge_bits, 0}
      BY <3>1
    <3> QED
      <4> DEFINE block == (twi_addr \div 2) % 8
      <4>1. block \in Nat
        BY <3>2
      <4>2. cartridge_addr' \in {cartridge_addr, block}
        BY <3>3
      <4> HIDE DEF block
      <4> QED BY <1>2, <3>3, <4>1, <4>2 DEF TypeOK, Byte
  <2> QED BY <1>1, <1>2, <1>5, <2>1, <2>2, <2>3 DEF AckClock, TypeOK, SlaveInv
<1>6. CASE ReadClock(val)
  <2> DEFINE byte == IF cartridge_bits = 0 THEN cartridge[Here] ELSE data
  <2>1. byte \in Byte
    BY <1>2, HereInImage DEF TypeOK
  <2>2. serir' \in Byte
    BY <1>3, <1>6 DEF ReadClock
  <2>3. twi_status' \in Byte /\ FrameCounter'
    BY <1>2, <1>6, CounterSteps DEF ReadClock, FrameCounter
  <2>4. data' = (2 * byte) % 256
    BY <1>6 DEF ReadClock
  <2>5. data' \in Byte
    BY <2>1, <2>4 DEF Byte
  <2>6. cartridge_addr' \in Nat /\ cartridge_bits' \in Byte
    BY <1>2, <1>6 DEF ReadClock, TypeOK, Byte
  <2> QED BY <1>1, <1>2, <1>6, <2>2, <2>3, <2>5, <2>6 DEF ReadClock, TypeOK, SlaveInv
<1>7. CASE ShiftClock(val)
  <2>1. serir' \in Byte /\ twi_addr' \in Byte
    BY <1>2, <1>3, <1>7 DEF ShiftClock, TypeOK
  <2>2. twi_status' \in Byte /\ FrameCounter'
    BY <1>2, <1>7, CounterSteps DEF ShiftClock, FrameCounter
  <2>3. cartridge_state' \in Byte /\ cartridge_addr' \in Nat
    <3>1. /\ cartridge_state' \in {cartridge_state, cartridge_state + 1}
          /\ cartridge_state' # cartridge_state => ~(cartridge_state >= 3)
      BY <1>7 DEF ShiftClock
    <3>2. cartridge_addr' \in {cartridge_addr, cartridge_addr + 1, 256 * cartridge_addr + Shifted}
      BY <1>7 DEF ShiftClock
    <3> HIDE DEF Shifted
    <3> QED BY <1>2, <1>3, <3>1, <3>2 DEF TypeOK, Byte
  <2>4. cartridge' \in [0..(CartSize - 1) -> Byte]
    BY <1>2, <1>3, <1>7 DEF ShiftClock, TypeOK
  <2> QED BY <1>1, <1>2, <1>7, <2>1, <2>2, <2>3, <2>4 DEF ShiftClock, TypeOK, SlaveInv
<1> QED BY <1>4, <1>5, <1>6, <1>7 DEF WriteSercr, HandleNewSercr

LEMMA StutterSlaveInv == SlaveInv /\ UNCHANGED slaveVars => SlaveInv'
  BY DEF SlaveInv, TypeOK, FrameCounter, slaveVars, cartVars

(* Whatever a program stores in SERCR, the handler keeps every register    *)
(* within its width and the bit counter within a frame.                    *)
THEOREM FrameCounterCorrect == Spec => [](TypeOK /\ FrameCounter)
<1>1. Init => SlaveInv
  BY InitSlaveInv
<1>2. SlaveInv /\ [Next]_slaveVars => SlaveInv'
  BY WriteSlaveInv, StutterSlaveInv DEF Next
<1>3. SlaveInv => TypeOK /\ FrameCounter
  BY DEF SlaveInv
<1> QED BY <1>1, <1>2, <1>3, PTL DEF Spec
-----------------------------------------------------------------------------
(* The bus.  A byte has been sent by the clocks of its bits, so the        *)
(* invariant says for every store of every routine how far the slave has   *)
(* come: what its bit counter holds, which bits it has shifted in or out,  *)
(* and what it has done to the image and the pointer since the call.       *)

Modes == {"idle", "ctl", "rctl", "hi", "lo", "data", "send", "sent", "deaf"}
Locating == {"hi", "lo", "data"}

BusTypeOK ==
    /\ call \in [kind : Kinds, byte : Byte]
    /\ pc \in 0..27
    /\ at \in Modes
    /\ reply \in Byte
    /\ was \in [mem : [0..(CartSize - 1) -> Byte], ptr : Nat]

(* Which routine runs where in a transaction.                              *)
CallFits ==
    /\ call.kind \in {"boot", "start"} => at = "idle"
    /\ call.kind = "resta" => at = "data"
    /\ call.kind = "sendb" => at \in {"ctl", "rctl"} \cup Locating
    /\ call.kind = "sendb" /\ at = "ctl" => call.byte % 2 = 0
    /\ call.kind = "sendb" /\ at = "rctl" => call.byte % 2 = 1
    /\ call.kind = "getb" => at = "send"
    /\ call.kind \in {"ack", "nak"} => at = "sent"

Stage(m) == IF m = "hi" THEN 1 ELSE IF m = "lo" THEN 2 ELSE 3
Selected == attached /\ cartridge_bits = 0

(* The slave's registers when the program is at m of a transaction.        *)
Agrees(m) ==
    /\ m = "idle" => twi_status = 0
    /\ m = "ctl" => twi_status = 15
    /\ m = "rctl" => twi_status = 15 /\ Selected
    /\ m \in Locating => /\ twi_status = 31 /\ Selected /\ CartWrite
                         /\ cartridge_state = Stage(m)
    /\ m = "send" => twi_status = 31 /\ Selected /\ CartRead
    /\ m = "sent" => twi_status = 23 /\ Selected /\ CartRead
    /\ m = "deaf" => twi_status = 15 \/ (twi_status = 31 /\ Selected /\ CartRead)

Between(m) ==
    /\ Agrees(m)
    /\ IF m = "idle" THEN sercr = P(1, 1) ELSE sercr.scl = 0

(* Nothing has happened to the image and the pointer since the call.       *)
Kept == cartridge = was.mem /\ was.ptr = Pointer

StartPlace ==
    /\ Kept
    /\ pc \in 1..2
    /\ pc = 1 => Between("idle")
    /\ pc = 2 => sercr = P(0, 1) /\ twi_status = 15

BootPlace ==
    /\ Kept
    /\ pc \in 1..2
    /\ pc = 1 => twi_status = 0
    /\ pc = 2 => sercr = P(0, 1)

RestaPlace ==
    /\ Kept /\ Selected
    /\ pc \in 1..4
    /\ pc = 1 => Between("data")
    /\ pc = 2 => Agrees("data") /\ sercr = P(1, 0)
    /\ pc = 3 => sercr = P(1, 1)
    /\ pc = 4 => sercr = P(0, 1) /\ twi_status = 15

StopPlace ==
    /\ cartridge = was.mem
    /\ pc \in 1..4
    /\ pc = 1 => Between(at)
    /\ pc = 2 => Agrees(at) /\ sercr = P(0, 0)
    /\ pc = 3 => sercr = P(0, 1)
    /\ pc = 4 => sercr = P(1, 1) /\ twi_status = 0

AckPlace ==
    /\ Kept
    /\ pc \in 1..3
    /\ sercr.scl = (IF pc = 3 THEN 1 ELSE 0)
    /\ Agrees(IF pc = 3 THEN "send" ELSE "sent")

(* twisendb: n of the nine clocks are over.                                *)
FrameOf(m) == IF m \in {"ctl", "rctl"} THEN 15 ELSE 31

(* The first n bits of the byte b are at the bottom of the register s.     *)
BitsIn(s, b, n) == s % (2 ^ n) = b \div (2 ^ (8 - n))

Shifting(n) ==
    /\ twi_status = FrameOf(at) - n
    /\ BitsIn(serir, call.byte, n)
    /\ Kept
    /\ at # "ctl" => Selected
    /\ at \in Locating => CartWrite /\ cartridge_state = Stage(at)

(* What the byte does to the image, and to the pointer.                    *)
MemAfter ==
    IF at = "data" THEN [was.mem EXCEPT ![was.ptr % CartSize] = call.byte]
                   ELSE was.mem
PtrAfter ==
    IF at = "ctl" THEN (call.byte \div 2) % 8
    ELSE IF at = "rctl" THEN was.ptr
    ELSE IF at = "data" THEN was.ptr + 1
    ELSE 256 * was.ptr + call.byte

(* The whole byte is in, its acknowledge is not.                           *)
Arrived ==
    /\ twi_status = FrameOf(at) - 8
    /\ at \in {"ctl", "rctl"} => twi_addr = call.byte
    /\ at # "ctl" => Selected /\ cartridge_addr = PtrAfter
    /\ at \in Locating => /\ CartWrite
                          /\ cartridge_state = Stage(AfterSend[at])
    /\ cartridge = MemAfter

Answers == at \in Locating \/ (attached /\ call.byte \div 16 = 10)

Acknowledged ==
    /\ cartridge = MemAfter
    /\ IF Answers
         THEN /\ serir % 2 = 0
              /\ Agrees(AfterSend[at])
              /\ cartridge_addr = PtrAfter
         ELSE serir % 2 = 1 /\ Agrees("deaf")

Sending(n) ==
    /\ n \in 0..7 => Shifting(n)
    /\ n = 8 => Arrived
    /\ n = 9 => Acknowledged

(* The bit k + 1 is on the line while SCL is low before its clock.         *)
SendPlace ==
    /\ pc \in 1..27
    /\ pc % 3 = 1 => sercr.scl = 0
    /\ pc % 3 = 2 => sercr = P(BitOf(call.byte, pc \div 3), 0)
    /\ pc % 3 = 0 => sercr.scl = 1
    /\ \A n \in 0..9 : pc \div 3 = n => Sending(n)

(* What is left of a byte when n of its bits have gone out at the top.     *)
Left(b, n) == (2 ^ n * b) % 256

(* twigetb: n of the eight bits are shifted out of `data' into SERIR.      *)
Reading == was.mem[was.ptr % CartSize]

Getting(n) ==
    /\ twi_status = 31 - n
    /\ attached /\ CartRead
    /\ cartridge = was.mem
    /\ cartridge_bits = IF n = 0 THEN 0 ELSE 8 - n
    /\ cartridge_addr = IF n = 0 THEN was.ptr ELSE was.ptr + 1
    /\ n > 0 => data = Left(Reading, n)
    /\ BitsIn(serir, Reading, n)

GetPlace ==
    /\ pc \in 1..17
    /\ sercr.scl = (IF pc % 2 = 0 \/ pc = 1 THEN 0 ELSE 1)
    /\ pc % 2 = 0 => sercr.sda = 1
    /\ \A n \in 0..8 : (pc - 1) \div 2 = n => Getting(n)

Place ==
    CASE call.kind = "boot" -> BootPlace
      [] call.kind = "start" -> StartPlace
      [] call.kind = "resta" -> RestaPlace
      [] call.kind = "stop" -> StopPlace
      [] call.kind = "sendb" -> SendPlace
      [] call.kind = "getb" -> GetPlace
      [] OTHER -> AckPlace

BusInv ==
    /\ SlaveInv
    /\ BusTypeOK
    /\ IF pc = 0 THEN Between(at)
       ELSE /\ CallFits /\ Place
            /\ ~Located => was.ptr = 0

(* The stores of each routine, one by one.                                 *)
LEMMA ShortStores ==
  /\ BootPins = <<P(0, 1), P(1, 1)>> /\ Len(BootPins) = 2
  /\ StartPins = <<P(0, 1), P(0, 0)>> /\ Len(StartPins) = 2
  /\ StopPins = <<P(0, 0), P(0, 1), P(1, 1), P(1, 1)>> /\ Len(StopPins) = 4
  /\ \A d \in 0..1 : Bit(d) = <<P(d, 0), P(d, 1), P(d, 0)>> /\ Len(Bit(d)) = 3
  BY DEF BootPins, StartPins, StopPins, Bit

LEMMA RestaStores ==
  /\ Len(RestaPins) = 4
  /\ RestaPins[1] = P(1, 0) /\ RestaPins[2] = P(1, 1)
  /\ RestaPins[3] = P(0, 1) /\ RestaPins[4] = P(0, 0)
<1> DEFINE s == <<P(1, 0), P(1, 1)>>
<1>1. s \in Seq(Pins) /\ StartPins \in Seq(Pins) /\ Len(s) = 2 /\ Len(StartPins) = 2
  BY DEF StartPins, P, Pins
<1>2. RestaPins = s \o StartPins
  BY DEF RestaPins
<1>3. s[1] = P(1, 0) /\ s[2] = P(1, 1) /\ StartPins[1] = P(0, 1) /\ StartPins[2] = P(0, 0)
  BY DEF StartPins
<1> HIDE DEF s
<1>4. /\ Len(s \o StartPins) = 2 + 2
      /\ \A i \in 1..4 : (s \o StartPins)[i] = IF i <= 2 THEN s[i] ELSE StartPins[i - 2]
  BY <1>1, ConcatProperties
<1> QED BY <1>2, <1>3, <1>4

LEMMA SendStores ==
  ASSUME NEW b \in Byte
  PROVE  /\ Len(SendPins(b)) = 27
         /\ \A i \in 1..27 :
              SendPins(b)[i] = P(BitOf(b, (i - 1) \div 3), IF i % 3 = 2 THEN 1 ELSE 0)
<1>1. Len(SendPins(b)) = 27
  BY DEF SendPins
<1> QED BY <1>1 DEF SendPins

LEMMA GetStores ==
  /\ Len(GetPins) = 17
  /\ \A i \in 1..17 : GetPins[i] = P(1, IF i % 2 = 0 THEN 1 ELSE 0)
<1>1. Len(GetPins) = 17
  BY DEF GetPins
<1> QED BY <1>1 DEF GetPins

LEMMA AfterSends ==
  /\ AfterSend["ctl"] = "hi" /\ AfterSend["rctl"] = "send" /\ AfterSend["hi"] = "lo"
  /\ AfterSend["lo"] = "data" /\ AfterSend["data"] = "data"
  BY DEF AfterSend

(* A clock of SCL that the handler sees.                                   *)
LEMMA LowStore ==
  ASSUME NEW val, WriteSercr(val), val.scl = 0
  PROVE  /\ UNCHANGED <<cartVars, serir, twi_addr, twi_status, attached>>
         /\ sercr' = val
  BY DEF WriteSercr, HandleNewSercr, SclLow, AckClock, ReadClock, ShiftClock, SclHigh

LEMMA HighStore ==
  ASSUME NEW val, WriteSercr(val), val.scl = 1, sercr.scl = 1
  PROVE  SclHigh(val) /\ UNCHANGED attached /\ sercr' = val
  BY DEF WriteSercr, HandleNewSercr, SclLow, AckClock, ReadClock, ShiftClock, SclHigh

LEMMA AckStore ==
  ASSUME NEW val, WriteSercr(val), val.scl = 1, sercr.scl = 0, WaitingForAck
  PROVE  AckClock(val) /\ UNCHANGED attached /\ sercr' = val
  BY DEF WriteSercr, HandleNewSercr, SclLow, AckClock, ReadClock, ShiftClock, SclHigh

LEMMA ReadStore ==
  ASSUME NEW val, WriteSercr(val), val.scl = 1, sercr.scl = 0, ~WaitingForAck,
         AddrSet, CartRead
  PROVE  ReadClock(val) /\ UNCHANGED attached /\ sercr' = val
  BY DEF WriteSercr, HandleNewSercr, SclLow, AckClock, ReadClock, ShiftClock, SclHigh

LEMMA ShiftStore ==
  ASSUME NEW val, WriteSercr(val), val.scl = 1, sercr.scl = 0, ~WaitingForAck,
         ~(AddrSet /\ CartRead)
  PROVE  ShiftClock(val) /\ UNCHANGED attached /\ sercr' = val
  BY DEF WriteSercr, HandleNewSercr, SclLow, AckClock, ReadClock, ShiftClock, SclHigh

(* The weights of the bits.                                                *)
LEMMA Powers ==
  ASSUME NEW i \in 0..8
  PROVE  /\ i = 0 => 2 ^ i = 1
         /\ i = 1 => 2 ^ i = 2
         /\ i = 2 => 2 ^ i = 4
         /\ i = 3 => 2 ^ i = 8
         /\ i = 4 => 2 ^ i = 16
         /\ i = 5 => 2 ^ i = 32
         /\ i = 6 => 2 ^ i = 64
         /\ i = 7 => 2 ^ i = 128
         /\ i = 8 => 2 ^ i = 256
<1>1. i = 0 => 2 ^ i = 1
  OBVIOUS
<1>2. i = 1 => 2 ^ i = 2
  OBVIOUS
<1>3. i = 2 => 2 ^ i = 4
  OBVIOUS
<1>4. i = 3 => 2 ^ i = 8
  OBVIOUS
<1>5. i = 4 => 2 ^ i = 16
  OBVIOUS
<1>6. i = 5 => 2 ^ i = 32
  OBVIOUS
<1>7. i = 6 => 2 ^ i = 64
  OBVIOUS
<1>8. i = 7 => 2 ^ i = 128
  OBVIOUS
<1>9. i = 8 => 2 ^ i = 256
  OBVIOUS
<1> QED BY <1>1, <1>2, <1>3, <1>4, <1>5, <1>6, <1>7, <1>8, <1>9

LEMMA PowerPositive ==
  ASSUME NEW i \in 0..8
  PROVE  2 ^ i \in {1, 2, 4, 8, 16, 32, 64, 128, 256}
<1> DEFINE w == 2 ^ i
<1>1. /\ i = 0 => w = 1
      /\ i = 1 => w = 2
      /\ i = 2 => w = 4
      /\ i = 3 => w = 8
      /\ i = 4 => w = 16
      /\ i = 5 => w = 32
      /\ i = 6 => w = 64
      /\ i = 7 => w = 128
      /\ i = 8 => w = 256
  BY Powers
<1> HIDE DEF w
<1>2. w \in {1, 2, 4, 8, 16, 32, 64, 128, 256}
  BY <1>1
<1> QED BY <1>2 DEF w

LEMMA BitBinary ==
  ASSUME NEW b \in Byte, NEW k \in 0..8
  PROVE  BitOf(b, k) \in 0..1
<1>1. CASE k = 8
  BY <1>1 DEF BitOf
<1>2. CASE k # 8
  <2> DEFINE w == 2 ^ (7 - k)
  <2>1. w \in {1, 2, 4, 8, 16, 32, 64, 128, 256}
    <3>1. 7 - k \in 0..8
      BY <1>2
    <3> QED BY <3>1, PowerPositive
  <2>2. BitOf(b, k) = (b \div w) % 2
    BY <1>2 DEF BitOf
  <2> HIDE DEF w
  <2>3. b \div w \in Nat
    BY <2>1 DEF Byte
  <2> QED BY <2>2, <2>3
<1> QED BY <1>1, <1>2

LEMMA LowBit == ASSUME NEW b \in Byte PROVE b % 2 \in 0..1 /\ b % 2 \in Byte
  BY DEF Byte

(* Every store is one of the two lines' four values, so the slave's own    *)
(* invariant is kept.                                                      *)
LEMMA StorePins ==
  ASSUME BusInv, pc > 0
  PROVE  /\ Stores(call)[pc] \in Pins
         /\ pc \in 1..Len(Stores(call))
         /\ Len(Stores(call)) \in 1..27
<1>1. call \in [kind : Kinds, byte : Byte] /\ pc \in 1..27 /\ Place
  BY DEF BusInv, BusTypeOK
<1>2. CASE call.kind \in {"boot", "start"}
  <2>1. pc \in 1..2
    BY <1>1, <1>2 DEF Place, BootPlace, StartPlace
  <2>2. Stores(call) = (IF call.kind = "boot" THEN BootPins ELSE StartPins)
    BY <1>2 DEF Stores
  <2>3. Stores(call)[1] \in Pins /\ Stores(call)[2] \in Pins /\ Len(Stores(call)) = 2
    BY <1>2, <2>2, ShortStores DEF P, Pins
  <2>4. pc = 1 \/ pc = 2
    BY <2>1
  <2> QED BY <2>3, <2>4
<1>3. CASE call.kind = "resta"
  <2>1. pc \in 1..4 /\ Stores(call) = RestaPins
    BY <1>1, <1>3 DEF Place, RestaPlace, Stores
  <2>2. pc = 1 \/ pc = 2 \/ pc = 3 \/ pc = 4
    BY <2>1
  <2> QED BY <2>1, <2>2, RestaStores DEF P, Pins
<1>4. CASE call.kind = "stop"
  <2>1. pc \in 1..4 /\ Stores(call) = StopPins
    BY <1>1, <1>4 DEF Place, StopPlace, Stores
  <2>2. pc = 1 \/ pc = 2 \/ pc = 3 \/ pc = 4
    BY <2>1
  <2>3. /\ StopPins[1] \in Pins /\ StopPins[2] \in Pins /\ StopPins[3] \in Pins
        /\ StopPins[4] \in Pins /\ Len(StopPins) = 4
    BY ShortStores DEF P, Pins
  <2> QED BY <2>1, <2>2, <2>3
<1>5. CASE call.kind = "sendb"
  <2>1. pc \in 1..27 /\ Stores(call) = SendPins(call.byte) /\ call.byte \in Byte
    BY <1>1, <1>5 DEF Place, SendPlace, Stores
  <2>2. BitOf(call.byte, (pc - 1) \div 3) \in 0..1
    <3> DEFINE k == (pc - 1) \div 3
    <3>1. k \in 0..8
      BY <2>1
    <3> HIDE DEF k
    <3>2. BitOf(call.byte, k) \in 0..1
      BY <2>1, <3>1, BitBinary
    <3> QED BY <3>2 DEF k
  <2>3. /\ Len(SendPins(call.byte)) = 27
        /\ SendPins(call.byte)[pc] =
             P(BitOf(call.byte, (pc - 1) \div 3), IF pc % 3 = 2 THEN 1 ELSE 0)
    BY <2>1, SendStores
  <2> HIDE DEF Place
  <2>4. SendPins(call.byte)[pc] \in Pins
    BY <2>2, <2>3 DEF P, Pins
  <2> QED BY <2>1, <2>3, <2>4
<1>6. CASE call.kind = "getb"
  <2>1. pc \in 1..17 /\ Stores(call) = GetPins
    BY <1>1, <1>6 DEF Place, GetPlace, Stores
  <2>2. GetPins[pc] \in Pins
    BY <2>1, GetStores DEF P, Pins
  <2> QED BY <2>1, <2>2, GetStores
<1>7. CASE call.kind \in {"ack", "nak"}
  <2> DEFINE d == IF call.kind = "ack" THEN 0 ELSE 1
  <2>1. pc \in 1..3 /\ Stores(call) = Bit(d)
    BY <1>1, <1>7 DEF Place, AckPlace, Stores
  <2>2. pc = 1 \/ pc = 2 \/ pc = 3
    BY <2>1
  <2>3. Bit(d) = <<P(d, 0), P(d, 1), P(d, 0)>> /\ Len(Bit(d)) = 3
    BY ShortStores
  <2>4. P(d, 0) \in Pins /\ P(d, 1) \in Pins
    BY DEF P, Pins
  <2> HIDE DEF d
  <2> QED BY <2>1, <2>2, <2>3, <2>4
<1> QED BY <1>1, <1>2, <1>3, <1>4, <1>5, <1>6, <1>7 DEF Kinds

LEMMA StoreKeepsSlave ==
  ASSUME BusInv, Store
  PROVE  SlaveInv'
BY StorePins, WriteSlaveInv DEF Store, BusInv

LEMMA StoreCount ==
  ASSUME BusInv, pc > 0, pc # Len(Stores(call))
  PROVE  pc + 1 \in 1..27
<1> DEFINE n == Len(Stores(call))
<1>1. pc \in 1..n /\ n \in 1..27 /\ pc # n
  BY StorePins
<1> HIDE DEF n
<1> QED BY <1>1

LEMMA StoreKeepsTypes ==
  ASSUME BusInv, Store
  PROVE  BusTypeOK'
<1>1. call' = call /\ was' = was /\ pc \in 1..Len(Stores(call))
      /\ Len(Stores(call)) \in 1..27
  BY StorePins DEF Store
<1>2. serir' \in Byte
  BY StoreKeepsSlave DEF SlaveInv, TypeOK
<1>3. CASE pc # Len(Stores(call))
  <2>1. pc' = pc + 1 /\ UNCHANGED <<at, reply>>
    BY <1>3 DEF Store
  <2>2. pc' \in 0..27
    BY <1>3, <2>1, StoreCount DEF Store
  <2> QED BY <1>1, <2>1, <2>2 DEF BusInv, BusTypeOK
<1>4. CASE pc = Len(Stores(call))
  <2>1. Return
    BY <1>4 DEF Store
  <2>2. pc' = 0
    BY <2>1 DEF Return
  <2>3. reply' \in Byte
    <3>1. serir' % 2 \in Byte
      BY <1>2, LowBit
    <3>2. reply' \in {0, serir' % 2, serir', reply}
      BY <2>1 DEF Return
    <3>3. reply \in Byte /\ 0 \in Byte
      BY DEF BusInv, BusTypeOK, Byte
    <3> DEFINE low == serir' % 2
    <3> HIDE DEF low
    <3> QED BY <1>2, <3>1, <3>2, <3>3 DEF low
  <2>4. at' \in Modes
    <3>1. call.kind = "sendb" => at \in {"ctl", "rctl"} \cup Locating
      BY <1>1 DEF BusInv, CallFits
    <3>2. call.kind = "sendb" => AfterSend[at] \in Modes
      BY <3>1, AfterSends DEF Locating, Modes
    <3>3. call.kind \in Kinds
      BY DEF BusInv, BusTypeOK
    <3> QED BY <2>1, <3>2, <3>3 DEF Return, Kinds, Modes
  <2> QED BY <1>1, <2>2, <2>3, <2>4 DEF BusInv, BusTypeOK
<1> QED BY <1>3, <1>4

(* What is left to show of a store: the next place of the routine, or the  *)
(* program's place in the transaction once it has returned.                *)
LEMMA StoreGoesOn ==
  ASSUME BusInv, Store, pc # Len(Stores(call)), Place'
  PROVE  BusInv'
<1>1. pc' = pc + 1 /\ UNCHANGED <<at, call, was>> /\ pc \in 1..27
  <2>1. pc \in 1..27
    BY DEF Store, BusInv, BusTypeOK
  <2>2. pc' = pc + 1 /\ UNCHANGED <<at, call, was>>
    BY DEF Store
  <2> QED BY <2>1, <2>2
<1>2. CallFits' /\ (~Located => was.ptr = 0)'
  BY <1>1 DEF BusInv, CallFits, Located
<1> QED BY <1>1, <1>2, StoreKeepsSlave, StoreKeepsTypes DEF BusInv

LEMMA StoreReturns ==
  ASSUME BusInv, Store, pc = Len(Stores(call)), Between(at)'
  PROVE  BusInv'
<1>1. pc' = 0
  BY DEF Store, Return
<1> QED BY <1>1, StoreKeepsSlave, StoreKeepsTypes DEF BusInv

(* The place of a routine and its next place.                              *)
LEMMA Places ==
  ASSUME BusInv, pc > 0
  PROVE  /\ call.kind = "boot" => BootPlace
         /\ call.kind = "start" => StartPlace
         /\ call.kind = "resta" => RestaPlace
         /\ call.kind = "stop" => StopPlace
         /\ call.kind = "sendb" => SendPlace
         /\ call.kind = "getb" => GetPlace
         /\ call.kind \in {"ack", "nak"} => AckPlace
  BY DEF BusInv, BusTypeOK, Kinds, Place

LEMMA NextPlaces ==
  ASSUME BusInv, Store
  PROVE  /\ call.kind = "boot" /\ BootPlace' => Place'
         /\ call.kind = "start" /\ StartPlace' => Place'
         /\ call.kind = "resta" /\ RestaPlace' => Place'
         /\ call.kind = "stop" /\ StopPlace' => Place'
         /\ call.kind = "sendb" /\ SendPlace' => Place'
         /\ call.kind = "getb" /\ GetPlace' => Place'
         /\ call.kind \in {"ack", "nak"} /\ AckPlace' => Place'
<1>1. call' = call
  BY DEF Store
<1> QED BY <1>1 DEF Place

LEMMA PinFields ==
  /\ \A d, c : P(d, c).sda = d /\ P(d, c).scl = c
  /\ P(1, 1) # P(0, 1)
BY DEF P

LEMMA StoreStep ==
  ASSUME BusInv, Store
  PROVE  /\ WriteSercr(Stores(call)[pc])
         /\ call' = call /\ was' = was /\ pc > 0
         /\ pc # Len(Stores(call)) => pc' = pc + 1 /\ at' = at
         /\ pc = Len(Stores(call)) => Return
  BY DEF Store

LEMMA KeptKept ==
  ASSUME Kept, UNCHANGED <<cartridge, cartridge_addr, was, at>>
  PROVE  Kept'
  BY DEF Kept, Pointer, Located

LEMMA AgreesKept ==
  ASSUME UNCHANGED <<cartridge_state, cartridge_bits, twi_addr, twi_status, attached>>,
         NEW m, Agrees(m)
  PROVE  Agrees(m)'
  BY DEF Agrees, Selected, CartWrite, CartRead, AddressingCartridge

LEMMA BootStep == ASSUME BusInv, Store, call.kind = "boot" PROVE BusInv'
<1>1. /\ BootPlace /\ Stores(call) = BootPins
      /\ BootPins[1] = P(0, 1) /\ BootPins[2] = P(1, 1) /\ Len(BootPins) = 2
  BY Places, StoreStep, ShortStores DEF Stores
<1>2. TypeOK /\ at = "idle"
  BY StoreStep DEF BusInv, SlaveInv, CallFits
<1>3. CASE pc = 1
  <2>1. WriteSercr(P(0, 1)) /\ pc' = 2 /\ UNCHANGED <<at, call, was>>
    BY <1>1, <1>3, StoreStep
  <2>2. sercr' = P(0, 1)
    BY <2>1 DEF WriteSercr
  <2>3. cartridge' = cartridge
    <3>1. ~WaitingForAck /\ ~AddrSet
      BY <1>1, <1>3 DEF BootPlace, WaitingForAck, AddrSet
    <3> QED BY <2>1, <3>1, PinFields
            DEF WriteSercr, HandleNewSercr, SclLow, AckClock, ReadClock, ShiftClock, SclHigh,
                cartVars
  <2>4. Kept'
    BY <1>1, <1>2, <2>1, <2>3 DEF BootPlace, Kept, Pointer, Located
  <2>5. BootPlace'
    BY <2>1, <2>2, <2>4 DEF BootPlace
  <2> QED BY <1>1, <1>3, <2>5, NextPlaces, StoreGoesOn
<1>4. CASE pc = 2
  <2>1. WriteSercr(P(1, 1)) /\ Return
    BY <1>1, <1>4, StoreStep
  <2>2. sercr = P(0, 1)
    BY <1>1, <1>4 DEF BootPlace
  <2>3. SclHigh(P(1, 1)) /\ sercr' = P(1, 1)
    BY <2>1, <2>2, HighStore, PinFields
  <2>4. twi_status' = 0
    BY <2>2, <2>3, PinFields DEF SclHigh
  <2>5. at' = "idle"
    BY <2>1 DEF Return
  <2> QED BY <1>1, <1>4, <2>3, <2>4, <2>5, StoreReturns DEF Between, Agrees, Locating
<1> QED BY <1>1, <1>3, <1>4 DEF BootPlace

LEMMA StartStep == ASSUME BusInv, Store, call.kind = "start" PROVE BusInv'
<1>1. /\ StartPlace /\ Stores(call) = StartPins
      /\ StartPins[1] = P(0, 1) /\ StartPins[2] = P(0, 0) /\ Len(StartPins) = 2
  BY Places, StoreStep, ShortStores DEF Stores
<1>2. CASE pc = 1
  <2>1. WriteSercr(P(0, 1)) /\ pc' = 2 /\ UNCHANGED <<at, call, was>>
    BY <1>1, <1>2, StoreStep
  <2>2. sercr = P(1, 1)
    BY <1>1, <1>2 DEF StartPlace, Between
  <2>3. SclHigh(P(0, 1)) /\ sercr' = P(0, 1)
    BY <2>1, <2>2, HighStore, PinFields
  <2>4. twi_status' = 15 /\ UNCHANGED <<cartridge, cartridge_addr>>
    BY <2>2, <2>3, PinFields DEF SclHigh, cartVars
  <2>5. StartPlace'
    BY <1>1, <2>1, <2>3, <2>4, KeptKept DEF StartPlace
  <2> QED BY <1>1, <1>2, <2>5, NextPlaces, StoreGoesOn
<1>3. CASE pc = 2
  <2>1. WriteSercr(P(0, 0)) /\ Return /\ twi_status = 15
    BY <1>1, <1>3, StoreStep DEF StartPlace
  <2>2. twi_status' = 15 /\ sercr' = P(0, 0)
    BY <2>1, LowStore, PinFields
  <2>3. at' = "ctl"
    BY <2>1 DEF Return
  <2> QED BY <1>1, <1>3, <2>2, <2>3, StoreReturns, PinFields DEF Between, Agrees, Locating
<1> QED BY <1>1, <1>2, <1>3 DEF StartPlace

LEMMA RestaStep == ASSUME BusInv, Store, call.kind = "resta" PROVE BusInv'
<1>1. RestaPlace /\ Stores(call) = RestaPins /\ at = "data" /\ TypeOK
  BY Places, StoreStep DEF Stores, BusInv, SlaveInv, CallFits
<1> DEFINE Quiet == UNCHANGED <<cartridge, cartridge_addr, attached, cartridge_bits>>
<1>2. Quiet => Kept' /\ Selected'
  BY <1>1, StoreStep, KeptKept, RestaStores DEF RestaPlace, Selected, Kept, Pointer, Located,
     Return
<1>3. CASE pc = 1
  <2>1. WriteSercr(P(1, 0)) /\ pc' = 2 /\ UNCHANGED <<at, call, was>> /\ Agrees("data")
    BY <1>1, <1>3, StoreStep, RestaStores DEF RestaPlace, Between
  <2>2. UNCHANGED <<cartVars, serir, twi_addr, twi_status, attached>> /\ sercr' = P(1, 0)
    BY <2>1, LowStore, PinFields
  <2>3. Agrees("data")' /\ Quiet
    BY <2>1, <2>2, AgreesKept DEF cartVars
  <2>4. RestaPlace'
    BY <1>2, <2>1, <2>2, <2>3 DEF RestaPlace
  <2> QED BY <1>1, <1>3, <2>4, NextPlaces, StoreGoesOn, RestaStores
<1>4. CASE pc = 2
  <2>1. WriteSercr(P(1, 1)) /\ pc' = 3 /\ UNCHANGED <<at, call, was>>
    BY <1>1, <1>4, StoreStep, RestaStores
  <2>2. sercr = P(1, 0) /\ twi_status = 31 /\ CartWrite
    BY <1>1, <1>4 DEF RestaPlace, Agrees, Locating
  <2>3. ~WaitingForAck /\ ~CartRead
    BY <1>1, <2>2 DEF WaitingForAck, CartWrite, CartRead
  <2>4. ShiftClock(P(1, 1)) /\ sercr' = P(1, 1) /\ attached' = attached
    BY <2>1, <2>2, <2>3, ShiftStore, PinFields
  <2>5. Quiet
    BY <2>2, <2>4 DEF ShiftClock
  <2>6. RestaPlace'
    BY <1>2, <2>1, <2>4, <2>5 DEF RestaPlace
  <2> QED BY <1>1, <1>4, <2>6, NextPlaces, StoreGoesOn, RestaStores
<1>5. CASE pc = 3
  <2>1. WriteSercr(P(0, 1)) /\ pc' = 4 /\ UNCHANGED <<at, call, was>> /\ sercr = P(1, 1)
    BY <1>1, <1>5, StoreStep, RestaStores DEF RestaPlace
  <2>2. SclHigh(P(0, 1)) /\ sercr' = P(0, 1) /\ attached' = attached
    BY <2>1, HighStore, PinFields
  <2>3. twi_status' = 15 /\ Quiet
    BY <2>1, <2>2, PinFields DEF SclHigh, cartVars
  <2>4. RestaPlace'
    BY <1>2, <2>1, <2>2, <2>3 DEF RestaPlace
  <2> QED BY <1>1, <1>5, <2>4, NextPlaces, StoreGoesOn, RestaStores
<1>6. CASE pc = 4
  <2>1. WriteSercr(P(0, 0)) /\ Return /\ twi_status = 15
    BY <1>1, <1>6, StoreStep, RestaStores DEF RestaPlace
  <2>2. UNCHANGED <<cartVars, serir, twi_addr, twi_status, attached>> /\ sercr' = P(0, 0)
    BY <2>1, LowStore, PinFields
  <2>3. Selected'
    BY <1>1, <2>2 DEF RestaPlace, Selected, cartVars
  <2>4. at' = "rctl"
    BY <1>1, <2>1 DEF Return
  <2> QED BY <1>1, <1>6, <2>1, <2>2, <2>3, <2>4, StoreReturns, PinFields, RestaStores
          DEF Between, Agrees, Locating
<1> QED BY <1>1, <1>3, <1>4, <1>5, <1>6 DEF RestaPlace

LEMMA StopStep == ASSUME BusInv, Store, call.kind = "stop" PROVE BusInv'
<1>1. /\ StopPlace /\ Stores(call) = StopPins /\ at \in Modes /\ TypeOK
      /\ StopPins[1] = P(0, 0) /\ StopPins[2] = P(0, 1) /\ StopPins[3] = P(1, 1)
      /\ StopPins[4] = P(1, 1) /\ Len(StopPins) = 4
  BY Places, StoreStep, ShortStores DEF Stores, BusInv, SlaveInv, BusTypeOK
<1>2. CASE pc = 1
  <2>1. WriteSercr(P(0, 0)) /\ pc' = 2 /\ UNCHANGED <<at, call, was>> /\ Agrees(at)
    BY <1>1, <1>2, StoreStep DEF StopPlace, Between
  <2>2. UNCHANGED <<cartVars, serir, twi_addr, twi_status, attached>> /\ sercr' = P(0, 0)
    BY <2>1, LowStore, PinFields
  <2>3. Agrees(at)'
    BY <2>1, <2>2, AgreesKept DEF cartVars
  <2>4. StopPlace'
    BY <1>1, <2>1, <2>2, <2>3 DEF StopPlace, cartVars
  <2> QED BY <1>1, <1>2, <2>4, NextPlaces, StoreGoesOn
<1>3. CASE pc = 2
  <2>1. WriteSercr(P(0, 1)) /\ pc' = 3 /\ UNCHANGED <<at, call, was>>
    BY <1>1, <1>3, StoreStep
  <2>2. Agrees(at) /\ sercr = P(0, 0)
    BY <1>1, <1>3 DEF StopPlace
  <2>3. twi_status \in {0, 15, 23, 31}
    BY <1>1, <2>2 DEF Agrees, Modes, Locating
  <2>4. ~(twi_status % 8 = 0 /\ AddrSet)
    BY <2>3 DEF AddrSet
  <2>5. cartridge' = cartridge
    BY <2>1, <2>2, <2>4, PinFields
       DEF WriteSercr, HandleNewSercr, SclLow, AckClock, ReadClock, ShiftClock, SclHigh,
           cartVars
  <2>6. sercr' = P(0, 1)
    BY <2>1 DEF WriteSercr
  <2>7. StopPlace'
    BY <1>1, <2>1, <2>5, <2>6 DEF StopPlace
  <2> QED BY <1>1, <1>3, <2>7, NextPlaces, StoreGoesOn
<1>4. CASE pc = 3
  <2>1. WriteSercr(P(1, 1)) /\ pc' = 4 /\ UNCHANGED <<at, call, was>> /\ sercr = P(0, 1)
    BY <1>1, <1>4, StoreStep DEF StopPlace
  <2>2. SclHigh(P(1, 1)) /\ sercr' = P(1, 1)
    BY <2>1, HighStore, PinFields
  <2>3. twi_status' = 0 /\ cartridge' = cartridge
    BY <2>1, <2>2, PinFields DEF SclHigh, cartVars
  <2>4. StopPlace'
    BY <1>1, <2>1, <2>2, <2>3 DEF StopPlace
  <2> QED BY <1>1, <1>4, <2>4, NextPlaces, StoreGoesOn
<1>5. CASE pc = 4
  <2>1. WriteSercr(P(1, 1)) /\ Return /\ sercr = P(1, 1) /\ twi_status = 0
    BY <1>1, <1>5, StoreStep DEF StopPlace
  <2>2. SclHigh(P(1, 1)) /\ sercr' = P(1, 1)
    BY <2>1, HighStore, PinFields
  <2>3. twi_status' = 0 /\ at' = "idle"
    BY <2>1, <2>2, PinFields DEF SclHigh, Return
  <2> QED BY <1>1, <1>5, <2>2, <2>3, StoreReturns DEF Between, Agrees, Locating
<1> QED BY <1>1, <1>2, <1>3, <1>4, <1>5 DEF StopPlace

(* The acknowledge of a byte read: the cartridge leaves the line alone.    *)
LEMMA AckStep == ASSUME BusInv, Store, call.kind \in {"ack", "nak"} PROVE BusInv'
<1> DEFINE d == IF call.kind = "ack" THEN 0 ELSE 1
<1>1. /\ AckPlace /\ Stores(call) = Bit(d) /\ at = "sent" /\ TypeOK
      /\ Bit(d)[1] = P(d, 0) /\ Bit(d)[2] = P(d, 1) /\ Bit(d)[3] = P(d, 0)
      /\ Len(Bit(d)) = 3
  BY Places, StoreStep, ShortStores DEF Stores, BusInv, SlaveInv, CallFits
<1> HIDE DEF d
<1>2. CASE pc = 1
  <2>1. WriteSercr(P(d, 0)) /\ pc' = 2 /\ UNCHANGED <<at, call, was>> /\ Agrees("sent")
        /\ Kept
    BY <1>1, <1>2, StoreStep DEF AckPlace
  <2>2. UNCHANGED <<cartVars, serir, twi_addr, twi_status, attached>> /\ sercr' = P(d, 0)
    BY <2>1, LowStore, PinFields
  <2>3. Agrees("sent")' /\ Kept'
    BY <2>1, <2>2, AgreesKept, KeptKept DEF cartVars
  <2>4. AckPlace'
    BY <2>1, <2>2, <2>3, PinFields DEF AckPlace
  <2> QED BY <1>1, <1>2, <2>4, NextPlaces, StoreGoesOn
<1>3. CASE pc = 2
  <2>1. WriteSercr(P(d, 1)) /\ pc' = 3 /\ UNCHANGED <<at, call, was>> /\ Agrees("sent")
        /\ Kept /\ sercr.scl = 0
    BY <1>1, <1>3, StoreStep DEF AckPlace
  <2>2. twi_status = 23 /\ Selected /\ CartRead
    BY <2>1 DEF Agrees
  <2>3. WaitingForAck /\ AddrSet
    BY <2>2 DEF WaitingForAck, AddrSet
  <2>4. AckClock(P(d, 1)) /\ sercr' = P(d, 1) /\ attached' = attached
    BY <2>1, <2>3, AckStore, PinFields
  <2>5. twi_status' = 31 /\ UNCHANGED <<cartridge, cartridge_state, cartridge_addr,
                                        cartridge_bits, twi_addr>>
    BY <2>2, <2>3, <2>4 DEF AckClock
  <2>6. Agrees("send")' /\ Kept'
    BY <2>1, <2>2, <2>4, <2>5, KeptKept
       DEF Agrees, Locating, Selected, CartRead, AddressingCartridge
  <2>7. AckPlace'
    BY <2>1, <2>4, <2>6, PinFields DEF AckPlace
  <2> QED BY <1>1, <1>3, <2>7, NextPlaces, StoreGoesOn
<1>4. CASE pc = 3
  <2>1. WriteSercr(P(d, 0)) /\ Return /\ Agrees("send")
    BY <1>1, <1>4, StoreStep DEF AckPlace
  <2>2. UNCHANGED <<cartVars, serir, twi_addr, twi_status, attached>> /\ sercr' = P(d, 0)
    BY <2>1, LowStore, PinFields
  <2>3. Agrees("send")' /\ Agrees("deaf")'
    BY <2>1, <2>2, AgreesKept DEF cartVars, Agrees, Locating
  <2>4. at' \in {"send", "deaf"}
    BY <2>1 DEF Return
  <2> QED BY <1>1, <1>4, <2>2, <2>3, <2>4, StoreReturns, PinFields DEF Between
<1> QED BY <1>1, <1>2, <1>3, <1>4 DEF AckPlace

(* One more bit of the byte in the shift register.                         *)
LEMMA BitIn ==
  ASSUME NEW b \in Byte, NEW s \in Byte, NEW n \in 0..7,
         BitsIn(s, b, n), NEW d, d = BitOf(b, n),
         NEW x, x = (2 * s + d) % 256
  PROVE  BitsIn(x, b, n + 1)
<1>1. CASE n = 0
  <2>1. PICK q \in 0..1 : q = b \div 128
    BY DEF Byte
  <2>2. PICK k \in 0..255 : k = s \div 1
    BY DEF Byte
  <2>3. PICK h \in Nat : h = q \div 2
    OBVIOUS
  <2>4. d = q % 2
    BY <1>1, <2>1 DEF BitOf
  <2>5. d = q - 2 * h
    BY <2>3, <2>4
  <2>6. s % 1 = b \div 256
    BY <1>1 DEF BitsIn
  <2>7. b \div 256 = h
    BY <2>1, <2>3 DEF Byte
  <2>8. s % 1 = s - 1 * k
    BY <2>2 DEF Byte
  <2>9. s = 1 * k + h
    BY <2>6, <2>7, <2>8 DEF Byte
  <2>10. 2 * s + d = 2 * k + q
    BY <2>5, <2>9
  <2>11. ((2 * k + q) % 256) % 2 = q
    OBVIOUS
  <2>12. x % 2 = b \div 128
    BY <2>1, <2>10, <2>11
  <2>13. 2 ^ (n + 1) = 2 /\ 2 ^ (8 - (n + 1)) = 128
    BY <1>1
  <2> QED BY <2>12, <2>13 DEF BitsIn
<1>2. CASE n = 1
  <2>1. PICK q \in 0..3 : q = b \div 64
    BY DEF Byte
  <2>2. PICK k \in 0..127 : k = s \div 2
    BY DEF Byte
  <2>3. PICK h \in Nat : h = q \div 2
    OBVIOUS
  <2>4. d = q % 2
    BY <1>2, <2>1 DEF BitOf
  <2>5. d = q - 2 * h
    BY <2>3, <2>4
  <2>6. s % 2 = b \div 128
    BY <1>2 DEF BitsIn
  <2>7. b \div 128 = h
    BY <2>1, <2>3 DEF Byte
  <2>8. s % 2 = s - 2 * k
    BY <2>2 DEF Byte
  <2>9. s = 2 * k + h
    BY <2>6, <2>7, <2>8 DEF Byte
  <2>10. 2 * s + d = 4 * k + q
    BY <2>5, <2>9
  <2>11. ((4 * k + q) % 256) % 4 = q
    OBVIOUS
  <2>12. x % 4 = b \div 64
    BY <2>1, <2>10, <2>11
  <2>13. 2 ^ (n + 1) = 4 /\ 2 ^ (8 - (n + 1)) = 64
    BY <1>2
  <2> QED BY <2>12, <2>13 DEF BitsIn
<1>3. CASE n = 2
  <2>1. PICK q \in 0..7 : q = b \div 32
    BY DEF Byte
  <2>2. PICK k \in 0..63 : k = s \div 4
    BY DEF Byte
  <2>3. PICK h \in Nat : h = q \div 2
    OBVIOUS
  <2>4. d = q % 2
    BY <1>3, <2>1 DEF BitOf
  <2>5. d = q - 2 * h
    BY <2>3, <2>4
  <2>6. s % 4 = b \div 64
    BY <1>3 DEF BitsIn
  <2>7. b \div 64 = h
    BY <2>1, <2>3 DEF Byte
  <2>8. s % 4 = s - 4 * k
    BY <2>2 DEF Byte
  <2>9. s = 4 * k + h
    BY <2>6, <2>7, <2>8 DEF Byte
  <2>10. 2 * s + d = 8 * k + q
    BY <2>5, <2>9
  <2>11. ((8 * k + q) % 256) % 8 = q
    OBVIOUS
  <2>12. x % 8 = b \div 32
    BY <2>1, <2>10, <2>11
  <2>13. 2 ^ (n + 1) = 8 /\ 2 ^ (8 - (n + 1)) = 32
    BY <1>3
  <2> QED BY <2>12, <2>13 DEF BitsIn
<1>4. CASE n = 3
  <2>1. PICK q \in 0..15 : q = b \div 16
    BY DEF Byte
  <2>2. PICK k \in 0..31 : k = s \div 8
    BY DEF Byte
  <2>3. PICK h \in Nat : h = q \div 2
    OBVIOUS
  <2>4. d = q % 2
    BY <1>4, <2>1 DEF BitOf
  <2>5. d = q - 2 * h
    BY <2>3, <2>4
  <2>6. s % 8 = b \div 32
    BY <1>4 DEF BitsIn
  <2>7. b \div 32 = h
    BY <2>1, <2>3 DEF Byte
  <2>8. s % 8 = s - 8 * k
    BY <2>2 DEF Byte
  <2>9. s = 8 * k + h
    BY <2>6, <2>7, <2>8 DEF Byte
  <2>10. 2 * s + d = 16 * k + q
    BY <2>5, <2>9
  <2>11. ((16 * k + q) % 256) % 16 = q
    OBVIOUS
  <2>12. x % 16 = b \div 16
    BY <2>1, <2>10, <2>11
  <2>13. 2 ^ (n + 1) = 16 /\ 2 ^ (8 - (n + 1)) = 16
    BY <1>4
  <2> QED BY <2>12, <2>13 DEF BitsIn
<1>5. CASE n = 4
  <2>1. PICK q \in 0..31 : q = b \div 8
    BY DEF Byte
  <2>2. PICK k \in 0..15 : k = s \div 16
    BY DEF Byte
  <2>3. PICK h \in Nat : h = q \div 2
    OBVIOUS
  <2>4. d = q % 2
    BY <1>5, <2>1 DEF BitOf
  <2>5. d = q - 2 * h
    BY <2>3, <2>4
  <2>6. s % 16 = b \div 16
    BY <1>5 DEF BitsIn
  <2>7. b \div 16 = h
    BY <2>1, <2>3 DEF Byte
  <2>8. s % 16 = s - 16 * k
    BY <2>2 DEF Byte
  <2>9. s = 16 * k + h
    BY <2>6, <2>7, <2>8 DEF Byte
  <2>10. 2 * s + d = 32 * k + q
    BY <2>5, <2>9
  <2>11. ((32 * k + q) % 256) % 32 = q
    OBVIOUS
  <2>12. x % 32 = b \div 8
    BY <2>1, <2>10, <2>11
  <2>13. 2 ^ (n + 1) = 32 /\ 2 ^ (8 - (n + 1)) = 8
    BY <1>5
  <2> QED BY <2>12, <2>13 DEF BitsIn
<1>6. CASE n = 5
  <2>1. PICK q \in 0..63 : q = b \div 4
    BY DEF Byte
  <2>2. PICK k \in 0..7 : k = s \div 32
    BY DEF Byte
  <2>3. PICK h \in Nat : h = q \div 2
    OBVIOUS
  <2>4. d = q % 2
    BY <1>6, <2>1 DEF BitOf
  <2>5. d = q - 2 * h
    BY <2>3, <2>4
  <2>6. s % 32 = b \div 8
    BY <1>6 DEF BitsIn
  <2>7. b \div 8 = h
    BY <2>1, <2>3 DEF Byte
  <2>8. s % 32 = s - 32 * k
    BY <2>2 DEF Byte
  <2>9. s = 32 * k + h
    BY <2>6, <2>7, <2>8 DEF Byte
  <2>10. 2 * s + d = 64 * k + q
    BY <2>5, <2>9
  <2>11. ((64 * k + q) % 256) % 64 = q
    OBVIOUS
  <2>12. x % 64 = b \div 4
    BY <2>1, <2>10, <2>11
  <2>13. 2 ^ (n + 1) = 64 /\ 2 ^ (8 - (n + 1)) = 4
    BY <1>6
  <2> QED BY <2>12, <2>13 DEF BitsIn
<1>7. CASE n = 6
  <2>1. PICK q \in 0..127 : q = b \div 2
    BY DEF Byte
  <2>2. PICK k \in 0..3 : k = s \div 64
    BY DEF Byte
  <2>3. PICK h \in Nat : h = q \div 2
    OBVIOUS
  <2>4. d = q % 2
    BY <1>7, <2>1 DEF BitOf
  <2>5. d = q - 2 * h
    BY <2>3, <2>4
  <2>6. s % 64 = b \div 4
    BY <1>7 DEF BitsIn
  <2>7. b \div 4 = h
    BY <2>1, <2>3 DEF Byte
  <2>8. s % 64 = s - 64 * k
    BY <2>2 DEF Byte
  <2>9. s = 64 * k + h
    BY <2>6, <2>7, <2>8 DEF Byte
  <2>10. 2 * s + d = 128 * k + q
    BY <2>5, <2>9
  <2>11. ((128 * k + q) % 256) % 128 = q
    OBVIOUS
  <2>12. x % 128 = b \div 2
    BY <2>1, <2>10, <2>11
  <2>13. 2 ^ (n + 1) = 128 /\ 2 ^ (8 - (n + 1)) = 2
    BY <1>7
  <2> QED BY <2>12, <2>13 DEF BitsIn
<1>8. CASE n = 7
  <2>1. PICK q \in 0..255 : q = b \div 1
    BY DEF Byte
  <2>2. PICK k \in 0..1 : k = s \div 128
    BY DEF Byte
  <2>3. PICK h \in Nat : h = q \div 2
    OBVIOUS
  <2>4. d = q % 2
    BY <1>8, <2>1 DEF BitOf
  <2>5. d = q - 2 * h
    BY <2>3, <2>4
  <2>6. s % 128 = b \div 2
    BY <1>8 DEF BitsIn
  <2>7. b \div 2 = h
    BY <2>1, <2>3 DEF Byte
  <2>8. s % 128 = s - 128 * k
    BY <2>2 DEF Byte
  <2>9. s = 128 * k + h
    BY <2>6, <2>7, <2>8 DEF Byte
  <2>10. 2 * s + d = 256 * k + q
    BY <2>5, <2>9
  <2>11. ((256 * k + q) % 256) % 256 = q
    OBVIOUS
  <2>12. x % 256 = b \div 1
    BY <2>1, <2>10, <2>11
  <2>13. 2 ^ (n + 1) = 256 /\ 2 ^ (8 - (n + 1)) = 1
    BY <1>8
  <2> QED BY <2>12, <2>13 DEF BitsIn
<1> QED BY <1>1, <1>2, <1>3, <1>4, <1>5, <1>6, <1>7, <1>8

LEMMA Thirds ==
  ASSUME NEW p \in 1..27
  PROVE  /\ p \div 3 \in 0..9
         /\ p % 3 = 1 => p < 27 /\ (p + 1) % 3 = 2 /\ (p + 1) \div 3 = p \div 3
                         /\ (p - 1) \div 3 = p \div 3
         /\ p % 3 = 2 => p < 27 /\ (p + 1) % 3 = 0 /\ (p + 1) \div 3 = p \div 3 + 1
                         /\ (p - 1) \div 3 = p \div 3 /\ p \div 3 \in 0..8
         /\ p % 3 = 0 => (p + 1) % 3 = 1 /\ (p + 1) \div 3 = p \div 3
         /\ p % 3 \in {0, 1, 2}
         /\ 27 \div 3 = 9 /\ 27 % 3 = 0
  OBVIOUS

LEMMA SendingKept ==
  ASSUME NEW n \in 0..9, Sending(n),
         UNCHANGED <<cartVars, serir, twi_addr, twi_status, attached, call, at, was>>
  PROVE  Sending(n)'
<1>1. UNCHANGED <<cartridge, cartridge_bits, cartridge_state, cartridge_addr>>
  BY DEF cartVars
<1>2. CartWrite' = CartWrite /\ Selected' = Selected /\ (Kept => Kept')
  BY <1>1 DEF CartWrite, AddressingCartridge, Selected, Kept, Pointer, Located
<1>3. \A m : Agrees(m) => Agrees(m)'
  BY <1>1, AgreesKept
<1>4. Shifting(n) => Shifting(n)'
  BY <1>1, <1>2 DEF Shifting
<1>5. MemAfter' = MemAfter /\ PtrAfter' = PtrAfter /\ Answers' = Answers
  BY DEF MemAfter, PtrAfter, Answers
<1>6. Arrived => Arrived'
  BY <1>1, <1>2, <1>5 DEF Arrived
<1>7. Acknowledged => Acknowledged'
  <2>1. Agrees("deaf") => Agrees("deaf")'
    BY <1>3
  <2>2. Agrees(AfterSend[at]) => Agrees(AfterSend[at])'
    <3>1. PICK m : m = AfterSend[at]
      OBVIOUS
    <3>2. m = AfterSend[at']
      BY <3>1
    <3>3. Agrees(m) => Agrees(m)'
      BY <1>3
    <3> QED BY <3>1, <3>2, <3>3 DEF Agrees
  <2> QED BY <1>1, <1>5, <2>1, <2>2 DEF Acknowledged
<1> QED BY <1>4, <1>6, <1>7 DEF Sending

(* A clock of twisendb brings one more bit, or the acknowledge.            *)
LEMMA SendClock ==
  ASSUME BusInv, pc > 0, call.kind = "sendb",
         NEW n \in 0..8, Sending(n), sercr = P(BitOf(call.byte, n), 0),
         NEW val, WriteSercr(val), val.scl = 1,
         UNCHANGED <<call, at, was>>
  PROVE  Sending(n + 1)'
<1>1. /\ TypeOK /\ call.byte \in Byte /\ at \in {"ctl", "rctl"} \cup Locating
      /\ CallFits /\ was.ptr \in Nat /\ (~Located => was.ptr = 0)
  BY DEF BusInv, BusTypeOK, SlaveInv, CallFits
<1>2. sercr.scl = 0 /\ sercr.sda = BitOf(call.byte, n)
  BY PinFields
<1>3. ~(at \in Locating) => at \in {"ctl", "rctl"} /\ FrameOf(at) = 15
  BY <1>1 DEF FrameOf
<1>4. at \in Locating => ~(at \in {"ctl", "rctl"}) /\ FrameOf(at) = 31
  BY DEF FrameOf, Locating
<1>5. CASE n \in 0..7
  <2>1. Shifting(n)
    BY <1>5 DEF Sending
  <2>2. twi_status = FrameOf(at) - n
    BY <2>1 DEF Shifting
  <2>3. ~WaitingForAck /\ (AddrSet <=> at \in Locating)
    BY <1>3, <1>4, <1>5, <2>2 DEF WaitingForAck, AddrSet
  <2>4. ~(AddrSet /\ CartRead)
    BY <1>1, <2>1, <2>3 DEF Shifting, CartWrite, CartRead
  <2>5. ShiftClock(val) /\ attached' = attached
    BY <1>2, <2>3, <2>4, ShiftStore
  <2>6. twi_status' = FrameOf(at) - (n + 1)
    <3>1. twi_status' = Dec(twi_status)
      BY <2>5 DEF ShiftClock
    <3> QED BY <1>3, <1>4, <1>5, <2>2, <3>1 DEF Dec
  <2>7. PICK x \in Byte : x = Shifted
    BY <1>1, ShiftedByte
  <2>8. PICK d : d = BitOf(call.byte, n)
    OBVIOUS
  <2>9. x = (2 * serir + d) % 256
    BY <1>2, <2>7, <2>8 DEF Shifted
  <2>10. BitsIn(x, call.byte, n + 1)
    <3>1. BitsIn(serir, call.byte, n) /\ serir \in Byte
      BY <1>1, <2>1 DEF Shifting, TypeOK
    <3>2. d \in 0..1
      BY <1>1, <2>8, BitBinary
    <3> QED BY <1>1, <1>5, <2>7, <2>8, <2>9, <3>1, <3>2, BitIn
  <2>11. serir' = x
    BY <2>5, <2>7 DEF ShiftClock
  <2>12. UNCHANGED <<cartridge_bits, data, attached>>
    BY <2>5 DEF ShiftClock
  <2>13. CASE n \in 0..6
    <3>1. twi_status % 8 # 0
      <4>1. twi_status = 15 - n \/ twi_status = 31 - n
        BY <1>3, <1>4, <2>2
      <4>2. (15 - n) % 8 # 0 /\ (31 - n) % 8 # 0
        BY <2>13
      <4> QED BY <4>1, <4>2
    <3>2. UNCHANGED <<cartridge, cartridge_state, cartridge_addr, twi_addr>>
      BY <2>5, <3>1 DEF ShiftClock
    <3>3. Kept' /\ Selected' = Selected /\ CartWrite' = CartWrite
      BY <2>1, <2>12, <3>2, KeptKept
         DEF Shifting, Selected, CartWrite, AddressingCartridge
    <3>4. Shifting(n + 1)'
      BY <2>1, <2>6, <2>10, <2>11, <3>2, <3>3 DEF Shifting
    <3>5. n + 1 \in 0..7 /\ n + 1 # 8 /\ n + 1 # 9
      BY <2>13
    <3> QED BY <3>4, <3>5 DEF Sending
  <2>14. CASE n = 7
    <3>1. twi_status % 8 = 0
      BY <1>3, <1>4, <2>2, <2>14
    <3>2. x = call.byte
      <4>1. x % 256 = call.byte \div 1
        BY <2>10, <2>14 DEF BitsIn
      <4>2. x % 256 = x /\ call.byte \div 1 = call.byte
        BY <1>1 DEF Byte
      <4> QED BY <4>1, <4>2
    <3>3. cartridge = was.mem /\ was.ptr = Pointer
      BY <2>1 DEF Shifting, Kept
    <3>4. CASE at \in {"ctl", "rctl"}
      <4>1. ~AddrSet
        BY <2>3, <3>4 DEF Locating
      <4>2. twi_addr' = x /\ UNCHANGED <<cartridge, cartridge_state, cartridge_addr>>
        BY <2>5, <2>7, <3>1, <4>1 DEF ShiftClock
      <4>3. MemAfter = was.mem /\ (at = "rctl" => PtrAfter = was.ptr)
        BY <3>4 DEF MemAfter, PtrAfter
      <4>4. at = "rctl" => Selected' /\ cartridge_addr = was.ptr
        BY <2>1, <2>12, <3>3 DEF Shifting, Selected, Pointer, Located
      <4>5. MemAfter' = MemAfter /\ PtrAfter' = PtrAfter
        BY DEF MemAfter, PtrAfter
      <4>6. ~(at \in Locating) /\ (at # "ctl" => at = "rctl")
        BY <3>4 DEF Locating
      <4>7. Arrived'
        BY <2>6, <2>14, <3>2, <3>3, <4>2, <4>3, <4>4, <4>5, <4>6 DEF Arrived
      <4> QED BY <2>14, <4>7 DEF Sending
    <3>5. CASE at \in Locating
      <4>1. AddrSet /\ CartWrite /\ Selected /\ cartridge_state = Stage(at)
        BY <2>1, <2>3, <3>5 DEF Shifting, Locating
      <4>2. cartridge_addr = was.ptr /\ at \in {"hi", "lo", "data"}
        BY <3>3, <3>5 DEF Pointer, Located, Locating
      <4>3. /\ cartridge_state' = Stage(AfterSend[at])
            /\ cartridge_addr' = PtrAfter
            /\ cartridge' = MemAfter
            /\ twi_addr' = twi_addr
        <5>1. CASE at = "data"
          <6>1. cartridge_state >= 3 /\ cartridge_state = 3
            BY <4>1, <5>1 DEF Stage
          <6>2. /\ cartridge_state' = 3 /\ cartridge_addr' = cartridge_addr + 1
                /\ cartridge' = [cartridge EXCEPT ![Here] = Shifted]
                /\ twi_addr' = twi_addr
            BY <2>5, <3>1, <4>1, <6>1 DEF ShiftClock
          <6> QED BY <2>7, <3>2, <3>3, <4>2, <5>1, <6>2, AfterSends
                  DEF Stage, PtrAfter, MemAfter, Here
        <5>2. CASE at \in {"hi", "lo"}
          <6>1. /\ ~(cartridge_state >= 3) /\ cartridge_state + 1 = Stage(AfterSend[at])
            BY <4>1, <5>2, AfterSends DEF Stage
          <6>2. /\ cartridge_state' = cartridge_state + 1
                /\ cartridge_addr' = 256 * cartridge_addr + Shifted
                /\ cartridge' = cartridge /\ twi_addr' = twi_addr
            BY <2>5, <3>1, <4>1, <6>1 DEF ShiftClock
          <6> QED BY <2>7, <3>2, <3>3, <4>2, <5>2, <6>1, <6>2
                  DEF PtrAfter, MemAfter
        <5> QED BY <4>2, <5>1, <5>2
      <4>4. CartWrite' /\ Selected'
        BY <2>12, <4>1, <4>3 DEF CartWrite, AddressingCartridge, Selected
      <4>5. MemAfter' = MemAfter /\ PtrAfter' = PtrAfter
        BY DEF MemAfter, PtrAfter
      <4>6. ~(at \in {"ctl", "rctl"})
        BY <3>5 DEF Locating
      <4>7. Arrived'
        BY <2>6, <2>14, <4>3, <4>4, <4>5, <4>6 DEF Arrived
      <4> QED BY <2>14, <4>7 DEF Sending
    <3> QED BY <1>1, <3>4, <3>5
  <2> QED BY <1>5, <2>13, <2>14
<1>6. CASE n = 8
  <2>1. Arrived /\ sercr.sda = 1
    BY <1>2, <1>6 DEF Sending, BitOf
  <2>2. twi_status = FrameOf(at) - 8
    BY <2>1 DEF Arrived
  <2>3. WaitingForAck /\ (AddrSet <=> at \in Locating)
    BY <1>3, <1>4, <2>2 DEF WaitingForAck, AddrSet
  <2>4. AckClock(val) /\ attached' = attached
    BY <1>2, <2>3, AckStore
  <2>5. Shifted \in Byte /\ Shifted % 2 = 1
    <3>1. serir \in Byte
      BY <1>1 DEF TypeOK
    <3>2. Shifted = (2 * serir + 1) % 256
      BY <2>1 DEF Shifted
    <3> QED BY <3>1, <3>2 DEF Byte
  <2>6. SdaLow(Shifted) % 2 = 0
    <3>1. PICK x \in Byte : x = Shifted
      BY <2>5
    <3>2. (x - (x % 2)) % 2 = 0
      BY DEF Byte
    <3> QED BY <3>1, <3>2 DEF SdaLow
  <2>7. cartridge' = cartridge /\ twi_addr' = twi_addr /\ data' = data
    BY <2>4 DEF AckClock
  <2>8. MemAfter' = MemAfter /\ PtrAfter' = PtrAfter /\ (Answers' <=> Answers)
    BY <2>4 DEF MemAfter, PtrAfter, Answers
  <2>9. cartridge = MemAfter
    BY <2>1 DEF Arrived
  <2>10. CASE at \in Locating
    <3>1. Selected /\ CartWrite /\ cartridge_addr = PtrAfter
          /\ cartridge_state = Stage(AfterSend[at]) /\ AddrSet
      BY <2>1, <2>3, <2>10 DEF Arrived, Locating
    <3>2. twi_status' = 31
      BY <1>4, <2>2, <2>4, <2>10, <3>1 DEF AckClock
    <3>3. serir' % 2 = 0
      BY <2>4, <2>6, <3>1 DEF AckClock, Selected, CartWrite
    <3>4. UNCHANGED <<cartridge_state, cartridge_addr, cartridge_bits>>
      BY <2>4, <3>1 DEF AckClock
    <3>5. Selected' /\ CartWrite'
      BY <2>4, <2>7, <3>1, <3>4 DEF Selected, CartWrite, AddressingCartridge
    <3>6. PICK m : m = AfterSend[at]
      OBVIOUS
    <3>7. m \in {"lo", "data"}
      BY <2>10, <3>6, AfterSends DEF Locating
    <3>8. Agrees(m)'
      BY <3>1, <3>2, <3>4, <3>5, <3>6, <3>7 DEF Agrees, Locating
    <3>9. Agrees(AfterSend[at])'
      BY <3>6, <3>8 DEF Agrees
    <3>10. Answers
      BY <2>10 DEF Answers
    <3>11. Acknowledged'
      BY <2>7, <2>8, <2>9, <3>1, <3>3, <3>4, <3>9, <3>10 DEF Acknowledged
    <3> QED BY <1>6, <3>11 DEF Sending
  <2>11. CASE ~(at \in Locating)
    <3>1. at \in {"ctl", "rctl"} /\ twi_addr = call.byte /\ ~AddrSet /\ twi_status = 7
      BY <1>1, <1>3, <2>1, <2>2, <2>3, <2>11 DEF Arrived
    <3>2. Answers <=> (attached /\ AddressingCartridge)
      BY <2>11, <3>1 DEF Answers, AddressingCartridge
    <3>3. CASE ~Answers
      <4>1. serir' = Shifted /\ twi_status' = 15
        <5>1. ~(attached /\ AddressingCartridge)
          BY <3>2, <3>3
        <5> QED BY <2>4, <3>1, <5>1 DEF AckClock
      <4>2. serir' % 2 = 1 /\ Agrees("deaf")'
        BY <2>5, <4>1 DEF Agrees, Locating
      <4>3. Acknowledged'
        BY <2>7, <2>8, <2>9, <3>3, <4>2 DEF Acknowledged
      <4> QED BY <1>6, <4>3 DEF Sending
    <3>4. CASE Answers
      <4>1. attached /\ AddressingCartridge
        BY <3>2, <3>4
      <4>2. twi_status' = 31 /\ serir' = SdaLow(Shifted)
        BY <2>4, <3>1, <4>1 DEF AckClock
      <4>3. CASE at = "ctl"
        <5>1. CartWrite
          BY <1>1, <3>1, <4>1, <4>3 DEF CartWrite, CallFits
        <5>2. cartridge_state' = 1 /\ cartridge_addr' = (twi_addr \div 2) % 8
              /\ cartridge_bits' = 0
          BY <2>4, <3>1, <4>1, <5>1 DEF AckClock
        <5>3. Agrees("hi")' /\ cartridge_addr' = PtrAfter
          BY <2>4, <2>7, <3>1, <4>1, <4>2, <4>3, <5>1, <5>2
             DEF Agrees, Locating, Selected, CartWrite, AddressingCartridge, Stage, PtrAfter
        <5>4. AfterSend[at'] = "hi"
          BY <4>3, AfterSends
        <5>5. Agrees(AfterSend[at])'
          BY <5>3, <5>4 DEF Agrees
        <5>6. Acknowledged'
          BY <2>6, <2>7, <2>8, <2>9, <3>4, <4>2, <5>3, <5>5 DEF Acknowledged
        <5> QED BY <1>6, <5>6 DEF Sending
      <4>4. CASE at = "rctl"
        <5>1. ~CartWrite /\ CartRead /\ Selected /\ cartridge_addr = PtrAfter
          BY <1>1, <2>1, <3>1, <4>1, <4>4 DEF CartWrite, CartRead, CallFits, Arrived
        <5>2. UNCHANGED <<cartridge_state, cartridge_addr, cartridge_bits>>
          BY <2>4, <5>1 DEF AckClock
        <5>3. Agrees("send")'
          BY <2>4, <2>7, <4>2, <5>1, <5>2
             DEF Agrees, Locating, Selected, CartRead, AddressingCartridge
        <5>4. AfterSend[at'] = "send"
          BY <4>4, AfterSends
        <5>5. Agrees(AfterSend[at])'
          BY <5>3, <5>4 DEF Agrees
        <5>6. Acknowledged'
          BY <2>6, <2>7, <2>8, <2>9, <3>4, <4>2, <5>1, <5>2, <5>5 DEF Acknowledged
        <5> QED BY <1>6, <5>6 DEF Sending
      <4> QED BY <3>1, <4>3, <4>4
    <3> QED BY <3>3, <3>4
  <2> QED BY <2>10, <2>11
<1> QED BY <1>5, <1>6

LEMMA SendStep == ASSUME BusInv, Store, call.kind = "sendb" PROVE BusInv'
<1>1. SendPlace /\ pc \in 1..27 /\ call.byte \in Byte
      /\ at \in {"ctl", "rctl"} \cup Locating
  BY Places, StoreStep DEF SendPlace, BusInv, BusTypeOK, CallFits
<1>2. /\ Len(Stores(call)) = 27
      /\ Stores(call)[pc] = P(BitOf(call.byte, (pc - 1) \div 3), IF pc % 3 = 2 THEN 1 ELSE 0)
  BY <1>1, SendStores DEF Stores
<1>3. PICK n \in 0..9 : n = pc \div 3
  BY <1>1, Thirds
<1>4. Sending(n)
  BY <1>1, <1>3 DEF SendPlace
<1>5. CASE pc % 3 = 1
  <2>1. pc # 27 /\ (pc + 1) % 3 = 2 /\ (pc + 1) \div 3 = n /\ (pc - 1) \div 3 = n
    BY <1>1, <1>3, <1>5, Thirds
  <2>2. WriteSercr(P(BitOf(call.byte, n), 0))
    BY <1>2, <1>5, <2>1, StoreStep
  <2>3. pc' = pc + 1 /\ UNCHANGED <<at, call, was>>
    BY <1>2, <2>1, StoreStep
  <2>4. UNCHANGED <<cartVars, serir, twi_addr, twi_status, attached>>
        /\ sercr' = P(BitOf(call.byte, n), 0)
    BY <2>2, LowStore, PinFields
  <2>5. Sending(n)'
    BY <1>4, <2>3, <2>4, SendingKept
  <2>6. pc' \in 1..27 /\ pc' % 3 = 2 /\ pc' \div 3 = n
    BY <1>1, <2>1, <2>3
  <2>7. SendPlace'
    BY <2>3, <2>4, <2>5, <2>6 DEF SendPlace
  <2> QED BY <1>2, <2>1, <2>7, NextPlaces, StoreGoesOn
<1>6. CASE pc % 3 = 2
  <2>1. /\ pc # 27 /\ (pc + 1) % 3 = 0 /\ (pc + 1) \div 3 = n + 1
        /\ (pc - 1) \div 3 = n /\ n \in 0..8
    BY <1>1, <1>3, <1>6, Thirds
  <2>2. WriteSercr(P(BitOf(call.byte, n), 1))
    BY <1>2, <1>6, <2>1, StoreStep
  <2>3. pc' = pc + 1 /\ UNCHANGED <<at, call, was>> /\ pc > 0
    BY <1>2, <2>1, StoreStep
  <2>4. sercr' = P(BitOf(call.byte, n), 1)
    BY <2>2 DEF WriteSercr
  <2>5. sercr = P(BitOf(call.byte, n), 0)
    BY <1>1, <1>3, <1>6 DEF SendPlace
  <2>6. Sending(n + 1)'
    BY <1>4, <2>1, <2>2, <2>3, <2>5, SendClock, PinFields
  <2>7. PICK m \in 0..9 : m = n + 1
    BY <2>1
  <2>8. Sending(m)'
    BY <2>6, <2>7
  <2>9. pc' \in 1..27 /\ pc' % 3 = 0
    BY <1>1, <2>1, <2>3
  <2>12. pc' \div 3 = m
    BY <2>1, <2>3, <2>7
  <2>10. sercr'.scl = 1
    BY <2>4, PinFields
  <2>11. SendPlace'
    <3>1. \A k \in 0..9 : pc' \div 3 = k => Sending(k)'
      BY <2>8, <2>12
    <3>2. PICK q \in 1..27 : q = pc'
      BY <2>9
    <3>3. q % 3 = 0
      BY <2>9, <3>2
    <3>4. q % 3 # 1 /\ q % 3 # 2
      BY <3>3
    <3>5. pc' \in 1..27 /\ pc' % 3 # 1 /\ pc' % 3 # 2
      BY <3>2, <3>4
    <3> QED BY <2>10, <3>1, <3>5 DEF SendPlace
  <2> QED BY <1>2, <2>1, <2>11, NextPlaces, StoreGoesOn
<1>7. CASE pc % 3 = 0
  <2>1. (pc + 1) % 3 = 1 /\ (pc + 1) \div 3 = n
    BY <1>1, <1>3, <1>7, Thirds
  <2>2. PICK d : d = BitOf(call.byte, (pc - 1) \div 3)
    OBVIOUS
  <2>3. WriteSercr(P(d, 0))
    BY <1>2, <1>7, <2>2, StoreStep
  <2>4. UNCHANGED <<cartVars, serir, twi_addr, twi_status, attached>> /\ sercr' = P(d, 0)
    BY <2>3, LowStore, PinFields
  <2>5. CASE pc # 27
    <3>1. pc' = pc + 1 /\ UNCHANGED <<at, call, was>>
      BY <1>2, <2>5, StoreStep
    <3>2. Sending(n)'
      BY <1>4, <2>4, <3>1, SendingKept
    <3>3. pc' \in 1..27 /\ pc' % 3 = 1 /\ pc' \div 3 = n
      BY <1>1, <2>1, <2>5, <3>1
    <3>4. SendPlace'
      BY <2>4, <3>1, <3>2, <3>3, PinFields DEF SendPlace
    <3> QED BY <1>2, <2>5, <3>4, NextPlaces, StoreGoesOn
  <2>6. CASE pc = 27
    <3>1. Return /\ Acknowledged
      BY <1>2, <1>3, <1>4, <2>6, StoreStep, Thirds DEF Sending
    <3>2. serir' = serir
      BY <2>4
    <3>3. CASE Answers
      <4>1. serir % 2 = 0 /\ Agrees(AfterSend[at])
        BY <3>1, <3>3 DEF Acknowledged
      <4>2. at' = AfterSend[at]
        BY <3>1, <3>2, <4>1 DEF Return
      <4>3. PICK m : m = AfterSend[at]
        OBVIOUS
      <4>4. Agrees(m)' /\ at' = m
        BY <2>4, <4>1, <4>2, <4>3, AgreesKept DEF cartVars
      <4>5. m # "idle"
        BY <1>1, <4>3, AfterSends DEF Locating
      <4>6. Between(at)'
        BY <2>4, <4>4, <4>5, PinFields DEF Between, Agrees
      <4> QED BY <1>2, <2>6, <4>6, StoreReturns
    <3>4. CASE ~Answers
      <4>1. serir % 2 = 1 /\ Agrees("deaf")
        BY <3>1, <3>4 DEF Acknowledged
      <4>2. at' = "deaf"
        BY <3>1, <3>2, <4>1 DEF Return
      <4>3. Agrees("deaf")'
        BY <2>4, <4>1, AgreesKept DEF cartVars
      <4>4. Between(at)'
        BY <2>4, <4>2, <4>3, PinFields DEF Between
      <4> QED BY <1>2, <2>6, <4>4, StoreReturns
    <3> QED BY <3>3, <3>4
  <2> QED BY <2>5, <2>6
<1> QED BY <1>1, <1>5, <1>6, <1>7, Thirds

(* The bit that the cartridge puts on the line, and what is left of the    *)
(* byte after it.                                                          *)
LEMMA BitOut ==
  ASSUME NEW b \in Byte, NEW n \in 0..7,
         NEW x, x = Left(b, n),
         NEW y, y = (2 * x) % 256,
         NEW d, d = BitOf(b, n)
  PROVE  /\ x \in Byte
         /\ x < 128 <=> d = 0
         /\ y = Left(b, n + 1)
<1>1. CASE n = 0
  <2>1. PICK q \in 0..1 : q = b \div 128
    BY DEF Byte
  <2>2. PICK r \in 0..127 : r = b - 128 * q
    BY <2>1 DEF Byte
  <2>3. PICK h \in 0..1 : h = q \div 2
    BY <2>1
  <2>4. d = q % 2
    BY <1>1, <2>1 DEF BitOf
  <2>5. d = q - 2 * h /\ d \in 0..1
    <3>1. d = q - 2 * h
      BY <2>3, <2>4
    <3>2. d \in 0..1
      BY <2>4
    <3> QED BY <3>1, <3>2
  <2>6. x = (1 * b) % 256
    BY <1>1 DEF Left
  <2>7. 1 * b = 256 * h + (128 * d + 1 * r)
    BY <2>2, <2>5 DEF Byte
  <2>8. 128 * d + 1 * r \in 0..255
    BY <2>2, <2>5
  <2>9. x = 128 * d + 1 * r
    BY <2>3, <2>6, <2>7, <2>8
  <2>10. x < 128 <=> d = 0
    <3>1. 1 * r \in 0..127
      BY <2>2
    <3> QED BY <2>5, <2>9, <3>1
  <2>11. 2 * b = 512 * h + 2 * x
    BY <2>2, <2>3, <2>5, <2>7, <2>9 DEF Byte
  <2>12. (512 * h + 2 * x) % 256 = (2 * x) % 256
    BY <2>3, <2>8, <2>9
  <2>13. y = (2 * b) % 256
    BY <2>11, <2>12
  <2>14. 2 ^ (n + 1) = 2
    BY <1>1
  <2> QED BY <2>8, <2>9, <2>10, <2>13, <2>14 DEF Byte, Left
<1>2. CASE n = 1
  <2>1. PICK q \in 0..3 : q = b \div 64
    BY DEF Byte
  <2>2. PICK r \in 0..63 : r = b - 64 * q
    BY <2>1 DEF Byte
  <2>3. PICK h \in 0..2 : h = q \div 2
    BY <2>1
  <2>4. d = q % 2
    BY <1>2, <2>1 DEF BitOf
  <2>5. d = q - 2 * h /\ d \in 0..1
    <3>1. d = q - 2 * h
      BY <2>3, <2>4
    <3>2. d \in 0..1
      BY <2>4
    <3> QED BY <3>1, <3>2
  <2>6. x = (2 * b) % 256
    BY <1>2 DEF Left
  <2>7. 2 * b = 256 * h + (128 * d + 2 * r)
    BY <2>2, <2>5 DEF Byte
  <2>8. 128 * d + 2 * r \in 0..255
    BY <2>2, <2>5
  <2>9. x = 128 * d + 2 * r
    BY <2>3, <2>6, <2>7, <2>8
  <2>10. x < 128 <=> d = 0
    <3>1. 2 * r \in 0..127
      BY <2>2
    <3> QED BY <2>5, <2>9, <3>1
  <2>11. 4 * b = 512 * h + 2 * x
    BY <2>2, <2>3, <2>5, <2>7, <2>9 DEF Byte
  <2>12. (512 * h + 2 * x) % 256 = (2 * x) % 256
    BY <2>3, <2>8, <2>9
  <2>13. y = (4 * b) % 256
    BY <2>11, <2>12
  <2>14. 2 ^ (n + 1) = 4
    BY <1>2
  <2> QED BY <2>8, <2>9, <2>10, <2>13, <2>14 DEF Byte, Left
<1>3. CASE n = 2
  <2>1. PICK q \in 0..7 : q = b \div 32
    BY DEF Byte
  <2>2. PICK r \in 0..31 : r = b - 32 * q
    BY <2>1 DEF Byte
  <2>3. PICK h \in 0..4 : h = q \div 2
    BY <2>1
  <2>4. d = q % 2
    BY <1>3, <2>1 DEF BitOf
  <2>5. d = q - 2 * h /\ d \in 0..1
    <3>1. d = q - 2 * h
      BY <2>3, <2>4
    <3>2. d \in 0..1
      BY <2>4
    <3> QED BY <3>1, <3>2
  <2>6. x = (4 * b) % 256
    BY <1>3 DEF Left
  <2>7. 4 * b = 256 * h + (128 * d + 4 * r)
    BY <2>2, <2>5 DEF Byte
  <2>8. 128 * d + 4 * r \in 0..255
    BY <2>2, <2>5
  <2>9. x = 128 * d + 4 * r
    BY <2>3, <2>6, <2>7, <2>8
  <2>10. x < 128 <=> d = 0
    <3>1. 4 * r \in 0..127
      BY <2>2
    <3> QED BY <2>5, <2>9, <3>1
  <2>11. 8 * b = 512 * h + 2 * x
    BY <2>2, <2>3, <2>5, <2>7, <2>9 DEF Byte
  <2>12. (512 * h + 2 * x) % 256 = (2 * x) % 256
    BY <2>3, <2>8, <2>9
  <2>13. y = (8 * b) % 256
    BY <2>11, <2>12
  <2>14. 2 ^ (n + 1) = 8
    BY <1>3
  <2> QED BY <2>8, <2>9, <2>10, <2>13, <2>14 DEF Byte, Left
<1>4. CASE n = 3
  <2>1. PICK q \in 0..15 : q = b \div 16
    BY DEF Byte
  <2>2. PICK r \in 0..15 : r = b - 16 * q
    BY <2>1 DEF Byte
  <2>3. PICK h \in 0..8 : h = q \div 2
    BY <2>1
  <2>4. d = q % 2
    BY <1>4, <2>1 DEF BitOf
  <2>5. d = q - 2 * h /\ d \in 0..1
    <3>1. d = q - 2 * h
      BY <2>3, <2>4
    <3>2. d \in 0..1
      BY <2>4
    <3> QED BY <3>1, <3>2
  <2>6. x = (8 * b) % 256
    BY <1>4 DEF Left
  <2>7. 8 * b = 256 * h + (128 * d + 8 * r)
    BY <2>2, <2>5 DEF Byte
  <2>8. 128 * d + 8 * r \in 0..255
    BY <2>2, <2>5
  <2>9. x = 128 * d + 8 * r
    BY <2>3, <2>6, <2>7, <2>8
  <2>10. x < 128 <=> d = 0
    <3>1. 8 * r \in 0..127
      BY <2>2
    <3> QED BY <2>5, <2>9, <3>1
  <2>11. 16 * b = 512 * h + 2 * x
    BY <2>2, <2>3, <2>5, <2>7, <2>9 DEF Byte
  <2>12. (512 * h + 2 * x) % 256 = (2 * x) % 256
    BY <2>3, <2>8, <2>9
  <2>13. y = (16 * b) % 256
    BY <2>11, <2>12
  <2>14. 2 ^ (n + 1) = 16
    BY <1>4
  <2> QED BY <2>8, <2>9, <2>10, <2>13, <2>14 DEF Byte, Left
<1>5. CASE n = 4
  <2>1. PICK q \in 0..31 : q = b \div 8
    BY DEF Byte
  <2>2. PICK r \in 0..7 : r = b - 8 * q
    BY <2>1 DEF Byte
  <2>3. PICK h \in 0..16 : h = q \div 2
    BY <2>1
  <2>4. d = q % 2
    BY <1>5, <2>1 DEF BitOf
  <2>5. d = q - 2 * h /\ d \in 0..1
    <3>1. d = q - 2 * h
      BY <2>3, <2>4
    <3>2. d \in 0..1
      BY <2>4
    <3> QED BY <3>1, <3>2
  <2>6. x = (16 * b) % 256
    BY <1>5 DEF Left
  <2>7. 16 * b = 256 * h + (128 * d + 16 * r)
    BY <2>2, <2>5 DEF Byte
  <2>8. 128 * d + 16 * r \in 0..255
    BY <2>2, <2>5
  <2>9. x = 128 * d + 16 * r
    BY <2>3, <2>6, <2>7, <2>8
  <2>10. x < 128 <=> d = 0
    <3>1. 16 * r \in 0..127
      BY <2>2
    <3> QED BY <2>5, <2>9, <3>1
  <2>11. 32 * b = 512 * h + 2 * x
    BY <2>2, <2>3, <2>5, <2>7, <2>9 DEF Byte
  <2>12. (512 * h + 2 * x) % 256 = (2 * x) % 256
    BY <2>3, <2>8, <2>9
  <2>13. y = (32 * b) % 256
    BY <2>11, <2>12
  <2>14. 2 ^ (n + 1) = 32
    BY <1>5
  <2> QED BY <2>8, <2>9, <2>10, <2>13, <2>14 DEF Byte, Left
<1>6. CASE n = 5
  <2>1. PICK q \in 0..63 : q = b \div 4
    BY DEF Byte
  <2>2. PICK r \in 0..3 : r = b - 4 * q
    BY <2>1 DEF Byte
  <2>3. PICK h \in 0..32 : h = q \div 2
    BY <2>1
  <2>4. d = q % 2
    BY <1>6, <2>1 DEF BitOf
  <2>5. d = q - 2 * h /\ d \in 0..1
    <3>1. d = q - 2 * h
      BY <2>3, <2>4
    <3>2. d \in 0..1
      BY <2>4
    <3> QED BY <3>1, <3>2
  <2>6. x = (32 * b) % 256
    BY <1>6 DEF Left
  <2>7. 32 * b = 256 * h + (128 * d + 32 * r)
    BY <2>2, <2>5 DEF Byte
  <2>8. 128 * d + 32 * r \in 0..255
    BY <2>2, <2>5
  <2>9. x = 128 * d + 32 * r
    BY <2>3, <2>6, <2>7, <2>8
  <2>10. x < 128 <=> d = 0
    <3>1. 32 * r \in 0..127
      BY <2>2
    <3> QED BY <2>5, <2>9, <3>1
  <2>11. 64 * b = 512 * h + 2 * x
    BY <2>2, <2>3, <2>5, <2>7, <2>9 DEF Byte
  <2>12. (512 * h + 2 * x) % 256 = (2 * x) % 256
    BY <2>3, <2>8, <2>9
  <2>13. y = (64 * b) % 256
    BY <2>11, <2>12
  <2>14. 2 ^ (n + 1) = 64
    BY <1>6
  <2> QED BY <2>8, <2>9, <2>10, <2>13, <2>14 DEF Byte, Left
<1>7. CASE n = 6
  <2>1. PICK q \in 0..127 : q = b \div 2
    BY DEF Byte
  <2>2. PICK r \in 0..1 : r = b - 2 * q
    BY <2>1 DEF Byte
  <2>3. PICK h \in 0..64 : h = q \div 2
    BY <2>1
  <2>4. d = q % 2
    BY <1>7, <2>1 DEF BitOf
  <2>5. d = q - 2 * h /\ d \in 0..1
    <3>1. d = q - 2 * h
      BY <2>3, <2>4
    <3>2. d \in 0..1
      BY <2>4
    <3> QED BY <3>1, <3>2
  <2>6. x = (64 * b) % 256
    BY <1>7 DEF Left
  <2>7. 64 * b = 256 * h + (128 * d + 64 * r)
    BY <2>2, <2>5 DEF Byte
  <2>8. 128 * d + 64 * r \in 0..255
    BY <2>2, <2>5
  <2>9. x = 128 * d + 64 * r
    BY <2>3, <2>6, <2>7, <2>8
  <2>10. x < 128 <=> d = 0
    <3>1. 64 * r \in 0..127
      BY <2>2
    <3> QED BY <2>5, <2>9, <3>1
  <2>11. 128 * b = 512 * h + 2 * x
    BY <2>2, <2>3, <2>5, <2>7, <2>9 DEF Byte
  <2>12. (512 * h + 2 * x) % 256 = (2 * x) % 256
    BY <2>3, <2>8, <2>9
  <2>13. y = (128 * b) % 256
    BY <2>11, <2>12
  <2>14. 2 ^ (n + 1) = 128
    BY <1>7
  <2> QED BY <2>8, <2>9, <2>10, <2>13, <2>14 DEF Byte, Left
<1>8. CASE n = 7
  <2>1. PICK q \in 0..255 : q = b \div 1
    BY DEF Byte
  <2>2. PICK r \in 0..0 : r = b - 1 * q
    BY <2>1 DEF Byte
  <2>3. PICK h \in 0..128 : h = q \div 2
    BY <2>1
  <2>4. d = q % 2
    BY <1>8, <2>1 DEF BitOf
  <2>5. d = q - 2 * h /\ d \in 0..1
    <3>1. d = q - 2 * h
      BY <2>3, <2>4
    <3>2. d \in 0..1
      BY <2>4
    <3> QED BY <3>1, <3>2
  <2>6. x = (128 * b) % 256
    BY <1>8 DEF Left
  <2>7. 128 * b = 256 * h + (128 * d + 128 * r)
    BY <2>2, <2>5 DEF Byte
  <2>8. 128 * d + 128 * r \in 0..255
    BY <2>2, <2>5
  <2>9. x = 128 * d + 128 * r
    BY <2>3, <2>6, <2>7, <2>8
  <2>10. x < 128 <=> d = 0
    <3>1. 128 * r \in 0..127
      BY <2>2
    <3> QED BY <2>5, <2>9, <3>1
  <2>11. 256 * b = 512 * h + 2 * x
    BY <2>2, <2>3, <2>5, <2>7, <2>9 DEF Byte
  <2>12. (512 * h + 2 * x) % 256 = (2 * x) % 256
    BY <2>3, <2>8, <2>9
  <2>13. y = (256 * b) % 256
    BY <2>11, <2>12
  <2>14. 2 ^ (n + 1) = 256
    BY <1>8
  <2> QED BY <2>8, <2>9, <2>10, <2>13, <2>14 DEF Byte, Left
<1> QED BY <1>1, <1>2, <1>3, <1>4, <1>5, <1>6, <1>7, <1>8

LEMMA LineDown ==
  ASSUME NEW s \in Byte, NEW x, x = (2 * s + 1) % 256, NEW y, y = (2 * s) % 256
  PROVE  SdaLow(x) = y
<1>1. PICK h \in 0..1 : h = s \div 128
  BY DEF Byte
<1>2. x = 2 * s + 1 - 256 * h /\ y = 2 * s - 256 * h
  BY <1>1 DEF Byte
<1>3. x % 2 = 1
  BY <1>1, <1>2 DEF Byte
<1> QED BY <1>1, <1>2, <1>3 DEF SdaLow, Byte

LEMMA GettingKept ==
  ASSUME NEW n \in 0..8, Getting(n),
         UNCHANGED <<cartVars, serir, twi_addr, twi_status, attached, was>>
  PROVE  Getting(n)'
BY DEF Getting, Reading, BitsIn, CartRead, AddressingCartridge, cartVars

(* A clock of twigetb takes one bit out of the byte.                       *)
LEMMA GetClock ==
  ASSUME BusInv, NEW n \in 0..7, Getting(n), sercr = P(1, 0),
         NEW val, WriteSercr(val), val.scl = 1, was' = was
  PROVE  Getting(n + 1)'
<1>1. TypeOK /\ was.mem \in [0..(CartSize - 1) -> Byte] /\ was.ptr \in Nat
  BY DEF BusInv, SlaveInv, BusTypeOK
<1>2. sercr.scl = 0 /\ sercr.sda = 1
  BY PinFields
<1>3. /\ twi_status = 31 - n /\ attached /\ CartRead /\ cartridge = was.mem
      /\ cartridge_bits = (IF n = 0 THEN 0 ELSE 8 - n)
      /\ cartridge_addr = (IF n = 0 THEN was.ptr ELSE was.ptr + 1)
      /\ BitsIn(serir, Reading, n)
  BY DEF Getting
<1>4. ~WaitingForAck /\ AddrSet
  BY <1>3 DEF WaitingForAck, AddrSet
<1>5. ReadClock(val) /\ attached' = attached
  BY <1>2, <1>3, <1>4, ReadStore
<1>6. Reading \in Byte
  <2>1. PICK k \in 0..(CartSize - 1) : k = was.ptr % CartSize
    BY <1>1, CartSizeAssumption
  <2> QED BY <1>1, <2>1 DEF Reading
<1>7. PICK b \in Byte : b = Reading
  BY <1>6
<1>8. PICK x : x = (IF cartridge_bits = 0 THEN cartridge[Here] ELSE data)
  OBVIOUS
<1>9. x = Left(b, n)
  <2>1. CASE n = 0
    <3>1. x = Reading
      BY <1>3, <1>8, <2>1 DEF Here, Reading
    <3>2. Left(b, n) = b
      <4>1. 2 ^ n = 1
        BY <2>1
      <4>2. (1 * b) % 256 = b
        BY DEF Byte
      <4> QED BY <4>1, <4>2 DEF Left
    <3> QED BY <1>7, <3>1, <3>2
  <2>2. CASE n # 0
    <3>1. cartridge_bits # 0 /\ n > 0
      BY <1>3, <2>2
    <3> QED BY <1>7, <1>8, <3>1 DEF Getting
  <2> QED BY <2>1, <2>2
<1>10. PICK y : y = (2 * x) % 256
  OBVIOUS
<1>11. PICK d : d = BitOf(b, n)
  OBVIOUS
<1>12. x \in Byte /\ (x < 128 <=> d = 0) /\ y = Left(b, n + 1)
  BY <1>9, <1>10, <1>11, BitOut
<1>13. data' = y
  BY <1>5, <1>8, <1>10 DEF ReadClock
<1>14. PICK s \in Byte : s = serir
  BY <1>1 DEF TypeOK
<1>15. PICK z : z = (2 * s + d) % 256
  OBVIOUS
<1>16. serir' = z
  <2>1. d \in 0..1
    BY <1>11, BitBinary
  <2>2. Shifted = (2 * s + 1) % 256
    BY <1>2, <1>14 DEF Shifted
  <2>3. serir' = IF x < 128 THEN SdaLow(Shifted) ELSE Shifted
    BY <1>5, <1>8 DEF ReadClock
  <2>4. CASE d = 0
    <3>1. z = (2 * s) % 256
      <4>1. 2 * s + d = 2 * s
        BY <1>14, <2>4 DEF Byte
      <4> QED BY <1>15, <4>1
    <3> QED BY <1>12, <2>2, <2>3, <2>4, <3>1, LineDown
  <2>5. CASE d = 1
    BY <1>12, <1>15, <2>2, <2>3, <2>5
  <2> QED BY <2>1, <2>4, <2>5
<1>17. BitsIn(z, b, n + 1)
  BY <1>3, <1>7, <1>11, <1>14, <1>15, BitIn
<1>18. twi_status' = 31 - (n + 1)
  BY <1>3, <1>5 DEF ReadClock, Dec
<1>19. cartridge_bits' = 8 - (n + 1) /\ cartridge_addr' = was.ptr + 1
  <2>1. CASE n = 0
    BY <1>3, <1>5, <2>1 DEF ReadClock
  <2>2. CASE n # 0
    <3>1. cartridge_bits = 8 - n /\ cartridge_bits # 0 /\ cartridge_addr = was.ptr + 1
      BY <1>3, <2>2
    <3> QED BY <1>5, <3>1 DEF ReadClock
  <2> QED BY <2>1, <2>2
<1>20. cartridge' = cartridge /\ CartRead' = CartRead /\ Reading' = Reading
  BY <1>5 DEF ReadClock, CartRead, AddressingCartridge, Reading
<1>21. n + 1 # 0
  OBVIOUS
<1> QED BY <1>3, <1>5, <1>7, <1>12, <1>13, <1>16, <1>17, <1>18, <1>19, <1>20, <1>21 DEF Getting

LEMMA Halves ==
  ASSUME NEW p \in 1..17
  PROVE  /\ (p - 1) \div 2 \in 0..8
         /\ p % 2 = 1 => /\ p < 17 => (p + 1) % 2 = 0 /\ ((p + 1) - 1) \div 2 = (p - 1) \div 2
                         /\ p = 17 => (p - 1) \div 2 = 8
         /\ p % 2 = 0 => /\ p < 17 /\ (p + 1) % 2 = 1 /\ p + 1 # 1
                         /\ ((p + 1) - 1) \div 2 = (p - 1) \div 2 + 1
                         /\ (p - 1) \div 2 \in 0..7
         /\ p % 2 \in {0, 1}
  OBVIOUS

LEMMA GetStep == ASSUME BusInv, Store, call.kind = "getb" PROVE BusInv'
<1>1. GetPlace /\ pc \in 1..17 /\ at = "send"
  BY Places, StoreStep DEF GetPlace, BusInv, CallFits
<1>2. /\ Len(Stores(call)) = 17
      /\ Stores(call)[pc] = P(1, IF pc % 2 = 0 THEN 1 ELSE 0)
  BY <1>1, GetStores DEF Stores
<1>3. PICK n \in 0..8 : n = (pc - 1) \div 2
  BY <1>1, Halves
<1>4. Getting(n)
  BY <1>1, <1>3 DEF GetPlace
<1>5. CASE pc % 2 = 1
  <2>1. WriteSercr(P(1, 0))
    BY <1>2, <1>5, StoreStep
  <2>2. UNCHANGED <<cartVars, serir, twi_addr, twi_status, attached>> /\ sercr' = P(1, 0)
    BY <2>1, LowStore, PinFields
  <2>3. Getting(n)'
    BY <1>4, <2>2, StoreStep, GettingKept
  <2>4. CASE pc # 17
    <3>1. pc' = pc + 1 /\ UNCHANGED <<at, call, was>>
      BY <1>2, <2>4, StoreStep
    <3>2. pc' \in 1..17
      BY <1>1, <2>4, <3>1
    <3>3. pc' % 2 = 0
      BY <1>1, <1>5, <2>4, <3>1, Halves
    <3>4. (pc' - 1) \div 2 = n
      BY <1>1, <1>3, <1>5, <2>4, <3>1, Halves
    <3>5. \A k \in 0..8 : (pc' - 1) \div 2 = k => Getting(k)'
      BY <2>3, <3>4
    <3>6. sercr'.scl = 0 /\ sercr'.sda = 1
      BY <2>2, PinFields
    <3>7. GetPlace'
      BY <3>2, <3>3, <3>5, <3>6 DEF GetPlace
    <3> QED BY <1>1, <1>2, <2>4, <3>7, NextPlaces, StoreGoesOn
  <2>5. CASE pc = 17
    <3>1. Return /\ n = 8
      BY <1>1, <1>2, <1>3, <1>5, <2>5, StoreStep, Halves
    <3>2. at' = "sent"
      BY <3>1 DEF Return
    <3>3. Agrees("sent")'
      BY <2>3, <3>1 DEF Getting, Agrees, Selected, Locating
    <3>4. Between(at)'
      BY <2>2, <3>2, <3>3, PinFields DEF Between
    <3> QED BY <1>2, <2>5, <3>4, StoreReturns
  <2> QED BY <2>4, <2>5
<1>6. CASE pc % 2 = 0
  <2>1. WriteSercr(P(1, 1)) /\ pc # 17
    BY <1>1, <1>2, <1>6, StoreStep, Halves
  <2>2. pc' = pc + 1 /\ UNCHANGED <<at, call, was>>
    BY <1>2, <2>1, StoreStep
  <2>3. sercr = P(1, 0)
    <3>1. sercr.scl = 0 /\ sercr.sda = 1 /\ sercr \in Pins
      BY <1>1, <1>6 DEF GetPlace, BusInv, SlaveInv, TypeOK
    <3> QED BY <3>1 DEF Pins, P
  <2>4. n \in 0..7
    BY <1>1, <1>3, <1>6, Halves
  <2>5. Getting(n + 1)'
    BY <1>4, <2>1, <2>2, <2>3, <2>4, GetClock, PinFields
  <2>6. sercr'.scl = 1
    BY <2>1, PinFields DEF WriteSercr
  <2>7. PICK q \in 1..17 : q = pc'
    BY <1>1, <2>1, <2>2
  <2>8. q % 2 = 1 /\ q # 1
    BY <1>1, <1>6, <2>2, <2>7, Halves
  <2>9. q % 2 # 0 /\ q # 1
    BY <2>8
  <2>10. PICK m \in 0..8 : m = n + 1
    BY <2>4
  <2>11. (q - 1) \div 2 = m
    BY <1>1, <1>3, <1>6, <2>2, <2>7, <2>10, Halves
  <2>12. \A k \in 0..8 : (pc' - 1) \div 2 = k => Getting(k)'
    BY <2>5, <2>7, <2>10, <2>11
  <2>13. GetPlace'
    BY <2>6, <2>7, <2>9, <2>12 DEF GetPlace
  <2> QED BY <1>1, <1>2, <2>1, <2>13, NextPlaces, StoreGoesOn
<1> QED BY <1>1, <1>5, <1>6, Halves

LEMMA InitBusInv == ASSUME BusInit PROVE BusInv
<1>1. SlaveInv
  BY InitSlaveInv DEF BusInit
<1>2. BusTypeOK
  BY <1>1 DEF BusInit, BusTypeOK, Kinds, Byte, Modes, SlaveInv, TypeOK
<1>3. CallFits /\ (~Located => was.ptr = 0)
  BY DEF BusInit, CallFits
<1>4. BootPlace
  BY DEF BusInit, Init, BootPlace, Kept, Pointer, Located
<1>5. pc # 0 /\ call.kind = "boot"
  BY DEF BusInit
<1> QED BY <1>1, <1>2, <1>3, <1>4, <1>5 DEF BusInv, Place

(* A routine is entered with the slave where the program believes it is.   *)
LEMMA BeginStep ==
  ASSUME BusInv, NEW kind \in Kinds, NEW b \in Byte, Begin(kind, b), CallFits', Place'
  PROVE  BusInv'
<1>1. /\ pc = 0 /\ pc' = 1 /\ call' = [kind |-> kind, byte |-> b]
      /\ was' = [mem |-> cartridge, ptr |-> Pointer]
      /\ UNCHANGED <<slaveVars, at, reply>>
  BY DEF Begin
<1>2. SlaveInv'
  BY <1>1, StutterSlaveInv DEF BusInv
<1>3. Pointer \in Nat /\ cartridge \in [0..(CartSize - 1) -> Byte]
  BY DEF BusInv, SlaveInv, TypeOK, Pointer
<1>4. BusTypeOK'
  BY <1>1, <1>3 DEF BusInv, BusTypeOK
<1>5. (~Located => was.ptr = 0)'
  BY <1>1 DEF Pointer, Located
<1> QED BY <1>1, <1>2, <1>4, <1>5 DEF BusInv

LEMMA BeginFacts ==
  ASSUME BusInv, NEW kind \in Kinds, NEW b \in Byte, Begin(kind, b)
  PROVE  /\ pc' = 1 /\ call'.kind = kind /\ call'.byte = b /\ at' = at /\ at \in Modes
         /\ UNCHANGED <<twi_status, sercr, cartVars, attached, serir, twi_addr>>
         /\ Between(at) /\ Between(at)' /\ Kept'
         /\ sercr \in Pins /\ serir \in Byte /\ was'.mem = cartridge /\ was'.ptr = Pointer
<1>1. /\ pc = 0 /\ pc' = 1 /\ call' = [kind |-> kind, byte |-> b]
      /\ was' = [mem |-> cartridge, ptr |-> Pointer]
      /\ UNCHANGED <<slaveVars, at, reply>>
  BY DEF Begin
<1>2. UNCHANGED <<twi_status, sercr, cartVars, attached, serir, twi_addr>>
  BY <1>1 DEF slaveVars
<1>3. Between(at)
  BY <1>1 DEF BusInv
<1>4. Kept'
  BY <1>1, <1>2 DEF Kept, Pointer, Located, cartVars
<1>5. PICK m : m = at
  OBVIOUS
<1>6. Between(m)'
  BY <1>2, <1>3, <1>5, AgreesKept DEF Between, cartVars
<1>7. Between(at)'
  BY <1>1, <1>5, <1>6 DEF Between, Agrees
<1>8. at \in Modes /\ sercr \in Pins /\ serir \in Byte
  BY DEF BusInv, BusTypeOK, SlaveInv, TypeOK
<1> QED BY <1>1, <1>2, <1>3, <1>4, <1>7, <1>8

LEMMA CallsStep ==
  ASSUME BusInv,
         CallStart \/ CallResta \/ CallStop \/ CallSendCtl \/ CallSendAddr
           \/ CallSendData \/ CallGet \/ CallAck
  PROVE  BusInv'
<1>1. 0 \in Byte
  BY DEF Byte
<1>2. CASE CallStart
  <2>1. at = "idle" /\ Begin("start", 0) /\ "start" \in Kinds
    BY <1>2 DEF CallStart, Kinds
  <2>2. CallFits' /\ StartPlace'
    BY <1>1, <2>1, BeginFacts DEF CallFits, StartPlace, Between, Agrees, Locating
  <2>3. Place'
    BY <1>1, <2>1, <2>2, BeginFacts DEF Place
  <2> QED BY <1>1, <2>1, <2>2, <2>3, BeginStep
<1>3. CASE CallResta
  <2>1. at = "data" /\ Begin("resta", 0) /\ "resta" \in Kinds
    BY <1>3 DEF CallResta, Kinds
  <2>2. CallFits' /\ RestaPlace'
    BY <1>1, <2>1, BeginFacts DEF CallFits, RestaPlace, Between, Agrees, Locating
  <2>3. Place'
    BY <1>1, <2>1, <2>2, BeginFacts DEF Place
  <2> QED BY <1>1, <2>1, <2>2, <2>3, BeginStep
<1>4. CASE CallStop
  <2>1. Begin("stop", 0) /\ "stop" \in Kinds
    BY <1>4 DEF CallStop, Kinds
  <2>2. CallFits' /\ StopPlace'
    BY <1>1, <2>1, BeginFacts DEF CallFits, StopPlace, cartVars
  <2>3. Place'
    BY <1>1, <2>1, <2>2, BeginFacts DEF Place
  <2> QED BY <1>1, <2>1, <2>2, <2>3, BeginStep
<1>5. CASE CallGet
  <2>1. at = "send" /\ Begin("getb", 0) /\ "getb" \in Kinds
    BY <1>5 DEF CallGet, Kinds
  <2>2. Agrees("send")' /\ sercr'.scl = 0 /\ pc' = 1 /\ serir' \in Byte /\ at' = "send"
    BY <1>1, <2>1, BeginFacts DEF Between, Agrees, Locating
  <2>3. Getting(0)'
    <3>1. cartridge' = was'.mem /\ was'.ptr = cartridge_addr'
      BY <1>1, <2>1, BeginFacts DEF Kept, Pointer, Located
    <3>2. was'.mem \in [0..(CartSize - 1) -> Byte] /\ was'.ptr \in Nat
      BY <1>1, <2>1, BeginFacts DEF BusInv, SlaveInv, TypeOK, Pointer
    <3>3. Reading' \in Byte
      <4>1. PICK k \in 0..(CartSize - 1) : k = was'.ptr % CartSize
        BY <3>2, CartSizeAssumption
      <4> QED BY <3>2, <4>1 DEF Reading
    <3>4. PICK r \in Byte : r = Reading'
      BY <3>3
    <3>5. PICK s \in Byte : s = serir'
      BY <2>2
    <3>6. BitsIn(s, r, 0)
      <4>1. s % 1 = 0 /\ r \div 256 = 0
        BY DEF Byte
      <4> QED BY <4>1 DEF BitsIn
    <3>7. BitsIn(serir, Reading, 0)'
      BY <3>4, <3>5, <3>6 DEF BitsIn
    <3> QED BY <2>2, <3>1, <3>7 DEF Getting, Agrees, Selected
  <2>4. GetPlace'
    <3>1. (1 - 1) \div 2 = 0 /\ 1 % 2 = 1
      OBVIOUS
    <3> QED BY <2>2, <2>3, <3>1 DEF GetPlace
  <2>5. CallFits'
    BY <1>1, <2>1, BeginFacts DEF CallFits
  <2>6. Place'
    BY <1>1, <2>1, <2>4, BeginFacts DEF Place
  <2> QED BY <1>1, <2>1, <2>5, <2>6, BeginStep
<1>6. CASE CallAck
  <2>1. PICK kind \in {"ack", "nak"} : at = "sent" /\ Begin(kind, 0)
    BY <1>6 DEF CallAck
  <2>2. kind \in Kinds /\ kind \in {"ack", "nak"}
    BY <2>1 DEF Kinds
  <2>3. CallFits'
    BY <1>1, <2>1, <2>2, BeginFacts DEF CallFits
  <2>4. AckPlace'
    BY <1>1, <2>1, <2>2, BeginFacts DEF AckPlace, Between, Agrees, Locating
  <2>5. Place'
    BY <1>1, <2>1, <2>2, <2>4, BeginFacts DEF Place
  <2> QED BY <1>1, <2>1, <2>2, <2>3, <2>5, BeginStep
<1>7. CASE CallSendCtl \/ CallSendAddr \/ CallSendData
  <2>1. PICK b \in Byte :
          /\ Begin("sendb", b) /\ at \in {"ctl", "rctl"} \cup Locating
          /\ at = "ctl" => b % 2 = 0
          /\ at = "rctl" => b % 2 = 1
    <3>1. CtlBytes \subseteq Byte /\ AddrBytes \subseteq Byte /\ DataBytes \subseteq Byte
      BY SentAssumption DEF Byte
    <3>2. CASE CallSendCtl
      <4>1. PICK c \in CtlBytes : at = (IF c % 2 = 0 THEN "ctl" ELSE "rctl") /\ Begin("sendb", c)
        BY <3>2 DEF CallSendCtl
      <4>2. c \in Byte
        BY <3>1, <4>1
      <4>3. c % 2 = 0 \/ c % 2 = 1
        BY <4>2 DEF Byte
      <4> QED BY <4>1, <4>2, <4>3
    <3>3. CASE CallSendAddr
      BY <3>1, <3>3 DEF CallSendAddr, Locating
    <3>4. CASE CallSendData
      BY <3>1, <3>4 DEF CallSendData, Locating
    <3> QED BY <1>7, <3>2, <3>3, <3>4
  <2>2. "sendb" \in Kinds
    BY DEF Kinds
  <2>3. CallFits'
    BY <2>1, <2>2, BeginFacts DEF CallFits
  <2>4. pc' = 1 /\ at' = at /\ sercr'.scl = 0 /\ Kept' /\ serir' \in Byte /\ call'.byte = b
    BY <2>1, <2>2, BeginFacts DEF Between, Locating
  <2>5. Agrees(at)'
    BY <2>1, <2>2, BeginFacts DEF Between
  <2>6. Shifting(0)'
    <3>1. twi_status' = FrameOf(at)' - 0
      BY <2>1, <2>4, <2>5 DEF Agrees, FrameOf, Locating
    <3>2. PICK s \in Byte : s = serir'
      BY <2>4
    <3>3. BitsIn(s, b, 0)
      <4>1. s % 1 = 0 /\ b \div 256 = 0
        BY DEF Byte
      <4> QED BY <4>1 DEF BitsIn
    <3>4. BitsIn(serir, call.byte, 0)'
      BY <2>4, <3>2, <3>3 DEF BitsIn
    <3>5. /\ (at # "ctl" => Selected)'
          /\ (at \in Locating => CartWrite /\ cartridge_state = Stage(at))'
      BY <2>1, <2>4, <2>5 DEF Agrees, Locating
    <3> QED BY <2>4, <3>1, <3>4, <3>5 DEF Shifting
  <2>7. SendPlace'
    <3>1. 1 \div 3 = 0 /\ 1 % 3 = 1
      OBVIOUS
    <3>2. Sending(0)'
      BY <2>6 DEF Sending
    <3> QED BY <2>4, <3>1, <3>2 DEF SendPlace
  <2>8. Place'
    BY <2>1, <2>2, <2>7, BeginFacts DEF Place
  <2> QED BY <2>1, <2>2, <2>3, <2>8, BeginStep
<1> QED BY <1>2, <1>3, <1>4, <1>5, <1>6, <1>7

LEMMA StoreKeepsBus == ASSUME BusInv, Store PROVE BusInv'
<1>1. call.kind \in Kinds
  BY DEF BusInv, BusTypeOK
<1> QED BY <1>1, BootStep, StartStep, RestaStep, StopStep, SendStep, GetStep, AckStep DEF Kinds

LEMMA StutterBusInv == ASSUME BusInv, UNCHANGED busVars PROVE BusInv'
<1>1. UNCHANGED <<slaveVars, call, pc, at, reply, was>>
  BY DEF busVars
<1>2. SlaveInv'
  BY <1>1, StutterSlaveInv DEF BusInv
<1>3. /\ BusTypeOK' /\ (CallFits => CallFits')
      /\ (~Located => was.ptr = 0) => (~Located => was.ptr = 0)'
  BY <1>1 DEF BusInv, BusTypeOK, CallFits, Located
<1>4. UNCHANGED <<cartVars, serir, twi_addr, twi_status, attached, sercr>>
  BY <1>1 DEF slaveVars
<1>5. UNCHANGED <<cartridge, cartridge_bits, cartridge_state, cartridge_addr, data>>
  BY <1>4 DEF cartVars
<1>6. \A m : Agrees(m) => Agrees(m)'
  BY <1>4, <1>5, AgreesKept
<1>7. PICK m : m = at
  OBVIOUS
<1>8. (Agrees(at) => Agrees(at)') /\ (Between(at) => Between(at)')
  BY <1>1, <1>4, <1>6, <1>7 DEF Between, Agrees
<1>9. \A n \in 0..9 : Sending(n) => Sending(n)'
  BY <1>1, <1>4, SendingKept
<1>10. \A n \in 0..8 : Getting(n) => Getting(n)'
  BY <1>1, <1>4, GettingKept
<1>11. (Kept => Kept') /\ (Selected => Selected')
  BY <1>1, <1>4, <1>5, KeptKept DEF Selected
<1>12. \A k : Between(k) => Between(k)'
  BY <1>4, <1>6 DEF Between
<1>13. /\ BootPlace => BootPlace'
       /\ StartPlace => StartPlace'
       /\ RestaPlace => RestaPlace'
  BY <1>1, <1>4, <1>6, <1>11, <1>12 DEF BootPlace, StartPlace, RestaPlace
<1>14. StopPlace => StopPlace'
  BY <1>1, <1>4, <1>5, <1>8 DEF StopPlace
<1>15. AckPlace => AckPlace'
  <2>1. PICK a : a = (IF pc = 3 THEN "send" ELSE "sent")
    OBVIOUS
  <2>2. AckPlace => Agrees(a)'
    BY <1>6, <2>1 DEF AckPlace
  <2> QED BY <1>1, <1>4, <1>11, <2>1, <2>2 DEF AckPlace, Agrees
<1>16. SendPlace => SendPlace'
  BY <1>1, <1>4, <1>9 DEF SendPlace
<1>17. GetPlace => GetPlace'
  BY <1>1, <1>4, <1>10 DEF GetPlace
<1>18. Place => Place'
  BY <1>1, <1>13, <1>14, <1>15, <1>16, <1>17 DEF Place
<1> QED BY <1>1, <1>2, <1>3, <1>8, <1>18 DEF BusInv

LEMMA BusNextInv == BusInv /\ [BusNext]_busVars => BusInv'
<1>1. ASSUME BusInv, BusNext PROVE BusInv'
  BY <1>1, CallsStep, StoreKeepsBus DEF BusNext
<1> QED BY <1>1, StutterBusInv

(* Between two routines the slave is where the program believes it is: for *)
(* every image, every byte sent and every order of calls that the ROM's    *)
(* own callers could make, with a cartridge in the socket or without.      *)
THEOREM BusInStep == BusSpec => []InStep
<1>1. BusInit => BusInv
  BY InitBusInv
<1>2. BusInv => InStep
  <2> SUFFICES ASSUME BusInv, pc = 0
               PROVE  IF at = "idle" THEN twi_status = 0 /\ sercr = P(1, 1)
                      ELSE /\ sercr.scl = 0
                           /\ twi_status % 16 = (IF at = "sent" THEN 7 ELSE 15)
                           /\ at \in {"send", "sent"} => cartridge_bits = 0
                           /\ at = "deaf" \/ (AddrSet <=> at \in {"hi", "lo", "data", "send", "sent"})
    BY DEF InStep
  <2>1. Between(at) /\ at \in Modes
    BY DEF BusInv, BusTypeOK
  <2>2. at = "idle" => twi_status = 0 /\ sercr = P(1, 1)
    BY <2>1 DEF Between, Agrees
  <2>3. at # "idle" => sercr.scl = 0
    BY <2>1 DEF Between
  <2>4. at \in {"send", "sent"} => cartridge_bits = 0
    BY <2>1 DEF Between, Agrees, Selected
  <2>5. /\ at = "sent" => twi_status = 23
        /\ at \in {"ctl", "rctl"} => twi_status = 15
        /\ at \in {"hi", "lo", "data", "send"} => twi_status = 31
        /\ at = "deaf" => twi_status = 15 \/ twi_status = 31
    BY <2>1 DEF Between, Agrees, Locating
  <2>6. 15 % 16 = 15 /\ 31 % 16 = 15 /\ 23 % 16 = 7
        /\ (15 \div 16) % 2 = 0 /\ (31 \div 16) % 2 = 1 /\ (23 \div 16) % 2 = 1
    OBVIOUS
  <2>7. at # "idle" => twi_status % 16 = (IF at = "sent" THEN 7 ELSE 15)
    BY <2>1, <2>5, <2>6 DEF Modes
  <2>8. at \notin {"idle", "deaf"} =>
          (AddrSet <=> at \in {"hi", "lo", "data", "send", "sent"})
    BY <2>1, <2>5, <2>6 DEF Modes, AddrSet
  <2> QED BY <2>2, <2>3, <2>4, <2>7, <2>8
<1> QED BY <1>1, <1>2, BusNextInv, PTL DEF BusSpec

(* The counter is framed and the registers have their width here too.      *)
THEOREM BusFrameCounter == BusSpec => [](TypeOK /\ FrameCounter)
<1>1. BusInit => BusInv
  BY InitBusInv
<1>2. BusInv => TypeOK /\ FrameCounter
  BY DEF BusInv, SlaveInv
<1> QED BY <1>1, <1>2, BusNextInv, PTL DEF BusSpec

-----------------------------------------------------------------------------
(* The bus implements the EEPROM: a routine's last store is the device's   *)
(* step, everything before it is hidden in what the call remembered.       *)

DeviceMem == IF pc = 0 THEN cartridge ELSE was.mem
DevicePtr == IF pc = 0 THEN Pointer ELSE was.ptr

LEMMA InitDevice ==
  ASSUME BusInit
  PROVE  Device!DeviceInit([0..(CartSize - 1) -> 0..(256 - 1)])
<1>1. BusInv
  BY InitBusInv
<1>2. was.mem \in [0..(CartSize - 1) -> 0..(256 - 1)]
  BY <1>1 DEF BusInv, BusTypeOK, Byte
<1> QED BY <1>2 DEF BusInit, Init, Device!DeviceInit

(* Entering a routine, and every store but its last, changes nothing.      *)
LEMMA CallStutters ==
  ASSUME NEW kind, NEW b, Begin(kind, b)
  PROVE  UNCHANGED <<DeviceMem, DevicePtr, at, reply, attached>>
  BY DEF Begin, DeviceMem, DevicePtr, slaveVars, cartVars

LEMMA StoreStutters ==
  ASSUME BusInv, Store, pc # Len(Stores(call))
  PROVE  UNCHANGED <<DeviceMem, DevicePtr, at, reply, attached>>
<1>1. pc > 0 /\ pc' > 0 /\ UNCHANGED <<at, reply, was, attached>>
  BY StoreCount DEF Store, WriteSercr, BusInv, BusTypeOK
<1> QED BY <1>1 DEF DeviceMem, DevicePtr

(* What the device sees of a return.                                       *)
LEMMA ReturnSeen ==
  ASSUME BusInv, Store, pc = Len(Stores(call))
  PROVE  /\ DeviceMem = was.mem /\ DeviceMem' = cartridge'
         /\ DevicePtr = was.ptr /\ DevicePtr' = Pointer'
         /\ WriteSercr(Stores(call)[pc]) /\ Return /\ attached' = attached
         /\ call.kind \in Kinds /\ CallFits /\ (~Located => was.ptr = 0)
         /\ call.byte \in Byte /\ was' = was
<1>1. pc > 0 /\ WriteSercr(Stores(call)[pc]) /\ Return /\ was' = was
  BY DEF Store
<1>2. pc' = 0 /\ attached' = attached
  BY <1>1 DEF Return, WriteSercr
<1>3. /\ DeviceMem = was.mem /\ DeviceMem' = cartridge'
      /\ DevicePtr = was.ptr /\ DevicePtr' = Pointer'
  BY <1>1, <1>2 DEF DeviceMem, DevicePtr
<1>4. call.kind \in Kinds /\ call.byte \in Byte
  BY DEF BusInv, BusTypeOK
<1>5. CallFits /\ (~Located => was.ptr = 0)
  BY <1>1 DEF BusInv
<1> QED BY <1>1, <1>2, <1>3, <1>4, <1>5

LEMMA ReturnBoot ==
  ASSUME BusInv, Store, pc = Len(Stores(call)), call.kind = "boot"
  PROVE  UNCHANGED <<DeviceMem, DevicePtr, at, reply, attached>>
<1>1. BootPlace /\ pc = 2
  BY Places, StoreStep, ShortStores DEF Stores
<1>2. at = "idle" /\ at' = "idle" /\ reply' = reply
  BY ReturnSeen DEF CallFits, Return
<1>3. Stores(call)[pc] = P(1, 1) /\ sercr = P(0, 1)
  BY <1>1, ShortStores DEF BootPlace, Stores
<1>4. SclHigh(P(1, 1))
  BY <1>3, ReturnSeen, HighStore, PinFields
<1>5. cartridge' = was.mem
  BY <1>1, <1>4 DEF SclHigh, cartVars, BootPlace, Kept
<1>6. was.ptr = 0 /\ Pointer' = 0
  BY <1>2, ReturnSeen DEF Located, Pointer
<1> QED BY <1>2, <1>5, <1>6, ReturnSeen

LEMMA ReturnStart ==
  ASSUME BusInv, Store, pc = Len(Stores(call)), call.kind = "start"
  PROVE  Device!Start
<1>1. StartPlace /\ pc = 2
  BY Places, StoreStep, ShortStores DEF Stores
<1>2. at = "idle" /\ at' = "ctl" /\ reply' = 0
  BY ReturnSeen DEF CallFits, Return
<1>3. Stores(call)[pc] = P(0, 0)
  BY <1>1, ShortStores DEF Stores
<1>4. cartridge' = was.mem
  BY <1>1, <1>3, ReturnSeen, LowStore, PinFields DEF StartPlace, Kept, cartVars
<1>5. Pointer' = 0
  BY <1>2 DEF Located, Pointer
<1> QED BY <1>2, <1>4, <1>5, ReturnSeen DEF Device!Start, DeviceMem, DevicePtr

LEMMA ReturnResta ==
  ASSUME BusInv, Store, pc = Len(Stores(call)), call.kind = "resta"
  PROVE  Device!Restart
<1>1. RestaPlace /\ pc = 4
  BY Places, StoreStep, RestaStores DEF Stores
<1>2. at = "data" /\ at' = "rctl" /\ reply' = 0
  BY ReturnSeen DEF CallFits, Return
<1>3. Stores(call)[pc] = P(0, 0)
  BY <1>1, RestaStores DEF Stores
<1>4. UNCHANGED cartVars
  BY <1>3, ReturnSeen, LowStore, PinFields
<1>5. cartridge' = was.mem /\ Pointer' = was.ptr
  BY <1>1, <1>2, <1>4 DEF RestaPlace, Kept, cartVars, Pointer, Located
<1> QED BY <1>2, <1>5, ReturnSeen DEF Device!Restart, DeviceMem, DevicePtr

LEMMA ReturnStop ==
  ASSUME BusInv, Store, pc = Len(Stores(call)), call.kind = "stop"
  PROVE  Device!Stop
<1>1. StopPlace /\ pc = 4
  BY Places, StoreStep, ShortStores DEF Stores
<1>2. at' = "idle" /\ reply' = reply
  BY ReturnSeen DEF Return
<1>3. Stores(call)[pc] = P(1, 1) /\ sercr = P(1, 1)
  BY <1>1, ShortStores DEF StopPlace, Stores
<1>4. SclHigh(P(1, 1))
  BY <1>3, ReturnSeen, HighStore, PinFields
<1>5. cartridge' = was.mem /\ Pointer' = 0
  BY <1>1, <1>2, <1>4 DEF StopPlace, SclHigh, cartVars, Pointer, Located
<1> QED BY <1>2, <1>5, ReturnSeen DEF Device!Stop, DeviceMem, DevicePtr

LEMMA ReturnAck ==
  ASSUME BusInv, Store, pc = Len(Stores(call)), call.kind \in {"ack", "nak"}
  PROVE  \E more \in BOOLEAN : Device!Ack(more)
<1> DEFINE d == IF call.kind = "ack" THEN 0 ELSE 1
<1>1. AckPlace /\ Stores(call) = Bit(d)
      /\ Bit(d)[3] = P(d, 0) /\ Len(Bit(d)) = 3
  BY Places, StoreStep, ShortStores DEF Stores
<1> HIDE DEF d
<1>2. pc = 3 /\ Stores(call)[pc] = P(d, 0)
  BY <1>1
<1>3. UNCHANGED cartVars
  BY <1>2, ReturnSeen, LowStore, PinFields
<1>4. at = "sent" /\ reply' = reply
  BY ReturnSeen DEF CallFits, Return
<1>5. cartridge' = was.mem /\ was.ptr = cartridge_addr' /\ cartridge_addr' = cartridge_addr
  BY <1>1, <1>3, <1>4 DEF AckPlace, Kept, Pointer, Located, cartVars
<1>6. CASE call.kind = "ack"
  <2>1. at' = "send" /\ Pointer' = was.ptr
    BY <1>5, <1>6, ReturnSeen DEF Return, Pointer, Located
  <2>2. Device!Ack(TRUE)
    BY <1>4, <1>5, <2>1, ReturnSeen DEF Device!Ack, DeviceMem, DevicePtr
  <2> QED BY <2>2
<1>7. CASE call.kind = "nak"
  <2>1. at' = "deaf" /\ Pointer' = 0
    BY <1>7, ReturnSeen DEF Return, Pointer, Located
  <2>2. Device!Ack(FALSE)
    BY <1>4, <1>5, <2>1, ReturnSeen DEF Device!Ack, DeviceMem, DevicePtr
  <2> QED BY <2>2
<1> QED BY <1>6, <1>7

LEMMA ReturnGet ==
  ASSUME BusInv, Store, pc = Len(Stores(call)), call.kind = "getb"
  PROVE  Device!Get
<1>1. GetPlace /\ pc = 17 /\ Stores(call)[pc] = P(1, 0)
  <2>1. GetPlace /\ Stores(call) = GetPins
    BY Places, StoreStep DEF Stores
  <2>2. Len(GetPins) = 17 /\ GetPins[17] = P(1, 0)
    <3>1. 17 % 2 # 0
      OBVIOUS
    <3> QED BY <3>1, GetStores
  <2> QED BY <2>1, <2>2
<1>2. UNCHANGED <<cartVars, serir>>
  BY <1>1, ReturnSeen, LowStore, PinFields
<1>3. at = "send" /\ at' = "sent" /\ reply' = serir'
  BY ReturnSeen DEF CallFits, Return
<1>4. Getting(8)
  <2>1. (17 - 1) \div 2 = 8
    OBVIOUS
  <2> QED BY <1>1, <2>1 DEF GetPlace
<1>5. /\ attached /\ cartridge = was.mem /\ cartridge_addr = was.ptr + 1
      /\ BitsIn(serir, Reading, 8)
  BY <1>4 DEF Getting
<1>6. serir = Reading
  <2>1. was.mem \in [0..(CartSize - 1) -> Byte] /\ was.ptr \in Nat /\ serir \in Byte
    BY DEF BusInv, BusTypeOK, SlaveInv, TypeOK
  <2>2. PICK k \in 0..(CartSize - 1) : k = was.ptr % CartSize
    BY <2>1, CartSizeAssumption
  <2>3. Reading \in Byte
    BY <2>1, <2>2 DEF Reading
  <2>4. PICK r \in Byte : r = Reading
    BY <2>3
  <2>5. serir % 256 = r \div 1
    BY <1>5, <2>4 DEF BitsIn
  <2>6. serir % 256 = serir /\ r \div 1 = r
    BY <2>1, <2>4 DEF Byte
  <2> QED BY <2>4, <2>5, <2>6
<1>7. cartridge' = was.mem /\ Pointer' = was.ptr + 1
  BY <1>2, <1>3, <1>5 DEF Pointer, Located, cartVars
<1> QED BY <1>2, <1>3, <1>5, <1>6, <1>7, ReturnSeen
        DEF Device!Get, DeviceMem, DevicePtr, Reading

LEMMA ReturnSend ==
  ASSUME BusInv, Store, pc = Len(Stores(call)), call.kind = "sendb"
  PROVE  \E b \in 0..(256 - 1) :
           Device!SendCtl(b) \/ Device!SendAddr(b) \/ Device!SendData(b)
<1>1. PICK b \in Byte : b = call.byte
  BY ReturnSeen
<1>2. PICK d : d = BitOf(b, (27 - 1) \div 3)
  OBVIOUS
<1>3. SendPlace /\ pc = 27 /\ Stores(call)[pc] = P(d, 0)
  <2>1. Stores(call) = SendPins(b) /\ Len(SendPins(b)) = 27
    BY <1>1, SendStores DEF Stores
  <2>2. SendPins(b)[27] = P(d, 0)
    BY <1>2, SendStores
  <2> QED BY <2>1, <2>2, Places, StoreStep
<1>4. UNCHANGED <<cartVars, serir>>
  BY <1>3, ReturnSeen, LowStore, PinFields
<1>5. Acknowledged
  <2>1. 27 \div 3 = 9
    OBVIOUS
  <2>2. Sending(9)
    BY <1>3, <2>1 DEF SendPlace
  <2> QED BY <2>2 DEF Sending
<1>6. /\ at' = (IF serir' % 2 = 1 THEN "deaf" ELSE AfterSend[at])
      /\ reply' = serir' % 2 /\ serir' = serir
  BY <1>4, ReturnSeen DEF Return
<1>7. /\ Answers => serir % 2 = 0 /\ cartridge_addr = PtrAfter
      /\ ~Answers => serir % 2 = 1
      /\ cartridge = MemAfter
  BY <1>5 DEF Acknowledged
<1>8. cartridge' = MemAfter /\ cartridge_addr' = cartridge_addr
  BY <1>4, <1>7 DEF cartVars
<1>9. b \in 0..(256 - 1)
  BY DEF Byte
<1>10. /\ Answers => at' = AfterSend[at] /\ reply' = 0 /\ cartridge_addr' = PtrAfter
       /\ ~Answers => at' = "deaf" /\ reply' = 1 /\ Pointer' = 0
  BY <1>6, <1>7, <1>8 DEF Pointer, Located
<1>11. CASE at \in {"ctl", "rctl"}
  <2>1. cartridge' = was.mem /\ ~(at \in Locating)
    BY <1>8, <1>11 DEF MemAfter, Locating
  <2>2. Answers <=> (attached /\ Device!Selects(b))
    BY <1>1, <2>1 DEF Answers, Device!Selects
  <2>3. b % 2 = IF at = "rctl" THEN 1 ELSE 0
    BY <1>1, <1>11, ReturnSeen DEF CallFits
  <2>4. CASE Answers
    <3>1. at' = (IF at = "rctl" THEN "send" ELSE "hi") /\ reply' = 0
      BY <1>10, <1>11, <2>4, AfterSends
    <3>2. Pointer' = (IF at = "ctl" THEN (b \div 2) % 8 ELSE was.ptr)
      BY <1>1, <1>10, <1>11, <2>4, <3>1 DEF Pointer, Located, PtrAfter
    <3>3. Device!SendCtl(b)
      BY <1>11, <2>1, <2>2, <2>3, <2>4, <3>1, <3>2, ReturnSeen
         DEF Device!SendCtl, Device!Acked, DeviceMem, DevicePtr
    <3> QED BY <1>9, <3>3
  <2>5. CASE ~Answers
    <3>1. Device!SendCtl(b)
      BY <1>10, <1>11, <2>1, <2>2, <2>3, <2>5, ReturnSeen
         DEF Device!SendCtl, Device!Acked, DeviceMem, DevicePtr
    <3> QED BY <1>9, <3>1
  <2> QED BY <2>4, <2>5
<1>12. CASE at \in Locating
  <2>1. Answers /\ attached
    BY <1>5, <1>12, AfterSends DEF Answers, Acknowledged, Agrees, Locating, Selected
  <2>2. at' = AfterSend[at] /\ reply' = 0 /\ Pointer' = PtrAfter
    BY <1>10, <1>12, <2>1, AfterSends DEF Pointer, Located, Locating
  <2>3. CASE at \in {"hi", "lo"}
    <3>1. /\ cartridge' = was.mem /\ Pointer' = 256 * was.ptr + b
          /\ at' = (IF at = "hi" THEN "lo" ELSE "data")
      BY <1>1, <1>8, <2>2, <2>3, AfterSends DEF MemAfter, PtrAfter
    <3>2. Device!SendAddr(b)
      BY <2>1, <2>2, <2>3, <3>1, ReturnSeen
         DEF Device!SendAddr, Device!Acked, DeviceMem, DevicePtr
    <3> QED BY <1>9, <3>2
  <2>4. CASE at = "data"
    <3>1. /\ cartridge' = [was.mem EXCEPT ![was.ptr % CartSize] = b]
          /\ Pointer' = was.ptr + 1 /\ at' = "data"
      BY <1>1, <1>8, <2>2, <2>4, AfterSends DEF MemAfter, PtrAfter
    <3>2. Device!SendData(b)
      BY <2>1, <2>2, <2>4, <3>1, ReturnSeen
         DEF Device!SendData, Device!Acked, Device!NextWrite, DeviceMem, DevicePtr
    <3> QED BY <1>9, <3>2
  <2> QED BY <1>12, <2>3, <2>4 DEF Locating
<1> QED BY <1>11, <1>12, ReturnSeen DEF CallFits

LEMMA BusNextDevice ==
  ASSUME BusInv, [BusNext]_busVars
  PROVE  [Device!DeviceNext]_(Device!deviceVars)
<1>1. UNCHANGED <<DeviceMem, DevicePtr, at, reply, attached>>
        => UNCHANGED Device!deviceVars
  BY DEF DeviceMem, DevicePtr, Device!deviceVars
<1>2. CASE UNCHANGED busVars
  BY <1>1, <1>2 DEF busVars, slaveVars, cartVars, DeviceMem, DevicePtr, Pointer, Located
<1>3. CASE BusNext /\ ~Store
  <2>1. \E kind, b : Begin(kind, b)
    BY <1>3 DEF BusNext, CallStart, CallResta, CallStop, CallSendCtl, CallSendAddr,
                CallSendData, CallGet, CallAck
  <2> QED BY <1>1, <2>1, CallStutters
<1>4. CASE Store /\ pc # Len(Stores(call))
  BY <1>1, <1>4, StoreStutters
<1>5. CASE Store /\ pc = Len(Stores(call))
  <2>1. call.kind \in Kinds
    BY <1>5, ReturnSeen
  <2>2. CASE call.kind = "boot"
    BY <1>1, <1>5, <2>2, ReturnBoot
  <2>3. CASE call.kind # "boot"
    <3>1. Device!DeviceNext
      BY <1>5, <2>1, <2>3, ReturnStart, ReturnResta, ReturnStop, ReturnAck, ReturnGet,
         ReturnSend DEF Kinds, Device!DeviceNext, Device!Bytes
    <3> QED BY <3>1
  <2> QED BY <2>2, <2>3
<1> QED BY <1>2, <1>3, <1>4, <1>5

(* Together the routines and the slave are the EEPROM that CartXfer and    *)
(* the whole machine run against: their results, proved against the        *)
(* device, hold of the store-by-store bus.                                 *)
THEOREM BusImplementsEeprom == BusSpec => ImplementsEeprom
<1>1. BusInit => BusInv
  BY InitBusInv
<1>2. BusInit => Device!DeviceInit([0..(CartSize - 1) -> Device!Bytes])
  BY InitDevice DEF Device!Bytes
<1>3. BusInv /\ [BusNext]_busVars => [Device!DeviceNext]_(Device!deviceVars)
  BY BusNextDevice
<1> QED BY <1>1, <1>2, <1>3, BusNextInv, PTL DEF BusSpec, ImplementsEeprom, Device!DeviceSpec
=============================================================================
