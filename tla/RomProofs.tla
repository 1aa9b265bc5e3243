------------------------------ MODULE RomProofs ------------------------------
(***************************************************************************)
(* The machine from the reset on, for every size of a byte, memory layout, *)
(* cartridge, set of broken cells and program: the registers keep their    *)
(* types, the device its protocol, RAMTOP is the end of the memory that    *)
(* works, loads and saves move the bytes they are asked to, and the boot   *)
(* runs what the cartridge holds.                                          *)
(***************************************************************************)
EXTENDS Rom, TLAPS

-----------------------------------------------------------------------------
(* The protocol.                                                           *)

LEMMA LocateInProtocol ==
  ASSUME NEW label, NEW b, NEW next, NEW after,
         Locate(label, b, next),
         reply' = 0 => mode' = after,
         <<next, after>> \in {<<"loc1", "hi">>, <<"loc0", "lo">>,
                              <<"l_resta", "data">>, <<"s_byte", "data">>}
  PROVE  InProtocol'
<1>1. CASE reply' = 0
  BY <1>1 DEF Locate, InProtocol
<1>2. CASE reply' # 0
  <2>1. pc' \in {"n_stop", "stop"}
    BY <1>2 DEF Locate, Nak
  <2> QED BY <2>1 DEF InProtocol
<1> QED BY <1>1, <1>2

LEMMA CpuInProtocol == ASSUME InProtocol, Cpu PROVE InProtocol'
<1>1. CASE SendLoc2
  <2>1. mode = "ctl"
    BY <1>1 DEF SendLoc2, Locate, InProtocol
  <2>2. reply' = 0 => mode' = "hi"
    BY <1>1, <2>1 DEF SendLoc2, SendCtl, Acked
  <2> QED BY <1>1, <2>2, LocateInProtocol DEF SendLoc2
<1>2. CASE SendLoc1
  <2>1. mode = "hi"
    BY <1>2 DEF SendLoc1, Locate, InProtocol
  <2>2. reply' = 0 => mode' = "lo"
    BY <1>2, <2>1 DEF SendLoc1, SendAddr, Acked
  <2> QED BY <1>2, <2>2, LocateInProtocol DEF SendLoc1
<1>3. CASE SendLoc0
  <2>1. mode = "lo"
    BY <1>3 DEF SendLoc0, Locate, InProtocol
  <2>2. reply' = 0 => mode' = "data"
    BY <1>3, <2>1 DEF SendLoc0, SendAddr, Acked
  <2> QED BY <1>3, <2>2, LocateInProtocol DEF SendLoc0
<1>4. CASE LoadStart
  BY <1>4 DEF LoadStart, Start, Goto, InProtocol
<1>5. CASE LoadRestart
  BY <1>5 DEF LoadRestart, Restart, Goto, InProtocol
<1>6. CASE LoadCtl
  <2>1. pc' \in {"stop", "l_last", "l_byte"} /\ (pc' # "stop" => reply' # 1)
    BY <1>6 DEF LoadCtl
  <2>2. reply' # 1 => mode' = "send"
    BY <1>6 DEF LoadCtl, SendCtl, Acked, InProtocol
  <2> QED BY <2>1, <2>2 DEF InProtocol
<1>7. CASE LoadByte
  BY <1>7 DEF LoadByte, Get, InProtocol
<1>8. CASE LoadAck
  BY <1>8 DEF LoadAck, Ack, AfterDec, InProtocol
<1>9. CASE LoadNak
  BY <1>9 DEF LoadNak, InProtocol
<1>10. CASE SaveBlock
  BY <1>10 DEF SaveBlock, InProtocol
<1>11. CASE NextStop
  BY <1>11 DEF NextStop, Stop, Goto, InProtocol
<1>12. CASE NextStart
  BY <1>12 DEF NextStart, Start, Goto, InProtocol
<1>13. CASE SaveByte
  <2>1. pc' \in {"stop", "s_byte"} /\ (pc' = "s_byte" => reply' # 1)
    BY <1>13 DEF SaveByte
  <2>2. reply' # 1 => mode' = "data"
    BY <1>13 DEF SaveByte, SendData, Acked
  <2> QED BY <2>1, <2>2 DEF InProtocol
<1>14. CASE EndTransfer
  BY <1>14 DEF EndTransfer, Stop, Goto, InProtocol
<1>15. CASE SaveNext
  BY <1>15 DEF SaveNext, deviceVars, InProtocol
<1> QED
  BY <1>1, <1>2, <1>3, <1>4, <1>5, <1>6, <1>7, <1>8, <1>9, <1>10, <1>11,
     <1>12, <1>13, <1>14, <1>15 DEF Cpu

(* loadcart and savecart never call a two-wire routine the device is not   *)
(* ready for, and always leave the bus stopped.                            *)
THEOREM ProtocolFollowed == XferSpec => []InProtocol
<1>1. XferInit => InProtocol
  BY DEF XferInit, DeviceInit, InProtocol
<1>2. InProtocol /\ [XferNext]_xferVars => InProtocol'
  <2> SUFFICES ASSUME InProtocol, [XferNext]_xferVars PROVE InProtocol'
    OBVIOUS
  <2>1. CASE Call
    BY <2>1 DEF Call, Enter, deviceVars, InProtocol
  <2>2. CASE Cpu
    BY <2>2, CpuInProtocol
  <2>3. CASE Environment
    BY <2>3 DEF Environment, Ready, Remove, InProtocol
  <2>4. CASE UNCHANGED xferVars
    BY <2>4 DEF xferVars, deviceVars, InProtocol
  <2> QED BY <2>1, <2>2, <2>3, <2>4 DEF XferNext
<1> QED BY <1>1, <1>2, PTL DEF XferSpec
-----------------------------------------------------------------------------
(* Types.                                                                  *)

LEMMA ModBytes == ASSUME NEW n \in Int PROVE n % B \in Bytes /\ n \div B \in Int
  BY EepromAssumption DEF Bytes

LEMMA LocationBytes == ASSUME NEW n \in Nat PROVE LowByte(n) \in Bytes /\ HighByte(n) \in Bytes
  BY ModBytes DEF LowByte, HighByte

LEMMA SplitWord == ASSUME NEW n \in Int PROVE Split(n) \in Word
  BY ModBytes DEF Split, HighByte, Word

LEMMA DecByte == ASSUME NEW b \in Bytes PROVE Dec(b) \in Bytes
<1>1. b + B - 1 \in Int
  BY EepromAssumption DEF Bytes
<1> QED BY <1>1, ModBytes DEF Dec

LEMMA SquareNat == B * B \in Nat /\ B * B > 0
  BY EepromAssumption

LEMMA ModRam == ASSUME NEW n \in Int PROVE n % (B * B) \in Ram
<1> DEFINE S == B * B
<1>1. S \in Nat /\ S > 0
  BY SquareNat
<1>2. ASSUME NEW s \in Nat, s > 0 PROVE n % s \in 0..(s - 1)
  BY <1>2
<1> HIDE DEF S
<1>3. n % S \in 0..(S - 1)
  BY <1>1, <1>2
<1> QED BY <1>3 DEF Ram, S

LEMMA ValueRam == ASSUME NEW c \in Word PROVE Value(c) \in Ram
<1>1. c.lo \in 0..(B - 1) /\ c.hi \in 0..(B - 1) /\ B \in Nat
  BY EepromAssumption DEF Word, Bytes
<1>2. B * c.hi \in Nat /\ B * c.hi <= B * (B - 1)
  BY <1>1
<1>3. B * (B - 1) = B * B - B
  BY <1>1
<1> QED BY <1>1, <1>2, <1>3, SquareNat DEF Value, Ram

LEMMA NextWriteNat == ASSUME NEW p \in Nat PROVE NextWrite(p) \in Nat
<1>1. CASE PageSize = 0
  BY <1>1 DEF NextWrite
<1>2. CASE PageSize # 0
  <2>1. PageSize \in Nat /\ PageSize > 0
    BY <1>2, EepromAssumption
  <2>2. p % PageSize \in Nat /\ p % PageSize <= p /\ (p + 1) % PageSize \in Nat
    BY <2>1
  <2> QED BY <1>2, <2>2 DEF NextWrite
<1> QED BY <1>1, <1>2

(* What each device action leaves behind has the device's types.           *)
LEMMA DeviceTypes ==
  ASSUME DeviceTypeOK,
         \/ Start \/ Restart \/ Stop \/ Get \/ Ready \/ Remove
         \/ \E more \in BOOLEAN : Ack(more)
         \/ \E b \in Nat : SendCtl(b)
         \/ \E b \in Bytes : SendAddr(b) \/ SendData(b)
         \/ UNCHANGED deviceVars
  PROVE  DeviceTypeOK'
<1> USE EepromAssumption
<1>1. 0 \in Bytes /\ 1 \in Bytes /\ B - 1 \in Bytes
  BY DEF Bytes
<1>2. CASE Start \/ Restart \/ Ready \/ Remove \/ UNCHANGED deviceVars
  <2>1. CASE Start \/ Restart
    BY <1>1, <2>1 DEF Start, Restart, DeviceTypeOK, Modes
  <2>2. CASE Ready \/ Remove \/ UNCHANGED deviceVars
    <3>1. UNCHANGED <<mem, ptr, mode, reply>>
      BY <2>2 DEF Ready, Remove, deviceVars
    <3>2. busy' \in BOOLEAN /\ present' \in BOOLEAN
      BY <2>2, Zenon DEF Ready, Remove, deviceVars, DeviceTypeOK
    <3> QED BY <3>1, <3>2 DEF DeviceTypeOK
  <2> QED BY <1>2, <2>1, <2>2
<1>3. CASE Stop
  BY <1>3 DEF Stop, DeviceTypeOK, Modes
<1>4. CASE Get
  <2>1. ptr % Size \in 0..(Size - 1)
    BY DEF DeviceTypeOK
  <2>2. reply' \in Bytes
    BY <1>1, <1>4, <2>1 DEF Get, DeviceTypeOK
  <2> QED BY <1>4, <2>2 DEF Get, DeviceTypeOK, Modes
<1>5. ASSUME NEW more \in BOOLEAN, Ack(more) PROVE DeviceTypeOK'
  BY <1>5 DEF Ack, DeviceTypeOK, Modes
<1>6. ASSUME NEW b \in Nat, SendCtl(b) PROVE DeviceTypeOK'
  <2>1. (b \div 2) % Blocks \in Nat
    OBVIOUS
  <2>2. ptr' \in Nat
    BY <1>6, <2>1 DEF SendCtl, DeviceTypeOK
  <2> QED BY <1>1, <1>6, <2>2 DEF SendCtl, Acked, DeviceTypeOK, Modes
<1>7. ASSUME NEW b \in Bytes, SendAddr(b) PROVE DeviceTypeOK'
  <2>1. ptr' \in Nat
    <3>1. ptr' = B * ptr + b \/ ptr' = 0
      BY <1>7 DEF SendAddr
    <3>2. B * ptr \in Nat /\ b \in Nat
      BY DEF DeviceTypeOK, Bytes
    <3> QED BY <3>1, <3>2
  <2> QED BY <1>1, <1>7, <2>1 DEF SendAddr, Acked, DeviceTypeOK, Modes
<1>8. ASSUME NEW b \in Bytes, SendData(b) PROVE DeviceTypeOK'
  <2>1. ptr' \in Nat
    BY <1>8, NextWriteNat DEF SendData, DeviceTypeOK
  <2>2. mem' \in [0..(Size - 1) -> Bytes]
    BY <1>8 DEF SendData, DeviceTypeOK
  <2> QED BY <1>1, <1>8, <2>1, <2>2 DEF SendData, Acked, DeviceTypeOK, Modes
<1> QED BY <1>2, <1>3, <1>4, <1>5, <1>6, <1>7, <1>8

LEMMA ControlBytes == ASSUME NEW p \in Nat PROVE WriteCtl(p) \in Nat /\ ReadCtl \in Nat
<1>1. 2 * Blocks * Select \in Nat
  BY EepromAssumption
<1>2. p \div (B * B) \in Nat
  <2> DEFINE S == B * B
  <2>1. S \in Nat /\ S > 0
    BY SquareNat
  <2> HIDE DEF S
  <2>2. p \div S \in Nat
    BY <2>1
  <2> QED BY <2>2 DEF S
<1>3. (p \div (B * B)) % Blocks \in Nat
  BY <1>2, EepromAssumption
<1> QED BY <1>1, <1>3 DEF WriteCtl, ReadCtl

LEMMA NakTypes ==
  ASSUME XferTypeOK, NEW b \in Nat, Nak(b)
  PROVE  /\ pc' \in {"n_stop", "stop"} /\ result' = 1 /\ x' \in Bytes
         /\ UNCHANGED <<loc, cnt, addr, blk, saved>>
<1>1. (2 * b + 1) % B \in Bytes
  BY ModBytes
<1>2. Dec((2 * b + 1) % B) \in Bytes
  BY <1>1, DecByte
<1> QED BY <1>2 DEF Nak

LEMMA LocateTypes ==
  ASSUME XferTypeOK, DeviceTypeOK', NEW label, NEW b \in Nat, NEW next \in PCs,
         Locate(label, b, next)
  PROVE  XferTypeOK'
<1>1. CASE reply' = 0
  BY <1>1 DEF Locate, XferTypeOK, registers, callVars
<1>2. CASE reply' # 0
  BY <1>2, NakTypes DEF Locate, XferTypeOK, callVars, PCs
<1> QED BY <1>1, <1>2

LEMMA CpuTypes == ASSUME XferTypeOK, Cpu PROVE XferTypeOK'
<1> USE EepromAssumption, XferAssumption
<1>1. DeviceTypeOK /\ pc \in PCs /\ ram \in [Ram -> Bytes] /\ addr \in Ram /\ loc \in Nat
  BY DEF XferTypeOK
<1>2. ram[addr] \in Bytes /\ LowByte(loc) \in Bytes /\ HighByte(loc) \in Bytes
      /\ WriteCtl(loc) \in Nat /\ ReadCtl \in Nat
  <2>1. ram[addr] \in Bytes
    BY <1>1
  <2>2. WriteCtl(loc) \in Nat /\ ReadCtl \in Nat
    BY <1>1, ControlBytes
  <2>3. LowByte(loc) \in Bytes /\ HighByte(loc) \in Bytes
    BY <1>1, LocationBytes
  <2> QED BY <2>1, <2>2, <2>3
<1>3. \A b \in Bytes : b \in Nat
  BY DEF Bytes
<1>4. (addr + 1) % (B * B) \in Ram
  BY <1>1, ModRam DEF Ram
<1>5. DeviceTypeOK'
  <2>1. CASE SendLoc2 \/ SendLoc1 \/ SendLoc0 \/ LoadCtl \/ SaveByte
    BY <1>1, <1>2, <2>1, DeviceTypes
    DEF SendLoc2, SendLoc1, SendLoc0, LoadCtl, SaveByte
  <2>2. CASE LoadStart \/ LoadRestart \/ LoadByte \/ LoadAck \/ LoadNak \/ NextStop
             \/ NextStart \/ EndTransfer
    BY <1>1, <2>2, DeviceTypes
    DEF LoadStart, LoadRestart, LoadByte, LoadAck, LoadNak, NextStop, NextStart, EndTransfer
  <2>3. CASE SaveBlock \/ SaveNext
    BY <1>1, <2>3, DeviceTypes DEF SaveBlock, SaveNext
  <2> QED BY <2>1, <2>2, <2>3 DEF Cpu
<1>6. CASE SendLoc2
  BY <1>2, <1>5, <1>6, LocateTypes DEF SendLoc2, PCs
<1>7. CASE SendLoc1
  BY <1>2, <1>3, <1>5, <1>7, LocateTypes DEF SendLoc1, PCs
<1>8. CASE SendLoc0
  BY <1>2, <1>3, <1>5, <1>8, LocateTypes DEF SendLoc0, PCs
<1>9. CASE LoadStart \/ LoadRestart \/ NextStop \/ NextStart \/ EndTransfer
  BY <1>5, <1>9 DEF LoadStart, LoadRestart, NextStop, NextStart, EndTransfer, Goto,
                    XferTypeOK, registers, callVars, PCs
<1>10. CASE LoadCtl
  <2>1. cnt.lo \in Bytes /\ cnt.hi \in Bytes
    BY DEF XferTypeOK, Word
  <2>2. Dec(cnt.lo) \in Bytes
    BY <2>1, DecByte
  <2>3. [cnt EXCEPT !.lo = Dec(cnt.lo)] \in Word
    BY <2>2 DEF XferTypeOK, Word
  <2> QED BY <1>5, <1>10, <2>3 DEF LoadCtl, XferTypeOK, callVars, PCs
<1>11. CASE LoadByte
  <2>1. ram' \in [Ram -> Bytes]
    BY <1>1, <1>5, <1>11 DEF LoadByte, DeviceTypeOK
  <2> QED BY <1>5, <1>11, <2>1 DEF LoadByte, XferTypeOK, registers, callVars, PCs
<1>12. CASE LoadAck
  <2>1. cnt.lo \in Bytes /\ cnt.hi \in Bytes
    BY DEF XferTypeOK, Word
  <2>2. Dec(cnt.lo) \in Bytes /\ Dec(cnt.hi) \in Bytes
    BY <2>1, DecByte
  <2>3. cnt' \in Word
    BY <1>12, <2>1, <2>2 DEF LoadAck, AfterDec, Word
  <2> QED BY <1>4, <1>5, <1>12, <2>3 DEF LoadAck, AfterDec, XferTypeOK, callVars, PCs
<1>13. CASE LoadNak
  BY <1>5, <1>13 DEF LoadNak, XferTypeOK, callVars, PCs
<1>14. CASE SaveBlock
  <2>1. BlockSize \in Ram
    BY ValueRam DEF BlockSize, XferTypeOK
  <2>2. Split(BlockSize) \in Word
    BY <2>1, SplitWord DEF Ram
  <2> QED BY <1>5, <1>14, <2>1, <2>2 DEF SaveBlock, XferTypeOK, callVars, PCs
<1>15. CASE SaveByte
  <2>1. blk.lo \in Bytes /\ blk.hi \in Bytes
    BY DEF XferTypeOK, Word
  <2>2. Dec(blk.lo) \in Bytes /\ (blk.hi # 0 => blk.hi - 1 \in Bytes)
    BY <2>1, DecByte DEF Bytes
  <2>3. blk' \in Word
    <3>1. CASE blk' = blk
      BY <3>1 DEF XferTypeOK
    <3>2. CASE blk' = Split(0)
      BY <3>2, SplitWord
    <3>3. CASE /\ ~(Dec(blk.lo) = 0 /\ blk.hi = 0)
               /\ blk' = [lo |-> Dec(blk.lo),
                          hi |-> IF Dec(blk.lo) = 0 THEN blk.hi - 1 ELSE blk.hi]
      BY <2>1, <2>2, <3>3 DEF Word
    <3> QED BY <1>15, <3>1, <3>2, <3>3 DEF SaveByte
  <2> QED BY <1>4, <1>5, <1>15, <2>3 DEF SaveByte, XferTypeOK, callVars, PCs
<1>16. CASE SaveNext
  <2>1. Value(cnt) - saved \in Int /\ bsz \in Int /\ loc + saved \in Nat
    BY ValueRam DEF XferTypeOK, Ram
  <2>2. Split(Value(cnt) - saved) \in Word /\ Split(bsz) \in Word
    BY <2>1, SplitWord
  <2> QED BY <1>5, <1>16, <2>1, <2>2
          DEF SaveNext, NextLocation, XferTypeOK, callVars, PCs
<1> QED
  BY <1>6, <1>7, <1>8, <1>9, <1>10, <1>11, <1>12, <1>13, <1>14, <1>15, <1>16 DEF Cpu

LEMMA EnterTypes ==
  ASSUME XferTypeOK, NEW j \in Transfers, Enter(j), calls' \in 0..MaxCalls
  PROVE  XferTypeOK'
<1>1. DeviceTypeOK'
  BY DeviceTypes DEF XferTypeOK, Enter
<1>2. j.loc \in Nat /\ j.n \in Int /\ j.addr \in Ram
  BY DEF Transfers, Ram
<1>3. bsz - (j.loc % bsz) \in Int
  <2>1. bsz \in Nat /\ bsz > 0
    BY XferAssumption DEF XferTypeOK, Ram
  <2> QED BY <1>2, <2>1
<1>4. cnt' \in Word /\ blk' \in Word
  BY <1>2, <1>3, SplitWord DEF Enter
<1> QED BY <1>1, <1>2, <1>4 DEF XferTypeOK, Enter, DeviceTypeOK, PCs

LEMMA CallTypes == ASSUME XferTypeOK, Call PROVE XferTypeOK'
<1>1. PICK j \in Transfers : Enter(j)
  BY XferAssumption DEF Call
<1>2. calls' \in 0..MaxCalls
  BY XferAssumption DEF XferTypeOK, Call
<1> QED BY <1>1, <1>2, EnterTypes

(* Every register of the loader and saver keeps to its bytes, and memory   *)
(* and cartridge hold bytes: no count, address or retry counter leaves its *)
(* width.                                                                  *)
THEOREM TypeCorrect == XferSpec => []XferTypeOK
<1>1. XferInit => XferTypeOK
  <2> SUFFICES ASSUME XferInit PROVE XferTypeOK
    OBVIOUS
  <2>1. 0 \in Bytes /\ 0 \in Ram /\ Split(0) \in Word
    BY EepromAssumption, SquareNat, SplitWord DEF Bytes, Ram
  <2>2. DeviceTypeOK
    BY <2>1, XferAssumption DEF XferInit, DeviceInit, DeviceTypeOK, Modes
  <2>3. Idle \in Transfers
    BY <2>1 DEF Idle, Transfers
  <2> QED BY <2>1, <2>2, <2>3, XferAssumption
          DEF XferInit, XferTypeOK, DeviceTypeOK, PCs
<1>2. XferTypeOK /\ [XferNext]_xferVars => XferTypeOK'
  <2> SUFFICES ASSUME XferTypeOK, [XferNext]_xferVars PROVE XferTypeOK'
    OBVIOUS
  <2>1. CASE Call
    BY <2>1, CallTypes
  <2>2. CASE Cpu
    BY <2>2, CpuTypes
  <2>3. CASE Environment
    <3>1. DeviceTypeOK'
      BY <2>3, DeviceTypes DEF XferTypeOK, Environment
    <3> QED BY <2>3, <3>1 DEF Environment, XferTypeOK, registers, callVars
  <2>4. CASE UNCHANGED xferVars
    BY <2>4 DEF xferVars, deviceVars, registers, callVars, XferTypeOK, DeviceTypeOK
  <2> QED BY <2>1, <2>2, <2>3, <2>4 DEF XferNext
<1> QED BY <1>1, <1>2, PTL DEF XferSpec

-----------------------------------------------------------------------------
(* Division, and numbers of two bytes.                                     *)
LEMMA Quotient ==
  ASSUME NEW d \in Nat \ {0}, NEW q \in Int, NEW r \in 0..(d - 1)
  PROVE  (d * q + r) \div d = q /\ (d * q + r) % d = r
<1> DEFINE n == d * q + r
<1>1. n \in Int
  OBVIOUS
<1>2. n = d * (n \div d) + (n % d) /\ n % d \in 0..(d - 1) /\ n \div d \in Int
  <2> HIDE DEF n
  <2>1. n % d = n - d * (n \div d)
    BY <1>1
  <2>2. n \div d \in Int /\ n % d \in 0..(d - 1)
    BY <1>1
  <2> QED BY <2>1, <2>2, <1>1
<1>3. PICK m \in Int : m = q - (n \div d)
  BY <1>2
<1>4. d * m = (n % d) - r
  BY <1>2, <1>3
<1>5. m = 0
  <2>1. CASE m >= 1
    <3>1. d * m >= d
      BY <2>1
    <3> QED BY <3>1, <1>4, <1>2
  <2>2. CASE m <= -1
    <3>1. d * m <= -d
      BY <2>2
    <3> QED BY <3>1, <1>4, <1>2
  <2> QED BY <2>1, <2>2
<1> QED BY <1>2, <1>3, <1>4, <1>5

LEMMA Remainder ==
  ASSUME NEW d \in Nat \ {0}, NEW n \in Int
  PROVE  /\ n = d * (n \div d) + (n % d)
         /\ n % d \in 0..(d - 1) /\ n \div d \in Int
<1>1. n % d = n - d * (n \div d)
  OBVIOUS
<1>2. n \div d \in Int /\ n % d \in 0..(d - 1)
  OBVIOUS
<1> QED BY <1>1, <1>2

LEMMA NatQuotient ==
  ASSUME NEW d \in Nat \ {0}, NEW n \in Nat
  PROVE  n \div d \in Nat
  OBVIOUS

LEMMA TwoDigits ==
  ASSUME NEW n \in Nat
  PROVE  n \div (B * B) = (n \div B) \div B
<1> DEFINE q == n \div B  r == n % B  h == q \div B  m == q % B
<1>1. B \in Nat \ {0} /\ B * B \in Nat \ {0}
  BY EepromAssumption, SquareNat
<1>2. n = B * q + r /\ r \in 0..(B - 1) /\ q \in Int
  BY <1>1, Remainder
<1>3. q = B * h + m /\ m \in 0..(B - 1) /\ h \in Int
  BY <1>1, <1>2, Remainder
<1> HIDE DEF q, r, h, m
<1>4. PICK t \in Int : t = B * m + r
  BY <1>1, <1>2, <1>3
<1>5. t \in 0..(B * B - 1)
  <2>1. 0 <= B * m /\ B * m <= B * (B - 1) /\ B * m \in Int
    BY <1>1, <1>3
  <2>2. B * (B - 1) = B * B - B
    BY <1>1
  <2> QED BY <1>1, <1>2, <1>4, <2>1, <2>2
<1>6. n = (B * B) * h + t
  <2>1. B * (B * h + m) = (B * B) * h + B * m
    BY <1>1, <1>3
  <2>2. (B * B) * h \in Int /\ B * m \in Int
    BY <1>1, <1>3
  <2> QED BY <1>1, <1>2, <1>3, <1>4, <2>1, <2>2
<1>7. n \div (B * B) = h
  <2> DEFINE S == B * B
  <2>1. S \in Nat \ {0} /\ t \in 0..(S - 1) /\ n = S * h + t
    BY <1>1, <1>5, <1>6
  <2> HIDE DEF S
  <2>2. n \div S = h
    BY <2>1, <1>3, Quotient
  <2> QED BY <2>2 DEF S
<1> QED BY <1>7 DEF h, q

(* A location is put together from the bytes that are sent.                *)
LEMMA LocationSent ==
  ASSUME NEW p \in Nat, p < Blocks * B * B
  PROVE  /\ (WriteCtl(p) \div 2) % Blocks = p \div (B * B)
         /\ B * (p \div (B * B)) + HighByte(p) = p \div B
         /\ B * (p \div B) + LowByte(p) = p
<1>1. B \in Nat \ {0} /\ B * B \in Nat \ {0} /\ Blocks \in Nat \ {0} /\ Select \in Nat
  BY EepromAssumption, SquareNat
<1> DEFINE S == B * B  y == p \div S
<1>2. y \in 0..(Blocks - 1)
  <2> DEFINE t == p % S
  <2>1. S \in Nat \ {0}
    BY <1>1
  <2>2. Blocks * B * B = Blocks * S
    BY <1>1
  <2> HIDE DEF S
  <2>3. p = S * y + t /\ t \in 0..(S - 1) /\ y \in Int
    BY <2>1, Remainder
  <2>4. y \in Nat
    BY <2>1
  <2> HIDE DEF t, y
  <2>5. CASE y >= Blocks
    <3>1. S * y >= S * Blocks
      BY <2>1, <2>5, <2>4, <1>1
    <3> QED BY <3>1, <2>1, <2>2, <2>3, <2>4, <1>1
  <2> QED BY <2>4, <2>5, <1>1
<1> HIDE DEF S, y
<1>3. y % Blocks = y
  BY <1>1, <1>2
<1>4. WriteCtl(p) = 2 * (Blocks * Select + y) + 0
  <2>1. WriteCtl(p) = 2 * Blocks * Select + 2 * y
    BY <1>3 DEF WriteCtl, S, y
  <2> QED BY <2>1, <1>1, <1>2
<1>5. WriteCtl(p) \div 2 = Blocks * Select + y
  <2> DEFINE c == Blocks * Select + y
  <2>1. c \in Int
    BY <1>1, <1>2
  <2> HIDE DEF c
  <2>2. (2 * c + 0) \div 2 = c
    BY <2>1
  <2> QED BY <2>2, <1>4 DEF c
<1>6. (WriteCtl(p) \div 2) % Blocks = y
  <2>1. Select \in Int
    BY <1>1
  <2>2. (Blocks * Select + y) % Blocks = y
    BY <2>1, <1>1, <1>2, Quotient
  <2> QED BY <2>2, <1>5
<1>7. y = (p \div B) \div B
  BY TwoDigits DEF y, S
<1>8. p \div B \in Int /\ p \div B = B * ((p \div B) \div B) + ((p \div B) % B)
  BY <1>1, Remainder
<1>9. p = B * (p \div B) + (p % B)
  BY <1>1, Remainder
<1> QED BY <1>6, <1>7, <1>8, <1>9 DEF S, y, HighByte, LowByte

LEMMA SplitValue ==
  ASSUME NEW n \in Ram
  PROVE  Split(n) \in Word /\ Value(Split(n)) = n
<1>1. B \in Nat \ {0} /\ B * B \in Nat \ {0} /\ n \in Nat /\ n < B * B
  BY EepromAssumption, SquareNat DEF Ram
<1>2. n = B * (n \div B) + (n % B) /\ n % B \in 0..(B - 1) /\ n \div B \in Nat
  <2>1. n \in Int /\ n \in Nat
    BY <1>1
  <2>2. n = B * (n \div B) + (n % B) /\ n % B \in 0..(B - 1)
    BY <2>1, <1>1, Remainder
  <2>3. n \div B \in Nat
    BY <2>1, <1>1, NatQuotient
  <2> QED BY <2>2, <2>3
<1>3. n \div B < B
  <2> DEFINE q == n \div B
  <2>1. q \in Nat /\ B * q <= n
    BY <1>2, <1>1
  <2> HIDE DEF q
  <2>2. CASE q >= B
    <3>1. B * q >= B * B
      BY <2>1, <2>2, <1>1
    <3> QED BY <3>1, <2>1, <1>1
  <2> QED BY <2>1, <2>2, <1>1 DEF q
<1>4. HighByte(n) = n \div B
  <2>1. n \div B \in 0..(B - 1)
    BY <1>2, <1>3, <1>1
  <2>2. \A q \in 0..(B - 1) : q % B = q
    BY <1>1
  <2> QED BY <2>1, <2>2 DEF HighByte
<1>5. Split(n) = [lo |-> n % B, hi |-> n \div B]
  BY <1>4 DEF Split
<1>6. n \in Int
  BY <1>1
<1> QED BY <1>2, <1>5, <1>6, SplitWord DEF Value

LEMMA DecNumber ==
  ASSUME NEW b \in Bytes
  PROVE  Dec(b) = IF b = 0 THEN B - 1 ELSE b - 1
<1>1. B \in Nat \ {0} /\ b \in 0..(B - 1)
  BY EepromAssumption DEF Bytes
<1>2. CASE b = 0
  <2>1. (B - 1) % B = B - 1
    BY <1>1
  <2> QED BY <1>2, <2>1, <1>1 DEF Dec
<1>3. CASE b # 0
  <2>1. b + B - 1 = B * 1 + (b - 1) /\ b - 1 \in 0..(B - 1)
    BY <1>1, <1>3
  <2>2. (B * 1 + (b - 1)) % B = b - 1
    BY <2>1, <1>1, Quotient
  <2> QED BY <2>1, <2>2, <1>3 DEF Dec
<1> QED BY <1>2, <1>3

(* dec of the low byte, and of the high one where the low one wraps.       *)
LEMMA CountDown ==
  ASSUME NEW c \in Word, Value(c) > 0, NEW lo, lo = Dec(c.lo), NEW hi,
         hi = IF lo = B - 1 THEN Dec(c.hi) ELSE c.hi
  PROVE  /\ Value([lo |-> lo, hi |-> hi]) = Value(c) - 1
         /\ lo = 0 /\ c.hi = 0 <=> Value(c) = 1
<1>1. B \in Nat \ {0, 1} /\ c.lo \in 0..(B - 1) /\ c.hi \in 0..(B - 1)
      /\ c.lo \in Bytes /\ c.hi \in Bytes
  BY EepromAssumption DEF Bytes, Word
<1>2. Value(c) = B * c.hi + c.lo
  BY DEF Value
<1>3. Value([lo |-> lo, hi |-> hi]) = B * hi + lo
  BY DEF Value
<1>4. lo = IF c.lo = 0 THEN B - 1 ELSE c.lo - 1
  BY <1>1, DecNumber
<1>5. CASE c.lo = 0
  <2>1. c.hi # 0
    BY <1>1, <1>2, <1>5, SMTT(30)
  <2>2. lo = B - 1
    BY <1>4, <1>5, SMTT(30)
  <2>3. hi = Dec(c.hi) /\ Dec(c.hi) = c.hi - 1
    BY <2>1, <2>2, <1>1, DecNumber
  <2>4. B * (c.hi - 1) = B * c.hi - B
    BY <1>1
  <2>5. B * c.hi >= B /\ B * c.hi \in Int
    BY <2>1, <1>1
  <2>6. PICK t \in Int : t = B * c.hi
    BY <2>5
  <2>7. Value(c) = t /\ B * hi = t - B /\ t >= B
    BY <1>2, <1>5, <2>3, <2>4, <2>5, <2>6, <1>1
  <2>8. Value([lo |-> lo, hi |-> hi]) = t - B + (B - 1)
    BY <1>3, <2>2, <2>7
  <2> QED BY <1>1, <2>1, <2>2, <2>7, <2>8
<1>6. CASE c.lo # 0
  <2>1. hi = c.hi /\ lo = c.lo - 1
    BY <1>1, <1>4, <1>6
  <2>2. B * c.hi \in Nat /\ (c.hi # 0 => B * c.hi >= B) /\ (c.hi = 0 => B * c.hi = 0)
    BY <1>1
  <2>3. PICK t \in Nat : t = B * c.hi
    BY <2>2
  <2>4. Value(c) = t + c.lo /\ Value([lo |-> lo, hi |-> hi]) = t + lo
    BY <1>2, <1>3, <2>1, <2>3
  <2> QED BY <1>1, <1>6, <2>1, <2>2, <2>3, <2>4
<1> QED BY <1>5, <1>6

-----------------------------------------------------------------------------
(* What a load does.                                                       *)

Loaded(k) ==
    [i \in Ram |-> IF i \in job.addr..(job.addr + k - 1)
                   THEN mem0[(job.loc + i - job.addr) % Size] ELSE ram0[i]]

LoadPCs == {"ready", "l_start", "loc2", "loc1", "loc0", "l_resta", "l_ctl",
            "l_byte", "l_last", "l_ack", "l_nak", "stop"}

Locating == pc \in {"l_start", "loc2", "loc1", "loc0", "l_resta", "l_ctl"}

(* The address pointer while the location is sent.                         *)
PointerInv ==
    /\ pc = "loc1" => ptr = loc \div (B * B)
    /\ pc = "loc0" => ptr = loc \div B
    /\ pc \in {"l_resta", "l_ctl"} => ptr = loc

(* The byte under way is the one at k of the load.                         *)
ByteInv ==
    LET k == addr - job.addr  before == pc \in {"l_byte", "l_last"} IN
    /\ k \in 0..(job.n - 1)
    /\ Value(cnt) = job.n - k - 1
    /\ pc \in {"l_last", "l_nak"} <=> k = job.n - 1
    /\ before => ptr = loc + k /\ ram = Loaded(k)
    /\ ~before => ptr = loc + k + 1 /\ ram = Loaded(k + 1)

LoadInv ==
    calls > 0 /\ job.op = "load" =>
        /\ job \in Jobs /\ loc = job.loc /\ mem = mem0 /\ pc \in LoadPCs
        /\ Locating => cnt = Split(job.n) /\ addr = job.addr /\ ram = ram0
        /\ present => /\ PointerInv
                      /\ pc \in {"l_byte", "l_last", "l_ack", "l_nak"} => ByteInv
                      /\ pc \in {"stop", "ready"} /\ result = 0
                         => ram = Loaded(job.n)

LEMMA LoadFacts ==
  ASSUME LoadsFit, job \in Jobs, job.op = "load"
  PROVE  /\ job.loc \in Nat /\ job.n \in Nat /\ job.n > 0 /\ job.n \in Ram
         /\ job.n % B # 0 /\ job.addr \in Nat /\ job.addr + job.n <= B * B
         /\ job.loc < Blocks * B * B
<1>1. job \in Transfers /\ job.loc + job.n <= Blocks * B * B
  BY XferAssumption
<1>2. job.loc \in Nat /\ job.n \in Ram /\ job.addr \in Ram
  BY <1>1 DEF Transfers
<1>3. job.n \in Nat /\ job.addr \in Nat
  BY <1>2, SquareNat DEF Ram
<1>4. job.n % B # 0 /\ job.addr + job.n <= B * B
  BY DEF LoadsFit
<1>5. 0 % B = 0
  BY EepromAssumption
<1>6. job.n # 0
  BY <1>4, <1>5
<1>7. Blocks * B * B \in Nat
  BY EepromAssumption, SquareNat
<1> QED BY <1>1, <1>2, <1>3, <1>4, <1>6, <1>7

LEMMA LoadedNone == ASSUME XferTypeOK, job \in Jobs PROVE Loaded(0) = ram0
<1>1. job.addr \in Nat
  BY XferAssumption, SquareNat DEF Transfers, Ram
<1>2. job.addr..(job.addr + 0 - 1) = {}
  BY <1>1
<1> QED BY <1>2 DEF Loaded, XferTypeOK

LEMMA LoadedMore ==
  ASSUME LoadsFit, job \in Jobs, job.op = "load", NEW k \in 0..(job.n - 1)
  PROVE  Loaded(k + 1) = [Loaded(k) EXCEPT ![job.addr + k] =
                            mem0[(job.loc + k) % Size]]
<1>1. job.addr \in Nat /\ job.loc \in Nat /\ job.n \in Nat
  BY LoadFacts
<1>2. job.addr..(job.addr + (k + 1) - 1)
        = job.addr..(job.addr + k - 1) \cup {job.addr + k}
  BY <1>1
<1>3. job.loc + (job.addr + k) - job.addr = job.loc + k
  BY <1>1
<1>4. job.addr + k \notin job.addr..(job.addr + k - 1)
  BY <1>1
<1> DEFINE e == mem0[(job.loc + k) % Size]
<1>5. ASSUME NEW i \in Ram
      PROVE  Loaded(k + 1)[i] = [Loaded(k) EXCEPT ![job.addr + k] = e][i]
  BY <1>2, <1>3, <1>4 DEF Loaded
<1>6. Loaded(k + 1) = [i \in Ram |-> Loaded(k + 1)[i]]
  BY DEF Loaded
<1>7. [Loaded(k) EXCEPT ![job.addr + k] = e]
        = [i \in Ram |-> [Loaded(k) EXCEPT ![job.addr + k] = e][i]]
  BY DEF Loaded
<1> QED BY <1>5, <1>6, <1>7

LEMMA LoadedSame ==
  ASSUME UNCHANGED <<job, mem0, ram0>>, NEW k
  PROVE  Loaded(k)' = Loaded(k)
  BY DEF Loaded

(* The end of a load's call to SendCtl or SendAddr.                        *)
LEMMA LoadRefused ==
  ASSUME LoadInv, NEW b, Nak(b), UNCHANGED <<ram, callVars, mem>>, pc # "ready"
  PROVE  LoadInv'
<1> SUFFICES ASSUME calls > 0, job.op = "load" PROVE LoadInv'
  BY DEF LoadInv, callVars
<1>1. pc' = "stop" /\ result' = 1 /\ UNCHANGED <<loc, cnt, addr>>
  BY DEF Nak
<1> QED BY <1>1 DEF LoadInv, LoadPCs, Locating, PointerInv, callVars

LEMMA LoadLocates ==
  ASSUME LoadsFit, XferTypeOK, InProtocol, LoadInv, SendLoc2 \/ SendLoc1 \/ SendLoc0
  PROVE  LoadInv'
<1> SUFFICES ASSUME calls > 0, job.op = "load" PROVE LoadInv'
  BY DEF LoadInv, SendLoc2, SendLoc1, SendLoc0, Locate, callVars
<1>1. /\ job \in Jobs /\ loc = job.loc /\ mem = mem0 /\ pc \in LoadPCs
      /\ Locating /\ cnt = Split(job.n) /\ addr = job.addr /\ ram = ram0
      /\ present => PointerInv
  BY DEF LoadInv, SendLoc2, SendLoc1, SendLoc0, Locate, Locating
<1>2. UNCHANGED <<ram, callVars, mem, present>>
  BY DEF SendLoc2, SendLoc1, SendLoc0, Locate, SendCtl, SendAddr
<1>3. CASE reply' # 0
  <2>1. \E b : Nak(b)
    BY <1>3 DEF SendLoc2, SendLoc1, SendLoc0, Locate
  <2>2. pc # "ready"
    BY DEF SendLoc2, SendLoc1, SendLoc0, Locate
  <2> QED BY <2>1, <2>2, <1>2, LoadRefused
<1>4. CASE reply' = 0
  <2>1. UNCHANGED registers
    BY <1>4 DEF SendLoc2, SendLoc1, SendLoc0, Locate
  <2>2. loc \in Nat /\ loc < Blocks * B * B
    BY <1>1, LoadFacts
  <2>3. /\ (WriteCtl(loc) \div 2) % Blocks = loc \div (B * B)
        /\ B * (loc \div (B * B)) + HighByte(loc) = loc \div B
        /\ B * (loc \div B) + LowByte(loc) = loc
    BY <2>2, LocationSent
  <2>4. pc' \in {"loc1", "loc0", "l_resta"}
    BY <1>4 DEF SendLoc2, SendLoc1, SendLoc0, Locate
  <2>5. present' => PointerInv'
    <3> SUFFICES ASSUME present PROVE PointerInv'
      BY <1>2
    <3>1. CASE SendLoc2
      <4>1. pc' = "loc1" /\ mode = "ctl"
        BY <3>1, <1>4 DEF SendLoc2, Locate, InProtocol
      <4>2. ptr' = (WriteCtl(loc) \div 2) % Blocks
        BY <3>1, <4>1, <1>4 DEF SendLoc2, SendCtl, Acked
      <4> QED BY <4>1, <4>2, <2>1, <2>3 DEF PointerInv, registers
    <3>2. CASE SendLoc1
      <4>1. pc' = "loc0" /\ ptr = loc \div (B * B)
        BY <3>2, <1>1, <1>4 DEF SendLoc1, Locate, PointerInv
      <4>2. ptr' = B * ptr + HighByte(loc)
        BY <3>2 DEF SendLoc1, SendAddr
      <4> QED BY <4>1, <4>2, <2>1, <2>3 DEF PointerInv, registers
    <3>3. CASE SendLoc0
      <4>1. pc' = "l_resta" /\ ptr = loc \div B
        BY <3>3, <1>1, <1>4 DEF SendLoc0, Locate, PointerInv
      <4>2. ptr' = B * ptr + LowByte(loc)
        BY <3>3 DEF SendLoc0, SendAddr
      <4> QED BY <4>1, <4>2, <2>1, <2>3 DEF PointerInv, registers
    <3> QED BY <3>1, <3>2, <3>3
  <2> QED BY <1>1, <1>2, <2>1, <2>4, <2>5
          DEF LoadInv, LoadPCs, Locating, registers, callVars
<1> QED BY <1>3, <1>4

LEMMA LoadBegins ==
  ASSUME LoadsFit, XferTypeOK, InProtocol, LoadInv, LoadCtl
  PROVE  LoadInv'
<1> SUFFICES ASSUME calls > 0, job.op = "load" PROVE LoadInv'
  BY DEF LoadInv, LoadCtl, callVars
<1>1. /\ job \in Jobs /\ loc = job.loc /\ mem = mem0 /\ (present => ptr = loc)
      /\ cnt = Split(job.n) /\ addr = job.addr /\ ram = ram0
  BY DEF LoadInv, LoadCtl, Locating, PointerInv
<1>2. UNCHANGED <<ram, callVars, mem, present, loc, addr>>
  BY DEF LoadCtl, SendCtl
<1>3. CASE reply' = 1
  BY <1>1, <1>2, <1>3 DEF LoadCtl, LoadInv, LoadPCs, Locating, PointerInv, callVars
<1>4. CASE reply' # 1
  <2> DEFINE lo == Dec(cnt.lo)
  <2>1. /\ cnt' = [cnt EXCEPT !.lo = lo]
        /\ pc' = IF lo = 0 /\ cnt.hi = 0 THEN "l_last" ELSE "l_byte"
    BY <1>4 DEF LoadCtl
  <2>2. job.n \in Ram /\ job.n > 0 /\ job.n % B # 0 /\ job.n \in Nat
    BY <1>1, LoadFacts
  <2>3. cnt \in Word /\ Value(cnt) = job.n /\ cnt.lo = job.n % B
    BY <1>1, <2>2, SplitValue DEF Split
  <2>4. cnt.lo \in Bytes /\ cnt.lo # 0
    BY <2>2, <2>3 DEF Word
  <2>5. lo # B - 1
    BY <2>4, DecNumber, EepromAssumption DEF Bytes
  <2>6. cnt' = [lo |-> lo, hi |-> cnt.hi]
    BY <2>1, <2>3 DEF Word
  <2>7. Value(cnt') = job.n - 1 /\ (lo = 0 /\ cnt.hi = 0 <=> job.n = 1)
    BY <2>2, <2>3, <2>5, <2>6, CountDown
  <2>8. present => ptr' = loc /\ ptr = loc
    BY <1>1, <1>4 DEF LoadCtl, SendCtl, Acked, InProtocol
  <2>9. Loaded(0)' = ram0
    <3>1. Loaded(0)' = Loaded(0)
      BY <1>2, LoadedSame DEF callVars
    <3> QED BY <3>1, <1>1, LoadedNone
  <2>10. present' => ByteInv'
    <3> SUFFICES ASSUME present PROVE ByteInv'
      BY <1>2
    <3>1. addr' - job'.addr = 0 /\ loc' + 0 = loc' /\ job' = job
      BY <1>1, <1>2, LoadFacts DEF callVars
    <3>2. pc' \in {"l_byte", "l_last"} /\ (pc' = "l_last" <=> job.n = 1)
      BY <2>1, <2>7
    <3> QED BY <1>1, <1>2, <2>2, <2>7, <2>8, <2>9, <3>1, <3>2
            DEF ByteInv
  <2>11. pc' \in {"l_last", "l_byte"}
    BY <2>1
  <2> QED BY <1>1, <1>2, <2>10, <2>11
          DEF LoadInv, LoadPCs, Locating, PointerInv, callVars
<1> QED BY <1>3, <1>4

LEMMA LoadTurns ==
  ASSUME LoadsFit, XferTypeOK, InProtocol, LoadInv, LoadByte \/ LoadAck \/ LoadNak
  PROVE  LoadInv'
<1> SUFFICES ASSUME calls > 0, job.op = "load" PROVE LoadInv'
  BY DEF LoadInv, LoadByte, LoadAck, LoadNak, callVars
<1>1. /\ job \in Jobs /\ loc = job.loc /\ mem = mem0
      /\ present => ByteInv
  BY DEF LoadInv, LoadByte, LoadAck, LoadNak
<1>2. UNCHANGED <<callVars, mem, present, loc>>
  BY DEF LoadByte, LoadAck, LoadNak, Get, Ack, registers
<1>3. /\ job.loc \in Nat /\ job.n \in Nat /\ job.n > 0 /\ job.addr \in Nat
      /\ job.addr + job.n <= B * B
  BY <1>1, LoadFacts
<1>4. pc' \in {"l_byte", "l_last", "l_ack", "l_nak", "stop"}
  BY DEF LoadByte, LoadAck, LoadNak, AfterDec
<1>5. CASE ~present
  BY <1>1, <1>2, <1>4, <1>5 DEF LoadInv, LoadPCs, Locating, callVars
<1> SUFFICES ASSUME present PROVE LoadInv'
  BY <1>5
<1>6. PICK k \in Int : k = addr - job.addr
  BY <1>3, SquareNat DEF XferTypeOK, Ram
<1>7. /\ k \in 0..(job.n - 1) /\ Value(cnt) = job.n - k - 1
      /\ pc \in {"l_last", "l_nak"} <=> k = job.n - 1
      /\ pc \in {"l_byte", "l_last"} => ptr = loc + k /\ ram = Loaded(k)
      /\ pc \notin {"l_byte", "l_last"} => ptr = loc + k + 1 /\ ram = Loaded(k + 1)
  BY <1>1, <1>6 DEF ByteInv
<1>8. \A m : Loaded(m)' = Loaded(m)
  BY <1>2, LoadedSame DEF callVars
<1>9. addr \in Ram /\ addr \in Int /\ cnt \in Word /\ addr = job.addr + k /\ loc \in Nat
  BY <1>6, <1>3, SquareNat DEF XferTypeOK, Ram
<1>10. CASE LoadByte
  <2>1. /\ pc \in {"l_byte", "l_last"} /\ UNCHANGED <<addr, cnt, loc>>
        /\ pc' = IF pc = "l_byte" THEN "l_ack" ELSE "l_nak"
        /\ ram' = [ram EXCEPT ![addr] = mem[ptr % Size]] /\ ptr' = ptr + 1
    BY <1>10 DEF LoadByte, Get, registers
  <2>2. ram' = Loaded(k + 1)
    <3>1. ram' = [Loaded(k) EXCEPT ![job.addr + k] = mem0[(job.loc + k) % Size]]
      BY <1>1, <1>7, <1>9, <2>1
    <3> QED BY <3>1, <1>1, <1>7, LoadedMore
  <2>3. ByteInv'
    <3>1. addr' - job'.addr = k /\ job' = job /\ ram' = Loaded(k + 1)'
      BY <1>2, <1>6, <1>8, <2>1, <2>2 DEF callVars
    <3>2. pc' \in {"l_ack", "l_nak"} /\ (pc' = "l_nak" <=> pc = "l_last")
      BY <2>1
    <3>3. ptr' = loc + k + 1
      BY <1>7, <1>9, <2>1
    <3> QED BY <1>2, <1>7, <2>1, <3>1, <3>2, <3>3 DEF ByteInv
  <2> QED BY <1>1, <1>2, <2>1, <2>3
          DEF LoadInv, LoadPCs, Locating, PointerInv, callVars
<1>11. CASE LoadAck
  <2>1. /\ pc = "l_ack" /\ addr' = (addr + 1) % (B * B) /\ ptr' = ptr
        /\ UNCHANGED <<ram, loc>> /\ AfterDec(Dec(cnt.lo), cnt.hi)
    BY <1>11 DEF LoadAck, Ack
  <2>2. k # job.n - 1 /\ k + 1 \in 0..(job.n - 1)
    BY <1>7, <2>1, <1>3
  <2>3. addr' = addr + 1
    <3>1. addr + 1 < B * B /\ addr + 1 \in Nat /\ B * B \in Nat
      BY <1>3, <1>9, <2>2, SquareNat
    <3> DEFINE S == B * B
    <3> HIDE DEF S
    <3>2. \A a \in Nat : S \in Nat /\ a < S => a % S = a
      OBVIOUS
    <3> QED BY <3>1, <3>2, <2>1 DEF S
  <2> DEFINE lo == Dec(cnt.lo)  hi == IF lo = B - 1 THEN Dec(cnt.hi) ELSE cnt.hi
  <2>4. cnt' = [lo |-> lo, hi |-> hi]
        /\ pc' = IF lo = 0 /\ cnt.hi = 0 THEN "l_last" ELSE "l_byte"
    BY <2>1 DEF AfterDec
  <2>5. Value(cnt) > 0
    BY <1>7, <2>2, <1>3
  <2>6. Value(cnt') = job.n - k - 2 /\ (lo = 0 /\ cnt.hi = 0 <=> job.n - k - 1 = 1)
    <3>1. Value([lo |-> lo, hi |-> hi]) = Value(cnt) - 1
          /\ (lo = 0 /\ cnt.hi = 0 <=> Value(cnt) = 1)
      BY <1>9, <2>5, CountDown
    <3> QED BY <3>1, <2>4, <1>7, <1>3
  <2>7. ByteInv'
    <3>1. addr' - job'.addr = k + 1 /\ job' = job
      BY <2>3, <1>2, <1>3, <1>9 DEF callVars
    <3>2. pc' \in {"l_byte", "l_last"} /\ (pc' = "l_last" <=> k + 1 = job.n - 1)
      BY <2>4, <2>6, <1>3, <1>7
    <3>3. ptr' = loc + (k + 1) /\ ram' = Loaded(k + 1)'
      BY <1>7, <1>8, <1>9, <2>1
    <3> QED BY <1>2, <1>3, <1>7, <2>1, <2>2, <2>6, <3>1, <3>2, <3>3 DEF ByteInv
  <2>8. pc' \in {"l_byte", "l_last"}
    BY <2>4
  <2> QED BY <1>1, <1>2, <2>7, <2>8
          DEF LoadInv, LoadPCs, Locating, PointerInv, callVars
<1>12. CASE LoadNak
  <2>1. pc = "l_nak" /\ pc' = "stop" /\ UNCHANGED ram
    BY <1>12 DEF LoadNak
  <2>2. k + 1 = job.n /\ ram = Loaded(k + 1)
    BY <1>7, <2>1, <1>3
  <2>3. Loaded(job.n)' = Loaded(job.n)
    BY <1>2 DEF Loaded, callVars
  <2> QED BY <1>1, <1>2, <2>1, <2>2, <2>3
          DEF LoadInv, LoadPCs, Locating, PointerInv, callVars
<1> QED BY <1>10, <1>11, <1>12

LEMMA LoadCpu ==
  ASSUME LoadsFit, XferTypeOK, InProtocol, LoadInv, Cpu
  PROVE  LoadInv'
<1>1. CASE SendLoc2 \/ SendLoc1 \/ SendLoc0
  BY <1>1, LoadLocates
<1>2. CASE LoadCtl
  BY <1>2, LoadBegins
<1>3. CASE LoadByte \/ LoadAck \/ LoadNak
  BY <1>3, LoadTurns
<1>4. CASE LoadStart \/ LoadRestart
  BY <1>4 DEF LoadStart, LoadRestart, Start, Restart, Goto, registers, callVars,
              LoadInv, LoadPCs, Locating, PointerInv
<1>5. CASE EndTransfer
  <2> SUFFICES ASSUME calls > 0, job.op = "load" PROVE LoadInv'
    BY <1>5 DEF LoadInv, EndTransfer, Goto, callVars
  <2>1. /\ pc = "stop" /\ pc' = "ready" /\ UNCHANGED <<registers, ram, callVars>>
        /\ UNCHANGED <<mem, present>>
    BY <1>5 DEF EndTransfer, Goto, Stop
  <2>2. Loaded(job.n)' = Loaded(job.n)
    BY <2>1 DEF callVars, Loaded
  <2> QED BY <2>1, <2>2 DEF LoadInv, LoadPCs, Locating, PointerInv, registers, callVars
<1>6. CASE SaveBlock \/ NextStop \/ NextStart \/ SaveByte \/ SaveNext
  <2>1. pc \notin LoadPCs
    BY <1>6 DEF SaveBlock, NextStop, NextStart, SaveByte, SaveNext, LoadPCs
  <2>2. UNCHANGED callVars
    BY <1>6 DEF SaveBlock, NextStop, NextStart, SaveByte, SaveNext, Goto
  <2> QED BY <2>1, <2>2 DEF LoadInv, callVars
<1> QED BY <1>1, <1>2, <1>3, <1>4, <1>5, <1>6 DEF Cpu

-----------------------------------------------------------------------------
(* What a save does.                                                       *)

SavePCs == {"ready", "s_block", "n_stop", "n_start", "loc2", "loc1", "loc0",
            "s_byte", "stop", "s_next"}

(* Where the block begins, from the beginning of the save.                 *)
Begun == loc - job.loc

BlockInv ==
    /\ saved \in 1..(job.n - Begun)
    /\ saved <= bsz - (loc % bsz)
    /\ saved < job.n - Begun => saved = bsz - (loc % bsz)

(* The byte under way is the one at m of the block.                        *)
TurnInv ==
    LET m == addr - job.addr - Begun IN
    /\ m \in 0..(saved - 1)
    /\ Value(blk) = saved - m
    /\ mem = Overlay(Begun + m)
    /\ present => ptr = loc + m

SaveInv ==
    calls > 0 /\ job.op = "save" =>
        /\ job \in Jobs /\ ram = ram0 /\ pc \in SavePCs
        /\ pc # "ready" => Begun \in 0..(job.n - 1) /\ Value(cnt) = job.n - Begun
        /\ pc = "s_block" =>
            /\ blk = Split(bsz - (loc % bsz))
            /\ addr = job.addr + Begun /\ mem = Overlay(Begun)
        /\ pc \notin {"ready", "s_block"} /\ (pc = "stop" => result = 0) => BlockInv
        /\ pc \in {"n_stop", "n_start", "loc2", "loc1", "loc0"} =>
            /\ Value(blk) = saved
            /\ addr = job.addr + Begun /\ mem = Overlay(Begun)
            /\ present => PointerInv
        /\ pc = "s_byte" => TurnInv
        /\ pc \in {"stop", "s_next"} /\ result = 0 =>
            /\ addr = (job.addr + Begun + saved) % (B * B)
            /\ mem = Overlay(Begun + saved)
        /\ pc = "s_next" => result = 0
        /\ pc \in {"stop", "ready"} /\ result = 1 =>
            \E k \in 0..job.n : mem = Overlay(k)
        /\ pc = "ready" /\ result = 0 => mem = Overlay(job.n)

LEMMA SaveFacts ==
  ASSUME SavesFit, XferTypeOK, job \in Jobs, job.op = "save"
  PROVE  /\ job.loc \in Nat /\ job.n \in Nat /\ job.n > 0 /\ job.n \in Ram
         /\ job.addr \in Nat /\ job.addr + job.n <= B * B
         /\ job.loc + job.n <= Size /\ job.loc + job.n <= Blocks * B * B
         /\ Size \in Nat \ {0} /\ bsz \in Nat \ {0} /\ bsz < B /\ B \in Nat \ {0}
         /\ PageSize # 0 => PageSize % bsz = 0
<1>1. job \in Transfers /\ job.loc + job.n <= Blocks * B * B
  BY XferAssumption
<1>2. job.loc \in Nat /\ job.n \in Ram /\ job.addr \in Ram
  BY <1>1 DEF Transfers
<1>3. job.n \in Nat /\ job.addr \in Nat
  BY <1>2, SquareNat DEF Ram
<1>4. bsz \in Ram \ {0} /\ bsz \in BlockSizes
  BY XferAssumption DEF XferTypeOK
<1>5. bsz \in Nat
  BY <1>4, SquareNat DEF Ram
<1> QED BY <1>1, <1>2, <1>3, <1>4, <1>5, EepromAssumption DEF SavesFit

LEMMA OverlayNone == ASSUME XferTypeOK, job \in Jobs PROVE Overlay(0) = mem0
<1>1. job.loc \in Nat
  BY XferAssumption DEF Transfers
<1>2. job.loc..(job.loc + 0 - 1) = {}
  BY <1>1
<1> QED BY <1>2 DEF Overlay, XferTypeOK

LEMMA OverlayMore ==
  ASSUME SavesFit, XferTypeOK, job \in Jobs, job.op = "save",
         NEW k \in 0..(job.n - 1)
  PROVE  Overlay(k + 1) = [Overlay(k) EXCEPT ![job.loc + k] = ram0[job.addr + k]]
<1>1. job.addr \in Nat /\ job.loc \in Nat /\ job.n \in Nat /\ Size \in Nat
  BY SaveFacts
<1>2. job.loc..(job.loc + (k + 1) - 1)
        = job.loc..(job.loc + k - 1) \cup {job.loc + k}
  BY <1>1
<1>3. job.addr + (job.loc + k) - job.loc = job.addr + k
  BY <1>1
<1>4. job.loc + k \notin job.loc..(job.loc + k - 1)
  BY <1>1
<1> DEFINE e == ram0[job.addr + k]
<1>5. ASSUME NEW i \in 0..(Size - 1)
      PROVE  Overlay(k + 1)[i] = [Overlay(k) EXCEPT ![job.loc + k] = e][i]
  BY <1>2, <1>3, <1>4 DEF Overlay
<1>6. Overlay(k + 1) = [i \in 0..(Size - 1) |-> Overlay(k + 1)[i]]
  BY DEF Overlay
<1>7. [Overlay(k) EXCEPT ![job.loc + k] = e]
        = [i \in 0..(Size - 1) |-> [Overlay(k) EXCEPT ![job.loc + k] = e][i]]
  BY DEF Overlay
<1> QED BY <1>5, <1>6, <1>7

LEMMA OverlaySame ==
  ASSUME UNCHANGED <<job, mem0, ram0>>, NEW k
  PROVE  Overlay(k)' = Overlay(k)
  BY DEF Overlay

(* A location inside a block of b bytes, and one after it.                 *)
LEMMA InBlock ==
  ASSUME NEW b \in Nat \ {0}, NEW p \in Nat, NEW m \in Nat,
         (p % b) + m <= b
  PROVE  /\ p % b \in 0..(b - 1)
         /\ m + (p % b) < b => (p + m) % b = (p % b) + m
         /\ m + (p % b) = b => (p + m) % b = 0
<1> DEFINE q == p \div b  r == p % b
<1>1. p = b * q + r /\ r \in 0..(b - 1) /\ q \in Int
  BY Remainder
<1>2. r + m <= b
  OBVIOUS
<1> HIDE DEF q, r
<1>3. CASE m + r < b
  <2>1. p + m = b * q + (r + m) /\ r + m \in 0..(b - 1)
    BY <1>1, <1>3
  <2>2. (b * q + (r + m)) % b = r + m
    BY <2>1, <1>1, Quotient
  <2> QED BY <2>1, <2>2, <1>1, <1>3 DEF r
<1>4. CASE m + r = b
  <2>1. b * (q + 1) = b * q + b
    BY <1>1
  <2>2. p + m = b * (q + 1) + 0 /\ q + 1 \in Int /\ 0 \in 0..(b - 1)
    BY <1>1, <1>4, <2>1
  <2>3. (b * (q + 1) + 0) % b = 0
    BY <2>2, Quotient
  <2> QED BY <2>2, <2>3, <1>1, <1>4 DEF r
<1> QED BY <1>1, <1>2, <1>3, <1>4 DEF r

(* A page that is made of whole blocks ends where a block does.            *)
LEMMA NextInBlock ==
  ASSUME NEW b \in Nat \ {0}, NEW p \in Nat,
         PageSize # 0 => PageSize % b = 0, (p + 1) % b # 0
  PROVE  NextWrite(p) = p + 1
<1>1. CASE PageSize = 0
  BY <1>1 DEF NextWrite
<1>2. CASE PageSize # 0
  <2>1. PageSize \in Nat \ {0}
    BY <1>2, EepromAssumption
  <2> DEFINE t == PageSize \div b
  <2>2. PageSize = b * t /\ t \in Int
    <3>1. PageSize = b * t + (PageSize % b) /\ t \in Int
      BY <2>1, Remainder
    <3> HIDE DEF t
    <3>2. b * t \in Int
      BY <3>1
    <3> QED BY <3>1, <3>2, <1>2
  <2> HIDE DEF t
  <2>3. PICK q \in Int, r \in 0..(PageSize - 1) : p = PageSize * q + r
    <3>1. p = PageSize * (p \div PageSize) + (p % PageSize)
          /\ p % PageSize \in 0..(PageSize - 1) /\ p \div PageSize \in Int
      BY <2>1, Remainder
    <3> QED BY <3>1
  <2>4. r + 1 # PageSize
    <3> SUFFICES ASSUME r + 1 = PageSize PROVE FALSE
      OBVIOUS
    <3>1. PageSize * (q + 1) = PageSize * q + PageSize
      BY <2>1
    <3>2. p + 1 = (b * t) * (q + 1)
      BY <3>1, <2>1, <2>2, <2>3
    <3>3. (b * t) * (q + 1) = b * (t * (q + 1)) + 0
      BY <2>2
    <3>4. t * (q + 1) \in Int /\ 0 \in 0..(b - 1)
      BY <2>2
    <3>5. (b * (t * (q + 1)) + 0) % b = 0
      BY <3>4, Quotient
    <3> QED BY <3>2, <3>3, <3>5
  <2>5. PageSize * q \in Int /\ r + 1 \in 0..(PageSize - 1)
    BY <2>1, <2>4
  <2>6. p % PageSize = r
    BY <2>1, <2>3, Quotient
  <2>7. p + 1 = PageSize * q + (r + 1)
    BY <2>3, <2>5
  <2>8. (PageSize * q + (r + 1)) % PageSize = r + 1
    BY <2>1, <2>5, Quotient
  <2>9. (p + 1) % PageSize = r + 1
    BY <2>7, <2>8
  <2> QED BY <2>6, <2>9, <1>2 DEF NextWrite
<1> QED BY <1>1, <1>2

(* The place of the block under way.                                       *)
LEMMA BlockFacts ==
  ASSUME SavesFit, XferTypeOK, job \in Jobs, job.op = "save",
         Begun \in 0..(job.n - 1), BlockInv
  PROVE  /\ loc = job.loc + Begun /\ loc \in Nat /\ Begun \in Nat
         /\ loc < Size /\ loc < Blocks * B * B
         /\ saved \in Nat /\ saved > 0 /\ Begun + saved <= job.n
         /\ saved < B /\ (loc % bsz) + saved <= bsz
         /\ loc % bsz \in 0..(bsz - 1)
<1>1. /\ job.loc \in Nat /\ job.n \in Nat /\ bsz \in Nat \ {0} /\ bsz < B
      /\ B \in Nat /\ job.loc + job.n <= Size /\ Size \in Nat
      /\ job.loc + job.n <= Blocks * B * B
  BY SaveFacts
<1>2. loc \in Nat /\ Blocks * B * B \in Nat
  BY EepromAssumption, SquareNat DEF XferTypeOK
<1>3. loc % bsz \in 0..(bsz - 1)
  BY <1>1, <1>2, Remainder
<1>4. saved \in 1..(job.n - Begun) /\ saved <= bsz - (loc % bsz)
  BY DEF BlockInv
<1>5. loc = job.loc + Begun /\ Begun \in Nat
  BY <1>1, <1>2 DEF Begun
<1> QED BY <1>1, <1>2, <1>3, <1>4, <1>5

LEMMA SaveFails ==
  ASSUME SaveInv, calls > 0, job.op = "save", pc \notin {"ready", "s_block"},
         pc' = "stop", result' = 1, UNCHANGED <<ram, loc, cnt, mem, callVars>>,
         NEW k \in 0..job.n, mem = Overlay(k)
  PROVE  SaveInv'
<1>1. Overlay(k)' = Overlay(k)
  BY OverlaySame DEF callVars
<1>2. job' = job /\ calls' = calls /\ ram0' = ram0 /\ mem' = Overlay(k)'
  BY <1>1 DEF callVars
<1>3. Begun' = Begun /\ Value(cnt)' = Value(cnt)
  BY DEF Begun, callVars, Value
<1> QED BY <1>2, <1>3 DEF SaveInv, SavePCs

LEMMA SaveLocates ==
  ASSUME SavesFit, XferTypeOK, InProtocol, SaveInv, SendLoc2 \/ SendLoc1 \/ SendLoc0
  PROVE  SaveInv'
<1> SUFFICES ASSUME calls > 0, job.op = "save" PROVE SaveInv'
  BY DEF SaveInv, SendLoc2, SendLoc1, SendLoc0, Locate, callVars
<1>1. pc \in {"loc2", "loc1", "loc0"}
  BY DEF SendLoc2, SendLoc1, SendLoc0, Locate
<1>2. /\ job \in Jobs /\ ram = ram0 /\ Begun \in 0..(job.n - 1)
      /\ Value(cnt) = job.n - Begun /\ BlockInv /\ Value(blk) = saved
      /\ addr = job.addr + Begun /\ mem = Overlay(Begun)
      /\ present => PointerInv
  BY <1>1 DEF SaveInv
<1>3. UNCHANGED <<ram, callVars, mem, present>>
  BY DEF SendLoc2, SendLoc1, SendLoc0, Locate, SendCtl, SendAddr
<1>4. /\ loc \in Nat /\ loc < Blocks * B * B /\ Begun \in Nat /\ saved \in Nat
      /\ saved > 0 /\ job.n \in Nat /\ job.addr \in Nat
  BY <1>2, BlockFacts, SaveFacts
<1>5. UNCHANGED <<loc, cnt, addr, blk, saved>>
  BY DEF SendLoc2, SendLoc1, SendLoc0, Locate, Nak, registers
<1>6. /\ Begun' = Begun /\ Value(cnt)' = Value(cnt) /\ Value(blk)' = Value(blk)
      /\ Overlay(Begun)' = Overlay(Begun) /\ (BlockInv' <=> BlockInv)
      /\ job' = job /\ calls' = calls /\ ram0' = ram0
  BY <1>3, <1>5 DEF Begun, Overlay, Value, callVars, BlockInv
<1>7. CASE reply' # 0
  <2>1. pc' \in {"n_stop", "stop"} /\ result' = 1
    BY <1>7 DEF SendLoc2, SendLoc1, SendLoc0, Locate, Nak
  <2>2. CASE pc' = "stop"
    <3>1. PICK k \in 0..job.n : k = Begun
      BY <1>2, <1>4
    <3> QED BY <3>1, <2>1, <2>2, <1>1, <1>2, <1>3, <1>5, SaveFails
  <2>3. CASE pc' = "n_stop"
    <3>1. PointerInv'
      BY <2>3 DEF PointerInv
    <3> QED BY <3>1, <2>3, <1>2, <1>3, <1>5, <1>6 DEF SaveInv, SavePCs
  <2> QED BY <2>1, <2>2, <2>3
<1>8. CASE reply' = 0
  <2>1. UNCHANGED registers /\ pc' \in {"loc1", "loc0", "s_byte"}
    BY <1>8 DEF SendLoc2, SendLoc1, SendLoc0, Locate
  <2>2. /\ (WriteCtl(loc) \div 2) % Blocks = loc \div (B * B)
        /\ B * (loc \div (B * B)) + HighByte(loc) = loc \div B
        /\ B * (loc \div B) + LowByte(loc) = loc
    BY <1>4, LocationSent
  <2>3. present => /\ PointerInv'
                   /\ pc' = "s_byte" => ptr' = loc
    <3> SUFFICES ASSUME present
                 PROVE  PointerInv' /\ (pc' = "s_byte" => ptr' = loc)
      OBVIOUS
    <3>1. CASE SendLoc2
      <4>1. pc' = "loc1" /\ mode = "ctl"
        BY <3>1, <1>8 DEF SendLoc2, Locate, InProtocol
      <4>2. ptr' = (WriteCtl(loc) \div 2) % Blocks
        BY <3>1, <4>1, <1>8 DEF SendLoc2, SendCtl, Acked
      <4> QED BY <4>1, <4>2, <1>5, <2>2 DEF PointerInv
    <3>2. CASE SendLoc1
      <4>1. pc' = "loc0" /\ ptr = loc \div (B * B)
        BY <3>2, <1>2, <1>8 DEF SendLoc1, Locate, PointerInv
      <4>2. ptr' = B * ptr + HighByte(loc)
        BY <3>2 DEF SendLoc1, SendAddr
      <4> QED BY <4>1, <4>2, <1>5, <2>2 DEF PointerInv
    <3>3. CASE SendLoc0
      <4>1. pc' = "s_byte" /\ ptr = loc \div B
        BY <3>3, <1>2, <1>8 DEF SendLoc0, Locate, PointerInv
      <4>2. ptr' = B * ptr + LowByte(loc)
        BY <3>3 DEF SendLoc0, SendAddr
      <4> QED BY <4>1, <4>2, <1>5, <2>2 DEF PointerInv
    <3> QED BY <3>1, <3>2, <3>3
  <2>4. CASE pc' # "s_byte"
    BY <2>1, <2>3, <2>4, <1>2, <1>3, <1>5, <1>6 DEF SaveInv, SavePCs
  <2>5. CASE pc' = "s_byte"
    <3>1. addr' - job'.addr - Begun' = 0 /\ Begun' + 0 = Begun' /\ loc' + 0 = loc'
      BY <1>2, <1>4, <1>5, <1>6
    <3>2. TurnInv'
      <4>1. 0 \in 0..(saved - 1) /\ saved - 0 = saved
        BY <1>4
      <4>2. mem' = Overlay(Begun)' /\ Value(blk)' = saved'
        BY <1>2, <1>3, <1>5, <1>6
      <4>3. present' => ptr' = loc'
        BY <1>3, <1>5, <2>3, <2>5
      <4> QED BY <3>1, <4>1, <4>2, <4>3, <1>5 DEF TurnInv
    <3> QED BY <3>2, <2>5, <1>2, <1>3, <1>5, <1>6 DEF SaveInv, SavePCs
  <2> QED BY <2>4, <2>5
<1> QED BY <1>7, <1>8

LEMMA SaveBegins ==
  ASSUME SavesFit, XferTypeOK, SaveInv, SaveBlock
  PROVE  SaveInv'
<1> SUFFICES ASSUME calls > 0, job.op = "save" PROVE SaveInv'
  BY DEF SaveInv, SaveBlock, callVars
<1>1. /\ job \in Jobs /\ ram = ram0 /\ Begun \in 0..(job.n - 1)
      /\ Value(cnt) = job.n - Begun /\ blk = Split(bsz - (loc % bsz))
      /\ addr = job.addr + Begun /\ mem = Overlay(Begun)
  BY DEF SaveInv, SaveBlock
<1>2. /\ pc' = "n_stop" /\ blk' = Split(BlockSize) /\ saved' = BlockSize
      /\ UNCHANGED <<loc, cnt, addr, ram, mem, callVars>>
  BY DEF SaveBlock, deviceVars
<1>3. /\ job.n \in Nat /\ job.n \in Ram /\ loc \in Nat /\ bsz \in Nat \ {0} /\ B \in Nat
      /\ bsz < B
  BY <1>1, SaveFacts DEF XferTypeOK
<1>4. PICK w \in 1..bsz : w = bsz - (loc % bsz)
  <2>1. loc % bsz \in 0..(bsz - 1)
    BY <1>3, Remainder
  <2>2. bsz - (loc % bsz) \in 1..bsz
    BY <1>3, <2>1
  <2> QED BY <2>2
<1>5. B * B \in Nat /\ B <= B * B
  BY EepromAssumption, SquareNat
<1>6. w \in Ram
  BY <1>3, <1>4, <1>5 DEF Ram
<1>7. Value(blk) = w
  BY <1>1, <1>4, <1>6, SplitValue
<1>8. PICK s \in Nat : s = BlockSize
  BY <1>1, <1>3, <1>4, <1>7 DEF BlockSize
<1>9. s \in 1..(job.n - Begun) /\ s <= w /\ (s < job.n - Begun => s = w)
  BY <1>1, <1>3, <1>4, <1>7, <1>8 DEF BlockSize
<1>10. s \in Ram
  BY <1>3, <1>4, <1>5, <1>9 DEF Ram
<1>11. Value(Split(s)) = s
  BY <1>10, SplitValue
<1>12. /\ Begun' = Begun /\ Value(cnt)' = Value(cnt)
       /\ Overlay(Begun)' = Overlay(Begun) /\ job' = job /\ calls' = calls
       /\ ram0' = ram0 /\ bsz' = bsz
  BY <1>2 DEF Begun, Overlay, Value, callVars
<1>13. saved' = s /\ Value(blk)' = s
  BY <1>2, <1>8, <1>11 DEF Value
<1>14. BlockInv'
  BY <1>2, <1>4, <1>9, <1>12, <1>13 DEF BlockInv
<1>15. PointerInv'
  BY <1>2 DEF PointerInv
<1> QED BY <1>1, <1>2, <1>12, <1>13, <1>14, <1>15 DEF SaveInv, SavePCs

LEMMA SaveAdvances ==
  ASSUME SavesFit, XferTypeOK, SaveInv, SaveNext
  PROVE  SaveInv'
<1> SUFFICES ASSUME calls > 0, job.op = "save" PROVE SaveInv'
  BY DEF SaveInv, SaveNext, callVars
<1>1. /\ pc = "s_next" /\ job \in Jobs /\ ram = ram0 /\ Begun \in 0..(job.n - 1)
      /\ Value(cnt) = job.n - Begun /\ BlockInv /\ result = 0
      /\ addr = (job.addr + Begun + saved) % (B * B)
      /\ mem = Overlay(Begun + saved)
  BY DEF SaveInv, SaveNext
<1>2. /\ loc = job.loc + Begun /\ loc \in Nat /\ Begun \in Nat /\ saved \in Nat
      /\ saved > 0 /\ Begun + saved <= job.n /\ (loc % bsz) + saved <= bsz
      /\ loc % bsz \in 0..(bsz - 1)
  BY <1>1, BlockFacts
<1>3. /\ job.loc \in Nat /\ job.n \in Nat /\ job.n \in Ram /\ job.addr \in Nat
      /\ job.addr + job.n <= B * B /\ bsz \in Nat \ {0}
  BY <1>1, SaveFacts
<1>4. PICK k \in 0..job.n : k = Begun + saved
  BY <1>2, <1>3
<1>5. /\ loc' = loc + saved /\ cnt' = Split(job.n - k) /\ result' = 0
      /\ UNCHANGED <<addr, ram, mem, callVars>>
      /\ IF job.n - k = 0 THEN pc' = "ready" ELSE pc' = "s_block" /\ blk' = Split(bsz)
  <2>1. Value(cnt) - saved = job.n - k
    BY <1>1, <1>2, <1>3, <1>4
  <2> QED BY <1>1, <2>1 DEF SaveNext, NextLocation, deviceVars
<1>6. /\ Begun' = k /\ Overlay(k)' = Overlay(k) /\ job' = job /\ calls' = calls
      /\ ram0' = ram0 /\ bsz' = bsz
  <2>1. job' = job /\ calls' = calls /\ ram0' = ram0 /\ bsz' = bsz
    BY <1>5 DEF callVars
  <2>2. Overlay(k)' = Overlay(k)
    BY <1>5, OverlaySame DEF callVars
  <2>3. Begun' = k
    <3>1. loc' = loc + saved /\ loc = job.loc + Begun
      BY <1>2, <1>5
    <3>2. loc + saved = job.loc + k /\ job.loc \in Int /\ k \in Int
      BY <1>2, <1>3, <1>4
    <3>3. loc' - job'.loc = k
      BY <2>1, <3>1, <3>2
    <3> QED BY <3>3 DEF Begun
  <2> QED BY <2>1, <2>2, <2>3
<1>7. mem' = Overlay(k)'
  BY <1>1, <1>4, <1>5, <1>6
<1>8. CASE job.n - k = 0
  <2>1. k = job.n /\ pc' = "ready"
    BY <1>3, <1>5, <1>8
  <2>2. mem' = Overlay(job.n)'
    BY <1>6, <1>7, <2>1
  <2> QED BY <2>1, <2>2, <1>1, <1>5, <1>6 DEF SaveInv, SavePCs
<1>9. CASE job.n - k # 0
  <2>1. k \in 0..(job.n - 1)
    BY <1>3, <1>9
  <2>2. saved = bsz - (loc % bsz)
    BY <1>1, <1>2, <1>3, <1>4, <2>1 DEF BlockInv
  <2>3. (loc + saved) % bsz = 0
    <3>1. saved + (loc % bsz) = bsz
      BY <2>2, <1>2, <1>3
    <3> QED BY <3>1, <1>2, <1>3, InBlock
  <2>4. blk' = Split(bsz - (loc % bsz))'
    <3>1. bsz' - (loc' % bsz') = bsz
      BY <2>3, <1>3, <1>5, <1>6
    <3> QED BY <3>1, <1>5, <1>9 DEF Split, HighByte
  <2>5. Value(cnt)' = job.n - k
    <3>1. job.n - k \in Ram
      BY <1>3, <1>4, SquareNat DEF Ram
    <3> QED BY <3>1, <1>5, SplitValue DEF Value
  <2>6. addr' = job.addr + k
    <3>1. job.addr + Begun + saved = job.addr + k
      BY <1>2, <1>3, <1>4
    <3>2. job.addr + k \in 0..(B * B - 1)
      BY <1>3, <2>1, SquareNat
    <3> DEFINE S == B * B
    <3>3. S \in Nat /\ S > 0
      BY SquareNat
    <3> HIDE DEF S
    <3>4. \A a \in 0..(S - 1) : a % S = a
      BY <3>3
    <3> QED BY <3>1, <3>2, <3>4, <1>1, <1>5 DEF S
  <2>7. mem' = Overlay(Begun)'
    BY <1>6, <1>7
  <2> QED BY <2>1, <2>4, <2>5, <2>6, <2>7, <1>1, <1>5, <1>6, <1>9
          DEF SaveInv, SavePCs
<1> QED BY <1>8, <1>9

LEMMA SaveTurns ==
  ASSUME SavesFit, XferTypeOK, SaveInv, SaveByte
  PROVE  SaveInv'
<1> SUFFICES ASSUME calls > 0, job.op = "save" PROVE SaveInv'
  BY DEF SaveInv, SaveByte, callVars
<1>1. /\ pc = "s_byte" /\ job \in Jobs /\ ram = ram0 /\ Begun \in 0..(job.n - 1)
      /\ Value(cnt) = job.n - Begun /\ BlockInv /\ TurnInv
  BY DEF SaveInv, SaveByte
<1>2. /\ loc = job.loc + Begun /\ loc \in Nat /\ Begun \in Nat /\ saved \in Nat
      /\ saved > 0 /\ Begun + saved <= job.n /\ (loc % bsz) + saved <= bsz
      /\ saved < B /\ loc % bsz \in 0..(bsz - 1)
  BY <1>1, BlockFacts
<1>3. /\ job.loc \in Nat /\ job.n \in Nat /\ job.addr \in Nat
      /\ job.addr + job.n <= B * B /\ bsz \in Nat \ {0} /\ B \in Nat \ {0}
      /\ Size \in Nat \ {0} /\ job.loc + job.n <= Size
      /\ (PageSize # 0 => PageSize % bsz = 0)
  BY <1>1, SaveFacts
<1>4. /\ UNCHANGED <<loc, cnt, saved, ram, callVars, present>>
      /\ addr \in Nat /\ blk \in Word
  BY SquareNat DEF SaveByte, SendData, XferTypeOK, Ram
<1>5. PICK m \in Int : m = addr - job.addr - Begun
  BY <1>2, <1>3, <1>4
<1>6. /\ m \in 0..(saved - 1) /\ Value(blk) = saved - m
      /\ mem = Overlay(Begun + m) /\ (present => ptr = loc + m)
      /\ addr = job.addr + Begun + m
  BY <1>1, <1>2, <1>3, <1>4, <1>5 DEF TurnInv
<1>7. PICK k \in 0..(job.n - 1) : k = Begun + m
  BY <1>2, <1>3, <1>6
<1>8. Begun' = Begun /\ Value(cnt)' = Value(cnt) /\ job' = job /\ calls' = calls
      /\ ram0' = ram0 /\ bsz' = bsz /\ BlockInv' = BlockInv
  BY <1>4 DEF Begun, Value, callVars, BlockInv
<1>9. CASE ~present
  <2>1. pc' = "stop" /\ result' = 1 /\ mem' = mem
    BY <1>9 DEF SaveByte, SendData, Acked
  <2>2. k \in 0..job.n /\ mem = Overlay(k)
    BY <1>3, <1>6, <1>7
  <2> QED BY <2>1, <2>2, <1>1, <1>4, SaveFails
<1>10. CASE present
  <2> DEFINE lo == Dec(blk.lo)
  <2>1. /\ reply' = 0 /\ addr' = (addr + 1) % (B * B)
        /\ mem' = [mem EXCEPT ![ptr % Size] = ram[addr]] /\ ptr' = NextWrite(ptr)
        /\ IF lo = 0 /\ blk.hi = 0
             THEN pc' = "stop" /\ result' = 0 /\ blk' = Split(0)
             ELSE /\ pc' = "s_byte"
                  /\ blk' = [lo |-> lo, hi |-> IF lo = 0 THEN blk.hi - 1 ELSE blk.hi]
    BY <1>10 DEF SaveByte, SendData, Acked
  <2>2. mem' = Overlay(k + 1)'
    <3>1. ptr = job.loc + k /\ addr = job.addr + k /\ ptr \in 0..(Size - 1)
      BY <1>2, <1>3, <1>6, <1>7, <1>10
    <3>2. ptr % Size = ptr
      BY <3>1, <1>3
    <3>3. mem' = [Overlay(k) EXCEPT ![job.loc + k] = ram0[job.addr + k]]
      BY <2>1, <3>1, <3>2, <1>1, <1>6, <1>7
    <3>4. mem' = Overlay(k + 1)
      BY <3>3, <1>1, OverlayMore
    <3>5. Overlay(k + 1)' = Overlay(k + 1)
      BY <1>4, OverlaySame DEF callVars
    <3> QED BY <3>4, <3>5
  <2>3. blk.hi = 0 /\ blk.lo = saved - m
    <3>1. blk.lo \in 0..(B - 1) /\ blk.hi \in 0..(B - 1)
      BY <1>4, <1>3 DEF Word, Bytes
    <3>2. B * blk.hi + blk.lo = saved - m /\ saved - m < B
      BY <1>2, <1>3, <1>6 DEF Value
    <3>3. blk.hi # 0 => B * blk.hi >= B
      BY <3>1, <1>3
    <3>4. blk.hi = 0
      <4>1. B * blk.hi \in Int
        BY <3>1, <1>3
      <4> QED BY <3>1, <3>2, <3>3, <4>1, <1>2, <1>3, <1>6
    <3>5. B * blk.hi = 0
      BY <3>4, <1>3
    <3> QED BY <3>1, <3>2, <3>4, <3>5
  <2>4. lo = saved - m - 1
    <3>1. blk.lo \in Bytes /\ blk.lo # 0
      BY <1>2, <1>4, <1>6, <2>3 DEF Word
    <3> QED BY <3>1, <2>3, DecNumber, <1>2, <1>6
  <2>5. CASE m = saved - 1
    <3>1. k + 1 = Begun + saved /\ lo = 0
      BY <2>4, <2>5, <1>2, <1>6, <1>7
    <3>2. pc' = "stop" /\ result' = 0
      BY <2>1, <2>3, <3>1
    <3>3. addr + 1 = job.addr + Begun + saved
      BY <1>2, <1>3, <1>6, <2>5
    <3>4. addr' = (job'.addr + Begun' + saved') % (B * B)
      BY <2>1, <3>3, <1>4, <1>8
    <3>5. mem' = Overlay(Begun + saved)'
      BY <2>2, <3>1, <1>4, <1>8
    <3> QED BY <3>2, <3>4, <3>5, <1>1, <1>4, <1>8 DEF SaveInv, SavePCs
  <2>6. CASE m # saved - 1
    <3>1. m + 1 \in 0..(saved - 1) /\ lo # 0 /\ lo \in Int
      BY <2>4, <2>6, <1>2, <1>6
    <3>2. pc' = "s_byte" /\ blk' = [lo |-> lo, hi |-> 0]
      BY <2>1, <2>3, <3>1
    <3>3. addr' = addr + 1
      <4>1. addr + 1 \in 0..(B * B - 1)
        BY <1>2, <1>3, <1>4, <1>6, <3>1, SquareNat
      <4> DEFINE S == B * B
      <4>2. S \in Nat /\ S > 0
        BY SquareNat
      <4> HIDE DEF S
      <4>3. \A a \in 0..(S - 1) : a % S = a
        BY <4>2
      <4> QED BY <4>1, <4>3, <2>1 DEF S
    <3>4. ptr' = loc + (m + 1)
      <4> DEFINE t == m + 1
      <4>1. t \in Nat /\ t > 0 /\ t + (loc % bsz) < bsz /\ (loc % bsz) + t <= bsz
        BY <1>2, <1>3, <1>6, <3>1
      <4> HIDE DEF t
      <4>2. (loc + t) % bsz = (loc % bsz) + t
        BY <4>1, <1>2, <1>3, InBlock
      <4>3. ptr + 1 = loc + t /\ ptr \in Nat
        BY <1>2, <1>6, <1>10 DEF t
      <4>4. (ptr + 1) % bsz # 0
        BY <4>1, <4>2, <4>3, <1>2, <1>3
      <4>5. NextWrite(ptr) = ptr + 1
        BY <4>3, <4>4, <1>3, NextInBlock
      <4> QED BY <4>3, <4>5, <2>1 DEF t
    <3>5. Value(blk)' = saved - (m + 1)
      BY <2>4, <3>1, <3>2, <1>2, <1>3, <1>6 DEF Value
    <3>6. TurnInv'
      <4>1. addr' - job'.addr - Begun' = m + 1
        BY <1>2, <1>3, <1>4, <1>6, <1>8, <3>3
      <4>2. mem' = Overlay(Begun + (m + 1))'
        <5>1. k + 1 = Begun + (m + 1)
          BY <1>2, <1>6, <1>7
        <5> QED BY <5>1, <2>2, <1>8
      <4> QED BY <4>1, <4>2, <3>1, <3>4, <3>5, <1>4, <1>8 DEF TurnInv
    <3> QED BY <3>2, <3>6, <1>1, <1>4, <1>8 DEF SaveInv, SavePCs
  <2> QED BY <2>5, <2>6
<1> QED BY <1>9, <1>10

LEMMA SaveCpu ==
  ASSUME SavesFit, XferTypeOK, InProtocol, SaveInv, Cpu
  PROVE  SaveInv'
<1>1. CASE SendLoc2 \/ SendLoc1 \/ SendLoc0
  BY <1>1, SaveLocates
<1>2. CASE SaveBlock
  BY <1>2, SaveBegins
<1>3. CASE SaveByte
  BY <1>3, SaveTurns
<1>4. CASE SaveNext
  BY <1>4, SaveAdvances
<1>5. CASE NextStop \/ NextStart \/ EndTransfer
  <2> SUFFICES ASSUME calls > 0, job.op = "save" PROVE SaveInv'
    BY <1>5 DEF SaveInv, NextStop, NextStart, EndTransfer, Goto, callVars
  <2>1. UNCHANGED <<registers, ram, callVars, mem, present>>
    BY <1>5 DEF NextStop, NextStart, EndTransfer, Goto, Stop, Start
  <2>2. /\ Begun' = Begun /\ Value(cnt)' = Value(cnt) /\ Value(blk)' = Value(blk)
        /\ Overlay(Begun)' = Overlay(Begun) /\ (BlockInv' <=> BlockInv)
        /\ Overlay(Begun + saved)' = Overlay(Begun + saved)
        /\ UNCHANGED <<job, calls, ram0, mem0, loc, addr, saved, result, bsz, mem, ram,
                       present>>
    BY <2>1 DEF Begun, Overlay, Value, registers, callVars, BlockInv
  <2>3. CASE NextStop \/ NextStart
    <3>1. pc \in {"n_stop", "n_start"} /\ pc' \in {"n_start", "loc2"} /\ PointerInv'
      BY <2>3 DEF NextStop, NextStart, Goto, PointerInv
    <3> QED BY <2>2, <3>1 DEF SaveInv, SavePCs
  <2>4. CASE EndTransfer
    <3>1. pc = "stop" /\ pc' = (IF result = 0 THEN "s_next" ELSE "ready")
      BY <2>4 DEF EndTransfer, Goto
    <3>2. CASE result = 0
      BY <2>2, <3>1, <3>2 DEF SaveInv, SavePCs
    <3>3. CASE result # 0
      <4>1. result = 1
        BY <3>3 DEF XferTypeOK
      <4>2. PICK k \in 0..job.n : mem = Overlay(k)
        BY <3>1, <4>1 DEF SaveInv
      <4>3. Overlay(k)' = Overlay(k)
        BY <2>2, OverlaySame
      <4> QED BY <2>2, <3>1, <4>1, <4>2, <4>3 DEF SaveInv, SavePCs
    <3> QED BY <3>2, <3>3
  <2> QED BY <1>5, <2>3, <2>4
<1>6. CASE LoadStart \/ LoadRestart \/ LoadCtl \/ LoadByte \/ LoadAck \/ LoadNak
  <2>1. pc \notin SavePCs
    BY <1>6 DEF LoadStart, LoadRestart, LoadCtl, LoadByte, LoadAck, LoadNak, SavePCs
  <2>2. UNCHANGED callVars
    BY <1>6 DEF LoadStart, LoadRestart, LoadCtl, LoadByte, LoadAck, LoadNak, Goto
  <2> QED BY <2>1, <2>2 DEF SaveInv, callVars
<1> QED BY <1>1, <1>2, <1>3, <1>4, <1>5, <1>6 DEF Cpu

-----------------------------------------------------------------------------
(* Both, and the memory a load leaves alone.                               *)
DoesInv ==
    /\ LoadInv /\ SaveInv
    /\ job.op = "load" => pc \in LoadPCs /\ mem = mem0
    /\ job.op = "save" => calls > 0
    /\ job.op \in {"load", "save"}

(* A call sets the registers up.                                           *)
LEMMA LoadEnters ==
  ASSUME XferTypeOK, NEW j \in Jobs, Enter(j)
  PROVE  LoadInv'
<1> SUFFICES ASSUME job'.op = "load" PROVE LoadInv'
  BY DEF LoadInv
<1>1. /\ job' = j /\ loc' = j.loc /\ cnt' = Split(j.n) /\ addr' = j.addr
      /\ pc' = "l_start" /\ ram0' = ram /\ ram' = ram /\ mem0' = mem /\ mem' = mem
  BY DEF Enter, deviceVars
<1>2. cnt' = Split(job.n)'
  BY <1>1 DEF Split, HighByte
<1> QED BY <1>1, <1>2 DEF LoadInv, LoadPCs, PointerInv

LEMMA SaveEnters ==
  ASSUME SavesFit, XferTypeOK, NEW j \in Jobs, Enter(j)
  PROVE  SaveInv'
<1> SUFFICES ASSUME job'.op = "save" PROVE SaveInv'
  BY DEF SaveInv
<1>1. /\ job' = j /\ loc' = j.loc /\ cnt' = Split(j.n) /\ addr' = j.addr
      /\ pc' = "s_block" /\ ram0' = ram /\ ram' = ram /\ mem0' = mem /\ mem' = mem
      /\ blk' = Split(bsz - (j.loc % bsz)) /\ bsz' = bsz
  BY DEF Enter, deviceVars
<1>2. j \in Transfers /\ j.op = "save"
  BY <1>1, XferAssumption
<1>3. j.n \in Ram /\ j.n \in Nat /\ j.loc \in Nat /\ j.addr \in Nat /\ j.n > 0
  BY <1>2, SquareNat DEF Transfers, Ram, SavesFit
<1>4. Begun' = 0 /\ Value(cnt)' = j.n
  <2>1. Begun' = 0
    BY <1>1, <1>3 DEF Begun
  <2>2. Value(Split(j.n)) = j.n
    BY <1>3, SplitValue
  <2> QED BY <2>1, <2>2, <1>1 DEF Value
<1>5. mem' = Overlay(Begun)'
  <2>1. mem \in [0..(Size - 1) -> Bytes]
    BY DEF XferTypeOK, DeviceTypeOK
  <2>2. j.loc..(j.loc + 0 - 1) = {}
    BY <1>3
  <2>3. Overlay(0)' = [p \in 0..(Size - 1) |-> mem[p]]
    BY <2>2, <1>1 DEF Overlay
  <2>4. Overlay(Begun)' = Overlay(0)'
    BY <1>4 DEF Overlay
  <2> QED BY <2>1, <2>3, <2>4, <1>1
<1>6. blk' = Split(bsz - (loc % bsz))'
  BY <1>1 DEF Split, HighByte
<1>7. addr' = job'.addr + Begun'
  BY <1>1, <1>3, <1>4
<1> QED BY <1>1, <1>3, <1>4, <1>5, <1>6, <1>7 DEF SaveInv, SavePCs

(* What the device does meanwhile.                                         *)
LEMMA DoesBeside ==
  ASSUME DoesInv, UNCHANGED <<pc, registers, callVars, ram, mem>>,
         present' => present /\ ptr' = ptr
  PROVE  DoesInv'
<1>1. UNCHANGED <<loc, cnt, addr, blk, saved, result, job, calls, bsz, ram0, mem0>>
  BY DEF registers, callVars
<1>2. LoadInv'
  BY <1>1 DEF DoesInv, LoadInv, LoadPCs, Locating, PointerInv, ByteInv, Loaded,
              Value
<1>3. SaveInv'
  BY <1>1 DEF DoesInv, SaveInv, SavePCs, PointerInv, BlockInv, TurnInv, Begun,
              Overlay, Value
<1> QED BY <1>1, <1>2, <1>3 DEF DoesInv

LEMMA DoesCpu ==
  ASSUME LoadsFit, SavesFit, XferTypeOK, InProtocol, DoesInv, Cpu
  PROVE  DoesInv'
<1>1. LoadInv' /\ SaveInv'
  BY LoadCpu, SaveCpu DEF DoesInv
<1>2. UNCHANGED callVars
  BY DEF Cpu, SendLoc2, SendLoc1, SendLoc0, Locate, LoadStart, LoadRestart,
         LoadCtl, LoadByte, LoadAck, LoadNak, SaveBlock, NextStop, NextStart,
         SaveByte, EndTransfer, SaveNext, Goto
<1>3. ASSUME job.op = "load" PROVE pc' \in LoadPCs /\ mem' = mem0
  <2>1. pc \in LoadPCs /\ mem = mem0
    BY <1>3 DEF DoesInv
  <2>2. CASE SendLoc2 \/ SendLoc1 \/ SendLoc0
    BY <1>3, <2>1, <2>2
       DEF SendLoc2, SendLoc1, SendLoc0, Locate, Nak, SendCtl, SendAddr, LoadPCs
  <2>3. CASE LoadStart \/ LoadRestart \/ LoadCtl \/ LoadByte \/ LoadAck \/ LoadNak
    BY <2>1, <2>3 DEF LoadStart, LoadRestart, LoadCtl, LoadByte, LoadAck, LoadNak,
                      Goto, Start, Restart, SendCtl, Get, Ack, AfterDec, LoadPCs
  <2>4. CASE EndTransfer
    BY <1>3, <2>1, <2>4 DEF EndTransfer, Stop, Goto, LoadPCs
  <2>5. CASE SaveBlock \/ NextStop \/ NextStart \/ SaveByte \/ SaveNext
    BY <2>1, <2>5
       DEF SaveBlock, NextStop, NextStart, SaveByte, SaveNext, LoadPCs
  <2> QED BY <2>2, <2>3, <2>4, <2>5 DEF Cpu
<1> QED BY <1>1, <1>2, <1>3 DEF DoesInv, callVars

(* Once a program calls, it is one of Jobs; the boot calls before that.    *)
LEMMA DoesEnter ==
  ASSUME LoadsFit, SavesFit, XferTypeOK, NEW j \in Transfers, Enter(j),
         \/ j \in Jobs /\ calls' > 0
         \/ j.op = "load" /\ calls' = 0
  PROVE  DoesInv'
<1>1. /\ job' = j /\ mem0' = mem /\ mem' = mem
      /\ pc' = IF j.op = "load" THEN "l_start" ELSE "s_block"
  BY DEF Enter, deviceVars
<1>2. j.op \in {"load", "save"}
  BY DEF Transfers
<1>3. LoadInv' /\ SaveInv'
  <2>1. CASE calls' = 0
    BY <2>1 DEF LoadInv, SaveInv
  <2>2. CASE j \in Jobs
    BY <2>2, LoadEnters, SaveEnters
  <2> QED BY <2>1, <2>2
<1> QED BY <1>1, <1>2, <1>3 DEF DoesInv, LoadPCs

(* What they come to.                                                      *)
LEMMA LoadedExactly == ASSUME XferTypeOK, DoesInv PROVE LoadExact
  BY DEF DoesInv, LoadInv, LoadExact, Returned, Loaded, XferTypeOK

LEMMA SavedExactly == ASSUME DoesInv PROVE SaveExact
  BY DEF DoesInv, SaveInv, SaveExact, Returned

LEMMA SavedPrefix == ASSUME SavesFit, XferTypeOK, DoesInv PROVE SavesPrefix
<1>1. CASE job.op = "load"
  <2>1. job.loc \in Nat
    BY DEF XferTypeOK, Transfers
  <2>2. job.loc..(job.loc + 0 - 1) = {}
    BY <2>1
  <2>3. mem = Overlay(0)
    BY <1>1, <2>2 DEF DoesInv, Overlay, XferTypeOK
  <2> QED BY <1>1, <2>3 DEF SavesPrefix
<1>2. CASE job.op = "save"
  <2>1. calls > 0
    BY <1>2 DEF DoesInv
  <2>2. /\ job \in Jobs /\ ram = ram0 /\ pc \in SavePCs
        /\ pc # "ready" => Begun \in 0..(job.n - 1)
    BY <1>2, <2>1 DEF DoesInv, SaveInv
  <2>3. job.n \in Nat /\ result \in {0, 1}
    BY <1>2, <2>2, SaveFacts DEF XferTypeOK
  <2>4. \E k \in 0..job.n : mem = Overlay(k)
    <3>1. CASE pc \in {"stop", "ready"} /\ result = 1
      BY <1>2, <2>1, <3>1 DEF DoesInv, SaveInv
    <3>2. CASE pc = "ready" /\ result = 0
      <4>1. mem = Overlay(job.n) /\ job.n \in 0..job.n
        BY <1>2, <2>1, <2>3, <3>2 DEF DoesInv, SaveInv
      <4> QED BY <4>1
    <3>3. CASE pc \in {"s_block", "n_stop", "n_start", "loc2", "loc1", "loc0"}
      <4>1. mem = Overlay(Begun) /\ Begun \in 0..job.n
        BY <1>2, <2>1, <2>2, <2>3, <3>3 DEF DoesInv, SaveInv
      <4> QED BY <4>1
    <3>4. CASE pc = "s_byte" \/ (pc \in {"stop", "s_next"} /\ result = 0)
      <4>1. BlockInv /\ Begun \in 0..(job.n - 1)
        BY <1>2, <2>1, <2>2, <3>4 DEF DoesInv, SaveInv
      <4>2. Begun \in Nat /\ saved \in Nat /\ Begun + saved <= job.n
        BY <4>1, <1>2, <2>2, BlockFacts
      <4>3. CASE pc = "s_byte"
        <5>1. PICK m \in 0..(saved - 1) : mem = Overlay(Begun + m)
          BY <1>2, <2>1, <4>3 DEF DoesInv, SaveInv, TurnInv
        <5>2. Begun + m \in 0..job.n
          BY <4>2, <2>3
        <5> QED BY <5>1, <5>2
      <4>4. CASE pc \in {"stop", "s_next"} /\ result = 0
        <5>1. mem = Overlay(Begun + saved) /\ Begun + saved \in 0..job.n
          BY <1>2, <2>1, <2>3, <4>2, <4>4 DEF DoesInv, SaveInv
        <5> QED BY <5>1
      <4> QED BY <3>4, <4>3, <4>4
    <3>5. pc = "s_next" => result = 0
      BY <1>2, <2>1 DEF DoesInv, SaveInv
    <3> QED BY <3>1, <3>2, <3>3, <3>4, <3>5, <2>2, <2>3 DEF SavePCs
  <2> QED BY <1>2, <2>2, <2>4 DEF SavesPrefix
<1> QED BY <1>1, <1>2 DEF DoesInv

-----------------------------------------------------------------------------
(* What the boot does to the loader and saver: nothing, but for a store    *)
(* into memory, or a load.                                                 *)
Waits == UNCHANGED <<deviceVars, pc, registers, callVars>>

Enters == UNCHANGED calls /\ \E j \in Transfers : j.op = "load" /\ Enter(j)

LEMMA StoredTypes ==
  ASSUME XferTypeOK, NEW c \in Ram, NEW v \in Bytes
  PROVE  Stored(c, v) \in [Ram -> Bytes]
  BY DEF Stored, XferTypeOK

(* Whatever memory holds as a header, its words are numbers of two bytes.  *)
LEMMA HeaderWords ==
  ASSUME XferTypeOK, NEW k \in 0..14
  PROVE  HeaderWord(k) \in Ram
<1>1. HeaderAt \in Nat /\ HeaderAt + 16 <= B * B /\ B * B \in Nat
  BY BootAssumption, SquareNat DEF Ram
<1>2. HeaderAt + k \in Ram /\ HeaderAt + (k + 1) \in Ram
  BY <1>1 DEF Ram
<1>3. HeaderByte(k) \in Bytes /\ HeaderByte(k + 1) \in Bytes
  BY <1>2 DEF HeaderByte, XferTypeOK
<1>4. [lo |-> HeaderByte(k), hi |-> HeaderByte(k + 1)] \in Word
  BY <1>3 DEF Word
<1>5. Value([lo |-> HeaderByte(k), hi |-> HeaderByte(k + 1)])
        = B * HeaderByte(k + 1) + HeaderByte(k)
  BY DEF Value
<1>6. HeaderWord(k) = B * HeaderByte(k + 1) + HeaderByte(k)
  BY <1>3, EepromAssumption DEF HeaderWord, Bytes
<1> QED BY <1>4, <1>5, <1>6, ValueRam

(* What a step of the boot does to the loader and saver.                   *)
LEMMA BootSteps ==
  ASSUME XferTypeOK, BootStep
  PROVE  (Waits /\ ram' \in [Ram -> Bytes]) \/ Enters
<1> USE DEF Waits
<1>1. ram \in [Ram -> Bytes] /\ 0 \in Bytes /\ Pattern \in Bytes
  BY BootAssumption, EepromAssumption DEF XferTypeOK, Bytes
<1>2. CASE Begin
  BY <1>2, <1>1, StoredTypes, BootAssumption DEF Begin, Memory
<1>3. CASE Fill
  BY <1>3, <1>1 DEF Fill, Memory, Stored
<1>4. CASE Check
  <2>1. B - 1 - Pattern \in Bytes
    BY <1>1, EepromAssumption DEF Bytes
  <2> QED BY <1>4, <1>1, <2>1 DEF Check, Memory, Stored
<1>5. CASE ClearScreen
  BY <1>5, <1>1 DEF ClearScreen, Step
<1>6. CASE SecondLine \/ MarkCorner \/ NextLine
  BY <1>6, <1>1 DEF SecondLine, MarkCorner, NextLine, Step
<1>11. CASE Run
  <2>1. MarkAt \in Ram
    BY BootAssumption
  <2> QED BY <1>11, <1>1, <2>1, StoredTypes DEF Run, Step
<1>7. CASE SaySize \/ SayBytes \/ Fail
  BY <1>7, <1>1 DEF SaySize, SayBytes, Fail, Says, Step
<1>8. CASE TryCart
  <2> DEFINE j == [op |-> "load", loc |-> 0, n |-> HeaderLoad,
                   addr |-> HeaderAt]
  <2>1. j \in Transfers /\ j.op = "load"
    BY BootAssumption DEF Transfers
  <2>2. Enter(j) /\ UNCHANGED calls
    BY <1>8 DEF TryCart, Loads
  <2> QED BY <2>1, <2>2 DEF Enters
<1>9. CASE Tried
  BY <1>9, <1>1 DEF Tried
<1>10. CASE LoadProgram
  <2> DEFINE j == [op |-> "load", loc |-> HeaderWord(8), n |-> HeaderWord(10),
                   addr |-> HeaderWord(12)]
  <2>1. /\ HeaderWord(8) \in Nat
        /\ HeaderWord(10) \in Ram /\ HeaderWord(12) \in Ram
    BY HeaderWords DEF Ram
  <2>2. j \in Transfers /\ j.op = "load"
    BY <2>1 DEF Transfers
  <2>3. Enter(j) /\ UNCHANGED calls
    BY <1>10 DEF LoadProgram, Loads
  <2> QED BY <2>2, <2>3 DEF Enters
<1> QED BY <1>2, <1>3, <1>4, <1>5, <1>6, <1>7, <1>8, <1>9, <1>10, <1>11
        DEF BootStep

LEMMA StartTypes == ASSUME RomInit PROVE XferTypeOK /\ InProtocol
<1>1. XferInit
  BY DEF RomInit
<1>2. 0 \in Bytes /\ 0 \in Ram /\ Split(0) \in Word
  BY EepromAssumption, SquareNat, SplitWord DEF Bytes, Ram
<1>3. DeviceTypeOK
  BY <1>1, <1>2, XferAssumption DEF XferInit, DeviceInit, DeviceTypeOK, Modes
<1>4. Idle \in Transfers
  BY <1>2 DEF Idle, Transfers
<1> QED BY <1>1, <1>2, <1>3, <1>4, XferAssumption
        DEF XferInit, XferTypeOK, DeviceInit, PCs, InProtocol

LEMMA StepTypes ==
  ASSUME XferTypeOK, [RomNext]_romVars
  PROVE  XferTypeOK'
<1>1. CASE BootStep
  <2>1. CASE Waits /\ ram' \in [Ram -> Bytes]
    BY <2>1 DEF Waits, deviceVars, registers, callVars, XferTypeOK,
                DeviceTypeOK
  <2>2. CASE Enters
    <3>1. PICK j \in Transfers : Enter(j)
      BY <2>2 DEF Enters
    <3>2. calls' \in 0..MaxCalls
      BY <2>2 DEF Enters, XferTypeOK
    <3> QED BY <3>1, <3>2, EnterTypes
  <2> QED BY <1>1, <2>1, <2>2, BootSteps
<1>2. CASE Transfer
  BY <1>2, CallTypes DEF Transfer
<1>3. CASE Routine
  BY <1>3, CpuTypes DEF Routine
<1>4. CASE Device
  <2>1. DeviceTypeOK'
    BY <1>4, DeviceTypes DEF XferTypeOK, Device, Environment
  <2> QED BY <1>4, <2>1
          DEF Device, Environment, XferTypeOK, registers, callVars
<1>5. CASE UNCHANGED xferVars
  BY <1>5 DEF xferVars, deviceVars, registers, callVars, XferTypeOK,
              DeviceTypeOK
<1> QED
  BY <1>1, <1>2, <1>3, <1>4, <1>5 DEF RomNext, ShowOnScreen, Showing, romVars

(* From the reset through the boot and any program: no register leaves its *)
(* width, and memory and cartridge hold bytes.                             *)
THEOREM MachineTypes == RomSpec => []XferTypeOK
<1>1. RomInit => XferTypeOK
  BY StartTypes
<1>2. XferTypeOK /\ [RomNext]_romVars => XferTypeOK'
  BY StepTypes
<1> QED BY <1>1, <1>2, PTL DEF RomSpec

LEMMA StepInProtocol ==
  ASSUME XferTypeOK, InProtocol, [RomNext]_romVars
  PROVE  InProtocol'
<1>1. CASE BootStep
  <2>1. CASE Waits
    BY <2>1 DEF Waits, deviceVars, InProtocol
  <2>2. CASE Enters
    BY <2>2 DEF Enters, Enter, deviceVars, InProtocol
  <2> QED BY <1>1, <2>1, <2>2, BootSteps
<1>2. CASE Transfer
  BY <1>2 DEF Transfer, Call, Enter, deviceVars, InProtocol
<1>3. CASE Routine
  BY <1>3, CpuInProtocol DEF Routine
<1>4. CASE Device
  BY <1>4 DEF Device, Environment, Ready, Remove, InProtocol
<1>5. CASE UNCHANGED xferVars
  BY <1>5 DEF xferVars, deviceVars, InProtocol
<1> QED
  BY <1>1, <1>2, <1>3, <1>4, <1>5 DEF RomNext, ShowOnScreen, Showing, romVars

(* Also when the boot calls them, with whatever the header says, loadcart  *)
(* keeps to the device's protocol and leaves the bus stopped.              *)
THEOREM MachineInProtocol == RomSpec => []InProtocol
<1>1. RomInit => InProtocol
  BY StartTypes
<1>2. XferTypeOK /\ InProtocol /\ [RomNext]_romVars => InProtocol'
  BY StepInProtocol
<1> QED BY <1>1, <1>2, MachineTypes, PTL DEF RomSpec

-----------------------------------------------------------------------------
(* The memory check.                                                       *)
Trying == boot \in {"reset", "fill", "check"}

Filling(c) == c \notin dead => ram[c] = Pattern

(* Nothing is called before the check is over.                             *)
AloneInv == Trying => pc = "ready"

(* What is above the cell being filled has the pattern; $0220 has it, if   *)
(* it can hold one, only when it has been reached.                         *)
FillInv ==
    /\ boot = "reset" => spot = Top - 1
    /\ boot = "fill" =>
        /\ spot \in B..(Top - 1)
        /\ \A c \in (spot + 1)..(Top - 1) : Filling(c)
        /\ Checked \in dead \/ ram[Checked] # Pattern \/ spot < Checked

(* What has been checked works, and what has not still has the pattern.    *)
CheckInv ==
    boot = "check" =>
        /\ spot \in Checked..(Top - 1)
        /\ \A c \in Checked..(spot - 1) : c \notin dead
        /\ Checked \in dead \/ \A c \in spot..(Top - 1) : Filling(c)

BootInv == AloneInv /\ FillInv /\ CheckInv /\ RamTopExact

LEMMA Layout ==
  /\ B \in Nat /\ B > 1 /\ Checked \in Nat /\ Top \in Nat
  /\ B < Checked /\ Checked < Top /\ Top < B * B /\ B * B \in Nat
<1>1. B \in Nat /\ B > 1 /\ B * B \in Nat
  BY EepromAssumption, SquareNat
<1>2. Checked \in Ram /\ Checked >= 2 * B /\ Top \in Ram /\ Checked < Top
  BY BootAssumption
<1> QED BY <1>1, <1>2 DEF Ram

LEMMA BeginKeeps == ASSUME XferTypeOK, BootInv, Begin PROVE BootInv'
<1>1. boot = "reset" /\ boot' = "fill" /\ spot' = Top - 1 /\ pc' = "ready"
      /\ dead' = dead /\ ram' = Stored(Checked, 0)
  BY DEF Begin, Memory, BootInv, AloneInv, Trying, FillInv
<1>2. spot' \in B..(Top - 1)
  BY <1>1, Layout
<1>3. Checked \in dead \/ ram'[Checked] # Pattern
  BY <1>1, BootAssumption DEF Stored, XferTypeOK
<1>4. (spot' + 1)..(Top - 1) = {}
  BY <1>1, Layout
<1> QED BY <1>1, <1>2, <1>3, <1>4
        DEF BootInv, AloneInv, Trying, FillInv, CheckInv, RamTopExact

LEMMA FillKeeps == ASSUME XferTypeOK, BootInv, Fill PROVE BootInv'
<1>1. /\ boot = "fill" /\ pc = "ready" /\ pc' = "ready"
      /\ spot \in B..(Top - 1) /\ dead' = dead /\ ram' = Stored(spot, Pattern)
  BY DEF Fill, Memory, BootInv, AloneInv, Trying, FillInv
<1>2. spot \in Ram
  BY <1>1, Layout DEF Ram
<1>3. \A c \in Ram : c # spot => ram'[c] = ram[c]
  BY <1>1, <1>2 DEF Stored, XferTypeOK
<1>4. spot \notin dead => ram'[spot] = Pattern
  BY <1>1, <1>2 DEF Stored, XferTypeOK
<1>5. \A c \in spot..(Top - 1) : Filling(c)'
  <2> SUFFICES ASSUME NEW c \in spot..(Top - 1), c \notin dead
               PROVE  ram'[c] = Pattern
    BY <1>1 DEF Filling
  <2>1. CASE c = spot
    BY <2>1, <1>4
  <2>2. CASE c # spot
    <3>1. c \in (spot + 1)..(Top - 1) /\ c \in Ram
      BY <2>2, <1>1, Layout DEF Ram
    <3>2. ram[c] = Pattern
      BY <3>1, <1>1 DEF BootInv, FillInv, Filling
    <3> QED BY <3>1, <3>2, <2>2, <1>3
  <2> QED BY <2>1, <2>2
<1>6. CASE IF spot % B = 0 THEN spot = B ELSE ram'[Checked] = Pattern
  <2>1. boot' = "check" /\ spot' = Checked
    BY <1>6 DEF Fill
  <2>2. Checked \in dead \/ spot <= Checked
    <3> SUFFICES ASSUME Checked \notin dead, spot > Checked PROVE FALSE
      BY <1>1, Layout
    <3>1. ram[Checked] # Pattern
      BY <1>1, Layout DEF BootInv, FillInv
    <3>2. ram'[Checked] # Pattern
      BY <3>1, <1>3, Layout, BootAssumption
    <3>3. spot # B
      BY Layout
    <3> QED BY <1>6, <3>2, <3>3
  <2>3. Checked \in dead \/ \A c \in Checked..(Top - 1) : Filling(c)'
    BY <2>2, <1>5, <1>1, Layout
  <2>4. Checked..(Checked - 1) = {} /\ Checked \in Checked..(Top - 1)
    BY Layout
  <2> QED BY <1>1, <2>1, <2>3, <2>4
          DEF BootInv, AloneInv, Trying, FillInv, CheckInv, RamTopExact
<1>7. CASE ~(IF spot % B = 0 THEN spot = B ELSE ram'[Checked] = Pattern)
  <2>1. boot' = "fill" /\ spot' = spot - 1
    BY <1>7, <1>1 DEF Fill
  <2>2. spot # B
    BY <1>7, Layout
  <2>3. spot' \in B..(Top - 1) /\ spot' + 1 = spot
    BY <2>1, <2>2, <1>1, Layout
  <2>4. Checked \in dead \/ ram'[Checked] # Pattern \/ spot' < Checked
    <3> SUFFICES ASSUME Checked \notin dead, spot' >= Checked
                 PROVE  ram'[Checked] # Pattern
      BY <2>3, Layout
    <3>1. spot > Checked
      BY <2>1, <1>1, Layout
    <3>2. ram[Checked] # Pattern
      BY <3>1, <1>1, Layout DEF BootInv, FillInv
    <3> QED BY <3>1, <3>2, <1>3, Layout, BootAssumption
  <2> QED BY <1>1, <1>5, <2>1, <2>3, <2>4
          DEF BootInv, AloneInv, Trying, FillInv, CheckInv, RamTopExact
<1> QED BY <1>6, <1>7

LEMMA CheckKeeps == ASSUME XferTypeOK, BootInv, Check PROVE BootInv'
<1>1. /\ boot = "check" /\ pc = "ready" /\ pc' = "ready"
      /\ spot \in Checked..(Top - 1) /\ dead' = dead
      /\ \A c \in Checked..(spot - 1) : c \notin dead
      /\ Checked \in dead \/ \A c \in spot..(Top - 1) : Filling(c)
  BY DEF Check, Memory, BootInv, AloneInv, Trying, CheckInv
<1>2. spot \in Ram
  BY <1>1, Layout DEF Ram
<1>3. \A c \in Ram : c # spot => ram'[c] = ram[c]
  BY <1>2 DEF Check, Stored, XferTypeOK
<1>4. CASE Holds /\ spot + 1 < Top
  <2>1. boot' = "check" /\ spot' = spot + 1
    BY <1>4, <1>1 DEF Check
  <2>2. spot' \in Checked..(Top - 1)
    BY <2>1, <1>4, <1>1, Layout
  <2>3. \A c \in Checked..(spot' - 1) : c \notin dead
    BY <2>1, <1>1, <1>4, Layout DEF Holds
  <2>4. Checked \in dead \/ \A c \in spot'..(Top - 1) : Filling(c)'
    <3> SUFFICES ASSUME Checked \notin dead, NEW c \in spot'..(Top - 1),
                        c \notin dead
                 PROVE  ram'[c] = Pattern
      BY <1>1 DEF Filling
    <3>1. c \in spot..(Top - 1) /\ c # spot /\ c \in Ram
      BY <2>1, <1>1, Layout DEF Ram
    <3>2. ram[c] = Pattern
      BY <3>1, <1>1 DEF Filling
    <3> QED BY <3>1, <3>2, <1>3
  <2> QED BY <1>1, <2>1, <2>2, <2>3, <2>4
          DEF BootInv, AloneInv, Trying, FillInv, CheckInv, RamTopExact
<1>5. CASE ~(Holds /\ spot + 1 < Top)
  <2>1. boot' = "cls" /\ ramtop' = IF Holds THEN spot ELSE spot - 1
    BY <1>5 DEF Check
  <2>2. CASE Holds
    <3>1. spot \notin dead /\ ramtop' = spot /\ ramtop' + 1 = Top
      BY <2>1, <2>2, <1>5, <1>1, Layout DEF Holds
    <3>2. \A c \in Checked..ramtop' : c \notin dead
      BY <3>1, <1>1, Layout
    <3> QED BY <1>1, <2>1, <3>1, <3>2
            DEF BootInv, AloneInv, Trying, FillInv, CheckInv, RamTopExact
  <2>3. CASE ~Holds
    <3>1. spot \in dead
      <4> SUFFICES ASSUME spot \notin dead PROVE FALSE
        OBVIOUS
      <4>1. ram[spot] # Pattern
        BY <2>3 DEF Holds
      <4>2. Checked \in dead
        BY <4>1, <1>1, Layout DEF Filling
      <4>3. spot # Checked
        BY <4>2
      <4>4. Checked \in Checked..(spot - 1)
        BY <4>3, <1>1, Layout
      <4> QED BY <4>2, <4>4, <1>1
    <3>2. ramtop' = spot - 1 /\ ramtop' + 1 = spot
      BY <2>1, <2>3, <1>1, Layout
    <3> QED BY <1>1, <2>1, <3>1, <3>2
            DEF BootInv, AloneInv, Trying, FillInv, CheckInv, RamTopExact
  <2> QED BY <2>2, <2>3
<1> QED BY <1>4, <1>5

LEMMA LaterKeeps ==
  ASSUME BootInv, BootStep, ~Begin, ~Fill, ~Check
  PROVE  BootInv'
<1>1. /\ boot \notin {"reset", "fill", "check", "program"}
      /\ boot' \notin {"reset", "fill", "check", "program"}
  BY DEF BootStep, ClearScreen, SecondLine, MarkCorner, SaySize, SayBytes,
         NextLine, TryCart, Tried, LoadProgram, Fail, LoadFailed, Run,
         Says, Step, Loads
<1>2. ramtop' = ramtop /\ dead' = dead
  BY DEF BootStep, ClearScreen, SecondLine, MarkCorner, SaySize, SayBytes,
         NextLine, TryCart, Tried, LoadProgram, Fail, Run, Says, Step, Loads
<1> QED BY <1>1, <1>2
        DEF BootInv, AloneInv, Trying, FillInv, CheckInv, RamTopExact

LEMMA BesideKeeps ==
  ASSUME BootInv, RomNext, ~BootStep
  PROVE  BootInv'
<1>1. UNCHANGED bootVars
  BY DEF RomNext, Transfer, ShowOnScreen, Showing, Routine, Device
<1>2. CASE Trying
  <2>1. pc = "ready"
    BY <1>2 DEF BootInv, AloneInv
  <2>2. ~Transfer /\ ~ShowOnScreen
    BY <1>2 DEF Transfer, ShowOnScreen, InProgram, Trying
  <2>3. ~Routine
    BY <2>1 DEF Routine, Cpu, SendLoc2, SendLoc1, SendLoc0, Locate, LoadStart,
                LoadRestart, LoadCtl, LoadByte, LoadAck, LoadNak, SaveBlock,
                NextStop, NextStart, SaveByte, EndTransfer, SaveNext
  <2>4. UNCHANGED <<ram, pc>>
    BY <2>2, <2>3 DEF RomNext, Showing, Device, Environment, xferVars
  <2> QED BY <1>1, <2>4
          DEF bootVars, BootInv, AloneInv, Trying, FillInv, Filling, CheckInv,
              RamTopExact
<1>3. CASE ~Trying
  BY <1>1, <1>3
     DEF bootVars, BootInv, AloneInv, Trying, FillInv, CheckInv, RamTopExact
<1> QED BY <1>2, <1>3

LEMMA BootKeeps ==
  ASSUME XferTypeOK, BootInv, [RomNext]_romVars
  PROVE  BootInv'
<1>1. CASE BootStep
  BY <1>1, BeginKeeps, FillKeeps, CheckKeeps, LaterKeeps
<1>2. CASE RomNext /\ ~BootStep
  BY <1>2, BesideKeeps
<1>3. CASE UNCHANGED romVars
  BY <1>3 DEF romVars, xferVars, bootVars, BootInv, AloneInv, Trying, FillInv,
              Filling, CheckInv, RamTopExact
<1> QED BY <1>1, <1>2, <1>3

(* Whatever cells are broken, also $0220 or none, and whatever memory held *)
(* before: the boot says how far memory can be used, and says so exactly.  *)
THEOREM RamTopCorrect == RomSpec => []RamTopExact
<1>1. RomInit => BootInv
  BY DEF RomInit, BootInit, XferInit, BootInv, AloneInv, FillInv, CheckInv,
         RamTopExact
<1>2. XferTypeOK /\ BootInv /\ [RomNext]_romVars => BootInv'
  BY BootKeeps
<1>3. BootInv => RamTopExact
  BY DEF BootInv
<1> QED BY <1>1, <1>2, <1>3, MachineTypes, PTL DEF RomSpec

-----------------------------------------------------------------------------
(* The calls.  A program's come after the boot's.                          *)
CallsInv == DoesInv /\ (calls > 0 => InProgram)

LEMMA BootDoes ==
  ASSUME XferTypeOK, CallsFit, CallsInv, BootStep
  PROVE  CallsInv'
<1>1. ~InProgram
  BY DEF InProgram, BootStep, Begin, Fill, Check, ClearScreen, SecondLine,
         MarkCorner, SaySize, SayBytes, NextLine, TryCart, Tried, LoadProgram,
         Fail, LoadFailed, Run, Says, Step, Loads
<1>2. calls = 0 /\ calls' = 0
  <2>1. calls = 0
    BY <1>1 DEF CallsInv, XferTypeOK
  <2>2. UNCHANGED calls
    BY BootSteps DEF Waits, Enters, callVars
  <2> QED BY <2>1, <2>2
<1>3. CASE Waits
  BY <1>2, <1>3
     DEF CallsInv, DoesInv, LoadInv, SaveInv, Waits, deviceVars, callVars
<1>4. CASE Enters
  <2>1. PICK j \in Transfers : j.op = "load" /\ Enter(j)
    BY <1>4 DEF Enters
  <2> QED BY <2>1, <1>2, DoesEnter DEF CallsInv, CallsFit
<1> QED BY <1>3, <1>4, BootSteps

LEMMA CallsKeeps ==
  ASSUME XferTypeOK, InProtocol, CallsFit, CallsInv, [RomNext]_romVars
  PROVE  CallsInv'
<1>1. CASE BootStep
  BY <1>1, BootDoes
<1>2. CASE Transfer
  <2>1. PICK j \in Jobs : Enter(j)
    BY <1>2 DEF Transfer, Call
  <2>2. calls' > 0
    BY <1>2 DEF Transfer, Call, XferTypeOK
  <2>3. j \in Transfers
    BY XferAssumption
  <2>4. InProgram'
    BY <1>2 DEF Transfer, InProgram, bootVars
  <2> QED BY <2>1, <2>2, <2>3, <2>4, DoesEnter DEF CallsInv, CallsFit
<1>3. CASE Routine
  <2>1. DoesInv'
    BY <1>3, DoesCpu DEF Routine, CallsInv, CallsFit
  <2>2. UNCHANGED <<calls, boot>>
    BY <1>3 DEF Routine, bootVars, Cpu, SendLoc2, SendLoc1, SendLoc0, Locate,
                LoadStart, LoadRestart, LoadCtl, LoadByte, LoadAck, LoadNak,
                SaveBlock, NextStop, NextStart, SaveByte, EndTransfer, SaveNext,
                Goto, callVars
  <2> QED BY <2>1, <2>2 DEF CallsInv, InProgram
<1>4. CASE Device
  <2>1. UNCHANGED <<pc, registers, callVars, ram, mem, boot>>
        /\ (present' => present /\ ptr' = ptr)
    BY <1>4 DEF Device, Environment, Ready, Remove, bootVars
  <2>2. DoesInv'
    BY <2>1, DoesBeside DEF CallsInv
  <2> QED BY <2>1, <2>2 DEF CallsInv, InProgram, callVars
<1>5. CASE UNCHANGED <<xferVars, boot>>
  <2>1. UNCHANGED <<pc, registers, callVars, ram, mem>>
        /\ (present' => present /\ ptr' = ptr)
    BY <1>5 DEF xferVars, deviceVars
  <2>2. DoesInv'
    BY <2>1, DoesBeside DEF CallsInv
  <2> QED BY <1>5, <2>1, <2>2 DEF CallsInv, InProgram, callVars
<1>6. CASE ShowOnScreen \/ Showing \/ UNCHANGED romVars
  BY <1>5, <1>6 DEF ShowOnScreen, Showing, romVars, bootVars
<1> QED BY <1>1, <1>2, <1>3, <1>4, <1>6 DEF RomNext

LEMMA CallsStart == ASSUME RomInit PROVE CallsInv
  BY DEF RomInit, XferInit, DeviceInit, Idle, CallsInv, DoesInv, LoadInv, SaveInv,
         LoadPCs

LEMMA CallsDone ==
  /\ RomInit => CallsInv
  /\ CallsFit /\ XferTypeOK /\ InProtocol /\ CallsInv /\ [RomNext]_romVars
       => CallsFit' /\ CallsInv'
<1>1. CallsFit => CallsFit'
  BY DEF CallsFit, Transfers, Ram
<1> QED BY <1>1, CallsStart, CallsKeeps

(* A program that keeps to loadcart's and savecart's limits: a load that   *)
(* succeeds has put exactly the bytes asked for into memory, for every     *)
(* count of two bytes and every place they may come from or go to.         *)
THEOREM LoadCorrect == CallsFit /\ RomSpec => []LoadExact
<1>1. XferTypeOK /\ CallsInv => LoadExact
  BY LoadedExactly DEF CallsInv
<1> QED BY <1>1, CallsDone, MachineTypes, MachineInProtocol, PTL DEF RomSpec

(* A save that succeeds has put exactly the bytes asked for on the         *)
(* cartridge, across any pages and with any number of retries.             *)
THEOREM SaveCorrect == CallsFit /\ RomSpec => []SaveExact
<1>1. CallsInv => SaveExact
  BY SavedExactly DEF CallsInv
<1> QED BY <1>1, CallsDone, MachineTypes, MachineInProtocol, PTL DEF RomSpec

(* Whenever a save is cut short - the cartridge is pulled out, or never    *)
(* answers - the cartridge has a prefix of the bytes and nothing else has  *)
(* changed on it.                                                          *)
THEOREM SavePrefixCorrect == CallsFit /\ RomSpec => []SavesPrefix
<1>1. CallsFit /\ XferTypeOK /\ CallsInv => SavesPrefix
  BY SavedPrefix DEF CallsInv, CallsFit
<1> QED BY <1>1, CallsDone, MachineTypes, MachineInProtocol, PTL DEF RomSpec

-----------------------------------------------------------------------------
(* The boot's loads.  loadcart does not look for a borrow in its first dec,*)
(* so a load of a count whose low byte is 0 reads B bytes more; the bytes  *)
(* go up in memory and on from its beginning.                              *)
RamSize == B * B

Total == IF job.n % B = 0 THEN job.n + B ELSE job.n

Cell(t) == IF job.addr + t < RamSize THEN job.addr + t
                                     ELSE job.addr + t - RamSize

(* The first k bytes are loaded, or ones for those that came after the     *)
(* cartridge had gone.                                                     *)
Read(k) ==
    \A t \in 0..(k - 1) :
        \/ ram[Cell(t)] = mem[(job.loc + t) % Size]
        \/ ~present /\ ram[Cell(t)] = B - 1

(* The program as the boot leaves it, with its mark.                       *)
ProgramThere ==
    /\ MarkAt \notin dead => ram[MarkAt] = Pattern
    /\ \A t \in 0..(job.n - 1) :
        \/ ram[Cell(t)] = mem[(job.loc + t) % Size]
        \/ ~present /\ ram[Cell(t)] = B - 1
        \/ Cell(t) = MarkAt

(* The byte at k is under way.                                             *)
ReadingInv(k) ==
    /\ k < Total /\ addr = Cell(k) /\ Value(cnt) = Total - k - 1
    /\ pc \in {"l_last", "l_nak"} <=> k = Total - 1
    /\ pc \in {"l_byte", "l_last"} => Read(k) /\ (present => ptr = loc + k)
    /\ pc \in {"l_ack", "l_nak"} => Read(k + 1) /\ (present => ptr = loc + k + 1)

Reading == pc \in {"l_byte", "l_last", "l_ack", "l_nak"}

BootLoadInv ==
    /\ job.op = "load" /\ loc = job.loc /\ loc \in Ram /\ pc \in LoadPCs
    /\ Locating => cnt = Split(job.n) /\ addr = job.addr /\ (present => PointerInv)
    /\ Reading => \E k \in Nat : ReadingInv(k)
    /\ pc = "stop" => mode = "deaf"
    /\ pc \in {"stop", "ready"} /\ result = 0 => Read(Total)

-----------------------------------------------------------------------------
(* What the boot knows of the cartridge.                                   *)
Fetching == boot \in {"tried", "loading"}

IsProgram == \A k \in 0..3 : mem[k] = Magic[k + 1]

HeaderFits == IsProgram => OnCartridge(12) + OnCartridge(10) <= RamSize

HeaderJob == [op |-> "load", loc |-> 0, n |-> HeaderLoad, addr |-> HeaderAt]

HeaderRead == \A k \in 0..15 : HeaderByte(k) = mem[k % Size]

(* The program being loaded is the one the cartridge's header names.       *)
Named ==
    /\ IsProgram /\ entry = OnCartridge(4)
    /\ job.loc = OnCartridge(8) /\ job.n = OnCartridge(10)
    /\ job.addr = OnCartridge(12)

Unread == ~present /\ (Locating \/ (pc \in {"stop", "ready"} /\ result = 1))

CartInv ==
    calls = 0 /\ boot # "program" =>
        /\ HeaderFits /\ ~busy
        /\ present => result = 0
        /\ IF Fetching THEN BootLoadInv ELSE pc = "ready"
        /\ boot = "tried" => job = HeaderJob
        /\ boot = "header" /\ present => HeaderRead
        /\ boot = "loading" => Named \/ Unread
        /\ boot = "run" => Named /\ ProgramThere
        /\ boot = "failed" /\ present => ~IsProgram

LEMMA RamSizes ==
  /\ RamSize \in Nat /\ B \in Nat /\ B > 1 /\ RamSize > 0
  /\ Ram = 0..(RamSize - 1)
  BY EepromAssumption, SquareNat DEF Ram, RamSize

LEMMA LoadNumbers ==
  ASSUME job \in Transfers
  PROVE  /\ job.loc \in Nat /\ job.n \in Ram /\ job.addr \in Ram
         /\ Total \in Nat /\ 0 < Total /\ Total <= RamSize /\ job.n <= Total
<1>1. job.loc \in Nat /\ job.n \in Ram /\ job.addr \in Ram
  BY DEF Transfers
<1>2. PICK n \in Nat : n = job.n
  BY <1>1, RamSizes
<1>3. n < RamSize
  BY <1>1, <1>2, RamSizes
<1>4. CASE n % B = 0
  <2>1. PICK q \in Int : q = n \div B
    BY RamSizes
  <2>2. n = B * q + (n % B)
    <3>1. B \in Nat \ {0} /\ n \in Int
      BY RamSizes
    <3> QED BY <3>1, <2>1, Remainder
  <2>3. B * q \in Int
    BY RamSizes
  <2>4. n = B * q
    BY <2>2, <2>3, <1>4
  <2>5. q < B
    <3> SUFFICES ASSUME q >= B PROVE FALSE
      BY RamSizes
    <3>1. B * q >= B * B
      BY RamSizes
    <3> QED BY <3>1, <2>4, <1>3, RamSizes DEF RamSize
  <2>6. B * (q + 1) <= B * B
    BY <2>5, RamSizes
  <2>7. B * (q + 1) = B * q + B
    BY RamSizes
  <2>8. n + B <= RamSize
    BY <2>4, <2>6, <2>7, RamSizes DEF RamSize
  <2>9. Total = n + B
    BY <1>2, <1>4 DEF Total
  <2> QED BY <1>1, <1>2, <2>8, <2>9, RamSizes
<1>5. CASE n % B # 0
  <2>1. 0 % B = 0
    BY RamSizes
  <2>2. n # 0
    BY <1>5, <2>1
  <2>3. Total = n
    BY <1>2, <1>5 DEF Total
  <2> QED BY <1>1, <1>2, <1>3, <2>2, <2>3, RamSizes
<1> QED BY <1>4, <1>5

LEMMA CellFacts ==
  ASSUME job \in Transfers, NEW t \in Nat, t < RamSize
  PROVE  /\ Cell(t) \in Ram
         /\ \A u \in 0..(RamSize - 1) : u # t => Cell(u) # Cell(t)
         /\ t + 1 < RamSize => (Cell(t) + 1) % RamSize = Cell(t + 1)
<1>1. PICK a \in Nat : a = job.addr
  BY LoadNumbers, RamSizes
<1>2. PICK s \in Nat : s = RamSize
  BY RamSizes
<1>3. a < s /\ t < s /\ s > 0
  BY <1>1, <1>2, LoadNumbers, RamSizes
<1>4. \A u : Cell(u) = IF a + u < s THEN a + u ELSE a + u - s
  BY <1>1, <1>2 DEF Cell
<1>5. Cell(t) \in 0..(s - 1)
  BY <1>3, <1>4
<1>6. \A u \in 0..(s - 1) : u # t => Cell(u) # Cell(t)
  BY <1>3, <1>4
<1>7. ASSUME t + 1 < s PROVE (Cell(t) + 1) % s = Cell(t + 1)
  <2>1. \A c \in Nat : c < s => c % s = c
    BY <1>3
  <2>2. s % s = 0
    BY <1>3
  <2>3. CASE Cell(t) + 1 = s
    <3>1. Cell(t + 1) = 0
      BY <2>3, <1>3, <1>4, <1>7
    <3> QED BY <3>1, <2>2, <2>3
  <2>4. CASE Cell(t) + 1 # s
    <3>1. Cell(t) + 1 \in Nat /\ Cell(t) + 1 < s
      BY <2>4, <1>5
    <3>2. Cell(t + 1) = Cell(t) + 1
      BY <2>4, <1>3, <1>4, <1>7
    <3> QED BY <3>1, <3>2, <2>1
  <2> QED BY <2>3, <2>4
<1> QED BY <1>2, <1>5, <1>6, <1>7, RamSizes

LEMMA ReadSame ==
  ASSUME UNCHANGED <<ram, job, mem>>, present' => present, NEW k, Read(k)
  PROVE  Read(k)'
  BY DEF Read, Cell

LEMMA ReadMore ==
  ASSUME XferTypeOK, UNCHANGED <<job, mem, present>>,
         NEW k \in Nat, k < Total, Read(k), NEW v,
         v = mem[(job.loc + k) % Size] \/ (~present /\ v = B - 1),
         ram' = [ram EXCEPT ![Cell(k)] = v]
  PROVE  Read(k + 1)'
<1>1. job \in Transfers /\ ram \in [Ram -> Bytes]
  BY DEF XferTypeOK
<1>2. Total \in Nat /\ Total <= RamSize /\ RamSize \in Nat
  BY <1>1, LoadNumbers, RamSizes
<1>3. k < RamSize
  BY <1>2
<1> SUFFICES ASSUME NEW t \in 0..k
             PROVE  \/ ram'[Cell(t)] = mem[(job.loc + t) % Size]
                    \/ ~present /\ ram'[Cell(t)] = B - 1
  <2>1. 0..((k + 1) - 1) = 0..k
    OBVIOUS
  <2> QED BY <2>1 DEF Read, Cell
<1>4. Cell(t) \in Ram /\ (t # k => Cell(t) # Cell(k))
  <2>1. t \in Nat /\ t < RamSize /\ t \in 0..(RamSize - 1)
    BY <1>2, <1>3
  <2> QED BY <2>1, <1>1, <1>3, CellFacts
<1>5. CASE t = k
  BY <1>1, <1>4, <1>5
<1>6. CASE t # k
  <2>1. t \in 0..(k - 1)
    BY <1>6
  <2>2. ram'[Cell(t)] = ram[Cell(t)]
    BY <1>1, <1>4, <1>6
  <2> QED BY <2>1, <2>2 DEF Read
<1> QED BY <1>5, <1>6

(* The control bytes that loadcart sends select the cartridge.             *)
LEMMA Selected ==
  ASSUME NEW p \in Nat
  PROVE  Selects(WriteCtl(p)) /\ Selects(ReadCtl)
<1>1. PICK b \in Nat \ {0} : b = Blocks
  BY EepromAssumption
<1>2. PICK y \in Int : y = (p \div (B * B)) % Blocks
  <2>1. p \div (B * B) \in Int /\ Blocks \in Nat \ {0}
    BY EepromAssumption, SquareNat
  <2> QED BY <2>1
<1>3. y \in 0..(b - 1)
  <2>1. p \div (B * B) \in Int
    BY SquareNat
  <2>2. \A q \in Int : q % b \in 0..(b - 1)
    OBVIOUS
  <2> QED BY <1>1, <1>2, <2>1, <2>2
<1>4. Select \in Int /\ 2 * b \in Nat \ {0}
  BY EepromAssumption
<1>5. WriteCtl(p) = (2 * b) * Select + 2 * y /\ 2 * y \in 0..(2 * b - 1)
  BY <1>1, <1>2, <1>3 DEF WriteCtl
<1>6. ReadCtl = (2 * b) * Select + 1 /\ 1 \in 0..(2 * b - 1)
  BY <1>1 DEF ReadCtl
<1> DEFINE d == 2 * b
<1>7. d \in Nat \ {0} /\ Selects(WriteCtl(p)) = (WriteCtl(p) \div d = Select)
      /\ Selects(ReadCtl) = (ReadCtl \div d = Select)
  BY <1>1, <1>4 DEF Selects
<1>8. WriteCtl(p) = d * Select + 2 * y /\ 2 * y \in 0..(d - 1)
      /\ ReadCtl = d * Select + 1 /\ 1 \in 0..(d - 1)
  BY <1>5, <1>6
<1> HIDE DEF d
<1>9. (d * Select + 2 * y) \div d = Select /\ (d * Select + 1) \div d = Select
  BY <1>4, <1>7, <1>8, Quotient
<1> QED BY <1>7, <1>8, <1>9

-----------------------------------------------------------------------------
(* A load of the boot from its call to its return.                         *)
Running == BootLoadInv /\ ~busy /\ (present => result = 0)

(* What none of its steps changes.                                         *)
Kept == UNCHANGED <<job, calls, mem, present, loc>>

LEMMA RunEnters ==
  ASSUME XferTypeOK, NEW j \in Transfers, j.op = "load", j.loc \in Ram, Enter(j)
  PROVE  BootLoadInv'
<1>1. /\ job' = j /\ loc' = j.loc /\ cnt' = Split(j.n) /\ addr' = j.addr
      /\ pc' = "l_start"
  BY DEF Enter
<1>2. pc' \in LoadPCs /\ PointerInv' /\ Locating' /\ ~Reading'
  BY <1>1 DEF LoadPCs, PointerInv, Locating, Reading
<1>3. cnt' = Split(job.n)' /\ addr' = job'.addr /\ loc' = job'.loc
      /\ loc' \in Ram /\ job'.op = "load"
  BY <1>1 DEF Split, HighByte
<1>4. pc' # "stop" /\ pc' # "ready"
  BY <1>1
<1> QED BY <1>2, <1>3, <1>4 DEF BootLoadInv

LEMMA RunLocates ==
  ASSUME XferTypeOK, InProtocol, Running, SendLoc2 \/ SendLoc1 \/ SendLoc0
  PROVE  Running' /\ Kept /\ UNCHANGED ram /\ (~present => Unread')
<1>1. /\ job.op = "load" /\ loc = job.loc /\ loc \in Ram /\ pc \in LoadPCs
      /\ Locating /\ cnt = Split(job.n) /\ addr = job.addr
      /\ present => PointerInv
  BY DEF Running, BootLoadInv, SendLoc2, SendLoc1, SendLoc0, Locate, Locating
<1>2. UNCHANGED <<ram, callVars, mem, present, busy>>
  BY DEF SendLoc2, SendLoc1, SendLoc0, Locate, SendCtl, SendAddr
<1>3. loc \in Nat /\ loc < Blocks * B * B
  <2>1. loc \in Nat /\ loc < RamSize
    BY <1>1, RamSizes
  <2>2. PICK s \in Nat : s = RamSize
    BY RamSizes
  <2>3. Blocks * s >= s /\ Blocks * s \in Nat
    BY <2>2, EepromAssumption
  <2>4. Blocks * B * B = Blocks * (B * B)
    BY EepromAssumption
  <2> QED BY <2>1, <2>2, <2>3, <2>4 DEF RamSize
<1>4. reply' = (IF present THEN 0 ELSE 1)
  <2>1. Selects(WriteCtl(loc))
    BY <1>3, Selected
  <2> QED BY <2>1 DEF SendLoc2, SendLoc1, SendLoc0, SendCtl, SendAddr, Acked, Running
<1>5. CASE ~present
  <2>1. \E b : Nak(b)
    BY <1>4, <1>5 DEF SendLoc2, SendLoc1, SendLoc0, Locate
  <2>2. pc' = "stop" /\ result' = 1 /\ UNCHANGED <<loc, cnt, addr>>
    BY <1>1, <2>1 DEF Nak
  <2>3. mode' = "deaf"
    BY <1>4, <1>5 DEF SendLoc2, SendLoc1, SendLoc0, SendCtl, SendAddr, Acked
  <2> QED BY <1>1, <1>2, <1>5, <2>2, <2>3
          DEF Running, BootLoadInv, LoadPCs, Locating, Reading, Kept, Unread,
              callVars
<1>6. CASE present
  <2>1. UNCHANGED registers
    BY <1>4, <1>6 DEF SendLoc2, SendLoc1, SendLoc0, Locate
  <2>2. /\ (WriteCtl(loc) \div 2) % Blocks = loc \div (B * B)
        /\ B * (loc \div (B * B)) + HighByte(loc) = loc \div B
        /\ B * (loc \div B) + LowByte(loc) = loc
    BY <1>3, LocationSent
  <2>3. pc' \in {"loc1", "loc0", "l_resta"}
    BY <1>1, <1>4, <1>6 DEF SendLoc2, SendLoc1, SendLoc0, Locate
  <2>4. PointerInv'
    <3>1. CASE SendLoc2
      <4>1. pc' = "loc1" /\ mode = "ctl"
        BY <3>1, <1>4, <1>6 DEF SendLoc2, Locate, InProtocol
      <4>2. ptr' = (WriteCtl(loc) \div 2) % Blocks
        BY <3>1, <4>1, <1>4, <1>6 DEF SendLoc2, SendCtl, Acked
      <4> QED BY <4>1, <4>2, <2>1, <2>2 DEF PointerInv, registers
    <3>2. CASE SendLoc1
      <4>1. pc' = "loc0" /\ ptr = loc \div (B * B)
        BY <3>2, <1>1, <1>4, <1>6 DEF SendLoc1, Locate, PointerInv
      <4>2. ptr' = B * ptr + HighByte(loc)
        BY <3>2, <1>6 DEF SendLoc1, SendAddr
      <4> QED BY <4>1, <4>2, <2>1, <2>2 DEF PointerInv, registers
    <3>3. CASE SendLoc0
      <4>1. pc' = "l_resta" /\ ptr = loc \div B
        BY <3>3, <1>1, <1>4, <1>6 DEF SendLoc0, Locate, PointerInv
      <4>2. ptr' = B * ptr + LowByte(loc)
        BY <3>3, <1>6 DEF SendLoc0, SendAddr
      <4> QED BY <4>1, <4>2, <2>1, <2>2 DEF PointerInv, registers
    <3> QED BY <3>1, <3>2, <3>3
  <2> QED BY <1>1, <1>2, <1>6, <2>1, <2>3, <2>4
          DEF Running, BootLoadInv, LoadPCs, Locating, Reading, Kept, registers,
              callVars
<1> QED BY <1>5, <1>6

(* The count after the first dec, which does not look for a borrow.        *)
LEMMA FirstDec ==
  ASSUME job \in Transfers, NEW lo, lo = Dec(Split(job.n).lo), NEW c,
         c = [Split(job.n) EXCEPT !.lo = lo]
  PROVE  /\ Value(c) = Total - 1
         /\ lo = 0 /\ Split(job.n).hi = 0 <=> Total = 1
<1>1. job.n \in Ram /\ job.n \in Nat /\ B \in Nat /\ B > 1
  BY LoadNumbers, RamSizes
<1>2. PICK w \in Word : w = Split(job.n)
  BY <1>1, SplitValue
<1>3. Value(w) = job.n /\ w.lo = job.n % B
  BY <1>1, <1>2, SplitValue DEF Split
<1>4. w.lo \in Bytes /\ w.hi \in Bytes /\ lo = Dec(w.lo)
      /\ c = [lo |-> lo, hi |-> w.hi]
  BY <1>2 DEF Word
<1>5. CASE job.n % B # 0
  <2>1. lo # B - 1
    BY <1>3, <1>4, <1>5, DecNumber, EepromAssumption DEF Bytes
  <2>2. Value(w) > 0
    <3>1. 0 % B = 0
      BY <1>1
    <3> QED BY <3>1, <1>1, <1>3, <1>5
  <2>3. Value([lo |-> lo, hi |-> w.hi]) = Value(w) - 1
        /\ (lo = 0 /\ w.hi = 0 <=> Value(w) = 1)
    BY <1>4, <2>1, <2>2, CountDown
  <2> QED BY <2>3, <1>2, <1>3, <1>4, <1>5 DEF Total
<1>6. CASE job.n % B = 0
  <2>1. lo = B - 1 /\ w.lo = 0
    BY <1>3, <1>4, <1>6, DecNumber
  <2>2. PICK t \in Int : t = B * w.hi
    BY <1>1, <1>4 DEF Bytes
  <2>3. Value(w) = t + w.lo /\ Value(c) = t + (B - 1)
    BY <1>4, <2>1, <2>2 DEF Value
  <2>4. Value(c) = job.n + B - 1
    BY <2>1, <2>3, <1>1, <1>3
  <2>5. Total = job.n + B
    BY <1>6 DEF Total
  <2>6. lo # 0
    BY <2>1, <1>1
  <2> QED BY <2>4, <2>5, <2>6, <1>1
<1> QED BY <1>5, <1>6

LEMMA RunBegins ==
  ASSUME XferTypeOK, InProtocol, Running, LoadCtl
  PROVE  Running' /\ Kept /\ UNCHANGED ram /\ (~present => Unread')
<1>1. /\ job.op = "load" /\ loc = job.loc /\ loc \in Ram
      /\ cnt = Split(job.n) /\ addr = job.addr /\ (present => ptr = loc)
      /\ job \in Transfers
  BY DEF Running, BootLoadInv, LoadCtl, Locating, PointerInv, XferTypeOK
<1>2. UNCHANGED <<ram, callVars, mem, present, loc, addr, busy>>
  BY DEF LoadCtl, SendCtl
<1>3. reply' = (IF present THEN 0 ELSE 1)
  <2>1. Selects(ReadCtl)
    <3>1. 0 \in Nat
      OBVIOUS
    <3> QED BY <3>1, Selected
  <2> QED BY <2>1 DEF LoadCtl, SendCtl, Acked, Running
<1>4. CASE ~present
  <2>1. pc' = "stop" /\ result' = 1 /\ mode' = "deaf"
    BY <1>3, <1>4 DEF LoadCtl, SendCtl, Acked
  <2> QED BY <1>1, <1>2, <1>4, <2>1
          DEF Running, BootLoadInv, LoadPCs, Locating, Reading, Kept, Unread,
              callVars
<1>5. CASE present
  <2> DEFINE lo == Dec(cnt.lo)
  <2>1. /\ cnt' = [cnt EXCEPT !.lo = lo] /\ UNCHANGED result
        /\ pc' = IF lo = 0 /\ cnt.hi = 0 THEN "l_last" ELSE "l_byte"
    BY <1>3, <1>5 DEF LoadCtl
  <2>2. Value(cnt') = Total - 1 /\ (lo = 0 /\ cnt.hi = 0 <=> Total = 1)
    BY <1>1, <2>1, FirstDec
  <2>3. ptr' = loc
    <3>1. mode = "rctl"
      BY DEF LoadCtl, InProtocol
    <3> QED BY <3>1, <1>1, <1>3, <1>5 DEF LoadCtl, SendCtl, Acked
  <2> HIDE DEF lo
  <2>4. Total' = Total /\ Total \in Nat /\ Total > 0 /\ job' = job
    BY <1>1, <1>2, LoadNumbers DEF Total, callVars
  <2>5. addr' = Cell(0)'
    <3>1. job.addr \in Nat /\ job.addr < RamSize /\ job.addr + 0 = job.addr
      BY <1>1, LoadNumbers, RamSizes
    <3> QED BY <3>1, <1>1, <1>2, <2>4 DEF Cell
  <2>6. Read(0)'
    BY DEF Read
  <2>7. pc' \in {"l_byte", "l_last"} /\ (pc' = "l_last" <=> Total = 1)
    BY <2>1, <2>2
  <2>8. loc + 0 = loc
    BY <1>1, RamSizes
  <2>9. ReadingInv(0)'
    BY <1>2, <2>2, <2>3, <2>4, <2>5, <2>6, <2>7, <2>8 DEF ReadingInv
  <2> QED BY <1>1, <1>2, <1>5, <2>1, <2>4, <2>7, <2>9
          DEF Running, BootLoadInv, LoadPCs, Locating, Reading, Kept, callVars
<1> QED BY <1>4, <1>5

LEMMA RunReads ==
  ASSUME XferTypeOK, InProtocol, Running, LoadByte \/ LoadAck \/ LoadNak
  PROVE  Running' /\ Kept
<1>1. /\ job.op = "load" /\ loc = job.loc /\ loc \in Ram /\ Reading
      /\ job \in Transfers
  BY DEF Running, BootLoadInv, LoadByte, LoadAck, LoadNak, Reading, XferTypeOK
<1>2. PICK k \in Nat : ReadingInv(k)
  BY <1>1 DEF Running, BootLoadInv
<1>3. UNCHANGED <<callVars, mem, present, loc, busy>>
  BY DEF LoadByte, LoadAck, LoadNak, Get, Ack, registers
<1>4. /\ k < Total /\ addr = Cell(k) /\ Value(cnt) = Total - k - 1
      /\ pc \in {"l_last", "l_nak"} <=> k = Total - 1
      /\ pc \in {"l_byte", "l_last"} => Read(k) /\ (present => ptr = loc + k)
      /\ pc \in {"l_ack", "l_nak"} => Read(k + 1) /\ (present => ptr = loc + k + 1)
  BY <1>2 DEF ReadingInv
<1>5. /\ Total \in Nat /\ Total <= RamSize /\ RamSize \in Nat /\ Total > 0
      /\ loc \in Nat
  BY <1>1, LoadNumbers, RamSizes
<1>6. Total' = Total /\ job' = job /\ \A t : Cell(t)' = Cell(t)
  BY <1>3 DEF Total, Cell, callVars
<1>7. CASE LoadByte
  <2> DEFINE v == IF present THEN mem[ptr % Size] ELSE B - 1
  <2>1. /\ pc \in {"l_byte", "l_last"} /\ UNCHANGED <<registers, callVars>>
        /\ pc' = IF pc = "l_byte" THEN "l_ack" ELSE "l_nak"
        /\ ram' = [ram EXCEPT ![addr] = v] /\ ptr' = ptr + 1
    BY <1>7 DEF LoadByte, Get
  <2>2. v = mem[(job.loc + k) % Size] \/ (~present /\ v = B - 1)
    BY <1>1, <1>4, <2>1
  <2> HIDE DEF v
  <2>3. Read(k + 1)'
    BY <1>3, <1>4, <2>1, <2>2, ReadMore DEF callVars
  <2>4. present => ptr' = loc + k + 1
    BY <1>4, <1>5, <2>1
  <2>5. ReadingInv(k)'
    <3>1. pc' \in {"l_ack", "l_nak"} /\ (pc' = "l_nak" <=> pc = "l_last")
      BY <2>1
    <3>2. addr' = Cell(k)' /\ cnt' = cnt
      BY <1>4, <1>6, <2>1 DEF registers
    <3>3. Value(cnt)' = Total' - k - 1
      BY <1>4, <1>6, <3>2 DEF Value
    <3>4. pc' \in {"l_last", "l_nak"} <=> k = Total' - 1
      BY <1>4, <1>6, <2>1, <3>1
    <3> QED BY <1>3, <1>4, <1>6, <2>3, <2>4, <3>1, <3>2, <3>3, <3>4
            DEF ReadingInv
  <2>6. pc' \in {"l_ack", "l_nak"}
    BY <2>1
  <2> QED BY <1>1, <1>3, <1>6, <2>1, <2>5, <2>6
          DEF Running, BootLoadInv, LoadPCs, Locating, Reading, Kept, callVars,
              registers
<1>8. CASE LoadAck
  <2>1. /\ pc = "l_ack" /\ addr' = (addr + 1) % RamSize /\ ptr' = ptr
        /\ UNCHANGED <<ram, loc, result>> /\ AfterDec(Dec(cnt.lo), cnt.hi)
    BY <1>8 DEF LoadAck, Ack, RamSize
  <2>2. k + 1 < Total
    BY <1>4, <1>5, <2>1
  <2>3. addr' = Cell(k + 1)
    <3>1. k < RamSize /\ k + 1 < RamSize
      BY <1>5, <2>2
    <3> QED BY <3>1, <1>1, <1>4, <2>1, CellFacts
  <2> DEFINE lo == Dec(cnt.lo)  hi == IF lo = B - 1 THEN Dec(cnt.hi) ELSE cnt.hi
  <2>4. cnt' = [lo |-> lo, hi |-> hi]
        /\ pc' = IF lo = 0 /\ cnt.hi = 0 THEN "l_last" ELSE "l_byte"
    BY <2>1 DEF AfterDec
  <2>5. Value(cnt) > 0 /\ cnt \in Word
    BY <1>4, <1>5, <2>2 DEF XferTypeOK
  <2>6. Value(cnt') = Value(cnt) - 1 /\ (lo = 0 /\ cnt.hi = 0 <=> Value(cnt) = 1)
    BY <2>4, <2>5, CountDown
  <2>7. Value(cnt') = Total - (k + 1) - 1
        /\ (lo = 0 /\ cnt.hi = 0 <=> k + 1 = Total - 1)
    BY <1>4, <1>5, <2>6
  <2> HIDE DEF lo, hi
  <2>8. pc' \in {"l_byte", "l_last"} /\ (pc' = "l_last" <=> k + 1 = Total - 1)
    BY <2>4, <2>7
  <2>9. Read(k + 1)'
    BY <1>3, <1>4, <2>1, ReadSame DEF callVars
  <2>10. present => ptr' = loc + (k + 1)
    BY <1>4, <1>5, <2>1
  <2>11. ReadingInv(k + 1)'
    BY <1>3, <1>6, <2>2, <2>3, <2>7, <2>8, <2>9, <2>10 DEF ReadingInv
  <2>12. k + 1 \in Nat
    OBVIOUS
  <2> QED BY <1>1, <1>3, <1>6, <2>1, <2>8, <2>11, <2>12
          DEF Running, BootLoadInv, LoadPCs, Locating, Reading, Kept, callVars
<1>9. CASE LoadNak
  <2>1. pc = "l_nak" /\ pc' = "stop" /\ UNCHANGED ram /\ result' = 0
        /\ mode' = "deaf"
    BY <1>9 DEF LoadNak, Ack
  <2>2. k + 1 = Total /\ Read(k + 1)
    BY <1>4, <1>5, <2>1
  <2>3. Read(Total)'
    BY <1>3, <1>6, <2>1, <2>2, ReadSame DEF callVars
  <2> QED BY <1>1, <1>3, <1>6, <2>1, <2>3
          DEF Running, BootLoadInv, LoadPCs, Locating, Reading, Kept, callVars
<1> QED BY <1>7, <1>8, <1>9

(* A step of a load; one that finds the cartridge gone cannot end well.    *)
LEMMA RunCpu ==
  ASSUME XferTypeOK, InProtocol, Running, Cpu
  PROVE  Running' /\ Kept /\ (Unread => Unread')
<1>1. CASE SendLoc2 \/ SendLoc1 \/ SendLoc0
  BY <1>1, RunLocates DEF Unread
<1>2. CASE LoadCtl
  BY <1>2, RunBegins DEF Unread
<1>3. CASE LoadByte \/ LoadAck \/ LoadNak
  <2>1. ~Unread
    BY <1>3 DEF LoadByte, LoadAck, LoadNak, Unread, Locating
  <2> QED BY <1>3, <2>1, RunReads
<1>4. CASE LoadStart \/ LoadRestart
  <2>1. /\ pc \in {"l_start", "l_resta"} /\ UNCHANGED <<registers, ram, callVars>>
        /\ pc' = (IF pc = "l_start" THEN "loc2" ELSE "l_ctl")
        /\ UNCHANGED <<mem, busy, present>> /\ (pc = "l_resta" => ptr' = ptr)
    BY <1>4 DEF LoadStart, LoadRestart, Start, Restart, Goto
  <2>2. PointerInv' \/ ~present
    BY <2>1 DEF Running, BootLoadInv, PointerInv, Locating, registers
  <2>3. BootLoadInv'
    BY <2>1, <2>2 DEF Running, BootLoadInv, LoadPCs, Locating, Reading, registers,
                      callVars
  <2> QED BY <2>1, <2>3 DEF Running, Kept, Unread, Locating, registers, callVars
<1>5. CASE EndTransfer
  <2>1. /\ pc = "stop" /\ pc' = "ready" /\ UNCHANGED <<registers, ram, callVars>>
        /\ UNCHANGED <<mem, present>> /\ mode = "deaf"
    BY <1>5 DEF EndTransfer, Goto, Stop, Running, BootLoadInv
  <2>2. ~busy'
    BY <1>5, <2>1 DEF EndTransfer, Stop, Running
  <2>3. result = 0 => Read(Total)' /\ Total' = Total
    BY <2>1, ReadSame DEF Running, BootLoadInv, callVars, Total
  <2>4. result' = 0 => Read(Total)'
    BY <2>1, <2>3 DEF registers, callVars, Total
  <2> QED BY <2>1, <2>2, <2>4
          DEF Running, BootLoadInv, LoadPCs, Locating, Reading, Kept, Unread,
              registers, callVars
<1>6. CASE SaveBlock \/ NextStop \/ NextStart \/ SaveByte \/ SaveNext
  <2>1. pc \notin LoadPCs
    BY <1>6 DEF SaveBlock, NextStop, NextStart, SaveByte, SaveNext, LoadPCs
  <2> QED BY <2>1 DEF Running, BootLoadInv
<1> QED BY <1>1, <1>2, <1>3, <1>4, <1>5, <1>6 DEF Cpu

-----------------------------------------------------------------------------
(* The boot's steps.                                                       *)
LEMMA OnCartridgeSame ==
  ASSUME UNCHANGED mem
  PROVE  /\ \A k : OnCartridge(k)' = OnCartridge(k)
         /\ IsProgram' = IsProgram /\ HeaderFits' = HeaderFits
  BY DEF OnCartridge, IsProgram, HeaderFits

LEMMA StartCart == ASSUME HeadersFit, RomInit PROVE CartInv
<1>1. pc = "ready" /\ result = 0 /\ busy = FALSE /\ calls = 0
  BY DEF RomInit, XferInit, DeviceInit
<1> SUFFICES ASSUME boot # "program" PROVE CartInv
  BY DEF CartInv
<1>2. session.reset /\ session \in Sessions /\ mem \in session.images /\ boot = "reset"
  BY DEF RomInit, BootInit
<1>3. HeaderFits
  <2> SUFFICES ASSUME IsProgram
               PROVE  OnCartridge(12) + OnCartridge(10) <= RamSize
    BY DEF HeaderFits
  <2>1. (mem[12] + B * mem[13]) + (mem[10] + B * mem[11]) <= B * B /\ Size >= 16
    BY <1>2 DEF HeadersFit, IsProgram
  <2>2. \A k \in 0..15 : k % Size = k
    BY <2>1, EepromAssumption
  <2>3. OnCartridge(12) = mem[12] + B * mem[13]
        /\ OnCartridge(10) = mem[10] + B * mem[11]
    BY <2>2 DEF OnCartridge
  <2> QED BY <2>1, <2>3 DEF RamSize
<1> QED BY <1>1, <1>2, <1>3 DEF CartInv, Fetching

(* A header that has been read is the cartridge's.                         *)
LEMMA HeaderSame ==
  ASSUME HeaderRead, NEW k \in 0..14
  PROVE  HeaderWord(k) = OnCartridge(k)
<1>1. k \in 0..15 /\ k + 1 \in 0..15
  OBVIOUS
<1> QED BY <1>1 DEF HeaderRead, HeaderWord, OnCartridge

LEMMA HeaderIsProgram ==
  ASSUME HeadersFit, HeaderRead
  PROVE  GoodHeader <=> IsProgram
<1>1. Size >= 16
  BY DEF HeadersFit
<1>2. \A k \in 0..3 : k % Size = k
  BY <1>1, EepromAssumption
<1>3. \A k \in 0..3 : HeaderByte(k) = mem[k]
  BY <1>2 DEF HeaderRead
<1> QED BY <1>3 DEF GoodHeader, IsProgram

(* The first 16 bytes of the boot's first load.                            *)
LEMMA HeaderLoaded ==
  ASSUME HeadersFit, XferTypeOK, job = HeaderJob, Read(Total), present
  PROVE  HeaderRead
<1> SUFFICES ASSUME NEW k \in 0..15 PROVE HeaderByte(k) = mem[k % Size]
  BY DEF HeaderRead
<1>1. job \in Transfers /\ job.loc = 0 /\ job.n = HeaderLoad /\ job.addr = HeaderAt
  BY DEF XferTypeOK, HeaderJob
<1>2. HeaderLoad >= 16 /\ HeaderLoad \in Nat /\ HeaderAt \in Nat
      /\ HeaderAt + 16 <= RamSize
  BY BootAssumption, RamSizes DEF HeadersFit, RamSize
<1>3. Total \in Nat /\ Total >= 16
  BY <1>1, <1>2, LoadNumbers
<1>4. k \in 0..(Total - 1)
  BY <1>3
<1>5. Cell(k) = HeaderAt + k
  BY <1>1, <1>2, RamSizes DEF Cell
<1>6. ram[Cell(k)] = mem[(job.loc + k) % Size]
  BY <1>4 DEF Read
<1> QED BY <1>1, <1>5, <1>6 DEF HeaderByte

LEMMA EarlyKeeps ==
  ASSUME CartInv, \/ Begin \/ Fill \/ Check \/ ClearScreen \/ SecondLine
                  \/ MarkCorner \/ SaySize \/ SayBytes \/ NextLine
  PROVE  CartInv'
<1>1. /\ boot \notin {"program", "tried", "loading", "header", "run", "failed"}
      /\ boot' \notin {"program", "tried", "loading", "header", "run", "failed"}
  BY DEF Begin, Fill, Check, ClearScreen, SecondLine, MarkCorner, SaySize,
         SayBytes, NextLine, Says, Step
<1>2. UNCHANGED <<calls, mem, busy, present, result, pc>>
  BY DEF Begin, Fill, Check, Memory, ClearScreen, SecondLine, MarkCorner, SaySize,
         SayBytes, NextLine, Says, Step, callVars, deviceVars, registers
<1> QED BY <1>1, <1>2, OnCartridgeSame DEF CartInv, Fetching

LEMMA TryKeeps ==
  ASSUME XferTypeOK, CartInv, TryCart
  PROVE  CartInv'
<1>1. boot = "try" /\ boot' = "tried" /\ Enter(HeaderJob) /\ UNCHANGED calls
  BY DEF TryCart, Loads, HeaderJob
<1>2. UNCHANGED <<mem, busy, present, result>> /\ job' = HeaderJob
  BY <1>1 DEF Enter, deviceVars
<1>3. BootLoadInv'
  <2>1. HeaderJob \in Transfers /\ HeaderJob.op = "load" /\ HeaderJob.loc \in Ram
    BY BootAssumption, RamSizes DEF HeaderJob, Transfers
  <2> QED BY <2>1, <1>1, RunEnters
<1> QED BY <1>1, <1>2, <1>3, OnCartridgeSame DEF CartInv, Fetching, HeaderJob

LEMMA TriedKeeps ==
  ASSUME HeadersFit, XferTypeOK, CartInv, Tried
  PROVE  CartInv'
<1>1. /\ boot = "tried" /\ pc = "ready" /\ boot' \in {"header", "try"}
      /\ UNCHANGED <<deviceVars, pc, registers, callVars, ram>>
  BY DEF Tried
<1>2. UNCHANGED <<calls, mem, busy, present, result, job>>
  BY <1>1 DEF deviceVars, registers, callVars
<1> SUFFICES ASSUME calls = 0 PROVE CartInv'
  BY <1>2 DEF CartInv
<1>3. /\ HeaderFits /\ ~busy /\ (present => result = 0) /\ BootLoadInv
      /\ job = HeaderJob
  BY <1>1 DEF CartInv, Fetching
<1>4. present => HeaderRead
  BY <1>1, <1>3, HeaderLoaded DEF BootLoadInv
<1>5. HeaderRead' = HeaderRead
  BY <1>1, <1>2 DEF HeaderRead, HeaderByte
<1> QED BY <1>1, <1>2, <1>3, <1>4, <1>5, OnCartridgeSame DEF CartInv, Fetching

LEMMA ProgramKeeps ==
  ASSUME HeadersFit, XferTypeOK, CartInv, LoadProgram
  PROVE  CartInv'
<1> DEFINE j == [op |-> "load", loc |-> HeaderWord(8), n |-> HeaderWord(10),
                 addr |-> HeaderWord(12)]
<1>1. /\ GoodHeader /\ boot = "header" /\ boot' = "loading" /\ Enter(j)
      /\ UNCHANGED calls /\ entry' = HeaderWord(4)
  BY DEF LoadProgram, Loads
<1>2. /\ UNCHANGED <<mem, busy, present, result>> /\ job' = j
      /\ pc' = "l_start"
  BY <1>1 DEF Enter, deviceVars
<1>3. BootLoadInv'
  <2>1. HeaderWord(8) \in Ram /\ HeaderWord(10) \in Ram /\ HeaderWord(12) \in Ram
    BY HeaderWords
  <2>2. j \in Transfers /\ j.op = "load" /\ j.loc \in Ram
    BY <2>1, RamSizes DEF Transfers
  <2> QED BY <2>2, <1>1, RunEnters
<1> SUFFICES ASSUME calls = 0 PROVE CartInv'
  BY <1>1 DEF CartInv
<1>4. HeaderFits /\ ~busy /\ (present => result = 0 /\ HeaderRead)
  BY <1>1 DEF CartInv
<1>5. present => Named'
  <2> SUFFICES ASSUME present PROVE Named'
    OBVIOUS
  <2>1. HeaderRead /\ IsProgram
    BY <1>1, <1>4, HeaderIsProgram
  <2>2. /\ HeaderWord(4) = OnCartridge(4) /\ HeaderWord(8) = OnCartridge(8)
        /\ HeaderWord(10) = OnCartridge(10) /\ HeaderWord(12) = OnCartridge(12)
    BY <2>1, HeaderSame
  <2>3. job'.loc = OnCartridge(8) /\ job'.n = OnCartridge(10)
        /\ job'.addr = OnCartridge(12) /\ entry' = OnCartridge(4)
    BY <1>1, <1>2, <2>2
  <2> QED BY <1>2, <2>1, <2>3, OnCartridgeSame DEF Named
<1>6. ~present => Unread'
  BY <1>2 DEF Unread, Locating
<1> QED BY <1>1, <1>2, <1>3, <1>4, <1>5, <1>6, OnCartridgeSame DEF CartInv, Fetching

LEMMA FailKeeps ==
  ASSUME HeadersFit, XferTypeOK, CartInv, Fail
  PROVE  CartInv'
<1>1. /\ boot' = "failed" /\ UNCHANGED <<deviceVars, pc, registers, callVars, ram>>
      /\ boot \in {"header", "loading"}
      /\ boot = "header" => ~GoodHeader
      /\ boot = "loading" => pc = "ready" /\ result # 0
  BY DEF Fail, LoadFailed, Says, Step
<1>2. UNCHANGED <<calls, mem, busy, present, result, pc>>
  BY <1>1 DEF deviceVars, registers, callVars
<1> SUFFICES ASSUME calls = 0 PROVE CartInv'
  BY <1>2 DEF CartInv
<1>3. /\ HeaderFits /\ ~busy /\ (present => result = 0) /\ pc = "ready"
      /\ boot = "header" /\ present => HeaderRead
  BY <1>1 DEF CartInv, Fetching
<1>4. present => ~IsProgram
  BY <1>1, <1>3, HeaderIsProgram
<1> QED BY <1>1, <1>2, <1>3, <1>4, OnCartridgeSame DEF CartInv, Fetching

LEMMA RunKeeps ==
  ASSUME XferTypeOK, CartInv, Run
  PROVE  CartInv'
<1>1. /\ boot = "loading" /\ boot' = "run" /\ pc = "ready" /\ result = 0
      /\ UNCHANGED <<deviceVars, pc, registers, callVars, entry, dead>>
      /\ ram' = Stored(MarkAt, Pattern)
  BY DEF Run, LoadFailed, Step
<1>2. UNCHANGED <<calls, mem, busy, present, result, pc, job, entry, dead>>
  BY <1>1 DEF deviceVars, registers, callVars
<1> SUFFICES ASSUME calls = 0 PROVE CartInv'
  BY <1>2 DEF CartInv
<1>3. /\ HeaderFits /\ ~busy /\ BootLoadInv /\ (Named \/ Unread)
  BY <1>1 DEF CartInv, Fetching
<1>4. Named /\ Read(Total)
  BY <1>1, <1>3 DEF Unread, Locating, BootLoadInv
<1>5. Read(job.n)
  <2>1. job.n \in Nat /\ Total \in Nat /\ job.n <= Total
    BY LoadNumbers, RamSizes DEF XferTypeOK
  <2>2. \A t \in 0..(job.n - 1) : t \in 0..(Total - 1)
    BY <2>1
  <2> QED BY <1>4, <2>2 DEF Read
<1>6. ProgramThere'
  <2>1. /\ MarkAt \in Ram /\ (MarkAt \notin dead => ram'[MarkAt] = Pattern)
        /\ \A c \in Ram \ {MarkAt} : ram'[c] = ram[c]
    BY <1>1, BootAssumption DEF Stored, XferTypeOK
  <2>2. ASSUME NEW t \in 0..(job.n - 1)
        PROVE  \/ ram'[Cell(t)] = mem[(job.loc + t) % Size]
               \/ ~present /\ ram'[Cell(t)] = B - 1
               \/ Cell(t) = MarkAt
    <3>1. job.n \in Ram /\ job.addr \in Ram
      BY LoadNumbers DEF XferTypeOK
    <3>2. Cell(t) \in Ram
      BY <2>2, <3>1, RamSizes DEF Cell
    <3> QED BY <1>5, <2>1, <2>2, <3>2 DEF Read
  <2>3. \A t : Cell(t)' = Cell(t)
    BY <1>2 DEF Cell
  <2> QED BY <1>2, <2>1, <2>2, <2>3 DEF ProgramThere
<1>7. Named'
  BY <1>2, <1>4, OnCartridgeSame DEF Named
<1> QED BY <1>1, <1>2, <1>3, <1>6, <1>7, OnCartridgeSame DEF CartInv, Fetching

LEMMA RoutineKeeps ==
  ASSUME XferTypeOK, InProtocol, CartInv, Routine
  PROVE  CartInv'
<1>1. Cpu /\ UNCHANGED <<boot, entry>>
  BY DEF Routine, bootVars
<1>2. pc # "ready"
  BY <1>1 DEF Cpu, SendLoc2, SendLoc1, SendLoc0, Locate, LoadStart, LoadRestart,
         LoadCtl, LoadByte, LoadAck, LoadNak, SaveBlock, NextStop, NextStart,
         SaveByte, EndTransfer, SaveNext
<1>3. UNCHANGED calls
  BY <1>1 DEF Cpu, SendLoc2, SendLoc1, SendLoc0, Locate, LoadStart, LoadRestart,
         LoadCtl, LoadByte, LoadAck, LoadNak, SaveBlock, NextStop, NextStart,
         SaveByte, EndTransfer, SaveNext, Goto, callVars
<1> SUFFICES ASSUME calls = 0, boot # "program" PROVE CartInv'
  BY <1>1, <1>3 DEF CartInv
<1>4. Fetching /\ Running /\ HeaderFits
  BY <1>2 DEF CartInv, Running
<1>5. Running' /\ Kept /\ (Unread => Unread')
  BY <1>1, <1>4, RunCpu
<1>6. Named => Named'
  BY <1>1, <1>5, OnCartridgeSame DEF Named, Kept
<1> QED BY <1>1, <1>4, <1>5, <1>6, OnCartridgeSame DEF CartInv, Fetching, Kept, Running

LEMMA DeviceKeeps ==
  ASSUME CartInv, Device \/ UNCHANGED <<xferVars, boot, entry, dead>>
  PROVE  CartInv'
<1>1. /\ UNCHANGED <<pc, registers, callVars, ram, mem, boot, entry, dead, ptr, mode>>
      /\ busy' => busy
      /\ present' => present
  BY DEF Device, Environment, Ready, Remove, bootVars, xferVars, deviceVars
<1>2. UNCHANGED <<calls, result, job, loc, cnt, addr>>
  BY <1>1 DEF registers, callVars
<1> SUFFICES ASSUME calls = 0, boot # "program" PROVE CartInv'
  BY <1>1, <1>2 DEF CartInv
<1>3. \A k : Read(k) => Read(k)'
  BY <1>1, <1>2, ReadSame
<1>4. Total' = Total /\ job' = job /\ \A k : Cell(k)' = Cell(k)
  BY <1>2 DEF Total, Cell
<1>5. \A k : ReadingInv(k) => ReadingInv(k)'
  BY <1>1, <1>2, <1>3, <1>4 DEF ReadingInv, Value
<1>6. PointerInv => PointerInv'
  BY <1>1, <1>2 DEF PointerInv
<1>7. Locating' = Locating /\ Reading' = Reading /\ Split(job.n)' = Split(job.n)
  BY <1>1, <1>2 DEF Locating, Reading, Split, HighByte
<1>8. BootLoadInv => BootLoadInv'
  BY <1>1, <1>2, <1>3, <1>4, <1>5, <1>6, <1>7 DEF BootLoadInv
<1>9. (Named => Named') /\ (Unread => Unread')
  BY <1>1, <1>2, <1>7, OnCartridgeSame DEF Named, Unread
<1>10. HeaderRead => HeaderRead'
  BY <1>1 DEF HeaderRead, HeaderByte
<1>11. ProgramThere => ProgramThere'
  BY <1>1, <1>2, <1>4 DEF ProgramThere
<1> QED BY <1>1, <1>2, <1>8, <1>9, <1>10, <1>11, OnCartridgeSame
        DEF CartInv, Fetching

LEMMA CartKeeps ==
  ASSUME HeadersFit, XferTypeOK, InProtocol, CartInv, [RomNext]_romVars
  PROVE  CartInv'
<1>1. CASE BootStep
  BY <1>1, EarlyKeeps, TryKeeps, TriedKeeps, ProgramKeeps, FailKeeps, RunKeeps
     DEF BootStep
<1>2. CASE Transfer
  <2>1. calls' # 0
    BY <1>2 DEF Transfer, Call, XferTypeOK
  <2> QED BY <2>1 DEF CartInv
<1>3. CASE Routine
  BY <1>3, RoutineKeeps
<1>4. CASE Device
  BY <1>4, DeviceKeeps
<1>5. CASE ShowOnScreen \/ Showing \/ UNCHANGED romVars
  BY <1>5, DeviceKeeps DEF ShowOnScreen, Showing, romVars, bootVars
<1> QED BY <1>1, <1>2, <1>3, <1>4, <1>5 DEF RomNext

LEMMA CartTells == ASSUME XferTypeOK, CartInv PROVE BootTells
<1>1. CASE calls = 0 /\ boot = "failed"
  BY <1>1 DEF CartInv, BootTells, IsProgram
<1>2. CASE calls = 0 /\ boot = "run"
  <2>1. Named /\ ProgramThere /\ HeaderFits
    BY <1>2 DEF CartInv
  <2>2. IsProgram /\ entry = OnCartridge(4) /\ job.loc = OnCartridge(8)
        /\ job.n = OnCartridge(10) /\ job.addr = OnCartridge(12)
    BY <2>1 DEF Named
  <2>3. ASSUME NEW k \in 0..(OnCartridge(10) - 1)
        PROVE  \/ ram[OnCartridge(12) + k] = mem[(OnCartridge(8) + k) % Size]
               \/ ~present /\ ram[OnCartridge(12) + k] = B - 1
               \/ OnCartridge(12) + k = MarkAt
    <3>1. OnCartridge(12) + OnCartridge(10) <= RamSize
      BY <2>1, <2>2 DEF HeaderFits
    <3>2. OnCartridge(12) \in Nat /\ OnCartridge(10) \in Nat /\ RamSize \in Nat
      BY <2>2, LoadNumbers, RamSizes DEF XferTypeOK
    <3>3. Cell(k) = OnCartridge(12) + k
      BY <2>2, <3>1, <3>2 DEF Cell
    <3> QED BY <2>1, <2>2, <3>3 DEF ProgramThere
  <2>4. MarkAt \notin dead => ram[MarkAt] = Pattern
    BY <2>1 DEF ProgramThere
  <2> QED BY <1>2, <2>2, <2>3, <2>4 DEF BootTells, IsProgram
<1>3. CASE ~(calls = 0 /\ boot \in {"run", "failed"})
  BY <1>3 DEF BootTells
<1> QED BY <1>1, <1>2, <1>3

LEMMA CartDone ==
  /\ RomInit => CartInv
  /\ XferTypeOK /\ InProtocol /\ CartInv /\ [RomNext]_romVars => CartInv'
BY HeadersAssumption, StartCart, CartKeeps

(* For every cartridge whose programs fit into memory and spare the cells  *)
(* the boot works in (HeadersAssumption), and whatever memory held at the  *)
(* reset: if the cartridge stays in, the boot runs a program if and only if*)
(* the cartridge has one; what it runs is entered where the header says and*)
(* is loaded byte for byte, but for the byte under the boot's mark, even if*)
(* the cartridge is pulled out at any moment (then the bytes that follow   *)
(* are ones).                                                              *)
THEOREM BootCorrect == RomSpec => []BootTells
<1>1. XferTypeOK /\ CartInv => BootTells
  BY CartTells
<1> QED BY <1>1, CartDone, MachineTypes, MachineInProtocol, PTL DEF RomSpec
=============================================================================
