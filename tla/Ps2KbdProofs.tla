---------------------------- MODULE Ps2KbdProofs ----------------------------
(***************************************************************************)
(* The keyboard controller takes every code exactly once and as it was     *)
(* sent, for any set of codes and any table of keys, and shows a changed   *)
(* key whatever row the computer selects meanwhile.                        *)
(***************************************************************************)
EXTENDS Ps2Kbd, TLAPS

-----------------------------------------------------------------------------
(* The invariant.  r17 and r16 are one register of ten bits.  After n bits *)
(* of a frame it holds those bits above the ones that are left of the ten; *)
(* the start bit has left it after eleven, and the code is in r16.         *)

Register == r16 + 256 * r17

Holds(n, c, v) ==
    CASE n = 0 -> v = 1023
      [] n = 1 -> v = 511
      [] n = 2 -> v = 255 + 512 * (c % 2)
      [] n = 3 -> v = 127 + 256 * (c % 4)
      [] n = 4 -> v = 63 + 128 * (c % 8)
      [] n = 5 -> v = 31 + 64 * (c % 16)
      [] n = 6 -> v = 15 + 32 * (c % 32)
      [] n = 7 -> v = 7 + 16 * (c % 64)
      [] n = 8 -> v = 3 + 8 * (c % 128)
      [] n = 9 -> v = 1 + 4 * c
      [] n = 10 -> v \in {2 * c, 2 * c + 512}
      [] n = 11 -> v \in {c + 512, c + 768}

InFrame ==
    /\ clock = 0 => nbit >= 1 /\ datum \in FrameBit(code, nbit)
    /\ pc = "read" /\ clock = 0 => Holds(nbit - 1, code, Register)
    /\ pc = "read" /\ clock = 1 => IF nbit = 11 THEN Holds(0, code, Register) ELSE Holds(nbit, code, Register)
    /\ pc = "high" => nbit >= 1 /\ Holds(nbit, code, Register) /\ carry = (IF nbit = 11 THEN 0 ELSE 1)
    /\ pc \in {"byte", "ldx", "out"} => nbit = 11 /\ clock = 1
    /\ pc = "byte" => r16 = code

(* Once the interrupt is served X is the row, and r25 its columns whenever *)
(* the loop is about to put them out.                                      *)
RowInv ==
    ~ldkbrow /\ X # NoKey =>
        /\ X = row
        /\ pc = "out" => r25 = matrix[row]

Ps2Inv == Ps2TypeOK /\ InFrame /\ RowInv

-----------------------------------------------------------------------------
LEMMA Ps2InitInv == ASSUME Ps2Init PROVE Ps2Inv
<1> USE DEF Ps2Init, Ones
<1>1. Ps2TypeOK
  <2>1. r25 \in SUBSET Cols /\ r16 \in Byte /\ r17 \in 0..3
    BY Ps2Assumption DEF Byte
  <2>2. ldkbrow \in BOOLEAN /\ X \in Rows \cup {NoKey} /\ PORTD \in SUBSET Cols
    OBVIOUS
  <2>3. matrix \in [Rows -> SUBSET Cols]
    OBVIOUS
  <2> QED BY <2>1, <2>2, <2>3 DEF Ps2TypeOK
<1>2. InFrame
  BY DEF InFrame, Holds, Register
<1>3. RowInv
  BY DEF RowInv
<1> QED BY <1>1, <1>2, <1>3 DEF Ps2Inv

(* One shift of the ten bits.                                              *)
LEMMA ShiftRegister ==
  ASSUME Ps2TypeOK, ShiftBit
  PROVE  /\ r16' \in Byte /\ r17' \in 0..3 /\ carry' \in 0..1
         /\ Register' = (Register \div 2) + 512 * datum
         /\ carry' = Register % 2
  BY DEF Ps2TypeOK, ShiftBit, Shift17, Register, Byte

(* The bits of a frame, one by one.                                        *)
LEMMA FrameBits ==
  ASSUME NEW c \in Byte
  PROVE  /\ FrameBit(c, 1) = {0} /\ FrameBit(c, 10) = {0, 1} /\ FrameBit(c, 11) = {1}
         /\ FrameBit(c, 2) = {c % 2}
         /\ FrameBit(c, 3) = {(c \div 2) % 2}
         /\ FrameBit(c, 4) = {(c \div 4) % 2}
         /\ FrameBit(c, 5) = {(c \div 8) % 2}
         /\ FrameBit(c, 6) = {(c \div 16) % 2}
         /\ FrameBit(c, 7) = {(c \div 32) % 2}
         /\ FrameBit(c, 8) = {(c \div 64) % 2}
         /\ FrameBit(c, 9) = {(c \div 128) % 2}
<1>1. /\ Weight[1] = 1 /\ Weight[2] = 2 /\ Weight[3] = 4 /\ Weight[4] = 8
      /\ Weight[5] = 16 /\ Weight[6] = 32 /\ Weight[7] = 64 /\ Weight[8] = 128
  BY DEF Weight
<1>2. \A i \in 2..9 : FrameBit(c, i) = {(c \div Weight[i - 1]) % 2}
  BY DEF FrameBit
<1>3. /\ FrameBit(c, 1) = {0} /\ FrameBit(c, 10) = {0, 1} /\ FrameBit(c, 11) = {1}
  BY DEF FrameBit
<1>4. c \div 1 = c
  BY DEF Byte
<1> QED BY <1>1, <1>2, <1>3, <1>4

LEMMA ShiftHolds ==
  ASSUME Ps2TypeOK, InFrame, ShiftBit
  PROVE  /\ Holds(nbit, code, Register)'
         /\ carry' = (IF nbit = 11 THEN 0 ELSE 1)
<1>1. nbit \in 1..11 /\ Holds(nbit - 1, code, Register) /\ datum \in FrameBit(code, nbit)
  BY DEF Ps2TypeOK, InFrame, ShiftBit
<1>2. code \in Byte /\ code \in 0..255 /\ code' = code /\ nbit' = nbit
  BY Ps2Assumption DEF Ps2TypeOK, ShiftBit, keyboardVars, Byte
<1>3. Register' = (Register \div 2) + 512 * datum /\ carry' = Register % 2
  BY ShiftRegister
<1>4. CASE nbit = 1
  <2>1. Register = 1023 /\ datum = 0
    BY <1>1, <1>2, <1>4, FrameBits DEF Holds
  <2>2. Register' = 511 /\ carry' = 1
    BY <1>2, <1>3, <2>1
  <2> QED BY <1>2, <1>4, <2>2 DEF Holds
<1>5. CASE nbit = 2
  <2>1. Register = 511 /\ datum = code % 2
    BY <1>1, <1>2, <1>5, FrameBits DEF Holds
  <2>2. Register' = 255 + 512 * (code % 2) /\ carry' = 1
    BY <1>2, <1>3, <2>1
  <2> QED BY <1>2, <1>5, <2>2 DEF Holds
<1>6. CASE nbit = 3
  <2>1. Register = 255 + 512 * (code % 2) /\ datum = (code \div 2) % 2
    BY <1>1, <1>2, <1>6, FrameBits DEF Holds
  <2>2. Register' = 127 + 256 * (code % 4) /\ carry' = 1
    BY <1>2, <1>3, <2>1
  <2> QED BY <1>2, <1>6, <2>2 DEF Holds
<1>7. CASE nbit = 4
  <2>1. Register = 127 + 256 * (code % 4) /\ datum = (code \div 4) % 2
    BY <1>1, <1>2, <1>7, FrameBits DEF Holds
  <2>2. Register' = 63 + 128 * (code % 8) /\ carry' = 1
    BY <1>2, <1>3, <2>1
  <2> QED BY <1>2, <1>7, <2>2 DEF Holds
<1>8. CASE nbit = 5
  <2>1. Register = 63 + 128 * (code % 8) /\ datum = (code \div 8) % 2
    BY <1>1, <1>2, <1>8, FrameBits DEF Holds
  <2>2. Register' = 31 + 64 * (code % 16) /\ carry' = 1
    BY <1>2, <1>3, <2>1
  <2> QED BY <1>2, <1>8, <2>2 DEF Holds
<1>9. CASE nbit = 6
  <2>1. Register = 31 + 64 * (code % 16) /\ datum = (code \div 16) % 2
    BY <1>1, <1>2, <1>9, FrameBits DEF Holds
  <2>2. Register' = 15 + 32 * (code % 32) /\ carry' = 1
    BY <1>2, <1>3, <2>1
  <2> QED BY <1>2, <1>9, <2>2 DEF Holds
<1>10. CASE nbit = 7
  <2>1. Register = 15 + 32 * (code % 32) /\ datum = (code \div 32) % 2
    BY <1>1, <1>2, <1>10, FrameBits DEF Holds
  <2>2. Register' = 7 + 16 * (code % 64) /\ carry' = 1
    BY <1>2, <1>3, <2>1
  <2> QED BY <1>2, <1>10, <2>2 DEF Holds
<1>11. CASE nbit = 8
  <2>1. Register = 7 + 16 * (code % 64) /\ datum = (code \div 64) % 2
    BY <1>1, <1>2, <1>11, FrameBits DEF Holds
  <2>2. Register' = 3 + 8 * (code % 128) /\ carry' = 1
    BY <1>2, <1>3, <2>1
  <2> QED BY <1>2, <1>11, <2>2 DEF Holds
<1>12. CASE nbit = 9
  <2>1. Register = 3 + 8 * (code % 128) /\ datum = (code \div 128) % 2
    BY <1>1, <1>2, <1>12, FrameBits DEF Holds
  <2>2. Register' = 1 + 4 * code /\ carry' = 1
    BY <1>2, <1>3, <2>1
  <2> QED BY <1>2, <1>12, <2>2 DEF Holds
<1>13. CASE nbit = 10
  <2>1. Register = 1 + 4 * code /\ datum \in {0, 1}
    BY <1>1, <1>2, <1>13, FrameBits DEF Holds
  <2>2. Register' \in {2 * code, 2 * code + 512} /\ carry' = 1
    BY <1>2, <1>3, <2>1
  <2> QED BY <1>2, <1>13, <2>2 DEF Holds
<1>14. CASE nbit = 11
  <2>1. Register \in {2 * code, 2 * code + 512} /\ datum = 1
    BY <1>1, <1>2, <1>14, FrameBits DEF Holds
  <2>2. Register' \in {code + 512, code + 768} /\ carry' = 0
    BY <1>2, <1>3, <2>1
  <2> QED BY <1>2, <1>14, <2>2 DEF Holds
<1> QED
  BY <1>1, <1>4, <1>5, <1>6, <1>7, <1>8, <1>9, <1>10, <1>11, <1>12, <1>13, <1>14

-----------------------------------------------------------------------------
(* Every step keeps the invariant.                                         *)

LEMMA Ps2TypeNext == ASSUME Ps2TypeOK, Ps2Next PROVE Ps2TypeOK'
<1> USE DEF Ps2TypeOK, keyboardVars, computerVars, frameVars, outputVars
<1>1. CASE SendCode \/ ClockHigh \/ SelectRow
  <2>1. CASE SendCode
    BY <2>1 DEF SendCode, Waiting
  <2>2. CASE ClockHigh
    BY <2>2 DEF ClockHigh, Waiting
  <2>3. CASE SelectRow
    BY <2>3 DEF SelectRow
  <2> QED BY <1>1, <2>1, <2>2, <2>3
<1>2. CASE ClockLow
  <2>1. nbit + 1 \in 1..11 /\ code \in Byte
    BY <1>2, Ps2Assumption DEF ClockLow
  <2>2. datum' \in 0..1
    BY <1>2, <2>1, FrameBits DEF ClockLow, Byte
  <2> QED BY <1>2, <2>1, <2>2 DEF ClockLow, Waiting
<1>3. CASE Rowchange
  BY <1>3 DEF Rowchange
<1>4. CASE ShiftBit
  <2>1. PORTD' \in SUBSET Cols
    BY <1>4 DEF ShiftBit, ZeroBits
  <2> QED BY <1>4, <2>1, ShiftRegister DEF ShiftBit
<1>5. CASE WaitHigh
  BY <1>5 DEF WaitHigh
<1>6. CASE Prefix
  <2>1. r19' \in [release : BOOLEAN, extended : BOOLEAN]
    BY <1>6 DEF Prefix
  <2>2. pc' = "read" /\ r16' \in Byte /\ r17' \in 0..3 /\ carry' = carry
    BY <1>6 DEF Prefix, MainLoop, Ones, Byte
  <2> QED BY <1>6, <2>1, <2>2 DEF Prefix
<1>7. CASE IgnoreKey
  BY <1>7 DEF IgnoreKey, MainLoop, Ones, Byte, NoStatus
<1>8. CASE UpdateKey
  <2>1. Key \in Keys
    BY <1>8, Ps2Assumption DEF UpdateKey, Key
  <2>2. Key.row \in Rows /\ Key.col \in Cols
    BY <2>1 DEF Keys
  <2>3. matrix' \in [Rows -> SUBSET Cols]
    BY <1>8, <2>2 DEF UpdateKey
  <2> QED BY <1>8, <2>3 DEF UpdateKey
<1>9. CASE LoadColumns
  <2>1. r25' \in SUBSET Cols
    BY <1>9, Ps2Assumption DEF LoadColumns
  <2> QED BY <1>9, <2>1 DEF LoadColumns
<1>10. CASE OutColumns
  BY <1>10 DEF OutColumns, MainLoop, Ones, Byte, NoStatus
<1> QED
  BY <1>1, <1>2, <1>3, <1>4, <1>5, <1>6, <1>7, <1>8, <1>9, <1>10 DEF Ps2Next, Controller

LEMMA InFrameNext == ASSUME Ps2TypeOK, InFrame, Ps2Next PROVE InFrame'
<1> USE DEF keyboardVars, computerVars, frameVars, outputVars
<1>0. nbit \in 0..11 /\ clock \in 0..1
  BY DEF Ps2TypeOK
<1>1. CASE SendCode
  <2>1. Register = 1023 /\ Register' = 1023 /\ pc' = "read" /\ clock' = 1 /\ nbit' = 0
    BY <1>1 DEF InFrame, SendCode, Waiting, Holds, Register
  <2> QED BY <2>1 DEF InFrame, Holds
<1>2. CASE ClockLow
  <2>1. /\ pc = "read" /\ pc' = "read" /\ clock = 1 /\ clock' = 0
        /\ nbit < 11 /\ nbit' = nbit + 1 /\ nbit' - 1 = nbit
        /\ datum' \in FrameBit(code, nbit + 1)
        /\ code' = code /\ Register' = Register
    BY <1>0, <1>2 DEF ClockLow, Waiting, Register
  <2>2. Holds(nbit, code, Register)
    BY <2>1 DEF InFrame
  <2> QED BY <1>0, <2>1, <2>2 DEF InFrame
<1>3. CASE ClockHigh
  <2>1. /\ pc = "high" /\ pc' = "high" /\ clock' = 1 /\ nbit' = nbit /\ carry' = carry
        /\ code' = code /\ Register' = Register
    BY <1>3 DEF ClockHigh, Waiting, Register
  <2> QED BY <2>1 DEF InFrame
<1>4. CASE SelectRow \/ Rowchange \/ LoadColumns
  <2>1. /\ UNCHANGED <<code, nbit, clock, datum, carry, r16>> /\ Register' = Register
        /\ \/ pc' = pc
           \/ pc \in {"byte", "ldx", "out"} /\ pc' = "out"
    BY <1>4 DEF SelectRow, Rowchange, LoadColumns, Register
  <2> QED BY <2>1 DEF InFrame
<1>5. CASE ShiftBit
  <2>1. pc' = "high" /\ nbit' = nbit /\ clock' = clock /\ code' = code /\ datum' = datum
    BY <1>5 DEF ShiftBit
  <2>2. nbit >= 1 /\ (clock = 0 => datum \in FrameBit(code, nbit))
    BY <1>5 DEF InFrame, ShiftBit
  <2>3. Holds(nbit, code, Register)' /\ carry' = (IF nbit = 11 THEN 0 ELSE 1)
    BY <1>5, ShiftHolds
  <2> QED BY <2>1, <2>2, <2>3 DEF InFrame
<1>6. CASE WaitHigh
  <2>1. /\ pc = "high" /\ clock = 1 /\ clock' = 1 /\ nbit' = nbit /\ code' = code
        /\ r16' = r16 /\ Register' = Register
        /\ pc' = IF carry = 1 THEN "read" ELSE "byte"
    BY <1>6 DEF WaitHigh, Register
  <2>2. nbit >= 1 /\ Holds(nbit, code, Register) /\ carry = (IF nbit = 11 THEN 0 ELSE 1)
    BY <2>1 DEF InFrame
  <2>3. CASE nbit = 11
    <3>1. Register \in {code + 512, code + 768}
      BY <2>2, <2>3 DEF Holds
    <3>2. r16 = code
      BY <3>1, Ps2Assumption DEF Ps2TypeOK, Register, Byte
    <3> QED BY <2>1, <2>2, <2>3, <3>2 DEF InFrame
  <2>4. CASE nbit # 11
    BY <2>1, <2>2, <2>4 DEF InFrame
  <2> QED BY <2>3, <2>4
<1>7. CASE Prefix \/ IgnoreKey \/ OutColumns
  <2>1. /\ pc \in {"byte", "out"} /\ pc' = "read" /\ nbit' = nbit /\ clock' = clock
        /\ Register' = 1023
    BY <1>7 DEF Prefix, IgnoreKey, IsKey, OutColumns, MainLoop, Ones, Register
  <2>2. nbit = 11 /\ clock = 1
    BY <2>1 DEF InFrame
  <2>3. Holds(0, code', Register')
    BY <2>1 DEF Holds
  <2> QED BY <2>1, <2>2, <2>3 DEF InFrame
<1>8. CASE UpdateKey
  <2>1. pc = "byte" /\ pc' = "ldx" /\ nbit' = nbit /\ clock' = clock
    BY <1>8 DEF UpdateKey, IsKey
  <2> QED BY <2>1 DEF InFrame
<1> QED
  BY <1>1, <1>2, <1>3, <1>4, <1>5, <1>6, <1>7, <1>8 DEF Ps2Next, Controller

(* The interrupt leaves in r25 the columns of the row that X now points    *)
(* at, so whatever the loop has loaded is still right when it puts it out. *)
LEMMA RowNext == ASSUME Ps2TypeOK, InFrame, RowInv, Ps2Next PROVE RowInv'
<1> USE DEF keyboardVars, computerVars, frameVars, outputVars
<1>1. CASE SendCode \/ ClockLow \/ ClockHigh
  BY <1>1 DEF SendCode, ClockLow, ClockHigh, Waiting, RowInv
<1>2. CASE SelectRow
  BY <1>2 DEF SelectRow, RowInv
<1>3. CASE Rowchange
  BY <1>3 DEF Rowchange, RowInv
<1>4. CASE ShiftBit \/ Prefix \/ IgnoreKey \/ OutColumns
  BY <1>4 DEF ShiftBit, Prefix, IgnoreKey, OutColumns, MainLoop, RowInv
<1>5. CASE WaitHigh \/ UpdateKey
  BY <1>5 DEF WaitHigh, UpdateKey, RowInv
<1>6. CASE LoadColumns
  BY <1>6 DEF LoadColumns, RowInv
<1> QED
  BY <1>1, <1>2, <1>3, <1>4, <1>5, <1>6 DEF Ps2Next, Controller

LEMMA Ps2StepInv == ASSUME Ps2Inv, [Ps2Next]_ps2Vars PROVE Ps2Inv'
<1>1. CASE Ps2Next
  BY <1>1, Ps2TypeNext, InFrameNext, RowNext DEF Ps2Inv
<1>2. CASE UNCHANGED ps2Vars
  BY <1>2 DEF ps2Vars, keyboardVars, computerVars, frameVars, outputVars,
              Ps2Inv, Ps2TypeOK, InFrame, RowInv, Register
<1> QED BY <1>1, <1>2

LEMMA Ps2Always == Ps2Spec => []Ps2Inv
BY Ps2InitInv, Ps2StepInv, PTL DEF Ps2Spec

-----------------------------------------------------------------------------
(* Every variable keeps its type: the registers hold ten bits, and no key  *)
(* is written outside the matrix.                                          *)
THEOREM Ps2Types == Ps2Spec => []Ps2TypeOK
<1>1. Ps2Inv => Ps2TypeOK
  BY DEF Ps2Inv
<1> QED BY <1>1, Ps2Always, PTL

(* Whenever the loop puts out the columns after a key has changed, they    *)
(* are those of the row the computer selects at that moment, however often *)
(* the interrupt has come in between (comment at 229-230).                 *)
THEOREM Ps2KeyShown == Ps2Spec => KeyShown
<1>1. Ps2Inv => ((OutColumns /\ ~ldkbrow /\ X # NoKey) => PORTD' = matrix[row])
  BY DEF Ps2Inv, RowInv, OutColumns
<1>2. Ps2Inv /\ [Ps2Next]_ps2Vars
        => [(OutColumns /\ ~ldkbrow /\ X # NoKey) => PORTD' = matrix[row]]_ps2Vars
  BY <1>1
<1> QED BY <1>2, Ps2Always, PTL DEF Ps2Spec, KeyShown

-----------------------------------------------------------------------------
(* The controller implements the link: a code is on it from SendCode until *)
(* a prefix is noted, the code is ignored, or the matrix is updated, and   *)
(* it is taken as it was sent.                                             *)
LEMMA LinkInit == ASSUME Ps2Init PROVE Link!LinkInit
<1>1. Taken
  BY DEF Ps2Init, Taken
<1>2. (r19.release /\ pc \notin {"ldx", "out"}) \in BOOLEAN
  OBVIOUS
<1> QED BY <1>1, <1>2 DEF Ps2Init, Link!LinkInit

LEMMA LinkStep ==
  ASSUME Ps2Inv, [Ps2Next]_ps2Vars
  PROVE  [Link!LinkNext]_(Link!linkVars)
<1> DEFINE on == IF Taken THEN NoKey ELSE code
           rel == r19.release /\ pc \notin {"ldx", "out"}
<1> USE DEF keyboardVars, computerVars, frameVars, outputVars
<1>0. /\ code \in Codes /\ nbit \in 0..11 /\ r19 \in [release : BOOLEAN, extended : BOOLEAN]
      /\ NoKey \notin Codes
  BY Ps2Assumption DEF Ps2Inv, Ps2TypeOK
<1>1. SUFFICES \/ UNCHANGED <<on, matrix, rel>>
               \/ \E c \in Codes : Link!Send(c)
               \/ Link!TakePrefix
               \/ Link!TakeKey
  BY DEF Link!LinkNext, Link!linkVars
<1>2. CASE SendCode
  <2>1. /\ Taken /\ ~Taken' /\ code' \in Codes
        /\ matrix' = matrix /\ pc' = pc /\ r19' = r19
    BY <1>2 DEF SendCode, Waiting, Taken
  <2>2. Link!Send(code')
    BY <2>1 DEF Link!Send
  <2> QED BY <2>1, <2>2
<1>3. CASE ClockLow \/ ClockHigh \/ SelectRow \/ Rowchange \/ ShiftBit \/ WaitHigh \/ UNCHANGED ps2Vars
  <2>1. code' = code /\ matrix' = matrix /\ r19' = r19
    BY <1>3 DEF ClockLow, ClockHigh, SelectRow, Rowchange, ShiftBit, WaitHigh, Waiting, ps2Vars
  <2>2. rel' = rel
    BY <1>3 DEF ClockLow, ClockHigh, SelectRow, Rowchange, ShiftBit, WaitHigh, Waiting, ps2Vars
  <2>3. Taken' = Taken
    <3>1. CASE ClockLow
      BY <1>0, <3>1 DEF ClockLow, Waiting, Taken
    <3>2. CASE ClockHigh
      BY <3>2 DEF ClockHigh, Waiting, Taken
    <3>3. CASE SelectRow \/ Rowchange \/ UNCHANGED ps2Vars
      BY <3>3 DEF SelectRow, Rowchange, ps2Vars, Taken
    <3>4. CASE ShiftBit
      BY <3>4 DEF ShiftBit, Taken
    <3>5. CASE WaitHigh
      <4>1. pc = "high" /\ clock' = clock /\ nbit' = nbit
        BY <3>5 DEF WaitHigh
      <4>2. pc' = "byte" \/ (pc' = "read" /\ nbit # 11)
        BY <3>5 DEF WaitHigh, Ps2Inv, InFrame
      <4> QED BY <4>1, <4>2 DEF Taken
    <3> QED BY <1>3, <3>1, <3>2, <3>3, <3>4, <3>5
  <2> QED BY <2>1, <2>2, <2>3
<1>4. ASSUME pc = "byte"
      PROVE  nbit = 11 /\ clock = 1 /\ r16 = code /\ ~Taken /\ on = code
  BY <1>4 DEF Ps2Inv, InFrame, Taken
<1>5. CASE Prefix
  <2>1. /\ pc = "byte" /\ pc' = "read" /\ UNCHANGED <<nbit, clock, code, matrix>>
        /\ r16 \in {Release, Extended}
    BY <1>5 DEF Prefix, MainLoop
  <2>2. r19'.release = (r19.release \/ r16 = Release)
    BY <1>0, <1>5, Ps2Assumption DEF Prefix
  <2>3. Taken'
    BY <1>4, <2>1 DEF Taken
  <2>4. rel' = (rel \/ on = Release) /\ on \in {Release, Extended} /\ on' = NoKey
    BY <1>4, <2>1, <2>2, <2>3
  <2> QED BY <2>1, <2>4 DEF Link!TakePrefix
<1>6. CASE IgnoreKey
  <2>1. /\ pc = "byte" /\ pc' = "read" /\ UNCHANGED <<nbit, clock, code, matrix>>
        /\ r16 \notin {Release, Extended} /\ ~r19'.release /\ Key = NoKey
    BY <1>6 DEF IgnoreKey, IsKey, MainLoop, NoStatus
  <2>2. Taken'
    BY <1>4, <2>1 DEF Taken
  <2>3. on \in Codes \ {Release, Extended} /\ scantable[on] = NoKey /\ on' = NoKey /\ rel' = FALSE
    BY <1>0, <1>4, <2>1, <2>2 DEF Key
  <2> QED BY <2>1, <2>3 DEF Link!TakeKey
<1>7. CASE UpdateKey
  <2>1. /\ pc = "byte" /\ pc' = "ldx" /\ UNCHANGED <<nbit, clock, code, r19>>
        /\ r16 \notin {Release, Extended} /\ Key # NoKey
    BY <1>7 DEF UpdateKey, IsKey
  <2>2. Taken'
    BY <1>4, <2>1 DEF Taken
  <2>3. /\ on \in Codes \ {Release, Extended} /\ scantable[on] = Key /\ on' = NoKey
        /\ rel' = FALSE /\ rel = r19.release
    BY <1>0, <1>4, <2>1, <2>2 DEF Key
  <2>4. matrix' = [matrix EXCEPT ![Key.row] =
                     IF ~rel THEN @ \cup {Key.col} ELSE @ \ {Key.col}]
    BY <1>7, <2>3 DEF UpdateKey
  <2> QED BY <2>1, <2>3, <2>4 DEF Link!TakeKey, Link!With
<1>8. CASE LoadColumns
  <2>1. /\ pc = "ldx" /\ pc' = "out" /\ UNCHANGED <<nbit, clock, code, r19, matrix>>
    BY <1>8 DEF LoadColumns
  <2> QED BY <2>1 DEF Taken
<1>9. CASE OutColumns
  <2>1. /\ pc = "out" /\ pc' = "read" /\ UNCHANGED <<nbit, clock, code, matrix>>
        /\ ~r19'.release
    BY <1>9 DEF OutColumns, MainLoop, NoStatus
  <2>2. nbit = 11 /\ clock = 1
    BY <2>1 DEF Ps2Inv, InFrame
  <2> QED BY <2>1, <2>2 DEF Taken
<1> QED
  BY <1>2, <1>3, <1>5, <1>6, <1>7, <1>8, <1>9 DEF Ps2Next, Controller

(* Every code the keyboard sends is taken once and as it was sent, and a   *)
(* release releases the key its code names: read_loop to main_loop is what *)
(* Ps2Link says it is.                                                     *)
THEOREM Ps2Implements == Ps2Spec => ImplementsLink
BY LinkInit, LinkStep, Ps2Always, PTL DEF Ps2Spec, ImplementsLink, Link!LinkSpec
=============================================================================
