------------------------------- MODULE Ps2Kbd -------------------------------
(***************************************************************************)
(* The PS/2 keyboard controller (keyboard/ps2kbd-m328.s): a main loop that *)
(* collects the keyboard's frames bit by bit and keeps the matrix of keys, *)
(* and an interrupt that shows the computer the row it selects.            *)
(*                                                                         *)
(* The two share the column outputs PORTD, r25, the address X and the      *)
(* matrix.  A step of the main loop is what it does up to its next access  *)
(* to one of these; the interrupt, which nothing interrupts, is one step.  *)
(* The keyboard is slow (30 us, over 200 cycles, between two changes of    *)
(* its clock): it moves the clock only when the loop waits for it.         *)
(*                                                                         *)
(* A key that is down is a 0 bit.  Columns are the sets of their 0 bits.   *)
(***************************************************************************)
EXTENDS Integers

CONSTANTS
    Codes, Release, Extended, scantable, NoKey, Rows,   \* as in Ps2Link
    Garbage   \* columns that may be found at an address never set

Cols == 0..7
Byte == 0..255
Keys == [row : Rows, col : Cols]

ASSUME Ps2Assumption ==
    /\ Codes \subseteq Byte /\ Release \in Codes /\ Extended \in Codes
    /\ Release # Extended
    /\ NoKey \notin Byte /\ NoKey \notin Keys /\ NoKey \notin Rows
    /\ scantable \in [Codes -> Keys \cup {NoKey}]
    /\ Garbage \subseteq SUBSET Cols /\ Garbage # {}

VARIABLES
    code, nbit, clock, datum,   \* the keyboard: last code, bits sent, its lines
    row, ldkbrow,               \* the computer: row selected, interrupt pending
    pc,                         \* read, high, byte, ldx, out
    r16, r17, carry,            \* the frame: data bits, the two after them
    r19,                        \* status bits
    r25, X, PORTD,
    matrix                      \* $0200..$03ff

keyboardVars == <<code, nbit, clock, datum>>
computerVars == <<row, ldkbrow>>
frameVars == <<r16, r17, carry>>
outputVars == <<r25, X, PORTD>>
ps2Vars == <<keyboardVars, computerVars, pc, frameVars, r19, outputVars, matrix>>

Ps2TypeOK ==
    /\ code \in Codes /\ nbit \in 0..11 /\ clock \in 0..1 /\ datum \in 0..1
    /\ row \in Rows /\ ldkbrow \in BOOLEAN
    /\ pc \in {"read", "high", "byte", "ldx", "out"}
    /\ r16 \in Byte /\ r17 \in 0..3 /\ carry \in 0..1
    /\ r19 \in [release : BOOLEAN, extended : BOOLEAN]
    /\ r25 \in SUBSET Cols /\ X \in Rows \cup {NoKey} /\ PORTD \in SUBSET Cols
    /\ matrix \in [Rows -> SUBSET Cols]

(* Ten ones: the start bit, a 0, comes out after eleven shifts.            *)
(* A mutant: one of them is missing.                                       *)
Ones_Nine == [r16 |-> 255, r17 |-> 1]
Ones == [r16 |-> 255, r17 |-> 3]

(* __start, up to main_loop.  It sets neither r19 nor X.                   *)
Ps2Init ==
    /\ code \in Codes /\ nbit = 11 /\ clock = 1 /\ datum = 1
    /\ row \in Rows /\ ldkbrow = FALSE
    /\ pc = "read"
    /\ r16 = Ones.r16 /\ r17 = Ones.r17 /\ carry = 0
    /\ r19 \in [release : BOOLEAN, extended : BOOLEAN]
    /\ r25 \in Garbage /\ X = NoKey /\ PORTD = {}
    /\ matrix = [r \in Rows |-> {}]

-----------------------------------------------------------------------------
(* The keyboard.  A frame is a start bit, eight data bits, lowest first, a *)
(* parity bit nobody looks at, and a stop bit.                             *)
Weight == <<1, 2, 4, 8, 16, 32, 64, 128>>

FrameBit(c, i) ==
    CASE i = 1 -> {0}
      [] i \in 2..9 -> {(c \div Weight[i - 1]) % 2}
      [] i = 10 -> {0, 1}
      [] i = 11 -> {1}

Waiting(label) == pc = label /\ UNCHANGED <<computerVars, pc, frameVars, r19, outputVars, matrix>>

SendCode ==
    /\ Waiting("read")
    /\ nbit = 11 /\ clock = 1
    /\ code' \in Codes
    /\ nbit' = 0
    /\ UNCHANGED <<clock, datum>>

ClockLow ==
    /\ Waiting("read")
    /\ nbit < 11 /\ clock = 1
    /\ clock' = 0
    /\ nbit' = nbit + 1
    /\ datum' \in FrameBit(code, nbit + 1)
    /\ UNCHANGED code

ClockHigh ==
    /\ Waiting("high")
    /\ clock = 0
    /\ clock' = 1
    /\ UNCHANGED <<code, nbit, datum>>

(* The computer stores a row number.                                       *)
SelectRow ==
    /\ row' \in Rows
    /\ ldkbrow' = TRUE
    /\ UNCHANGED <<keyboardVars, pc, frameVars, r19, outputVars, matrix>>

-----------------------------------------------------------------------------
(* rowchange.  It leaves the row's columns in r25 as well as in PORTD.     *)
(* A mutant: it restores r25.                                              *)
Rowchange_SavesR25 ==
    /\ ldkbrow
    /\ ldkbrow' = FALSE
    /\ X' = row
    /\ PORTD' = matrix[row]
    /\ UNCHANGED <<r25, keyboardVars, row, pc, frameVars, r19, matrix>>
Rowchange ==
    /\ ldkbrow
    /\ ldkbrow' = FALSE
    /\ X' = row
    /\ r25' = matrix[row]
    /\ PORTD' = matrix[row]
    /\ UNCHANGED <<keyboardVars, row, pc, frameVars, r19, matrix>>

-----------------------------------------------------------------------------
(* read_loop: the clock is low, a bit is shifted in; PORTD shows r16.      *)
ZeroBits(b) == {i \in Cols : (b \div Weight[i + 1]) % 2 = 0}

(* A mutant: lsr is missing.                                               *)
Shift17_Stays == r17 + 2 * datum
Shift17 == (r17 \div 2) + 2 * datum

ShiftBit ==
    /\ pc = "read"
    /\ clock = 0
    /\ carry' = r16 % 2
    /\ r16' = (r16 \div 2) + 128 * (r17 % 2)
    /\ r17' = Shift17
    /\ PORTD' = ZeroBits(r16')
    /\ pc' = "high"
    /\ UNCHANGED <<keyboardVars, computerVars, r19, r25, X, matrix>>

(* A mutant: the jump back is past the in, r18 stays what it was.          *)
WaitHigh_Stale == pc = "high" /\ clock = 1 /\ UNCHANGED ps2Vars
WaitHigh ==
    /\ pc = "high"
    /\ clock = 1
    /\ pc' = IF carry = 1 THEN "read" ELSE "byte"
    /\ UNCHANGED <<keyboardVars, computerVars, frameVars, r19, outputVars, matrix>>

MainLoop ==
    /\ pc' = "read"
    /\ r16' = Ones.r16
    /\ r17' = Ones.r17
    /\ UNCHANGED carry

Prefix ==
    /\ pc = "byte"
    /\ \/ r16 = Release /\ r19' = [r19 EXCEPT !.release = TRUE]
       \/ r16 = Extended /\ r19' = [r19 EXCEPT !.extended = TRUE]
    /\ MainLoop
    /\ UNCHANGED <<keyboardVars, computerVars, outputVars, matrix>>

Key == IF r16 \in Codes THEN scantable[r16] ELSE NoKey
IsKey == pc = "byte" /\ r16 \notin {Release, Extended}
NoStatus == [release |-> FALSE, extended |-> FALSE]

(* ignore_key.                                                             *)
(* A mutant: the status bits stay.                                         *)
IgnoreKey_Keep ==
    /\ IsKey /\ Key = NoKey
    /\ MainLoop
    /\ UNCHANGED <<r19, keyboardVars, computerVars, outputVars, matrix>>
IgnoreKey ==
    /\ IsKey /\ Key = NoKey
    /\ r19' = NoStatus
    /\ MainLoop
    /\ UNCHANGED <<keyboardVars, computerVars, outputVars, matrix>>

UpdateKey ==
    /\ IsKey /\ Key # NoKey
    /\ matrix' = [matrix EXCEPT ![Key.row] =
                    IF r19.release THEN @ \ {Key.col} ELSE @ \cup {Key.col}]
    /\ pc' = "ldx"
    /\ UNCHANGED <<keyboardVars, computerVars, frameVars, r19, outputVars>>

(* ld r25, X and out PORTD, r25: the interrupt may come between them.      *)
LoadColumns ==
    /\ pc = "ldx"
    /\ r25' \in IF X = NoKey THEN Garbage ELSE {matrix[X]}
    /\ pc' = "out"
    /\ UNCHANGED <<keyboardVars, computerVars, frameVars, r19, X, PORTD, matrix>>

OutColumns ==
    /\ pc = "out"
    /\ PORTD' = r25
    /\ r19' = NoStatus
    /\ MainLoop
    /\ UNCHANGED <<keyboardVars, computerVars, r25, X, matrix>>

Controller ==
    ShiftBit \/ WaitHigh \/ Prefix \/ IgnoreKey \/ UpdateKey \/ LoadColumns \/ OutColumns

Ps2Next ==
    \/ SendCode \/ ClockLow \/ ClockHigh
    \/ SelectRow \/ Rowchange
    \/ Controller

(* A frame once begun is clocked to its end, and the controller runs.      *)
Ps2Spec ==
    /\ Ps2Init /\ [][Ps2Next]_ps2Vars
    /\ WF_ps2Vars(ClockLow \/ ClockHigh) /\ WF_ps2Vars(Controller)

-----------------------------------------------------------------------------
(* A code has been taken once the matrix shows it, or the loop waits for   *)
(* the next frame.                                                         *)
Taken == nbit = 11 /\ (pc \in {"ldx", "out"} \/ (pc = "read" /\ clock = 1))

Link == INSTANCE Ps2Link WITH
    link <- IF Taken THEN NoKey ELSE code,
    releasing <- r19.release /\ pc \notin {"ldx", "out"}

(* Frames stay in step with the keyboard: each code is taken once, as it   *)
(* was sent, and a release releases what a press pressed, also around      *)
(* codes that have no key.                                                 *)
ImplementsLink == Link!LinkSpec

(* When a key has changed, the row the computer looks at shows it,         *)
(* whatever row it selects while the controller is at it.                  *)
KeyShown ==
    [][ (OutColumns /\ ~ldkbrow /\ X # NoKey) => PORTD' = matrix[row] ]_ps2Vars

(* Every code is taken in the end, however often the row changes.          *)
CodesTaken == nbit = 0 ~> Taken

(* Between two frames the outputs show the row the computer has selected:  *)
(* the state kept in RAM is what it reads (comments at 13-20 and 225-228). *)
ColumnsShown ==
    (pc = "read" /\ nbit = 11 /\ clock = 1 /\ ~ldkbrow /\ X # NoKey)
        => PORTD = matrix[row]
=============================================================================
