----------------------------- MODULE FlashChip ------------------------------
(***************************************************************************)
(* The flash memory that tools/memory/writerom.c programs, as the program  *)
(* uses it: a write cycle is a step of a command (a JEDEC sequence of      *)
(* unlock cycles), programming a byte only clears bits, erasing a sector   *)
(* sets all of its bits.  The chip may fail to clear or to set some.       *)
(*                                                                         *)
(* A byte is the set of its 1 bits.                                        *)
(***************************************************************************)
EXTENDS Integers

CONSTANTS
    Size, SectorSize,       \* 128K and 4K
    Bits,                   \* eight
    Unlock1, Unlock2,       \* the addresses $5555 and $2aaa
    Key1, Key2,             \* $aa and $55
    Program, Erase, Sector  \* $a0, $80 and $30

Addr == 0..(Size - 1)
Byte == SUBSET Bits

ASSUME ChipAssumption ==
    /\ SectorSize \in Nat \ {0} /\ Size \in Nat \ {0} /\ Size % SectorSize = 0
    /\ Unlock1 \in Addr /\ Unlock2 \in Addr
    /\ {Key1, Key2, Program, Erase, Sector} \subseteq Byte
    /\ Program # Erase

VARIABLES
    chip,   \* its contents
    cmd     \* the cycles of a command it has seen

Commands == {"read", "key1", "key2", "program", "erase", "erase1", "erase2"}

ChipTypeOK == chip \in [Addr -> Byte] /\ cmd \in Commands

SectorOf(a) == {b \in Addr : b - (b % SectorSize) = a - (a % SectorSize)}

(* The command after a write cycle; one that does not fit gives it up.     *)
NextCmd(a, v) ==
    CASE cmd = "read" /\ a = Unlock1 /\ v = Key1 -> "key1"
      [] cmd = "key1" /\ a = Unlock2 /\ v = Key2 -> "key2"
      [] cmd = "key2" /\ a = Unlock1 /\ v = Program -> "program"
      [] cmd = "key2" /\ a = Unlock1 /\ v = Erase -> "erase"
      [] cmd = "erase" /\ a = Unlock1 /\ v = Key1 -> "erase1"
      [] cmd = "erase1" /\ a = Unlock2 /\ v = Key2 -> "erase2"
      [] OTHER -> "read"

Programs == cmd = "program"
Erases(v) == cmd = "erase2" /\ v = Sector

(* What the cycle is to do to the contents, and what a bad chip makes of   *)
(* it: bits that should change and do not.                                 *)
Intended(a, v) ==
    IF Programs THEN [chip EXCEPT ![a] = @ \cap v]
    ELSE [b \in Addr |-> IF Erases(v) /\ b \in SectorOf(a) THEN Bits ELSE chip[b]]

Outcomes(a, v) ==
    IF Programs
    THEN {[chip EXCEPT ![a] = kept \cup (@ \cap v)] : kept \in SUBSET chip[a]}
    ELSE {[b \in Addr |-> IF b \in erased THEN Bits ELSE chip[b]] :
            erased \in IF Erases(v) THEN SUBSET SectorOf(a) ELSE {{}}}

WriteCycle(a, v) ==
    /\ cmd' = NextCmd(a, v)
    /\ chip' \in Outcomes(a, v)
=============================================================================
