------------------------------ MODULE Console -------------------------------
(***************************************************************************)
(* What the ROM's screen routines promise a program: lines of characters,  *)
(* and a cursor, which may stand on the line below the last until the next *)
(* character makes the lines scroll.  A character is its code; a blank is  *)
(* the space.  The abstract specification module Screen implements.        *)
(***************************************************************************)
EXTENDS Integers, Sequences

CONSTANTS
    Rows, Columns,
    Texts, Numbers,   \* what is shown
    Chars,            \* characters shown alone
    Marks             \* places where the program draws by itself

VARIABLES
    lines,    \* the characters that are not blank, by line and column
    row,      \* the cursor's line, Rows below the last
    column,
    pending   \* characters still to be shown

consoleVars == <<lines, row, column, pending>>

Blank == 32
Places == (0..(Rows - 1)) \X (0..(Columns - 1))

(* The text with a character at p, and the text n lines higher.            *)
With(txt, p, char) ==
    IF char = Blank THEN [q \in DOMAIN txt \ {p} |-> txt[q]]
    ELSE [q \in DOMAIN txt \cup {p} |-> IF q = p THEN char ELSE txt[q]]

Raised(n) ==
    LET before == lines
        stays == {p \in DOMAIN before : p[1] >= n} IN
    [q \in {<<p[1] - n, p[2]>> : p \in stays} |-> before[<<q[1] + n, q[2]>>]]

(* The lines a cursor on line r has to be raised to be on the screen.      *)
Excess(r) == IF r < Rows THEN 0 ELSE r - Rows + 1

Put(char) ==
    LET n == Excess(row)  r == row - n IN
    /\ lines' = With(Raised(n), <<r, column>>, char)
    /\ row' = IF column + 1 = Columns THEN r + 1 ELSE r
    /\ column' = (column + 1) % Columns

NewLine ==
    LET n == Excess(row + 1) IN
    /\ lines' = Raised(n) /\ row' = row + 1 - n /\ column' = 0
    /\ UNCHANGED pending

(* A cursor raised off the screen goes home.                               *)
ScrollUp(n) ==
    /\ lines' = Raised(n)
    /\ row' = IF n <= row THEN row - n ELSE 0
    /\ column' = IF n <= row THEN column ELSE 0
    /\ UNCHANGED pending

Clear ==
    /\ lines' = [p \in {} |-> Blank]
    /\ UNCHANGED <<row, column, pending>>

Place == row' \in 0..(Rows - 1) /\ UNCHANGED <<lines, pending>>

Return == column' = 0 /\ UNCHANGED <<lines, row, pending>>

(* Anything but a character.                                               *)
Draw(r, c) ==
    /\ \E dots \in {256, 257} : lines' = With(lines, <<r, c>>, dots)
    /\ UNCHANGED <<row, column, pending>>

Say(text) == pending' = text /\ UNCHANGED <<lines, row, column>>

ShowNext ==
    /\ pending # <<>>
    /\ Put(Head(pending)) /\ pending' = Tail(pending)

-----------------------------------------------------------------------------
(* Decimal numbers: no zero in front but that of zero itself.              *)
Digits(v) == {d \in 1..5 : d = 1 \/ v >= 10 ^ (d - 1)}
Length(v) == CHOOSE d \in Digits(v) : d + 1 \notin Digits(v)

Decimal(v) ==
    [k \in 1..Length(v) |-> 48 + ((v \div 10 ^ (Length(v) - k)) % 10)]

(* A number of 16 bits read as signed.                                     *)
SignedDecimal(v) ==
    IF v < 32768 THEN Decimal(v) ELSE <<45>> \o Decimal(65536 - v)

-----------------------------------------------------------------------------
Idle == pending = <<>>

ConsoleInit ==
    /\ row \in 0..Rows /\ column \in 0..(Columns - 1) /\ pending = <<>>
    /\ DOMAIN lines \subseteq Places

(* (A call that changes nothing is a stutter.)                             *)
ConsoleNext ==
    \/ ShowNext
    \/ /\ Idle /\ consoleVars' # consoleVars
       /\ \/ \E char \in Chars : Put(char) /\ UNCHANGED pending
          \/ NewLine \/ Clear
          \/ \E n \in 0..Rows : ScrollUp(n)
          \/ Place \/ Return
          \/ \E m \in Marks : Draw(m[1], m[2])
          \/ pending' \in Texts /\ Say(pending')
          \/ ~Idle' /\ \E v \in Numbers : Say(Decimal(v))

ConsoleSpec == ConsoleInit /\ [][ConsoleNext]_consoleVars
=============================================================================
