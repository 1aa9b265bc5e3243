------------------------------- MODULE Screen -------------------------------
(***************************************************************************)
(* The ROM's screen routines and its conversion of numbers (rom/rom.s).    *)
(*                                                                         *)
(* Video memory, $2000..$3fff, is taken eight bytes at a time, the size of *)
(* a character: CURPOS and every address the routines compute are          *)
(* multiples of eight.  The first 1000 of these cells are on the screen.   *)
(* What a cell holds is the code of the character drawn there, or          *)
(* something that is no character; cells whose dots are off, which hold a  *)
(* space, are left out.                                                    *)
(***************************************************************************)
EXTENDS Integers, Sequences

CONSTANT Sessions   \* programs: the calls they may make, and how many

Columns == 40
Rows == 25
OnScreen == 0..999
Video == 0..1023
Space == 32
Junk == 256          \* what the memory check leaves
Mark == 257          \* what the boot writes by itself

VARIABLES
    screen,    \* cells: video memory; at: CURPOS, a cell's number
    text,      \* SHOWCTR characters from SHOWADDR on, still to be shown
    session,
    left,      \* calls left
    last       \* history: the call made last

screenVars == <<screen, text, session, left, last>>

-----------------------------------------------------------------------------
(* The routines, as functions of video memory and cursor.                  *)
Cls(s) == [s EXCEPT !.cells = [c \in DOMAIN @ \ OnScreen |-> @[c]]]

Drawn(cells, c, glyph) ==
    IF glyph = Space THEN [d \in DOMAIN cells \ {c} |-> cells[d]]
    ELSE [d \in DOMAIN cells \cup {c} |-> IF d = c THEN glyph ELSE cells[d]]

Setcur(s, line, column) == [s EXCEPT !.at = Columns * line + column]

(* Rounded down to a line, from the one below the last on up.              *)
Col0(s) == [s EXCEPT !.at = @ - (@ % Columns)]

(* scrollup copies whole pages of 32 cells until the page it copies from   *)
(* is the last of the screen, of which it copies the eight cells that are  *)
(* on the screen if it is at its start; it clears the rest, the eight last *)
(* cells of the screen always.                                             *)
LastPage == 31
Page(cell) == cell \div 32
(* A mutant: what the last page has of the screen is not copied.           *)
Copied_Pages(n) ==
    32 * (IF Page(Columns * n) < LastPage
          THEN LastPage - Page(Columns * n) ELSE 0)
Copied(n) ==
    LET pages == IF Page(Columns * n) < LastPage
                 THEN LastPage - Page(Columns * n) ELSE 0
        from == Columns * n + 32 * pages IN
    32 * pages + IF from = 32 * LastPage THEN 8 ELSE 0

Scrollup(s, n) ==
    LET Above(c) == c - Columns * n
        moved == {c \in DOMAIN s.cells :
                    Above(c) \in 0..(Copied(n) - 1) /\ Above(c) < 32 * LastPage}
        beyond == DOMAIN s.cells \ OnScreen IN
    [cells |-> [c \in {Above(d) : d \in moved} \cup beyond |->
                  s.cells[IF c \in beyond THEN c ELSE c + Columns * n]],
     at |-> IF s.at < Columns * n THEN 0 ELSE s.at - Columns * n]

(* adjcur scrolls by a line until the cursor is on the screen.             *)
Adjcur(s) ==
    LET Scrolled[k \in Nat] ==
            IF k = 0 THEN s ELSE Scrollup(Scrolled[k - 1], 1) IN
    Scrolled[IF s.at < 1000 THEN 0 ELSE (s.at - 1000) \div Columns + 1]

Showchr(s, char) ==
    LET on == Adjcur(s) IN
    [cells |-> Drawn(on.cells, on.at, char), at |-> on.at + 1]

Newline(s) ==
    LET start == Col0(s) IN Adjcur([start EXCEPT !.at = @ + Columns])

-----------------------------------------------------------------------------
(* putuint compares what is left of the number with 40000, 20000, 10000,   *)
(* 8000 and so on, each standing for a part of a digit, and writes a digit *)
(* after the last part of it if it or one before it is not zero.           *)
Parts == <<4, 2, 1, 8, 4, 2, 1, 8, 4, 2, 1, 8, 4, 2, 1>>
Units == <<10000, 10000, 10000, 1000, 1000, 1000, 1000,
           100, 100, 100, 100, 10, 10, 10, 10>>

(* What is left of the number, the digit so far, what is written.          *)
Written == [rest : Nat, digit : Nat, out : Seq(Nat)]

Compared[so \in Written, k \in 1..15] ==
    LET fits == so.rest >= Parts[k] * Units[k]
        digit == IF fits THEN so.digit + Parts[k] ELSE so.digit
        done == Parts[k] = 1 /\ digit # 0 IN
    [rest |-> IF fits THEN so.rest - Parts[k] * Units[k] ELSE so.rest,
     digit |-> IF done THEN 48 ELSE digit,
     out |-> IF done
             THEN Append(so.out, IF digit < 48 THEN digit + 48 ELSE digit)
             ELSE so.out]

Putuint(v) ==
    LET After[k \in 0..15] ==
            IF k = 0 THEN [rest |-> v, digit |-> 0, out |-> <<>>]
            ELSE Compared[After[k - 1], k] IN
    Append(After[15].out, 48 + After[15].rest)

Putint(v) == IF v < 32768 THEN Putuint(v)
             ELSE <<45>> \o Putuint(65536 - v)

-----------------------------------------------------------------------------
(* A program calls a routine.                                              *)
Calls(op) ==
    /\ text = <<>> /\ left > 0
    /\ \E c \in session.calls : c[1] = op /\ last' = c
    /\ left' = left - 1
    /\ UNCHANGED session

Draws(s) == screen' = s /\ UNCHANGED text

CallCls == Calls("cls") /\ Draws(Cls(screen))
CallClshome == Calls("clshome") /\ Draws(Setcur(Cls(screen), 0, 0))
CallSetcur == Calls("setcur") /\ Draws(Setcur(screen, last'[2], last'[3]))
CallCol0 == Calls("col0") /\ Draws(Col0(screen))
CallNewline == Calls("newline") /\ Draws(Newline(screen))
CallScrollup == Calls("scrollup") /\ Draws(Scrollup(screen, last'[2]))
CallShowchr == Calls("showchr") /\ Draws(Showchr(screen, last'[2]))
CallShowspc == Calls("showspc") /\ Draws(Showchr(screen, Space))

Shows(t) == text' = t /\ UNCHANGED screen

CallShow == Calls("show") /\ Shows(last'[2])
CallShowuint == Calls("showuint") /\ Shows(Putuint(last'[2]))

(* showint converts the number into the buffer and jumps behind the call   *)
(* of show.                                                                *)
CallShowint == Calls("showint") /\ Shows(<<>>)

(* One turn of show's loop.                                                *)
ShowNext ==
    /\ text # <<>>
    /\ screen' = Showchr(screen, Head(text)) /\ text' = Tail(text)
    /\ UNCHANGED <<session, left, last>>

ScreenCall ==
    \/ CallCls \/ CallClshome \/ CallSetcur \/ CallCol0 \/ CallNewline
    \/ CallScrollup \/ CallShowchr \/ CallShowspc
    \/ CallShow \/ CallShowuint \/ CallShowint

=============================================================================
