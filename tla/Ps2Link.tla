------------------------------ MODULE Ps2Link ------------------------------
(***************************************************************************)
(* What the PS/2 keyboard controller promises: every code the keyboard     *)
(* sends is taken once, in order, and does to the matrix of keys what it   *)
(* says.  Ps2Kbd implements it.                                            *)
(***************************************************************************)
CONSTANTS
    Codes,       \* the bytes a keyboard sends
    Release,     \* the prefix of a release, 0xf0
    Extended,    \* the prefix of an extended code, 0xe0
    scantable,   \* the key of each code: its row and column, or NoKey
    NoKey,
    Rows

VARIABLES
    link,        \* the code sent and not yet taken, or NoKey
    matrix,      \* the columns that are down in each row
    releasing    \* the prefix of a release has been taken

linkVars == <<link, matrix, releasing>>

With(key, down) ==
    [matrix EXCEPT ![key.row] = IF down THEN @ \cup {key.col} ELSE @ \ {key.col}]

Send(c) == link = NoKey /\ link' = c /\ UNCHANGED <<matrix, releasing>>

TakePrefix ==
    /\ link \in {Release, Extended}
    /\ releasing' = (releasing \/ link = Release)
    /\ link' = NoKey
    /\ UNCHANGED matrix

TakeKey ==
    /\ link \in Codes \ {Release, Extended}
    /\ matrix' = IF scantable[link] = NoKey THEN matrix
                 ELSE With(scantable[link], ~releasing)
    /\ releasing' = FALSE
    /\ link' = NoKey

(* Nothing sets the status bits at first.                                  *)
LinkInit ==
    /\ link = NoKey
    /\ matrix = [r \in Rows |-> {}]
    /\ releasing \in BOOLEAN

LinkNext == (\E c \in Codes : Send(c)) \/ TakePrefix \/ TakeKey

LinkSpec == LinkInit /\ [][LinkNext]_linkVars
=============================================================================
