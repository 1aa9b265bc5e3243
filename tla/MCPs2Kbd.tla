------------------------------ MODULE MCPs2Kbd ------------------------------
(* Four codes of the controller's table.                                   *)
EXTENDS Ps2Kbd

\* $1c is the a key, $12 the shift; nothing has the code $0f.
MCCodes == {28, 18, 15, Release, Extended}
MCScantable ==
    [c \in MCCodes |-> CASE c = 28 -> [row |-> 2, col |-> 1]
                         [] c = 18 -> [row |-> 2, col |-> 7]
                         [] OTHER -> NoKey]
=============================================================================
