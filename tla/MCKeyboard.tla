----------------------------- MODULE MCKeyboard -----------------------------
(* Two rows of two keys: shift shares its row with a letter.               *)
EXTENDS Keyboard

CONSTANTS h1, h2, h3, h4, h5

MCShift == <<0, 1>>
MCBlank == {MCShift}
MCQuit == <<1, 0>>
\* h3 and h4 are on one position, as the two return keys; h5 is unmapped.
MCKeymap ==
    [h \in HostKeys |-> CASE h = h1 -> <<0, 1>> [] h = h2 -> <<1, 0>>
                          [] h \in {h3, h4} -> <<0, 0>> [] OTHER -> None]
=============================================================================
