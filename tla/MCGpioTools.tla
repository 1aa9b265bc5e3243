---------------------------- MODULE MCGpioTools -----------------------------
(* Two address and two data lines; a cartridge of two pages, written with  *)
(* half of one at a time, and bytes of four bits.                          *)
EXTENDS GpioTools

MCReadJobs == {[start |-> 1, length |-> 3]}

MCImages == {[c \in Cells |-> IF c = {10} THEN {3} ELSE {2}]}

MCFile == <<5, 12, 3, 10, 6>>

\* The whole file and its end, its beginning, and a part of the cartridge.
MCCartJobs ==
    {[tool |-> "writecart", start |-> 1, length |-> 99, input |-> MCFile],
     [tool |-> "writecart", start |-> 2, length |-> 2, input |-> MCFile],
     [tool |-> "readcart", start |-> 1, length |-> 3, input |-> <<>>]}

MCCartImages == {[c \in 0..7 |-> (3 * c + 1) % 16]}
=============================================================================
