----------------------------- MODULE GpioTools ------------------------------
(***************************************************************************)
(* The Raspberry Pi with one of its two programmers: the memory's or the   *)
(* cartridge's.  The first program finds the pins in any of a few states;  *)
(* a program may be killed between any two stores, and another of the same *)
(* programmer started on what it left.                                     *)
(***************************************************************************)
EXTENDS MemTools, CartTools

toolsVars == <<gpioVars, memVars, cartVars>>

(* The variables of the programmer that is not there.                      *)
NoMemory ==
    /\ store = <<>> /\ job = <<>> /\ address = 0 /\ expect = <<>>
    /\ wanted = <<>> /\ writing = {} /\ torn = {} /\ calls = 0 /\ runs = 0

NoCartridge ==
    /\ present = FALSE /\ rom = <<>> /\ page = <<>> /\ busy = FALSE
    /\ mode = "idle" /\ bits = 0 /\ shift = 0 /\ ptr = 0 /\ pull = FALSE
    /\ cjob = <<>> /\ pos = 0 /\ len = 0 /\ used = 0 /\ n = 0 /\ i = 0
    /\ printed = <<>> /\ old = <<>> /\ safe = 0 /\ late = {} /\ more = 0

Init == (MemInit /\ NoCartridge) \/ (CartInit /\ NoMemory)

Next == \/ MemNext /\ UNCHANGED cartVars
        \/ CartNext /\ UNCHANGED memVars

Spec == Init /\ [][Next]_toolsVars
=============================================================================
