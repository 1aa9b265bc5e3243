-------------------------------- MODULE Gpio --------------------------------
(***************************************************************************)
(* The Raspberry Pi's pins as the programmers use them (tools/gpio.c): a   *)
(* function select per pin (GFSEL), output latches that one store sets     *)
(* (GPSET) or clears (GPCLR) for any set of pins, and the levels (GPLEV).  *)
(*                                                                         *)
(* A routine of a tool is the sequence of what it does to the pins; each   *)
(* element is one store or one look at the levels, and one step, so a      *)
(* program may be killed between any two.  The sleeps between them give    *)
(* the device the time to react, which it does within the step.            *)
(***************************************************************************)
EXTENDS Integers, Sequences

VARIABLES
    functions,  \* GFSEL: each pin's function
    latch,      \* the pins whose output latch is high
    saved,      \* saved_functions of main
    todo,       \* what the routines called have still to do
    got,        \* the samples taken: of each, the pins that were high
    tool,       \* the program running
    pc          \* where its main is, todo having been done

gpioVars == <<functions, latch, saved, todo, got, tool, pc>>

GpioPins == 0..27
FuncInput == 0
FuncOutput == 1

(* An undriven pin follows the chip's default pull.                        *)
PulledUp == 0..8

Drives(p) == functions[p] = FuncOutput
Driven(p) == IF Drives(p) THEN p \in latch ELSE p \in PulledUp

-----------------------------------------------------------------------------
Function(pins, f) == [do |-> "function", pins |-> pins, to |-> f]
High(pins) == [do |-> "high", pins |-> pins]
Low(pins) == [do |-> "low", pins |-> pins]
Sample(pins) == [do |-> "sample", pins |-> pins]
Restore(pins) == [do |-> "restore", pins |-> pins]

Value(pin, v) == IF v = 0 THEN Low({pin}) ELSE High({pin})

(* A copy of GFSEL goes back in three stores, of ten pins each.            *)
Register(r) == {p \in GpioPins : p \div 10 = r - 1}
CopyFunctions(pins, f) == [r \in 1..3 |-> Function(pins \cap Register(r), f)]
CopySaved == [r \in 1..3 |-> Restore(Register(r))]

(* One store.                                                              *)
Set(op) ==
    /\ functions' = [p \in GpioPins |->
                        IF p \notin op.pins THEN functions[p]
                        ELSE CASE op.do = "function" -> op.to
                               [] op.do = "restore" -> saved[p]
                               [] OTHER -> functions[p]]
    /\ latch' = CASE op.do = "high" -> latch \cup op.pins
                  [] op.do = "low" -> latch \ op.pins
                  [] OTHER -> latch

(* The next store, or a sample of the pins that are high.                  *)
Do(high) ==
    /\ todo # <<>>
    /\ todo' = Tail(todo)
    /\ Set(Head(todo))
    /\ got' = IF Head(todo).do = "sample"
              THEN Append(got, high \cap Head(todo).pins) ELSE got
    /\ UNCHANGED <<saved, tool, pc>>

(* main, between two routines.                                             *)
Main(from, to, ops) ==
    /\ todo = <<>> /\ pc = from
    /\ pc' = to /\ todo' = ops
    /\ UNCHANGED <<functions, latch, saved, tool>>

(* A program starts on the pins as it finds them, or dies and leaves them. *)
Begins(t) ==
    /\ pc \in {"done", "killed"}
    /\ pc' = "start" /\ tool' = t /\ todo' = <<>> /\ got' = <<>>
    /\ saved' = functions
    /\ UNCHANGED <<functions, latch>>

Kill ==
    /\ pc \notin {"done", "killed"}
    /\ pc' = "killed" /\ todo' = <<>>
    /\ UNCHANGED <<functions, latch, saved, got, tool>>

(* gpios_low leaves every pin driven low.                                  *)
LeftLow == functions = [p \in GpioPins |-> FuncOutput] /\ latch = {}

GpioInit(tools) ==
    /\ \/ functions = [p \in GpioPins |-> FuncInput] /\ latch \in {{}, GpioPins}
       \/ LeftLow
    /\ saved = functions
    /\ todo = <<>> /\ got = <<>> /\ tool \in tools /\ pc = "start"
=============================================================================
