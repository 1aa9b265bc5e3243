------------------------------ MODULE MemTools ------------------------------
(***************************************************************************)
(* The pins of the memory programmer: tools/memory/writemem.c and          *)
(* readmem.c from start to end, and the routines of writerom.c, called in  *)
(* any order (module WriteRom has the order its main calls them in).       *)
(*                                                                         *)
(* The memory is external, as docs/design/rom-programmer.txt wires it: it  *)
(* takes what is on the data lines all the time that ce# and we# are both  *)
(* low, at whatever address is on the address lines by then, so a glitch   *)
(* on either writes; oe# also turns the '245 around.  A cell is named by   *)
(* the address pins that are high, a byte is the set of its high pins.     *)
(***************************************************************************)
EXTENDS Gpio

CONSTANTS
    AddressWidth, DataWidth,  \* 17 and 8
    LastWritten,              \* writemem's end_address, $1ff
    ReadJobs,                 \* readmem's arguments, [start, length]
    MaxCalls,                 \* bound: calls of writerom's routines
    MaxRuns,                  \* bound: programs after the first
    Images                    \* what the memory may hold at first

MemTool == {"writemem", "readmem", "writerom"}

ChipEnable == 0
WriteEnable == 1
OutputEnable == 27
DataPins == 2..(1 + DataWidth)
AddressPins == 10..(9 + AddressWidth)
Strobes == {ChipEnable, WriteEnable, OutputEnable}

Cells == SUBSET AddressPins
MemByte == SUBSET DataPins

(* A range that wraps in end_address is left to the user, as in WriteRom.  *)
ASSUME MemAssumption ==
    /\ AddressWidth \in 1..17 /\ DataWidth \in 1..8
    /\ LastWritten \in Nat /\ MaxCalls \in Nat /\ MaxRuns \in Nat
    /\ \A j \in ReadJobs : j.start \in Nat /\ j.length \in Nat \ {0}
    /\ Images \subseteq [Cells -> MemByte]

VARIABLES
    store,    \* the memory
    job,      \* readmem's arguments
    address,  \* of the next byte
    \* history
    expect,   \* the bytes each sample may be
    wanted,   \* what was last written to each cell
    writing,  \* the cell being written
    torn,     \* cells whose write was cut off
    \* bounds
    calls, runs

memVars ==
    <<store, job, address, expect, wanted, writing, torn, calls, runs>>

(* The pins of FirstPin on that stand for the ones of a number.            *)
PinsOf(n, pins, first) == {p \in pins : (n \div 2 ^ (p - first)) % 2 = 1}
Cell(a) == PinsOf(a, AddressPins, 10)
ByteOf(v) == PinsOf(v, DataPins, 2)

-----------------------------------------------------------------------------
(* The routines.                                                           *)
configure_data_pins_for_input == CopyFunctions(DataPins, FuncInput)
configure_data_pins_for_output == CopyFunctions(DataPins, FuncOutput)

(* A mutant: all the functions first, then the levels.                     *)
configure_pins_Late ==
    << Function({ChipEnable}, FuncOutput), Function({WriteEnable}, FuncOutput),
       Function({OutputEnable}, FuncOutput), High(Strobes) >>
    \o configure_data_pins_for_input \o CopyFunctions(AddressPins, FuncOutput)
configure_pins ==
    << Function({ChipEnable}, FuncOutput), High({ChipEnable}),
       Function({WriteEnable}, FuncOutput), High({WriteEnable}),
       Function({OutputEnable}, FuncOutput), High({OutputEnable}) >>
    \o configure_data_pins_for_input \o CopyFunctions(AddressPins, FuncOutput)

disable_chip == <<High(Strobes)>>

enable_chip == <<High({WriteEnable, OutputEnable}), Low({ChipEnable})>>

set_address(c) == <<Low(AddressPins \ c), High(c)>>

set_data(v) == <<Low(DataPins \ v), High(v)>>

(* A mutant: the levels are read before the address is set.                *)
read_byte_Early(c) ==
    configure_data_pins_for_input
    \o <<High({WriteEnable}), Low({ChipEnable, OutputEnable})>>
    \o <<Sample(DataPins)>> \o set_address(c)
read_byte(c) ==
    configure_data_pins_for_input
    \o <<High({WriteEnable}), Low({ChipEnable, OutputEnable})>>
    \o set_address(c) \o <<Sample(DataPins)>>

write_byte(c, v) ==
    <<High(Strobes)>> \o set_address(c)
    \o <<Low({ChipEnable}), Low({WriteEnable})>>
    \o configure_data_pins_for_output \o set_data(v)
    \o <<High({WriteEnable})>> \o configure_data_pins_for_input

(* A mutant: oe# stays as a read has left it.                              *)
write_byte_aux_Reading(c, v) ==
    <<High({ChipEnable, WriteEnable})>>
    \o set_address(c) \o configure_data_pins_for_output
    \o <<Low({ChipEnable}), Low({WriteEnable})>>
    \o configure_data_pins_for_output \o set_data(v)
    \o <<High({WriteEnable})>> \o configure_data_pins_for_input
(* writerom's, which drives the data lines before ce# falls.               *)
write_byte_aux(c, v) ==
    <<High(Strobes)>> \o set_address(c) \o configure_data_pins_for_output
    \o <<Low({ChipEnable}), Low({WriteEnable})>>
    \o configure_data_pins_for_output \o set_data(v)
    \o <<High({WriteEnable})>> \o configure_data_pins_for_input

-----------------------------------------------------------------------------
(* The memory and the '245.                                                *)
Takes == ~Driven(ChipEnable) /\ ~Driven(WriteEnable)
Gives == ~Driven(ChipEnable) /\ ~Driven(OutputEnable) /\ Driven(WriteEnable)
Selected == {p \in AddressPins : Driven(p)}

(* The bytes that may be on its data lines, from the Pi's side.            *)
OnLines == {v \in MemByte : \A p \in DataPins : Drives(p) => (p \in v <=> p \in latch)}

Reacts == IF Takes' THEN \E v \in OnLines' : store' = [store EXCEPT ![Selected'] = v]
                    ELSE UNCHANGED store

(* What a sample of the data pins may see.                                 *)
Seen == IF Gives THEN {store[Selected]} ELSE OnLines

Pin ==
    /\ tool \in MemTool
    /\ \E v \in Seen : Do(v)
    /\ Reacts
    /\ UNCHANGED <<job, address, expect, wanted, writing, torn, calls, runs>>

-----------------------------------------------------------------------------
(* main calls its routines; the one before has returned, and what it wrote *)
(* is written.                                                             *)
Call(from, to, ops, write) ==
    /\ tool \in MemTool /\ Main(from, to, ops)
    /\ torn' = torn \ writing /\ writing' = write
    /\ UNCHANGED <<store, job, got>>

Configure ==
    /\ Call("start", "enable", configure_pins, {})
    /\ address' = IF tool = "readmem" THEN job.start ELSE 0
    /\ UNCHANGED <<expect, calls, runs, wanted>>

First == [writemem |-> "write", readmem |-> "read", writerom |-> "calls"]

Enable ==
    /\ Call("enable", First[tool], enable_chip, {})
    /\ UNCHANGED <<address, expect, calls, runs, wanted>>

Write(from, to, ops, c, v) ==
    /\ Call(from, to, ops, {c})
    /\ wanted' = [wanted EXCEPT ![c] = v]
    /\ UNCHANGED <<expect, runs>>

Read(from, c) ==
    /\ Call(from, from, read_byte(c), {})
    /\ expect' = Append(expect, IF c \in torn \ writing THEN MemByte ELSE {wanted[c]})
    /\ UNCHANGED <<runs, wanted>>

WriteNext ==
    /\ address <= LastWritten
    /\ Write("write", "write", write_byte(Cell(address), ByteOf(address)),
             Cell(address), ByteOf(address))
    /\ address' = address + 1 /\ UNCHANGED calls

Written ==
    /\ address > LastWritten
    /\ Call("write", "read", <<>>, {})
    /\ address' = 0 /\ UNCHANGED <<expect, calls, runs, wanted>>

EndAddress ==
    IF tool = "readmem" THEN job.start + job.length - 1 ELSE LastWritten

ReadNext ==
    /\ address <= EndAddress
    /\ Read("read", Cell(address))
    /\ address' = address + 1 /\ UNCHANGED calls

(* writerom: any of its calls.                                             *)
SomeCall ==
    /\ calls > 0 /\ calls' = calls - 1 /\ UNCHANGED address
    /\ \E c \in Cells :
         \/ Read("calls", c)
         \/ \E v \in MemByte : Write("calls", "calls", write_byte_aux(c, v), c, v)

Finish ==
    /\ \/ pc = "read" /\ address > EndAddress
       \/ pc = "calls"
    /\ Call(pc, "exit", disable_chip \o CopySaved, {})
    /\ UNCHANGED <<address, expect, calls, runs, wanted>>

Exit ==
    /\ Call("exit", "done", <<>>, {})
    /\ UNCHANGED <<address, expect, calls, runs, wanted>>

-----------------------------------------------------------------------------
Killed ==
    /\ tool \in MemTool /\ Kill
    /\ torn' = torn \cup writing /\ writing' = {}
    /\ UNCHANGED <<store, job, address, expect, calls, runs, wanted>>

Again ==
    /\ tool \in MemTool /\ runs > 0 /\ runs' = runs - 1
    /\ \E t \in MemTool : Begins(t)
    /\ job' \in (IF tool' = "readmem" THEN ReadJobs ELSE {job})
    /\ expect' = <<>>
    /\ UNCHANGED <<store, address, calls, writing, wanted, torn>>

MemNext ==
    \/ Pin \/ Configure \/ Enable \/ WriteNext \/ Written \/ ReadNext \/ SomeCall
    \/ Finish \/ Exit \/ Killed \/ Again

(* A memory put where the strobes are low already is written at once.      *)
MemInit ==
    /\ GpioInit(MemTool)
    /\ wanted \in Images /\ store = wanted
    /\ torn = (IF Takes THEN {Selected} ELSE {}) /\ writing = {}
    /\ job \in ReadJobs /\ address = 0 /\ expect = <<>>
    /\ calls = MaxCalls /\ runs = MaxRuns

-----------------------------------------------------------------------------
(* A cell holds what was last written to it, save one whose write is under *)
(* way or was cut off: no glitch of a strobe or an address, no direction   *)
(* turned too late and no program killed between two stores writes another.*)
StoreAsAsked ==
    tool \in MemTool =>
    \A c \in Cells \ (torn \cup writing) : store[c] = wanted[c]

(* Once a program has configured the pins, the Pi and the '245 never both  *)
(* drive the data lines.                                                   *)
NoFight ==
    tool \in MemTool /\ pc \notin {"start", "enable", "killed"}
    => Driven(OutputEnable) \/ \A p \in DataPins : ~Drives(p)

(* What is read back is what was last written there, and readmem reads all *)
(* it was asked for.                                                       *)
DumpTrue ==
    tool \in MemTool
    => /\ \A k \in DOMAIN got : got[k] \in expect[k]
       /\ pc = "done" /\ tool = "readmem" => Len(got) = job.length
=============================================================================
