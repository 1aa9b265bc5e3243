------------------------------- MODULE TwiBus -------------------------------
(***************************************************************************)
(* The ROM's two-wire routines (rom/rom.s, twiack .. twistop) against the  *)
(* emulator's serial port: each routine is the sequence of its stores to   *)
(* SERCR, and each store is one step of TwiSlave.  A program calls the     *)
(* routines in any order a transaction allows, as loadcart, savecart and   *)
(* cartnext do, and may call twistop at any point.                         *)
(*                                                                         *)
(* What a program relies on is that whole bytes arrive: TwiBus implements  *)
(* TwiEeprom, one routine being one step of the device.                    *)
(***************************************************************************)
EXTENDS TwiSlave, Sequences

CONSTANTS
    CtlBytes,      \* control bytes a program sends
    AddrBytes,     \* address bytes
    DataBytes,     \* bytes it stores
    MaxTransfers   \* bytes moved in one transaction, to bound the runs

ASSUME SentAssumption ==
    CtlBytes \cup AddrBytes \cup DataBytes \subseteq 0..255

VARIABLES
    call,    \* the routine running, or the last one that ran
    pc,      \* its next store; 0 when it has returned
    at,      \* where the program is in a transaction, as in TwiEeprom
    reply,   \* the a register as the last transfer left it
    moved,   \* bytes moved in this transaction
    was      \* history: image and pointer when the running routine was called

busVars == <<slaveVars, call, pc, at, reply, moved, was>>

Kinds == {"boot", "start", "resta", "stop", "sendb", "getb", "ack", "nak"}

-----------------------------------------------------------------------------
(* The stores of each routine.  All keep SDA while they raise SCL.         *)

Bit(d) == <<P(d, 0), P(d, 1), P(d, 0)>>

StartPins == <<P(0, 1), P(0, 0)>>

(* _start stores $7f, then $ff.                                            *)
BootPins == <<P(0, 1), P(1, 1)>>

RestaPins == <<P(1, 0), P(1, 1)>> \o StartPins

(* A mutant: the line is not pulled down first.                            *)
StopPins_NoFall == <<P(1, 0), P(1, 1), P(1, 1)>>
StopPins == <<P(0, 0), P(0, 1), P(1, 1), P(1, 1)>>

(* Bit k of a byte, most significant first; the ninth releases the line    *)
(* for the acknowledge.                                                    *)
BitOf(b, k) == IF k = 8 THEN 1 ELSE (b \div 2 ^ (7 - k)) % 2

SendPins(b) ==
    [i \in 1..27 |-> P(BitOf(b, (i - 1) \div 3), IF i % 3 = 2 THEN 1 ELSE 0)]

GetPins == [i \in 1..17 |-> P(1, IF i % 2 = 0 THEN 1 ELSE 0)]

Stores(c) ==
    CASE c.kind = "boot" -> BootPins
      [] c.kind = "start" -> StartPins
      [] c.kind = "resta" -> RestaPins
      [] c.kind = "stop" -> StopPins
      [] c.kind = "sendb" -> SendPins(c.byte)
      [] c.kind = "getb" -> GetPins
      [] c.kind = "ack" -> Bit(0)
      [] c.kind = "nak" -> Bit(1)

-----------------------------------------------------------------------------
Located == at \in {"hi", "lo", "data", "rctl", "send", "sent"}
Pointer == IF Located THEN cartridge_addr ELSE 0

BusInit ==
    /\ Init
    /\ call = [kind |-> "boot", byte |-> 0]
    /\ pc = 1
    /\ at = "idle"
    /\ reply = 0
    /\ moved = 0
    /\ was = [mem |-> cartridge, ptr |-> 0]

(* A program enters a routine.                                             *)
Begin(kind, b) ==
    /\ pc = 0
    /\ pc' = 1
    /\ call' = [kind |-> kind, byte |-> b]
    /\ was' = [mem |-> cartridge, ptr |-> Pointer]
    /\ UNCHANGED <<slaveVars, at, reply, moved>>

CallStart == at = "idle" /\ Begin("start", 0)
CallResta == at = "data" /\ Begin("resta", 0)
CallStop == Begin("stop", 0)
CallSendCtl == \E c \in CtlBytes :
    /\ at = (IF c % 2 = 0 THEN "ctl" ELSE "rctl")
    /\ Begin("sendb", c)
CallSendAddr == at \in {"hi", "lo"} /\ \E b \in AddrBytes : Begin("sendb", b)
CallSendData ==
    /\ at = "data" /\ moved < MaxTransfers
    /\ \E b \in DataBytes : Begin("sendb", b)
CallGet == at = "send" /\ moved < MaxTransfers /\ Begin("getb", 0)
CallAck == at = "sent" /\ \E kind \in {"ack", "nak"} : Begin(kind, 0)

AfterSend == [ctl |-> "hi", rctl |-> "send", hi |-> "lo", lo |-> "data",
              data |-> "data"]

(* A routine returns after its last store.  twisendb and twigetb load      *)
(* SERIR once the last clock has been high; nothing shifts it after that.  *)
Return ==
    /\ pc' = 0
    /\ LET kind == call.kind
           nak == serir' % 2 = 1
       IN  /\ at' = CASE kind \in {"boot", "stop"} -> "idle"
                      [] kind = "start" -> "ctl"
                      [] kind = "resta" -> "rctl"
                      [] kind = "sendb" -> IF nak THEN "deaf" ELSE AfterSend[at]
                      [] kind = "getb" -> "sent"
                      [] kind = "ack" -> "send"
                      [] kind = "nak" -> "deaf"
           /\ reply' = CASE kind \in {"start", "resta"} -> 0
                         [] kind = "sendb" -> serir' % 2
                         [] kind = "getb" -> serir'
                         [] OTHER -> reply
           /\ moved' = IF kind = "stop" THEN 0
                       ELSE IF kind = "getb" \/ (kind = "sendb" /\ at = "data")
                            THEN moved + 1 ELSE moved

Store ==
    /\ pc > 0
    /\ WriteSercr(Stores(call)[pc])
    /\ IF pc = Len(Stores(call)) THEN Return
                                 ELSE pc' = pc + 1 /\ UNCHANGED <<at, reply, moved>>
    /\ UNCHANGED <<call, was>>

BusNext ==
    \/ CallStart \/ CallResta \/ CallStop
    \/ CallSendCtl \/ CallSendAddr \/ CallSendData
    \/ CallGet \/ CallAck
    \/ Store

BusSpec == BusInit /\ [][BusNext]_busVars

-----------------------------------------------------------------------------
(* Whenever no routine is running the slave and the program agree on where *)
(* they are: after a boot from any register contents and after every       *)
(* twistop the slave is idle with both lines high; inside a transaction    *)
(* SCL is low, a whole frame has been counted (or all of it but the        *)
(* acknowledge of a byte just read), and no bits of a byte are left over   *)
(* from a read.  A slip of one clock anywhere would misalign every later   *)
(* byte.                                                                   *)
InStep ==
    pc = 0 =>
        IF at = "idle" THEN twi_status = 0 /\ sercr = P(1, 1)
        ELSE /\ sercr.scl = 0
             /\ twi_status % 16 = (IF at = "sent" THEN 7 ELSE 15)
             /\ at \in {"send", "sent"} => cartridge_bits = 0
             /\ at = "deaf" \/ (AddrSet <=> at \in {"hi", "lo", "data", "send", "sent"})

(* The routines and the slave together are the EEPROM of TwiEeprom: a      *)
(* byte sent to a located cartridge is stored at the pointer, a byte read  *)
(* is the one there, the pointer moves by one for each, and only a byte    *)
(* sent to store changes the image.                                        *)
Device == INSTANCE TwiEeprom WITH
    B <- 256, Select <- 10, Blocks <- 8, Size <- CartSize,
    PageSize <- 0, SlowWrites <- FALSE,
    mem <- IF pc = 0 THEN cartridge ELSE was.mem,
    ptr <- IF pc = 0 THEN Pointer ELSE was.ptr,
    mode <- at, busy <- FALSE, present <- attached

ImplementsEeprom == Device!DeviceSpec
=============================================================================
