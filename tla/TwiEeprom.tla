----------------------------- MODULE TwiEeprom -----------------------------
(***************************************************************************)
(* What a cartridge promises a program that talks to it in whole bytes: a  *)
(* serial EEPROM of the 24-series behind the routines twistart, twiresta,  *)
(* twisendb, twigetb, twiack, twinak and twistop of the ROM.               *)
(*                                                                         *)
(* The abstract specification TwiBus implements, and the device CartXfer   *)
(* runs against.  A byte is a number below B (256 in the machine).  A      *)
(* control byte selects the cartridge when its top part is Select; its low *)
(* bit asks for a read and the bits between are the top of the address.    *)
(***************************************************************************)
EXTENDS Integers

CONSTANTS
    B,           \* values of a byte
    Select,      \* the cartridge's device code, 10 in the machine
    Blocks,      \* values of the address bits in a control byte, 8
    Size,        \* bytes the cartridge holds
    PageSize,    \* a write wraps inside a page of this size; 0: it does not
    SlowWrites   \* does a write leave the device busy for a while?

ASSUME EepromAssumption ==
    /\ B \in Nat \ {0, 1} /\ Select \in Nat /\ Blocks \in Nat \ {0}
    /\ 2 * Blocks * (Select + 1) <= B
    /\ Size \in Nat \ {0} /\ PageSize \in Nat /\ SlowWrites \in BOOLEAN

VARIABLES
    mem,       \* the bytes it holds
    ptr,       \* the address pointer, 0 outside a located transaction
    mode,      \* what the next byte on the bus means
    reply,     \* what the last transfer returned: 0 ACK, 1 NAK, or a byte
    busy,      \* programming its cells, deaf to its address
    present    \* plugged in

deviceVars == <<mem, ptr, mode, reply, busy, present>>

(* idle: between transactions.  ctl, rctl: awaiting a control byte for a   *)
(* write, for a read.  hi, lo, data: awaiting an address or data byte.     *)
(* send, sent: awaiting the next read, its acknowledge.  deaf: answered    *)
(* NAK, until the program stops.                                           *)
Modes == {"idle", "ctl", "rctl", "hi", "lo", "data", "send", "sent", "deaf"}

Bytes == 0..(B - 1)

DeviceTypeOK ==
    /\ mem \in [0..(Size - 1) -> Bytes]
    /\ ptr \in Nat
    /\ mode \in Modes
    /\ reply \in Bytes
    /\ busy \in BOOLEAN
    /\ present \in BOOLEAN

NextWrite(p) == IF PageSize = 0 THEN p + 1
                ELSE (p - (p % PageSize)) + ((p + 1) % PageSize)

Selects(c) == c \div (2 * Blocks) = Select

DeviceInit(images) ==
    /\ mem \in images
    /\ ptr = 0
    /\ mode = "idle"
    /\ reply = 0
    /\ busy = FALSE
    /\ present \in BOOLEAN

-----------------------------------------------------------------------------
(* twistart from an idle bus: a new transaction, nothing located yet.      *)
Start ==
    /\ mode = "idle"
    /\ mode' = "ctl"
    /\ ptr' = 0
    /\ reply' = 0
    /\ UNCHANGED <<mem, busy, present>>

(* twiresta, once the address is set: keeps the pointer for a read.        *)
Restart ==
    /\ mode = "data"
    /\ mode' = "rctl"
    /\ reply' = 0
    /\ UNCHANGED <<mem, ptr, busy, present>>

(* twistop, from anywhere.  Data may have been written: programming it may *)
(* take a while.                                                           *)
Stop ==
    /\ mode' = "idle"
    /\ ptr' = 0
    /\ busy' \in {busy, SlowWrites /\ mode = "data"}
    /\ UNCHANGED <<mem, reply, present>>

Acked(answers, next) ==
    /\ reply' = IF answers THEN 0 ELSE 1
    /\ mode' = IF answers THEN next ELSE "deaf"

(* twisendb of a control byte.                                             *)
SendCtl(c) ==
    LET answers == present /\ ~busy /\ Selects(c)
    IN  /\ mode \in {"ctl", "rctl"}
        /\ c % 2 = IF mode = "rctl" THEN 1 ELSE 0
        /\ Acked(answers, IF mode = "rctl" THEN "send" ELSE "hi")
        /\ ptr' = IF ~answers THEN 0
                  ELSE IF mode = "ctl" THEN (c \div 2) % Blocks ELSE ptr
        /\ UNCHANGED <<mem, busy, present>>

(* twisendb of an address byte.                                            *)
SendAddr(b) ==
    /\ mode \in {"hi", "lo"}
    /\ Acked(present, IF mode = "hi" THEN "lo" ELSE "data")
    /\ ptr' = IF present THEN B * ptr + b ELSE 0
    /\ UNCHANGED <<mem, busy, present>>

(* twisendb of a byte to store.                                            *)
SendData(b) ==
    /\ mode = "data"
    /\ Acked(present, "data")
    /\ IF present THEN /\ mem' = [mem EXCEPT ![ptr % Size] = b]
                       /\ ptr' = NextWrite(ptr)
                  ELSE ptr' = 0 /\ UNCHANGED mem
    /\ UNCHANGED <<busy, present>>

(* twigetb.  An empty socket reads as ones: the line is pulled up.         *)
Get ==
    /\ mode = "send"
    /\ mode' = "sent"
    /\ reply' = IF present THEN mem[ptr % Size] ELSE B - 1
    /\ ptr' = ptr + 1
    /\ UNCHANGED <<mem, busy, present>>

(* twiack and twinak: go on, or let the line go.                           *)
Ack(more) ==
    /\ mode = "sent"
    /\ mode' = IF more THEN "send" ELSE "deaf"
    /\ ptr' = IF more THEN ptr ELSE 0
    /\ UNCHANGED <<mem, reply, busy, present>>

(* The cells are programmed.                                               *)
Ready == busy /\ busy' = FALSE /\ UNCHANGED <<mem, ptr, mode, reply, present>>

(* Somebody pulls the cartridge out.                                       *)
Remove ==
    /\ present
    /\ present' = FALSE
    /\ UNCHANGED <<mem, ptr, mode, reply, busy>>

DeviceNext ==
    \/ Start \/ Restart \/ Stop \/ Get \/ Ready \/ Remove
    \/ \E b \in Bytes : SendCtl(b) \/ SendAddr(b) \/ SendData(b)
    \/ \E more \in BOOLEAN : Ack(more)

DeviceSpec ==
    /\ DeviceInit([0..(Size - 1) -> Bytes])
    /\ [][DeviceNext]_deviceVars
=============================================================================
