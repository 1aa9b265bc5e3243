------------------------------ MODULE TwiSlave ------------------------------
(***************************************************************************)
(* The serial port of the emulator and the cartridge behind it             *)
(* (emulator/hm1000.c, handle_new_sercr and write_sercr).                  *)
(*                                                                         *)
(* A program drives the two-wire bus one store to SERCR at a time.  Each   *)
(* store is one atomic step: the emulated CPU is stopped while the handler *)
(* runs.  Only two bits of SERCR reach the bus, the clock (SCL) and the    *)
(* computer's side of the data line (SDA); the other six are left out.     *)
(*                                                                         *)
(* Next lets a program store any value at any time, whatever protocol it   *)
(* believes in.  TwiBus composes the same handler with the ROM's routines. *)
(***************************************************************************)
EXTENDS Integers

CONSTANTS
    CartSize,    \* bytes of the cartridge image, s->cartridge_size
    InitBytes,   \* what a byte of the image may hold at first
    Garbage      \* what a register may hold before it is first set

ASSUME CartSizeAssumption == CartSize \in Nat \ {0}
ASSUME BytesAssumption == InitBytes \subseteq 0..255 /\ Garbage \subseteq 0..255

VARIABLES
    attached,         \* s->cartridge is not NULL
    cartridge,        \* the image
    cartridge_bits,   \* bits of `data` still to be sent
    cartridge_state,  \* 1, 2: awaiting an address byte; 3: CART_STATE_NORMAL
    cartridge_addr,   \* position of the next transfer (a size_t)
    data,             \* static in the handler: the byte being sent
    sercr,            \* last value stored in SERCR
    serir,            \* the input shift register
    twi_addr,         \* the control byte of the transaction
    twi_status        \* bits left in the frame; bit 4 is TWI_ADDR_SET

cartVars == <<cartridge, cartridge_bits, cartridge_state, cartridge_addr, data>>
slaveVars == <<attached, cartVars, sercr, serir, twi_addr, twi_status>>

Byte == 0..255
Pins == [sda : 0..1, scl : 0..1]
P(sda, scl) == [sda |-> sda, scl |-> scl]

TypeOK ==
    /\ attached \in BOOLEAN
    /\ cartridge \in [0..(CartSize - 1) -> Byte]
    /\ cartridge_bits \in Byte
    /\ cartridge_state \in Byte
    /\ cartridge_addr \in Nat
    /\ data \in Byte
    /\ sercr \in Pins
    /\ serir \in Byte
    /\ twi_addr \in Byte
    /\ twi_status \in Byte

(* Power-on: init_6502 fills the registers with random bytes and clears    *)
(* only twi_status; cartridge_addr is random too, but every path that uses *)
(* it sets it first.                                                       *)
Init ==
    /\ attached \in BOOLEAN
    /\ cartridge \in [0..(CartSize - 1) -> InitBytes]
    /\ cartridge_bits \in Garbage
    /\ cartridge_state \in Garbage
    /\ cartridge_addr = 0
    /\ data = 0
    /\ sercr \in Pins
    /\ serir \in Garbage
    /\ twi_addr \in Garbage
    /\ twi_status = 0

-----------------------------------------------------------------------------
(* Fields of the registers.                                                *)

AddrSet == (twi_status \div 16) % 2 = 1
AddressingCartridge == twi_addr \div 16 = 10
CartWrite == AddressingCartridge /\ twi_addr % 2 = 0
CartRead == AddressingCartridge /\ twi_addr % 2 = 1
(* A mutant: the frame is one bit short.                                   *)
WaitingForAck_Early == twi_status % 16 = 8
WaitingForAck == twi_status % 16 = 7

(* The bit on the line is the one the program stored before SCL rose.      *)
Shifted == (2 * serir + sercr.sda) % 256
SdaLow(b) == b - (b % 2)
Dec(b) == (b + 255) % 256
(* A mutant: the address is advanced before the access.                    *)
Here_Advanced == (cartridge_addr + 1) % CartSize
Here == cartridge_addr % CartSize

-----------------------------------------------------------------------------
(* The cases of handle_new_sercr.  SCL low: nothing happens.               *)
SclLow(val) ==
    /\ val.scl = 0
    /\ UNCHANGED <<cartVars, serir, twi_addr, twi_status>>

(* The ninth clock of a frame: the cartridge pulls SDA low to acknowledge  *)
(* its control byte, and every byte after it of a write.                   *)
AckClock(val) ==
    LET first == attached /\ AddressingCartridge /\ ~AddrSet
        pulls == attached /\ AddressingCartridge /\ (AddrSet => CartWrite)
    IN  /\ val.scl = 1 /\ sercr.scl = 0
        /\ WaitingForAck
        /\ serir' = IF pulls THEN SdaLow(Shifted) ELSE Shifted
        /\ twi_status' = twi_status + 8 + (IF first THEN 16 ELSE 0)
        /\ IF first /\ CartWrite
             THEN /\ cartridge_state' = 1
                  /\ cartridge_addr' = (twi_addr \div 2) % 8
                  /\ cartridge_bits' = 0
             ELSE UNCHANGED <<cartridge_state, cartridge_addr, cartridge_bits>>
        /\ UNCHANGED <<cartridge, data, twi_addr>>

(* A data clock of a read: the cartridge puts the next bit on SDA, loading *)
(* a byte when none is left.  Without a cartridge the load would divide by *)
(* its size, 0, and the emulator would be gone: no step.                   *)
ReadClock(val) ==
    LET reload == cartridge_bits = 0
        byte == IF reload THEN cartridge[Here] ELSE data
    IN  /\ val.scl = 1 /\ sercr.scl = 0
        /\ ~WaitingForAck
        /\ AddrSet /\ CartRead
        /\ reload => attached
        /\ serir' = IF byte < 128 THEN SdaLow(Shifted) ELSE Shifted
        /\ data' = (2 * byte) % 256
        /\ cartridge_bits' = IF reload THEN 7 ELSE cartridge_bits - 1
        /\ cartridge_addr' = IF reload THEN cartridge_addr + 1 ELSE cartridge_addr
        /\ twi_status' = Dec(twi_status)
        /\ UNCHANGED <<cartridge, cartridge_state, twi_addr>>

(* Any other data clock: the bit is shifted in, and the eighth completes a *)
(* control byte, an address byte, or a byte for the image.  As with a read *)
(* there must be an image to store into.                                   *)
ShiftClock(val) ==
    LET eighth == twi_status % 8 = 0
        toCart == eighth /\ AddrSet /\ CartWrite
        located == cartridge_state >= 3
    IN  /\ val.scl = 1 /\ sercr.scl = 0
        /\ ~WaitingForAck
        /\ ~(AddrSet /\ CartRead)
        /\ (toCart /\ located) => attached
        /\ serir' = Shifted
        /\ twi_status' = Dec(twi_status)
        /\ twi_addr' = IF eighth /\ ~AddrSet THEN Shifted ELSE twi_addr
        /\ IF toCart
             THEN /\ cartridge_state' = IF located THEN cartridge_state
                                                   ELSE cartridge_state + 1
                  /\ cartridge_addr' = IF located THEN cartridge_addr + 1
                                       ELSE 256 * cartridge_addr + Shifted
                  /\ cartridge' = IF located
                                  THEN [cartridge EXCEPT ![Here] = Shifted]
                                  ELSE cartridge
             ELSE UNCHANGED <<cartridge, cartridge_state, cartridge_addr>>
        /\ UNCHANGED <<cartridge_bits, data>>

(* SCL stays high: SDA falling is START, SDA rising is STOP (the msync of  *)
(* a STOP saves the image to its file and changes no state here).          *)
SclHigh(val) ==
    /\ val.scl = 1 /\ sercr.scl = 1
    /\ twi_status' = IF val.sda = sercr.sda THEN twi_status
                     ELSE IF val.sda = 0 THEN 15 ELSE 0
    /\ UNCHANGED <<cartVars, serir, twi_addr>>

HandleNewSercr(val) ==
    \/ SclLow(val)
    \/ AckClock(val)
    \/ ReadClock(val)
    \/ ShiftClock(val)
    \/ SclHigh(val)

WriteSercr(val) ==
    /\ HandleNewSercr(val)
    /\ sercr' = val
    /\ UNCHANGED attached

-----------------------------------------------------------------------------
Next == \E val \in Pins : WriteSercr(val)

Spec == Init /\ [][Next]_slaveVars

-----------------------------------------------------------------------------
(* The bit counter never leaves a frame: outside the idle value 0 its low  *)
(* nibble runs 15 down to 7 and back, also when a program clocks the bus   *)
(* outside a transaction and the uint8_t wraps below 0.  If it failed,     *)
(* acknowledge and data bits would change places for the rest of the       *)
(* session.                                                                *)
FrameCounter ==
    \/ twi_status = 0
    \/ /\ twi_status % 16 \in 7..15
       /\ twi_status \div 16 \in {0, 1, 15}
=============================================================================
