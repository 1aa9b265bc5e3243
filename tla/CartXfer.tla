------------------------------ MODULE CartXfer ------------------------------
(***************************************************************************)
(* Loading from and saving to a cartridge: loadcart, cart_set_location,    *)
(* savecart, saveblk and cartnext of rom/rom.s.  A step is one call of a   *)
(* two-wire routine together with the instructions up to the next one; the *)
(* device, TwiEeprom, takes its own steps between them (it finishes        *)
(* programming, or it is pulled out).                                      *)
(*                                                                         *)
(* Counts are kept as the two bytes the code counts with, because it       *)
(* borrows by hand; the other multi-byte values are numbers.               *)
(*                                                                         *)
(* The cells that the ROM itself works in are variables here (pc stands for*)
(* the stack), so ram does not follow them: no call is to load into them or*)
(* to save them, as docs/programming.txt:113-121 asks of a program.        *)
(***************************************************************************)
EXTENDS TwiEeprom

CONSTANTS
    Reserved,     \* $80..$2ff, where the ROM works, $c000..$ffff, I/O and ROM
    Jobs,         \* calls a program may make
    MaxCalls,     \* how many it makes, to bound the runs
    BlockSizes,   \* values of CARTBSZ
    Tries,        \* ldx #$96 in cartnext
    Images,       \* what the cartridge may hold at first
    RamImages     \* what the RAM may hold at first

Ram == 0..(B * B - 1)

Transfers == [op : {"load", "save"}, loc : Nat, n : Ram, addr : Ram]

(* The bytes that a load of n moves: B more if the first dec, which does   *)
(* not borrow, wraps.                                                      *)
Moved(n) == IF n % B = 0 THEN n + B ELSE n

(* A transfer of n bytes at a stays clear of the ROM's own cells.          *)
Spares(a, n) == \A k \in 0..(Moved(n) - 1) : (a + k) % (B * B) \notin Reserved

ASSUME XferAssumption ==
    /\ Reserved \subseteq Ram
    /\ Jobs \subseteq Transfers
    /\ \A j \in Jobs : j.loc + j.n <= Blocks * B * B /\ Spares(j.addr, j.n)
    /\ MaxCalls \in Nat
    /\ BlockSizes \subseteq Ram \ {0}
    /\ Tries \in Bytes
    /\ Images \subseteq [0..(Size - 1) -> Bytes]
    /\ RamImages \subseteq [Ram -> Bytes]

VARIABLES
    pc,      \* the routine to be called next; "ready": no call in progress
    job,     \* the arguments of the call
    calls,   \* calls made
    loc,     \* $a0..$a3, the place on the cartridge
    cnt,     \* $a4, $a5, bytes to go
    addr,    \* $a6..$a7, the place in memory
    blk,     \* $a8, $a9, bytes to go in the block
    saved,   \* $aa..$ab, the size of the block
    x,       \* the x register while cartnext counts its tries in it
    result,  \* what the call returns in a
    bsz,     \* CARTBSZ
    ram,
    ram0,    \* history: memory and cartridge when the call was made
    mem0

registers == <<loc, cnt, addr, blk, saved, x, result>>
callVars == <<job, calls, bsz, ram0, mem0>>
xferVars == <<deviceVars, pc, registers, callVars, ram>>

HighByte(n) == (n \div B) % B
(* A mutant: $a1 is sent twice.                                            *)
LowByte_High(n) == (n \div B) % B
LowByte(n) == n % B
Split(n) == [lo |-> n % B, hi |-> HighByte(n)]
Value(c) == B * c.hi + c.lo
(* A mutant: the byte does not wrap.                                       *)
Dec_Wide(b) == b - 1
Dec(b) == (b + B - 1) % B

WriteCtl(p) == 2 * Blocks * Select + 2 * ((p \div (B * B)) % Blocks)
ReadCtl == 2 * Blocks * Select + 1

Idle == [op |-> "load", loc |-> 0, n |-> 0, addr |-> 0]

PCs == {"ready", "l_start", "loc2", "loc1", "loc0", "l_resta", "l_ctl", "l_byte",
        "l_ack", "l_last", "l_nak", "stop", "s_block", "n_stop", "n_start",
        "s_byte", "s_next"}

Word == [lo : Bytes, hi : Bytes]

XferTypeOK ==
    /\ DeviceTypeOK
    /\ pc \in PCs
    /\ job \in Transfers
    /\ calls \in 0..MaxCalls
    /\ loc \in Nat
    /\ cnt \in Word
    /\ addr \in Ram
    /\ blk \in Word
    /\ saved \in Ram
    /\ x \in Bytes
    /\ result \in {0, 1}
    /\ bsz \in BlockSizes
    /\ ram \in [Ram -> Bytes]
    /\ ram0 \in [Ram -> Bytes]
    /\ mem0 \in [0..(Size - 1) -> Bytes]

XferInit ==
    /\ DeviceInit(Images)
    /\ pc = "ready"
    /\ job = Idle
    /\ calls = 0
    /\ loc = 0 /\ addr = 0 /\ saved = 0 /\ x = 0 /\ result = 0
    /\ cnt = Split(0) /\ blk = Split(0)
    /\ bsz \in BlockSizes
    /\ ram \in RamImages
    /\ ram0 = ram
    /\ mem0 = mem

-----------------------------------------------------------------------------
(* Entering loadcart or savecart with the arguments j.                     *)
Enter(j) ==
    /\ pc = "ready"
    /\ job' = j
    /\ loc' = j.loc
    /\ cnt' = Split(j.n)
    /\ addr' = j.addr
    /\ pc' = IF j.op = "load" THEN "l_start" ELSE "s_block"
    \* savecart first goes up to the next multiple of CARTBSZ
    /\ blk' = Split(IF j.op = "save" THEN bsz - (j.loc % bsz) ELSE 0)
    /\ ram0' = ram
    /\ mem0' = mem
    /\ UNCHANGED <<deviceVars, saved, x, result, bsz, ram>>

(* A program calls one of them.                                            *)
Call ==
    /\ calls < MaxCalls
    /\ calls' = calls + 1
    /\ \E j \in Jobs : Enter(j)

Goto(label) == pc' = label /\ UNCHANGED <<registers, ram, callVars>>

(* On a NAK loadcart stops with a = 1, and so does cartnext once dex has   *)
(* brought x to 0.  But twisendb left SERIR in x: the last seven bits of   *)
(* the byte b it sent, and the acknowledge.  (A load never looks at x.)    *)
(* A mutant: a load retries as well.                                       *)
Nak_Retries(b) ==
    /\ result' = 1
    /\ x' = Dec((2 * b + 1) % B)
    /\ pc' = "n_stop"
    /\ UNCHANGED <<loc, cnt, addr, blk, saved>>
Nak(b) ==
    LET left == Dec((2 * b + 1) % B)
    IN  /\ result' = 1
        /\ x' = left
        /\ pc' = IF job.op = "save" /\ left # 0 THEN "n_stop" ELSE "stop"
        /\ UNCHANGED <<loc, cnt, addr, blk, saved>>

(* One twisendb of cart_set_location.                                      *)
Locate(label, b, next) ==
    /\ pc = label
    /\ IF reply' = 0 THEN pc' = next /\ UNCHANGED registers
                     ELSE Nak(b)
    /\ UNCHANGED <<ram, callVars>>

SendLoc2 == SendCtl(WriteCtl(loc)) /\ Locate("loc2", WriteCtl(loc), "loc1")
SendLoc1 ==
    LET a1 == HighByte(loc)
    IN  SendAddr(a1) /\ Locate("loc1", a1, "loc0")
SendLoc0 ==
    LET a0 == LowByte(loc)
    IN  SendAddr(a0) /\ Locate("loc0", a0, IF job.op = "load" THEN "l_resta" ELSE "s_byte")

-----------------------------------------------------------------------------
(* loadcart.                                                               *)

LoadStart == pc = "l_start" /\ Start /\ Goto("loc2")
LoadRestart == pc = "l_resta" /\ Restart /\ Goto("l_ctl")

(* dec $a4 and the branches after it: the last byte is read apart from the *)
(* others, and $a5 is decremented when $a4 has wrapped.                    *)
AfterDec(lo, hi) ==
    /\ cnt' = [lo |-> lo,
               hi |-> IF lo = B - 1 THEN Dec(hi) ELSE hi]
    /\ pc' = IF lo = 0 /\ hi = 0 THEN "l_last" ELSE "l_byte"

(* The first dec does not look for a borrow.                               *)
LoadCtl ==
    /\ pc = "l_ctl"
    /\ SendCtl(ReadCtl)
    /\ IF reply' = 1
         THEN pc' = "stop" /\ result' = 1 /\ UNCHANGED cnt
         ELSE LET lo == Dec(cnt.lo)
              IN  /\ cnt' = [cnt EXCEPT !.lo = lo]
                  /\ pc' = IF lo = 0 /\ cnt.hi = 0 THEN "l_last" ELSE "l_byte"
                  /\ UNCHANGED result
    /\ UNCHANGED <<loc, addr, blk, saved, x, ram, callVars>>

(* A byte arrives in memory.                                               *)
LoadByte ==
    /\ pc \in {"l_byte", "l_last"}
    /\ Get
    /\ ram' = [ram EXCEPT ![addr] = reply']
    /\ pc' = IF pc = "l_byte" THEN "l_ack" ELSE "l_nak"
    /\ UNCHANGED <<registers, callVars>>

LoadAck ==
    /\ pc = "l_ack"
    /\ Ack(TRUE)
    /\ addr' = (addr + 1) % (B * B)
    /\ AfterDec(Dec(cnt.lo), cnt.hi)
    /\ UNCHANGED <<loc, blk, saved, x, result, ram, callVars>>

LoadNak ==
    /\ pc = "l_nak"
    /\ Ack(FALSE)
    /\ pc' = "stop"
    /\ result' = 0
    /\ UNCHANGED <<loc, cnt, addr, blk, saved, x, ram, callVars>>

-----------------------------------------------------------------------------
(* savecart: a block is at most what is left to save.                      *)
(* A mutant: the comparison is dropped.                                    *)
BlockSize_Full == Value(blk)
BlockSize == IF Value(cnt) < Value(blk) THEN Value(cnt) ELSE Value(blk)

SaveBlock ==
    /\ pc = "s_block"
    /\ blk' = Split(BlockSize)
    /\ saved' = BlockSize
    /\ x' = Tries
    /\ pc' = "n_stop"
    /\ UNCHANGED <<deviceVars, loc, cnt, addr, result, ram, callVars>>

(* cartnext: stop, start and set the location until the device answers.    *)
NextStop == pc = "n_stop" /\ Stop /\ Goto("n_start")
NextStart == pc = "n_start" /\ Start /\ Goto("loc2")

(* One turn of saveblk: dec $a8, and dec $a9 whenever $a8 reaches 0.       *)
SaveByte ==
    /\ pc = "s_byte"
    /\ SendData(ram[addr])
    /\ IF reply' = 1
         THEN pc' = "stop" /\ result' = 1 /\ UNCHANGED <<addr, blk>>
         ELSE LET lo == Dec(blk.lo)
              IN  /\ addr' = (addr + 1) % (B * B)
                  /\ IF lo = 0 /\ blk.hi = 0
                       THEN pc' = "stop" /\ result' = 0 /\ blk' = Split(0)
                       ELSE /\ pc' = "s_byte"
                            /\ blk' = [lo |-> lo,
                                       hi |-> IF lo = 0 THEN blk.hi - 1 ELSE blk.hi]
                            /\ UNCHANGED result
    /\ UNCHANGED <<loc, cnt, saved, x, ram, callVars>>

(* The twistop that ends a load or a block.                                *)
(* A mutant: an error returns without it.                                  *)
EndTransfer_NoStop ==
    /\ pc = "stop"
    /\ IF result = 1 THEN UNCHANGED deviceVars ELSE Stop
    /\ Goto(IF job.op = "save" /\ result = 0 THEN "s_next" ELSE "ready")
EndTransfer ==
    /\ pc = "stop"
    /\ Stop
    /\ Goto(IF job.op = "save" /\ result = 0 THEN "s_next" ELSE "ready")

(* The next block starts where this one ended and is a whole one.          *)
(* A mutant: the location is not moved on.                                 *)
NextLocation_Same == loc
NextLocation == loc + saved

SaveNext ==
    LET left == Value(cnt) - saved
    IN  /\ pc = "s_next"
        /\ loc' = NextLocation
        /\ cnt' = Split(left)
        /\ IF left = 0
             THEN pc' = "ready" /\ UNCHANGED blk
             ELSE pc' = "s_block" /\ blk' = Split(bsz)
        /\ UNCHANGED <<deviceVars, addr, saved, x, result, ram, callVars>>

-----------------------------------------------------------------------------
Cpu ==
    \/ SendLoc2 \/ SendLoc1 \/ SendLoc0
    \/ LoadStart \/ LoadRestart \/ LoadCtl \/ LoadByte \/ LoadAck \/ LoadNak
    \/ SaveBlock \/ NextStop \/ NextStart \/ SaveByte \/ EndTransfer \/ SaveNext

Environment ==
    /\ Ready \/ Remove
    /\ UNCHANGED <<pc, registers, callVars, ram>>

XferNext == Call \/ Cpu \/ Environment

(* The processor runs, and a device finishes programming its cells; nobody *)
(* has to call, nobody has to pull the cartridge out.                      *)
XferSpec ==
    /\ XferInit
    /\ [][XferNext]_xferVars
    /\ WF_xferVars(Cpu)
    /\ WF_xferVars(Environment /\ Ready)

-----------------------------------------------------------------------------
(* The calls for which loadcart's counting is right: the low byte of the   *)
(* count is not 0, and the bytes are loaded below the end of memory.       *)
LoadsFit ==
    \A j \in Jobs : j.op = "load" => j.n % B # 0 /\ j.addr + j.n <= B * B

(* The calls and blocks for which saveblk's counting is right, on a        *)
(* device whose pages are whole blocks.                                    *)
SavesFit ==
    /\ \A j \in Jobs : j.op = "save" => /\ j.n > 0 /\ j.loc + j.n <= Size
                                        /\ j.addr + j.n <= B * B
    /\ \A b \in BlockSizes : b < B /\ (PageSize # 0 => PageSize % b = 0)

CallsFit == LoadsFit /\ SavesFit

Returned(op) == pc = "ready" /\ calls > 0 /\ job.op = op

(* A successful load has put the n bytes at the location into memory at    *)
(* the address, and changed nothing else there or on the cartridge.  (With *)
(* the cartridge pulled out the line reads as ones and nobody can tell.)   *)
LoadExact ==
    Returned("load") /\ result = 0 /\ present =>
        /\ mem = mem0
        /\ ram = [i \in Ram |->
                    IF i \in job.addr..(job.addr + job.n - 1)
                    THEN mem[(job.loc + i - job.addr) % Size] ELSE ram0[i]]

(* The cartridge with the first k bytes of a save done.                    *)
Overlay(k) ==
    [p \in 0..(Size - 1) |->
        IF p \in job.loc..(job.loc + k - 1) THEN ram0[job.addr + p - job.loc]
                                            ELSE mem0[p]]

(* A successful save has put all n bytes at the location, across any page  *)
(* boundaries and however long the device was busy in between.             *)
SaveExact == Returned("save") /\ result = 0 => mem = Overlay(job.n)

(* At every moment of a call, and whenever it fails or the cartridge is    *)
(* pulled out, the cartridge has a prefix of the bytes saved and nothing   *)
(* else is changed; a save leaves memory alone.                            *)
SavesPrefix ==
    /\ \E k \in 0..(IF job.op = "save" THEN job.n ELSE 0) : mem = Overlay(k)
    /\ job.op = "save" => ram = ram0

(* Each routine finds the device in the state it is meant for, and when a  *)
(* call has returned, whatever its outcome, the bus is stopped: the next   *)
(* START is seen as one.                                                   *)
InProtocol ==
    /\ pc \in {"ready", "l_start", "s_block", "s_next", "n_start"} => mode = "idle"
    /\ pc = "loc2" => mode = "ctl"
    /\ pc = "loc1" => mode = "hi"
    /\ pc = "loc0" => mode = "lo"
    /\ pc \in {"l_resta", "s_byte"} => mode = "data"
    /\ pc = "l_ctl" => mode = "rctl"
    /\ pc \in {"l_byte", "l_last"} => mode = "send"
    /\ pc \in {"l_ack", "l_nak"} => mode = "sent"

(* Every load returns, also with nothing in the socket; a save returns     *)
(* while the cartridge stays, however often it finds it busy.              *)
CallsReturn == pc # "ready" ~> (pc = "ready" \/ (job.op = "save" /\ ~present))

(* rom.s:820-824 says: cartnext, which every save waits in, gives up when  *)
(* the cartridge does not acknowledge for 10 ms; so a save returns, also   *)
(* when the cartridge has gone.                                            *)
SaveReturns == pc # "ready" ~> pc = "ready"
=============================================================================
