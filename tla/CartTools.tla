----------------------------- MODULE CartTools ------------------------------
(***************************************************************************)
(* The cartridge programmer: tools/cartridge/writecart.c and readcart.c    *)
(* from start to end, store by store.                                      *)
(*                                                                         *)
(* The cartridge is external, a serial EEPROM wired as in docs/design/     *)
(* cartridge-programmer.txt.  It gets its power from a pin, too; it        *)
(* collects the bytes of a write and programs them into a page after a     *)
(* STOP, deaf while it does; what loses its power by then is half          *)
(* written.  SDA is low when either side pulls it low, else high.          *)
(***************************************************************************)
EXTENDS Gpio

CONSTANTS
    Width,       \* bits of a byte, 8
    CtlWrite,    \* $a0, and $a1 is CtlWrite + 1
    page_size,   \* 64
    Polls,       \* 200
    Size,        \* bytes of the cartridge
    DevicePage,  \* bytes of its pages
    CartJobs,    \* [tool, start, length, input]: arguments, and the file
    CartImages,  \* what the cartridge may hold at first
    MaxCartRuns  \* bound: programs after the first

VccPin == 2
SclPin == 3
SdaPin == 4
CartTool == {"writecart", "readcart"}

CartByte == 0..(2 ^ Width - 1)
CtlRead == CtlWrite + 1

(* The pages of the cartridge are of page_size or a multiple, as the       *)
(* comment on page_size asks, and the range ends on it.                    *)
ASSUME CartAssumption ==
    /\ Width \in 1..8 /\ CtlWrite \in CartByte /\ CtlWrite % 2 = 0
    /\ page_size \in Nat \ {0} /\ Polls \in Nat \ {0} /\ MaxCartRuns \in Nat
    /\ Size \in Nat \ {0} /\ Size <= 2 ^ (2 * Width)
    /\ DevicePage \in Nat \ {0} /\ DevicePage % page_size = 0
    /\ Size % DevicePage = 0
    /\ \A j \in CartJobs :
         /\ j.tool \in CartTool /\ j.start \in Nat /\ j.length \in Nat
         /\ j.input \in Seq(CartByte)
         /\ j.start + Len(j.input) <= Size
         /\ j.tool = "readcart" => j.start + j.length <= Size
    /\ CartImages \subseteq [0..(Size - 1) -> CartByte]

VARIABLES
    present,   \* the cartridge is plugged in
    rom,       \* its cells
    page,      \* bytes collected, or being programmed, by cell
    busy,      \* programming them
    mode,      \* what the frame on the bus is to it
    bits,      \* clocks of the frame
    shift,     \* the bits received
    ptr,       \* its address pointer
    pull,      \* does it pull SDA low?
    cjob,      \* the arguments
    pos,       \* address
    len,       \* length
    used,      \* bytes of the file sent
    n,         \* as in the code; at last the program's exit code
    i,         \* as in the code
    printed,   \* what readcart printed
    \* history, and a bound
    old,       \* what the cartridge held at first
    safe,      \* bytes of the file whose programming was acknowledged
    late,      \* cells a killed run left being programmed
    more       \* programs left

chipVars == <<present, rom, page, busy, mode, bits, shift, ptr, pull>>
mainVars == <<cjob, pos, len, used, n, i, printed, old, safe, late, more>>
cartVars == <<chipVars, mainVars>>

-----------------------------------------------------------------------------
(* The routines.                                                           *)
configure_cart ==
    << Function({VccPin}, FuncOutput), Low({VccPin}),
       Function({SclPin}, FuncOutput), High({SclPin}),
       Function({SdaPin}, FuncOutput), High({SdaPin}) >>

disable_cart == <<Low({VccPin}), High({SclPin, SdaPin})>>

enable_cart == <<High({SclPin, SdaPin, VccPin})>>

Clock == <<High({SclPin}), Low({SclPin})>>
LookClock == <<High({SclPin}), Sample({SdaPin}), Low({SclPin})>>

Input == Function({SdaPin}, FuncInput)
Output == Function({SdaPin}, FuncOutput)

(* Times(k, s): s, k times.                                                *)
Times(k, s) == [x \in 1..(k * Len(s)) |-> s[1 + ((x - 1) % Len(s))]]

(* A mutant: the line is looked at after the clock has fallen.             *)
recv_byte_Late ==
    <<High({SdaPin}), Input>>
    \o Times(Width, Clock \o <<Sample({SdaPin})>>) \o <<Output>>
recv_byte == <<High({SdaPin}), Input>> \o Times(Width, LookClock) \o <<Output>>

Bit(v, k) == (v \div 2 ^ (Width - k)) % 2

send_byte(v) ==
    [x \in 1..(3 * Width) |->
        IF x % 3 = 1 THEN Value(SdaPin, Bit(v, 1 + (x \div 3)))
                     ELSE Clock[1 + ((x + 1) % 3)]]
    \o <<High({SdaPin}), Input>> \o LookClock \o <<Output>>

send_nak == <<High({SdaPin})>> \o Clock
send_ack == <<Low({SdaPin})>> \o Clock

start == <<Low({SdaPin}), Low({SclPin})>>

restart == <<High({SdaPin}), High({SclPin}), Low({SdaPin}), Low({SclPin})>>

stop == <<Low({SclPin, SdaPin}), High({SclPin}), High({SdaPin})>>

-----------------------------------------------------------------------------
(* The cartridge.                                                          *)
None == [c \in {} |-> 0]
Powered == present /\ Drives(VccPin) /\ Driven(VccPin)
Scl == Driven(SclPin)
Wire == Driven(SdaPin) /\ ~pull
Receiving == mode \in {"ctl", "hi", "lo", "data"}

(* Without power a page that is being programmed is written in part.       *)
PowerLost ==
    /\ \E done \in IF busy THEN SUBSET DOMAIN page ELSE {{}} :
         rom' = [c \in DOMAIN rom |-> IF c \in done THEN page[c] ELSE rom[c]]
    /\ page' = None /\ busy' = FALSE /\ mode' = "idle"
    /\ bits' = 0 /\ shift' = 0 /\ ptr' = 0 /\ pull' = FALSE

StartSeen ==
    /\ mode' = "ctl" /\ bits' = 0 /\ shift' = 0 /\ pull' = FALSE
    /\ page' = IF busy THEN page ELSE None
    /\ UNCHANGED <<rom, busy, ptr>>

(* The clock of a STOP has been taken for a bit.                           *)
StopSeen ==
    /\ busy' = (busy \/ (mode = "data" /\ bits = 1 /\ page # None))
    /\ mode' = "idle" /\ bits' = 0 /\ shift' = 0 /\ pull' = FALSE
    /\ UNCHANGED <<rom, page, ptr>>

Rises(line) ==
    /\ bits' = IF mode \in {"idle", "deaf"} THEN bits ELSE bits + 1
    /\ shift' = IF Receiving /\ bits < Width
                THEN 2 * shift + (IF line THEN 1 ELSE 0) ELSE shift
    /\ mode' = IF mode = "send" /\ bits = Width /\ line THEN "deaf" ELSE mode
    /\ UNCHANGED <<rom, page, busy, ptr, pull>>

Accepts == mode = "ctl" => ~busy /\ shift \in {CtlWrite, CtlRead}

(* Bit k of the byte under the pointer, to be sent.                        *)
Zero(k) == Bit(rom[ptr' % Size], k) = 0

AfterByte == [ctl |-> IF shift = CtlRead THEN "send" ELSE "hi",
              hi |-> "lo", lo |-> "data", data |-> "data"]

NextInPage(p) == (p - (p % DevicePage)) + ((p + 1) % DevicePage)

(* The frame's byte has been acknowledged.                                 *)
Taken ==
    LET cell == ptr % Size IN
    /\ mode' = AfterByte[mode] /\ bits' = 0 /\ shift' = 0
    /\ ptr' = CASE mode = "hi" -> shift
                [] mode = "lo" -> 2 ^ Width * ptr + shift
                [] mode = "data" -> NextInPage(cell)
                [] OTHER -> ptr
    /\ page' = IF mode # "data" THEN page
               ELSE [c \in DOMAIN page \cup {cell} |->
                        IF c = cell THEN shift ELSE page[c]]
    /\ pull' = (mode' = "send" /\ Zero(1))

Falls ==
    /\ UNCHANGED <<rom, busy>>
    /\ IF Receiving /\ bits > Width THEN Taken
       ELSE /\ UNCHANGED <<page, shift>>
            /\ mode' = IF Receiving /\ bits = Width /\ ~Accepts THEN "deaf" ELSE mode
            /\ bits' = IF mode = "send" /\ bits > Width THEN 0 ELSE bits
            /\ ptr' = IF mode = "send" /\ bits = Width THEN ptr + 1 ELSE ptr
            /\ pull' = CASE mode = "send" -> bits' < Width /\ Zero(1 + bits')
                         [] Receiving -> bits = Width /\ Accepts
                         [] OTHER -> FALSE

(* Where one store lets both lines fall the device may take it for START.  *)
CartReacts ==
    LET line == Driven(SdaPin)' /\ ~pull IN
    IF ~Powered' THEN PowerLost
    ELSE CASE ~Scl /\ Scl' -> Rises(line)
           [] Scl /\ ~Scl' -> Falls \/ (Wire /\ ~line /\ StartSeen)
           [] Scl /\ Scl' /\ Wire /\ ~line -> StartSeen
           [] Scl /\ Scl' /\ ~Wire /\ line -> StopSeen
           [] OTHER -> UNCHANGED <<rom, page, busy, mode, bits, shift, ptr, pull>>

CartPin ==
    /\ tool \in CartTool
    /\ Do(IF Wire THEN {SdaPin} ELSE {})
    /\ present' = present /\ CartReacts
    /\ UNCHANGED mainVars

(* The page has been programmed.                                           *)
Ready ==
    /\ busy /\ busy' = FALSE
    /\ rom' = [c \in DOMAIN rom |-> IF c \in DOMAIN page THEN page[c] ELSE rom[c]]
    /\ page' = None
    /\ UNCHANGED <<gpioVars, present, mode, bits, shift, ptr, pull, mainVars>>

(* Somebody pulls it out.                                                  *)
Remove ==
    /\ tool \in CartTool /\ present /\ present' = FALSE
    /\ PowerLost
    /\ UNCHANGED <<gpioVars, mainVars>>

-----------------------------------------------------------------------------
(* main.  The acknowledge of the byte sent is the first sample since.      *)
CartCall(from, to, ops) ==
    /\ tool \in CartTool /\ Main(from, to, ops)
    /\ got' = <<>>
    /\ UNCHANGED <<chipVars, cjob, old, late, more>>

Nak == got[1] # {}

Exits(code) ==
    /\ CartCall(pc, "exit", stop \o disable_cart \o CopySaved)
    /\ n' = code
    /\ UNCHANGED <<pos, len, used, i, printed>>

CartConfigure ==
    /\ CartCall("start", "begin", configure_cart \o enable_cart
                \o (IF tool = "readcart" THEN start ELSE <<>>))
    /\ pos' = cjob.start /\ len' = cjob.length
    /\ used' = 0 /\ safe' = 0 /\ n' = 0 /\ i' = 0 /\ printed' = <<>>

SendDevice ==
    /\ CartCall("begin", "device",
                (IF tool = "writecart" THEN start ELSE <<>>) \o send_byte(CtlWrite))
    /\ UNCHANGED <<pos, len, used, n, i, printed, safe>>

SendHigh ==
    /\ CartCall("device", "high", send_byte((pos \div 2 ^ Width) % 2 ^ Width))
    /\ ~Nak /\ UNCHANGED <<pos, len, used, n, i, printed, safe>>

SendLow ==
    /\ CartCall("high", "low", send_byte(pos % 2 ^ Width))
    /\ ~Nak /\ UNCHANGED <<pos, len, used, n, i, printed, safe>>

Refused ==
    /\ pc \in {"device", "high", "low", "again", "data"}
    /\ Exits(1) /\ Nak /\ UNCHANGED safe

(* fread: no more than the page, the length and the file have left.        *)
Lesser(a, b) == IF a < b THEN a ELSE b
BytesRead ==
    Lesser(Lesser(page_size - (pos % page_size), len), Len(cjob.input) - used)

ReadPage ==
    /\ tool = "writecart" /\ BytesRead > 0
    /\ CartCall("low", "data", send_byte(cjob.input[used + 1]))
    /\ ~Nak
    /\ n' = BytesRead /\ i' = 0
    /\ UNCHANGED <<pos, len, used, printed, safe>>

(* ferror(input), or the end of the file.                                  *)
NoPage ==
    /\ tool = "writecart" /\ pc = "low"
    /\ \E code \in {0, 1} : Exits(code) /\ (code = 0 => BytesRead = 0)
    /\ ~Nak /\ UNCHANGED safe

SendNext ==
    /\ i + 1 < n
    /\ CartCall("data", "data", send_byte(cjob.input[used + i + 2]))
    /\ ~Nak /\ i' = i + 1
    /\ UNCHANGED <<pos, len, used, n, printed, safe>>

PageSent ==
    /\ i + 1 = n
    /\ CartCall("data", "poll", stop)
    /\ ~Nak /\ i' = 0
    /\ len' = len - n /\ pos' = pos + n /\ used' = used + n
    /\ UNCHANGED <<n, printed, safe>>

Poll ==
    /\ CartCall("poll", "polled",
                start \o send_byte(CtlRead) \o recv_byte \o send_nak \o stop)
    /\ UNCHANGED <<pos, len, used, n, i, printed, safe>>

(* A mutant: an answer that does not come is as good.                      *)
Answered_Always == TRUE
Answered == ~Nak

PollAgain ==
    /\ i + 1 < Polls
    /\ CartCall("polled", "poll", <<>>)
    /\ ~Answered /\ i' = i + 1 /\ n' = 1
    /\ UNCHANGED <<pos, len, used, printed, safe>>

PollsSpent ==
    /\ pc = "polled" /\ i + 1 = Polls
    /\ Exits(1) /\ ~Answered /\ UNCHANGED safe

PageDone ==
    /\ len > 0
    /\ CartCall("polled", "begin", <<>>)
    /\ Answered /\ n' = 0 /\ safe' = used
    /\ UNCHANGED <<pos, len, used, i, printed>>

AllDone ==
    /\ pc = "polled" /\ len = 0
    /\ Exits(0) /\ Answered /\ safe' = used

(* readcart.                                                               *)
ReadAgain ==
    /\ tool = "readcart"
    /\ CartCall("low", "again", restart \o send_byte(CtlRead))
    /\ ~Nak /\ UNCHANGED <<pos, len, used, n, i, printed, safe>>

Located ==
    /\ CartCall("again", "read", <<>>)
    /\ ~Nak /\ UNCHANGED <<pos, len, used, n, i, printed, safe>>

Receive ==
    /\ len > 0
    /\ CartCall("read", "byte",
                recv_byte \o (IF len > 1 THEN send_ack ELSE send_nak))
    /\ UNCHANGED <<pos, len, used, n, i, printed, safe>>

PrintByte ==
    /\ CartCall("byte", "read", <<>>)
    /\ printed' = Append(printed, [k \in 1..Width |-> got[k] # {}])
    /\ len' = len - 1 /\ pos' = pos + 1
    /\ UNCHANGED <<used, n, i, safe>>

AllRead == pc = "read" /\ len = 0 /\ Exits(0) /\ UNCHANGED safe

CartExit ==
    /\ CartCall("exit", "done", <<>>)
    /\ UNCHANGED <<pos, len, used, n, i, printed, safe>>

-----------------------------------------------------------------------------
CartKilled == tool \in CartTool /\ Kill /\ UNCHANGED cartVars

CartAgain ==
    /\ tool \in CartTool /\ more > 0 /\ more' = more - 1
    /\ \E j \in CartJobs : Begins(j.tool) /\ cjob' = j
    /\ old' = rom /\ late' = DOMAIN page /\ safe' = 0 /\ printed' = <<>>
    /\ UNCHANGED <<chipVars, pos, len, used, n, i>>

CartMain ==
    \/ CartConfigure \/ SendDevice \/ SendHigh \/ SendLow \/ Refused
    \/ ReadPage \/ NoPage \/ SendNext \/ PageSent
    \/ Poll \/ PollAgain \/ PollsSpent \/ PageDone \/ AllDone
    \/ ReadAgain \/ Located \/ Receive \/ PrintByte \/ AllRead \/ CartExit

CartNext == CartPin \/ Ready \/ Remove \/ CartMain \/ CartKilled \/ CartAgain

CartInit ==
    /\ cjob \in CartJobs /\ GpioInit({cjob.tool})
    /\ present \in BOOLEAN /\ rom \in CartImages /\ old = rom
    /\ page = None /\ busy = FALSE /\ mode = "idle"
    /\ bits = 0 /\ shift = 0 /\ ptr = 0 /\ pull = FALSE
    /\ pos = 0 /\ len = 0 /\ used = 0 /\ n = 0 /\ i = 0
    /\ printed = <<>> /\ safe = 0 /\ late = {} /\ more = MaxCartRuns

-----------------------------------------------------------------------------
(* The bytes a run of writecart is to write, by cell.                      *)
Wanted ==
    [a \in cjob.start..(cjob.start + Lesser(cjob.length, Len(cjob.input)) - 1) |->
        cjob.input[a - cjob.start + 1]]

(* A run that reports success has written every byte of the file, although *)
(* it cuts the cartridge's power at once; whatever happens to a run, the   *)
(* pages acknowledged so far are right, a byte of the file is there or the *)
(* one before it, and no other cell has changed (save those a killed run   *)
(* left being programmed).                                                 *)
Programmed ==
    tool = "writecart" =>
    /\ \A a \in DOMAIN Wanted :
         \/ rom[a] = Wanted[a]
         \/ /\ rom[a] = old[a] \/ a \in late
            /\ a >= cjob.start + safe /\ ~(pc = "done" /\ n = 0)
    /\ \A a \in DOMAIN rom \ (DOMAIN Wanted \cup late) : rom[a] = old[a]

(* readcart prints the cartridge's bytes, all it was asked for.            *)
DumpExact ==
    tool = "readcart" /\ present =>
    /\ \A k \in DOMAIN printed : \A b \in 1..Width :
         printed[k][b] = (Bit(rom[cjob.start + k - 1], b) = 1)
    /\ pc = "done" /\ n = 0 => Len(printed) = cjob.length
=============================================================================
