-------------------------------- MODULE Boot --------------------------------
(***************************************************************************)
(* The ROM from the reset to the program on the cartridge (_start, try_cart*)
(* and cloaded of rom/rom.s): it tries memory, shows how much there is,    *)
(* loads the cartridge's header, checks it, loads the program the header   *)
(* names and jumps to it.  It works on the memory of CartXfer, by loadcart,*)
(* and on the screen of Screen, by the calls of its routines.  Video memory*)
(* is part of both: ram has what is loaded there and what clearing leaves, *)
(* Screen what the boot draws.  Only the boot's last mark, which it makes  *)
(* when a program may already lie under it, is in both; no other character *)
(* of the boot's is where its header goes.                                 *)
(***************************************************************************)
EXTENDS CartXfer, Screen

CONSTANTS
    Checked,      \* $0220, from where memory is checked
    Top,          \* $c000, and up to where
    Pattern,      \* $aa
    VideoRam,     \* $2000..$3f3f
    MarkAt,       \* $2007
    HeaderAt,     \* $2a00
    HeaderLoad,   \* $1400
    Magic,        \* $48, $4d, 0, 1
    DeadCells     \* sets of cells that may be broken

ASSUME BootAssumption ==
    /\ Checked \in Ram /\ Checked >= 2 * B /\ Top \in Ram /\ Top % B = 0
    /\ Checked < Top
    /\ Pattern \in Bytes \ {0} /\ VideoRam \subseteq Ram /\ MarkAt \in VideoRam
    /\ HeaderAt \in Ram /\ HeaderAt + 16 <= B * B /\ HeaderLoad \in Ram
    /\ Magic \in Seq(Bytes) /\ Len(Magic) = 4
    /\ DeadCells \subseteq SUBSET Ram

VARIABLES
    boot,     \* where the boot is; "program": it is over long since
    spot,     \* the cell the memory check is at
    ramtop,   \* RAMTOP
    tries,    \* $c0, counting tries
    entry,    \* $c0, $c1, the program's entry point
    dead      \* cells that do not keep what the memory check stores

bootVars == <<boot, spot, ramtop, tries, entry, dead>>

Stored(c, v) == IF c \in dead THEN ram ELSE [ram EXCEPT ![c] = v]

-----------------------------------------------------------------------------
(* The memory check.  It fills memory from the top down, page by page; the *)
(* cell at offset 0 of a page is written after its loop, without a look at *)
(* $0220, which is not to hold the pattern beforehand.                     *)
Memory == UNCHANGED <<deviceVars, pc, registers, callVars, screenVars,
                      tries, entry, dead>>

Begin ==
    /\ boot = "reset" /\ boot' = "fill" /\ Memory /\ UNCHANGED <<spot, ramtop>>
    /\ ram' = Stored(Checked, 0)

Fill ==
    /\ boot = "fill" /\ Memory /\ UNCHANGED ramtop
    /\ ram' = Stored(spot, Pattern)
    /\ IF IF spot % B = 0 THEN spot = B ELSE ram'[Checked] = Pattern
       THEN boot' = "check" /\ spot' = Checked
       ELSE spot' = spot - 1 /\ UNCHANGED boot

(* A mutant: the second pattern is not read back.                          *)
Holds_Once == ram[spot] = Pattern
Holds == ram[spot] = Pattern /\ spot \notin dead

Check ==
    /\ boot = "check" /\ Memory
    /\ IF ram[spot] = Pattern THEN ram' = Stored(spot, B - 1 - Pattern)
                              ELSE UNCHANGED ram
    /\ IF Holds /\ spot + 1 < Top
       THEN spot' = spot + 1 /\ UNCHANGED <<boot, ramtop>>
       ELSE /\ boot' = "cls"
            /\ ramtop' = IF Holds THEN spot ELSE spot - 1
            /\ UNCHANGED spot

-----------------------------------------------------------------------------
(* What the boot shows.  Each step is a call of a screen routine, made     *)
(* when the one before has returned.                                       *)
Step(from, to) ==
    /\ boot = from /\ boot' = to /\ text = <<>>
    /\ UNCHANGED <<deviceVars, pc, registers, callVars,
                   session, left, last, spot, ramtop, dead>>

Says(from, to, t) ==
    /\ Step(from, to) /\ Shows(t)
    /\ UNCHANGED <<ram, tries, entry>>

ClearScreen ==
    /\ Step("cls", "setcur") /\ Draws(Cls(screen))
    /\ ram' = [c \in Ram |-> IF c \in VideoRam \ dead THEN 0 ELSE ram[c]]
    /\ UNCHANGED <<tries, entry>>

SecondLine ==
    /\ Step("setcur", "mark") /\ Draws(Setcur(screen, 1, 0))
    /\ UNCHANGED <<ram, tries, entry>>

Marked(c) == [screen EXCEPT !.cells = Drawn(@, c, Mark)]

MarkCorner ==
    /\ Step("mark", "size") /\ Draws(Marked(999))
    /\ UNCHANGED <<ram, tries, entry>>

SaySize == Says("size", "bytes", Putuint(ramtop + 1))

\* " bytes OK"
BytesText == <<32, 98, 121, 116, 101, 115, 32, 79, 75>>
SayBytes == Says("bytes", "newline", BytesText)

NextLine ==
    /\ Step("newline", "try") /\ Draws(Newline(screen))
    /\ tries' = 0 /\ UNCHANGED <<ram, entry>>

-----------------------------------------------------------------------------
(* The cartridge.                                                          *)
Loads(from, to, where, count, target) ==
    /\ boot = from /\ boot' = to
    /\ Enter([op |-> "load", loc |-> where, n |-> count, addr |-> target])
    /\ UNCHANGED <<calls, screenVars, spot, ramtop, tries, dead>>

TryCart == Loads("try", "tried", 0, HeaderLoad, HeaderAt) /\ UNCHANGED entry

(* A mutant: the counter is set anew before each try.                      *)
TriesLeft_Anew == Dec(0)
TriesLeft == Dec(tries)

(* A try that was acknowledged, or the last of 256.                        *)
Tried ==
    /\ boot = "tried" /\ pc = "ready"
    /\ tries' = IF result = 0 THEN tries ELSE TriesLeft
    /\ boot' = IF result = 0 \/ tries' = 0 THEN "header" ELSE "try"
    /\ UNCHANGED <<deviceVars, pc, registers, callVars, ram, screenVars,
                   spot, ramtop, entry, dead>>

HeaderByte(k) == ram[HeaderAt + k]
HeaderWord(k) == HeaderByte(k) + B * HeaderByte(k + 1)

GoodHeader == \A k \in 0..3 : HeaderByte(k) = Magic[k + 1]

LoadProgram ==
    /\ GoodHeader
    /\ Loads("header", "loading", HeaderWord(8), HeaderWord(10), HeaderWord(12))
    /\ entry' = HeaderWord(4)

\* "Could not load cartridge"
FailText == <<67, 111, 117, 108, 100, 32, 110, 111, 116, 32, 108, 111, 97, 100,
              32, 99, 97, 114, 116, 114, 105, 100, 103, 101>>

(* A mutant: the program's load may fail.                                  *)
LoadFailed_Never == FALSE
LoadFailed == boot = "loading" /\ pc = "ready" /\ result # 0

Fail ==
    /\ (boot = "header" /\ ~GoodHeader) \/ LoadFailed
    /\ Says(boot, "failed", FailText)

(* The mark is of the check's first pattern, and over the program if that  *)
(* has been loaded there.                                                  *)
Run ==
    /\ boot = "loading" /\ pc = "ready" /\ ~LoadFailed
    /\ Step("loading", "run") /\ Draws(Marked(0))
    /\ ram' = Stored(MarkAt, Pattern)
    /\ UNCHANGED <<tries, entry>>

-----------------------------------------------------------------------------
BootStep ==
    \/ Begin \/ Fill \/ Check
    \/ ClearScreen \/ SecondLine \/ MarkCorner \/ SaySize \/ SayBytes \/ NextLine
    \/ TryCart \/ Tried \/ LoadProgram \/ Fail \/ Run

(* A reset finds memory, and what the routines use, as they are.           *)
BootInit ==
    /\ boot = "reset" /\ spot = Top - 1
    /\ screen = [cells |-> [c \in Video |-> Junk], at |-> 0]
    /\ dead \in DeadCells

-----------------------------------------------------------------------------
(* RAMTOP is the last cell below the first that does not work.             *)
RamTopExact ==
    boot \notin {"reset", "fill", "check", "program"} =>
        /\ \A c \in Checked..ramtop : c \notin dead
        /\ ramtop + 1 \in dead \cup {Top}

(* The header's word at k, on the cartridge.                               *)
OnCartridge(k) == mem[k % Size] + B * mem[(k + 1) % Size]

(* The limits of the boot: the header's 16 bytes are on the cartridge and  *)
(* are loaded, and a program that a header names ends where memory does,   *)
(* or before, and is not loaded over the cells the boot itself works in.   *)
HeadersFit ==
    /\ HeaderLoad >= 16 /\ Size >= 16
    /\ Spares(HeaderAt, HeaderLoad)
    /\ \A s \in Sessions : s.reset => \A image \in s.images :
         LET address == image[12] + B * image[13]
             length == image[10] + B * image[11] IN
         (\A k \in 0..3 : image[k] = Magic[k + 1]) =>
            address + length <= B * B /\ Spares(address, length)

(* Beyond them the code does something that is not modelled.               *)
ASSUME HeadersAssumption == HeadersFit

(* The boot runs the program if and only if the cartridge's header is one, *)
(* whatever memory held before; it runs it where the header says, with     *)
(* every byte the header asks for in its place, but for the one at $2007,  *)
(* where the boot has put its mark.  (Bytes read after the cartridge has   *)
(* been pulled out are ones; what is loaded into a broken cell is nobody's *)
(* guess; what the program then calls is its own affair.)                  *)
BootTells ==
    /\ boot \in {"run", "failed"} /\ present /\ calls = 0 =>
        (boot = "run" <=> \A k \in 0..3 : mem[k] = Magic[k + 1])
    /\ boot = "run" /\ calls = 0 /\ last = <<>> =>
        /\ entry = OnCartridge(4)
        /\ MarkAt \notin dead => ram[MarkAt] = Pattern
        /\ \A k \in 0..(OnCartridge(10) - 1) :
             LET c == OnCartridge(12) + k IN
             \/ ram[c] = mem[(OnCartridge(8) + k) % Size]
             \/ ~present /\ ram[c] = B - 1
             \/ c \in dead \cup {MarkAt}

(* docs/programming.txt:91-96 says what the boot makes of a header: it     *)
(* loads that many bytes, there, and keeps the size of the cartridge's     *)
(* pages for savecart, in CARTBSZ.  (The cell under the boot's mark is left*)
(* out.)                                                                   *)
HeaderObeyed ==
    boot = "run" /\ present =>
        /\ \A c \in Ram \ {MarkAt} :
             ram[c] =
               IF c \in OnCartridge(12)..(OnCartridge(12) + OnCartridge(10) - 1)
               THEN mem[(OnCartridge(8) + c - OnCartridge(12)) % Size]
               ELSE ram0[c]
        /\ bsz = OnCartridge(6)

(* The boot comes to an end, with or without a cartridge.                  *)
BootDecides == boot = "reset" ~> boot \in {"run", "failed"}
=============================================================================
