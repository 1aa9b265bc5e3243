------------------------------ MODULE Emulator ------------------------------
(***************************************************************************)
(* The emulator's main loop (src/emulator/main.c) and its display          *)
(* (src/emulator/xcb.c) around the processor of module Cpu.                *)
(*                                                                         *)
(* A turn of the loop executes one instruction, looks whether the screen   *)
(* is due, and polls for one event; the screen is redrawn in a turn that   *)
(* finds none.  The X server is the environment: it keeps what the window  *)
(* shows, blanks it when it is uncovered or resized, and sends events in   *)
(* order, which reach the emulator when they like.                         *)
(*                                                                         *)
(* A cell of the screen is the row of eight dots one byte of memory sets;  *)
(* drawing it copies a stripe of the pixmap, which holds all 256 of them.  *)
(***************************************************************************)
EXTENDS Cpu, Sequences, FiniteSets

CONSTANTS
    RedrawNs,   \* nanoseconds between redraws, REDRAW_NS = 14593035
    Columns,    \* columns of the screen, 0..39
    Lines,      \* lines of the screen, 0..199
    Sizes,      \* widths and heights the window may be given
    Keys,       \* what gui.keymap gives for the keys: positions, or NoKey
    Jobs        \* what the computer starts with, and bounds (MCEmulator)

CreatedSize == [width |-> 1440, height |-> 960]
NoKey == 255
KeyQ == 17

ASSUME EmulatorAssumption ==
    /\ RedrawNs \in 1..Second
    /\ Columns \subseteq 0..39 /\ Lines \subseteq 0..199
    /\ Sizes \subseteq [width: Nat, height: Nat]
    /\ Keys \subseteq 0..63 \cup {NoKey}

ASSUME JobsAssumption ==
    \A job \in Jobs :
        /\ \A c \in DOMAIN job.image : /\ c \in Addr
                                       /\ c < RamSize \/ c >= RomBase
                                       /\ job.image[c] \in Byte
        /\ job.registers \subseteq [a: Byte, x: Byte, y: Byte, s: Byte,
                                   p: SUBSET Weights]
        /\ job.reads \subseteq Byte
        /\ job.starts \subseteq [sec: Nat, nsec: 0..(Second - 1)]

VARIABLES
    at,        \* next in the turn: "step" an instruction, or "poll"
    redraw,    \* is the screen due?
    next,      \* next_redraw, as sec and nsec
    held,      \* positions whose bit is zero in keyboard[]
    gui,       \* scale and offsets of the picture
    pixmap,    \* scale the pixmap was created for, 0 before
    oldgfx,    \* bytes drawn last, by their place in memory
    window,    \* the server: size of the window
    shown,     \* the server: what it shows at each cell
    events,    \* the server: sent and not polled yet
    drawn,     \* history: time of the last update_display
    reads,     \* what I/O addresses may give
    turns,     \* bound: instructions left
    acts       \* bound: acts of the user left

guiVars == <<gui, pixmap, oldgfx, shown>>
loopVars == <<at, redraw, next, held, drawn, turns>>
serverVars == <<window, events, acts>>
vars == <<cpuVars, guiVars, loopVars, serverVars, reads>>

Cells == Columns \X Lines
Blank == [kind |-> "blank"]

(* The cell's byte, counted from the start of video memory.                *)
Idx(c) == 320 * (c[2] \div 8) + 8 * c[1] + (c[2] % 8)
Indices == {Idx(c) : c \in Cells}

Gfx(i) == Load(8192 + i)

-----------------------------------------------------------------------------
(* The picture.  The offsets are computed with the scale the height alone  *)
(* allows; where that makes them negative they wrap as unsigned and again  *)
(* as the server's 16-bit coordinates, which gives the floor of the half.  *)
Least(m, n) == IF m < n THEN m ELSE n

Geometry(size) ==
    LET scale == size.height \div 220 IN
    [scale |-> Least(scale, size.width \div 340),
     xoffset |-> (size.width - scale * 320) \div 2,
     yoffset |-> (size.height - scale * 200) \div 2]

(* The stripe is whole if the pixmap is large enough for it.               *)
Tile(g, pm, byte) ==
    [kind |-> "tile", at |-> g, byte |-> byte, whole |-> g.scale <= pm]

(* Every resize asks for a pixmap of the same name, which the server       *)
(* refuses, with an error event, once it has one.                          *)
GeneratedPixmap(g) == IF pixmap = 0 THEN g.scale ELSE pixmap

Cleared == [c \in Cells |-> Blank]

Noise(n) == [k \in 1..n |-> [kind |-> "noise"]]

(* update_display, of a window that shows was before: the server reports   *)
(* each copy by an event the loop does nothing with.                       *)
(* A mutant: a forced redraw leaves the cache alone.                       *)
UpdateDisplay_Uncached(force, was, queue) ==
    LET copied == {c \in Cells : force \/ oldgfx[Idx(c)] # Gfx(Idx(c))} IN
    /\ shown' = [c \in Cells |-> IF c \in copied
                                 THEN Tile(gui', pixmap', Gfx(Idx(c)))
                                 ELSE was[c]]
    /\ oldgfx' = IF force THEN oldgfx ELSE [i \in Indices |-> Gfx(i)]
    /\ events' = queue \o Noise(Cardinality(copied))
    /\ drawn' = Now
    /\ redraw' = FALSE
UpdateDisplay(force, was, queue) ==
    LET copied == {c \in Cells : force \/ oldgfx[Idx(c)] # Gfx(Idx(c))} IN
    /\ shown' = [c \in Cells |-> IF c \in copied
                                 THEN Tile(gui', pixmap', Gfx(Idx(c)))
                                 ELSE was[c]]
    /\ oldgfx' = [i \in Indices |-> Gfx(i)]
    /\ events' = queue \o Noise(Cardinality(copied))
    /\ drawn' = Now
    /\ redraw' = FALSE

-----------------------------------------------------------------------------
(* A mutant: the nanoseconds count in a later second, too.                 *)
Later_Both(t, d) == t.sec >= d.sec /\ t.nsec > d.nsec
Later(t, d) == /\ t.sec >= d.sec
               /\ t.sec > d.sec \/ t.nsec > d.nsec

Advanced(d) ==
    IF d.nsec + RedrawNs >= Second
    THEN [sec |-> d.sec + 1, nsec |-> d.nsec + RedrawNs - Second]
    ELSE [d EXCEPT !.nsec = @ + RedrawNs]

Step ==
    /\ at = "step" /\ turns > 0
    /\ step_6502
    /\ IF Later(clock', next)
       THEN redraw' = TRUE /\ next' = Advanced(next)
       ELSE UNCHANGED <<redraw, next>>
    /\ io' \in [{0, 1} -> reads]
    /\ at' = "poll" /\ turns' = turns - 1
    /\ UNCHANGED <<held, drawn, guiVars, serverVars, reads>>

Polling == /\ at = "poll" /\ running
           /\ at' = "step"
           /\ UNCHANGED <<cpu, mem, io, clock, cycles, calls, began,
                          next, turns, window, acts, reads>>

(* No event has reached the emulator.                                      *)
PollNothing ==
    /\ Polling
    /\ UNCHANGED <<gui, pixmap, held, running>>
    /\ IF redraw THEN UpdateDisplay(FALSE, shown, events)
                 ELSE UNCHANGED <<redraw, drawn, shown, oldgfx, events>>

Polled(kind) == Polling /\ events # <<>> /\ Head(events).kind = kind

(* A mutant: only what the cache does not know.                            *)
Expose_Cached ==
    /\ Polled("expose")
    /\ UNCHANGED <<gui, pixmap, held, running>>
    /\ UpdateDisplay(FALSE, shown, Tail(events))
Expose ==
    /\ Polled("expose")
    /\ UNCHANGED <<gui, pixmap, held, running>>
    /\ UpdateDisplay(TRUE, shown, Tail(events))

Configure ==
    /\ Polled("configure")
    /\ gui' = Geometry(Head(events).size)
    /\ pixmap' = GeneratedPixmap(gui')
    /\ UpdateDisplay(TRUE, Cleared, Tail(events) \o Noise(1))
    /\ UNCHANGED <<held, running>>

Quiet == /\ events' = Tail(events)
         /\ UNCHANGED <<redraw, drawn, guiVars>>

(* With mod1 a key only serves to quit.                                    *)
KeyPress ==
    /\ Polled("press") /\ Quiet
    /\ LET pos == Head(events).pos  mod1 == Head(events).mod1 IN
       /\ held' = IF pos # NoKey /\ ~mod1 THEN held \cup {pos} ELSE held
       /\ running' = ~(mod1 /\ pos = KeyQ)

KeyRelease ==
    /\ Polled("release") /\ Quiet
    /\ held' = held \ {Head(events).pos}
    /\ UNCHANGED running

ClientMessage == Polled("close") /\ Quiet /\ running' = FALSE /\ UNCHANGED held

OtherEvent == Polled("noise") /\ Quiet /\ UNCHANGED <<held, running>>

Loop == \/ Step \/ PollNothing \/ Expose \/ Configure
        \/ KeyPress \/ KeyRelease \/ ClientMessage \/ OtherEvent

-----------------------------------------------------------------------------
(* The user, by way of the server.                                         *)
Acting == /\ running /\ acts > 0 /\ acts' = acts - 1
          /\ UNCHANGED <<cpuVars, loopVars, gui, pixmap, oldgfx, reads>>

(* Part of the window was covered and comes to light.                      *)
Uncover ==
    /\ Acting
    /\ \E lost \in SUBSET Cells \ {{}} :
         shown' = [c \in Cells |-> IF c \in lost THEN Blank ELSE shown[c]]
    /\ events' = Append(events, [kind |-> "expose"])
    /\ UNCHANGED window

ResizeWindow ==
    /\ Acting
    /\ \E size \in Sizes \ {window} :
         /\ window' = size
         /\ events' = events \o <<[kind |-> "configure", size |-> size],
                                  [kind |-> "expose"]>>
    /\ shown' = Cleared

UseKey ==
    /\ Acting
    /\ \E pos \in Keys, mod1 \in BOOLEAN :
         events' \in {Append(events, [kind |-> "press", pos |-> pos,
                                      mod1 |-> mod1]),
                      Append(events, [kind |-> "release", pos |-> pos])}
    /\ UNCHANGED <<window, shown>>

CloseWindow ==
    /\ Acting
    /\ events' = Append(events, [kind |-> "close"])
    /\ UNCHANGED <<window, shown>>

User == Uncover \/ ResizeWindow \/ UseKey \/ CloseWindow

(* main up to the loop, init_6502 and reset; oldgfx is not initialized.    *)
Init ==
    \E job \in Jobs : \E start \in job.starts :
        /\ reads = job.reads
        /\ CpuInit(job.image, job.registers, reads, start)
        /\ at = "step" /\ redraw = TRUE /\ next = start /\ held = {}
        /\ window = CreatedSize
        /\ gui = Geometry(window) /\ pixmap = gui.scale
        /\ oldgfx \in [Indices -> job.garbage]
        /\ shown = Cleared
        /\ events = <<[kind |-> "expose"]>>
        /\ drawn = Now
        /\ turns = job.turns /\ acts = job.acts

Next == Loop \/ User

Spec == Init /\ [][Next]_vars

-----------------------------------------------------------------------------
(* Properties.                                                             *)
(* A screen that is not due was drawn at most a period ago: the deadlines, *)
(* compared and carried field by field, neither stall nor run ahead.       *)
ScreenFresh == ~redraw => Now - drawn <= RedrawNs

WindowEvents == {"expose", "configure"}
Settled == \A k \in 1..Len(events) : events[k].kind \notin WindowEvents

Shows(bytes) ==
    \A c \in Cells :
        shown[c] = [kind |-> "tile", at |-> Geometry(window),
                    byte |-> bytes[Idx(c)], whole |-> TRUE]

(* The cache tells the truth: unless an event about the window is under    *)
(* way, the window shows, at the place its size asks for, exactly the      *)
(* bytes update_display remembers to have drawn; nothing else could keep   *)
(* an incremental redraw from leaving an old picture.  (A picture larger   *)
(* than the first is cut: the pixmap keeps its first size.)                *)
PictureKept == Settled /\ gui.scale <= pixmap => Shows(oldgfx)

(* A redraw that was due leaves the window showing video memory.           *)
RedrawShowsMemory ==
    [][redraw /\ ~redraw' /\ Settled' /\ gui'.scale <= pixmap'
       => Shows([i \in Indices |-> Gfx(i)])']_vars

(* The flags are those of unsigned and signed arithmetic (Cpu).            *)
FlagsTell == [][at = "step" /\ at' = "poll"
                => FlagsToldBy(Load(cpu.pc))]_vars

(* Every return goes behind its call (Cpu).                                *)
ReturnsToCaller == [][at = "step" /\ at' = "poll" => ReturnTold]_vars
=============================================================================
