----------------------------- MODULE MCEmulator -----------------------------
(* Emulator with time in small units and a screen of four cells.  Jobs are *)
(* one instruction each, over operands at the edges of a byte; programs of *)
(* calls; and a program that draws, with a user at the window.             *)
EXTENDS Emulator, Ops6502

\* 1440x960 as created, smaller, narrow (offset below zero), and larger.
MCSizes == {[width |-> w[1], height |-> w[2]] :
               w \in {<<1440, 960>>, <<700, 500>>, <<700, 960>>,
                      <<1800, 1200>>}}

Edges == {0, 1, 127, 128, 255}

\* Bytes from an address on.
Place(c, bytes) == [d \in c..(c + Len(bytes) - 1) |-> bytes[d - c + 1]]
Overlay(f, g) == [d \in DOMAIN f \cup DOMAIN g |->
                    IF d \in DOMAIN f THEN f[d] ELSE g[d]]

Vector(to) == Place(65532, <<to % 256, to \div 256>>)

Job(image, registers, n) ==
    [image |-> image, registers |-> registers, reads |-> {0},
     starts |-> {[sec |-> 0, nsec |-> 0]}, garbage |-> {Fill},
     turns |-> n, acts |-> 0]

Regs(a, x, y, s, p) == [a |-> a, x |-> x, y |-> y, s |-> s, p |-> p]

\* One instruction in ROM.  Every cell a mode may reach from operand bytes b
\* and 2, with x = 2 and y = 1, holds b; so does the stack.
Reach(b) == {(b + k) % 256 : k \in 0..3} \cup {512 + b + k : k \in 0..3}
            \cup {(257 * b + k) % 65536 : k \in 0..1} \cup 256..263

OneJob(op, b) ==
    Job(Overlay(Overlay(Place(57600, <<op, b, 2>>), Vector(57600)),
                [c \in {d \in Reach(b) : d < RamSize \/ d >= RomBase} |-> b]),
        {Regs(a, 2, 1, 3, p) : a \in Edges, p \in {{}, {FlagC}}}
          \cup {Regs(a, a, a, a, Weights) : a \in Edges}, 1)

Listed == {op \in 0..255 : Ops[op].name # "ni"}

\* main: jsr sub; jsr sub; (an illegal opcode)   sub: pha; jsr leaf; pla; rts
\* leaf: rts.  The stack pointer starts where calls wrap around the page.
CallJob ==
    Job(Overlay(Overlay(Place(768, <<32, 16, 3, 32, 16, 3, 2>>),
                        Place(784, <<72, 32, 32, 3, 104, 96>>)),
                Overlay(Place(800, <<96>>), Vector(768))),
        {Regs(7, 0, 0, s, {}) : s \in {0, 1, 2, 3, 4, 255}}, 20)

\* leaf throws its caller's address away and returns to main.
DropJob ==
    Job(Overlay(Overlay(Place(768, <<32, 16, 3, 2>>),
                        Place(784, <<32, 32, 3, 2>>)),
                Overlay(Place(800, <<104, 104, 96>>), Vector(768))),
        {Regs(7, 0, 0, s, {}) : s \in {0, 3, 255}}, 10)

\* inc $2000; inc $2140; jmp: changes two of the cells of the screen.
DrawJob ==
    [Job(Overlay(Place(768, <<238, 0, 32, 238, 64, 33, 76, 0, 3>>),
                 Vector(768)), {Regs(0, 0, 0, 255, {})}, 7)
     EXCEPT !.acts = 2, !.starts = {[sec |-> 0, nsec |-> 15]}]

\* The same on a screen whose cache starts as anything, and one act.
GarbageJob == [DrawJob EXCEPT !.garbage = {Fill, Fill + 1}, !.acts = 1,
                              !.turns = 6]

\* lda $d003; sta $d002: the input port gives what it likes.
PortJob ==
    [Job(Overlay(Place(768, <<173, 3, 208, 141, 2, 208>>), Vector(768)),
         {Regs(0, 0, 0, 255, {})}, 2) EXCEPT !.reads = {0, 128}]

\* nop, for a long time.
IdleJob ==
    [Job(Vector(768), {Regs(0, 0, 0, 255, {})}, 60)
     EXCEPT !.starts = {[sec |-> 0, nsec |-> n] : n \in {0, 18}}]

MCJobs == {OneJob(op, b) : op \in Listed, b \in Edges}
          \cup {CallJob, DropJob, DrawJob, GarbageJob, PortJob, IdleJob}
=============================================================================
