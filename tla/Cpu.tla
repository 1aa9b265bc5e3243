-------------------------------- MODULE Cpu --------------------------------
(***************************************************************************)
(* The emulator's processor (src/emulator/hm1000.c): registers, memory,    *)
(* the clock it keeps in step with real time, and one action for each      *)
(* family of the instructions.  A byte is a number; the status register is *)
(* the set of its bits that are one, by their weights.                     *)
(*                                                                         *)
(* Memory is sparse: RAM is filled at random when the emulator starts, and *)
(* a cell nobody has given a value holds Fill.  Reading an I/O address may *)
(* give any byte and writing one does nothing the processor can see: the   *)
(* devices there are modelled by Keyboard and TwiSlave.                    *)
(***************************************************************************)
EXTENDS Integers

CONSTANTS
    Ops,        \* the table of instructions, by opcode
    Fill,       \* what an unlisted cell of memory holds
    TickStep,   \* cycles in a step of time, TIME_STEP_TICKS = 32
    StepNs,     \* nanoseconds in a step of time, TIME_STEP_NS = 17879
    Second      \* nanoseconds in a second, 1000000000

Byte == 0..255
Addr == 0..65535
RamSize == 49152    \* 0xc000
RomBase == 57344    \* 0xe000

(* The bits of the status register.  Bit 5 has no name in the code.        *)
FlagC == 1
FlagZ == 2
FlagI == 4
FlagD == 8
FlagB == 16
FlagV == 64
FlagN == 128
Weights == {1, 2, 4, 8, 16, 32, 64, 128}

ASSUME CpuAssumption ==
    /\ Ops \in [Byte -> [name: STRING, cycles: 1..7]]
    /\ Fill \in Byte
    /\ TickStep \in Nat \ {0} /\ StepNs \in Nat \ {0} /\ Second \in Nat \ {0}

VARIABLES
    cpu,       \* the registers: a, x, y, s, p and pc
    mem,       \* the cells of RAM and ROM that have been given a value
    io,        \* what reading an even, an odd I/O address gives now
    clock,     \* last_sync, as sec and nsec, and the ticks since
    running,   \* FALSE once an opcode without an instruction was fetched
    cycles,    \* history: all cycles counted since power-on
    calls,     \* history: return address by the stack pointer jsr left
    began      \* history: time of power-on in nanoseconds

cpuVars == <<cpu, mem, io, clock, running, cycles, calls, began>>

Registers ==
    [a: Byte, x: Byte, y: Byte, s: Byte, p: SUBSET Weights, pc: Addr]

-----------------------------------------------------------------------------
(* Bytes as sets of bits, for what the code does with &, | and ^.          *)
Bits(v) == {w \in Weights : (v \div w) % 2 = 1}

Weight(ws, w) == IF w \in ws THEN w ELSE 0

Val(ws) == Weight(ws, 1) + Weight(ws, 2) + Weight(ws, 4) + Weight(ws, 8)
           + Weight(ws, 16) + Weight(ws, 32) + Weight(ws, 64)
           + Weight(ws, 128)

And(u, v) == Val(Bits(u) \cap Bits(v))
Or(u, v) == Val(Bits(u) \cup Bits(v))
Xor(u, v) == Val((Bits(u) \cup Bits(v)) \ (Bits(u) \cap Bits(v)))

High(v) == v >= 128

With(ps, flag, on) == IF on THEN ps \cup {flag} ELSE ps \ {flag}

CarryIn == IF FlagC \in cpu.p THEN 1 ELSE 0

(* The status register after set_nz(v), and after set_nvz(u, v, r).        *)
NZ(ps, v) == With(With(ps, FlagN, High(v)), FlagZ, v = 0)

(* A mutant: the sum of the signs instead of the carry into them.         *)
NVZ_Same(ps, u, v, r) ==
    With(NZ(ps, r), FlagV, High(u) # High(r) /\ High(u) = High(v))
NVZ(ps, u, v, r) ==
    With(NZ(ps, r), FlagV, High(u) # High(r) /\ High(u) # High(v))

-----------------------------------------------------------------------------
(* Memory.                                                                 *)
Read(m, c) ==
    IF c < RamSize \/ c >= RomBase
    THEN IF c \in DOMAIN m THEN m[c] ELSE Fill
    ELSE io[c % 2]

ReadWord(m, c) == Read(m, c) + 256 * Read(m, (c + 1) % 65536)

Load(c) == Read(mem, c)
LoadWord(c) == ReadWord(mem, c)

Stored(m, c, v) ==
    IF c < RamSize
    THEN [d \in DOMAIN m \cup {c} |-> IF d = c THEN v ELSE m[d]]
    ELSE m

(* Memory after push and push_u16 with the stack pointer at s.             *)
Pushed(m, s, v) == Stored(m, 256 + s, v)
PushedWord(m, s, v) ==
    Pushed(Pushed(m, s, v \div 256), (s - 1) % 256, v % 256)

(* The k-th byte the stack returns, counting from one.                     *)
(* A mutant: the stack pointer is widened before it is counted.           *)
Pulled_Linear(k) == Load(256 + cpu.s + k)
Pulled(k) == Load(256 + ((cpu.s + k) % 256))

-----------------------------------------------------------------------------
(* Addressing modes: what the mode routines return, which read their       *)
(* operands behind the opcode, and which of them an opcode is given.       *)
At(k) == (cpu.pc + k) % 65536

Operand(mode) ==
    CASE mode = "imm"  -> At(1)
      [] mode = "zp"   -> Load(At(1))
      [] mode = "zpx"  -> (Load(At(1)) + cpu.x) % 256
      [] mode = "zpy"  -> (Load(At(1)) + cpu.y) % 256
      [] mode = "abs"  -> LoadWord(At(1))
      [] mode = "absx" -> (LoadWord(At(1)) + cpu.x) % 65536
      [] mode = "absy" -> (LoadWord(At(1)) + cpu.y) % 65536
      [] mode = "ix"   -> LoadWord((Load(At(1)) + cpu.x) % 256)
      [] OTHER         -> (LoadWord(Load(At(1))) + cpu.y) % 65536   \* iy

Behind(mode) == IF mode \in {"abs", "absx", "absy"} THEN At(3) ELSE At(2)

ModesA ==
    <<"abs", "ix",   "noi", "noi", "zp",  "zp",   "zp",   "zp",
      "noi", "imm",  "noi", "noi", "abs", "abs",  "abs",  "noi",
      "noi", "iy",   "zpi", "noi", "zp",  "zpx",  "zpx",  "zp",
      "noi", "absy", "noi", "noi", "abs", "absx", "absx", "noi">>
ModesX == <<"imm", "zp", "noi", "abs", "noi", "zpy", "noi", "absx">>
ModesY == <<"imm", "zp", "noi", "abs", "noi", "zpx", "noi", "absx">>
ModesInc == <<"zp", "abs", "zpx", "absx">>

Mode(op) ==
    LET name == Ops[op].name IN
    CASE name \in {"ldx", "stx", "cpx"} -> ModesX[((op % 32) \div 4) + 1]
      [] name \in {"ldy", "sty", "cpy"} -> ModesY[((op % 32) \div 4) + 1]
      [] name \in {"inc", "dec"} -> ModesInc[((op \div 8) % 4) + 1]
      [] OTHER -> ModesA[(op % 32) + 1]

(* The cell an instruction works on.  lsr keeps its address in a uint8_t.  *)
Cell(op) == IF Ops[op].name = "lsr" THEN Operand(Mode(op)) % 256
            ELSE Operand(Mode(op))

-----------------------------------------------------------------------------
(* The instructions.  Each is an alternative of its family; op is the      *)
(* opcode at cpu.pc.                                                       *)
Is(op, name) == Ops[op].name = name

ToA(v, ps, n) == /\ cpu' = [cpu EXCEPT !.a = v, !.p = NZ(ps, v), !.pc = n]
                 /\ UNCHANGED mem
ToX(v, n) == /\ cpu' = [cpu EXCEPT !.x = v, !.p = NZ(@, v), !.pc = n]
             /\ UNCHANGED mem
ToY(v, n) == /\ cpu' = [cpu EXCEPT !.y = v, !.p = NZ(@, v), !.pc = n]
             /\ UNCHANGED mem

SetP(ps, n) == cpu' = [cpu EXCEPT !.p = ps, !.pc = n] /\ UNCHANGED mem

(* Accumulator and carry after adding v: r is the nine-bit result, w what  *)
(* set_nvz is given as the second operand.                                 *)
Sum(r, w, n) ==
    LET c == r % 256 IN
    /\ cpu' = [cpu EXCEPT !.a = c, !.pc = n,
                 !.p = NVZ(With(@, FlagC, r >= 256), cpu.a, w, c)]
    /\ UNCHANGED mem

Compare(u, v, n) ==
    LET r == u + 256 - v IN
    SetP(NZ(With(cpu.p, FlagC, r >= 256), r % 256), n)

Arithmetic(op) ==
    LET v == Load(Cell(op))  n == Behind(Mode(op)) IN
    \/ Is(op, "adc") /\ Sum(cpu.a + v + CarryIn, 255 - v, n)
    \/ Is(op, "sbc") /\ Sum(cpu.a + 255 + CarryIn - v, v, n)
    \/ Is(op, "cmp") /\ Compare(cpu.a, v, n)
    \/ Is(op, "cpx") /\ Compare(cpu.x, v, n)
    \/ Is(op, "cpy") /\ Compare(cpu.y, v, n)

LoadLogic(op) ==
    LET v == Load(Cell(op))  n == Behind(Mode(op)) IN
    \/ Is(op, "lda") /\ ToA(v, cpu.p, n)
    \/ Is(op, "ldx") /\ ToX(v, n)
    \/ Is(op, "ldy") /\ ToY(v, n)
    \/ Is(op, "and") /\ ToA(And(cpu.a, v), cpu.p, n)
    \/ Is(op, "ora") /\ ToA(Or(cpu.a, v), cpu.p, n)
    \/ Is(op, "eor") /\ ToA(Xor(cpu.a, v), cpu.p, n)
    \/ /\ Is(op, "bit")
       /\ SetP(With((cpu.p \ {FlagN, FlagV, FlagZ})
                      \cup (Bits(v) \cap {FlagN, FlagV}),
                    FlagZ, Bits(cpu.a) \cap Bits(v) = {}), n)

Store(op, v) == /\ mem' = Stored(mem, Cell(op), v)
                /\ cpu' = [cpu EXCEPT !.pc = Behind(Mode(op))]

StoreRegister(op) ==
    \/ Is(op, "sta") /\ Store(op, cpu.a)
    \/ Is(op, "stx") /\ Store(op, cpu.x)
    \/ Is(op, "sty") /\ Store(op, cpu.y)

(* The result of a shift or rotation of v, and the bit it moves out.       *)
ShiftedLeft(v, low) == (2 * v + low) % 256
ShiftedRight(v, high) == (v \div 2) + 128 * high

ToCell(op, r, ps) ==
    /\ mem' = Stored(mem, Cell(op), r)
    /\ cpu' = [cpu EXCEPT !.p = NZ(ps, r), !.pc = Behind(Mode(op))]

ModifyMemory(op) ==
    LET v == Load(Cell(op))
        Left == With(cpu.p, FlagC, High(v))
        Right == With(cpu.p, FlagC, v % 2 = 1) IN
    \/ Is(op, "asl") /\ ToCell(op, ShiftedLeft(v, 0), Left)
    \/ Is(op, "rol") /\ ToCell(op, ShiftedLeft(v, CarryIn), Left)
    \/ Is(op, "lsr") /\ ToCell(op, ShiftedRight(v, 0), Right)
    \/ Is(op, "ror") /\ ToCell(op, ShiftedRight(v, CarryIn), Right)
    \/ Is(op, "inc") /\ ToCell(op, (v + 1) % 256, cpu.p)
    \/ Is(op, "dec") /\ ToCell(op, (v - 1) % 256, cpu.p)

ModifyRegister(op) ==
    LET Left == With(cpu.p, FlagC, High(cpu.a))
        Right == With(cpu.p, FlagC, cpu.a % 2 = 1) IN
    \/ Is(op, "asla") /\ ToA(ShiftedLeft(cpu.a, 0), Left, At(1))
    \/ Is(op, "rola") /\ ToA(ShiftedLeft(cpu.a, CarryIn), Left, At(1))
    \/ Is(op, "lsra") /\ ToA(ShiftedRight(cpu.a, 0), Right, At(1))
    \/ Is(op, "rora") /\ ToA(ShiftedRight(cpu.a, CarryIn), Right, At(1))
    \/ Is(op, "inx") /\ ToX((cpu.x + 1) % 256, At(1))
    \/ Is(op, "dex") /\ ToX((cpu.x - 1) % 256, At(1))
    \/ Is(op, "iny") /\ ToY((cpu.y + 1) % 256, At(1))
    \/ Is(op, "dey") /\ ToY((cpu.y - 1) % 256, At(1))
    \/ Is(op, "tax") /\ ToX(cpu.a, At(1))
    \/ Is(op, "tay") /\ ToY(cpu.a, At(1))
    \/ Is(op, "tsx") /\ ToX(cpu.s, At(1))
    \/ Is(op, "txa") /\ ToA(cpu.x, cpu.p, At(1))
    \/ Is(op, "tya") /\ ToA(cpu.y, cpu.p, At(1))
    \/ /\ Is(op, "txs")
       /\ cpu' = [cpu EXCEPT !.s = cpu.x, !.pc = At(1)] /\ UNCHANGED mem

SetFlags(op) ==
    \/ Is(op, "clc") /\ SetP(cpu.p \ {FlagC}, At(1))
    \/ Is(op, "cld") /\ SetP(cpu.p \ {FlagD}, At(1))
    \/ Is(op, "cli") /\ SetP(cpu.p \ {FlagI}, At(1))
    \/ Is(op, "clv") /\ SetP(cpu.p \ {FlagV}, At(1))
    \/ Is(op, "sec") /\ SetP(cpu.p \cup {FlagC}, At(1))
    \/ Is(op, "sed") /\ SetP(cpu.p \cup {FlagD}, At(1))
    \/ Is(op, "sei") /\ SetP(cpu.p \cup {FlagI}, At(1))
    \/ Is(op, "nop") /\ SetP(cpu.p, At(1))

(* The offset counts from behind the instruction and is signed.            *)
On(taken) ==
    LET off == Load(At(1))
        target == (cpu.pc + 2 + IF High(off) THEN off - 256 ELSE off) % 65536
    IN SetP(cpu.p, IF taken THEN target ELSE At(2))

Branch(op) ==
    \/ Is(op, "bcc") /\ On(FlagC \notin cpu.p)
    \/ Is(op, "bcs") /\ On(FlagC \in cpu.p)
    \/ Is(op, "bne") /\ On(FlagZ \notin cpu.p)
    \/ Is(op, "beq") /\ On(FlagZ \in cpu.p)
    \/ Is(op, "bpl") /\ On(FlagN \notin cpu.p)
    \/ Is(op, "bmi") /\ On(FlagN \in cpu.p)
    \/ Is(op, "bvc") /\ On(FlagV \notin cpu.p)
    \/ Is(op, "bvs") /\ On(FlagV \in cpu.p)

Push(v) == /\ mem' = Pushed(mem, cpu.s, v)
           /\ cpu' = [cpu EXCEPT !.s = (@ - 1) % 256, !.pc = At(1)]

StackRegister(op) ==
    LET up == (cpu.s + 1) % 256
        v == Pulled(1) IN
    \/ Is(op, "pha") /\ Push(cpu.a)
    \/ Is(op, "php") /\ Push(Val(cpu.p))
    \/ /\ Is(op, "pla") /\ UNCHANGED mem
       /\ cpu' = [cpu EXCEPT !.a = v, !.p = NZ(@, v), !.s = up, !.pc = At(1)]
    \/ /\ Is(op, "plp") /\ UNCHANGED mem
       /\ cpu' = [cpu EXCEPT !.p = Bits(v) \cup {32}, !.s = up, !.pc = At(1)]

(* jsr reads its target after it has pushed; brk pushes nothing.           *)
Jsr(op) ==
    /\ Is(op, "jsr")
    /\ mem' = PushedWord(mem, cpu.s, At(2))
    /\ cpu' = [cpu EXCEPT !.s = (@ - 2) % 256, !.pc = ReadWord(mem', At(1))]

Rts(op) ==
    /\ Is(op, "rts") /\ UNCHANGED mem
    /\ cpu' = [cpu EXCEPT !.s = (@ + 2) % 256,
                          !.pc = (Pulled(1) + 256 * Pulled(2) + 1) % 65536]

Jump(op) ==
    \/ /\ Is(op, "jmp")
       /\ LET to == LoadWord(At(1)) IN
          SetP(cpu.p, IF op = 108 THEN LoadWord(to) ELSE to)
    \/ /\ Is(op, "brk")
       /\ SetP((cpu.p \cap {FlagN}) \cup {FlagI, FlagB}, LoadWord(65534))
    \/ /\ Is(op, "rti") /\ UNCHANGED mem
       /\ cpu' = [cpu EXCEPT !.p = Bits(Pulled(1)), !.s = (@ + 3) % 256,
                             !.pc = Pulled(2) + 256 * Pulled(3)]

Instruction(op) ==
    \/ Arithmetic(op) \/ LoadLogic(op) \/ StoreRegister(op)
    \/ ModifyMemory(op) \/ ModifyRegister(op) \/ SetFlags(op) \/ Branch(op)
    \/ StackRegister(op) \/ Jsr(op) \/ Rts(op) \/ Jump(op)

-----------------------------------------------------------------------------
(* Time.  Loads and stores first wait for real time to catch up with the   *)
(* cycles counted, and carry what makes a full step over to last_sync.     *)
(* A mutant: the ticks that make no full step are forgotten.              *)
Synced_Drops(cl) ==
    LET new == cl.nsec + (cl.ticks \div TickStep) * StepNs IN
    IF cl.ticks < TickStep THEN cl
    ELSE [sec |-> cl.sec + (new \div Second), nsec |-> new % Second,
          ticks |-> 0]
Synced(cl) ==
    LET new == cl.nsec + (cl.ticks \div TickStep) * StepNs IN
    IF cl.ticks < TickStep THEN cl
    ELSE [sec |-> cl.sec + (new \div Second), nsec |-> new % Second,
          ticks |-> cl.ticks % TickStep]

(* These reach no memory behind their opcode.                              *)
NoOperand == {"asla", "rola", "lsra", "rora", "inx", "dex", "iny", "dey",
              "tax", "tay", "tsx", "txa", "tya", "txs", "clc", "cld", "cli",
              "clv", "sec", "sed", "sei", "nop", "ni"}

Spend(op) ==
    LET fetched == Synced(clock)
        counted == [fetched EXCEPT !.ticks = @ + Ops[op].cycles] IN
    /\ clock' = IF Ops[op].name \in NoOperand THEN counted ELSE Synced(counted)
    /\ cycles' = cycles + Ops[op].cycles

-----------------------------------------------------------------------------
(* Registers are random after a reset but for three bits of p.             *)
Reset(r) == [a |-> r.a, x |-> r.x, y |-> r.y, s |-> r.s,
             p |-> r.p \cup {FlagI, FlagB, 32}, pc |-> LoadWord(65532)]

CpuInit(image, registers, reads, start) ==
    /\ mem = image
    /\ io \in [{0, 1} -> reads]
    /\ \E r \in registers : cpu = Reset(r)
    /\ began = start.sec * Second + start.nsec
    /\ clock = Synced([sec |-> start.sec, nsec |-> start.nsec, ticks |-> 7])
    /\ cycles = 7
    /\ calls = [s \in {} |-> 0]
    /\ running = TRUE

(* A call is remembered until one of the two bytes it left on the stack    *)
(* changes.                                                                *)
Remember(op) ==
    LET s == (cpu.s - 2) % 256
        Kept(t) == \A k \in {1, 2} :
            LET c == 256 + ((t + k) % 256) IN Read(mem', c) = Read(mem, c)
        kept == {t \in DOMAIN calls : Kept(t)} IN
    calls' = IF Is(op, "jsr")
             THEN [t \in kept \cup {s} |-> IF t = s THEN At(3) ELSE calls[t]]
             ELSE [t \in kept |-> calls[t]]

step_6502 ==
    LET op == Load(cpu.pc) IN
    /\ running
    /\ IF Is(op, "ni")
       THEN running' = FALSE /\ UNCHANGED <<cpu, mem>>
       ELSE Instruction(op) /\ UNCHANGED running
    /\ Spend(op)
    /\ Remember(op)
    /\ UNCHANGED began

-----------------------------------------------------------------------------
(* Properties.                                                             *)
Now == clock.sec * Second + clock.nsec

(* No cycle is lost or counted twice, and none makes last_sync an invalid  *)
(* time: real time since power-on and the ticks left over add up to all    *)
(* cycles counted (sync_time carries seconds by hand).                     *)
ClockExact ==
    /\ (Now - began) * TickStep = (cycles - clock.ticks) * StepNs
    /\ clock.nsec < Second /\ clock.ticks < TickStep + 7

(* An rts that finds the stack pointer where a jsr left it, and the two    *)
(* bytes the jsr pushed as it left them, goes on behind that jsr, however  *)
(* deep the calls are and where the stack wraps.                           *)
ReturnTold ==
    Is(Load(cpu.pc), "rts") /\ cpu.s \in DOMAIN calls
    => cpu'.pc = calls[cpu.s] /\ cpu'.s = (cpu.s + 2) % 256

(* Signed and unsigned arithmetic, against which the flags are to be read. *)
Signed(v) == IF High(v) THEN v - 256 ELSE v

ResultTold(exact, signed, carry) ==
    /\ cpu'.a = exact % 256
    /\ FlagC \in cpu'.p <=> carry
    /\ FlagV \in cpu'.p <=> signed \notin -128..127
    /\ FlagN \in cpu'.p <=> High(cpu'.a)
    /\ FlagZ \in cpu'.p <=> cpu'.a = 0

OrderTold(u, v) ==
    /\ FlagC \in cpu'.p <=> u >= v
    /\ FlagZ \in cpu'.p <=> u = v
    /\ FlagN \in cpu'.p <=> High((u - v) % 256)

CarryOut == IF FlagC \in cpu'.p THEN 1 ELSE 0

(* The nine bits of carry and byte, moved one place.                       *)
LeftTold(v, low, r) == 256 * CarryOut + r = 2 * v + low
RightTold(v, high, r) == CarryOut + 2 * r = v + 256 * high

(* Sum, difference, order, shift and rotation leave the flags that         *)
(* unsigned and signed arithmetic of the operands calls for.  (The code    *)
(* computes them from C integers wider than the registers.)                *)
FlagsToldBy(op) ==
    LET v == Load(Cell(op))
        r == Read(mem', Cell(op))
        kept == Cell(op) < RamSize IN
    /\ Is(op, "adc") => ResultTold(cpu.a + v + CarryIn,
                          Signed(cpu.a) + Signed(v) + CarryIn,
                          cpu.a + v + CarryIn > 255)
    /\ Is(op, "sbc") => ResultTold(cpu.a - v - (1 - CarryIn),
                          Signed(cpu.a) - Signed(v) - (1 - CarryIn),
                          cpu.a >= v + (1 - CarryIn))
    /\ Is(op, "cmp") => OrderTold(cpu.a, v)
    /\ Is(op, "cpx") => OrderTold(cpu.x, v)
    /\ Is(op, "cpy") => OrderTold(cpu.y, v)
    /\ Is(op, "asl") /\ kept => LeftTold(v, 0, r)
    /\ Is(op, "rol") /\ kept => LeftTold(v, CarryIn, r)
    /\ Is(op, "lsr") /\ kept => RightTold(v, 0, r)
    /\ Is(op, "ror") /\ kept => RightTold(v, CarryIn, r)
    /\ Is(op, "asla") => LeftTold(cpu.a, 0, cpu'.a)
    /\ Is(op, "rola") => LeftTold(cpu.a, CarryIn, cpu'.a)
    /\ Is(op, "lsra") => RightTold(cpu.a, 0, cpu'.a)
    /\ Is(op, "rora") => RightTold(cpu.a, CarryIn, cpu'.a)
=============================================================================
