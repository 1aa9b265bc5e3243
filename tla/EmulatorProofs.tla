--------------------------- MODULE EmulatorProofs ---------------------------
(***************************************************************************)
(* For every program, every size of the window and every order of events:  *)
(* what the emulator remembers to have drawn is what the window shows, a   *)
(* redraw that was due leaves it showing video memory, and the deadlines   *)
(* keep up with the time; the instructions tell the flags, return behind   *)
(* their calls, and no cycle is lost.                                      *)
(***************************************************************************)
EXTENDS Emulator, SequenceTheorems, FiniteSetTheorems, TLAPS

-----------------------------------------------------------------------------
(* Part 1: the processor.  What one instruction does, for every state of   *)
(* registers and memory: it keeps the types, tells the flags, returns      *)
(* behind its call, and counts its cycles.                                 *)


-----------------------------------------------------------------------------
(* Bytes.                                                                  *)
LEMMA ByteMod == \A n \in Int : n % 256 \in Byte
  BY DEF Byte

LEMMA AddrMod == \A n \in Int : n % 65536 \in Addr
  BY DEF Addr

LEMMA ByteInt == \A c \in Byte : c \in Int
  BY DEF Byte

LEMMA ByteAddr == \A c \in Byte : c \in Addr
  BY DEF Byte, Addr

LEMMA AddrInt == \A c \in Addr : c \in Int
  BY DEF Addr

LEMMA SumInt == \A u, v \in Int : u + v \in Int /\ u - v \in Int
  OBVIOUS

LEMMA ValByte ==
  ASSUME NEW ws
  PROVE  Val(ws) \in Byte
<1>1. \A w \in Nat : Weight(ws, w) = 0 \/ Weight(ws, w) = w
  BY DEF Weight
<1>2. /\ Weight(ws, 1) \in {0, 1} /\ Weight(ws, 2) \in {0, 2}
      /\ Weight(ws, 4) \in {0, 4} /\ Weight(ws, 8) \in {0, 8}
      /\ Weight(ws, 16) \in {0, 16} /\ Weight(ws, 32) \in {0, 32}
      /\ Weight(ws, 64) \in {0, 64} /\ Weight(ws, 128) \in {0, 128}
  BY <1>1
<1> QED BY <1>2 DEF Val, Byte

LEMMA BitsKnown ==
  ASSUME NEW v
  PROVE  Bits(v) \subseteq Weights
  BY DEF Bits

LEMMA FlagsKnown ==
  /\ FlagC \in Weights /\ FlagZ \in Weights /\ FlagI \in Weights
  /\ FlagD \in Weights /\ FlagB \in Weights /\ FlagV \in Weights
  /\ FlagN \in Weights /\ 32 \in Weights
  BY DEF FlagC, FlagZ, FlagI, FlagD, FlagB, FlagV, FlagN, Weights

LEMMA StatusKept ==
  ASSUME NEW ps \in SUBSET Weights
  PROVE  /\ \A on : \A flag \in Weights : With(ps, flag, on) \in SUBSET Weights
         /\ \A v : NZ(ps, v) \in SUBSET Weights
         /\ \A u, v, r : NVZ(ps, u, v, r) \in SUBSET Weights
<1>1. \A on : \A qs \in SUBSET Weights, flag \in Weights :
         With(qs, flag, on) \in SUBSET Weights
  BY DEF With
<1>2. \A v : NZ(ps, v) \in SUBSET Weights
  BY <1>1, FlagsKnown DEF NZ
<1>3. \A u, v, r : NVZ(ps, u, v, r) \in SUBSET Weights
  BY <1>1, <1>2, FlagsKnown DEF NVZ
<1> QED BY <1>1, <1>2, <1>3

-----------------------------------------------------------------------------
(* Memory.                                                                 *)
MemOK(m) == \A c \in DOMAIN m : /\ c \in Addr
                                /\ c < RamSize \/ c >= RomBase
                                /\ m[c] \in Byte

MachineOK == cpu \in Registers /\ MemOK(mem) /\ io \in [{0, 1} -> Byte]

LEMMA ReadByte ==
  ASSUME NEW m, MemOK(m), io \in [{0, 1} -> Byte], NEW c \in Int
  PROVE  Read(m, c) \in Byte
<1>1. c % 2 \in {0, 1}
  OBVIOUS
<1> QED BY <1>1, CpuAssumption DEF Read, MemOK

LEMMA ReadWordAddr ==
  ASSUME NEW m, MemOK(m), io \in [{0, 1} -> Byte], NEW c \in Int
  PROVE  ReadWord(m, c) \in Addr
<1>1. Read(m, c) \in Byte /\ Read(m, (c + 1) % 65536) \in Byte
  BY ReadByte
<1>2. \A a, b \in Byte : a + 256 * b \in Addr
  BY DEF Byte, Addr
<1> QED BY <1>1, <1>2 DEF ReadWord

LEMMA StoredOK ==
  ASSUME NEW m, MemOK(m), NEW c \in Addr, NEW v \in Byte
  PROVE  MemOK(Stored(m, c, v))
  BY DEF MemOK, Stored

LEMMA PushedOK ==
  ASSUME NEW m, MemOK(m), NEW s \in Byte, NEW v \in Byte
  PROVE  MemOK(Pushed(m, s, v))
<1>1. 256 + s \in Addr
  BY DEF Byte, Addr
<1> QED BY <1>1, StoredOK DEF Pushed

LEMMA OperandAddr ==
  ASSUME MachineOK, NEW mode
  PROVE  Operand(mode) \in Addr /\ Behind(mode) \in Addr
<1>1. cpu.pc \in Addr /\ cpu.x \in Byte /\ cpu.y \in Byte
  BY DEF MachineOK, Registers
<1>2. \A k \in Nat : At(k) \in Addr
  BY <1>1, AddrInt, SumInt, AddrMod DEF At
<1>3. \A c \in Int : Load(c) \in Byte /\ LoadWord(c) \in Addr
  BY ReadByte, ReadWordAddr DEF MachineOK, Load, LoadWord
<1>4. At(1) \in Addr /\ At(2) \in Addr /\ At(3) \in Addr
  BY <1>2
<1>5. /\ \A c \in Byte : c \in Addr /\ c \in Int
      /\ \A c \in Addr : c \in Int
  BY ByteInt, ByteAddr, AddrInt
<1>6. \A b, d \in Byte : (b + d) % 256 \in Byte
  BY ByteMod, SumInt, <1>5
<1>7. \A c \in Addr, d \in Byte : (c + d) % 65536 \in Addr
  BY AddrMod, SumInt, <1>5
<1>8. Operand(mode) \in Addr
  <2>1. Load(At(1)) \in Byte /\ LoadWord(At(1)) \in Addr
    BY <1>3, <1>4, <1>5
  <2>2. LoadWord((Load(At(1)) + cpu.x) % 256) \in Addr
    BY <1>1, <1>3, <1>5, <1>6, <2>1
  <2>3. LoadWord(Load(At(1))) \in Addr
    BY <1>3, <1>5, <2>1
  <2>4. /\ mode = "imm" => Operand(mode) = At(1)
        /\ mode = "zp" => Operand(mode) = Load(At(1))
        /\ mode = "zpx" => Operand(mode) = (Load(At(1)) + cpu.x) % 256
        /\ mode = "zpy" => Operand(mode) = (Load(At(1)) + cpu.y) % 256
        /\ mode = "abs" => Operand(mode) = LoadWord(At(1))
        /\ mode = "absx" => Operand(mode) = (LoadWord(At(1)) + cpu.x) % 65536
        /\ mode = "absy" => Operand(mode) = (LoadWord(At(1)) + cpu.y) % 65536
        /\ mode = "ix"
           => Operand(mode) = LoadWord((Load(At(1)) + cpu.x) % 256)
        /\ mode \notin {"imm", "zp", "zpx", "zpy", "abs", "absx", "absy", "ix"}
           => Operand(mode) = (LoadWord(Load(At(1))) + cpu.y) % 65536
    BY DEF Operand
  <2>5. /\ (Load(At(1)) + cpu.x) % 256 \in Addr
        /\ (Load(At(1)) + cpu.y) % 256 \in Addr
    BY <1>1, <1>5, <1>6, <2>1
  <2>6. /\ (LoadWord(At(1)) + cpu.x) % 65536 \in Addr
        /\ (LoadWord(At(1)) + cpu.y) % 65536 \in Addr
        /\ (LoadWord(Load(At(1))) + cpu.y) % 65536 \in Addr
    BY <1>1, <1>7, <2>1, <2>3
  <2> QED BY <1>4, <1>5, <2>1, <2>2, <2>4, <2>5, <2>6
<1>9. Behind(mode) \in Addr
  BY <1>4 DEF Behind
<1> QED BY <1>8, <1>9

LEMMA CellAddr ==
  ASSUME MachineOK, NEW op
  PROVE  Cell(op) \in Addr /\ Load(Cell(op)) \in Byte /\ Behind(Mode(op)) \in Addr
<1>1. \A mode : Operand(mode) \in Addr /\ Behind(mode) \in Addr
  BY OperandAddr
<1>2. \A c \in Addr : c % 256 \in Addr /\ c \in Int
  BY DEF Addr
<1>3. Cell(op) \in Addr
  BY <1>1, <1>2 DEF Cell
<1>4. Load(Cell(op)) \in Byte
  BY <1>2, <1>3, ReadByte DEF MachineOK, Load
<1> QED BY <1>1, <1>3, <1>4

-----------------------------------------------------------------------------
(* Every instruction keeps registers and memory what they are.             *)
Effect == cpu' \in Registers /\ MemOK(mem')

LEMMA RegistersKnown ==
  ASSUME MachineOK
  PROVE  /\ cpu.a \in Byte /\ cpu.x \in Byte /\ cpu.y \in Byte
         /\ cpu.s \in Byte /\ cpu.pc \in Addr /\ cpu.p \in SUBSET Weights
         /\ MemOK(mem) /\ io \in [{0, 1} -> Byte]
  BY DEF MachineOK, Registers

LEMMA LoadKnown ==
  ASSUME MachineOK
  PROVE  /\ \A c \in Int : Load(c) \in Byte /\ LoadWord(c) \in Addr
         /\ \A k \in Nat : At(k) \in Addr
<1>1. \A c \in Int : Load(c) \in Byte /\ LoadWord(c) \in Addr
  BY ReadByte, ReadWordAddr DEF MachineOK, Load, LoadWord
<1>2. \A k \in Nat : At(k) \in Addr
  BY RegistersKnown, AddrInt, SumInt, AddrMod DEF At
<1> QED BY <1>1, <1>2

LEMMA Helpers ==
  ASSUME MachineOK, NEW n \in Addr
  PROVE  /\ \A v \in Byte, ps \in SUBSET Weights : ToA(v, ps, n) => Effect
         /\ \A v \in Byte : ToX(v, n) => Effect
         /\ \A v \in Byte : ToY(v, n) => Effect
         /\ \A ps \in SUBSET Weights : SetP(ps, n) => Effect
         /\ \A w : \A r \in Int : Sum(r, w, n) => Effect
         /\ \A u, v : Compare(u, v, n) => Effect
<1>1. /\ cpu \in Registers /\ MemOK(mem) /\ cpu.p \in SUBSET Weights
  BY RegistersKnown DEF MachineOK
<1>2. ASSUME NEW v \in Byte, NEW ps \in SUBSET Weights, ToA(v, ps, n)
      PROVE  Effect
  <2>1. NZ(ps, v) \in SUBSET Weights
    BY StatusKept
  <2> QED BY <1>1, <1>2, <2>1 DEF ToA, Effect, Registers
<1>3. ASSUME NEW v \in Byte, ToX(v, n)
      PROVE  Effect
  <2>1. NZ(cpu.p, v) \in SUBSET Weights
    BY <1>1, StatusKept
  <2> QED BY <1>1, <1>3, <2>1 DEF ToX, Effect, Registers
<1>4. ASSUME NEW v \in Byte, ToY(v, n)
      PROVE  Effect
  <2>1. NZ(cpu.p, v) \in SUBSET Weights
    BY <1>1, StatusKept
  <2> QED BY <1>1, <1>4, <2>1 DEF ToY, Effect, Registers
<1>5. ASSUME NEW ps \in SUBSET Weights, SetP(ps, n)
      PROVE  Effect
  BY <1>1, <1>5 DEF SetP, Effect, Registers
<1>6. ASSUME NEW r \in Int, NEW w, Sum(r, w, n)
      PROVE  Effect
  <2>1. With(cpu.p, FlagC, r >= 256) \in SUBSET Weights
    BY <1>1, StatusKept, FlagsKnown
  <2>2. NVZ(With(cpu.p, FlagC, r >= 256), cpu.a, w, r % 256) \in SUBSET Weights
    BY <2>1, StatusKept
  <2>3. r % 256 \in Byte
    BY ByteMod
  <2> QED BY <1>1, <1>6, <2>2, <2>3 DEF Sum, Effect, Registers
<1>7. ASSUME NEW u, NEW v, Compare(u, v, n)
      PROVE  Effect
  <2> DEFINE r == u + 256 - v
  <2>1. With(cpu.p, FlagC, r >= 256) \in SUBSET Weights
    BY <1>1, StatusKept, FlagsKnown
  <2>2. NZ(With(cpu.p, FlagC, r >= 256), r % 256) \in SUBSET Weights
    BY <2>1, StatusKept
  <2>3. SetP(NZ(With(cpu.p, FlagC, r >= 256), r % 256), n)
    BY <1>7 DEF Compare
  <2> HIDE DEF r
  <2> QED BY <1>5, <2>2, <2>3
<1> QED BY <1>2, <1>3, <1>4, <1>5, <1>6, <1>7

LEMMA ArithmeticOK ==
  ASSUME MachineOK, NEW op, Arithmetic(op)
  PROVE  Effect
<1> DEFINE v == Load(Cell(op))
           n == Behind(Mode(op))
<1>1. v \in Byte /\ n \in Addr
  BY CellAddr
<1>2. cpu.a \in Byte /\ CarryIn \in {0, 1}
  BY RegistersKnown DEF CarryIn
<1>3. /\ cpu.a + v + CarryIn \in Int
      /\ cpu.a + 255 + CarryIn - v \in Int
  BY <1>1, <1>2, ByteInt
<1>4. \/ Sum(cpu.a + v + CarryIn, 255 - v, n)
      \/ Sum(cpu.a + 255 + CarryIn - v, v, n)
      \/ Compare(cpu.a, v, n)
      \/ Compare(cpu.x, v, n)
      \/ Compare(cpu.y, v, n)
  BY DEF Arithmetic
<1> HIDE DEF v, n
<1> QED BY <1>1, <1>3, <1>4, Helpers

LEMMA LoadLogicOK ==
  ASSUME MachineOK, NEW op, LoadLogic(op)
  PROVE  Effect
<1> DEFINE v == Load(Cell(op))
           n == Behind(Mode(op))
           ps == With((cpu.p \ {FlagN, FlagV, FlagZ})
                        \cup (Bits(v) \cap {FlagN, FlagV}),
                      FlagZ, Bits(cpu.a) \cap Bits(v) = {})
<1>1. v \in Byte /\ n \in Addr /\ cpu.p \in SUBSET Weights
  BY CellAddr, RegistersKnown
<1>2. /\ And(cpu.a, v) \in Byte /\ Or(cpu.a, v) \in Byte
      /\ Xor(cpu.a, v) \in Byte
  BY ValByte DEF And, Or, Xor
<1>3. ps \in SUBSET Weights
  <2>1. (cpu.p \ {FlagN, FlagV, FlagZ}) \cup (Bits(v) \cap {FlagN, FlagV})
          \in SUBSET Weights
    BY <1>1, BitsKnown
  <2> QED BY <2>1, StatusKept, FlagsKnown
<1>4. \/ ToA(v, cpu.p, n) \/ ToX(v, n) \/ ToY(v, n)
      \/ ToA(And(cpu.a, v), cpu.p, n)
      \/ ToA(Or(cpu.a, v), cpu.p, n)
      \/ ToA(Xor(cpu.a, v), cpu.p, n)
      \/ SetP(ps, n)
  BY DEF LoadLogic
<1> HIDE DEF v, n, ps
<1> QED BY <1>1, <1>2, <1>3, <1>4, Helpers

LEMMA StoreOK ==
  ASSUME MachineOK, NEW op, StoreRegister(op)
  PROVE  Effect
<1>1. Cell(op) \in Addr /\ Behind(Mode(op)) \in Addr
  BY CellAddr
<1>2. PICK v \in Byte : Store(op, v)
  BY RegistersKnown DEF StoreRegister
<1>3. MemOK(mem')
  BY <1>1, <1>2, RegistersKnown, StoredOK DEF Store
<1>4. cpu' \in Registers
  BY <1>1, <1>2 DEF Store, MachineOK, Registers
<1> QED BY <1>3, <1>4 DEF Effect

LEMMA ShiftsByte ==
  ASSUME NEW v \in Byte, NEW b \in {0, 1}
  PROVE  ShiftedLeft(v, b) \in Byte /\ ShiftedRight(v, b) \in Byte
<1>1. ShiftedLeft(v, b) \in Byte
  BY DEF ShiftedLeft, Byte
<1>2. ShiftedRight(v, b) \in Byte
  BY DEF ShiftedRight, Byte
<1> QED BY <1>1, <1>2

LEMMA CountsByte ==
  ASSUME NEW v \in Byte
  PROVE  (v + 1) % 256 \in Byte /\ (v - 1) % 256 \in Byte
<1>1. v + 1 \in Int /\ v - 1 \in Int
  BY ByteInt
<1> QED BY <1>1, ByteMod

LEMMA ModifyMemoryOK ==
  ASSUME MachineOK, NEW op, ModifyMemory(op)
  PROVE  Effect
<1> DEFINE v == Load(Cell(op))
<1>1. v \in Byte /\ Cell(op) \in Addr /\ Behind(Mode(op)) \in Addr
  BY CellAddr
<1>2. CarryIn \in {0, 1} /\ 0 \in {0, 1} /\ cpu.p \in SUBSET Weights
  BY RegistersKnown DEF CarryIn
<1>3. \A on : With(cpu.p, FlagC, on) \in SUBSET Weights
  BY <1>2, StatusKept, FlagsKnown
<1>4. ASSUME NEW r \in Byte, NEW ps \in SUBSET Weights, ToCell(op, r, ps)
      PROVE  Effect
  <2>1. MemOK(mem')
    BY <1>1, <1>4, RegistersKnown, StoredOK DEF ToCell
  <2>2. NZ(ps, r) \in SUBSET Weights
    BY StatusKept
  <2>3. cpu' \in Registers
    BY <1>1, <1>4, <2>2 DEF ToCell, MachineOK, Registers
  <2> QED BY <2>1, <2>3 DEF Effect
<1>5. /\ ShiftedLeft(v, 0) \in Byte /\ ShiftedLeft(v, CarryIn) \in Byte
      /\ ShiftedRight(v, 0) \in Byte /\ ShiftedRight(v, CarryIn) \in Byte
      /\ (v + 1) % 256 \in Byte /\ (v - 1) % 256 \in Byte
  BY <1>1, <1>2, ShiftsByte, CountsByte
<1>6. \E r \in Byte, ps \in SUBSET Weights : ToCell(op, r, ps)
  BY <1>2, <1>3, <1>5 DEF ModifyMemory
<1> QED BY <1>4, <1>6

LEMMA ModifyRegisterOK ==
  ASSUME MachineOK, NEW op, ModifyRegister(op)
  PROVE  Effect
<1>1. At(1) \in Addr
  BY LoadKnown
<1>2. /\ cpu.a \in Byte /\ cpu.x \in Byte /\ cpu.y \in Byte /\ cpu.s \in Byte
      /\ cpu.p \in SUBSET Weights
  BY RegistersKnown
<1>3. CarryIn \in {0, 1} /\ 0 \in {0, 1}
  BY DEF CarryIn
<1>4. \A on : With(cpu.p, FlagC, on) \in SUBSET Weights
  BY <1>2, StatusKept, FlagsKnown
<1>5. /\ ShiftedLeft(cpu.a, 0) \in Byte /\ ShiftedLeft(cpu.a, CarryIn) \in Byte
      /\ ShiftedRight(cpu.a, 0) \in Byte
      /\ ShiftedRight(cpu.a, CarryIn) \in Byte
      /\ (cpu.x + 1) % 256 \in Byte /\ (cpu.x - 1) % 256 \in Byte
      /\ (cpu.y + 1) % 256 \in Byte /\ (cpu.y - 1) % 256 \in Byte
  BY <1>2, <1>3, ShiftsByte, CountsByte
<1>6. \/ \E v \in Byte, ps \in SUBSET Weights : ToA(v, ps, At(1))
      \/ \E v \in Byte : ToX(v, At(1)) \/ ToY(v, At(1))
      \/ Is(op, "txs") /\ cpu' = [cpu EXCEPT !.s = cpu.x, !.pc = At(1)]
         /\ mem' = mem
  BY <1>2, <1>4, <1>5 DEF ModifyRegister
<1>7. CASE /\ cpu' = [cpu EXCEPT !.s = cpu.x, !.pc = At(1)] /\ mem' = mem
  BY <1>1, <1>2, <1>7, RegistersKnown DEF MachineOK, Registers, Effect
<1> QED BY <1>1, <1>6, <1>7, Helpers

LEMMA SetFlagsOK ==
  ASSUME MachineOK, NEW op, SetFlags(op)
  PROVE  Effect
<1>1. cpu.p \in SUBSET Weights /\ At(1) \in Addr
  BY RegistersKnown, LoadKnown
<1>2. \E ps \in SUBSET Weights : SetP(ps, At(1))
  BY <1>1, FlagsKnown DEF SetFlags
<1> QED BY <1>1, <1>2, Helpers

LEMMA BranchOK ==
  ASSUME MachineOK, NEW op, Branch(op)
  PROVE  Effect
<1>1. PICK taken : On(taken)
  BY DEF Branch
<1> DEFINE off == Load(At(1))
           target == (cpu.pc + 2 + IF High(off) THEN off - 256 ELSE off) % 65536
<1>2. off \in Byte /\ At(2) \in Addr
  BY LoadKnown, AddrInt
<1>3. target \in Addr
  <2>1. off \in Int /\ cpu.pc \in Int
    BY <1>2, ByteInt, AddrInt, RegistersKnown
  <2>2. cpu.pc + 2 + (IF High(off) THEN off - 256 ELSE off) \in Int
    BY <2>1
  <2> QED BY <2>2, AddrMod
<1>4. SetP(cpu.p, IF taken THEN target ELSE At(2))
  BY <1>1 DEF On
<1>5. (IF taken THEN target ELSE At(2)) \in Addr
  BY <1>2, <1>3
<1> HIDE DEF target
<1> QED BY <1>4, <1>5, RegistersKnown, Helpers

LEMMA PulledKnown ==
  ASSUME MachineOK
  PROVE  \A k \in Nat : Pulled(k) \in Byte
<1> SUFFICES ASSUME NEW k \in Nat PROVE Pulled(k) \in Byte
  OBVIOUS
<1>1. cpu.s + k \in Int
  BY RegistersKnown, ByteInt
<1>2. (cpu.s + k) % 256 \in Int
  BY <1>1, ByteMod, ByteInt
<1>3. 256 + ((cpu.s + k) % 256) \in Int
  BY <1>2
<1> QED BY <1>3, LoadKnown DEF Pulled

LEMMA StackOK ==
  ASSUME MachineOK, NEW op, StackRegister(op)
  PROVE  Effect
<1>1. /\ cpu \in Registers /\ cpu.a \in Byte /\ cpu.s \in Byte
      /\ cpu.p \in SUBSET Weights /\ MemOK(mem) /\ At(1) \in Addr
  BY RegistersKnown, LoadKnown DEF MachineOK
<1>2. (cpu.s + 1) % 256 \in Byte /\ (cpu.s - 1) % 256 \in Byte
  BY <1>1, CountsByte
<1>3. ASSUME NEW v \in Byte, Push(v)
      PROVE  Effect
  <2>1. MemOK(mem')
    BY <1>1, <1>3, PushedOK DEF Push
  <2>2. cpu' \in Registers
    BY <1>1, <1>2, <1>3 DEF Push, Registers
  <2> QED BY <2>1, <2>2 DEF Effect
<1>4. Val(cpu.p) \in Byte
  BY ValByte
<1>5. Pulled(1) \in Byte
  BY PulledKnown
<1>6. CASE /\ mem' = mem
           /\ cpu' = [cpu EXCEPT !.a = Pulled(1), !.p = NZ(@, Pulled(1)),
                                 !.s = (cpu.s + 1) % 256, !.pc = At(1)]
  <2>1. NZ(cpu.p, Pulled(1)) \in SUBSET Weights
    BY <1>1, StatusKept
  <2> QED BY <1>1, <1>2, <1>5, <1>6, <2>1 DEF Effect, Registers
<1>7. CASE /\ mem' = mem
           /\ cpu' = [cpu EXCEPT !.p = Bits(Pulled(1)) \cup {32},
                                 !.s = (cpu.s + 1) % 256, !.pc = At(1)]
  <2>1. Bits(Pulled(1)) \cup {32} \in SUBSET Weights
    BY BitsKnown, FlagsKnown
  <2> QED BY <1>1, <1>2, <1>7, <2>1 DEF Effect, Registers
<1> QED BY <1>1, <1>3, <1>4, <1>6, <1>7 DEF StackRegister

(* The two bytes of an address.                                            *)
LEMMA HalvesByte ==
  ASSUME NEW n \in Addr
  PROVE  n \div 256 \in Byte /\ n % 256 \in Byte
<1>1. n \div 256 \in Byte
  <2>1. \A k \in Int : k >= 0 /\ k <= 65535
                      => k \div 256 \in Int /\ k \div 256 >= 0
                         /\ k \div 256 <= 255
    OBVIOUS
  <2>2. n \in Int /\ n >= 0 /\ n <= 65535
    BY DEF Addr
  <2> QED BY <2>1, <2>2 DEF Byte
<1>2. n % 256 \in Byte
  BY AddrInt, ByteMod
<1> QED BY <1>1, <1>2

LEMMA PushedWordOK ==
  ASSUME NEW m, MemOK(m), NEW s \in Byte, NEW n \in Addr
  PROVE  MemOK(PushedWord(m, s, n))
<1>1. (s - 1) % 256 \in Byte
  BY CountsByte
<1>2. MemOK(Pushed(m, s, n \div 256))
  BY HalvesByte, PushedOK
<1> QED BY <1>1, <1>2, HalvesByte, PushedOK DEF PushedWord

LEMMA SubroutineOK ==
  ASSUME MachineOK, NEW op, Jsr(op) \/ Rts(op)
  PROVE  Effect
<1>1. /\ cpu \in Registers /\ cpu.s \in Byte /\ MemOK(mem)
      /\ io \in [{0, 1} -> Byte]
      /\ At(1) \in Addr /\ At(2) \in Addr
  BY RegistersKnown, LoadKnown DEF MachineOK
<1>2. (cpu.s - 2) % 256 \in Byte /\ (cpu.s + 2) % 256 \in Byte
  <2>1. cpu.s - 2 \in Int /\ cpu.s + 2 \in Int
    BY <1>1, ByteInt
  <2> QED BY <2>1, ByteMod
<1>3. CASE Jsr(op)
  <2>1. mem' = PushedWord(mem, cpu.s, At(2))
    BY <1>3 DEF Jsr
  <2>2. MemOK(mem')
    BY <1>1, <2>1, PushedWordOK
  <2>3. ReadWord(mem', At(1)) \in Addr
    BY <1>1, <2>2, ReadWordAddr, AddrInt
  <2>4. cpu' = [cpu EXCEPT !.s = (cpu.s - 2) % 256,
                           !.pc = ReadWord(mem', At(1))]
    BY <1>3 DEF Jsr
  <2>5. cpu' \in Registers
    BY <1>1, <1>2, <2>3, <2>4 DEF Registers
  <2> QED BY <2>2, <2>5 DEF Effect
<1>4. CASE Rts(op)
  <2>1. Pulled(1) \in Int /\ Pulled(2) \in Int
    BY PulledKnown, ByteInt
  <2>2. (Pulled(1) + 256 * Pulled(2) + 1) % 65536 \in Addr
    BY <2>1, AddrMod
  <2>3. /\ mem' = mem
        /\ cpu' = [cpu EXCEPT !.s = (cpu.s + 2) % 256,
                 !.pc = (Pulled(1) + 256 * Pulled(2) + 1) % 65536]
    BY <1>4 DEF Rts
  <2> DEFINE up == (cpu.s + 2) % 256
             n == (Pulled(1) + 256 * Pulled(2) + 1) % 65536
  <2>4. up \in Byte /\ n \in Addr /\ mem' = mem
        /\ cpu' = [cpu EXCEPT !.s = up, !.pc = n]
    BY <1>2, <2>2, <2>3
  <2> HIDE DEF up, n
  <2> QED BY <1>1, <2>4 DEF Effect, Registers
<1> QED BY <1>3, <1>4

LEMMA JumpOK ==
  ASSUME MachineOK, NEW op, Jump(op)
  PROVE  Effect
<1>1. /\ cpu \in Registers /\ cpu.s \in Byte /\ cpu.p \in SUBSET Weights
      /\ MemOK(mem) /\ At(1) \in Addr
  BY RegistersKnown, LoadKnown DEF MachineOK
<1>2. /\ LoadWord(At(1)) \in Addr /\ LoadWord(LoadWord(At(1))) \in Addr
      /\ LoadWord(65534) \in Addr
  BY <1>1, LoadKnown, AddrInt
<1>3. (cpu.p \cap {FlagN}) \cup {FlagI, FlagB} \in SUBSET Weights
  BY <1>1, FlagsKnown
<1>4. CASE \E ps \in SUBSET Weights, n \in Addr : SetP(ps, n)
  BY <1>4, Helpers
<1>5. CASE Is(op, "rti")
  <2>1. Bits(Pulled(1)) \in SUBSET Weights
    BY BitsKnown
  <2>2. Pulled(2) + 256 * Pulled(3) \in Addr
    <3>1. \A b, d \in Byte : b + 256 * d \in Addr
      BY DEF Byte, Addr
    <3> QED BY <3>1, PulledKnown
  <2>3. (cpu.s + 3) % 256 \in Byte
    <3>1. cpu.s + 3 \in Int
      BY <1>1, ByteInt
    <3> QED BY <3>1, ByteMod
  <2>4. /\ mem' = mem
        /\ cpu' = [cpu EXCEPT !.p = Bits(Pulled(1)), !.s = (cpu.s + 3) % 256,
                              !.pc = Pulled(2) + 256 * Pulled(3)]
    BY <1>5 DEF Jump, Is
  <2> QED BY <1>1, <2>1, <2>2, <2>3, <2>4 DEF Effect, Registers
<1>6. CASE Is(op, "jmp") /\ SetP(cpu.p, IF op = 108
                                        THEN LoadWord(LoadWord(At(1)))
                                        ELSE LoadWord(At(1)))
  BY <1>1, <1>2, <1>6, <1>4
<1>7. CASE Is(op, "brk") /\ SetP((cpu.p \cap {FlagN}) \cup {FlagI, FlagB},
                                 LoadWord(65534))
  BY <1>2, <1>3, <1>7, <1>4
<1> QED BY <1>5, <1>6, <1>7 DEF Jump

LEMMA InstructionOK ==
  ASSUME MachineOK, NEW op, Instruction(op)
  PROVE  Effect
BY ArithmeticOK, LoadLogicOK, StoreOK, ModifyMemoryOK, ModifyRegisterOK,
   SetFlagsOK, BranchOK, StackOK, SubroutineOK, JumpOK DEF Instruction

-----------------------------------------------------------------------------
(* An instruction is of the family its name is in.                         *)
LEMMA FamilyKnown ==
  ASSUME NEW op, Instruction(op)
  PROVE  /\ Ops[op].name \in {"adc", "sbc", "cmp", "cpx", "cpy"}
              => Arithmetic(op)
         /\ Ops[op].name \in {"asl", "rol", "lsr", "ror"}
              => ModifyMemory(op)
         /\ Ops[op].name \in {"asla", "rola", "lsra", "rora"}
              => ModifyRegister(op)
         /\ Is(op, "jsr") => Jsr(op)
         /\ Is(op, "rts") => Rts(op)
<1> DEFINE name == Ops[op].name
<1>1. Arithmetic(op) => name \in {"adc", "sbc", "cmp", "cpx", "cpy"}
  BY DEF Arithmetic, Is
<1>2. LoadLogic(op)
        => name \in {"lda", "ldx", "ldy", "and", "ora", "eor", "bit"}
  BY DEF LoadLogic, Is
<1>3. StoreRegister(op) => name \in {"sta", "stx", "sty"}
  BY DEF StoreRegister, Is
<1>4. ModifyMemory(op)
        => name \in {"asl", "rol", "lsr", "ror", "inc", "dec"}
  BY DEF ModifyMemory, Is
<1>5. ModifyRegister(op)
        => name \in {"asla", "rola", "lsra", "rora", "inx", "dex", "iny",
                     "dey", "tax", "tay", "tsx", "txa", "tya", "txs"}
  BY DEF ModifyRegister, Is
<1>6. SetFlags(op)
        => name \in {"clc", "cld", "cli", "clv", "sec", "sed", "sei", "nop"}
  BY DEF SetFlags, Is
<1>7. Branch(op)
        => name \in {"bcc", "bcs", "bne", "beq", "bpl", "bmi", "bvc", "bvs"}
  BY DEF Branch, Is
<1>8. StackRegister(op) => name \in {"pha", "php", "pla", "plp"}
  BY DEF StackRegister, Is
<1>9. Jsr(op) => name = "jsr"
  BY DEF Jsr, Is
<1>10. Rts(op) => name = "rts"
  BY DEF Rts, Is
<1>11. Jump(op) => name \in {"jmp", "brk", "rti"}
  BY DEF Jump, Is
<1> HIDE DEF name
<1>12. /\ name \in {"adc", "sbc", "cmp", "cpx", "cpy"} => Arithmetic(op)
       /\ name \in {"asl", "rol", "lsr", "ror"} => ModifyMemory(op)
       /\ name \in {"asla", "rola", "lsra", "rora"} => ModifyRegister(op)
       /\ name = "jsr" => Jsr(op)
       /\ name = "rts" => Rts(op)
  BY <1>1, <1>2, <1>3, <1>4, <1>5, <1>6, <1>7, <1>8, <1>9, <1>10, <1>11
     DEF Instruction
<1> QED BY <1>12 DEF name, Is

-----------------------------------------------------------------------------
(* The flags.                                                              *)
LEMMA WithTells ==
  ASSUME NEW ps, NEW flag, NEW on \in BOOLEAN
  PROVE  /\ flag \in With(ps, flag, on) <=> on
         /\ \A other : other # flag
              => (other \in With(ps, flag, on) <=> other \in ps)
  BY DEF With

LEMMA NZTells ==
  ASSUME NEW ps, NEW v \in Byte
  PROVE  /\ FlagN \in NZ(ps, v) <=> High(v)
         /\ FlagZ \in NZ(ps, v) <=> v = 0
         /\ FlagC \in NZ(ps, v) <=> FlagC \in ps
         /\ FlagV \in NZ(ps, v) <=> FlagV \in ps
<1>1. High(v) \in BOOLEAN /\ (v = 0) \in BOOLEAN
  BY DEF High
<1>2. FlagN # FlagZ /\ FlagC # FlagN /\ FlagC # FlagZ /\ FlagV # FlagN
      /\ FlagV # FlagZ
  BY DEF FlagN, FlagZ, FlagC, FlagV
<1> DEFINE qs == With(ps, FlagN, High(v))
           zero == v = 0
<1>3. /\ FlagN \in qs <=> High(v)
      /\ \A other : other # FlagN => (other \in qs <=> other \in ps)
  BY <1>1, WithTells
<1>4. NZ(ps, v) = With(qs, FlagZ, zero)
  BY DEF NZ
<1> HIDE DEF qs
<1>5. /\ FlagZ \in With(qs, FlagZ, zero) <=> zero
      /\ \A other : other # FlagZ
           => (other \in With(qs, FlagZ, zero) <=> other \in qs)
  BY <1>1, WithTells
<1> QED BY <1>2, <1>3, <1>4, <1>5

(* The sign that is neither operand's.                                     *)
Turned(u, v, r) == High(u) # High(r) /\ High(u) # High(v)

LEMMA NVZTells ==
  ASSUME NEW ps, NEW u \in Byte, NEW v \in Byte, NEW r \in Byte
  PROVE  /\ FlagN \in NVZ(ps, u, v, r) <=> High(r)
         /\ FlagZ \in NVZ(ps, u, v, r) <=> r = 0
         /\ FlagC \in NVZ(ps, u, v, r) <=> FlagC \in ps
         /\ FlagV \in NVZ(ps, u, v, r)
              <=> Turned(u, v, r)
<1>1. Turned(u, v, r) \in BOOLEAN
  BY DEF Turned
<1>2. FlagV # FlagN /\ FlagV # FlagZ /\ FlagV # FlagC
  BY DEF FlagN, FlagZ, FlagC, FlagV
<1> DEFINE qs == NZ(ps, r)
           on == Turned(u, v, r)
<1>3. NVZ(ps, u, v, r) = With(qs, FlagV, on)
  BY DEF NVZ, Turned
<1>4. /\ FlagN \in qs <=> High(r)
      /\ FlagZ \in qs <=> r = 0
      /\ FlagC \in qs <=> FlagC \in ps
  BY NZTells
<1> HIDE DEF qs
<1>5. /\ FlagV \in With(qs, FlagV, on) <=> on
      /\ \A other : other # FlagV
           => (other \in With(qs, FlagV, on) <=> other \in qs)
  BY <1>1, WithTells
<1> QED BY <1>2, <1>3, <1>4, <1>5

LEMMA NineBits ==
  ASSUME NEW n \in Int, 0 <= n, n < 512
  PROVE  n % 256 = IF n >= 256 THEN n - 256 ELSE n
  OBVIOUS

(* The sign of a sum, of numbers in a byte.                                *)
LEMMA SumOverflows ==
  ASSUME NEW u \in Byte, NEW v \in Byte, NEW c \in {0, 1},
         NEW r \in Byte, r = (u + v + c) % 256
  PROVE  Turned(u, 255 - v, r)
           <=> (Signed(u) + Signed(v) + c \notin -128..127)
<1>1. u \in Int /\ v \in Int /\ r \in Int /\ c \in Int
      /\ 0 <= u /\ u < 256 /\ 0 <= v /\ v < 256 /\ 0 <= r /\ r < 256
      /\ 0 <= c /\ c <= 1
  BY DEF Byte
<1>2. r = u + v + c \/ r = u + v + c - 256
  BY <1>1, NineBits
<1> QED BY <1>1, <1>2 DEF Turned, High, Signed

LEMMA DifferenceOverflows ==
  ASSUME NEW u \in Byte, NEW v \in Byte, NEW c \in {0, 1},
         NEW r \in Byte, r = (u + 255 + c - v) % 256
  PROVE  Turned(u, v, r)
           <=> (Signed(u) - Signed(v) - (1 - c) \notin -128..127)
<1>1. u \in Int /\ v \in Int /\ r \in Int /\ c \in Int
      /\ 0 <= u /\ u < 256 /\ 0 <= v /\ v < 256 /\ 0 <= r /\ r < 256
      /\ 0 <= c /\ c <= 1
  BY DEF Byte
<1>2. r = u + 255 + c - v \/ r = u + 255 + c - v - 256
  BY <1>1, NineBits
<1> QED BY <1>1, <1>2 DEF Turned, High, Signed

(* What an instruction may be asked of its flags depends on registers and  *)
(* operand alone.                                                          *)
LEMMA SumTold ==
  ASSUME MachineOK, NEW v \in Byte, NEW n,
         Sum(cpu.a + v + CarryIn, 255 - v, n)
  PROVE  ResultTold(cpu.a + v + CarryIn, Signed(cpu.a) + Signed(v) + CarryIn,
                    cpu.a + v + CarryIn > 255)
<1> DEFINE e == cpu.a + v + CarryIn
           r == e % 256
           ps == With(cpu.p, FlagC, e >= 256)
<1>1. /\ cpu \in Registers /\ cpu.a \in Byte /\ CarryIn \in {0, 1}
      /\ e \in Int /\ r \in Byte /\ 255 - v \in Byte
  <2>1. cpu \in Registers /\ cpu.a \in Byte /\ CarryIn \in {0, 1}
    BY RegistersKnown DEF CarryIn, MachineOK
  <2>2. e \in Int
    BY <2>1, ByteInt
  <2>3. 255 - v \in Byte
    BY DEF Byte
  <2> QED BY <2>1, <2>2, <2>3, ByteMod
<1>2. cpu'.a = r /\ cpu'.p = NVZ(ps, cpu.a, 255 - v, r)
  BY <1>1 DEF Sum, Registers
<1>3. (e >= 256) \in BOOLEAN /\ (e >= 256 <=> e > 255)
  BY <1>1
<1>4. FlagC \in ps <=> e > 255
  BY <1>3, WithTells
<1>5. Turned(cpu.a, 255 - v, r)
        <=> (Signed(cpu.a) + Signed(v) + CarryIn \notin -128..127)
  BY <1>1, SumOverflows
<1> HIDE DEF ps, r
<1>6. /\ FlagN \in cpu'.p <=> High(r)
      /\ FlagZ \in cpu'.p <=> r = 0
      /\ FlagC \in cpu'.p <=> FlagC \in ps
      /\ FlagV \in cpu'.p
           <=> Turned(cpu.a, 255 - v, r)
  <2> DEFINE u == cpu.a
             w == 255 - v
  <2>1. u \in Byte /\ w \in Byte /\ r \in Byte
        /\ cpu'.p = NVZ(ps, u, w, r)
    BY <1>1, <1>2
  <2> HIDE DEF u, w
  <2>2. /\ FlagN \in NVZ(ps, u, w, r) <=> High(r)
        /\ FlagZ \in NVZ(ps, u, w, r) <=> r = 0
        /\ FlagC \in NVZ(ps, u, w, r) <=> FlagC \in ps
        /\ FlagV \in NVZ(ps, u, w, r) <=> Turned(u, w, r)
    BY <2>1, NVZTells
  <2>3. /\ FlagN \in cpu'.p <=> High(r)
        /\ FlagZ \in cpu'.p <=> r = 0
        /\ FlagC \in cpu'.p <=> FlagC \in ps
        /\ FlagV \in cpu'.p <=> Turned(u, w, r)
    BY <2>1, <2>2
  <2> QED BY <2>3 DEF u, w
<1>7. cpu'.a = e % 256
  BY <1>2 DEF r
<1> HIDE DEF e
<1>8. ResultTold(e, Signed(cpu.a) + Signed(v) + CarryIn, e > 255)
  BY <1>2, <1>4, <1>5, <1>6, <1>7 DEF ResultTold
<1> QED BY <1>8 DEF e

LEMMA DifferenceTold ==
  ASSUME MachineOK, NEW v \in Byte, NEW n,
         Sum(cpu.a + 255 + CarryIn - v, v, n)
  PROVE  ResultTold(cpu.a - v - (1 - CarryIn),
                    Signed(cpu.a) - Signed(v) - (1 - CarryIn),
                    cpu.a >= v + (1 - CarryIn))
<1> DEFINE e == cpu.a + 255 + CarryIn - v
           d == cpu.a - v - (1 - CarryIn)
           r == e % 256
           ps == With(cpu.p, FlagC, e >= 256)
           borrowed == cpu.a >= v + (1 - CarryIn)
<1>1. /\ cpu \in Registers /\ cpu.a \in Byte /\ CarryIn \in {0, 1}
      /\ e \in Int /\ r \in Byte
  <2>1. cpu \in Registers /\ cpu.a \in Byte /\ CarryIn \in {0, 1}
    BY RegistersKnown DEF CarryIn, MachineOK
  <2>2. e \in Int
    BY <2>1, ByteInt
  <2> QED BY <2>1, <2>2, ByteMod
<1>2. cpu'.a = r /\ cpu'.p = NVZ(ps, cpu.a, v, r)
  BY <1>1 DEF Sum, Registers
<1>3. (e >= 256) \in BOOLEAN /\ (e >= 256 <=> borrowed)
  <2>1. cpu.a \in Int /\ v \in Int /\ CarryIn \in Int
    BY <1>1, ByteInt
  <2> QED BY <2>1
<1>4. FlagC \in ps <=> borrowed
  BY <1>3, WithTells
<1>5. Turned(cpu.a, v, r)
        <=> (Signed(cpu.a) - Signed(v) - (1 - CarryIn) \notin -128..127)
  <2> DEFINE u == cpu.a
             c == CarryIn
  <2>1. u \in Byte /\ c \in {0, 1} /\ r \in Byte
        /\ r = (u + 255 + c - v) % 256
    BY <1>1
  <2> HIDE DEF u, c, r
  <2>2. Turned(u, v, r)
          <=> (Signed(u) - Signed(v) - (1 - c) \notin -128..127)
    BY <2>1, DifferenceOverflows
  <2> QED BY <2>2 DEF u, c
<1>6. r = d % 256
  <2>1. \A k \in Int : (k + 256) % 256 = k % 256
    OBVIOUS
  <2>2. d \in Int /\ e = d + 256
    BY <1>1, ByteInt
  <2> QED BY <2>1, <2>2
<1> HIDE DEF ps, r, borrowed, d
<1>7. /\ FlagN \in cpu'.p <=> High(r)
      /\ FlagZ \in cpu'.p <=> r = 0
      /\ FlagC \in cpu'.p <=> FlagC \in ps
      /\ FlagV \in cpu'.p
           <=> Turned(cpu.a, v, r)
  <2> DEFINE u == cpu.a
  <2>1. u \in Byte /\ r \in Byte /\ cpu'.p = NVZ(ps, u, v, r)
    BY <1>1, <1>2
  <2> HIDE DEF u
  <2>2. /\ FlagN \in NVZ(ps, u, v, r) <=> High(r)
        /\ FlagZ \in NVZ(ps, u, v, r) <=> r = 0
        /\ FlagC \in NVZ(ps, u, v, r) <=> FlagC \in ps
        /\ FlagV \in NVZ(ps, u, v, r) <=> Turned(u, v, r)
    BY <2>1, NVZTells
  <2>3. /\ FlagN \in cpu'.p <=> High(r)
        /\ FlagZ \in cpu'.p <=> r = 0
        /\ FlagC \in cpu'.p <=> FlagC \in ps
        /\ FlagV \in cpu'.p <=> Turned(u, v, r)
    BY <2>1, <2>2
  <2> QED BY <2>3 DEF u
<1>8. ResultTold(d, Signed(cpu.a) - Signed(v) - (1 - CarryIn), borrowed)
  BY <1>2, <1>4, <1>5, <1>6, <1>7 DEF ResultTold
<1> QED BY <1>8 DEF d, borrowed

LEMMA CompareTold ==
  ASSUME MachineOK, NEW u \in Byte, NEW v \in Byte, NEW n, Compare(u, v, n)
  PROVE  OrderTold(u, v)
<1> DEFINE e == u + 256 - v
           r == e % 256
           ps == With(cpu.p, FlagC, e >= 256)
<1>1. /\ cpu \in Registers /\ e \in Int /\ r \in Byte
      /\ u \in Int /\ v \in Int
      /\ 0 <= u /\ u < 256 /\ 0 <= v /\ v < 256
  <2>1. cpu \in Registers
    BY DEF MachineOK
  <2>2. u \in Int /\ v \in Int /\ 0 <= u /\ u < 256 /\ 0 <= v /\ v < 256
    BY DEF Byte
  <2>3. e \in Int
    BY <2>2
  <2> QED BY <2>1, <2>2, <2>3, ByteMod
<1>2. cpu'.p = NZ(ps, r)
  BY <1>1 DEF Compare, SetP, Registers
<1>3. (e >= 256) \in BOOLEAN /\ (e >= 256 <=> u >= v)
  BY <1>1
<1>4. FlagC \in ps <=> u >= v
  BY <1>3, WithTells
<1>5. r = (u - v) % 256
  <2>1. \A k \in Int : (k + 256) % 256 = k % 256
    OBVIOUS
  <2>2. u - v \in Int /\ e = (u - v) + 256
    BY <1>1
  <2> QED BY <2>1, <2>2
<1>6. r = 0 <=> u = v
  <2>1. r = IF e >= 256 THEN e - 256 ELSE e
    BY <1>1, NineBits
  <2> QED BY <1>1, <2>1
<1> HIDE DEF ps, r
<1>7. /\ FlagN \in cpu'.p <=> High(r)
      /\ FlagZ \in cpu'.p <=> r = 0
      /\ FlagC \in cpu'.p <=> FlagC \in ps
  BY <1>1, <1>2, NZTells
<1> QED BY <1>4, <1>5, <1>6, <1>7 DEF OrderTold

LEMMA LeftMoves ==
  ASSUME NEW v \in Byte, NEW low \in {0, 1}
  PROVE  ShiftedLeft(v, low)
           = 2 * v + low - 256 * (IF High(v) THEN 1 ELSE 0)
<1>1. /\ v \in Int /\ 0 <= v /\ v < 256 /\ low \in Int
      /\ 0 <= low /\ low <= 1
  BY DEF Byte
<1>2. PICK e \in Int : e = 2 * v + low
  BY <1>1
<1>3. ShiftedLeft(v, low) = e % 256
  BY <1>2 DEF ShiftedLeft
<1>4. e % 256 = IF e >= 256 THEN e - 256 ELSE e
  BY <1>1, <1>2, NineBits
<1>5. e >= 256 <=> High(v)
  BY <1>1, <1>2 DEF High
<1>6. ShiftedLeft(v, low) = e - 256 * (IF High(v) THEN 1 ELSE 0)
  <2>1. CASE High(v)
    BY <1>2, <1>3, <1>4, <1>5, <2>1
  <2>2. CASE ~High(v)
    BY <1>2, <1>3, <1>4, <1>5, <2>2
  <2> QED BY <2>1, <2>2
<1> QED BY <1>1, <1>2, <1>6

LEMMA RightMoves ==
  ASSUME NEW v \in Byte, NEW high \in {0, 1}
  PROVE  2 * ShiftedRight(v, high)
           = v + 256 * high - (IF v % 2 = 1 THEN 1 ELSE 0)
<1>1. v \in Int /\ high \in Int
  BY DEF Byte
<1>2. \A k \in Int : 2 * (k \div 2) = k - (IF k % 2 = 1 THEN 1 ELSE 0)
  OBVIOUS
<1>3. v \div 2 \in Int
  BY <1>1
<1> QED BY <1>1, <1>2, <1>3 DEF ShiftedRight

(* The carry after a result was stored, and where to find the result.      *)
LEMMA CarryTells ==
  ASSUME MachineOK, NEW r \in Byte, NEW on \in BOOLEAN,
         cpu'.p = NZ(With(cpu.p, FlagC, on), r)
  PROVE  CarryOut = IF on THEN 1 ELSE 0
<1>1. FlagC \in With(cpu.p, FlagC, on) <=> on
  BY WithTells
<1> DEFINE ps == With(cpu.p, FlagC, on)
<1> HIDE DEF ps
<1>2. FlagC \in NZ(ps, r) <=> FlagC \in ps
  BY NZTells
<1> QED BY <1>1, <1>2 DEF CarryOut, ps

LEMMA StoredThere ==
  ASSUME NEW m, NEW c, NEW v, c < RamSize
  PROVE  Read(Stored(m, c, v), c) = v
  BY DEF Read, Stored

LEMMA CellShiftTold ==
  ASSUME MachineOK, NEW op, NEW r \in Byte, NEW on \in BOOLEAN,
         ToCell(op, r, With(cpu.p, FlagC, on))
  PROVE  /\ CarryOut = IF on THEN 1 ELSE 0
         /\ Cell(op) < RamSize => Read(mem', Cell(op)) = r
<1>1. cpu'.p = NZ(With(cpu.p, FlagC, on), r) /\ mem' = Stored(mem, Cell(op), r)
  BY DEF ToCell, MachineOK, Registers
<1> QED BY <1>1, CarryTells, StoredThere

LEMMA RegisterShiftTold ==
  ASSUME MachineOK, NEW n, NEW r \in Byte, NEW on \in BOOLEAN,
         ToA(r, With(cpu.p, FlagC, on), n)
  PROVE  CarryOut = (IF on THEN 1 ELSE 0) /\ cpu'.a = r
<1>1. cpu'.p = NZ(With(cpu.p, FlagC, on), r) /\ cpu'.a = r
  BY DEF ToA, MachineOK, Registers
<1> QED BY <1>1, CarryTells

LEMMA ShiftTold ==
  ASSUME NEW v \in Byte, NEW b \in {0, 1}
  PROVE  /\ CarryOut = (IF High(v) THEN 1 ELSE 0)
              => LeftTold(v, b, ShiftedLeft(v, b))
         /\ CarryOut = (IF v % 2 = 1 THEN 1 ELSE 0)
              => RightTold(v, b, ShiftedRight(v, b))
<1>1. v \in Int /\ b \in Int
  BY DEF Byte
<1>2. ShiftedLeft(v, b) \in Byte /\ ShiftedRight(v, b) \in Byte
  BY ShiftsByte
<1>3. ASSUME CarryOut = (IF High(v) THEN 1 ELSE 0)
      PROVE  LeftTold(v, b, ShiftedLeft(v, b))
  <2>1. ShiftedLeft(v, b) = 2 * v + b - 256 * (IF High(v) THEN 1 ELSE 0)
    BY LeftMoves
  <2> QED BY <1>1, <1>3, <2>1 DEF LeftTold
<1>4. ASSUME CarryOut = (IF v % 2 = 1 THEN 1 ELSE 0)
      PROVE  RightTold(v, b, ShiftedRight(v, b))
  <2>1. 2 * ShiftedRight(v, b)
          = v + 256 * b - (IF v % 2 = 1 THEN 1 ELSE 0)
    BY RightMoves
  <2> QED BY <1>1, <1>4, <2>1 DEF RightTold
<1> QED BY <1>3, <1>4

LEMMA FlagsTold ==
  ASSUME MachineOK, NEW op, Is(op, "ni") \/ Instruction(op)
  PROVE  FlagsToldBy(op)
<1>1. CASE Is(op, "ni")
  BY <1>1 DEF FlagsToldBy, Is
<1>2. CASE Instruction(op)
  <2> DEFINE v == Load(Cell(op))
             n == Behind(Mode(op))
  <2>1. v \in Byte
    BY CellAddr
  <2>2. /\ cpu.a \in Byte /\ cpu.x \in Byte /\ cpu.y \in Byte
        /\ CarryIn \in {0, 1} /\ 0 \in {0, 1}
    BY RegistersKnown DEF CarryIn
  <2>3. /\ Is(op, "adc") => Sum(cpu.a + v + CarryIn, 255 - v, n)
        /\ Is(op, "sbc") => Sum(cpu.a + 255 + CarryIn - v, v, n)
        /\ Is(op, "cmp") => Compare(cpu.a, v, n)
        /\ Is(op, "cpx") => Compare(cpu.x, v, n)
        /\ Is(op, "cpy") => Compare(cpu.y, v, n)
    <3>1. Ops[op].name \in {"adc", "sbc", "cmp", "cpx", "cpy"}
            => Arithmetic(op)
      BY <1>2, FamilyKnown
    <3> QED BY <3>1 DEF Arithmetic, Is
  <2>4. /\ Is(op, "asl")
            => ToCell(op, ShiftedLeft(v, 0), With(cpu.p, FlagC, High(v)))
        /\ Is(op, "rol")
            => ToCell(op, ShiftedLeft(v, CarryIn),
                      With(cpu.p, FlagC, High(v)))
        /\ Is(op, "lsr")
            => ToCell(op, ShiftedRight(v, 0), With(cpu.p, FlagC, v % 2 = 1))
        /\ Is(op, "ror")
            => ToCell(op, ShiftedRight(v, CarryIn),
                      With(cpu.p, FlagC, v % 2 = 1))
    <3>1. Ops[op].name \in {"asl", "rol", "lsr", "ror"} => ModifyMemory(op)
      BY <1>2, FamilyKnown
    <3> QED BY <3>1 DEF ModifyMemory, Is
  <2>5. /\ Is(op, "asla")
            => ToA(ShiftedLeft(cpu.a, 0), With(cpu.p, FlagC, High(cpu.a)),
                   At(1))
        /\ Is(op, "rola")
            => ToA(ShiftedLeft(cpu.a, CarryIn),
                   With(cpu.p, FlagC, High(cpu.a)), At(1))
        /\ Is(op, "lsra")
            => ToA(ShiftedRight(cpu.a, 0),
                   With(cpu.p, FlagC, cpu.a % 2 = 1), At(1))
        /\ Is(op, "rora")
            => ToA(ShiftedRight(cpu.a, CarryIn),
                   With(cpu.p, FlagC, cpu.a % 2 = 1), At(1))
    <3>1. Ops[op].name \in {"asla", "rola", "lsra", "rora"}
            => ModifyRegister(op)
      BY <1>2, FamilyKnown
    <3> QED BY <3>1 DEF ModifyRegister, Is
  <2>6. /\ High(v) \in BOOLEAN /\ (v % 2 = 1) \in BOOLEAN
        /\ High(cpu.a) \in BOOLEAN /\ (cpu.a % 2 = 1) \in BOOLEAN
    BY DEF High
  <2>7. /\ ShiftedLeft(v, 0) \in Byte /\ ShiftedLeft(v, CarryIn) \in Byte
        /\ ShiftedRight(v, 0) \in Byte /\ ShiftedRight(v, CarryIn) \in Byte
        /\ ShiftedLeft(cpu.a, 0) \in Byte
        /\ ShiftedLeft(cpu.a, CarryIn) \in Byte
        /\ ShiftedRight(cpu.a, 0) \in Byte
        /\ ShiftedRight(cpu.a, CarryIn) \in Byte
    BY <2>1, <2>2, ShiftsByte
  <2> HIDE DEF v, n
  <2>8. /\ Is(op, "adc") => ResultTold(cpu.a + v + CarryIn,
                              Signed(cpu.a) + Signed(v) + CarryIn,
                              cpu.a + v + CarryIn > 255)
        /\ Is(op, "sbc") => ResultTold(cpu.a - v - (1 - CarryIn),
                              Signed(cpu.a) - Signed(v) - (1 - CarryIn),
                              cpu.a >= v + (1 - CarryIn))
    BY <2>1, <2>3, SumTold, DifferenceTold
  <2>9. /\ Is(op, "cmp") => OrderTold(cpu.a, v)
        /\ Is(op, "cpx") => OrderTold(cpu.x, v)
        /\ Is(op, "cpy") => OrderTold(cpu.y, v)
    BY <2>1, <2>2, <2>3, CompareTold
  <2> DEFINE r == Read(mem', Cell(op))
             kept == Cell(op) < RamSize
  <2>10. ASSUME kept
         PROVE  /\ Is(op, "asl") => LeftTold(v, 0, r)
                /\ Is(op, "rol") => LeftTold(v, CarryIn, r)
                /\ Is(op, "lsr") => RightTold(v, 0, r)
                /\ Is(op, "ror") => RightTold(v, CarryIn, r)
    <3>1. ASSUME Is(op, "asl") PROVE LeftTold(v, 0, r)
      <4>1. /\ CarryOut = IF High(v) THEN 1 ELSE 0
            /\ r = ShiftedLeft(v, 0)
        BY <2>4, <2>6, <2>7, <2>10, <3>1, CellShiftTold
      <4> QED BY <2>1, <2>2, <4>1, ShiftTold
    <3>2. ASSUME Is(op, "rol") PROVE LeftTold(v, CarryIn, r)
      <4>1. /\ CarryOut = IF High(v) THEN 1 ELSE 0
            /\ r = ShiftedLeft(v, CarryIn)
        BY <2>4, <2>6, <2>7, <2>10, <3>2, CellShiftTold
      <4> QED BY <2>1, <2>2, <4>1, ShiftTold
    <3>3. ASSUME Is(op, "lsr") PROVE RightTold(v, 0, r)
      <4>1. /\ CarryOut = IF v % 2 = 1 THEN 1 ELSE 0
            /\ r = ShiftedRight(v, 0)
        BY <2>4, <2>6, <2>7, <2>10, <3>3, CellShiftTold
      <4> QED BY <2>1, <2>2, <4>1, ShiftTold
    <3>4. ASSUME Is(op, "ror") PROVE RightTold(v, CarryIn, r)
      <4>1. /\ CarryOut = IF v % 2 = 1 THEN 1 ELSE 0
            /\ r = ShiftedRight(v, CarryIn)
        BY <2>4, <2>6, <2>7, <2>10, <3>4, CellShiftTold
      <4> QED BY <2>1, <2>2, <4>1, ShiftTold
    <3> QED BY <3>1, <3>2, <3>3, <3>4
  <2>11. ASSUME Is(op, "asla") PROVE LeftTold(cpu.a, 0, cpu'.a)
    <3>1. /\ CarryOut = IF High(cpu.a) THEN 1 ELSE 0
          /\ cpu'.a = ShiftedLeft(cpu.a, 0)
      BY <2>5, <2>6, <2>7, <2>11, RegisterShiftTold
    <3> QED BY <2>2, <3>1, ShiftTold
  <2>12. ASSUME Is(op, "rola") PROVE LeftTold(cpu.a, CarryIn, cpu'.a)
    <3>1. /\ CarryOut = IF High(cpu.a) THEN 1 ELSE 0
          /\ cpu'.a = ShiftedLeft(cpu.a, CarryIn)
      BY <2>5, <2>6, <2>7, <2>12, RegisterShiftTold
    <3> QED BY <2>2, <3>1, ShiftTold
  <2>13. ASSUME Is(op, "lsra") PROVE RightTold(cpu.a, 0, cpu'.a)
    <3>1. /\ CarryOut = IF cpu.a % 2 = 1 THEN 1 ELSE 0
          /\ cpu'.a = ShiftedRight(cpu.a, 0)
      BY <2>5, <2>6, <2>7, <2>13, RegisterShiftTold
    <3> QED BY <2>2, <3>1, ShiftTold
  <2>14. ASSUME Is(op, "rora") PROVE RightTold(cpu.a, CarryIn, cpu'.a)
    <3>1. /\ CarryOut = IF cpu.a % 2 = 1 THEN 1 ELSE 0
          /\ cpu'.a = ShiftedRight(cpu.a, CarryIn)
      BY <2>5, <2>6, <2>7, <2>14, RegisterShiftTold
    <3> QED BY <2>2, <3>1, ShiftTold
  <2> QED BY <2>8, <2>9, <2>10, <2>11, <2>12, <2>13, <2>14
          DEF FlagsToldBy, v
<1> QED BY <1>1, <1>2

-----------------------------------------------------------------------------
(* Time.                                                                   *)
Times == [sec: Nat, nsec: Nat, ticks: Nat]
Value(t) == t.sec * Second + t.nsec

LEMMA Divided ==
  ASSUME NEW n \in Nat, NEW d \in Nat \ {0}
  PROVE  /\ n \div d \in Nat /\ n % d \in Nat /\ n % d < d
         /\ n % d = n - d * (n \div d)
<1>1. n \div d \in Int /\ n \div d >= 0
  OBVIOUS
<1>2. n % d \in Int /\ n % d >= 0 /\ n % d < d
  OBVIOUS
<1>3. n % d = n - d * (n \div d)
  OBVIOUS
<1> QED BY <1>1, <1>2, <1>3

LEMMA Distributed ==
  ASSUME NEW a \in Int, NEW b \in Int, NEW c \in Int
  PROVE  /\ (a + b) * c = a * c + b * c
         /\ (a - b) * c = a * c - b * c
         /\ a * c = c * a /\ a * c \in Int
  OBVIOUS

LEMMA ValueInt == \A t \in Times : Value(t) \in Int
<1> SUFFICES ASSUME NEW t \in Times PROVE Value(t) \in Int
  OBVIOUS
<1>1. t.sec * Second \in Int
  BY CpuAssumption, Distributed DEF Times
<1> QED BY <1>1 DEF Value, Times

(* Waiting for real time carries whole steps over, and nothing else.       *)
LEMMA SyncedTells ==
  ASSUME NEW t \in Times, t.nsec < Second
  PROVE  /\ Synced(t) \in Times /\ Synced(t).nsec < Second
         /\ Synced(t).ticks < TickStep
         /\ \E q \in Nat :
              /\ Value(Synced(t)) = Value(t) + q * StepNs
              /\ Synced(t).ticks = t.ticks - q * TickStep
<1>1. /\ t.sec \in Nat /\ t.nsec \in Nat /\ t.ticks \in Nat
      /\ TickStep \in Nat \ {0} /\ StepNs \in Nat \ {0}
      /\ Second \in Nat \ {0}
  BY CpuAssumption DEF Times
<1>2. CASE t.ticks < TickStep
  <2>1. Synced(t) = t
    BY <1>2 DEF Synced
  <2>2. /\ Value(t) = Value(t) + 0 * StepNs
        /\ t.ticks = t.ticks - 0 * TickStep
    <3>1. Value(t) \in Int
      BY <1>1 DEF Value
    <3>2. 0 * StepNs = 0 /\ 0 * TickStep = 0
      BY <1>1
    <3> QED BY <1>1, <3>1, <3>2
  <2> QED BY <1>2, <2>1, <2>2
<1>3. CASE ~(t.ticks < TickStep)
  <2>1. PICK q \in Nat : q = t.ticks \div TickStep
    BY <1>1, Divided
  <2>2. PICK new \in Nat : new = t.nsec + q * StepNs
    BY <1>1, <2>1
  <2>3. PICK k \in Nat, r \in Nat :
          /\ k = new \div Second /\ r = new % Second
          /\ r < Second /\ r = new - Second * k
    BY <1>1, <2>2, Divided
  <2>4. PICK left \in Nat : /\ left = t.ticks % TickStep /\ left < TickStep
                            /\ left = t.ticks - TickStep * q
    BY <1>1, <2>1, Divided
  <2>5. Synced(t) = [sec |-> t.sec + k, nsec |-> r, ticks |-> left]
    BY <1>3, <2>1, <2>2, <2>3, <2>4 DEF Synced
  <2>6. Value(Synced(t)) = Value(t) + q * StepNs
    <3>1. (t.sec + k) * Second = t.sec * Second + k * Second
          /\ k * Second = Second * k
      <4>1. t.sec \in Int /\ k \in Int /\ Second \in Int
        BY <1>1, <2>3
      <4>2. \A a, b, c \in Int : (a + b) * c = a * c + b * c
                                /\ a * c = c * a
        BY Distributed
      <4> QED BY <4>1, <4>2
    <3>2. Value(Synced(t)) = (t.sec + k) * Second + r
      BY <2>5 DEF Value
    <3>3. t.sec * Second \in Int /\ k * Second \in Int /\ q * StepNs \in Int
      BY <1>1, <2>1, <2>3, Distributed
    <3> QED BY <1>1, <2>2, <2>3, <3>1, <3>2, <3>3 DEF Value
  <2>7. Synced(t).ticks = t.ticks - q * TickStep
    BY <1>1, <2>1, <2>4, <2>5, Distributed
  <2>8. Synced(t) \in Times
    BY <1>1, <2>5 DEF Times
  <2> QED BY <2>3, <2>4, <2>5, <2>6, <2>7, <2>8
<1> QED BY <1>2, <1>3

(* Cycles counted, against the time waited for and what is left of them.   *)
Exact(t, n) == (Value(t) - began) * TickStep = (n - t.ticks) * StepNs

LEMMA SyncedExact ==
  ASSUME NEW t \in Times, t.nsec < Second, NEW n \in Nat, began \in Nat,
         Exact(t, n)
  PROVE  Exact(Synced(t), n)
<1>1. PICK q \in Nat : /\ Value(Synced(t)) = Value(t) + q * StepNs
                       /\ Synced(t).ticks = t.ticks - q * TickStep
  BY SyncedTells
<1>2. /\ t.ticks \in Int /\ TickStep \in Int /\ StepNs \in Int
      /\ Value(t) \in Int
  <2>1. Value(t) \in Int
    BY ValueInt
  <2> QED BY <2>1, CpuAssumption DEF Times
<1> DEFINE u == q * StepNs
           w == q * TickStep
           ahead == Value(t) - began
           spent == n - t.ticks
<1>3. u \in Int /\ w \in Int /\ ahead \in Int /\ spent \in Int
  BY <1>2, Distributed
<1>4. u * TickStep = w * StepNs
  BY <1>2
<1>5. ahead * TickStep = spent * StepNs
  BY DEF Exact
<1>6. Value(Synced(t)) - began = ahead + u /\ n - Synced(t).ticks = spent + w
  BY <1>1, <1>2, <1>3
<1> HIDE DEF u, w, ahead, spent
<1>7. (ahead + u) * TickStep = ahead * TickStep + u * TickStep
      /\ (spent + w) * StepNs = spent * StepNs + w * StepNs
  BY <1>2, <1>3, Distributed
<1> QED BY <1>4, <1>5, <1>6, <1>7 DEF Exact

ClockInv ==
    /\ clock \in Times /\ clock.nsec < Second /\ clock.ticks < TickStep + 7
    /\ cycles \in Nat /\ began \in Nat /\ Exact(clock, cycles)

LEMMA ClockTells == ClockInv => ClockExact
  BY DEF ClockInv, ClockExact, Exact, Value, Now

LEMMA SpendKeeps ==
  ASSUME ClockInv, NEW op, Ops[op].cycles \in 1..7, Spend(op), began' = began
  PROVE  ClockInv' /\ Value(clock) <= Value(clock')
<1> DEFINE fetched == Synced(clock)
           n == Ops[op].cycles
           counted == [fetched EXCEPT !.ticks = @ + n]
<1>1. /\ fetched \in Times /\ fetched.nsec < Second
      /\ fetched.ticks < TickStep /\ Exact(fetched, cycles)
  BY SyncedTells, SyncedExact DEF ClockInv
<1>2. n \in Nat /\ n <= 7 /\ cycles \in Nat /\ TickStep \in Nat /\ StepNs \in Nat
  BY CpuAssumption DEF ClockInv
<1>3. /\ counted \in Times /\ counted.nsec < Second
      /\ counted.ticks = fetched.ticks + n
      /\ counted.sec = fetched.sec /\ counted.nsec = fetched.nsec
  <2> HIDE DEF fetched, n
  <2> QED BY <1>1, <1>2 DEF Times
<1>4. counted.ticks < TickStep + 7
  BY <1>1, <1>2, <1>3 DEF Times
<1>5. Exact(counted, cycles + n)
  <2>1. Value(counted) = Value(fetched)
    BY <1>3 DEF Value
  <2>2. (cycles + n) - counted.ticks = cycles - fetched.ticks
    BY <1>1, <1>2, <1>3 DEF Times
  <2> QED BY <1>1, <2>1, <2>2 DEF Exact
<1> HIDE DEF counted
<1>6. clock' = counted \/ clock' = Synced(counted)
  BY DEF Spend, counted
<1>7. cycles' = cycles + n /\ cycles' \in Nat
  BY <1>2 DEF Spend
<1>8. /\ clock' \in Times /\ clock'.nsec < Second
      /\ clock'.ticks < TickStep + 7 /\ Exact(clock', cycles + n)
  <2>1. CASE clock' = counted
    BY <1>3, <1>4, <1>5, <2>1
  <2>2. CASE clock' = Synced(counted)
    <3>1. /\ Synced(counted) \in Times /\ Synced(counted).nsec < Second
          /\ Synced(counted).ticks < TickStep
      BY <1>3, SyncedTells
    <3>2. Exact(Synced(counted), cycles + n)
      BY <1>2, <1>3, <1>5, <1>7, SyncedExact DEF ClockInv
    <3>3. Synced(counted).ticks < TickStep + 7
      BY <1>2, <3>1 DEF Times
    <3> QED BY <2>2, <3>1, <3>2, <3>3
  <2> QED BY <1>6, <2>1, <2>2
<1>9. ClockInv'
  BY <1>7, <1>8 DEF ClockInv, Exact, Value
<1>10. \A t \in Times : t.nsec < Second => Value(t) <= Value(Synced(t))
  <2> SUFFICES ASSUME NEW t \in Times, t.nsec < Second
               PROVE  Value(t) <= Value(Synced(t))
    OBVIOUS
  <2>1. PICK q \in Nat : Value(Synced(t)) = Value(t) + q * StepNs
    BY SyncedTells
  <2>2. q * StepNs \in Int /\ q * StepNs >= 0
    BY <1>2
  <2>3. Value(t) \in Int
    BY ValueInt
  <2> QED BY <2>1, <2>2, <2>3
<1>11. Value(clock) <= Value(clock')
  <2>1. Value(clock) <= Value(fetched)
    BY <1>10 DEF ClockInv
  <2>2. Value(counted) = Value(fetched)
    BY <1>3 DEF Value
  <2>3. Value(counted) <= Value(clock')
    <3>1. Value(counted) \in Int
      BY <1>3, ValueInt
    <3> QED BY <1>3, <1>6, <1>10, <3>1
  <2>4. /\ Value(clock) \in Int /\ Value(fetched) \in Int
        /\ Value(clock') \in Int
    BY <1>1, <1>8, ValueInt DEF ClockInv
  <2> HIDE DEF fetched
  <2> QED BY <2>1, <2>2, <2>3, <2>4
<1> QED BY <1>9, <1>11

-----------------------------------------------------------------------------
(* Calls.  A call that is remembered finds its return address in the two   *)
(* bytes above the stack pointer it left.                                  *)
Held(m, c) == IF c \in DOMAIN m THEN m[c] ELSE Fill
Above(s, k) == 256 + ((s + k) % 256)
Return(m, s) == (Held(m, Above(s, 1)) + 256 * Held(m, Above(s, 2)) + 1) % 65536

CallsInv == \A s \in DOMAIN calls : s \in Byte /\ calls[s] = Return(mem, s)

LEMMA AboveStack ==
  ASSUME NEW s \in Byte, NEW k \in Nat
  PROVE  Above(s, k) \in 256..511 /\ \A m : Read(m, Above(s, k)) = Held(m, Above(s, k))
<1>1. (s + k) % 256 \in 0..255
  BY ByteInt
<1>2. Above(s, k) \in 256..511
  BY <1>1 DEF Above
<1>3. Above(s, k) < RamSize
  BY <1>2 DEF RamSize
<1> QED BY <1>2, <1>3 DEF Read, Held

LEMMA ReturnByStack ==
  ASSUME MachineOK, CallsInv, NEW op, Is(op, "rts"), Instruction(op),
         cpu.s \in DOMAIN calls
  PROVE  cpu'.pc = calls[cpu.s] /\ cpu'.s = (cpu.s + 2) % 256
<1>1. Rts(op)
  BY FamilyKnown
<1>2. cpu.s \in Byte /\ calls[cpu.s] = Return(mem, cpu.s)
  BY DEF CallsInv
<1>3. Pulled(1) = Held(mem, Above(cpu.s, 1))
      /\ Pulled(2) = Held(mem, Above(cpu.s, 2))
  BY <1>2, AboveStack DEF Pulled, Load, Above
<1> DEFINE n == (Pulled(1) + 256 * Pulled(2) + 1) % 65536
           up == (cpu.s + 2) % 256
<1>4. n = calls[cpu.s]
  BY <1>2, <1>3 DEF Return
<1>5. cpu' = [cpu EXCEPT !.s = up, !.pc = n] /\ cpu \in Registers
  BY <1>1 DEF Rts, MachineOK
<1> HIDE DEF n, up
<1>6. cpu'.pc = n /\ cpu'.s = up
  BY <1>5 DEF Registers
<1> QED BY <1>4, <1>6 DEF up

LEMMA DownUp ==
  ASSUME NEW s \in Byte, NEW t, t = (s - 2) % 256
  PROVE  /\ t \in Byte
         /\ Above(t, 1) = 256 + ((s - 1) % 256)
         /\ Above(t, 2) = 256 + s
         /\ 256 + s # 256 + ((s - 1) % 256)
<1>1. s \in Int /\ 0 <= s /\ s < 256
  BY DEF Byte
<1>2. t = IF s >= 2 THEN s - 2 ELSE s + 254
  BY <1>1
<1>3. (s - 1) % 256 = IF s >= 1 THEN s - 1 ELSE 255
  BY <1>1
<1>4. (t + 1) % 256 = (s - 1) % 256
  <2>1. t \in Int /\ (t + 1 = s - 1 \/ t + 1 = s + 255)
    BY <1>1, <1>2
  <2>2. CASE s >= 2
    BY <1>1, <1>2, <1>3, <2>2
  <2>3. CASE s = 1
    BY <1>2, <1>3, <2>3
  <2>4. CASE s = 0
    BY <1>2, <1>3, <2>4
  <2> QED BY <1>1, <2>2, <2>3, <2>4
<1>5. (t + 2) % 256 = s
  BY <1>1, <1>2
<1>6. t \in Byte
  BY <1>1, <1>2 DEF Byte
<1>7. s # (s - 1) % 256
  BY <1>1, <1>3
<1>8. (s - 1) % 256 \in Int
  BY <1>1
<1> QED BY <1>1, <1>4, <1>5, <1>6, <1>7, <1>8 DEF Above

LEMMA CallPushed ==
  ASSUME MachineOK, NEW op, Jsr(op), NEW t, t = (cpu.s - 2) % 256
  PROVE  t \in Byte /\ Return(mem', t) = At(3)
<1>1. cpu.s \in Byte /\ cpu.pc \in Int
  BY RegistersKnown, AddrInt
<1>2. /\ t \in Byte
      /\ Above(t, 1) = 256 + ((cpu.s - 1) % 256)
      /\ Above(t, 2) = 256 + cpu.s
      /\ 256 + cpu.s # 256 + ((cpu.s - 1) % 256)
  BY <1>1, DownUp
<1>3. PICK n \in Addr : n = At(2)
  BY LoadKnown
<1>4. PICK hi, lo : hi = n \div 256 /\ lo = n % 256
  OBVIOUS
<1>5. mem' = Stored(Stored(mem, Above(t, 2), hi), Above(t, 1), lo)
  BY <1>2, <1>3, <1>4 DEF Jsr, PushedWord, Pushed
<1>6. Above(t, 1) < RamSize /\ Above(t, 2) < RamSize
  <2>1. Above(t, 1) \in 256..511 /\ Above(t, 2) \in 256..511
    BY <1>2, AboveStack
  <2> QED BY <2>1 DEF RamSize
<1>7. Held(mem', Above(t, 1)) = lo /\ Held(mem', Above(t, 2)) = hi
  BY <1>2, <1>5, <1>6 DEF Stored, Held
<1>8. lo + 256 * hi = n
  <2>1. \A k \in Int : k % 256 = k - 256 * (k \div 256)
    OBVIOUS
  <2>2. \A k \in Int : k \div 256 \in Int
    OBVIOUS
  <2>3. n \in Int /\ hi \in Int /\ lo = n - 256 * hi
    BY <1>3, <1>4, <2>1, <2>2, AddrInt
  <2> QED BY <2>3
<1>9. Return(mem', t) = (n + 1) % 65536
  BY <1>7, <1>8 DEF Return
<1>10. (n + 1) % 65536 = At(3)
  <2>1. \A c \in Int : (((c + 2) % 65536) + 1) % 65536 = (c + 3) % 65536
    OBVIOUS
  <2> QED BY <1>1, <1>3, <2>1 DEF At
<1> QED BY <1>2, <1>9, <1>10

LEMMA CallsKept ==
  ASSUME MachineOK, CallsInv, NEW op, Instruction(op) \/ Is(op, "ni"),
         Remember(op)
  PROVE  CallsInv'
<1> DEFINE s == (cpu.s - 2) % 256
           Kept(t) == \A k \in {1, 2} :
               LET c == 256 + ((t + k) % 256) IN Read(mem', c) = Read(mem, c)
           kept == {t \in DOMAIN calls : Kept(t)}
<1>1. ASSUME NEW t \in kept
      PROVE  t \in Byte /\ calls[t] = Return(mem', t)
  <2>1. t \in Byte /\ calls[t] = Return(mem, t)
    BY DEF CallsInv
  <2>2. /\ Read(mem', Above(t, 1)) = Read(mem, Above(t, 1))
        /\ Read(mem', Above(t, 2)) = Read(mem, Above(t, 2))
    BY DEF Above
  <2>3. /\ Held(mem', Above(t, 1)) = Held(mem, Above(t, 1))
        /\ Held(mem', Above(t, 2)) = Held(mem, Above(t, 2))
    BY <2>1, <2>2, AboveStack
  <2> QED BY <2>1, <2>3 DEF Return
<1>2. calls' = IF Is(op, "jsr")
               THEN [t \in kept \cup {s} |-> IF t = s THEN At(3) ELSE calls[t]]
               ELSE [t \in kept |-> calls[t]]
  BY DEF Remember
<1>3. Is(op, "jsr") => s \in Byte /\ At(3) = Return(mem', s)
  <2>1. Is(op, "jsr") => Jsr(op)
    BY FamilyKnown DEF Is
  <2> QED BY <2>1, CallPushed
<1> HIDE DEF s, kept
<1>4. \A t \in DOMAIN calls' : t \in Byte /\ calls'[t] = Return(mem', t)
  <2>1. CASE Is(op, "jsr")
    BY <1>1, <1>2, <1>3, <2>1
  <2>2. CASE ~Is(op, "jsr")
    BY <1>1, <1>2, <2>2
  <2> QED BY <2>1, <2>2
<1> QED BY <1>4 DEF CallsInv, Return, Held, Above

-----------------------------------------------------------------------------
(* One instruction, or an opcode that has none.                            *)
LEMMA Executed ==
  ASSUME MachineOK, ClockInv, CallsInv, step_6502
  PROVE  /\ cpu' \in Registers /\ MemOK(mem')
         /\ ClockInv' /\ Value(clock) <= Value(clock')
         /\ CallsInv'
         /\ FlagsToldBy(Load(cpu.pc)) /\ ReturnTold
<1> DEFINE op == Load(cpu.pc)
<1>1. op \in Byte
  BY RegistersKnown, AddrInt, LoadKnown
<1>2. Ops[op].cycles \in 1..7
  BY <1>1, CpuAssumption
<1>3. \/ Is(op, "ni") /\ UNCHANGED <<cpu, mem>>
      \/ Instruction(op)
  BY DEF step_6502
<1>4. Spend(op) /\ Remember(op) /\ began' = began
  BY DEF step_6502
<1> HIDE DEF op
<1>5. cpu' \in Registers /\ MemOK(mem')
  <2>1. CASE Is(op, "ni") /\ UNCHANGED <<cpu, mem>>
    BY <2>1, RegistersKnown DEF MachineOK
  <2>2. CASE Instruction(op)
    BY <2>2, InstructionOK DEF Effect
  <2> QED BY <1>3, <2>1, <2>2
<1>6. ClockInv' /\ Value(clock) <= Value(clock')
  BY <1>2, <1>4, SpendKeeps
<1>7. CallsInv'
  BY <1>3, <1>4, CallsKept
<1>8. FlagsToldBy(op)
  BY <1>3, FlagsTold
<1>9. Is(op, "rts") /\ cpu.s \in DOMAIN calls
        => cpu'.pc = calls[cpu.s] /\ cpu'.s = (cpu.s + 2) % 256
  <2>1. Is(op, "rts") => ~Is(op, "ni")
    BY DEF Is
  <2> QED BY <1>3, <2>1, ReturnByStack
<1> QED BY <1>5, <1>6, <1>7, <1>8, <1>9 DEF op, ReturnTold

(* What a reset leaves.                                                    *)
LEMMA PowerOn ==
  ASSUME NEW image, MemOK(image),
         NEW registers, registers \subseteq [a: Byte, x: Byte, y: Byte,
                                             s: Byte, p: SUBSET Weights],
         NEW given, given \subseteq Byte,
         NEW start \in [sec: Nat, nsec: 0..(Second - 1)],
         CpuInit(image, registers, given, start)
  PROVE  MachineOK /\ ClockInv /\ CallsInv /\ Value(start) <= Value(clock)
<1>1. mem = image /\ io \in [{0, 1} -> Byte]
  BY DEF CpuInit
<1>2. LoadWord(65532) \in Addr
  BY <1>1, ReadWordAddr DEF LoadWord
<1>3. PICK r \in registers : cpu = Reset(r)
  BY DEF CpuInit
<1>4. MachineOK
  <2>1. r.p \cup {FlagI, FlagB, 32} \in SUBSET Weights
    BY FlagsKnown
  <2> QED BY <1>1, <1>2, <1>3, <2>1 DEF MachineOK, Registers, Reset
<1> DEFINE t == [sec |-> start.sec, nsec |-> start.nsec, ticks |-> 7]
<1>5. /\ t \in Times /\ t.nsec < Second /\ t.ticks = 7
      /\ Value(t) = Value(start)
      /\ start.sec \in Nat /\ start.nsec \in Nat
  BY CpuAssumption DEF Times, Value
<1>6. /\ began = Value(start) /\ clock = Synced(t)
      /\ cycles = 7 /\ calls = [s \in {} |-> 0]
  BY DEF CpuInit, Value
<1> HIDE DEF t
<1>7. Value(start) \in Nat
  <2>1. \A a, b, c \in Nat : a * b + c \in Nat
    OBVIOUS
  <2> QED BY <1>5, <2>1, CpuAssumption DEF Value
<1>8. Exact(t, 7)
  <2>1. Value(t) - began = 0 /\ 7 - t.ticks = 0
    BY <1>5, <1>6, <1>7
  <2>2. 0 * TickStep = 0 /\ 0 * StepNs = 0
    BY CpuAssumption
  <2> QED BY <2>1, <2>2 DEF Exact
<1>9. Exact(Synced(t), 7)
  BY <1>5, <1>6, <1>7, <1>8, SyncedExact
<1>10. /\ Synced(t) \in Times /\ Synced(t).nsec < Second
       /\ Synced(t).ticks < TickStep + 7
  <2>1. /\ Synced(t) \in Times /\ Synced(t).nsec < Second
        /\ Synced(t).ticks < TickStep
    BY <1>5, SyncedTells
  <2> QED BY <2>1, CpuAssumption DEF Times
<1>11. ClockInv
  BY <1>6, <1>7, <1>9, <1>10 DEF ClockInv
<1>12. CallsInv
  BY <1>6 DEF CallsInv
<1>13. Value(start) <= Value(clock)
  <2>1. PICK q \in Nat : Value(Synced(t)) = Value(t) + q * StepNs
    BY <1>5, SyncedTells
  <2>2. q * StepNs \in Int /\ q * StepNs >= 0
    BY CpuAssumption
  <2> QED BY <1>5, <1>6, <1>7, <2>1, <2>2
<1> QED BY <1>4, <1>11, <1>12, <1>13

-----------------------------------------------------------------------------
(* Part 2: the machine around it.                                          *)

-----------------------------------------------------------------------------
(* The queue of events.                                                    *)
Messages == [kind: {"expose", "close", "noise"}]
            \cup [kind: {"configure"}, size: Sizes]
            \cup [kind: {"press"}, pos: Keys, mod1: BOOLEAN]
            \cup [kind: {"release"}, pos: Keys]

Has(kind, q) == \E k \in 1..Len(q) : q[k].kind = kind

(* The last change of size under way tells the size the window has.        *)
LastTells(q, size) ==
    \A k \in 1..Len(q) :
        /\ q[k].kind = "configure"
        /\ \A j \in (k + 1)..Len(q) : q[j].kind # "configure"
        => q[k].size = size

LEMMA TailHas ==
  ASSUME NEW q \in Seq(Messages), q # <<>>, NEW kind, Head(q).kind # kind
  PROVE  Has(kind, Tail(q)) <=> Has(kind, q)
<1>1. /\ Len(q) \in Nat /\ Len(q) > 0 /\ Len(Tail(q)) = Len(q) - 1
      /\ \A k \in 1..(Len(q) - 1) : Tail(q)[k] = q[k + 1]
      /\ Head(q) = q[1]
  OBVIOUS
<1>2. ASSUME Has(kind, Tail(q)) PROVE Has(kind, q)
  <2>1. PICK k \in 1..(Len(q) - 1) : Tail(q)[k].kind = kind
    BY <1>1, <1>2 DEF Has
  <2>2. k + 1 \in 1..Len(q) /\ q[k + 1].kind = kind
    BY <1>1, <2>1
  <2> QED BY <2>2 DEF Has
<1>3. ASSUME Has(kind, q) PROVE Has(kind, Tail(q))
  <2>1. PICK k \in 1..Len(q) : q[k].kind = kind
    BY <1>3 DEF Has
  <2>2. k # 1
    BY <1>1, <2>1
  <2>3. k - 1 \in 1..(Len(q) - 1) /\ k = (k - 1) + 1
    BY <1>1, <2>2
  <2>4. Tail(q)[k - 1].kind = kind
    BY <1>1, <2>1, <2>3
  <2> QED BY <1>1, <2>3, <2>4 DEF Has
<1> QED BY <1>2, <1>3

LEMMA TailTells ==
  ASSUME NEW q \in Seq(Messages), q # <<>>, NEW size, LastTells(q, size)
  PROVE  LastTells(Tail(q), size)
<1>1. /\ Len(q) \in Nat /\ Len(q) > 0 /\ Len(Tail(q)) = Len(q) - 1
      /\ \A k \in 1..(Len(q) - 1) : Tail(q)[k] = q[k + 1]
  OBVIOUS
<1> SUFFICES ASSUME NEW k \in 1..Len(Tail(q)), Tail(q)[k].kind = "configure",
                    \A j \in (k + 1)..Len(Tail(q)) :
                       Tail(q)[j].kind # "configure"
             PROVE  Tail(q)[k].size = size
  BY DEF LastTells
<1>2. k + 1 \in 1..Len(q) /\ q[k + 1].kind = "configure"
  BY <1>1
<1>3. ASSUME NEW j \in (k + 2)..Len(q) PROVE q[j].kind # "configure"
  <2>1. /\ j - 1 \in (k + 1)..Len(Tail(q)) /\ j - 1 \in 1..(Len(q) - 1)
        /\ j = (j - 1) + 1
    BY <1>1
  <2>2. Tail(q)[j - 1] = q[j]
    BY <1>1, <2>1
  <2> QED BY <2>1, <2>2
<1>4. q[k + 1].size = size
  <2>1. (k + 1) + 1 = k + 2
    BY <1>1
  <2> QED BY <1>2, <1>3, <2>1 DEF LastTells
<1> QED BY <1>1, <1>4

(* A change of size at the head of the queue, with none behind it.         *)
LEMMA HeadTells ==
  ASSUME NEW q \in Seq(Messages), q # <<>>, NEW size, LastTells(q, size),
         Head(q).kind = "configure", ~Has("configure", Tail(q))
  PROVE  Head(q).size = size
<1>1. /\ Len(q) \in Nat /\ Len(q) > 0 /\ Len(Tail(q)) = Len(q) - 1
      /\ \A k \in 1..(Len(q) - 1) : Tail(q)[k] = q[k + 1]
      /\ Head(q) = q[1]
  OBVIOUS
<1>2. ASSUME NEW j \in 2..Len(q) PROVE q[j].kind # "configure"
  <2>1. j - 1 \in 1..(Len(q) - 1) /\ j = (j - 1) + 1
    BY <1>1
  <2> QED BY <1>1, <2>1 DEF Has
<1>3. 1 \in 1..Len(q) /\ 1 + 1 = 2
  BY <1>1
<1> QED BY <1>1, <1>2, <1>3 DEF LastTells

(* Events behind the queue that say nothing of the window's size.          *)
LEMMA MoreEvents ==
  ASSUME NEW q \in Seq(Messages), NEW r \in Seq(Messages),
         ~Has("configure", r)
  PROVE  /\ q \o r \in Seq(Messages)
         /\ Has("configure", q \o r) <=> Has("configure", q)
         /\ Has("expose", q \o r) <=> Has("expose", q) \/ Has("expose", r)
         /\ \A size : LastTells(q, size) => LastTells(q \o r, size)
<1>1. /\ q \o r \in Seq(Messages)
      /\ Len(q) \in Nat /\ Len(r) \in Nat /\ Len(q \o r) = Len(q) + Len(r)
      /\ \A k \in 1..Len(q) : (q \o r)[k] = q[k]
      /\ \A k \in (Len(q) + 1)..(Len(q) + Len(r)) :
            (q \o r)[k] = r[k - Len(q)]
  OBVIOUS
<1>2. ASSUME NEW kind
      PROVE  Has(kind, q \o r) <=> Has(kind, q) \/ Has(kind, r)
  <2>1. ASSUME Has(kind, q \o r) PROVE Has(kind, q) \/ Has(kind, r)
    <3>1. PICK k \in 1..(Len(q) + Len(r)) : (q \o r)[k].kind = kind
      BY <1>1, <2>1 DEF Has
    <3>2. k \in 1..Len(q) \/ /\ k \in (Len(q) + 1)..(Len(q) + Len(r))
                             /\ k - Len(q) \in 1..Len(r)
      BY <1>1
    <3> QED BY <1>1, <3>1, <3>2 DEF Has
  <2>2. ASSUME Has(kind, q) PROVE Has(kind, q \o r)
    <3>1. PICK k \in 1..Len(q) : q[k].kind = kind
      BY <2>2 DEF Has
    <3>2. k \in 1..Len(q \o r)
      BY <1>1
    <3> QED BY <1>1, <3>1, <3>2 DEF Has
  <2>3. ASSUME Has(kind, r) PROVE Has(kind, q \o r)
    <3>1. PICK k \in 1..Len(r) : r[k].kind = kind
      BY <2>3 DEF Has
    <3>2. /\ k + Len(q) \in (Len(q) + 1)..(Len(q) + Len(r))
          /\ (k + Len(q)) - Len(q) = k
          /\ k + Len(q) \in 1..Len(q \o r)
      BY <1>1
    <3>3. (q \o r)[k + Len(q)].kind = kind
      BY <1>1, <3>1, <3>2
    <3> QED BY <3>2, <3>3 DEF Has
  <2> QED BY <2>1, <2>2, <2>3
<1>3. ASSUME NEW size, LastTells(q, size) PROVE LastTells(q \o r, size)
  <2> SUFFICES ASSUME NEW k \in 1..Len(q \o r),
                      (q \o r)[k].kind = "configure",
                      \A j \in (k + 1)..Len(q \o r) :
                         (q \o r)[j].kind # "configure"
               PROVE  (q \o r)[k].size = size
    BY DEF LastTells
  <2>1. k \in 1..Len(q)
    <3> SUFFICES ASSUME k \notin 1..Len(q) PROVE FALSE
      OBVIOUS
    <3>1. k \in (Len(q) + 1)..(Len(q) + Len(r)) /\ k - Len(q) \in 1..Len(r)
      BY <1>1
    <3>2. r[k - Len(q)].kind = "configure"
      BY <1>1, <3>1
    <3> QED BY <3>1, <3>2 DEF Has
  <2>2. ASSUME NEW j \in (k + 1)..Len(q) PROVE q[j].kind # "configure"
    <3>1. j \in 1..Len(q) /\ j \in (k + 1)..Len(q \o r)
      BY <1>1, <2>1
    <3> QED BY <1>1, <3>1
  <2>3. (q \o r)[k] = q[k]
    BY <1>1, <2>1
  <2> QED BY <1>3, <2>1, <2>2, <2>3 DEF LastTells
<1>4. Has("configure", q \o r) <=> Has("configure", q)
  BY <1>2
<1>5. Has("expose", q \o r) <=> Has("expose", q) \/ Has("expose", r)
  BY <1>2
<1>6. \A size : LastTells(q, size) => LastTells(q \o r, size)
  BY <1>3
<1> QED BY <1>1, <1>4, <1>5, <1>6

LEMMA NoiseOnly ==
  ASSUME NEW n \in Nat
  PROVE  /\ Noise(n) \in Seq(Messages)
         /\ ~Has("configure", Noise(n)) /\ ~Has("expose", Noise(n))
<1>1. [kind |-> "noise"] \in Messages
  BY DEF Messages
<1>2. Noise(n) \in Seq(Messages) /\ Len(Noise(n)) = n
  BY <1>1 DEF Noise
<1> QED BY <1>2 DEF Has, Noise

LEMMA CopiesCounted ==
  ASSUME NEW S, S \subseteq Cells
  PROVE  Cardinality(S) \in Nat
<1>1. ASSUME NEW a \in Int, NEW b \in Int, NEW T, T \subseteq a..b
      PROVE  IsFiniteSet(T)
  <2>1. IsFiniteSet(a..b)
    BY FS_Interval
  <2> QED BY <1>1, <2>1, FS_Subset
<1>2. IsFiniteSet(Columns) /\ IsFiniteSet(Lines)
  <2>1. PICK a \in Int, b \in Int, d \in Int : a = 0 /\ b = 39 /\ d = 199
    OBVIOUS
  <2>2. Columns \subseteq a..b /\ Lines \subseteq a..d
    BY <2>1, EmulatorAssumption
  <2> QED BY <1>1, <2>2
<1>3. IsFiniteSet(Cells)
  BY <1>2, FS_Product DEF Cells
<1> QED BY <1>3, FS_Subset, FS_CardinalityType
-----------------------------------------------------------------------------
(* The inductive invariant.  Unless a change of size is under way the      *)
(* picture has the geometry of the window; unless the window is known to   *)
(* have lost something it shows what the cache says; and the last change   *)
(* of size under way is the one the window has seen.                       *)
QueueInv == events \in Seq(Messages)
SizeInv == LastTells(events, window)
GeometryInv == ~Has("configure", events) => gui = Geometry(window)
CacheInv == ~Has("expose", events) =>
              \A c \in Cells : shown[c] = Tile(gui, pixmap, oldgfx[Idx(c)])
PictureInv == QueueInv /\ SizeInv /\ GeometryInv /\ CacheInv

LEMMA InvShows ==
  ASSUME PictureInv
  PROVE  PictureKept
<1> SUFFICES ASSUME Settled, gui.scale <= pixmap
             PROVE  Shows(oldgfx)
  BY DEF PictureKept
<1>1. ~Has("configure", events) /\ ~Has("expose", events)
  BY DEF Settled, WindowEvents, Has
<1>2. gui = Geometry(window)
  BY <1>1 DEF PictureInv, GeometryInv
<1>3. \A c \in Cells : shown[c] = Tile(gui, pixmap, oldgfx[Idx(c)])
  BY <1>1 DEF PictureInv, CacheInv
<1> QED BY <1>2, <1>3 DEF Shows, Tile

LEMMA InitPicture ==
  ASSUME Init
  PROVE  PictureInv
<1>1. /\ gui = Geometry(window)
      /\ events = <<[kind |-> "expose"]>>
  BY DEF Init
<1>2. [kind |-> "expose"] \in Messages
  BY DEF Messages
<1>3. /\ events \in Seq(Messages) /\ Len(events) = 1
      /\ events[1].kind = "expose"
  BY <1>1, <1>2
<1>4. Has("expose", events) /\ ~Has("configure", events)
  BY <1>3 DEF Has
<1> QED BY <1>1, <1>3, <1>4
        DEF PictureInv, QueueInv, SizeInv, GeometryInv, CacheInv, LastTells

(* A redraw of everything, or of what differs in a picture that was kept.  *)
LEMMA Drawn ==
  ASSUME NEW force \in BOOLEAN, NEW was, NEW queue \in Seq(Messages),
         UpdateDisplay(force, was, queue),
         ~force => \/ Has("expose", queue)
                   \/ /\ gui' = gui /\ pixmap' = pixmap
                      /\ \A c \in Cells :
                            was[c] = Tile(gui, pixmap, oldgfx[Idx(c)])
  PROVE  /\ events' \in Seq(Messages)
         /\ Has("configure", events') <=> Has("configure", queue)
         /\ \A size : LastTells(queue, size) => LastTells(events', size)
         /\ CacheInv'
         /\ oldgfx' = [i \in Indices |-> Gfx(i)]
<1> DEFINE copied == {c \in Cells :
                        force \/ oldgfx[Idx(c)] # Gfx(Idx(c))}
<1>1. /\ shown' = [c \in Cells |-> IF c \in copied
                                   THEN Tile(gui', pixmap', Gfx(Idx(c)))
                                   ELSE was[c]]
      /\ oldgfx' = [i \in Indices |-> Gfx(i)]
      /\ events' = queue \o Noise(Cardinality(copied))
  BY DEF UpdateDisplay
<1>2. Cardinality(copied) \in Nat
  BY CopiesCounted
<1>3. /\ events' \in Seq(Messages)
      /\ Has("configure", events') <=> Has("configure", queue)
      /\ Has("expose", events') <=> Has("expose", queue)
      /\ \A size : LastTells(queue, size) => LastTells(events', size)
  <2> HIDE DEF copied
  <2>1. /\ Noise(Cardinality(copied)) \in Seq(Messages)
        /\ ~Has("configure", Noise(Cardinality(copied)))
        /\ ~Has("expose", Noise(Cardinality(copied)))
    BY <1>2, NoiseOnly
  <2> QED BY <1>1, <2>1, MoreEvents
<1>4. \A c \in Cells : Idx(c) \in Indices
  BY DEF Indices
<1>5. CacheInv'
  <2> SUFFICES ASSUME ~Has("expose", queue), NEW c \in Cells
               PROVE  shown'[c] = Tile(gui', pixmap', oldgfx'[Idx(c)])
    BY <1>3 DEF CacheInv, Cells
  <2>1. oldgfx'[Idx(c)] = Gfx(Idx(c))
    BY <1>1, <1>4
  <2>2. CASE c \in copied
    BY <1>1, <2>1, <2>2
  <2>3. CASE c \notin copied
    <3>1. ~force /\ oldgfx[Idx(c)] = Gfx(Idx(c))
      BY <2>3
    <3>2. shown'[c] = was[c]
      BY <1>1, <2>3
    <3> QED BY <2>1, <3>1, <3>2
  <2> QED BY <2>2, <2>3
<1> QED BY <1>1, <1>3, <1>5

(* The loop draws in three of its turns; what the queue holds then.        *)
Drawing == (redraw /\ PollNothing) \/ Expose \/ Configure

LEMMA DrawingStep ==
  ASSUME PictureInv, Drawing
  PROVE  PictureInv' /\ oldgfx' = [i \in Indices |-> Gfx(i)] /\ mem' = mem /\ io' = io
<1>1. mem' = mem /\ io' = io /\ window' = window
  BY DEF Drawing, PollNothing, Expose, Configure, Polled, Polling
<1>2. /\ events \in Seq(Messages)
      /\ LastTells(events, window)
      /\ ~Has("configure", events) => gui = Geometry(window)
  BY DEF PictureInv, QueueInv, SizeInv, GeometryInv
<1>3. CASE redraw /\ PollNothing
  <2>1. gui' = gui /\ pixmap' = pixmap /\ UpdateDisplay(FALSE, shown, events)
    BY <1>3 DEF PollNothing
  <2>2. /\ events' \in Seq(Messages)
        /\ Has("configure", events') <=> Has("configure", events)
        /\ LastTells(events', window)
        /\ CacheInv'
        /\ oldgfx' = [i \in Indices |-> Gfx(i)]
    BY <1>2, <2>1, Drawn DEF PictureInv, CacheInv
  <2> QED BY <1>1, <1>2, <2>1, <2>2
          DEF PictureInv, QueueInv, SizeInv, GeometryInv
<1>4. CASE Expose
  <2>1. /\ gui' = gui /\ UpdateDisplay(TRUE, shown, Tail(events))
        /\ events # <<>> /\ Head(events).kind = "expose"
    BY <1>4 DEF Expose, Polled
  <2>2. /\ Tail(events) \in Seq(Messages)
        /\ Has("configure", Tail(events)) <=> Has("configure", events)
        /\ LastTells(Tail(events), window)
    BY <1>2, <2>1, TailHas, TailTells
  <2>3. /\ events' \in Seq(Messages)
        /\ Has("configure", events') <=> Has("configure", Tail(events))
        /\ LastTells(events', window)
        /\ CacheInv'
        /\ oldgfx' = [i \in Indices |-> Gfx(i)]
    BY <2>1, <2>2, Drawn
  <2> QED BY <1>1, <1>2, <2>1, <2>2, <2>3
          DEF PictureInv, QueueInv, SizeInv, GeometryInv
<1>5. CASE Configure
  <2> DEFINE queue == Tail(events) \o Noise(1)
  <2>1. /\ gui' = Geometry(Head(events).size)
        /\ UpdateDisplay(TRUE, Cleared, queue)
        /\ events # <<>> /\ Head(events).kind = "configure"
    BY <1>5 DEF Configure, Polled
  <2>2. /\ Tail(events) \in Seq(Messages)
        /\ LastTells(Tail(events), window)
        /\ ~Has("configure", Tail(events)) => Head(events).size = window
    BY <1>2, <2>1, TailTells, HeadTells
  <2>3. /\ queue \in Seq(Messages)
        /\ Has("configure", queue) <=> Has("configure", Tail(events))
        /\ LastTells(queue, window)
    BY <2>2, NoiseOnly, MoreEvents
  <2> HIDE DEF queue
  <2>4. /\ events' \in Seq(Messages)
        /\ Has("configure", events') <=> Has("configure", queue)
        /\ LastTells(events', window)
        /\ CacheInv'
        /\ oldgfx' = [i \in Indices |-> Gfx(i)]
    BY <2>1, <2>3, Drawn
  <2> QED BY <1>1, <2>1, <2>2, <2>3, <2>4
          DEF PictureInv, QueueInv, SizeInv, GeometryInv
<1> QED BY <1>3, <1>4, <1>5 DEF Drawing

(* An event that is not about the window, or none: nothing is drawn.       *)
LEMMA QuietStep ==
  ASSUME PictureInv, UNCHANGED <<window, guiVars>>,
         \/ events' = events
         \/ /\ events # <<>> /\ events' = Tail(events)
            /\ Head(events).kind \notin WindowEvents
  PROVE  PictureInv'
<1>1. /\ gui' = gui /\ pixmap' = pixmap /\ oldgfx' = oldgfx
      /\ shown' = shown /\ window' = window
  BY DEF guiVars
<1>2. /\ events \in Seq(Messages)
      /\ LastTells(events, window)
      /\ ~Has("configure", events) => gui = Geometry(window)
      /\ CacheInv
  BY DEF PictureInv, QueueInv, SizeInv, GeometryInv
<1>3. /\ events' \in Seq(Messages)
      /\ LastTells(events', window)
      /\ Has("configure", events') <=> Has("configure", events)
      /\ Has("expose", events') <=> Has("expose", events)
  <2>1. CASE events' = events
    BY <1>2, <2>1
  <2>2. CASE /\ events # <<>> /\ events' = Tail(events)
             /\ Head(events).kind \notin WindowEvents
    <3>1. Head(events).kind # "configure" /\ Head(events).kind # "expose"
      BY <2>2 DEF WindowEvents
    <3> QED BY <1>2, <2>2, <3>1, TailHas, TailTells
  <2> QED BY <2>1, <2>2
<1> QED BY <1>1, <1>2, <1>3
        DEF PictureInv, QueueInv, SizeInv, GeometryInv, CacheInv

(* A message that tells nothing of the window.                             *)
LEMMA UserEvent ==
  ASSUME PictureInv, NEW e \in Messages, e.kind # "configure",
         events' = Append(events, e),
         UNCHANGED <<window, gui, pixmap, oldgfx>>,
         shown' = shown \/ e.kind = "expose"
  PROVE  PictureInv'
<1>1. /\ events \in Seq(Messages)
      /\ LastTells(events, window)
      /\ ~Has("configure", events) => gui = Geometry(window)
      /\ CacheInv
  BY DEF PictureInv, QueueInv, SizeInv, GeometryInv
<1> DEFINE r == <<e>>
<1>2. /\ r \in Seq(Messages) /\ Len(r) = 1 /\ r[1] = e
      /\ events' = events \o r
  BY <1>1
<1> HIDE DEF r
<1>3. ~Has("configure", r) /\ (Has("expose", r) <=> e.kind = "expose")
  BY <1>2 DEF Has
<1>4. /\ events' \in Seq(Messages)
      /\ Has("configure", events') <=> Has("configure", events)
      /\ Has("expose", events') <=> Has("expose", events) \/ e.kind = "expose"
      /\ LastTells(events', window)
  BY <1>1, <1>2, <1>3, MoreEvents
<1> QED BY <1>1, <1>4
        DEF PictureInv, QueueInv, SizeInv, GeometryInv, CacheInv

LEMMA ResizeStep ==
  ASSUME PictureInv, ResizeWindow
  PROVE  PictureInv'
<1>1. PICK size \in Sizes :
        /\ window' = size
        /\ events' = events \o <<[kind |-> "configure", size |-> size],
                                 [kind |-> "expose"]>>
  BY DEF ResizeWindow
<1> DEFINE c == [kind |-> "configure", size |-> size]
           e == [kind |-> "expose"]
<1>2. c \in Messages /\ e \in Messages
  BY DEF Messages
<1>3. c.kind = "configure" /\ c.size = size /\ e.kind = "expose"
  OBVIOUS
<1> HIDE DEF c, e
<1>4. events' = events \o <<c, e>> /\ events \in Seq(Messages)
  BY <1>1 DEF PictureInv, QueueInv, c, e
<1>5. /\ events' \in Seq(Messages) /\ Len(events) \in Nat
      /\ Len(events') = Len(events) + 2
      /\ events'[Len(events) + 1] = c /\ events'[Len(events) + 2] = e
  BY <1>2, <1>4
<1>6. Has("configure", events') /\ Has("expose", events')
  BY <1>3, <1>5 DEF Has
<1>7. LastTells(events', size)
  <2> SUFFICES ASSUME NEW k \in 1..Len(events'), events'[k].kind = "configure",
                      \A j \in (k + 1)..Len(events') :
                         events'[j].kind # "configure"
               PROVE  events'[k].size = size
    BY DEF LastTells
  <2>1. k = Len(events) + 1
    <3>1. k # Len(events) + 2
      BY <1>3, <1>5
    <3>2. ~(k <= Len(events))
      <4> SUFFICES ASSUME k <= Len(events) PROVE FALSE
        OBVIOUS
      <4>1. Len(events) + 1 \in (k + 1)..Len(events')
        BY <1>5
      <4> QED BY <1>3, <1>5, <4>1
    <3> QED BY <1>5, <3>1, <3>2
  <2> QED BY <1>3, <1>5, <2>1
<1> QED BY <1>1, <1>5, <1>6, <1>7
        DEF PictureInv, QueueInv, SizeInv, GeometryInv, CacheInv

LEMMA PictureStep ==
  ASSUME PictureInv, [Next]_vars
  PROVE  PictureInv'
<1>1. CASE Drawing
  BY <1>1, DrawingStep
<1>2. CASE Step
  BY <1>2, QuietStep DEF Step, serverVars
<1>3. CASE PollNothing /\ ~redraw
  BY <1>3, QuietStep DEF PollNothing, Polling, guiVars
<1>4. CASE KeyPress \/ KeyRelease \/ ClientMessage \/ OtherEvent
  <2>1. /\ UNCHANGED <<window, guiVars>>
        /\ events # <<>> /\ events' = Tail(events)
        /\ Head(events).kind \in {"press", "release", "close", "noise"}
    BY <1>4 DEF KeyPress, KeyRelease, ClientMessage, OtherEvent, Polled,
                Polling, Quiet
  <2> QED BY <2>1, QuietStep DEF WindowEvents
<1>5. CASE User
  <2>1. gui' = gui /\ pixmap' = pixmap /\ oldgfx' = oldgfx
    BY <1>5 DEF User, Uncover, ResizeWindow, UseKey, CloseWindow, Acting
  <2>2. CASE Uncover
    <3>1. events' = Append(events, [kind |-> "expose"]) /\ window' = window
      BY <2>2 DEF Uncover
    <3>2. [kind |-> "expose"] \in Messages
      BY DEF Messages
    <3> QED BY <2>1, <3>1, <3>2, UserEvent
  <2>3. CASE ResizeWindow
    BY <2>3, ResizeStep
  <2>4. CASE UseKey
    <3>1. PICK pos \in Keys, mod1 \in BOOLEAN :
            events' \in {Append(events, [kind |-> "press", pos |-> pos,
                                         mod1 |-> mod1]),
                         Append(events, [kind |-> "release", pos |-> pos])}
      BY <2>4 DEF UseKey
    <3>2. shown' = shown /\ window' = window
      BY <2>4 DEF UseKey
    <3>3. /\ [kind |-> "press", pos |-> pos, mod1 |-> mod1] \in Messages
          /\ [kind |-> "release", pos |-> pos] \in Messages
      BY DEF Messages
    <3>4. \E e \in Messages : e.kind # "configure" /\ events' = Append(events, e)
      BY <3>1, <3>3
    <3> QED BY <2>1, <3>2, <3>4, UserEvent
  <2>5. CASE CloseWindow
    <3>1. /\ events' = Append(events, [kind |-> "close"])
          /\ shown' = shown /\ window' = window
      BY <2>5 DEF CloseWindow
    <3>2. [kind |-> "close"] \in Messages
      BY DEF Messages
    <3> QED BY <2>1, <3>1, <3>2, UserEvent
  <2> QED BY <1>5, <2>2, <2>3, <2>4, <2>5 DEF User
<1>6. CASE UNCHANGED vars
  BY <1>6, QuietStep DEF vars, serverVars
<1> QED BY <1>1, <1>2, <1>3, <1>4, <1>5, <1>6 DEF Next, Loop, Drawing

-----------------------------------------------------------------------------
(* The cache tells the truth about the window.                             *)
THEOREM PictureCorrect == Spec => []PictureKept
<1>1. Init => PictureInv
  BY InitPicture
<1>2. PictureInv /\ [Next]_vars => PictureInv'
  BY PictureStep
<1>3. PictureInv => PictureKept
  BY InvShows
<1> QED BY <1>1, <1>2, <1>3, PTL DEF Spec

LEMMA RedrawDone ==
  ASSUME PictureInv, PictureKept', [Next]_vars, redraw, ~redraw',
         Settled', gui'.scale <= pixmap'
  PROVE  Shows([i \in Indices |-> Gfx(i)])'
<1>1. Drawing
  <2>1. ~Step
    BY DEF Step
  <2>2. ~User
    BY DEF User, Uncover, ResizeWindow, UseKey, CloseWindow, Acting, loopVars
  <2>3. ~(KeyPress \/ KeyRelease \/ ClientMessage \/ OtherEvent)
    BY DEF KeyPress, KeyRelease, ClientMessage, OtherEvent, Quiet
  <2>4. ~UNCHANGED vars
    BY DEF vars, loopVars
  <2> QED BY <2>1, <2>2, <2>3, <2>4 DEF Next, Loop, Drawing
<1>2. /\ mem' = mem /\ io' = io
      /\ oldgfx' = [i \in Indices |-> Gfx(i)]
  BY <1>1, DrawingStep
<1>3. Shows(oldgfx)'
  BY DEF PictureKept
<1>4. \A i : Gfx(i)' = Gfx(i)
  BY <1>2 DEF Gfx, Load, Read
<1>5. Indices' = Indices
  BY DEF Indices
<1>6. [i \in Indices |-> Gfx(i)]' = oldgfx'
  BY <1>2, <1>4, <1>5
<1> QED BY <1>3, <1>6 DEF Shows

(* A redraw that was due leaves the window showing video memory.           *)
THEOREM RedrawCorrect == Spec => RedrawShowsMemory
<1>1. Init => PictureInv
  BY InitPicture
<1>2. PictureInv /\ [Next]_vars => PictureInv'
  BY PictureStep
<1>3. PictureInv => PictureKept
  BY InvShows
<1>4. PictureInv /\ PictureKept' /\ [Next]_vars
        => [redraw /\ ~redraw' /\ Settled' /\ gui'.scale <= pixmap'
            => Shows([i \in Indices |-> Gfx(i)])']_vars
  BY RedrawDone
<1> QED BY <1>1, <1>2, <1>3, <1>4, PTL DEF Spec, RedrawShowsMemory

-----------------------------------------------------------------------------
(* The processor in its loop.                                              *)
ProcessorInv == MachineOK /\ ClockInv /\ CallsInv /\ reads \subseteq Byte

LEMMA InitProcessor ==
  ASSUME Init
  PROVE  ProcessorInv /\ next.sec \in Nat /\ next.nsec \in 0..(Second - 1)
         /\ Value(next) <= Value(clock)
<1>1. PICK job \in Jobs : \E start \in job.starts :
        /\ reads = job.reads /\ next = start
        /\ CpuInit(job.image, job.registers, reads, start)
  BY DEF Init
<1>2. PICK start \in job.starts :
        /\ reads = job.reads /\ next = start
        /\ CpuInit(job.image, job.registers, reads, start)
  BY <1>1
<1>3. /\ MemOK(job.image) /\ reads \subseteq Byte
      /\ job.registers \subseteq [a: Byte, x: Byte, y: Byte, s: Byte,
                                  p: SUBSET Weights]
      /\ start \in [sec: Nat, nsec: 0..(Second - 1)]
  BY <1>2, JobsAssumption DEF MemOK
<1>4. MachineOK /\ ClockInv /\ CallsInv /\ Value(start) <= Value(clock)
  BY <1>2, <1>3, PowerOn
<1> QED BY <1>2, <1>3, <1>4 DEF ProcessorInv

LEMMA IdleProcessor ==
  ASSUME [Next]_vars, ~Step
  PROVE  /\ UNCHANGED <<cpu, mem, io, clock, cycles, calls, began>>
         /\ UNCHANGED <<next, reads>>
         /\ ~(at = "step" /\ at' = "poll")
<1>1. CASE UNCHANGED vars
  BY <1>1 DEF vars, cpuVars, loopVars
<1>2. CASE User
  BY <1>2 DEF User, Uncover, ResizeWindow, UseKey, CloseWindow, Acting,
              cpuVars, loopVars
<1>3. CASE Polling
  BY <1>3 DEF Polling
<1>4. Polling \/ User \/ UNCHANGED vars
  BY DEF Next, Loop, PollNothing, Expose, Configure, KeyPress, KeyRelease,
         ClientMessage, OtherEvent, Polled
<1> QED BY <1>1, <1>2, <1>3, <1>4

LEMMA StepProcessor ==
  ASSUME ProcessorInv, Step
  PROVE  /\ ProcessorInv' /\ Value(clock) <= Value(clock')
         /\ FlagsToldBy(Load(cpu.pc)) /\ ReturnTold
<1>1. /\ cpu' \in Registers /\ MemOK(mem')
      /\ ClockInv' /\ Value(clock) <= Value(clock') /\ CallsInv'
      /\ FlagsToldBy(Load(cpu.pc)) /\ ReturnTold
  BY Executed DEF ProcessorInv, Step
<1>2. reads' = reads /\ io' \in [{0, 1} -> Byte]
  BY DEF ProcessorInv, Step
<1> QED BY <1>1, <1>2 DEF ProcessorInv, MachineOK, MemOK

LEMMA ProcessorKept ==
  ASSUME ProcessorInv, [Next]_vars
  PROVE  ProcessorInv'
<1>1. CASE Step
  BY <1>1, StepProcessor
<1>2. CASE ~Step
  BY <1>2, IdleProcessor
     DEF ProcessorInv, MachineOK, MemOK, ClockInv, CallsInv, Exact, Value,
         Return, Held
<1> QED BY <1>1, <1>2

(* No cycle is lost: real time and the ticks left add up to all of them.   *)
THEOREM ClockCorrect == Spec => []ClockExact
<1>1. Init => ProcessorInv
  BY InitProcessor
<1>2. ProcessorInv /\ [Next]_vars => ProcessorInv'
  BY ProcessorKept
<1>3. ProcessorInv => ClockExact
  BY ClockTells DEF ProcessorInv
<1> QED BY <1>1, <1>2, <1>3, PTL DEF Spec

(* Every instruction leaves the flags its arithmetic calls for.            *)
THEOREM FlagsCorrect == Spec => FlagsTell
<1>1. Init => ProcessorInv
  BY InitProcessor
<1>2. ProcessorInv /\ [Next]_vars => ProcessorInv'
  BY ProcessorKept
<1>3. ProcessorInv /\ [Next]_vars
        => [at = "step" /\ at' = "poll" => FlagsToldBy(Load(cpu.pc))]_vars
  BY StepProcessor, IdleProcessor
<1> QED BY <1>1, <1>2, <1>3, PTL DEF Spec, FlagsTell

(* Every return goes behind its call.                                      *)
THEOREM ReturnsCorrect == Spec => ReturnsToCaller
<1>1. Init => ProcessorInv
  BY InitProcessor
<1>2. ProcessorInv /\ [Next]_vars => ProcessorInv'
  BY ProcessorKept
<1>3. ProcessorInv /\ [Next]_vars
        => [at = "step" /\ at' = "poll" => ReturnTold]_vars
  BY StepProcessor, IdleProcessor
<1> QED BY <1>1, <1>2, <1>3, PTL DEF Spec, ReturnsToCaller

-----------------------------------------------------------------------------
(* Deadlines.                                                              *)
Deadlines == [sec: Nat, nsec: 0..(Second - 1)]

LEMMA DeadlineInt == \A d \in Deadlines : Value(d) \in Int
<1> SUFFICES ASSUME NEW d \in Deadlines PROVE Value(d) \in Int
  OBVIOUS
<1>1. d.sec \in Int /\ d.nsec \in Int /\ Second \in Int
  BY CpuAssumption DEF Deadlines
<1>2. d.sec * Second \in Int
  BY <1>1
<1> QED BY <1>1, <1>2 DEF Value

(* Comparing the seconds first is comparing the times.                     *)
LEMMA LaterTells ==
  ASSUME NEW t \in Times, t.nsec < Second, NEW d \in Deadlines
  PROVE  Later(t, d) <=> Value(t) > Value(d)
<1>1. /\ t.sec \in Nat /\ t.nsec \in Nat /\ t.nsec < Second
      /\ d.sec \in Nat /\ d.nsec \in Nat /\ d.nsec < Second
      /\ Second \in Nat
  BY CpuAssumption DEF Times, Deadlines
<1>2. ASSUME NEW a \in Nat, NEW b \in Nat, a > b
      PROVE  a * Second >= b * Second + Second
  <2>1. PICK k \in Nat : a = b + (k + 1)
    <3>1. a - b - 1 \in Nat /\ a = b + ((a - b - 1) + 1)
      BY <1>2
    <3> QED BY <3>1
  <2>2. a * Second = b * Second + (k + 1) * Second
        /\ (k + 1) * Second = k * Second + 1 * Second
    BY <1>1, <2>1, Distributed
  <2>3. k * Second \in Int /\ k * Second >= 0 /\ 1 * Second = Second
        /\ b * Second \in Int
    BY <1>1
  <2> QED BY <1>1, <2>2, <2>3
<1>3. t.sec * Second \in Int /\ d.sec * Second \in Int
  BY <1>1
<1>4. CASE t.sec > d.sec
  <2>1. t.sec * Second >= d.sec * Second + Second
    BY <1>1, <1>2, <1>4
  <2> QED BY <1>1, <1>3, <1>4, <2>1 DEF Later, Value
<1>5. CASE t.sec = d.sec
  <2>1. t.sec * Second = d.sec * Second
    BY <1>5
  <2> QED BY <1>1, <1>3, <1>5, <2>1 DEF Later, Value
<1>6. CASE d.sec > t.sec
  <2>1. d.sec * Second >= t.sec * Second + Second
    BY <1>1, <1>2, <1>6
  <2> QED BY <1>1, <1>3, <1>6, <2>1 DEF Later, Value
<1> QED BY <1>1, <1>4, <1>5, <1>6

LEMMA AdvancedTells ==
  ASSUME NEW d \in Deadlines
  PROVE  Advanced(d) \in Deadlines /\ Value(Advanced(d)) = Value(d) + RedrawNs
<1>1. /\ d.sec \in Nat /\ d.nsec \in Nat /\ d.nsec < Second
      /\ Second \in Nat \ {0} /\ RedrawNs \in Nat /\ RedrawNs <= Second
      /\ d.sec * Second \in Int
  BY CpuAssumption, EmulatorAssumption DEF Deadlines
<1>2. (d.sec + 1) * Second = d.sec * Second + Second
  <2>1. (d.sec + 1) * Second = d.sec * Second + 1 * Second
    BY <1>1, Distributed
  <2> QED BY <1>1, <2>1
<1>3. CASE d.nsec + RedrawNs >= Second
  <2>1. Advanced(d) = [sec |-> d.sec + 1,
                       nsec |-> d.nsec + RedrawNs - Second]
    BY <1>3 DEF Advanced
  <2> QED BY <1>1, <1>2, <1>3, <2>1 DEF Deadlines, Value
<1>4. CASE ~(d.nsec + RedrawNs >= Second)
  <2>1. /\ Advanced(d) \in Deadlines
        /\ Advanced(d).sec = d.sec /\ Advanced(d).nsec = d.nsec + RedrawNs
    BY <1>1, <1>4 DEF Advanced, Deadlines
  <2> QED BY <1>1, <2>1 DEF Value
<1> QED BY <1>3, <1>4

(* A screen that is due has not run more than a period behind its next     *)
(* deadline; one that is not was drawn within a period before it.          *)
DeadlineInv ==
    /\ next \in Deadlines /\ redraw \in BOOLEAN
    /\ drawn \in Int /\ drawn <= Now
    /\ redraw => Value(next) <= Now + RedrawNs
    /\ ~redraw => Value(next) <= drawn + RedrawNs /\ ScreenFresh

LEMMA InitDeadline ==
  ASSUME Init
  PROVE  DeadlineInv
<1>1. /\ redraw = TRUE /\ drawn = Now
  BY DEF Init
<1>2. next \in Deadlines
  BY JobsAssumption DEF Init, Deadlines
<1>3. ProcessorInv /\ Value(next) <= Value(clock)
  BY InitProcessor
<1>4. Value(clock) \in Int /\ Value(next) \in Int /\ RedrawNs \in Nat
  BY <1>2, <1>3, ValueInt, DeadlineInt, EmulatorAssumption
     DEF ProcessorInv, ClockInv
<1>5. Now = Value(clock)
  BY DEF Now, Value
<1> QED BY <1>1, <1>2, <1>3, <1>4, <1>5 DEF DeadlineInv

LEMMA DeadlineStep ==
  ASSUME ProcessorInv, DeadlineInv, [Next]_vars
  PROVE  DeadlineInv'
<1>1. /\ Now = Value(clock) /\ Now' = Value(clock')
      /\ Now \in Int /\ RedrawNs \in Nat /\ Value(next) \in Int
  <2>1. Now = Value(clock) /\ Now' = Value(clock')
    BY DEF Now, Value
  <2> QED BY <2>1, ValueInt, DeadlineInt, EmulatorAssumption
          DEF ProcessorInv, ClockInv, DeadlineInv
<1>2. CASE Step
  <2>1. ProcessorInv' /\ Value(clock) <= Value(clock')
    BY <1>2, StepProcessor
  <2>2. Now' \in Int /\ Now <= Now' /\ clock' \in Times /\ clock'.nsec < Second
    BY <1>1, <2>1, ValueInt DEF ProcessorInv, ClockInv
  <2>3. drawn' = drawn /\ drawn \in Int /\ drawn <= Now'
    BY <1>1, <1>2, <2>2 DEF Step, DeadlineInv
  <2>4. CASE Later(clock', next)
    <3>1. redraw' = TRUE /\ next' = Advanced(next)
      BY <1>2, <2>4 DEF Step
    <3>2. Now' > Value(next)
      BY <1>1, <2>2, <2>4, LaterTells DEF DeadlineInv
    <3>3. /\ next' \in Deadlines /\ Value(next') = Value(next) + RedrawNs
      BY <3>1, AdvancedTells DEF DeadlineInv
    <3>4. Value(next') <= Now' + RedrawNs
      BY <1>1, <2>2, <3>2, <3>3
    <3>5. Value(next)' = Value(next')
      BY DEF Value
    <3> QED BY <2>3, <3>1, <3>3, <3>4, <3>5 DEF DeadlineInv
  <2>5. CASE ~Later(clock', next)
    <3>1. redraw' = redraw /\ next' = next
      BY <1>2, <2>5 DEF Step
    <3>2. Now' <= Value(next)
      BY <1>1, <2>2, <2>5, LaterTells DEF DeadlineInv
    <3>3. Value(next)' = Value(next)
      BY <3>1 DEF Value
    <3>4. redraw => Value(next) <= Now' + RedrawNs
      BY <1>1, <2>2 DEF DeadlineInv
    <3>5. ~redraw => Now' - drawn <= RedrawNs
      BY <1>1, <2>2, <3>2 DEF DeadlineInv
    <3> QED BY <2>3, <3>1, <3>3, <3>4, <3>5 DEF DeadlineInv, ScreenFresh
  <2> QED BY <2>4, <2>5
<1>3. CASE ~Step
  <2>1. clock' = clock /\ next' = next
    BY <1>3, IdleProcessor
  <2>2. Now' = Now /\ Value(next)' = Value(next)
    BY <2>1 DEF Now, Value
  <2>3. \/ redraw' = redraw /\ drawn' = drawn
        \/ redraw' = FALSE /\ drawn' = Now
    <3>1. CASE UNCHANGED vars
      BY <3>1 DEF vars, loopVars
    <3>2. CASE User
      BY <3>2 DEF User, Uncover, ResizeWindow, UseKey, CloseWindow, Acting,
                  loopVars
    <3>3. CASE PollNothing
      BY <3>3 DEF PollNothing, UpdateDisplay
    <3>4. CASE Expose \/ Configure
      BY <3>4 DEF Expose, Configure, UpdateDisplay
    <3>5. CASE KeyPress \/ KeyRelease \/ ClientMessage \/ OtherEvent
      BY <3>5 DEF KeyPress, KeyRelease, ClientMessage, OtherEvent, Quiet
    <3> QED BY <1>3, <3>1, <3>2, <3>3, <3>4, <3>5 DEF Next, Loop
  <2>4. CASE redraw' = redraw /\ drawn' = drawn
    BY <2>1, <2>2, <2>4 DEF DeadlineInv, ScreenFresh
  <2>5. CASE redraw' = FALSE /\ drawn' = Now
    <3>1. Value(next) <= Now + RedrawNs
      BY <1>1 DEF DeadlineInv
    <3>2. Now - Now <= RedrawNs /\ Now <= Now
      BY <1>1
    <3> QED BY <1>1, <2>1, <2>2, <2>5, <3>1, <3>2 DEF DeadlineInv, ScreenFresh
  <2> QED BY <2>3, <2>4, <2>5
<1> QED BY <1>2, <1>3

(* A screen that is not due was drawn at most a period ago.                *)
THEOREM FreshCorrect == Spec => []ScreenFresh
<1>1. Init => ProcessorInv /\ DeadlineInv
  BY InitProcessor, InitDeadline
<1>2. ProcessorInv /\ DeadlineInv /\ [Next]_vars
        => ProcessorInv' /\ DeadlineInv'
  BY ProcessorKept, DeadlineStep
<1>3. DeadlineInv => ScreenFresh
  BY DEF DeadlineInv, ScreenFresh
<1> QED BY <1>1, <1>2, <1>3, PTL DEF Spec
=============================================================================
