--------------------------- MODULE Machine_proofs ---------------------------
(***************************************************************************)
(* The 6502 machine on generated code: it never leaves the code, never     *)
(* loses the two constants, and is never asked for a service that does not *)
(* exist.                                                                  *)
(***************************************************************************)
EXTENDS MachineCode, WellFoundedInduction, TLAPS

\* What the prologue has set up so far.
SetUp ==
    Compiled =>
        /\ pc = 2 => regA = 0
        /\ pc \in {3, 4} => Cell(ZeroSlot) = 0
        /\ pc = 4 => regA = 1
        /\ pc > 4 => Cell(ZeroSlot) = 0 /\ Cell(OneSlot) = 1
\* The system is called with a service in X.
Served == Compiled /\ code[pc].op = "SYS" => regX \in Services

MachineInv == TypeOK /\ SetUp /\ Served

-----------------------------------------------------------------------------
(***************************************************************************)
(* What is at pc.                                                          *)
(***************************************************************************)
LEMMA SlotsDiffer == ZeroSlot # OneSlot
  BY DEF ZeroSlot, OneSlot

\* Code that is being run has a known instruction, after which there is another
\* one unless it stops; a branch stays behind the prologue.
LEMMA AtPc ==
    ASSUME TypeOK, Compiled
    PROVE  /\ Runnable(code) /\ pc \in 1 .. Len(code) /\ pc \in DOMAIN code
           /\ Len(code) \in Nat /\ Len(code) > 4
           /\ code[pc].op \in Ops
           /\ code[pc].op # "BRK" => pc + 1 \in 1 .. Len(code)
           /\ code[pc].op \in Immediate => Arg \in Byte
           /\ code[pc].op = "BNE" =>
                 pc >= 5 /\ Target(code, pc) \in 5 .. Len(code) /\ code[Target(code, pc)].op # "SYS"
<1>1. Runnable(code) /\ pc \in 1 .. Len(code)
  BY DEF TypeOK
<1>2. /\ Len(code) \in Nat /\ Len(code) > 4 /\ DOMAIN code = 1 .. Len(code)
      /\ \A i \in 1 .. 4 : code[i] = Prologue[i]
      /\ code[Len(code)].op = "BRK"
  BY <1>1 DEF Runnable
<1>3. CASE pc \in 1 .. 4
  <2>1. code[pc] = Prologue[pc]
    BY <1>2, <1>3
  <2>2. code[pc] \in {Instr("LDAI", 0), Instr("STA", ZeroSlot), Instr("LDAI", 1), Instr("STA", OneSlot)}
    BY <2>1, <1>3 DEF Prologue
  <2>3. /\ code[pc].op \in {"LDAI", "STA"}
        /\ code[pc].op = "LDAI" => code[pc].arg \in {0, 1}
    BY <2>2 DEF Instr
  <2> QED
    BY <1>1, <1>2, <1>3, <2>3, WordModAssumption DEF Ops, Immediate, Stores, Byte, Arg
<1>4. CASE pc \in 5 .. Len(code)
  <2>1. /\ code[pc].op \in Ops
        /\ code[pc].op \in Immediate => code[pc].arg \in Byte
        /\ code[pc].op = "BNE" => Target(code, pc) \in 5 .. Len(code) /\ code[Target(code, pc)].op # "SYS"
    BY <1>1, <1>4 DEF Runnable
  <2>2. code[pc].op # "BRK" => pc # Len(code)
    BY <1>2
  <2>3. pc >= 5 /\ pc \in Int /\ (pc # Len(code) => pc + 1 \in 1 .. Len(code))
    <3>1. \A n \in Nat : \A p \in 5 .. n : p >= 5 /\ p \in Int /\ (p # n => p + 1 \in 1 .. n)
      OBVIOUS
    <3>2. Len(code) \in Nat
      BY <1>2
    <3> QED
      BY <1>4, <3>1, <3>2
  <2>4. pc \in DOMAIN code
    BY <1>1, <1>2
  <2>5. code[pc].op # "BRK" => pc + 1 \in 1 .. Len(code)
    BY <2>2, <2>3
  <2>6. code[pc].op \in Immediate => Arg \in Byte
    BY <2>1 DEF Arg
  <2> QED
    BY <1>1, <1>2, <2>1, <2>3, <2>4, <2>5, <2>6
<1> QED
  BY <1>1, <1>2, <1>3, <1>4

\* The instruction after the one at pc, where it is a call of the system.
LEMMA BeforeCall ==
    ASSUME TypeOK, Compiled, code[pc].op # "BRK", code[pc + 1].op = "SYS"
    PROVE  code[pc].op = "LDXI" /\ Arg \in Services
<1>1. Runnable(code) /\ pc \in 1 .. Len(code) /\ pc + 1 \in 1 .. Len(code) /\ Len(code) \in Nat
  BY AtPc
<1>2. CASE pc + 1 \in 1 .. 4
  <2>1. code[pc + 1] = Prologue[pc + 1]
    BY <1>1, <1>2 DEF Runnable
  <2>2. code[pc + 1].op \in {"LDAI", "STA"}
    BY <2>1, <1>2 DEF Prologue, Instr
  <2> QED
    BY <2>2
<1>3. CASE pc + 1 \in 5 .. Len(code)
  BY <1>1, <1>3 DEF Runnable, Arg
<1> QED
  BY <1>1, <1>2, <1>3

-----------------------------------------------------------------------------
(***************************************************************************)
(* Memory.                                                                 *)
(***************************************************************************)
LEMMA CellSet ==
    ASSUME NEW k, NEW v, mem' = Set(k, v)
    PROVE  \A s : Cell(s)' = IF s = k THEN v ELSE Cell(s)
  BY DEF Set, Cell

LEMMA CellByte ==
    ASSUME \A s \in DOMAIN mem : mem[s] \in Byte
    PROVE  \A s : Cell(s) \in Byte
  BY WordModAssumption DEF Cell, Byte

LEMMA SetBytes ==
    ASSUME NEW k, NEW v \in Byte, mem' = Set(k, v), \A s \in DOMAIN mem : mem[s] \in Byte
    PROVE  \A s \in DOMAIN mem' : mem'[s] \in Byte
  BY DEF Set

LEMMA ModByte == \A n \in Nat : n % WordMod \in Byte
  BY WordModAssumption DEF Byte

LEMMA OperandByte ==
    ASSUME TypeOK, Compiled, code[pc].op \in Immediate \cup Loads
    PROVE  Operand \in Byte
<1>1. \A s : Cell(s) \in Byte
  BY CellByte DEF TypeOK
<1> QED
  BY <1>1, AtPc DEF Operand, Immediate, Loads

-----------------------------------------------------------------------------
(***************************************************************************)
(* The steps.                                                              *)
(***************************************************************************)
\* An instruction that goes on to the next one, and writes no slot.
LEMMA Onwards ==
    ASSUME MachineInv, Compiled, ~halted, Advance, code[pc].op # "BRK",
           UNCHANGED mem, {regA', regX', regY'} \subseteq Byte,
           zero' \in BOOLEAN, carry' \in BOOLEAN, out' \in Seq(Byte),
           pc = 1 => regA' = 0,
           pc = 3 => regA' = 1,
           pc \notin {2, 4},
           code[pc + 1].op = "SYS" => regX' \in Services
    PROVE  MachineInv'
<1>1. TypeOK /\ SetUp /\ Served
  BY DEF MachineInv
<1>2. /\ Runnable(code) /\ pc \in 1 .. Len(code) /\ Len(code) \in Nat
      /\ pc + 1 \in 1 .. Len(code)
  BY <1>1, AtPc
<1>3. code' = code /\ pc' = pc + 1 /\ halted' = halted /\ mem' = mem
  BY DEF Advance
<1>4. Compiled'
  BY <1>3 DEF Compiled
<1>5. TypeOK'
  <2>1. Runnable(code)' /\ (pc \in 1 .. Len(code))'
    BY <1>2, <1>3
  <2>2. (halted \in BOOLEAN)' /\ (\A s \in DOMAIN mem : mem[s] \in Byte)'
    BY <1>1, <1>3 DEF TypeOK
  <2> QED
    BY <1>4, <2>1, <2>2 DEF TypeOK
<1>6. SetUp'
  <2>1. Cell(ZeroSlot)' = Cell(ZeroSlot) /\ Cell(OneSlot)' = Cell(OneSlot)
    BY <1>3 DEF Cell
  <2>2. \/ pc = 1 /\ pc' = 2 /\ regA' = 0
        \/ pc = 3 /\ pc' = 4 /\ regA' = 1
        \/ pc > 4 /\ pc' > 5
    BY <1>2, <1>3
  <2> QED
    BY <1>1, <2>1, <2>2 DEF SetUp
<1>7. Served'
  BY <1>3 DEF Served
<1> QED
  BY <1>5, <1>6, <1>7 DEF MachineInv

\* The first four instructions.
LEMMA InPrologue ==
    ASSUME TypeOK, Compiled
    PROVE  /\ pc = 1 => code[pc].op = "LDAI" /\ Arg = 0
           /\ pc = 2 => code[pc].op = "STA" /\ Arg = ZeroSlot
           /\ pc = 3 => code[pc].op = "LDAI" /\ Arg = 1
           /\ pc = 4 => code[pc].op = "STA" /\ Arg = OneSlot
<1>1. \A i \in 1 .. 4 : code[i] = Prologue[i]
  BY AtPc DEF Runnable
<1>2. /\ code[1] = Instr("LDAI", 0) /\ code[2] = Instr("STA", ZeroSlot)
      /\ code[3] = Instr("LDAI", 1) /\ code[4] = Instr("STA", OneSlot)
  BY <1>1 DEF Prologue
<1> QED
  BY <1>2 DEF Instr, Arg

LEMMA Fetched ==
    ASSUME NEW ops, MachineInv, Fetch(ops)
    PROVE  Compiled /\ ~halted /\ code[pc].op \in ops
  BY DEF Fetch, MachineInv, TypeOK

\* An instruction that does not load A, stores nothing and is not in the prologue.
LEMMA BehindPrologue ==
    ASSUME MachineInv, Compiled, code[pc].op \notin {"LDAI", "STA"}
    PROVE  pc \notin 1 .. 4
  BY InPrologue DEF MachineInv

LEMMA LoadAKeeps == ASSUME MachineInv, LoadA PROVE MachineInv'
<1>1. Compiled /\ ~halted /\ code[pc].op \in {"LDAI", "LDA"} /\ TypeOK
  BY Fetched DEF LoadA, MachineInv
<1>2. regA' = Operand /\ Operand \in Byte /\ UNCHANGED << regX, regY, zero, carry, mem, out >>
  BY <1>1, OperandByte DEF LoadA, Immediate, Loads, flags
<1>3. pc = 1 => regA' = 0
  BY <1>1, <1>2, InPrologue DEF Operand
<1>4. pc = 3 => regA' = 1
  BY <1>1, <1>2, InPrologue DEF Operand
<1>5. pc \notin {2, 4}
  BY <1>1, InPrologue
<1>6. code[pc + 1].op # "SYS"
  BY <1>1, BeforeCall
<1> QED
  BY <1>1, <1>2, <1>3, <1>4, <1>5, <1>6, Onwards DEF LoadA, TypeOK

LEMMA LoadXKeeps == ASSUME MachineInv, LoadX PROVE MachineInv'
<1>1. Compiled /\ ~halted /\ code[pc].op \in {"LDXI", "LDX"} /\ TypeOK
  BY Fetched DEF LoadX, MachineInv
<1>2. regX' = Operand /\ Operand \in Byte /\ UNCHANGED << regA, regY, zero, carry, mem, out >>
  BY <1>1, OperandByte DEF LoadX, Immediate, Loads, flags
<1>3. pc \notin 1 .. 4
  BY <1>1, BehindPrologue
<1>4. code[pc + 1].op = "SYS" => regX' \in Services
  BY <1>1, <1>2, BeforeCall DEF Operand
<1> QED
  BY <1>1, <1>2, <1>3, <1>4, Onwards DEF LoadX, TypeOK

LEMMA LoadYKeeps == ASSUME MachineInv, LoadY PROVE MachineInv'
<1>1. Compiled /\ ~halted /\ code[pc].op \in {"LDYI", "LDY"} /\ TypeOK
  BY Fetched DEF LoadY, MachineInv
<1>2. regY' = Operand /\ Operand \in Byte /\ UNCHANGED << regA, regX, zero, carry, mem, out >>
  BY <1>1, OperandByte DEF LoadY, Immediate, Loads, flags
<1>3. pc \notin 1 .. 4
  BY <1>1, BehindPrologue
<1>4. code[pc + 1].op # "SYS"
  BY <1>1, BeforeCall
<1> QED
  BY <1>1, <1>2, <1>3, <1>4, Onwards DEF LoadY, TypeOK

LEMMA AddWithCarryKeeps == ASSUME MachineInv, AddWithCarry PROVE MachineInv'
<1>1. Compiled /\ ~halted /\ code[pc].op = "ADC" /\ TypeOK
  BY Fetched DEF AddWithCarry, MachineInv
<1> DEFINE sum == regA + Cell(Arg) + (IF carry THEN 1 ELSE 0)
<1>2. regA' = sum % WordMod /\ carry' = (sum >= WordMod) /\ UNCHANGED << regX, regY, zero, mem, out >>
  BY DEF AddWithCarry
<1>3. sum \in Nat
  <2>1. regA \in Byte /\ Cell(Arg) \in Byte
    BY <1>1, CellByte DEF TypeOK
  <2> QED
    BY <2>1, WordModAssumption DEF Byte
<1>4. regA' \in Byte /\ carry' \in BOOLEAN
  BY <1>2, <1>3, ModByte
<1>5. pc \notin 1 .. 4
  BY <1>1, BehindPrologue
<1>6. code[pc + 1].op # "SYS"
  BY <1>1, BeforeCall
<1> QED
  BY <1>1, <1>2, <1>4, <1>5, <1>6, Onwards DEF AddWithCarry, TypeOK

LEMMA CompareXKeeps == ASSUME MachineInv, CompareX PROVE MachineInv'
<1>1. Compiled /\ ~halted /\ code[pc].op = "CPX" /\ TypeOK
  BY Fetched DEF CompareX, MachineInv
<1>2. zero' \in BOOLEAN /\ carry' \in BOOLEAN /\ UNCHANGED << regA, regX, regY, mem, out >>
  BY DEF CompareX, registers
<1>3. pc \notin 1 .. 4
  BY <1>1, BehindPrologue
<1>4. code[pc + 1].op # "SYS"
  BY <1>1, BeforeCall
<1> QED
  BY <1>1, <1>2, <1>3, <1>4, Onwards DEF CompareX, TypeOK

LEMMA SystemCallKeeps == ASSUME MachineInv, SystemCall PROVE MachineInv'
<1>1. Compiled /\ ~halted /\ code[pc].op = "SYS" /\ TypeOK
  BY Fetched DEF SystemCall, MachineInv
<1>2. out' = Append(out, regY) /\ UNCHANGED << regA, regX, regY, zero, carry, mem >>
  BY DEF SystemCall, registers, flags
<1>3. out' \in Seq(Byte)
  BY <1>1, <1>2 DEF TypeOK
<1>4. pc \notin 1 .. 4
  BY <1>1, BehindPrologue
<1>5. code[pc + 1].op # "SYS"
  BY <1>1, BeforeCall
<1> QED
  BY <1>1, <1>2, <1>3, <1>4, <1>5, Onwards DEF SystemCall, TypeOK

LEMMA BranchKeeps == ASSUME MachineInv, BranchNotEqual PROVE MachineInv'
<1>1. Compiled /\ ~halted /\ code[pc].op = "BNE" /\ TypeOK /\ SetUp
  BY Fetched DEF BranchNotEqual, MachineInv
<1>2. UNCHANGED << code, regA, regX, regY, zero, carry, mem, out, halted >>
  BY DEF BranchNotEqual, registers, flags
<1>3. pc' = IF zero THEN pc + 1 ELSE Target(code, pc)
  <2>1. pc \in Int /\ (~zero => Target(code, pc) = pc + 1 + Arg)
    BY <1>1, AtPc DEF Target, Arg
  <2> QED
    BY <2>1 DEF BranchNotEqual
<1>4. pc \in Int /\ pc >= 5 /\ Len(code) \in Nat /\ pc' \in 5 .. Len(code) /\ code[pc'].op # "SYS"
  BY <1>1, <1>3, AtPc, BeforeCall
<1>5. TypeOK'
  BY <1>1, <1>2, <1>4 DEF TypeOK, Compiled
<1>6. SetUp'
  BY <1>1, <1>2, <1>4 DEF SetUp, Cell, Compiled
<1>7. Served'
  BY <1>2, <1>4 DEF Served
<1> QED
  BY <1>5, <1>6, <1>7 DEF MachineInv

LEMMA HaltKeeps == ASSUME MachineInv, Halt PROVE MachineInv'
<1>1. Compiled
  BY Fetched DEF Halt
<1>2. /\ UNCHANGED << code, pc, regA, regX, regY, zero, carry, mem, out >>
      /\ halted' = TRUE
  BY DEF Halt, registers, flags
<1>3. TypeOK'
  BY <1>1, <1>2 DEF MachineInv, TypeOK, Compiled
<1>4. SetUp' /\ Served'
  BY <1>2 DEF MachineInv, SetUp, Served, Cell, Compiled
<1> QED
  BY <1>3, <1>4 DEF MachineInv

\* A slot is written: one of the two constants by the prologue only.
LEMMA WriteKeeps ==
    ASSUME MachineInv, Compiled, ~halted, code[pc].op \in Stores, NEW v \in Byte,
           mem' = Set(Arg, v), Advance, UNCHANGED << registers, flags, out >>,
           pc \in {2, 4} => v = regA
    PROVE  MachineInv'
<1>1. TypeOK /\ SetUp
  BY DEF MachineInv
<1>2. /\ Runnable(code) /\ pc \in 1 .. Len(code) /\ Len(code) \in Nat
      /\ pc + 1 \in 1 .. Len(code) /\ code[pc + 1].op # "SYS"
  BY <1>1, AtPc, BeforeCall DEF Stores
<1>3. /\ code' = code /\ pc' = pc + 1 /\ halted' = halted /\ Compiled'
      /\ UNCHANGED << regA, regX, regY, zero, carry, out >>
  BY DEF Advance, registers, flags, Compiled
<1>4. \A s \in DOMAIN mem' : mem'[s] \in Byte
  BY <1>1, SetBytes DEF TypeOK
<1>5. TypeOK'
  BY <1>1, <1>2, <1>3, <1>4 DEF TypeOK
<1>6. SetUp'
  <2>1. \A s : Cell(s)' = IF s = Arg THEN v ELSE Cell(s)
    BY CellSet
  <2>2. CASE pc \in 5 .. Len(code)
    <3>1. Arg \notin {ZeroSlot, OneSlot}
      BY <1>2, <2>2 DEF Runnable, Arg, Constants
    <3>2. Cell(ZeroSlot)' = Cell(ZeroSlot) /\ Cell(OneSlot)' = Cell(OneSlot)
      BY <2>1, <3>1
    <3> QED
      BY <1>1, <1>2, <1>3, <2>2, <3>2 DEF SetUp
  <2>3. CASE pc = 2
    <3>1. Cell(ZeroSlot)' = 0
      BY <1>1, <2>1, <2>3, InPrologue DEF SetUp
    <3> QED
      BY <1>3, <2>3, <3>1 DEF SetUp
  <2>4. CASE pc = 4
    <3>1. Cell(ZeroSlot)' = 0 /\ Cell(OneSlot)' = 1
      BY <1>1, <2>1, <2>4, InPrologue, SlotsDiffer DEF SetUp
    <3> QED
      BY <1>3, <2>4, <3>1 DEF SetUp
  <2>5. pc \notin {1, 3}
    BY <1>1, InPrologue DEF Stores
  <2> QED
    BY <1>2, <2>2, <2>3, <2>4, <2>5
<1>7. Served'
  BY <1>2, <1>3 DEF Served
<1> QED
  BY <1>5, <1>6, <1>7 DEF MachineInv

LEMMA StoreAKeeps == ASSUME MachineInv, StoreA PROVE MachineInv'
<1>1. Compiled /\ ~halted /\ code[pc].op = "STA"
  BY Fetched DEF StoreA
<1>2. regA \in Byte
  BY DEF MachineInv, TypeOK
<1> QED
  BY <1>1, <1>2, WriteKeeps DEF StoreA, Stores

LEMMA IncrementKeeps == ASSUME MachineInv, Increment PROVE MachineInv'
<1>1. Compiled /\ ~halted /\ code[pc].op = "INC" /\ TypeOK
  BY Fetched DEF Increment, MachineInv
<1>2. Cell(Arg) \in Byte
  BY <1>1, CellByte DEF TypeOK
<1>3. (Cell(Arg) + 1) % WordMod \in Byte
  BY <1>2, ModByte DEF Byte
<1>4. pc \notin {2, 4}
  BY <1>1, BehindPrologue
<1> QED
  BY <1>1, <1>3, <1>4, WriteKeeps DEF Increment, Stores

\* Nothing is written yet and nothing printed.
LEMMA Blank == \A s \in DOMAIN << >> : << >>[s] \in Byte
  OBVIOUS

LEMMA LoadKeeps == ASSUME MachineInv, Load PROVE MachineInv'
<1>1. PICK c : Runnable(c) /\ Boot(c)
  BY DEF Load
<1>2. /\ code' = c /\ pc' = 1 /\ mem' = << >> /\ out' = << >> /\ halted' = FALSE
      /\ regA' = 0 /\ regX' = 0 /\ regY' = 0 /\ zero' = FALSE /\ carry' = FALSE
  BY <1>1 DEF Boot
<1>3. Len(c) \in Nat /\ Len(c) > 4 /\ c[1] = Prologue[1]
  BY <1>1 DEF Runnable
<1>4. c # << >>
  BY <1>3
<1>5. TypeOK'
  <2>1. Compiled' /\ Runnable(code)' /\ (pc \in 1 .. Len(code))'
    BY <1>1, <1>2, <1>3, <1>4 DEF Compiled
  <2>2. ({regA, regX, regY} \subseteq Byte)'
    BY <1>2, WordModAssumption DEF Byte
  <2>3. (zero \in BOOLEAN /\ carry \in BOOLEAN /\ halted \in BOOLEAN)'
    BY <1>2
  <2>4. (\A s \in DOMAIN mem : mem[s] \in Byte)' /\ (out \in Seq(Byte))'
    BY <1>2, Blank
  <2> QED
    BY <2>1, <2>2, <2>3, <2>4 DEF TypeOK
<1>6. c[1].op = "LDAI"
  BY <1>3 DEF Prologue, Instr
<1> QED
  BY <1>2, <1>5, <1>6 DEF MachineInv, SetUp, Served

LEMMA OffTypes == Off => MachineInv
<1> SUFFICES ASSUME Off PROVE MachineInv
  OBVIOUS
<1>1. /\ ~Compiled /\ pc = 0 /\ halted = FALSE /\ zero = FALSE /\ carry = FALSE
      /\ regA = 0 /\ regX = 0 /\ regY = 0 /\ mem = << >> /\ out = << >>
  BY DEF Off, Compiled
<1>2. {regA, regX, regY} \subseteq Byte
  BY <1>1, WordModAssumption DEF Byte
<1>3. (\A s \in DOMAIN mem : mem[s] \in Byte) /\ out \in Seq(Byte)
  BY <1>1, Blank
<1> QED
  BY <1>1, <1>2, <1>3 DEF MachineInv, TypeOK, SetUp, Served

LEMMA StepKeeps == MachineInv /\ [Load \/ CpuStep]_cpuVars => MachineInv'
<1> SUFFICES ASSUME MachineInv, [Load \/ CpuStep]_cpuVars PROVE MachineInv'
  OBVIOUS
<1>1. CASE Load
  BY <1>1, LoadKeeps
<1>2. CASE CpuStep
  BY <1>2, LoadAKeeps, LoadXKeeps, LoadYKeeps, StoreAKeeps, IncrementKeeps, AddWithCarryKeeps,
     CompareXKeeps, BranchKeeps, SystemCallKeeps, HaltKeeps DEF CpuStep
<1>3. CASE UNCHANGED cpuVars
  BY <1>3 DEF cpuVars, registers, flags, MachineInv, TypeOK, SetUp, Served, Compiled, Cell
<1> QED
  BY <1>1, <1>2, <1>3

LEMMA Invariance == MachineSpec => []MachineInv
  BY OffTypes, StepKeeps, PTL DEF MachineSpec

\* The machine that runs generated code stays within it, whatever the program
\* and the width of a register; registers, slots and output are bytes.
THEOREM MachineTypes == MachineSpec => []TypeOK
<1>1. MachineInv => TypeOK
  BY DEF MachineInv
<1> QED
  BY <1>1, Invariance, PTL

\* The two bytes that branches, predicates and sums rest on are 0 and 1 in every
\* state behind the prologue (zeroAddr_ and oneAddr_, codegen.cpp:110).
THEOREM StableConstants == MachineSpec => []ConstantsHold
<1>1. MachineInv => ConstantsHold
  BY DEF MachineInv, SetUp, ConstantsHold
<1> QED
  BY <1>1, Invariance, PTL

\* The machine that has not halted has an instruction it can execute: it never
\* runs out of the program, and calls the system for nothing the system does not
\* do (the service in X, visitPrint).
Executable ==
    Compiled /\ ~halted => Fetch(Ops) /\ (code[pc].op = "SYS" => regX \in {1, 2})

THEOREM NeverStuck == MachineSpec => []Executable
<1>1. MachineInv => Executable
  BY AtPc DEF MachineInv, Executable, Served, Services, Fetch
<1> QED
  BY <1>1, Invariance, PTL
=============================================================================
