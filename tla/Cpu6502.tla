------------------------------ MODULE Cpu6502 ------------------------------
(***************************************************************************)
(* The machine the generated code is written for, as far as the code uses  *)
(* it: three registers, the flags Z and C, memory that is 0 where the image *)
(* has been padded, and the system call that prints.                       *)
(*                                                                         *)
(* Only CPX sets Z: the generator counts on loads that leave it alone      *)
(* (src/codegen/codegen.cpp, BooleanExprWrapper, puts an LDA between CPX   *)
(* and BNE).                                                               *)
(***************************************************************************)
EXTENDS Integers, Sequences

CONSTANT WordMod  \* 2^8: values of a register

VARIABLES
    code,       \* the program in memory
    pc,
    regA, regX, regY,
    zero, carry, \* flags
    mem,        \* the slots that were written
    out,        \* what was printed
    halted

registers == << regA, regX, regY >>
flags     == << zero, carry >>
cpuVars   == << code, pc, registers, flags, mem, out, halted >>

Boot(instrs) ==
    /\ code' = instrs /\ pc' = 1
    /\ regA' = 0 /\ regX' = 0 /\ regY' = 0 /\ zero' = FALSE /\ carry' = FALSE
    /\ mem' = << >> /\ out' = << >> /\ halted' = FALSE

Cell(slot) == IF slot \in DOMAIN mem THEN mem[slot] ELSE 0
Set(slot, v) == [s \in DOMAIN mem \cup {slot} |-> IF s = slot THEN v ELSE mem[s]]

Fetch(ops) == ~halted /\ pc \in DOMAIN code /\ code[pc].op \in ops
Arg == code[pc].arg
\* The operand of a load: the immediate, or what is in the slot.
Operand == IF code[pc].op \in {"LDAI", "LDXI", "LDYI"} THEN Arg ELSE Cell(Arg)
Advance == pc' = pc + 1 /\ UNCHANGED << code, halted >>

LoadA == Fetch({"LDAI", "LDA"}) /\ regA' = Operand /\ Advance /\ UNCHANGED << regX, regY, flags, mem, out >>
LoadX == Fetch({"LDXI", "LDX"}) /\ regX' = Operand /\ Advance /\ UNCHANGED << regA, regY, flags, mem, out >>
LoadY == Fetch({"LDYI", "LDY"}) /\ regY' = Operand /\ Advance /\ UNCHANGED << regA, regX, flags, mem, out >>
StoreA == Fetch({"STA"}) /\ mem' = Set(Arg, regA) /\ Advance /\ UNCHANGED << registers, flags, out >>
Increment ==
    /\ Fetch({"INC"})
    /\ mem' = Set(Arg, (Cell(Arg) + 1) % WordMod)
    /\ Advance /\ UNCHANGED << registers, flags, out >>
AddWithCarry ==
    /\ Fetch({"ADC"})
    /\ LET sum == regA + Cell(Arg) + (IF carry THEN 1 ELSE 0)
       IN regA' = sum % WordMod /\ carry' = (sum >= WordMod)
    /\ Advance /\ UNCHANGED << regX, regY, zero, mem, out >>
CompareX ==
    /\ Fetch({"CPX"})
    /\ zero' = (regX = Cell(Arg)) /\ carry' = (regX >= Cell(Arg))
    /\ Advance /\ UNCHANGED << registers, mem, out >>
BranchNotEqual ==
    /\ Fetch({"BNE"})
    /\ pc' = pc + 1 + (IF zero THEN 0 ELSE Arg)
    /\ UNCHANGED << code, registers, flags, mem, out, halted >>
\* X selects the service: 1 prints the number in Y, 2 the string at Y.
SystemCall ==
    /\ Fetch({"SYS"}) /\ regX \in {1, 2}
    /\ out' = Append(out, regY)
    /\ Advance /\ UNCHANGED << registers, flags, mem >>
Halt ==
    /\ Fetch({"BRK"})
    /\ halted' = TRUE
    /\ UNCHANGED << code, pc, registers, flags, mem, out >>

CpuStep ==
    LoadA \/ LoadX \/ LoadY \/ StoreA \/ Increment \/ AddWithCarry \/ CompareX
    \/ BranchNotEqual \/ SystemCall \/ Halt
=============================================================================
