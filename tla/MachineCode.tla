----------------------------- MODULE MachineCode -----------------------------
(***************************************************************************)
(* What the generated code has in common, whatever the program, and what   *)
(* the machine may rely on while it runs such code.                        *)
(***************************************************************************)
EXTENDS Fragments, Cpu6502

ASSUME WordModAssumption == WordMod \in Nat /\ WordMod > 2

Byte == 0 .. WordMod - 1
Immediate == {"LDAI", "LDXI", "LDYI"}
Loads     == {"LDA", "LDX", "LDY", "ADC", "CPX"}
Stores    == {"STA", "INC"}
Ops       == Immediate \cup Loads \cup Stores \cup {"BNE", "SYS", "BRK"}
Constants == {ZeroSlot, OneSlot}
Services  == {1, 2}

\* The instruction a branch at i of code c leads to.
Target(c, i) == i + 1 + c[i].arg

\* The code stays within itself, leaves the two constants alone once they are
\* set, and selects a service right before it calls the system.
Runnable(c) ==
    /\ Len(c) \in Nat /\ Len(c) > 4 /\ DOMAIN c = 1 .. Len(c)
    /\ \A i \in 1 .. 4 : c[i] = Prologue[i]
    /\ c[Len(c)].op = "BRK"
    /\ \A i \in 5 .. Len(c) :
          /\ c[i].op \in Ops
          /\ c[i].op \in Immediate => c[i].arg \in Byte
          /\ c[i].op \in Stores => c[i].arg \notin Constants
          /\ c[i].op = "BNE" => Target(c, i) \in 5 .. Len(c) /\ c[Target(c, i)].op # "SYS"
          /\ c[i].op = "SYS" => c[i - 1].op = "LDXI" /\ c[i - 1].arg \in Services

Off ==
    /\ code = << >> /\ pc = 0
    /\ regA = 0 /\ regX = 0 /\ regY = 0 /\ zero = FALSE /\ carry = FALSE
    /\ mem = << >> /\ out = << >> /\ halted = FALSE
Compiled == code # << >>

\* Some such code is loaded, once, and runs.
Load == ~Compiled /\ \E c : Runnable(c) /\ Boot(c)
MachineSpec == Off /\ [][Load \/ CpuStep]_cpuVars

TypeOK ==
    /\ IF Compiled THEN Runnable(code) /\ pc \in 1 .. Len(code) ELSE pc = 0 /\ ~halted
    /\ {regA, regX, regY} \subseteq Byte
    /\ zero \in BOOLEAN /\ carry \in BOOLEAN /\ halted \in BOOLEAN
    /\ \A s \in DOMAIN mem : mem[s] \in Byte
    /\ out \in Seq(Byte)

\* The bytes that the predicates, the unconditional branches and the cleared
\* carry rest on keep their values ("a stable byte that always stores 0",
\* codegen.cpp:115), once the prologue is over.
ConstantsHold == Compiled /\ pc > 4 => Cell(ZeroSlot) = 0 /\ Cell(OneSlot) = 1
=============================================================================
