--------------------------- MODULE Lowering_proofs ---------------------------
(***************************************************************************)
(* The generated code computes what the source means.                      *)
(*                                                                         *)
(* The machine of Cpu6502 is taken as a function from states to states,    *)
(* and the code of a tree is looked at where it lies in some larger code.  *)
(* Rules say what the code of a node does if the codes of its parts do     *)
(* what they should.                                                       *)
(***************************************************************************)
EXTENDS Machine_proofs, Values, Outcomes, SequenceTheorems

\* The recursive operators of Lowering and Interp, of which only the equations
\* that define them are used.
CONSTANTS
    ToA(_, _), Predicate(_, _), Lowered(_, _),
    Eval(_, _), ExecBlock(_, _), ExecStmt(_, _), Loop(_, _, _)

-----------------------------------------------------------------------------
(***************************************************************************)
(* The machine as a function.                                              *)
(***************************************************************************)
\* A state; the flags are 0 or 1.
St(p, a, x, y, z, c, f, o) ==
    [pc |-> p, a |-> a, x |-> x, y |-> y, z |-> z, c |-> c, mem |-> f, out |-> o]
Bit(b) == IF b THEN 1 ELSE 0

Val(f, s) == IF s \in DOMAIN f THEN f[s] ELSE 0
Put(f, s, v) == [t \in DOMAIN f \cup {s} |-> IF t = s THEN v ELSE f[t]]

IsState(m) ==
    /\ m = St(m.pc, m.a, m.x, m.y, m.z, m.c, m.mem, m.out)
    /\ m.pc \in Nat
    /\ m.a \in Byte /\ m.x \in Byte /\ m.y \in Byte
    /\ m.z \in {0, 1} /\ m.c \in {0, 1}
    /\ \A s : Val(m.mem, s) \in Byte
    /\ m.out \in Seq(Byte)

\* What one instruction of code k does; BRK stops.
Effect(k, m) ==
    LET i   == k[m.pc]
        v   == IF i.op \in Immediate THEN i.arg ELSE Val(m.mem, i.arg)
        sum == m.a + v + m.c
    IN CASE i.op \in {"LDAI", "LDA"} -> St(m.pc + 1, v, m.x, m.y, m.z, m.c, m.mem, m.out)
         [] i.op \in {"LDXI", "LDX"} -> St(m.pc + 1, m.a, v, m.y, m.z, m.c, m.mem, m.out)
         [] i.op \in {"LDYI", "LDY"} -> St(m.pc + 1, m.a, m.x, v, m.z, m.c, m.mem, m.out)
         [] i.op = "STA" -> St(m.pc + 1, m.a, m.x, m.y, m.z, m.c, Put(m.mem, i.arg, m.a), m.out)
         [] i.op = "INC" -> St(m.pc + 1, m.a, m.x, m.y, m.z, m.c,
                               Put(m.mem, i.arg, (v + 1) % WordMod), m.out)
         [] i.op = "ADC" -> St(m.pc + 1, sum % WordMod, m.x, m.y, m.z, Bit(sum >= WordMod), m.mem, m.out)
         [] i.op = "CPX" -> St(m.pc + 1, m.a, m.x, m.y, Bit(m.x = v), Bit(m.x >= v), m.mem, m.out)
         [] i.op = "BNE" -> St(m.pc + 1 + (IF m.z = 1 THEN 0 ELSE i.arg),
                               m.a, m.x, m.y, m.z, m.c, m.mem, m.out)
         [] i.op = "SYS" -> St(m.pc + 1, m.a, m.x, m.y, m.z, m.c, m.mem, Append(m.out, m.y))
         [] OTHER -> m

\* The state the variables of Cpu6502 are in.
Now == St(pc, regA, regX, regY, Bit(zero), Bit(carry), mem, out)

LEMMA SameCells == \A s : Cell(s) = Val(mem, s)
  BY DEF Cell, Val

\* What an instruction with one of these names does to the state.
LEMMA EffectOf ==
    ASSUME NEW k, NEW p, NEW a, NEW x, NEW y, NEW z, NEW c, NEW f, NEW o
    PROVE  LET op == k[p].op
               s  == k[p].arg
               m  == St(p, a, x, y, z, c, f, o)
           IN /\ op = "LDAI" => Effect(k, m) = St(p + 1, s, x, y, z, c, f, o)
              /\ op = "LDA"  => Effect(k, m) = St(p + 1, Val(f, s), x, y, z, c, f, o)
              /\ op = "LDXI" => Effect(k, m) = St(p + 1, a, s, y, z, c, f, o)
              /\ op = "LDX"  => Effect(k, m) = St(p + 1, a, Val(f, s), y, z, c, f, o)
              /\ op = "LDYI" => Effect(k, m) = St(p + 1, a, x, s, z, c, f, o)
              /\ op = "LDY"  => Effect(k, m) = St(p + 1, a, x, Val(f, s), z, c, f, o)
              /\ op = "STA"  => Effect(k, m) = St(p + 1, a, x, y, z, c, Put(f, s, a), o)
              /\ op = "INC"  => Effect(k, m) =
                    St(p + 1, a, x, y, z, c, Put(f, s, (Val(f, s) + 1) % WordMod), o)
              /\ op = "ADC"  => Effect(k, m) =
                    St(p + 1, (a + Val(f, s) + c) % WordMod, x, y, z,
                       Bit(a + Val(f, s) + c >= WordMod), f, o)
              /\ op = "CPX"  => Effect(k, m) =
                    St(p + 1, a, x, y, Bit(x = Val(f, s)), Bit(x >= Val(f, s)), f, o)
              /\ op = "BNE"  => Effect(k, m) =
                    St(p + 1 + (IF z = 1 THEN 0 ELSE s), a, x, y, z, c, f, o)
              /\ op = "SYS"  => Effect(k, m) = St(p + 1, a, x, y, z, c, f, Append(o, y))
              /\ op = "BRK"  => Effect(k, m) = m
<1> DEFINE m == St(p, a, x, y, z, c, f, o)
<1>1. /\ m.pc = p /\ m.a = a /\ m.x = x /\ m.y = y /\ m.z = z /\ m.c = c /\ m.mem = f /\ m.out = o
  BY DEF St
<1> HIDE DEF m
<1>2. k[p].op \in {"LDAI", "LDXI", "LDYI"} <=> k[p].op \in Immediate
  BY DEF Immediate
<1>3. /\ k[p].op = "LDAI" => Effect(k, m) = St(p + 1, k[p].arg, x, y, z, c, f, o)
      /\ k[p].op = "LDA"  => Effect(k, m) = St(p + 1, Val(f, k[p].arg), x, y, z, c, f, o)
  BY <1>1, <1>2 DEF Effect
<1>4. /\ k[p].op = "LDXI" => Effect(k, m) = St(p + 1, a, k[p].arg, y, z, c, f, o)
      /\ k[p].op = "LDX"  => Effect(k, m) = St(p + 1, a, Val(f, k[p].arg), y, z, c, f, o)
  BY <1>1, <1>2 DEF Effect
<1>5. /\ k[p].op = "LDYI" => Effect(k, m) = St(p + 1, a, x, k[p].arg, z, c, f, o)
      /\ k[p].op = "LDY"  => Effect(k, m) = St(p + 1, a, x, Val(f, k[p].arg), z, c, f, o)
  BY <1>1, <1>2 DEF Effect
<1>6. k[p].op = "STA" => Effect(k, m) = St(p + 1, a, x, y, z, c, Put(f, k[p].arg, a), o)
  BY <1>1 DEF Effect
<1>7. k[p].op = "INC" => Effect(k, m) =
         St(p + 1, a, x, y, z, c, Put(f, k[p].arg, (Val(f, k[p].arg) + 1) % WordMod), o)
  BY <1>1, <1>2 DEF Effect
<1>8. k[p].op = "ADC" => Effect(k, m) =
         St(p + 1, (a + Val(f, k[p].arg) + c) % WordMod, x, y, z,
            Bit(a + Val(f, k[p].arg) + c >= WordMod), f, o)
  BY <1>1, <1>2 DEF Effect
<1>9. k[p].op = "CPX" => Effect(k, m) =
         St(p + 1, a, x, y, Bit(x = Val(f, k[p].arg)), Bit(x >= Val(f, k[p].arg)), f, o)
  BY <1>1, <1>2 DEF Effect
<1>10. k[p].op = "BNE" => Effect(k, m) =
         St(p + 1 + (IF z = 1 THEN 0 ELSE k[p].arg), a, x, y, z, c, f, o)
  BY <1>1 DEF Effect
<1>11. /\ k[p].op = "SYS" => Effect(k, m) = St(p + 1, a, x, y, z, c, f, Append(o, y))
       /\ k[p].op = "BRK" => Effect(k, m) = m
  BY <1>1 DEF Effect
<1> QED
  BY <1>3, <1>4, <1>5, <1>6, <1>7, <1>8, <1>9, <1>10, <1>11 DEF m

\* A step of the machine is a step of the function: what the rules below say of
\* the one holds of the other.
LEMMA StepIsEffect ==
    ASSUME CpuStep, ~(code[pc].op = "BRK")
    PROVE  Now' = Effect(code, Now) /\ code' = code
<1> DEFINE s == code[pc].arg
<1>1. Cell(s) = Val(mem, s) /\ Arg = s
  BY SameCells DEF Arg
<1> HIDE DEF s
<1>2. CASE LoadA
  <2>1. code[pc].op \in {"LDAI", "LDA"} /\ code' = code /\ pc' = pc + 1
    BY <1>2 DEF LoadA, Fetch, Advance
  <2>2. regA' = (IF code[pc].op = "LDAI" THEN s ELSE Val(mem, s))
        /\ UNCHANGED << regX, regY, zero, carry, mem, out >>
    BY <1>1, <1>2, <2>1 DEF LoadA, Operand, flags
  <2> QED
    BY <2>1, <2>2, EffectOf DEF Now, s
<1>3. CASE LoadX
  <2>1. code[pc].op \in {"LDXI", "LDX"} /\ code' = code /\ pc' = pc + 1
    BY <1>3 DEF LoadX, Fetch, Advance
  <2>2. regX' = (IF code[pc].op = "LDXI" THEN s ELSE Val(mem, s))
        /\ UNCHANGED << regA, regY, zero, carry, mem, out >>
    BY <1>1, <1>3, <2>1 DEF LoadX, Operand, flags
  <2> QED
    BY <2>1, <2>2, EffectOf DEF Now, s
<1>4. CASE LoadY
  <2>1. code[pc].op \in {"LDYI", "LDY"} /\ code' = code /\ pc' = pc + 1
    BY <1>4 DEF LoadY, Fetch, Advance
  <2>2. regY' = (IF code[pc].op = "LDYI" THEN s ELSE Val(mem, s))
        /\ UNCHANGED << regA, regX, zero, carry, mem, out >>
    BY <1>1, <1>4, <2>1 DEF LoadY, Operand, flags
  <2> QED
    BY <2>1, <2>2, EffectOf DEF Now, s
<1>5. CASE StoreA
  <2>1. code[pc].op = "STA" /\ code' = code /\ pc' = pc + 1
    BY <1>5 DEF StoreA, Fetch, Advance
  <2>2. mem' = Put(mem, s, regA) /\ UNCHANGED << regA, regX, regY, zero, carry, out >>
    BY <1>1, <1>5 DEF StoreA, Set, Put, registers, flags
  <2> QED
    BY <2>1, <2>2, EffectOf DEF Now, s
<1>6. CASE Increment
  <2>1. code[pc].op = "INC" /\ code' = code /\ pc' = pc + 1
    BY <1>6 DEF Increment, Fetch, Advance
  <2>2. mem' = Put(mem, s, (Val(mem, s) + 1) % WordMod)
        /\ UNCHANGED << regA, regX, regY, zero, carry, out >>
    BY <1>1, <1>6 DEF Increment, Set, Put, registers, flags
  <2> QED
    BY <2>1, <2>2, EffectOf DEF Now, s
<1>7. CASE AddWithCarry
  <2>1. code[pc].op = "ADC" /\ code' = code /\ pc' = pc + 1
    BY <1>7 DEF AddWithCarry, Fetch, Advance
  <2> DEFINE sum == regA + Val(mem, s) + Bit(carry)
  <2>2. regA' = sum % WordMod /\ carry' = (sum >= WordMod)
        /\ UNCHANGED << regX, regY, zero, mem, out >>
    BY <1>1, <1>7 DEF AddWithCarry, Bit
  <2> HIDE DEF sum
  <2>3. Bit(carry)' = Bit(sum >= WordMod)
    BY <2>2 DEF Bit
  <2> QED
    BY <2>1, <2>2, <2>3, EffectOf DEF Now, sum, s
<1>8. CASE CompareX
  <2>1. code[pc].op = "CPX" /\ code' = code /\ pc' = pc + 1
    BY <1>8 DEF CompareX, Fetch, Advance
  <2>2. /\ zero' = (regX = Val(mem, s)) /\ carry' = (regX >= Val(mem, s))
        /\ UNCHANGED << regA, regX, regY, mem, out >>
    BY <1>1, <1>8 DEF CompareX, registers
  <2>3. Bit(zero)' = Bit(regX = Val(mem, s)) /\ Bit(carry)' = Bit(regX >= Val(mem, s))
    BY <2>2 DEF Bit
  <2> QED
    BY <2>1, <2>2, <2>3, EffectOf DEF Now, s
<1>9. CASE BranchNotEqual
  <2>1. code[pc].op = "BNE" /\ pc' = pc + 1 + (IF zero THEN 0 ELSE s)
        /\ UNCHANGED << code, regA, regX, regY, zero, carry, mem, out >>
    BY <1>1, <1>9 DEF BranchNotEqual, Fetch, registers, flags
  <2>2. pc' = pc + 1 + (IF Bit(zero) = 1 THEN 0 ELSE s)
    BY <2>1 DEF Bit
  <2> QED
    BY <2>1, <2>2, EffectOf DEF Now, s
<1>10. CASE SystemCall
  <2>1. code[pc].op = "SYS" /\ code' = code /\ pc' = pc + 1
    BY <1>10 DEF SystemCall, Fetch, Advance
  <2>2. out' = Append(out, regY) /\ UNCHANGED << regA, regX, regY, zero, carry, mem >>
    BY <1>10 DEF SystemCall, registers, flags
  <2> QED
    BY <2>1, <2>2, EffectOf DEF Now
<1>11. ~Halt
  BY DEF Halt, Fetch
<1> QED
  BY <1>2, <1>3, <1>4, <1>5, <1>6, <1>7, <1>8, <1>9, <1>10, <1>11 DEF CpuStep

-----------------------------------------------------------------------------
(***************************************************************************)
(* Runs of code k.                                                         *)
(***************************************************************************)
\* The first n steps of a run; and r is one of the states m goes through.
Trace(k, t, n) == \A i \in 1 .. n : t[i] = Effect(k, t[i - 1])
Reaches(k, m, r) == \E n \in Nat : \E t : t[0] = m /\ t[n] = r /\ Trace(k, t, n)

LEMMA Stays == \A k, m : Reaches(k, m, m)
<1> SUFFICES ASSUME NEW k, NEW m PROVE Reaches(k, m, m)
  OBVIOUS
<1>1. PICK t : t = [i \in {0} |-> m]
  OBVIOUS
<1>2. t[0] = m /\ Trace(k, t, 0)
  BY <1>1 DEF Trace
<1> QED
  BY <1>2 DEF Reaches

LEMMA OneStep == \A k, m : Reaches(k, m, Effect(k, m))
<1> SUFFICES ASSUME NEW k, NEW m PROVE Reaches(k, m, Effect(k, m))
  OBVIOUS
<1>1. PICK n : n = Effect(k, m)
  OBVIOUS
<1>2. PICK t : t = [i \in {0, 1} |-> IF i = 0 THEN m ELSE n]
  OBVIOUS
<1>3. t[0] = m /\ t[1] = n /\ \A i \in 1 .. 1 : i = 1 /\ i - 1 = 0
  BY <1>2
<1>4. Trace(k, t, 1)
  BY <1>1, <1>3 DEF Trace
<1> QED
  BY <1>1, <1>3, <1>4 DEF Reaches

LEMMA AndThen ==
    ASSUME NEW k, NEW l, NEW m, NEW n, Reaches(k, l, m), Reaches(k, m, n)
    PROVE  Reaches(k, l, n)
<1> PICK a \in Nat : \E f : f[0] = l /\ f[a] = m /\ Trace(k, f, a)
  BY DEF Reaches
<1> PICK b \in Nat : \E g : g[0] = m /\ g[b] = n /\ Trace(k, g, b)
  BY DEF Reaches
<1>1. PICK f : f[0] = l /\ f[a] = m /\ Trace(k, f, a)
  OBVIOUS
<1>2. PICK g : g[0] = m /\ g[b] = n /\ Trace(k, g, b)
  OBVIOUS
<1>3. PICK t : t = [i \in 0 .. a + b |-> IF i <= a THEN f[i] ELSE g[i - a]]
  OBVIOUS
<1>4. \A i \in 0 .. a : t[i] = f[i]
  BY <1>3
<1>5. \A i \in 0 .. b : t[a + i] = g[i]
  BY <1>1, <1>2, <1>3
<1>6. ASSUME NEW i \in 1 .. a + b PROVE t[i] = Effect(k, t[i - 1])
  <2>1. CASE i <= a
    <3>1. i \in 1 .. a /\ i \in 0 .. a /\ i - 1 \in 0 .. a
      BY <2>1
    <3>2. f[i] = Effect(k, f[i - 1])
      BY <1>1, <3>1 DEF Trace
    <3> QED
      BY <1>4, <3>1, <3>2
  <2>2. CASE i > a
    <3>1. PICK j \in 1 .. b : j = i - a /\ i = a + j /\ i - 1 = a + (j - 1) /\ j \in 0 .. b /\ j - 1 \in 0 .. b
      BY <2>2
    <3>2. g[j] = Effect(k, g[j - 1])
      BY <1>2 DEF Trace
    <3>3. t[a + j] = g[j] /\ t[a + (j - 1)] = g[j - 1]
      BY <1>5, <3>1
    <3> QED
      BY <3>1, <3>2, <3>3
  <2> QED
    BY <2>1, <2>2
<1>7. t[0] = l
  BY <1>1, <1>4
<1>8. t[a + b] = n
  BY <1>2, <1>5
<1>9. a + b \in Nat /\ Trace(k, t, a + b)
  BY <1>6 DEF Trace
<1> QED
  BY <1>7, <1>8, <1>9 DEF Reaches

LEMMA FieldsOf ==
    ASSUME NEW p, NEW a, NEW x, NEW y, NEW z, NEW c, NEW f, NEW o
    PROVE  LET m == St(p, a, x, y, z, c, f, o)
           IN /\ m.pc = p /\ m.a = a /\ m.x = x /\ m.y = y
              /\ m.z = z /\ m.c = c /\ m.mem = f /\ m.out = o
  BY DEF St

\* The pieces of a state.
LEMMA StateOf ==
    ASSUME NEW p \in Nat, NEW a \in Byte, NEW x \in Byte, NEW y \in Byte,
           NEW z \in {0, 1}, NEW c \in {0, 1}, NEW f, NEW o \in Seq(Byte),
           \A s : Val(f, s) \in Byte
    PROVE  IsState(St(p, a, x, y, z, c, f, o))
  BY FieldsOf DEF IsState

LEMMA ValPut ==
    ASSUME NEW f, NEW s, NEW v
    PROVE  \A t : Val(Put(f, s, v), t) = IF t = s THEN v ELSE Val(f, t)
  BY DEF Val, Put

LEMMA PutTwice ==
    ASSUME NEW f, NEW s, NEW v, NEW w
    PROVE  Put(Put(f, s, v), s, w) = Put(f, s, w)
  BY DEF Put

LEMMA BitValues == \A b : Bit(b) \in {0, 1}
  BY DEF Bit

LEMMA SmallBytes == {0, 1, 2} \subseteq Byte
  BY WordModAssumption DEF Byte

-----------------------------------------------------------------------------
(***************************************************************************)
(* Single instructions.                                                    *)
(***************************************************************************)
Goes(k, m, n) == Reaches(k, m, n) /\ IsState(n)

LEMMA GoesOn ==
    ASSUME NEW k, NEW l, NEW m, NEW n, Goes(k, l, m), Goes(k, m, n)
    PROVE  Goes(k, l, n)
  BY AndThen DEF Goes

LEMMA GoesTo ==
    ASSUME NEW k, NEW m, IsState(m),
           NEW p \in Nat, NEW a \in Byte, NEW x \in Byte, NEW y \in Byte,
           NEW z \in {0, 1}, NEW c \in {0, 1}, NEW f, NEW o \in Seq(Byte),
           \A s : Val(f, s) \in Byte,
           Effect(k, m) = St(p, a, x, y, z, c, f, o)
    PROVE  Goes(k, m, St(p, a, x, y, z, c, f, o))
<1>1. Reaches(k, m, St(p, a, x, y, z, c, f, o))
  BY OneStep
<1> QED
  BY <1>1, StateOf DEF Goes

LEMMA Parts ==
    ASSUME NEW m, IsState(m)
    PROVE  /\ m = St(m.pc, m.a, m.x, m.y, m.z, m.c, m.mem, m.out)
           /\ m.pc \in Nat /\ m.pc + 1 \in Nat
           /\ m.a \in Byte /\ m.x \in Byte /\ m.y \in Byte
           /\ m.z \in {0, 1} /\ m.c \in {0, 1}
           /\ \A s : Val(m.mem, s) \in Byte
           /\ m.out \in Seq(Byte)
<1>1. \A n \in Nat : n + 1 \in Nat
  OBVIOUS
<1> QED
  BY <1>1 DEF IsState

LEMMA DoLoad ==
    ASSUME NEW k, NEW m, IsState(m), NEW v \in Byte,
           \/ k[m.pc].op \in Immediate /\ k[m.pc].arg = v
           \/ k[m.pc].op \in {"LDA", "LDX", "LDY"} /\ Val(m.mem, k[m.pc].arg) = v
    PROVE  /\ k[m.pc].op \in {"LDAI", "LDA"} =>
                 Goes(k, m, St(m.pc + 1, v, m.x, m.y, m.z, m.c, m.mem, m.out))
           /\ k[m.pc].op \in {"LDXI", "LDX"} =>
                 Goes(k, m, St(m.pc + 1, m.a, v, m.y, m.z, m.c, m.mem, m.out))
           /\ k[m.pc].op \in {"LDYI", "LDY"} =>
                 Goes(k, m, St(m.pc + 1, m.a, m.x, v, m.z, m.c, m.mem, m.out))
<1>1. CASE k[m.pc].op \in {"LDAI", "LDA"}
  <2>1. Effect(k, m) = St(m.pc + 1, v, m.x, m.y, m.z, m.c, m.mem, m.out)
    BY <1>1, Parts, EffectOf DEF Immediate
  <2> QED
    BY <1>1, <2>1, Parts, GoesTo
<1>2. CASE k[m.pc].op \in {"LDXI", "LDX"}
  <2>1. Effect(k, m) = St(m.pc + 1, m.a, v, m.y, m.z, m.c, m.mem, m.out)
    BY <1>2, Parts, EffectOf DEF Immediate
  <2> QED
    BY <1>2, <2>1, Parts, GoesTo
<1>3. CASE k[m.pc].op \in {"LDYI", "LDY"}
  <2>1. Effect(k, m) = St(m.pc + 1, m.a, m.x, v, m.z, m.c, m.mem, m.out)
    BY <1>3, Parts, EffectOf DEF Immediate
  <2> QED
    BY <1>3, <2>1, Parts, GoesTo
<1> QED
  BY <1>1, <1>2, <1>3

LEMMA DoStore ==
    ASSUME NEW k, NEW m, IsState(m), NEW v \in Byte,
           \/ k[m.pc].op = "STA" /\ v = m.a
           \/ k[m.pc].op = "INC" /\ v = (Val(m.mem, k[m.pc].arg) + 1) % WordMod
    PROVE  Goes(k, m, St(m.pc + 1, m.a, m.x, m.y, m.z, m.c, Put(m.mem, k[m.pc].arg, v), m.out))
<1>1. Effect(k, m) = St(m.pc + 1, m.a, m.x, m.y, m.z, m.c, Put(m.mem, k[m.pc].arg, v), m.out)
  BY Parts, EffectOf
<1>2. \A t : Val(Put(m.mem, k[m.pc].arg, v), t) \in Byte
  BY ValPut, Parts
<1> QED
  BY <1>1, <1>2, Parts, GoesTo

LEMMA DoADC ==
    ASSUME NEW k, NEW m, IsState(m), k[m.pc].op = "ADC", m.c = 0
    PROVE  \E c \in {0, 1} :
              Goes(k, m, St(m.pc + 1, (m.a + Val(m.mem, k[m.pc].arg)) % WordMod, m.x, m.y, m.z,
                            c, m.mem, m.out))
<1> DEFINE w == Val(m.mem, k[m.pc].arg)
<1> DEFINE c == Bit(m.a + w + m.c >= WordMod)
<1>1. Effect(k, m) = St(m.pc + 1, (m.a + w + m.c) % WordMod, m.x, m.y, m.z, c, m.mem, m.out)
  BY Parts, EffectOf
<1>2. m.a \in Nat /\ w \in Nat
  BY Parts, WordModAssumption DEF Byte
<1>3. m.a + w + m.c = m.a + w /\ m.a + w \in Nat
  BY <1>2
<1>4. (m.a + w) % WordMod \in Byte
  BY <1>3, ModByte
<1>5. c \in {0, 1}
  BY BitValues
<1> HIDE DEF c
<1> DEFINE v == (m.a + w) % WordMod
<1>6. Effect(k, m) = St(m.pc + 1, v, m.x, m.y, m.z, c, m.mem, m.out)
  <2> HIDE DEF w
  <2> QED
    BY <1>1, <1>3
<1>7. v \in Byte
  BY <1>4
<1> HIDE DEF v
<1>8. Goes(k, m, St(m.pc + 1, v, m.x, m.y, m.z, c, m.mem, m.out))
  BY <1>5, <1>6, <1>7, Parts, GoesTo
<1> QED
  BY <1>5, <1>8 DEF v

LEMMA DoCPX ==
    ASSUME NEW k, NEW m, IsState(m), k[m.pc].op = "CPX"
    PROVE  LET w == Val(m.mem, k[m.pc].arg)
           IN Goes(k, m, St(m.pc + 1, m.a, m.x, m.y, Bit(m.x = w), Bit(m.x >= w), m.mem, m.out))
<1> DEFINE w == Val(m.mem, k[m.pc].arg)
<1>1. Effect(k, m) = St(m.pc + 1, m.a, m.x, m.y, Bit(m.x = w), Bit(m.x >= w), m.mem, m.out)
  BY Parts, EffectOf
<1>2. Bit(m.x = w) \in {0, 1} /\ Bit(m.x >= w) \in {0, 1}
  BY BitValues
<1> QED
  BY <1>1, <1>2, Parts, GoesTo

LEMMA DoBNE ==
    ASSUME NEW k, NEW m, IsState(m), k[m.pc].op = "BNE",
           NEW p \in Nat, p = m.pc + 1 + (IF m.z = 1 THEN 0 ELSE k[m.pc].arg)
    PROVE  Goes(k, m, St(p, m.a, m.x, m.y, m.z, m.c, m.mem, m.out))
<1>1. Effect(k, m) = St(p, m.a, m.x, m.y, m.z, m.c, m.mem, m.out)
  BY Parts, EffectOf
<1> QED
  BY <1>1, Parts, GoesTo

LEMMA DoSYS ==
    ASSUME NEW k, NEW m, IsState(m), k[m.pc].op = "SYS"
    PROVE  Goes(k, m, St(m.pc + 1, m.a, m.x, m.y, m.z, m.c, m.mem, Append(m.out, m.y)))
<1> DEFINE o == Append(m.out, m.y)
<1>1. Effect(k, m) = St(m.pc + 1, m.a, m.x, m.y, m.z, m.c, m.mem, o)
  BY Parts, EffectOf
<1>2. o \in Seq(Byte)
  BY Parts, AppendProperties
<1> HIDE DEF o
<1>3. Goes(k, m, St(m.pc + 1, m.a, m.x, m.y, m.z, m.c, m.mem, o))
  <2>1. m.pc + 1 \in Nat /\ m.a \in Byte /\ m.x \in Byte /\ m.y \in Byte
        /\ m.z \in {0, 1} /\ m.c \in {0, 1} /\ \A s : Val(m.mem, s) \in Byte
    BY Parts
  <2>2. IsState(St(m.pc + 1, m.a, m.x, m.y, m.z, m.c, m.mem, o))
    BY <1>2, <2>1, StateOf
  <2> QED
    BY <1>1, <2>2, OneStep DEF Goes
<1> QED
  BY <1>3 DEF o

-----------------------------------------------------------------------------
(***************************************************************************)
(* Fragments and where they lie.                                           *)
(***************************************************************************)
VarSlots == Names \X Nat
Operands == Int \cup (Names \cup {"temp", "zero", "one"}) \X Nat
Instructions == [op : Ops, arg : Operands]

\* Fragment f lies in code k from p on.
At(k, p, f) == \A i \in 1 .. Len(f) : k[p + i - 1] = f[i]

LEMMA SmallInts == {0, 1, 2, 3} \subseteq Operands
  BY DEF Operands

LEMMA SlotOperands ==
    /\ \A n \in Nat : Temp(n) \in Operands
    /\ ZeroSlot \in Operands /\ OneSlot \in Operands
    /\ VarSlots \subseteq Operands
  BY DEF Operands, Temp, ZeroSlot, OneSlot, VarSlots

LEMMA InstrIn ==
    ASSUME NEW op \in Ops, NEW s \in Operands
    PROVE  /\ Instr(op, s) \in Instructions
           /\ Instr(op, s).op = op /\ Instr(op, s).arg = s
  BY DEF Instr, Instructions

\* Names for being a fragment and for one fragment after another, so that the
\* provers look into sequences only in the next lemmas.
Fragment(f) == f \in Seq(Instructions)
Cat(f, g) == f \o g
Size(f) == Len(f)

KeepsX(f) == \A i \in 1 .. Len(f) : f[i].op \notin {"LDXI", "LDX"}

LEMMA CatParts ==
    ASSUME NEW f, NEW g, Fragment(f), Fragment(g)
    PROVE  /\ Fragment(Cat(f, g))
           /\ Size(f) \in Nat /\ Size(g) \in Nat /\ Size(Cat(f, g)) = Size(f) + Size(g)
           /\ \A k : \A p \in Nat : At(k, p, Cat(f, g)) => At(k, p, f) /\ At(k, p + Size(f), g)
           /\ KeepsX(Cat(f, g)) <=> KeepsX(f) /\ KeepsX(g)
<1>1. /\ Len(f) \in Nat /\ Len(g) \in Nat /\ Len(f \o g) = Len(f) + Len(g)
      /\ f \o g \in Seq(Instructions)
      /\ \A i \in 1 .. Len(f) : (f \o g)[i] = f[i]
      /\ \A i \in 1 .. Len(g) : (f \o g)[Len(f) + i] = g[i]
  BY ConcatProperties, LenProperties DEF Fragment
<1>2. PICK h : h = f \o g
  OBVIOUS
<1>3. \A i \in 1 .. Len(f) : i \in 1 .. Len(h) /\ h[i] = f[i]
  BY <1>1, <1>2
<1>4. \A i \in 1 .. Len(g) : Len(f) + i \in 1 .. Len(h) /\ h[Len(f) + i] = g[i]
  BY <1>1, <1>2
<1>5. ASSUME NEW k, NEW p \in Nat, At(k, p, h) PROVE At(k, p, f) /\ At(k, p + Len(f), g)
  <2>1. ASSUME NEW i \in 1 .. Len(f) PROVE k[p + i - 1] = f[i]
    BY <1>3, <1>5 DEF At
  <2>2. ASSUME NEW i \in 1 .. Len(g) PROVE k[p + Len(f) + i - 1] = g[i]
    <3>1. p + (Len(f) + i) - 1 = p + Len(f) + i - 1
      BY <1>1
    <3>2. k[p + (Len(f) + i) - 1] = h[Len(f) + i]
      BY <1>4, <1>5 DEF At
    <3> QED
      BY <1>4, <3>1, <3>2
  <2> QED
    BY <2>1, <2>2 DEF At
<1>6. ASSUME KeepsX(h) PROVE KeepsX(f) /\ KeepsX(g)
  BY <1>3, <1>4, <1>6 DEF KeepsX
<1>7. ASSUME KeepsX(f), KeepsX(g) PROVE KeepsX(h)
  <2> SUFFICES ASSUME NEW i \in 1 .. Len(h) PROVE h[i].op \notin {"LDXI", "LDX"}
    BY DEF KeepsX
  <2>1. CASE i <= Len(f)
    BY <1>1, <1>3, <1>7, <2>1 DEF KeepsX
  <2>2. CASE i > Len(f)
    <3>1. i - Len(f) \in 1 .. Len(g) /\ Len(f) + (i - Len(f)) = i
      BY <1>1, <1>2, <2>2
    <3> QED
      BY <1>4, <1>7, <3>1 DEF KeepsX
  <2> QED
    BY <1>1, <2>1, <2>2
<1> QED
  BY <1>1, <1>2, <1>5, <1>6, <1>7 DEF Fragment, Cat, Size

LEMMA CatSize ==
    ASSUME NEW f, NEW g, Fragment(f), Fragment(g)
    PROVE  /\ Fragment(Cat(f, g)) /\ Size(Cat(f, g)) = Size(f) + Size(g)
           /\ KeepsX(f) /\ KeepsX(g) => KeepsX(Cat(f, g))
           /\ KeepsX(Cat(f, g)) => KeepsX(f) /\ KeepsX(g)
  BY CatParts

LEMMA EmptyPiece == Fragment(<< >>) /\ Size(<< >>) = 0 /\ KeepsX(<< >>)
  BY DEF Fragment, KeepsX, Size

LEMMA CatEmpty == \A f : Fragment(f) => Cat(f, << >>) = f /\ Cat(<< >>, f) = f
  BY ConcatEmptySeq DEF Fragment, Cat

\* Fragments of one, two and three instructions, and of equal ones; the provers
\* need no more than the lemmas below say of them.
One(op, s) == << Instr(op, s) >>
Two(op1, s1, op2, s2) == << Instr(op1, s1), Instr(op2, s2) >>
Three(op1, s1, op2, s2, op3, s3) == << Instr(op1, s1), Instr(op2, s2), Instr(op3, s3) >>
Repeats(k, p, j, i) == \A d \in 0 .. j - 1 : k[p + d] = i
Many(op, s, j) == [i \in 1 .. j |-> Instr(op, s)]

LEMMA Piece ==
    ASSUME NEW op \in Ops, NEW s \in Operands
    PROVE  LET f == One(op, s)
           IN /\ Fragment(f) /\ Size(f) = 1
              /\ KeepsX(f) <=> op \notin {"LDXI", "LDX"}
              /\ \A k : \A p \in Nat : At(k, p, f) => k[p] = Instr(op, s)
<1>1. PICK i : i = Instr(op, s)
  OBVIOUS
<1>2. PICK f : f = << i >>
  OBVIOUS
<1>3. f = One(op, s) /\ i \in Instructions /\ i.op = op
  BY <1>1, <1>2, InstrIn DEF One
<1>4. Len(f) = 1 /\ f[1] = i /\ \A j \in 1 .. 1 : j = 1
  BY <1>2
<1>5. ASSUME NEW k, NEW p \in Nat, At(k, p, f) PROVE k[p] = i
  <2>1. k[p + 1 - 1] = f[1]
    BY <1>4, <1>5 DEF At
  <2> QED
    BY <1>4, <2>1
<1>6. Fragment(f)
  BY <1>2, <1>3 DEF Fragment
<1>7. KeepsX(f) <=> op \notin {"LDXI", "LDX"}
  BY <1>3, <1>4 DEF KeepsX
<1> QED
  BY <1>1, <1>3, <1>4, <1>5, <1>6, <1>7 DEF Size

LEMMA PieceTwo ==
    ASSUME NEW op1 \in Ops, NEW s1 \in Operands, NEW op2 \in Ops, NEW s2 \in Operands
    PROVE  LET f == Two(op1, s1, op2, s2)
           IN /\ Fragment(f) /\ Size(f) = 2
              /\ KeepsX(f) <=> op1 \notin {"LDXI", "LDX"} /\ op2 \notin {"LDXI", "LDX"}
              /\ \A k : \A p \in Nat : At(k, p, f) =>
                    k[p] = Instr(op1, s1) /\ k[p + 1] = Instr(op2, s2)
<1>1. PICK i1 : i1 = Instr(op1, s1)
  OBVIOUS
<1>2. PICK i2 : i2 = Instr(op2, s2)
  OBVIOUS
<1>3. PICK f : f = << i1, i2 >>
  OBVIOUS
<1>4. f = Two(op1, s1, op2, s2) /\ {i1, i2} \subseteq Instructions /\ i1.op = op1 /\ i2.op = op2
  BY <1>1, <1>2, <1>3, InstrIn DEF Two
<1>5. Len(f) = 2 /\ f[1] = i1 /\ f[2] = i2 /\ 1 .. 2 = {1, 2}
  BY <1>3
<1>6. ASSUME NEW k, NEW p \in Nat, At(k, p, f) PROVE k[p] = i1 /\ k[p + 1] = i2
  <2>1. k[p + 1 - 1] = f[1] /\ k[p + 2 - 1] = f[2]
    BY <1>5, <1>6 DEF At
  <2>2. p + 1 - 1 = p /\ p + 2 - 1 = p + 1
    OBVIOUS
  <2> QED
    BY <1>5, <2>1, <2>2
<1>7. Fragment(f)
  BY <1>3, <1>4 DEF Fragment
<1>8. KeepsX(f) <=> op1 \notin {"LDXI", "LDX"} /\ op2 \notin {"LDXI", "LDX"}
  BY <1>4, <1>5 DEF KeepsX
<1> QED
  BY <1>1, <1>2, <1>4, <1>5, <1>6, <1>7, <1>8 DEF Size

LEMMA PieceThree ==
    ASSUME NEW op1 \in Ops, NEW s1 \in Operands, NEW op2 \in Ops, NEW s2 \in Operands,
           NEW op3 \in Ops, NEW s3 \in Operands
    PROVE  LET f == Three(op1, s1, op2, s2, op3, s3)
           IN /\ Fragment(f) /\ Size(f) = 3
              /\ KeepsX(f) <=>
                    op1 \notin {"LDXI", "LDX"} /\ op2 \notin {"LDXI", "LDX"} /\ op3 \notin {"LDXI", "LDX"}
              /\ \A k : \A p \in Nat : At(k, p, f) =>
                    k[p] = Instr(op1, s1) /\ k[p + 1] = Instr(op2, s2) /\ k[p + 2] = Instr(op3, s3)
<1>1. PICK i1 : i1 = Instr(op1, s1)
  OBVIOUS
<1>2. PICK i2 : i2 = Instr(op2, s2)
  OBVIOUS
<1>3. PICK i3 : i3 = Instr(op3, s3)
  OBVIOUS
<1>4. PICK f : f = << i1, i2, i3 >>
  OBVIOUS
<1>5. /\ f = Three(op1, s1, op2, s2, op3, s3) /\ {i1, i2, i3} \subseteq Instructions
      /\ i1.op = op1 /\ i2.op = op2 /\ i3.op = op3
  BY <1>1, <1>2, <1>3, <1>4, InstrIn DEF Three
<1>6. Len(f) = 3 /\ f[1] = i1 /\ f[2] = i2 /\ f[3] = i3 /\ 1 .. 3 = {1, 2, 3}
  BY <1>4
<1>7. ASSUME NEW k, NEW p \in Nat, At(k, p, f) PROVE k[p] = i1 /\ k[p + 1] = i2 /\ k[p + 2] = i3
  <2>1. k[p + 1 - 1] = f[1] /\ k[p + 2 - 1] = f[2] /\ k[p + 3 - 1] = f[3]
    BY <1>6, <1>7 DEF At
  <2>2. p + 1 - 1 = p /\ p + 2 - 1 = p + 1 /\ p + 3 - 1 = p + 2
    OBVIOUS
  <2> QED
    BY <1>6, <2>1, <2>2
<1>8. Fragment(f)
  BY <1>4, <1>5 DEF Fragment
<1>9. KeepsX(f) <=>
           op1 \notin {"LDXI", "LDX"} /\ op2 \notin {"LDXI", "LDX"} /\ op3 \notin {"LDXI", "LDX"}
  <2>1. KeepsX(f) <=> \A i \in {1, 2, 3} : f[i].op \notin {"LDXI", "LDX"}
    BY <1>6 DEF KeepsX
  <2>2. f[1].op = op1 /\ f[2].op = op2 /\ f[3].op = op3
    BY <1>5, <1>6
  <2> QED
    BY <2>1, <2>2
<1> QED
  BY <1>1, <1>2, <1>3, <1>5, <1>6, <1>7, <1>8, <1>9 DEF Size

LEMMA PieceMany ==
    ASSUME NEW op \in Ops, NEW s \in Operands, NEW j \in Nat
    PROVE  LET f == Many(op, s, j)
           IN /\ Fragment(f) /\ Size(f) = j
              /\ \A k : \A p \in Nat : At(k, p, f) => Repeats(k, p, j, Instr(op, s))
<1>1. PICK c : c = Instr(op, s)
  OBVIOUS
<1>2. PICK f : f = [i \in 1 .. j |-> c]
  OBVIOUS
<1>3. f = Many(op, s, j) /\ c \in Instructions
  BY <1>1, <1>2, InstrIn DEF Many
<1>4. f \in Seq(Instructions) /\ Len(f) = j /\ \A i \in 1 .. j : f[i] = c
  BY <1>2, <1>3, IsASeq
<1>5. ASSUME NEW k, NEW p \in Nat, At(k, p, f), NEW i \in 0 .. j - 1
      PROVE  k[p + i] = c
  <2>1. i + 1 \in 1 .. j /\ p + (i + 1) - 1 = p + i
    OBVIOUS
  <2> QED
    BY <1>4, <1>5, <2>1 DEF At
<1> QED
  BY <1>1, <1>3, <1>4, <1>5 DEF Fragment, Repeats, Size

-----------------------------------------------------------------------------
(***************************************************************************)
(* What fragments do.                                                      *)
(***************************************************************************)
\* The parts of a state; the provers do well to see a name here.
PcOf(m) == m.pc
AOf(m) == m.a
XOf(m) == m.x
YOf(m) == m.y
ZOf(m) == m.z
COf(m) == m.c
OutOf(m) == m.out
Holds(m, s) == Val(m.mem, s)
SameSlots(m, r) == \A s : Holds(r, s) = Holds(m, s)

LEMMA PartsOf ==
    ASSUME NEW m, IsState(m)
    PROVE  /\ PcOf(m) \in Nat /\ PcOf(m) + 1 \in Nat
           /\ AOf(m) \in Byte /\ XOf(m) \in Byte /\ YOf(m) \in Byte
           /\ ZOf(m) \in {0, 1} /\ COf(m) \in {0, 1}
           /\ \A s : Holds(m, s) \in Byte
           /\ OutOf(m) \in Seq(Byte)
  BY Parts DEF PcOf, AOf, XOf, YOf, ZOf, COf, OutOf, Holds

\* The slots code leaves alone when n temporaries are in use.
Lasting(n) == VarSlots \cup Constants \cup {Temp(j) : j \in 0 .. n - 1}
Kept(n, m, r) == \A s \in Lasting(n) : Holds(r, s) = Holds(m, s)

\* The variables hold what the store of the source program says.
Ready(m, store) ==
    /\ IsState(m)
    /\ Holds(m, ZeroSlot) = 0 /\ Holds(m, OneSlot) = 1
    /\ \A s \in VarSlots : Holds(m, s) = Val(store, s)

\* The run of f from m ends behind f, in r.
Ends(k, f, n, m, r) ==
    Goes(k, m, r) /\ PcOf(r) = PcOf(m) + Size(f) /\ Kept(n, m, r) /\ OutOf(r) = OutOf(m)

\* Wherever f lies, it puts v into A, X, Y or Z.
YieldsA(f, n, store, v) ==
    \A k, m : Ready(m, store) /\ At(k, PcOf(m), f) =>
        \E r : Ends(k, f, n, m, r) /\ AOf(r) = v /\ (KeepsX(f) => XOf(r) = XOf(m))
YieldsX(f, n, store, v) ==
    \A k, m : Ready(m, store) /\ At(k, PcOf(m), f) => \E r : Ends(k, f, n, m, r) /\ XOf(r) = v
YieldsY(f, n, store, v) ==
    \A k, m : Ready(m, store) /\ At(k, PcOf(m), f) => \E r : Ends(k, f, n, m, r) /\ YOf(r) = v
YieldsZ(f, n, store, v) ==
    \A k, m : Ready(m, store) /\ At(k, PcOf(m), f) => \E r : Ends(k, f, n, m, r) /\ ZOf(r) = v

LEMMA TempsApart ==
    ASSUME NEW n \in Nat
    PROVE  /\ Temp(n) \notin Lasting(n) /\ Temp(n) \in Lasting(n + 1)
           /\ \A j \in Nat : j >= n => Lasting(n) \subseteq Lasting(j)
           /\ \A j \in Nat : j >= n => Temp(j) \notin Lasting(n)
           /\ ZeroSlot \in Lasting(n) /\ OneSlot \in Lasting(n)
<1>1. \A j \in Nat : Temp(j) \notin VarSlots \cup Constants
  BY ReservedNames DEF VarSlots, Constants, Temp, ZeroSlot, OneSlot
<1>2. \A i, j \in Nat : Temp(i) = Temp(j) => i = j
  BY DEF Temp
<1>3. \A j \in Nat : j >= n => Temp(j) \notin Lasting(n)
  BY <1>1, <1>2 DEF Lasting
<1> QED
  BY <1>3 DEF Lasting, Constants

LEMMA KeptMore ==
    ASSUME NEW n \in Nat, NEW j \in Nat, j >= n, NEW m, NEW r, Kept(j, m, r)
    PROVE  Kept(n, m, r)
  BY TempsApart DEF Kept

LEMMA KeptOn ==
    ASSUME NEW n, NEW l, NEW m, NEW r, Kept(n, l, m), Kept(n, m, r)
    PROVE  Kept(n, l, r)
  BY DEF Kept

LEMMA StillReady ==
    ASSUME NEW n, NEW m, NEW r, NEW store, Ready(m, store), Kept(n, m, r), IsState(r)
    PROVE  Ready(r, store)
  BY DEF Ready, Kept, Lasting, Constants

\* One fragment after another.
LEMMA Sequel ==
    ASSUME NEW k, NEW f, NEW g, Fragment(f), Fragment(g),
           NEW n \in Nat, NEW j \in Nat, j >= n, NEW l, NEW m, NEW r, IsState(l),
           Ends(k, f, n, l, m), Ends(k, g, j, m, r)
    PROVE  Ends(k, Cat(f, g), n, l, r)
<1>1. Goes(k, l, r)
  BY GoesOn DEF Ends
<1>2. Kept(n, l, r) /\ OutOf(r) = OutOf(l)
  BY KeptMore, KeptOn DEF Ends
<1>3. /\ PcOf(l) \in Nat /\ Size(f) \in Nat /\ Size(g) \in Nat
      /\ Size(Cat(f, g)) = Size(f) + Size(g)
  BY CatParts, PartsOf
<1>4. PcOf(r) = PcOf(l) + Size(f) + Size(g)
  BY DEF Ends
<1>5. PcOf(r) = PcOf(l) + (Size(f) + Size(g))
  BY <1>3, <1>4
<1> QED
  BY <1>1, <1>2, <1>3, <1>5 DEF Ends

-----------------------------------------------------------------------------
(***************************************************************************)
(* Arithmetic of registers.                                                *)
(***************************************************************************)
LEMMA Division ==
    ASSUME NEW a \in Int
    PROVE  \E q \in Int : a = WordMod * q + (a % WordMod) /\ a % WordMod \in 0 .. WordMod - 1
<1>1. a = WordMod * (a \div WordMod) + (a % WordMod) /\ a \div WordMod \in Int
      /\ a % WordMod \in 0 .. WordMod - 1
  BY WordModAssumption
<1> QED
  BY <1>1

LEMMA NoMultiple ==
    ASSUME NEW d \in Int, WordMod * d < WordMod, WordMod * d > -WordMod
    PROVE  d = 0
<1>1. CASE d >= 1
  <2>1. WordMod * d >= WordMod
    BY <1>1, WordModAssumption
  <2> QED
    BY <2>1, WordModAssumption
<1>2. CASE d <= -1
  <2>1. WordMod * d <= -WordMod
    BY <1>2, WordModAssumption
  <2> QED
    BY <2>1, WordModAssumption
<1> QED
  BY <1>1, <1>2

LEMMA OneRemainder ==
    ASSUME NEW q \in Int, NEW d \in Int, NEW s \in 0 .. WordMod - 1, NEW e \in 0 .. WordMod - 1,
           WordMod * q + s = WordMod * d + e
    PROVE  s = e
<1>1. WordMod * (q - d) = e - s
  BY WordModAssumption
<1>2. q - d = 0
  BY <1>1, NoMultiple, WordModAssumption
<1> QED
  BY <1>1, <1>2, WordModAssumption

\* A sum may be reduced before or after the next addition.
LEMMA ModOfSum ==
    ASSUME NEW a \in Nat, NEW b \in Nat
    PROVE  ((a % WordMod) + b) % WordMod = (a + b) % WordMod
<1>1. PICK q \in Int : a = WordMod * q + (a % WordMod) /\ a % WordMod \in 0 .. WordMod - 1
  BY Division
<1> DEFINE r == a % WordMod
<1>2. r + b \in Int
  BY <1>1, WordModAssumption
<1>3. PICK p \in Int : /\ r + b = WordMod * p + ((r + b) % WordMod)
                       /\ (r + b) % WordMod \in 0 .. WordMod - 1
  BY <1>2, Division
<1>4. PICK d \in Int : /\ a + b = WordMod * d + ((a + b) % WordMod)
                       /\ (a + b) % WordMod \in 0 .. WordMod - 1
  BY Division
<1> DEFINE s == (r + b) % WordMod
<1>5. a + b = WordMod * (q + p) + s
  BY <1>1, <1>3, WordModAssumption
<1> QED
  BY <1>3, <1>4, <1>5, OneRemainder

LEMMA ByteMod == \A v \in Byte : v % WordMod = v
  BY WordModAssumption DEF Byte

\* A set of numbers that is not empty has a least one.
LEMMA LeastNumber ==
    ASSUME NEW T, T \subseteq Nat, T # {}
    PROVE  \E x \in T : \A y \in T : x <= y
<1>1. \E x \in T : \A y \in T : ~ (<< y, x >> \in OpToRel(<, Nat))
  BY WFMin, NatLessThanWellFounded
<1>2. \A x, y \in Nat : y < x => << y, x >> \in OpToRel(<, Nat)
  BY DEF OpToRel
<1>3. \A x, y \in Nat : ~ (y < x) => x <= y
  OBVIOUS
<1> QED
  BY <1>1, <1>2, <1>3, Zenon

\* A set of numbers with 0 and every successor is all of them.
LEMMA EveryNumber ==
    ASSUME NEW T, 0 \in T, \A i \in Nat : i \in T => i + 1 \in T
    PROVE  Nat \subseteq T
<1>1. PICK Rest : Rest = Nat \ T
  OBVIOUS
<1> SUFFICES ASSUME Rest # {} PROVE FALSE
  BY <1>1
<1>2. PICK x \in Rest : \A y \in Rest : x <= y
  BY <1>1, LeastNumber
<1>3. x \in Nat /\ x \notin T /\ x # 0
  BY <1>1, <1>2
<1>4. x - 1 \in Nat /\ ~ (x <= x - 1) /\ (x - 1) + 1 = x
  BY <1>3
<1>5. x - 1 \in T
  BY <1>1, <1>2, <1>4
<1> QED
  BY <1>3, <1>4, <1>5

-----------------------------------------------------------------------------
(***************************************************************************)
(* Rules for expressions.                                                  *)
(***************************************************************************)
\* A state that was reached, by its parts.
LEMMA Reached ==
    ASSUME NEW k, NEW m, NEW p, NEW a, NEW x, NEW y, NEW z, NEW c, NEW f, NEW o,
           Goes(k, m, St(p, a, x, y, z, c, f, o))
    PROVE  \E r : /\ Goes(k, m, r) /\ PcOf(r) = p /\ AOf(r) = a /\ XOf(r) = x /\ YOf(r) = y
                  /\ ZOf(r) = z /\ COf(r) = c /\ OutOf(r) = o
                  /\ \A s : Holds(r, s) = Val(f, s)
  BY FieldsOf DEF PcOf, AOf, XOf, YOf, ZOf, COf, OutOf, Holds

\* A goes to a temporary nobody else uses.
LEMMA Storing ==
    ASSUME NEW k, NEW m, IsState(m), NEW n \in Nat, NEW j \in Nat, j >= n,
           k[PcOf(m)] = Instr("STA", Temp(j))
    PROVE  \E r : /\ Goes(k, m, r) /\ PcOf(r) = PcOf(m) + 1
                  /\ AOf(r) = AOf(m) /\ XOf(r) = XOf(m) /\ YOf(r) = YOf(m)
                  /\ ZOf(r) = ZOf(m) /\ COf(r) = COf(m)
                  /\ OutOf(r) = OutOf(m) /\ Kept(n, m, r)
                  /\ Holds(r, Temp(j)) = AOf(m)
                  /\ \A s : s # Temp(j) => Holds(r, s) = Holds(m, s)
<1> DEFINE f == Put(m.mem, Temp(j), m.a)
<1>1. k[m.pc].op = "STA" /\ k[m.pc].arg = Temp(j) /\ m.a \in Byte
  BY Parts DEF Instr, PcOf
<1>2. Goes(k, m, St(m.pc + 1, m.a, m.x, m.y, m.z, m.c, f, m.out))
  BY <1>1, DoStore
<1>3. \A s : Val(f, s) = IF s = Temp(j) THEN m.a ELSE Val(m.mem, s)
  BY ValPut
<1> HIDE DEF f
<1>4. PICK r : /\ Goes(k, m, r) /\ PcOf(r) = m.pc + 1
               /\ AOf(r) = m.a /\ XOf(r) = m.x /\ YOf(r) = m.y /\ ZOf(r) = m.z /\ COf(r) = m.c
               /\ OutOf(r) = m.out /\ \A s : Holds(r, s) = Val(f, s)
  BY <1>2, Reached
<1>5. \A s : Holds(r, s) = IF s = Temp(j) THEN AOf(m) ELSE Holds(m, s)
  BY <1>3, <1>4 DEF Holds, AOf
<1>6. Kept(n, m, r)
  BY <1>5, TempsApart DEF Kept
<1> QED
  BY <1>4, <1>5, <1>6 DEF PcOf, AOf, XOf, YOf, ZOf, COf, OutOf

\* Instructions that write no slot.
LEMMA Loading ==
    ASSUME NEW k, NEW m, IsState(m), NEW op, NEW s, k[PcOf(m)] = Instr(op, s), NEW v \in Byte,
           \/ op \in Immediate /\ s = v
           \/ op \in {"LDA", "LDX", "LDY"} /\ Holds(m, s) = v
    PROVE  \E r : /\ Goes(k, m, r) /\ PcOf(r) = PcOf(m) + 1 /\ SameSlots(m, r) /\ OutOf(r) = OutOf(m)
                  /\ ZOf(r) = ZOf(m) /\ COf(r) = COf(m)
                  /\ AOf(r) = IF op \in {"LDAI", "LDA"} THEN v ELSE AOf(m)
                  /\ XOf(r) = IF op \in {"LDXI", "LDX"} THEN v ELSE XOf(m)
                  /\ YOf(r) = IF op \in {"LDYI", "LDY"} THEN v ELSE YOf(m)
<1>1. k[m.pc].op = op /\ k[m.pc].arg = s
  BY DEF Instr, PcOf
<1>2. /\ op \in {"LDAI", "LDA", "LDXI", "LDX", "LDYI", "LDY"}
      /\ \/ k[m.pc].op \in Immediate /\ k[m.pc].arg = v
         \/ k[m.pc].op \in {"LDA", "LDX", "LDY"} /\ Val(m.mem, k[m.pc].arg) = v
  BY <1>1 DEF Immediate, Holds
<1>3. CASE op \in {"LDAI", "LDA"}
  <2>1. Goes(k, m, St(m.pc + 1, v, m.x, m.y, m.z, m.c, m.mem, m.out))
    BY <1>1, <1>2, <1>3, DoLoad
  <2> QED
    BY <1>3, <2>1, Reached DEF PcOf, AOf, XOf, YOf, ZOf, COf, OutOf, Holds, SameSlots
<1>4. CASE op \in {"LDXI", "LDX"}
  <2>1. Goes(k, m, St(m.pc + 1, m.a, v, m.y, m.z, m.c, m.mem, m.out))
    BY <1>1, <1>2, <1>4, DoLoad
  <2> QED
    BY <1>4, <2>1, Reached DEF PcOf, AOf, XOf, YOf, ZOf, COf, OutOf, Holds, SameSlots
<1>5. CASE op \in {"LDYI", "LDY"}
  <2>1. Goes(k, m, St(m.pc + 1, m.a, m.x, v, m.z, m.c, m.mem, m.out))
    BY <1>1, <1>2, <1>5, DoLoad
  <2> QED
    BY <1>5, <2>1, Reached DEF PcOf, AOf, XOf, YOf, ZOf, COf, OutOf, Holds, SameSlots
<1> QED
  BY <1>2, <1>3, <1>4, <1>5

LEMMA Comparing ==
    ASSUME NEW k, NEW m, IsState(m), NEW s, k[PcOf(m)] = Instr("CPX", s)
    PROVE  \E r : /\ Goes(k, m, r) /\ PcOf(r) = PcOf(m) + 1 /\ SameSlots(m, r) /\ OutOf(r) = OutOf(m)
                  /\ ZOf(r) = Bit(XOf(m) = Holds(m, s)) /\ COf(r) = Bit(XOf(m) >= Holds(m, s))
                  /\ AOf(r) = AOf(m) /\ XOf(r) = XOf(m) /\ YOf(r) = YOf(m)
<1>1. k[m.pc].op = "CPX" /\ k[m.pc].arg = s
  BY DEF Instr, PcOf
<1>2. Goes(k, m, St(m.pc + 1, m.a, m.x, m.y, Bit(m.x = Val(m.mem, s)), Bit(m.x >= Val(m.mem, s)),
                    m.mem, m.out))
  BY <1>1, DoCPX
<1> QED
  BY <1>2, Reached DEF PcOf, AOf, XOf, YOf, OutOf, Holds, SameSlots

LEMMA Branching ==
    ASSUME NEW k, NEW m, IsState(m), NEW d \in Int, k[PcOf(m)] = Instr("BNE", d),
           PcOf(m) + 1 + d \in Nat
    PROVE  \E r : /\ Goes(k, m, r) /\ SameSlots(m, r) /\ OutOf(r) = OutOf(m)
                  /\ PcOf(r) = IF ZOf(m) = 1 THEN PcOf(m) + 1 ELSE PcOf(m) + 1 + d
                  /\ AOf(r) = AOf(m) /\ XOf(r) = XOf(m) /\ YOf(r) = YOf(m)
                  /\ ZOf(r) = ZOf(m) /\ COf(r) = COf(m)
<1>1. k[m.pc].op = "BNE" /\ k[m.pc].arg = d /\ m.pc \in Nat /\ m.pc + 1 + d \in Nat
  BY Parts DEF Instr, PcOf
<1> DEFINE p == IF m.z = 1 THEN m.pc + 1 ELSE m.pc + 1 + d
<1>2. p \in Nat /\ p = m.pc + 1 + (IF m.z = 1 THEN 0 ELSE d)
  BY <1>1
<1> HIDE DEF p
<1>3. Goes(k, m, St(p, m.a, m.x, m.y, m.z, m.c, m.mem, m.out))
  BY <1>1, <1>2, DoBNE
<1>4. PICK r : /\ Goes(k, m, r) /\ PcOf(r) = p
               /\ AOf(r) = m.a /\ XOf(r) = m.x /\ YOf(r) = m.y /\ ZOf(r) = m.z /\ COf(r) = m.c
               /\ OutOf(r) = m.out /\ \A s : Holds(r, s) = Val(m.mem, s)
  BY <1>3, Reached
<1> QED
  BY <1>4 DEF p, PcOf, AOf, XOf, YOf, ZOf, COf, OutOf, Holds, SameSlots

LEMMA Adding ==
    ASSUME NEW k, NEW m, IsState(m), NEW s, k[PcOf(m)] = Instr("ADC", s), COf(m) = 0
    PROVE  \E r : /\ Goes(k, m, r) /\ PcOf(r) = PcOf(m) + 1 /\ SameSlots(m, r) /\ OutOf(r) = OutOf(m)
                  /\ AOf(r) = (AOf(m) + Holds(m, s)) % WordMod
<1>1. k[m.pc].op = "ADC" /\ k[m.pc].arg = s /\ m.c = 0
  BY DEF Instr, PcOf, COf
<1>2. PICK c \in {0, 1} :
        Goes(k, m, St(m.pc + 1, (m.a + Val(m.mem, s)) % WordMod, m.x, m.y, m.z, c, m.mem, m.out))
  BY <1>1, DoADC
<1>3. PICK w : w = (m.a + Val(m.mem, s)) % WordMod
  OBVIOUS
<1>4. Goes(k, m, St(m.pc + 1, w, m.x, m.y, m.z, c, m.mem, m.out))
  BY <1>2, <1>3
<1>5. PICK r : /\ Goes(k, m, r) /\ PcOf(r) = m.pc + 1 /\ AOf(r) = w
               /\ OutOf(r) = m.out /\ \A q : Holds(r, q) = Val(m.mem, q)
  BY <1>4, Reached
<1> QED
  BY <1>3, <1>5 DEF PcOf, AOf, OutOf, Holds, SameSlots

LEMMA Printing ==
    ASSUME NEW k, NEW m, IsState(m), NEW s, k[PcOf(m)] = Instr("SYS", s)
    PROVE  \E r : /\ Goes(k, m, r) /\ PcOf(r) = PcOf(m) + 1 /\ SameSlots(m, r)
                  /\ OutOf(r) = Append(OutOf(m), YOf(m))
<1>1. k[m.pc].op = "SYS"
  BY DEF Instr, PcOf
<1>2. PICK o : o = Append(m.out, m.y)
  OBVIOUS
<1>3. Goes(k, m, St(m.pc + 1, m.a, m.x, m.y, m.z, m.c, m.mem, o))
  BY <1>1, <1>2, DoSYS
<1>4. PICK r : /\ Goes(k, m, r) /\ PcOf(r) = m.pc + 1
               /\ OutOf(r) = o /\ \A q : Holds(r, q) = Val(m.mem, q)
  BY <1>3, Reached
<1> QED
  BY <1>2, <1>4 DEF PcOf, YOf, OutOf, Holds, SameSlots

LEMMA Counting ==
    ASSUME NEW k, NEW m, IsState(m), NEW j \in Nat, NEW t, Repeats(k, PcOf(m), j, Instr("INC", t))
    PROVE  \E r : /\ Goes(k, m, r) /\ PcOf(r) = PcOf(m) + j /\ OutOf(r) = OutOf(m)
                  /\ XOf(r) = XOf(m)
                  /\ Holds(r, t) = (Holds(m, t) + j) % WordMod
                  /\ \A s : s # t => Holds(r, s) = Holds(m, s)
<1> DEFINE Counted(i, r) ==
        /\ Goes(k, m, r) /\ PcOf(r) = PcOf(m) + i /\ OutOf(r) = OutOf(m)
        /\ XOf(r) = XOf(m)
        /\ Holds(r, t) = (Holds(m, t) + i) % WordMod
        /\ \A s : s # t => Holds(r, s) = Holds(m, s)
<1> DEFINE T == {i \in Nat : i <= j => \E r : Counted(i, r)}
<1>1. PcOf(m) \in Nat /\ Holds(m, t) \in Byte /\ Holds(m, t) \in Nat
  BY PartsOf, WordModAssumption DEF Byte
<1>2. 0 \in T
  <2>1. Counted(0, m)
    BY <1>1, ByteMod, Stays DEF Goes
  <2> QED
    BY <2>1
<1>3. ASSUME NEW i \in Nat, i \in T PROVE i + 1 \in T
  <2> SUFFICES ASSUME i + 1 <= j PROVE \E r : Counted(i + 1, r)
    OBVIOUS
  <2>1. PICK q : Counted(i, q)
    BY <1>3
  <2> DEFINE v == (Holds(q, t) + 1) % WordMod
  <2>2. k[PcOf(q)] = Instr("INC", t) /\ IsState(q)
    BY <2>1 DEF Goes, Repeats
  <2>3. v = (Holds(m, t) + (i + 1)) % WordMod /\ v \in Byte
    <3>1. Holds(m, t) + i \in Nat /\ Holds(m, t) + (i + 1) = (Holds(m, t) + i) + 1
          /\ Holds(m, t) + (i + 1) \in Nat
      BY <1>1
    <3>2. v = (Holds(m, t) + (i + 1)) % WordMod
      BY <2>1, <3>1, ModOfSum
    <3> QED
      BY <3>1, <3>2, ModByte
  <2>4. k[q.pc].op = "INC" /\ k[q.pc].arg = t /\ v = (Val(q.mem, k[q.pc].arg) + 1) % WordMod
    BY <2>2 DEF Instr, PcOf, Holds
  <2> HIDE DEF v
  <2>5. Goes(k, q, St(q.pc + 1, q.a, q.x, q.y, q.z, q.c, Put(q.mem, t, v), q.out))
    BY <2>2, <2>3, <2>4, DoStore
  <2>6. PICK r : /\ Goes(k, q, r) /\ PcOf(r) = PcOf(q) + 1 /\ OutOf(r) = OutOf(q)
                 /\ XOf(r) = XOf(q)
                 /\ \A s : Holds(r, s) = Val(Put(q.mem, t, v), s)
    BY <2>5, Reached DEF PcOf, XOf, OutOf
  <2>7. \A s : Holds(r, s) = IF s = t THEN v ELSE Holds(q, s)
    BY <2>6, ValPut DEF Holds
  <2>8. PcOf(r) = PcOf(m) + (i + 1)
    BY <1>1, <2>1, <2>6
  <2>9. Goes(k, m, r)
    BY <2>1, <2>6, GoesOn
  <2> QED
    BY <2>1, <2>3, <2>6, <2>7, <2>8, <2>9
<1> HIDE DEF T
<1>4. j \in T
  BY <1>2, <1>3, EveryNumber
<1> QED
  BY <1>4 DEF T

LEMMA ByteOperands == Byte \subseteq Operands
  BY WordModAssumption DEF Byte, Operands

LEMMA LiteralToA ==
    ASSUME NEW v \in Byte, NEW n, NEW store
    PROVE  LET f == One("LDAI", v) IN Fragment(f) /\ KeepsX(f) /\ YieldsA(f, n, store, v)
<1>1. PICK f : f = One("LDAI", v)
  OBVIOUS
<1>2. /\ Fragment(f) /\ KeepsX(f) /\ Size(f) = 1
      /\ \A k : \A p \in Nat : At(k, p, f) => k[p] = Instr("LDAI", v)
  BY <1>1, Piece, ByteOperands DEF Ops, Immediate
<1> SUFFICES ASSUME NEW k, NEW m, Ready(m, store), At(k, PcOf(m), f)
             PROVE  \E r : Ends(k, f, n, m, r) /\ AOf(r) = v /\ XOf(r) = XOf(m)
  BY <1>1, <1>2 DEF YieldsA
<1>3. IsState(m) /\ k[PcOf(m)] = Instr("LDAI", v)
  BY <1>2, PartsOf DEF Ready
<1>4. PICK r : /\ Goes(k, m, r) /\ PcOf(r) = PcOf(m) + 1 /\ SameSlots(m, r) /\ OutOf(r) = OutOf(m)
               /\ AOf(r) = v /\ XOf(r) = XOf(m)
  BY <1>3, Loading DEF Immediate
<1> QED
  BY <1>2, <1>4 DEF Ends, Kept, SameSlots

LEMMA VariableToA ==
    ASSUME NEW s \in VarSlots, NEW n, NEW store
    PROVE  LET f == One("LDA", s)
           IN Fragment(f) /\ KeepsX(f) /\ YieldsA(f, n, store, Val(store, s))
<1>1. PICK f : f = One("LDA", s)
  OBVIOUS
<1>2. /\ Fragment(f) /\ KeepsX(f) /\ Size(f) = 1
      /\ \A k : \A p \in Nat : At(k, p, f) => k[p] = Instr("LDA", s)
  BY <1>1, Piece, SlotOperands DEF Ops, Loads
<1> SUFFICES ASSUME NEW k, NEW m, Ready(m, store), At(k, PcOf(m), f)
             PROVE  \E r : Ends(k, f, n, m, r) /\ AOf(r) = Val(store, s) /\ XOf(r) = XOf(m)
  BY <1>1, <1>2 DEF YieldsA
<1>3. IsState(m) /\ k[PcOf(m)] = Instr("LDA", s) /\ Holds(m, s) \in Byte /\ Holds(m, s) = Val(store, s)
  BY <1>2, PartsOf DEF Ready
<1>4. PICK r : /\ Goes(k, m, r) /\ PcOf(r) = PcOf(m) + 1 /\ SameSlots(m, r) /\ OutOf(r) = OutOf(m)
               /\ AOf(r) = Val(store, s) /\ XOf(r) = XOf(m)
  BY <1>3, Loading
<1> QED
  BY <1>2, <1>4 DEF Ends, Kept, SameSlots

\* The code of an operand, and where what follows it starts.
LEMMA First ==
    ASSUME NEW k, NEW m, NEW store, Ready(m, store), NEW n \in Nat, NEW j \in Nat, j >= n, NEW v,
           NEW f, NEW g, Fragment(f), Fragment(g),
           At(k, PcOf(m), Cat(f, g)), YieldsA(f, j, store, v)
    PROVE  \E q : /\ Ends(k, f, n, m, q) /\ Kept(j, m, q) /\ AOf(q) = v /\ (KeepsX(f) => XOf(q) = XOf(m))
                  /\ Ready(q, store) /\ IsState(q) /\ PcOf(q) \in Nat /\ At(k, PcOf(q), g)
<1>1. IsState(m) /\ PcOf(m) \in Nat
  BY PartsOf DEF Ready
<1>2. At(k, PcOf(m), f) /\ At(k, PcOf(m) + Size(f), g)
  BY <1>1, CatParts
<1>3. PICK q : Ends(k, f, j, m, q) /\ AOf(q) = v /\ (KeepsX(f) => XOf(q) = XOf(m))
  BY <1>2 DEF YieldsA
<1>4. IsState(q) /\ PcOf(q) \in Nat /\ At(k, PcOf(q), g) /\ Kept(j, m, q) /\ Kept(n, m, q)
  BY <1>2, <1>3, KeptMore, PartsOf DEF Ends, Goes
<1> QED
  BY <1>3, <1>4, StillReady DEF Ends

\* STA, the INCs and LDA after an operand.
Bumped(n, j) == Cat(Cat(One("STA", Temp(n)), Many("INC", Temp(n), j)), One("LDA", Temp(n)))

LEMMA Bumping ==
    ASSUME NEW n \in Nat, NEW j \in Nat
    PROVE  LET g == Bumped(n, j)
           IN /\ Fragment(g)
              /\ \A k, m : IsState(m) /\ At(k, PcOf(m), g) =>
                    \E r : /\ Ends(k, g, n, m, r) /\ AOf(r) = (AOf(m) + j) % WordMod
                           /\ Holds(r, Temp(n)) = AOf(r) /\ XOf(r) = XOf(m)
<1>1. PICK t : t = Temp(n) /\ t \in Operands
  BY SlotOperands
<1>2. PICK sta : sta = One("STA", t)
  OBVIOUS
<1>3. Fragment(sta) /\ Size(sta) = 1 /\ \A k : \A p \in Nat : At(k, p, sta) => k[p] = Instr("STA", t)
  BY <1>1, <1>2, Piece DEF Ops, Stores
<1>4. PICK lda : lda = One("LDA", t)
  OBVIOUS
<1>5. Fragment(lda) /\ Size(lda) = 1 /\ \A k : \A p \in Nat : At(k, p, lda) => k[p] = Instr("LDA", t)
  BY <1>1, <1>4, Piece DEF Ops, Loads
<1>6. PICK incs : incs = Many("INC", t, j)
  OBVIOUS
<1>7. /\ Fragment(incs) /\ Size(incs) = j
      /\ \A k : \A p \in Nat : At(k, p, incs) => Repeats(k, p, j, Instr("INC", t))
  <2>1. "INC" \in Ops
    BY DEF Ops, Stores
  <2> QED
    BY <1>1, <1>6, <2>1, PieceMany
<1>8. PICK h : h = Cat(sta, incs)
  OBVIOUS
<1>9. /\ Fragment(h) /\ Size(h) = 1 + j
      /\ \A k : \A p \in Nat : At(k, p, h) => At(k, p, sta) /\ At(k, p + 1, incs)
  BY <1>3, <1>7, <1>8, CatParts
<1>10. PICK g : g = Cat(h, lda)
  OBVIOUS
<1>11. /\ Fragment(g) /\ Size(g) = (1 + j) + 1
       /\ \A k : \A p \in Nat : At(k, p, g) => At(k, p, h) /\ At(k, p + (1 + j), lda)
  BY <1>5, <1>9, <1>10, CatParts
<1>12. g = Bumped(n, j)
  BY <1>1, <1>2, <1>4, <1>6, <1>8, <1>10 DEF Bumped
<1> SUFFICES ASSUME NEW k, NEW m, IsState(m), At(k, PcOf(m), g)
             PROVE  \E r : /\ Ends(k, g, n, m, r) /\ AOf(r) = (AOf(m) + j) % WordMod
                           /\ Holds(r, Temp(n)) = AOf(r) /\ XOf(r) = XOf(m)
  BY <1>11, <1>12
<1>13. PcOf(m) \in Nat /\ PcOf(m) + 1 \in Nat /\ PcOf(m) + (1 + j) \in Nat /\ AOf(m) \in Byte /\ AOf(m) + j \in Nat
  <2>1. PcOf(m) \in Nat /\ AOf(m) \in Byte
    BY PartsOf
  <2> QED
    BY <2>1, WordModAssumption DEF Byte
<1>14. /\ k[PcOf(m)] = Instr("STA", t) /\ k[PcOf(m) + (1 + j)] = Instr("LDA", t)
       /\ Repeats(k, PcOf(m) + 1, j, Instr("INC", t))
  BY <1>3, <1>5, <1>7, <1>9, <1>11, <1>13
<1>15. PICK s : /\ Goes(k, m, s) /\ PcOf(s) = PcOf(m) + 1 /\ XOf(s) = XOf(m) /\ OutOf(s) = OutOf(m)
                /\ Kept(n, m, s) /\ Holds(s, t) = AOf(m)
  <2>1. k[PcOf(m)] = Instr("STA", Temp(n)) /\ n >= n
    BY <1>1, <1>14
  <2> QED
    BY <1>1, <2>1, Storing
<1>16. IsState(s)
  BY <1>15 DEF Goes
<1>17. PICK c : /\ Goes(k, s, c) /\ PcOf(c) = PcOf(s) + j /\ OutOf(c) = OutOf(s) /\ XOf(c) = XOf(s)
                /\ Holds(c, t) = (Holds(s, t) + j) % WordMod
                /\ \A u : u # t => Holds(c, u) = Holds(s, u)
  <2>1. Repeats(k, PcOf(s), j, Instr("INC", t))
    BY <1>14, <1>15
  <2> QED
    BY <1>16, <2>1, Counting
<1>18. PICK w : w = (AOf(m) + j) % WordMod
  OBVIOUS
<1>19. PcOf(c) = PcOf(m) + (1 + j) /\ IsState(c) /\ Holds(c, t) = w /\ w \in Byte
  <2>1. (PcOf(m) + 1) + j = PcOf(m) + (1 + j)
    BY <1>13
  <2> QED
    BY <1>13, <1>15, <1>17, <1>18, <2>1, ModByte DEF Goes
<1>20. PICK r : /\ Goes(k, c, r) /\ PcOf(r) = PcOf(c) + 1 /\ SameSlots(c, r) /\ OutOf(r) = OutOf(c)
                /\ AOf(r) = w /\ XOf(r) = XOf(c)
  BY <1>14, <1>19, Loading
<1>21. Goes(k, m, r)
  BY <1>15, <1>17, <1>20, GoesOn
<1>22. PcOf(r) = PcOf(m) + Size(g)
  BY <1>11, <1>13, <1>19, <1>20
<1>23. Kept(n, m, r)
  BY <1>1, <1>15, <1>17, <1>20, TempsApart DEF Kept, SameSlots
<1>24. Holds(r, Temp(n)) = AOf(r)
  BY <1>1, <1>19, <1>20 DEF SameSlots
<1> QED
  BY <1>15, <1>17, <1>18, <1>20, <1>21, <1>22, <1>23, <1>24 DEF Ends

LEMMA AddSmallRule ==
    ASSUME NEW n \in Nat, NEW j \in Nat, NEW store, NEW v,
           NEW f, Fragment(f), YieldsA(f, n + 1, store, v)
    PROVE  LET h == Cat(f, Bumped(n, j)) IN Fragment(h) /\ YieldsA(h, n, store, (v + j) % WordMod)
<1>1. PICK g : g = Bumped(n, j)
  OBVIOUS
<1>2. /\ Fragment(g)
      /\ \A k, m : IsState(m) /\ At(k, PcOf(m), g) =>
            \E r : Ends(k, g, n, m, r) /\ AOf(r) = (AOf(m) + j) % WordMod /\ XOf(r) = XOf(m)
  BY <1>1, Bumping
<1>3. Fragment(Cat(f, g)) /\ (KeepsX(Cat(f, g)) => KeepsX(f))
  BY <1>2, CatParts
<1> SUFFICES ASSUME NEW k, NEW m, Ready(m, store), At(k, PcOf(m), Cat(f, g))
             PROVE  \E r : /\ Ends(k, Cat(f, g), n, m, r) /\ AOf(r) = (v + j) % WordMod
                           /\ KeepsX(Cat(f, g)) => XOf(r) = XOf(m)
  BY <1>1, <1>3 DEF YieldsA
<1>4. n >= n /\ IsState(m)
  BY DEF Ready
<1>5. PICK q : /\ Ends(k, f, n, m, q) /\ AOf(q) = v /\ (KeepsX(f) => XOf(q) = XOf(m))
               /\ IsState(q) /\ At(k, PcOf(q), g)
  <2>1. PICK j1 \in Nat : j1 = n + 1 /\ j1 >= n
    OBVIOUS
  <2>2. YieldsA(f, j1, store, v) /\ Fragment(g)
    BY <1>2, <2>1
  <2> QED
    BY <2>1, <2>2, First
<1>6. PICK r : Ends(k, g, n, q, r) /\ AOf(r) = (AOf(q) + j) % WordMod /\ XOf(r) = XOf(q)
  BY <1>2, <1>5
<1>7. Ends(k, Cat(f, g), n, m, r)
  BY <1>2, <1>4, <1>5, <1>6, Sequel
<1> QED
  BY <1>3, <1>5, <1>6, <1>7

\* An operand that is kept in a slot.
LEMMA Saving ==
    ASSUME NEW k, NEW m, NEW store, Ready(m, store), NEW n \in Nat, NEW j \in Nat, j >= n, NEW v,
           NEW f, Fragment(f), YieldsA(f, j, store, v),
           At(k, PcOf(m), Cat(f, One("STA", Temp(n))))
    PROVE  LET h == Cat(f, One("STA", Temp(n)))
           IN /\ Fragment(h)
              /\ \E s : /\ Ends(k, h, n, m, s) /\ Holds(s, Temp(n)) = v /\ AOf(s) = v
                        /\ Ready(s, store) /\ IsState(s)
                        /\ KeepsX(f) => XOf(s) = XOf(m)
<1>1. PICK sta : sta = One("STA", Temp(n))
  OBVIOUS
<1>2. Fragment(sta) /\ Size(sta) = 1
      /\ \A p \in Nat : At(k, p, sta) => k[p] = Instr("STA", Temp(n))
  BY <1>1, Piece, SlotOperands DEF Ops, Stores
<1>3. PICK q : /\ Ends(k, f, n, m, q) /\ AOf(q) = v /\ (KeepsX(f) => XOf(q) = XOf(m))
               /\ Ready(q, store) /\ IsState(q) /\ PcOf(q) \in Nat /\ At(k, PcOf(q), sta)
  BY <1>1, <1>2, First
<1>4. k[PcOf(q)] = Instr("STA", Temp(n)) /\ n >= n
  BY <1>2, <1>3
<1>5. PICK s : /\ Goes(k, q, s) /\ PcOf(s) = PcOf(q) + 1 /\ AOf(s) = AOf(q) /\ XOf(s) = XOf(q)
               /\ OutOf(s) = OutOf(q) /\ Kept(n, q, s) /\ Holds(s, Temp(n)) = AOf(q)
  BY <1>3, <1>4, Storing
<1>6. Ends(k, sta, n, q, s)
  BY <1>2, <1>5 DEF Ends
<1>7. IsState(m) /\ IsState(s) /\ Ready(s, store)
  BY <1>3, <1>5, StillReady DEF Goes, Ready
<1>8. Ends(k, Cat(f, sta), n, m, s) /\ Fragment(Cat(f, sta))
  BY <1>2, <1>3, <1>4, <1>6, <1>7, Sequel, CatParts
<1> QED
  BY <1>1, <1>3, <1>5, <1>7, <1>8

\* Instructions that change no slot and print nothing.
Quiet(k, m, r) == Goes(k, m, r) /\ SameSlots(m, r) /\ OutOf(r) = OutOf(m)

LEMMA QuietState == \A k, m, r : Quiet(k, m, r) => IsState(r)
  BY DEF Quiet, Goes

LEMMA QuietOn ==
    ASSUME NEW k, NEW l, NEW m, NEW n, Quiet(k, l, m), Quiet(k, m, n)
    PROVE  Quiet(k, l, n)
  BY GoesOn DEF Quiet, SameSlots

LEMMA QuietEnd ==
    ASSUME NEW k, NEW f, NEW n, NEW m, NEW r, Quiet(k, m, r), PcOf(r) = PcOf(m) + Size(f)
    PROVE  Ends(k, f, n, m, r)
  BY DEF Quiet, Ends, Kept, SameSlots

\* LDXI 0, CPX of the slot with 1, ADC: the carry is 0 when A and the slot are
\* added.
Summed(n) == Three("LDXI", 0, "CPX", OneSlot, "ADC", Temp(n))

LEMMA Summing ==
    ASSUME NEW n \in Nat
    PROVE  /\ Fragment(Summed(n)) /\ ~ KeepsX(Summed(n))
           /\ \A k, m, store : Ready(m, store) /\ At(k, PcOf(m), Summed(n)) =>
                 \E r : /\ Ends(k, Summed(n), n, m, r)
                        /\ AOf(r) = (AOf(m) + Holds(m, Temp(n))) % WordMod
<1>1. PICK t : t = Temp(n) /\ t \in Operands
  BY SlotOperands
<1>2. PICK g : g = Summed(n)
  OBVIOUS
<1>3. {"LDXI", "CPX", "ADC"} \subseteq Ops
  BY DEF Ops, Immediate, Loads
<1>4. /\ Fragment(g) /\ Size(g) = 3 /\ ~ KeepsX(g)
      /\ \A k : \A p \in Nat : At(k, p, g) =>
            k[p] = Instr("LDXI", 0) /\ k[p + 1] = Instr("CPX", OneSlot) /\ k[p + 2] = Instr("ADC", t)
  <2>1. 0 \in Operands /\ OneSlot \in Operands
    BY SmallInts, SlotOperands
  <2>2. g = Three("LDXI", 0, "CPX", OneSlot, "ADC", t)
    BY <1>1, <1>2 DEF Summed
  <2>3. "LDXI" \in Ops /\ "CPX" \in Ops /\ "ADC" \in Ops
    BY <1>3
  <2> QED
    BY <1>1, <2>1, <2>2, <2>3, PieceThree
<1>5. ASSUME NEW k, NEW m, NEW store, Ready(m, store), At(k, PcOf(m), g)
      PROVE  \E r : Ends(k, g, n, m, r) /\ AOf(r) = (AOf(m) + Holds(m, t)) % WordMod
  <2>1. IsState(m) /\ Holds(m, OneSlot) = 1 /\ PcOf(m) \in Nat
    BY <1>5, PartsOf DEF Ready
  <2>2. /\ k[PcOf(m)] = Instr("LDXI", 0) /\ k[PcOf(m) + 1] = Instr("CPX", OneSlot)
        /\ k[PcOf(m) + 2] = Instr("ADC", t)
    BY <1>4, <1>5, <2>1
  <2>3. PICK d : Quiet(k, m, d) /\ PcOf(d) = PcOf(m) + 1 /\ AOf(d) = AOf(m) /\ XOf(d) = 0
    BY <2>1, <2>2, SmallBytes, Loading DEF Immediate, Quiet
  <2>4. PICK e : Quiet(k, d, e) /\ PcOf(e) = PcOf(d) + 1 /\ AOf(e) = AOf(d) /\ COf(e) = Bit(0 >= 1)
    <3>1. IsState(d) /\ Holds(d, OneSlot) = 1 /\ k[PcOf(d)] = Instr("CPX", OneSlot)
      BY <2>1, <2>2, <2>3, QuietState DEF Quiet, SameSlots
    <3> QED
      BY <2>3, <3>1, Comparing DEF Quiet
  <2>5. COf(e) = 0 /\ IsState(e) /\ Quiet(k, m, e)
    BY <2>3, <2>4, QuietOn, QuietState DEF Bit
  <2>6. PcOf(e) = PcOf(m) + 2 /\ k[PcOf(e)] = Instr("ADC", t) /\ Holds(e, t) = Holds(m, t) /\ AOf(e) = AOf(m)
    BY <2>1, <2>2, <2>3, <2>4, <2>5 DEF Quiet, SameSlots
  <2>7. PICK r : Quiet(k, e, r) /\ PcOf(r) = PcOf(e) + 1 /\ AOf(r) = (AOf(e) + Holds(e, t)) % WordMod
    BY <2>5, <2>6, Adding DEF Quiet
  <2>8. Quiet(k, m, r) /\ PcOf(r) = PcOf(m) + Size(g)
    BY <1>4, <2>1, <2>5, <2>6, <2>7, QuietOn
  <2> QED
    BY <2>6, <2>7, <2>8, QuietEnd
<1> QED
  BY <1>1, <1>2, <1>4, <1>5

LEMMA AddSlotRule ==
    ASSUME NEW n \in Nat, NEW j \in Nat, j >= n + 1, NEW store, NEW v \in Nat, NEW w \in Nat,
           NEW f, Fragment(f), YieldsA(f, n + 1, store, v),
           NEW g, Fragment(g), YieldsA(g, j, store, w)
    PROVE  LET h == Cat(Cat(f, One("STA", Temp(n))), Cat(g, Summed(n)))
           IN Fragment(h) /\ YieldsA(h, n, store, (v + w) % WordMod)
<1>1. PICK l : l = Cat(f, One("STA", Temp(n)))
  OBVIOUS
<1>2. PICK c : c = Summed(n)
  OBVIOUS
<1>3. Fragment(c) /\ ~ KeepsX(c)
  BY <1>2, Summing
<1>4. Fragment(l)
  BY <1>1, Piece, SlotOperands, CatParts DEF Ops, Stores
<1>5. PICK h : h = Cat(l, Cat(g, c))
  OBVIOUS
<1>6. Fragment(Cat(g, c)) /\ Fragment(h) /\ ~ KeepsX(h)
  BY <1>3, <1>4, <1>5, CatParts
<1>7. PICK j1 \in Nat : j1 = n + 1 /\ j1 >= n /\ n >= n /\ j >= n /\ j >= j1
  OBVIOUS
<1> SUFFICES ASSUME NEW k, NEW m, Ready(m, store), At(k, PcOf(m), h)
             PROVE  \E r : Ends(k, h, n, m, r) /\ AOf(r) = (v + w) % WordMod
  BY <1>1, <1>2, <1>5, <1>6 DEF YieldsA
<1>8. IsState(m) /\ PcOf(m) \in Nat
  BY PartsOf DEF Ready
<1>9. At(k, PcOf(m), l) /\ At(k, PcOf(m) + Size(l), Cat(g, c))
  BY <1>4, <1>5, <1>6, <1>8, CatParts
<1>10. PICK s : /\ Ends(k, l, n, m, s) /\ Holds(s, Temp(n)) = v /\ Ready(s, store) /\ IsState(s)
  BY <1>1, <1>7, <1>9, Saving
<1>11. At(k, PcOf(s), Cat(g, c))
  BY <1>9, <1>10 DEF Ends
<1>12. PICK q : /\ Ends(k, g, n, s, q) /\ Kept(j, s, q) /\ AOf(q) = w
                /\ Ready(q, store) /\ IsState(q) /\ At(k, PcOf(q), c)
  BY <1>3, <1>7, <1>10, <1>11, First
<1>13. Holds(q, Temp(n)) = v
  <2>1. Temp(n) \in Lasting(j1) /\ Lasting(j1) \subseteq Lasting(j)
    BY <1>7, TempsApart
  <2> QED
    BY <1>10, <1>12, <2>1 DEF Kept
<1>14. PICK r : Ends(k, c, n, q, r) /\ AOf(r) = (w + v) % WordMod
  BY <1>2, <1>12, <1>13, Summing
<1>15. Ends(k, Cat(g, c), n, s, r)
  BY <1>3, <1>7, <1>10, <1>12, <1>14, Sequel
<1>16. Ends(k, h, n, m, r)
  BY <1>4, <1>5, <1>6, <1>7, <1>8, <1>10, <1>15, Sequel
<1>17. w + v = v + w
  OBVIOUS
<1> QED
  BY <1>14, <1>16, <1>17

\* Z is set by comparing with the slot that holds 0.
ForcedZ(i) == Two("LDXI", i, "CPX", ZeroSlot)

LEMMA SmallOps == {"LDAI", "LDXI", "LDYI", "LDA", "LDX", "LDY", "STA", "CPX", "BNE", "SYS"} \subseteq Ops
  BY DEF Ops, Immediate, Loads, Stores

LEMMA ForcedZPiece ==
    ASSUME NEW i \in {0, 1}
    PROVE  /\ Fragment(ForcedZ(i)) /\ Size(ForcedZ(i)) = 2 /\ ~ KeepsX(ForcedZ(i))
           /\ \A k : \A p \in Nat : At(k, p, ForcedZ(i)) =>
                 k[p] = Instr("LDXI", i) /\ k[p + 1] = Instr("CPX", ZeroSlot)
<1>1. i \in Operands /\ ZeroSlot \in Operands /\ "LDXI" \in Ops /\ "CPX" \in Ops
  BY SmallInts, SlotOperands, SmallOps
<1> QED
  BY <1>1, PieceTwo DEF ForcedZ

LEMMA Forcing ==
    ASSUME NEW i \in {0, 1}, NEW k, NEW m, IsState(m), Holds(m, ZeroSlot) = 0,
           k[PcOf(m)] = Instr("LDXI", i), k[PcOf(m) + 1] = Instr("CPX", ZeroSlot)
    PROVE  \E r : Quiet(k, m, r) /\ PcOf(r) = PcOf(m) + 2 /\ AOf(r) = AOf(m) /\ ZOf(r) = 1 - i
<1>1. PcOf(m) \in Nat /\ i \in Byte
  BY PartsOf, SmallBytes
<1>2. PICK d : Quiet(k, m, d) /\ PcOf(d) = PcOf(m) + 1 /\ AOf(d) = AOf(m) /\ XOf(d) = i
  BY <1>1, Loading DEF Immediate, Quiet
<1>3. IsState(d) /\ Holds(d, ZeroSlot) = 0 /\ k[PcOf(d)] = Instr("CPX", ZeroSlot)
  BY <1>2, QuietState DEF Quiet, SameSlots
<1>4. PICK r : Quiet(k, d, r) /\ PcOf(r) = PcOf(d) + 1 /\ AOf(r) = AOf(d) /\ ZOf(r) = Bit(i = 0)
  BY <1>2, <1>3, Comparing DEF Quiet
<1>5. ZOf(r) = 1 - i
  BY <1>4 DEF Bit
<1> QED
  BY <1>1, <1>2, <1>4, <1>5, QuietOn

LEMMA ForcedZRule ==
    ASSUME NEW i \in {0, 1}, NEW n, NEW store
    PROVE  Fragment(ForcedZ(i)) /\ YieldsZ(ForcedZ(i), n, store, 1 - i)
<1>1. PICK g : g = ForcedZ(i)
  OBVIOUS
<1>2. /\ Fragment(g) /\ Size(g) = 2
      /\ \A k : \A p \in Nat : At(k, p, g) => k[p] = Instr("LDXI", i) /\ k[p + 1] = Instr("CPX", ZeroSlot)
  BY <1>1, ForcedZPiece
<1> SUFFICES ASSUME NEW k, NEW m, Ready(m, store), At(k, PcOf(m), g)
             PROVE  \E r : Ends(k, g, n, m, r) /\ ZOf(r) = 1 - i
  BY <1>1, <1>2 DEF YieldsZ
<1>3. IsState(m) /\ Holds(m, ZeroSlot) = 0 /\ PcOf(m) \in Nat
  BY PartsOf DEF Ready
<1>4. k[PcOf(m)] = Instr("LDXI", i) /\ k[PcOf(m) + 1] = Instr("CPX", ZeroSlot)
  BY <1>2, <1>3
<1>5. PICK r : Quiet(k, m, r) /\ PcOf(r) = PcOf(m) + 2 /\ ZOf(r) = 1 - i
  BY <1>3, <1>4, Forcing
<1> QED
  BY <1>2, <1>5, QuietEnd

\* The code of a condition, and where what follows it starts.
LEMMA FirstZ ==
    ASSUME NEW k, NEW m, NEW store, Ready(m, store), NEW n \in Nat, NEW v,
           NEW f, NEW g, Fragment(f), Fragment(g),
           At(k, PcOf(m), Cat(f, g)), YieldsZ(f, n, store, v)
    PROVE  \E q : /\ Ends(k, f, n, m, q) /\ ZOf(q) = v
                  /\ Ready(q, store) /\ IsState(q) /\ PcOf(q) \in Nat /\ At(k, PcOf(q), g)
<1>1. IsState(m) /\ PcOf(m) \in Nat
  BY PartsOf DEF Ready
<1>2. At(k, PcOf(m), f) /\ At(k, PcOf(m) + Size(f), g)
  BY <1>1, CatParts
<1>3. PICK q : Ends(k, f, n, m, q) /\ ZOf(q) = v
  BY <1>2 DEF YieldsZ
<1>4. IsState(q) /\ PcOf(q) \in Nat /\ At(k, PcOf(q), g) /\ Kept(n, m, q)
  BY <1>2, <1>3, PartsOf DEF Ends, Goes
<1> QED
  BY <1>3, <1>4, StillReady DEF Ends

\* LDA 1, or LDA 0 after a branch.
LEMMA MaterializeParts ==
    /\ Fragment(Materialize) /\ Size(Materialize) = 6 /\ ~ KeepsX(Materialize)
    /\ \A k : \A p \in Nat : At(k, p, Materialize) =>
          /\ k[p] = Instr("LDAI", 1) /\ k[p + 1] = Instr("BNE", 3)
          /\ k[p + 2] = Instr("LDXI", 1) /\ k[p + 3] = Instr("CPX", ZeroSlot)
          /\ k[p + 4] = Instr("BNE", 1) /\ k[p + 5] = Instr("LDAI", 0)
<1>1. PICK a : a = Two("LDAI", 1, "BNE", 3)
  OBVIOUS
<1>2. PICK b : b = ForcedZ(1)
  OBVIOUS
<1>3. PICK c : c = Two("BNE", 1, "LDAI", 0)
  OBVIOUS
<1>4. Materialize = Cat(Cat(a, b), c)
  BY <1>1, <1>2, <1>3 DEF Materialize, ForceZClear, ForcedZ, Two, Cat
<1>5. /\ Fragment(a) /\ Size(a) = 2
      /\ \A k : \A p \in Nat : At(k, p, a) => k[p] = Instr("LDAI", 1) /\ k[p + 1] = Instr("BNE", 3)
  BY <1>1, PieceTwo, SmallInts, SmallOps
<1>6. /\ Fragment(b) /\ Size(b) = 2 /\ ~ KeepsX(b)
      /\ \A k : \A p \in Nat : At(k, p, b) => k[p] = Instr("LDXI", 1) /\ k[p + 1] = Instr("CPX", ZeroSlot)
  BY <1>2, ForcedZPiece
<1>7. /\ Fragment(c) /\ Size(c) = 2
      /\ \A k : \A p \in Nat : At(k, p, c) => k[p] = Instr("BNE", 1) /\ k[p + 1] = Instr("LDAI", 0)
  BY <1>3, PieceTwo, SmallInts, SmallOps
<1>8. PICK ab : ab = Cat(a, b)
  OBVIOUS
<1>9. PICK h : h = Cat(ab, c)
  OBVIOUS
<1>10. Fragment(ab) /\ Size(ab) = 4 /\ Fragment(h) /\ Size(h) = 6 /\ ~ KeepsX(h)
  <2>1. Fragment(ab) /\ Size(ab) = 2 + 2 /\ ~ KeepsX(ab)
    BY <1>5, <1>6, <1>8, CatSize
  <2>2. Fragment(h) /\ Size(h) = Size(ab) + 2 /\ ~ KeepsX(h)
    BY <1>7, <1>9, <2>1, CatSize
  <2> QED
    BY <2>1, <2>2
<1>11. ASSUME NEW k, NEW p \in Nat, At(k, p, h)
       PROVE  /\ k[p] = Instr("LDAI", 1) /\ k[p + 1] = Instr("BNE", 3)
              /\ k[p + 2] = Instr("LDXI", 1) /\ k[p + 3] = Instr("CPX", ZeroSlot)
              /\ k[p + 4] = Instr("BNE", 1) /\ k[p + 5] = Instr("LDAI", 0)
  <2>1. p + 2 \in Nat /\ p + 4 \in Nat /\ (p + 2) + 1 = p + 3 /\ (p + 4) + 1 = p + 5
    OBVIOUS
  <2>2. At(k, p, a) /\ At(k, p + 2, b) /\ At(k, p + 4, c)
    <3>1. At(k, p, ab) /\ At(k, p + Size(ab), c)
      BY <1>7, <1>9, <1>10, <1>11, CatParts
    <3>2. At(k, p, a) /\ At(k, p + Size(a), b)
      BY <1>5, <1>6, <1>8, <3>1, CatParts
    <3> QED
      BY <1>5, <1>10, <3>1, <3>2
  <2>3. k[p] = Instr("LDAI", 1) /\ k[p + 1] = Instr("BNE", 3)
    BY <1>5, <2>2
  <2>4. k[p + 2] = Instr("LDXI", 1) /\ k[(p + 2) + 1] = Instr("CPX", ZeroSlot)
    BY <1>6, <2>1, <2>2
  <2>5. k[p + 4] = Instr("BNE", 1) /\ k[(p + 4) + 1] = Instr("LDAI", 0)
    BY <1>7, <2>1, <2>2
  <2> QED
    BY <2>1, <2>3, <2>4, <2>5
<1> QED
  BY <1>4, <1>8, <1>9, <1>10, <1>11

LEMMA MaterializeRule ==
    ASSUME NEW n \in Nat, NEW store, NEW v \in {0, 1}, NEW f, Fragment(f), YieldsZ(f, n, store, v)
    PROVE  LET h == Cat(f, Materialize) IN Fragment(h) /\ YieldsA(h, n, store, v)
<1>1. PICK g : g = Materialize
  OBVIOUS
<1>2. /\ Fragment(g) /\ Size(g) = 6 /\ ~ KeepsX(g)
      /\ \A k : \A p \in Nat : At(k, p, g) =>
            /\ k[p] = Instr("LDAI", 1) /\ k[p + 1] = Instr("BNE", 3)
            /\ k[p + 2] = Instr("LDXI", 1) /\ k[p + 3] = Instr("CPX", ZeroSlot)
            /\ k[p + 4] = Instr("BNE", 1) /\ k[p + 5] = Instr("LDAI", 0)
  BY <1>1, MaterializeParts
<1>3. PICK h : h = Cat(f, g) /\ Fragment(h) /\ ~ KeepsX(h)
  BY <1>2, CatParts
<1> SUFFICES ASSUME NEW k, NEW m, Ready(m, store), At(k, PcOf(m), h)
             PROVE  \E r : Ends(k, h, n, m, r) /\ AOf(r) = v
  BY <1>1, <1>3 DEF YieldsA
<1>4. PICK q : /\ Ends(k, f, n, m, q) /\ ZOf(q) = v
               /\ Ready(q, store) /\ IsState(q) /\ PcOf(q) \in Nat /\ At(k, PcOf(q), g)
  BY <1>2, <1>3, FirstZ
<1>5. PICK p \in Nat : p = PcOf(q)
  BY <1>4
<1>6. /\ k[p] = Instr("LDAI", 1) /\ k[p + 1] = Instr("BNE", 3)
      /\ k[p + 2] = Instr("LDXI", 1) /\ k[p + 3] = Instr("CPX", ZeroSlot)
      /\ k[p + 4] = Instr("BNE", 1) /\ k[p + 5] = Instr("LDAI", 0)
  BY <1>2, <1>4, <1>5
<1>7. 0 \in Byte /\ 1 \in Byte
  BY SmallBytes
<1>8. PICK d : Quiet(k, q, d) /\ PcOf(d) = p + 1 /\ AOf(d) = 1 /\ ZOf(d) = v
  BY <1>4, <1>5, <1>6, <1>7, Loading DEF Immediate, Quiet
<1>9. IsState(d) /\ Holds(d, ZeroSlot) = 0
  BY <1>4, <1>8, QuietState DEF Quiet, SameSlots, Ready
<1>10. PICK e : Quiet(k, d, e) /\ PcOf(e) = (IF v = 1 THEN p + 2 ELSE p + 5) /\ AOf(e) = 1
  <2>1. PcOf(d) + 1 + 3 \in Nat /\ k[PcOf(d)] = Instr("BNE", 3)
    BY <1>6, <1>8
  <2>2. PICK e : /\ Quiet(k, d, e) /\ AOf(e) = AOf(d)
                 /\ PcOf(e) = IF ZOf(d) = 1 THEN PcOf(d) + 1 ELSE PcOf(d) + 1 + 3
    BY <1>9, <2>1, Branching DEF Quiet
  <2> QED
    BY <1>8, <2>2
<1>11. Quiet(k, q, e) /\ IsState(e) /\ Holds(e, ZeroSlot) = 0
  BY <1>8, <1>9, <1>10, QuietOn, QuietState DEF Quiet, SameSlots
<1>12. \E r : Quiet(k, e, r) /\ PcOf(r) = p + 6 /\ AOf(r) = v
  <2>1. CASE v = 1
    <3>1. k[PcOf(e)] = Instr("LDXI", 1) /\ k[PcOf(e) + 1] = Instr("CPX", ZeroSlot)
      BY <1>6, <1>10, <2>1
    <3>2. PICK c : Quiet(k, e, c) /\ PcOf(c) = p + 4 /\ AOf(c) = 1 /\ ZOf(c) = 0
      BY <1>10, <1>11, <2>1, <3>1, Forcing
    <3>3. IsState(c) /\ PcOf(c) + 1 + 1 \in Nat /\ k[PcOf(c)] = Instr("BNE", 1)
      BY <1>6, <3>2, QuietState
    <3>4. PICK r : Quiet(k, c, r) /\ PcOf(r) = PcOf(c) + 1 + 1 /\ AOf(r) = AOf(c)
      BY <3>2, <3>3, Branching DEF Quiet
    <3>5. Quiet(k, e, r) /\ PcOf(r) = p + 6
      BY <3>2, <3>4, QuietOn
    <3> QED
      BY <2>1, <3>2, <3>4, <3>5
  <2>2. CASE v = 0
    <3>1. k[PcOf(e)] = Instr("LDAI", 0) /\ PcOf(e) = p + 5
      BY <1>6, <1>10, <2>2
    <3>2. PICK r : Quiet(k, e, r) /\ PcOf(r) = PcOf(e) + 1 /\ AOf(r) = 0
      BY <1>7, <1>11, <3>1, Loading DEF Immediate, Quiet
    <3> QED
      BY <2>2, <3>1, <3>2
  <2> QED
    BY <2>1, <2>2
<1>13. PICK r : Quiet(k, q, r) /\ PcOf(r) = PcOf(q) + Size(g) /\ AOf(r) = v
  BY <1>2, <1>5, <1>11, <1>12, QuietOn
<1>14. Ends(k, g, n, q, r) /\ IsState(m) /\ n >= n
  BY <1>13, QuietEnd DEF Ready
<1>15. Ends(k, h, n, m, r)
  BY <1>2, <1>3, <1>4, <1>14, Sequel
<1> QED
  BY <1>13, <1>15

\* Z the other way round.
LEMMA InvertParts ==
    /\ Fragment(InvertZ) /\ Size(InvertZ) = 6
    /\ \A k : \A p \in Nat : At(k, p, InvertZ) =>
          /\ k[p] = Instr("BNE", 3)
          /\ k[p + 1] = Instr("LDXI", 1) /\ k[p + 2] = Instr("CPX", ZeroSlot)
          /\ k[p + 3] = Instr("BNE", 2)
          /\ k[p + 4] = Instr("LDXI", 0) /\ k[p + 5] = Instr("CPX", ZeroSlot)
<1>1. PICK a : a = One("BNE", 3)
  OBVIOUS
<1>2. PICK b : b = ForcedZ(1)
  OBVIOUS
<1>3. PICK c : c = One("BNE", 2)
  OBVIOUS
<1>4. PICK d : d = ForcedZ(0)
  OBVIOUS
<1>5. InvertZ = Cat(Cat(Cat(a, b), c), d)
  BY <1>1, <1>2, <1>3, <1>4 DEF InvertZ, ForceZClear, ForceZSet, ForcedZ, One, Two, Cat
<1>6. Fragment(a) /\ Size(a) = 1 /\ \A k : \A p \in Nat : At(k, p, a) => k[p] = Instr("BNE", 3)
  BY <1>1, Piece, SmallInts, SmallOps
<1>7. /\ Fragment(b) /\ Size(b) = 2
      /\ \A k : \A p \in Nat : At(k, p, b) => k[p] = Instr("LDXI", 1) /\ k[p + 1] = Instr("CPX", ZeroSlot)
  BY <1>2, ForcedZPiece
<1>8. Fragment(c) /\ Size(c) = 1 /\ \A k : \A p \in Nat : At(k, p, c) => k[p] = Instr("BNE", 2)
  BY <1>3, Piece, SmallInts, SmallOps
<1>9. /\ Fragment(d) /\ Size(d) = 2
      /\ \A k : \A p \in Nat : At(k, p, d) => k[p] = Instr("LDXI", 0) /\ k[p + 1] = Instr("CPX", ZeroSlot)
  BY <1>4, ForcedZPiece
<1>10. PICK ab : ab = Cat(a, b)
  OBVIOUS
<1>11. PICK abc : abc = Cat(ab, c)
  OBVIOUS
<1>12. PICK h : h = Cat(abc, d)
  OBVIOUS
<1>13. Fragment(ab) /\ Size(ab) = 3
  BY <1>6, <1>7, <1>10, CatSize
<1>14. Fragment(abc) /\ Size(abc) = 4
  BY <1>8, <1>11, <1>13, CatSize
<1>15. Fragment(h) /\ Size(h) = 6
  BY <1>9, <1>12, <1>14, CatSize
<1>16. ASSUME NEW k, NEW p \in Nat, At(k, p, h)
       PROVE  /\ k[p] = Instr("BNE", 3)
              /\ k[p + 1] = Instr("LDXI", 1) /\ k[p + 2] = Instr("CPX", ZeroSlot)
              /\ k[p + 3] = Instr("BNE", 2)
              /\ k[p + 4] = Instr("LDXI", 0) /\ k[p + 5] = Instr("CPX", ZeroSlot)
  <2>1. p + 1 \in Nat /\ p + 3 \in Nat /\ p + 4 \in Nat /\ (p + 1) + 1 = p + 2 /\ (p + 4) + 1 = p + 5
    OBVIOUS
  <2>2. At(k, p, abc) /\ At(k, p + 4, d)
    BY <1>9, <1>12, <1>14, <1>16, CatParts
  <2>3. At(k, p, ab) /\ At(k, p + 3, c)
    BY <1>8, <1>11, <1>13, <2>2, CatParts
  <2>4. At(k, p, a) /\ At(k, p + 1, b)
    BY <1>6, <1>7, <1>10, <2>3, CatParts
  <2>5. k[p + 1] = Instr("LDXI", 1) /\ k[(p + 1) + 1] = Instr("CPX", ZeroSlot)
    BY <1>7, <2>1, <2>4
  <2>6. k[p + 4] = Instr("LDXI", 0) /\ k[(p + 4) + 1] = Instr("CPX", ZeroSlot)
    BY <1>9, <2>1, <2>2
  <2> QED
    BY <1>6, <1>8, <2>1, <2>3, <2>4, <2>5, <2>6
<1> QED
  BY <1>5, <1>10, <1>11, <1>12, <1>15, <1>16

LEMMA InvertRule ==
    ASSUME NEW n \in Nat, NEW store, NEW v \in {0, 1}, NEW f, Fragment(f), YieldsZ(f, n, store, v)
    PROVE  LET h == Cat(f, InvertZ) IN Fragment(h) /\ YieldsZ(h, n, store, 1 - v)
<1>1. PICK g : g = InvertZ
  OBVIOUS
<1>2. /\ Fragment(g) /\ Size(g) = 6
      /\ \A k : \A p \in Nat : At(k, p, g) =>
            /\ k[p] = Instr("BNE", 3)
            /\ k[p + 1] = Instr("LDXI", 1) /\ k[p + 2] = Instr("CPX", ZeroSlot)
            /\ k[p + 3] = Instr("BNE", 2)
            /\ k[p + 4] = Instr("LDXI", 0) /\ k[p + 5] = Instr("CPX", ZeroSlot)
  BY <1>1, InvertParts
<1>3. PICK h : h = Cat(f, g) /\ Fragment(h)
  BY <1>2, CatSize
<1> SUFFICES ASSUME NEW k, NEW m, Ready(m, store), At(k, PcOf(m), h)
             PROVE  \E r : Ends(k, h, n, m, r) /\ ZOf(r) = 1 - v
  BY <1>1, <1>3 DEF YieldsZ
<1>4. PICK q : /\ Ends(k, f, n, m, q) /\ ZOf(q) = v
               /\ Ready(q, store) /\ IsState(q) /\ PcOf(q) \in Nat /\ At(k, PcOf(q), g)
  BY <1>2, <1>3, FirstZ
<1>5. PICK p \in Nat : p = PcOf(q)
  BY <1>4
<1>6. /\ k[p] = Instr("BNE", 3)
      /\ k[p + 1] = Instr("LDXI", 1) /\ k[p + 2] = Instr("CPX", ZeroSlot)
      /\ k[p + 3] = Instr("BNE", 2)
      /\ k[p + 4] = Instr("LDXI", 0) /\ k[p + 5] = Instr("CPX", ZeroSlot)
  BY <1>2, <1>4, <1>5
<1>7. PICK e : Quiet(k, q, e) /\ PcOf(e) = (IF v = 1 THEN p + 1 ELSE p + 4)
  <2>1. p + 1 + 3 \in Nat /\ k[PcOf(q)] = Instr("BNE", 3)
    BY <1>5, <1>6
  <2>2. PICK e : Quiet(k, q, e) /\ PcOf(e) = IF ZOf(q) = 1 THEN PcOf(q) + 1 ELSE PcOf(q) + 1 + 3
    BY <1>4, <1>5, <2>1, Branching DEF Quiet
  <2> QED
    BY <1>4, <1>5, <2>2
<1>8. IsState(e) /\ Holds(e, ZeroSlot) = 0
  BY <1>4, <1>7, QuietState DEF Quiet, SameSlots, Ready
<1>9. \E r : Quiet(k, e, r) /\ PcOf(r) = p + 6 /\ ZOf(r) = 1 - v
  <2>1. CASE v = 1
    <3>1. k[PcOf(e)] = Instr("LDXI", 1) /\ k[PcOf(e) + 1] = Instr("CPX", ZeroSlot)
      BY <1>6, <1>7, <2>1
    <3>2. PICK c : Quiet(k, e, c) /\ PcOf(c) = p + 3 /\ ZOf(c) = 0
      BY <1>7, <1>8, <2>1, <3>1, Forcing
    <3>3. IsState(c) /\ PcOf(c) + 1 + 2 \in Nat /\ k[PcOf(c)] = Instr("BNE", 2)
      BY <1>6, <3>2, QuietState
    <3>4. PICK r : Quiet(k, c, r) /\ PcOf(r) = PcOf(c) + 1 + 2 /\ ZOf(r) = 0
      BY <3>2, <3>3, Branching DEF Quiet
    <3>5. Quiet(k, e, r) /\ PcOf(r) = p + 6
      BY <3>2, <3>4, QuietOn
    <3> QED
      BY <2>1, <3>4, <3>5
  <2>2. CASE v = 0
    <3>1. k[PcOf(e)] = Instr("LDXI", 0) /\ k[PcOf(e) + 1] = Instr("CPX", ZeroSlot)
      BY <1>6, <1>7, <2>2
    <3>2. PICK r : Quiet(k, e, r) /\ PcOf(r) = p + 6 /\ ZOf(r) = 1
      BY <1>7, <1>8, <2>2, <3>1, Forcing
    <3> QED
      BY <2>2, <3>2
  <2> QED
    BY <2>1, <2>2
<1>10. PICK r : Quiet(k, q, r) /\ PcOf(r) = PcOf(q) + Size(g) /\ ZOf(r) = 1 - v
  BY <1>2, <1>5, <1>7, <1>9, QuietOn
<1>11. Ends(k, g, n, q, r) /\ IsState(m) /\ n >= n
  BY <1>10, QuietEnd DEF Ready
<1>12. Ends(k, h, n, m, r)
  BY <1>2, <1>3, <1>4, <1>11, Sequel
<1> QED
  BY <1>10, <1>12

-----------------------------------------------------------------------------
(***************************************************************************)
(* Rules for conditions.                                                   *)
(***************************************************************************)
\* g compares w with what is in X when it starts.
Compares(g, n, store, w) ==
    \A k, m : Ready(m, store) /\ At(k, PcOf(m), g) =>
        \E r : Ends(k, g, n, m, r) /\ ZOf(r) = Bit(XOf(m) = w)

\* A slot or a literal to X or Y.
LEMMA LiteralToXY ==
    ASSUME NEW v \in Byte, NEW n, NEW store
    PROVE  /\ Fragment(One("LDXI", v)) /\ YieldsX(One("LDXI", v), n, store, v)
           /\ Fragment(One("LDYI", v)) /\ YieldsY(One("LDYI", v), n, store, v)
<1>1. v \in Operands
  BY ByteOperands
<1>2. Fragment(One("LDXI", v)) /\ YieldsX(One("LDXI", v), n, store, v)
  <2>1. PICK f : f = One("LDXI", v)
    OBVIOUS
  <2>2. Fragment(f) /\ Size(f) = 1 /\ \A k : \A p \in Nat : At(k, p, f) => k[p] = Instr("LDXI", v)
    BY <1>1, <2>1, Piece, SmallOps
  <2> SUFFICES ASSUME NEW k, NEW m, Ready(m, store), At(k, PcOf(m), f)
               PROVE  \E r : Ends(k, f, n, m, r) /\ XOf(r) = v
    BY <2>1, <2>2 DEF YieldsX
  <2>3. IsState(m) /\ k[PcOf(m)] = Instr("LDXI", v)
    BY <2>2, PartsOf DEF Ready
  <2>4. PICK r : Quiet(k, m, r) /\ PcOf(r) = PcOf(m) + 1 /\ XOf(r) = v
    BY <2>3, Loading DEF Immediate, Quiet
  <2> QED
    BY <2>2, <2>4, QuietEnd
<1>3. Fragment(One("LDYI", v)) /\ YieldsY(One("LDYI", v), n, store, v)
  <2>1. PICK f : f = One("LDYI", v)
    OBVIOUS
  <2>2. Fragment(f) /\ Size(f) = 1 /\ \A k : \A p \in Nat : At(k, p, f) => k[p] = Instr("LDYI", v)
    BY <1>1, <2>1, Piece, SmallOps
  <2> SUFFICES ASSUME NEW k, NEW m, Ready(m, store), At(k, PcOf(m), f)
               PROVE  \E r : Ends(k, f, n, m, r) /\ YOf(r) = v
    BY <2>1, <2>2 DEF YieldsY
  <2>3. IsState(m) /\ k[PcOf(m)] = Instr("LDYI", v)
    BY <2>2, PartsOf DEF Ready
  <2>4. PICK r : Quiet(k, m, r) /\ PcOf(r) = PcOf(m) + 1 /\ YOf(r) = v
    BY <2>3, Loading DEF Immediate, Quiet
  <2> QED
    BY <2>2, <2>4, QuietEnd
<1> QED
  BY <1>2, <1>3

LEMMA VariableToXY ==
    ASSUME NEW s \in VarSlots, NEW n, NEW store
    PROVE  /\ Fragment(One("LDX", s)) /\ YieldsX(One("LDX", s), n, store, Val(store, s))
           /\ Fragment(One("LDY", s)) /\ YieldsY(One("LDY", s), n, store, Val(store, s))
           /\ Fragment(One("CPX", s)) /\ Compares(One("CPX", s), n, store, Val(store, s))
<1>1. s \in Operands
  BY SlotOperands
<1>2. ASSUME NEW k, NEW m, NEW f, NEW op \in {"LDX", "LDY", "CPX"}, f = One(op, s),
             Ready(m, store), At(k, PcOf(m), f)
      PROVE  /\ IsState(m) /\ k[PcOf(m)] = Instr(op, s) /\ Size(f) = 1
             /\ Holds(m, s) = Val(store, s) /\ Holds(m, s) \in Byte
  BY <1>1, <1>2, Piece, SmallOps, PartsOf DEF Ready
<1>3. Fragment(One("LDX", s)) /\ Fragment(One("LDY", s)) /\ Fragment(One("CPX", s))
  BY <1>1, Piece, SmallOps
<1>4. YieldsX(One("LDX", s), n, store, Val(store, s))
  <2>1. PICK f : f = One("LDX", s)
    OBVIOUS
  <2> SUFFICES ASSUME NEW k, NEW m, Ready(m, store), At(k, PcOf(m), f)
               PROVE  \E r : Ends(k, f, n, m, r) /\ XOf(r) = Val(store, s)
    BY <2>1 DEF YieldsX
  <2>2. /\ IsState(m) /\ k[PcOf(m)] = Instr("LDX", s) /\ Size(f) = 1
        /\ Holds(m, s) = Val(store, s) /\ Holds(m, s) \in Byte
    BY <1>2, <2>1
  <2>3. PICK r : Quiet(k, m, r) /\ PcOf(r) = PcOf(m) + 1 /\ XOf(r) = Val(store, s)
    BY <2>2, Loading DEF Quiet
  <2> QED
    BY <2>2, <2>3, QuietEnd
<1>5. YieldsY(One("LDY", s), n, store, Val(store, s))
  <2>1. PICK f : f = One("LDY", s)
    OBVIOUS
  <2> SUFFICES ASSUME NEW k, NEW m, Ready(m, store), At(k, PcOf(m), f)
               PROVE  \E r : Ends(k, f, n, m, r) /\ YOf(r) = Val(store, s)
    BY <2>1 DEF YieldsY
  <2>2. /\ IsState(m) /\ k[PcOf(m)] = Instr("LDY", s) /\ Size(f) = 1
        /\ Holds(m, s) = Val(store, s) /\ Holds(m, s) \in Byte
    BY <1>2, <2>1
  <2>3. PICK r : Quiet(k, m, r) /\ PcOf(r) = PcOf(m) + 1 /\ YOf(r) = Val(store, s)
    BY <2>2, Loading DEF Quiet
  <2> QED
    BY <2>2, <2>3, QuietEnd
<1>6. Compares(One("CPX", s), n, store, Val(store, s))
  <2>1. PICK f : f = One("CPX", s)
    OBVIOUS
  <2> SUFFICES ASSUME NEW k, NEW m, Ready(m, store), At(k, PcOf(m), f)
               PROVE  \E r : Ends(k, f, n, m, r) /\ ZOf(r) = Bit(XOf(m) = Val(store, s))
    BY <2>1 DEF Compares
  <2>2. IsState(m) /\ k[PcOf(m)] = Instr("CPX", s) /\ Size(f) = 1 /\ Holds(m, s) = Val(store, s)
    BY <1>2, <2>1
  <2>3. PICK r : Quiet(k, m, r) /\ PcOf(r) = PcOf(m) + 1 /\ ZOf(r) = Bit(XOf(m) = Holds(m, s))
    BY <2>2, Comparing DEF Quiet
  <2> QED
    BY <2>2, <2>3, QuietEnd
<1> QED
  BY <1>3, <1>4, <1>5, <1>6

\* A goes through a slot to X or Y, or is compared with X.
Spilled(i, op) == Two("STA", Temp(i), op, Temp(i))

LEMMA Spilling ==
    ASSUME NEW i \in Nat, NEW op \in {"LDX", "LDY", "CPX"}
    PROVE  LET g == Spilled(i, op)
           IN /\ Fragment(g)
              /\ \A n \in Nat : \A k, m : i >= n /\ IsState(m) /\ At(k, PcOf(m), g) =>
                    \E r : /\ Ends(k, g, n, m, r)
                           /\ op = "LDX" => XOf(r) = AOf(m)
                           /\ op = "LDY" => YOf(r) = AOf(m)
                           /\ op = "CPX" => ZOf(r) = Bit(XOf(m) = AOf(m))
<1>1. PICK t : t = Temp(i) /\ t \in Operands
  BY SlotOperands
<1>2. PICK g : g = Spilled(i, op)
  OBVIOUS
<1>3. /\ Fragment(g) /\ Size(g) = 2
      /\ \A k : \A p \in Nat : At(k, p, g) => k[p] = Instr("STA", t) /\ k[p + 1] = Instr(op, t)
  BY <1>1, <1>2, PieceTwo, SmallOps DEF Spilled
<1> SUFFICES ASSUME NEW n \in Nat, NEW k, NEW m, i >= n, IsState(m), At(k, PcOf(m), g)
             PROVE  \E r : /\ Ends(k, g, n, m, r)
                           /\ op = "LDX" => XOf(r) = AOf(m)
                           /\ op = "LDY" => YOf(r) = AOf(m)
                           /\ op = "CPX" => ZOf(r) = Bit(XOf(m) = AOf(m))
  BY <1>2, <1>3
<1>4. PcOf(m) \in Nat /\ AOf(m) \in Byte
  BY PartsOf
<1>5. k[PcOf(m)] = Instr("STA", Temp(i)) /\ k[PcOf(m) + 1] = Instr(op, t)
  BY <1>1, <1>3, <1>4
<1>6. PICK s : /\ Goes(k, m, s) /\ PcOf(s) = PcOf(m) + 1 /\ XOf(s) = XOf(m)
               /\ OutOf(s) = OutOf(m) /\ Kept(n, m, s) /\ Holds(s, t) = AOf(m)
  BY <1>1, <1>5, Storing
<1>7. IsState(s) /\ k[PcOf(s)] = Instr(op, t)
  BY <1>5, <1>6 DEF Goes
<1>8. \E r : /\ Quiet(k, s, r) /\ PcOf(r) = PcOf(s) + 1
             /\ op = "LDX" => XOf(r) = AOf(m)
             /\ op = "LDY" => YOf(r) = AOf(m)
             /\ op = "CPX" => ZOf(r) = Bit(XOf(m) = AOf(m))
  <2>1. CASE op = "LDX"
    <3>1. PICK r : Quiet(k, s, r) /\ PcOf(r) = PcOf(s) + 1 /\ XOf(r) = AOf(m)
      BY <1>4, <1>6, <1>7, <2>1, Loading DEF Quiet
    <3> QED
      BY <2>1, <3>1
  <2>2. CASE op = "LDY"
    <3>1. PICK r : Quiet(k, s, r) /\ PcOf(r) = PcOf(s) + 1 /\ YOf(r) = AOf(m)
      BY <1>4, <1>6, <1>7, <2>2, Loading DEF Quiet
    <3> QED
      BY <2>2, <3>1
  <2>3. CASE op = "CPX"
    <3>1. PICK r : Quiet(k, s, r) /\ PcOf(r) = PcOf(s) + 1 /\ ZOf(r) = Bit(XOf(s) = Holds(s, t))
      BY <1>7, <2>3, Comparing DEF Quiet
    <3> QED
      BY <1>6, <2>3, <3>1
  <2> QED
    BY <2>1, <2>2, <2>3
<1>9. PICK r : /\ Quiet(k, s, r) /\ PcOf(r) = PcOf(s) + 1
               /\ op = "LDX" => XOf(r) = AOf(m)
               /\ op = "LDY" => YOf(r) = AOf(m)
               /\ op = "CPX" => ZOf(r) = Bit(XOf(m) = AOf(m))
  BY <1>8
<1>10. Goes(k, m, r) /\ OutOf(r) = OutOf(m) /\ Kept(n, m, r)
  BY <1>6, <1>9, GoesOn DEF Quiet, SameSlots, Kept
<1>11. PcOf(r) = PcOf(m) + Size(g)
  BY <1>3, <1>4, <1>6, <1>9
<1> QED
  BY <1>9, <1>10, <1>11 DEF Ends

LEMMA SpillRule ==
    ASSUME NEW n \in Nat, NEW i \in Nat, i >= n, NEW j \in Nat, j >= n, NEW store, NEW v,
           NEW f, Fragment(f), YieldsA(f, j, store, v), NEW op \in {"LDX", "LDY", "CPX"}
    PROVE  LET h == Cat(f, Spilled(i, op))
           IN /\ Fragment(h)
              /\ op = "LDX" => YieldsX(h, n, store, v)
              /\ op = "LDY" => YieldsY(h, n, store, v)
              /\ op = "CPX" /\ KeepsX(f) => Compares(h, n, store, v)
<1>1. PICK g : g = Spilled(i, op)
  OBVIOUS
<1>2. /\ Fragment(g)
      /\ \A k, m : IsState(m) /\ At(k, PcOf(m), g) =>
            \E r : /\ Ends(k, g, n, m, r)
                   /\ op = "LDX" => XOf(r) = AOf(m)
                   /\ op = "LDY" => YOf(r) = AOf(m)
                   /\ op = "CPX" => ZOf(r) = Bit(XOf(m) = AOf(m))
  BY <1>1, Spilling
<1>3. PICK h : h = Cat(f, g) /\ Fragment(h)
  BY <1>2, CatSize
<1>4. ASSUME NEW k, NEW m, Ready(m, store), At(k, PcOf(m), h)
      PROVE  \E r : /\ Ends(k, h, n, m, r)
                    /\ op = "LDX" => XOf(r) = v
                    /\ op = "LDY" => YOf(r) = v
                    /\ op = "CPX" /\ KeepsX(f) => ZOf(r) = Bit(XOf(m) = v)
  <2>1. PICK q : /\ Ends(k, f, n, m, q) /\ AOf(q) = v /\ (KeepsX(f) => XOf(q) = XOf(m))
                 /\ IsState(q) /\ At(k, PcOf(q), g)
    BY <1>2, <1>3, <1>4, First
  <2>2. PICK r : /\ Ends(k, g, n, q, r)
                 /\ op = "LDX" => XOf(r) = AOf(q)
                 /\ op = "LDY" => YOf(r) = AOf(q)
                 /\ op = "CPX" => ZOf(r) = Bit(XOf(q) = AOf(q))
    BY <1>2, <2>1
  <2>3. IsState(m) /\ n >= n
    BY <1>4 DEF Ready
  <2>4. Ends(k, h, n, m, r)
    BY <1>2, <1>3, <2>1, <2>2, <2>3, Sequel
  <2> QED
    BY <2>1, <2>2, <2>4
<1>5. op = "LDX" => YieldsX(h, n, store, v)
  BY <1>4 DEF YieldsX
<1>6. op = "LDY" => YieldsY(h, n, store, v)
  BY <1>4 DEF YieldsY
<1>7. op = "CPX" /\ KeepsX(f) => Compares(h, n, store, v)
  BY <1>4 DEF Compares
<1> QED
  BY <1>1, <1>3, <1>5, <1>6, <1>7

\* A sum whose slot was counted up is there already.
LEMMA SmallSumToY ==
    ASSUME NEW n \in Nat, NEW j \in Nat, NEW store, NEW v,
           NEW f, Fragment(f), YieldsA(f, n + 1, store, v)
    PROVE  LET h == Cat(Cat(f, Bumped(n, j)), One("LDY", Temp(n)))
           IN Fragment(h) /\ YieldsY(h, n, store, (v + j) % WordMod)
<1>1. PICK g : g = Bumped(n, j)
  OBVIOUS
<1>2. /\ Fragment(g)
      /\ \A k, m : IsState(m) /\ At(k, PcOf(m), g) =>
            \E r : /\ Ends(k, g, n, m, r) /\ AOf(r) = (AOf(m) + j) % WordMod
                   /\ Holds(r, Temp(n)) = AOf(r)
  BY <1>1, Bumping
<1>3. PICK y : y = One("LDY", Temp(n))
  OBVIOUS
<1>4. Fragment(y) /\ Size(y) = 1 /\ \A k : \A p \in Nat : At(k, p, y) => k[p] = Instr("LDY", Temp(n))
  BY <1>3, Piece, SlotOperands, SmallOps
<1>5. PICK l : l = Cat(f, g) /\ Fragment(l)
  BY <1>2, CatSize
<1>6. PICK h : h = Cat(l, y) /\ Fragment(h)
  BY <1>4, <1>5, CatSize
<1> SUFFICES ASSUME NEW k, NEW m, Ready(m, store), At(k, PcOf(m), h)
             PROVE  \E r : Ends(k, h, n, m, r) /\ YOf(r) = (v + j) % WordMod
  BY <1>1, <1>3, <1>5, <1>6 DEF YieldsY
<1>7. IsState(m) /\ PcOf(m) \in Nat /\ n >= n
  BY PartsOf DEF Ready
<1>8. At(k, PcOf(m), l) /\ At(k, PcOf(m) + Size(l), y)
  BY <1>4, <1>5, <1>6, <1>7, CatParts
<1>9. PICK q : Ends(k, f, n, m, q) /\ AOf(q) = v /\ IsState(q) /\ At(k, PcOf(q), g)
  <2>1. PICK j1 \in Nat : j1 = n + 1 /\ j1 >= n
    OBVIOUS
  <2>2. YieldsA(f, j1, store, v) /\ Fragment(g)
    BY <1>2, <2>1
  <2> QED
    BY <1>5, <1>8, <2>1, <2>2, First
<1>10. PICK s : /\ Ends(k, g, n, q, s) /\ AOf(s) = (v + j) % WordMod /\ Holds(s, Temp(n)) = AOf(s)
  BY <1>2, <1>9
<1>11. Ends(k, l, n, m, s) /\ IsState(s)
  BY <1>2, <1>5, <1>7, <1>9, <1>10, Sequel DEF Ends, Goes
<1>12. PcOf(s) \in Nat /\ Holds(s, Temp(n)) \in Byte /\ PcOf(s) = PcOf(m) + Size(l)
  BY <1>11, PartsOf DEF Ends
<1>13. k[PcOf(s)] = Instr("LDY", Temp(n))
  BY <1>4, <1>8, <1>12
<1>14. PICK r : Quiet(k, s, r) /\ PcOf(r) = PcOf(s) + 1 /\ YOf(r) = Holds(s, Temp(n))
  BY <1>11, <1>12, <1>13, Loading DEF Quiet
<1>15. Ends(k, y, n, s, r)
  BY <1>4, <1>14, QuietEnd
<1>16. Ends(k, h, n, m, r)
  BY <1>4, <1>5, <1>6, <1>7, <1>11, <1>15, Sequel
<1> QED
  BY <1>10, <1>14, <1>16

LEMMA CompareRule ==
    ASSUME NEW n \in Nat, NEW j \in Nat, j >= n, NEW store, NEW v, NEW w,
           NEW f, Fragment(f), YieldsX(f, n, store, v),
           NEW g, Fragment(g), Compares(g, j, store, w)
    PROVE  LET h == Cat(f, g) IN Fragment(h) /\ YieldsZ(h, n, store, Bit(v = w))
<1>1. PICK h : h = Cat(f, g) /\ Fragment(h)
  BY CatSize
<1> SUFFICES ASSUME NEW k, NEW m, Ready(m, store), At(k, PcOf(m), h)
             PROVE  \E r : Ends(k, h, n, m, r) /\ ZOf(r) = Bit(v = w)
  BY <1>1 DEF YieldsZ
<1>2. IsState(m) /\ PcOf(m) \in Nat
  BY PartsOf DEF Ready
<1>3. At(k, PcOf(m), f) /\ At(k, PcOf(m) + Size(f), g)
  BY <1>1, <1>2, CatParts
<1>4. PICK q : Ends(k, f, n, m, q) /\ XOf(q) = v
  BY <1>3 DEF YieldsX
<1>5. Ready(q, store) /\ At(k, PcOf(q), g)
  BY <1>3, <1>4, StillReady DEF Ends, Goes
<1>6. PICK r : Ends(k, g, j, q, r) /\ ZOf(r) = Bit(XOf(q) = w)
  BY <1>5 DEF Compares
<1>7. Ends(k, h, n, m, r)
  BY <1>1, <1>2, <1>4, <1>6, Sequel
<1> QED
  BY <1>4, <1>6, <1>7

\* The operands of a comparison of strings are in two slots.
Matched(n) == Three("STA", Temp(n + 1), "LDX", Temp(n), "CPX", Temp(n + 1))

LEMMA Matching ==
    ASSUME NEW n \in Nat
    PROVE  /\ Fragment(Matched(n))
           /\ \A k, m : IsState(m) /\ At(k, PcOf(m), Matched(n)) =>
                 \E r : Ends(k, Matched(n), n, m, r) /\ ZOf(r) = Bit(Holds(m, Temp(n)) = AOf(m))
<1>1. PICK i \in Nat : i = n + 1 /\ i >= n
  OBVIOUS
<1>2. PICK t : t = Temp(n) /\ t \in Operands
  BY SlotOperands
<1>3. PICK u : u = Temp(i) /\ u \in Operands /\ u # t
  <2>1. i # n /\ Temp(i) \in Operands
    BY <1>1, SlotOperands
  <2> QED
    BY <1>2, <2>1 DEF Temp
<1>4. PICK g : g = Matched(n)
  OBVIOUS
<1>5. g = Three("STA", u, "LDX", t, "CPX", u)
  BY <1>1, <1>2, <1>3, <1>4 DEF Matched
<1>6. "STA" \in Ops /\ "LDX" \in Ops /\ "CPX" \in Ops
  BY SmallOps
<1>7. /\ Fragment(g) /\ Size(g) = 3
      /\ \A k : \A p \in Nat : At(k, p, g) =>
            k[p] = Instr("STA", u) /\ k[p + 1] = Instr("LDX", t) /\ k[p + 2] = Instr("CPX", u)
  BY <1>2, <1>3, <1>5, <1>6, PieceThree
<1> SUFFICES ASSUME NEW k, NEW m, IsState(m), At(k, PcOf(m), g)
             PROVE  \E r : Ends(k, g, n, m, r) /\ ZOf(r) = Bit(Holds(m, t) = AOf(m))
  BY <1>2, <1>4, <1>7
<1>8. PcOf(m) \in Nat /\ AOf(m) \in Byte
  BY PartsOf
<1>9. k[PcOf(m)] = Instr("STA", Temp(i)) /\ k[PcOf(m) + 1] = Instr("LDX", t) /\ k[PcOf(m) + 2] = Instr("CPX", u)
  BY <1>3, <1>7, <1>8
<1>10. PICK s : /\ Goes(k, m, s) /\ PcOf(s) = PcOf(m) + 1
                /\ OutOf(s) = OutOf(m) /\ Kept(n, m, s) /\ Holds(s, u) = AOf(m)
                /\ \A q : q # u => Holds(s, q) = Holds(m, q)
  BY <1>1, <1>3, <1>9, Storing
<1>11. IsState(s) /\ k[PcOf(s)] = Instr("LDX", t) /\ Holds(s, t) = Holds(m, t) /\ Holds(s, t) \in Byte
  BY <1>3, <1>9, <1>10, PartsOf DEF Goes
<1>12. PICK c : Quiet(k, s, c) /\ PcOf(c) = PcOf(s) + 1 /\ XOf(c) = Holds(m, t)
  BY <1>11, Loading DEF Quiet
<1>13. IsState(c) /\ k[PcOf(c)] = Instr("CPX", u) /\ Holds(c, u) = AOf(m)
  BY <1>8, <1>9, <1>10, <1>12, QuietState DEF Quiet, SameSlots
<1>14. PICK r : Quiet(k, c, r) /\ PcOf(r) = PcOf(c) + 1 /\ ZOf(r) = Bit(XOf(c) = Holds(c, u))
  BY <1>13, Comparing DEF Quiet
<1>15. Quiet(k, s, r) /\ PcOf(r) = PcOf(m) + Size(g)
  BY <1>7, <1>8, <1>10, <1>12, <1>14, QuietOn
<1>16. Goes(k, m, r) /\ OutOf(r) = OutOf(m) /\ Kept(n, m, r)
  BY <1>10, <1>15, GoesOn DEF Quiet, SameSlots, Kept
<1> QED
  BY <1>12, <1>13, <1>14, <1>15, <1>16 DEF Ends

LEMMA StringCompareRule ==
    ASSUME NEW n \in Nat, NEW store, NEW v, NEW w,
           NEW f, Fragment(f), YieldsA(f, n, store, v),
           NEW g, Fragment(g), YieldsA(g, n + 1, store, w)
    PROVE  LET h == Cat(Cat(Cat(f, One("STA", Temp(n))), g), Matched(n))
           IN Fragment(h) /\ YieldsZ(h, n, store, Bit(v = w))
<1>1. PICK l : l = Cat(f, One("STA", Temp(n)))
  OBVIOUS
<1>2. PICK c : c = Matched(n)
  OBVIOUS
<1>3. Fragment(l) /\ Fragment(c)
  BY <1>1, <1>2, Matching, Piece, SlotOperands, SmallOps, CatSize
<1>4. PICK lg : lg = Cat(l, g) /\ Fragment(lg)
  BY <1>3, CatSize
<1>5. PICK h : h = Cat(lg, c) /\ Fragment(h)
  BY <1>3, <1>4, CatSize
<1>6. PICK j \in Nat : j = n + 1 /\ j >= n /\ n >= n
  OBVIOUS
<1> SUFFICES ASSUME NEW k, NEW m, Ready(m, store), At(k, PcOf(m), h)
             PROVE  \E r : Ends(k, h, n, m, r) /\ ZOf(r) = Bit(v = w)
  BY <1>1, <1>2, <1>4, <1>5 DEF YieldsZ
<1>7. IsState(m) /\ PcOf(m) \in Nat
  BY PartsOf DEF Ready
<1>8. At(k, PcOf(m), lg) /\ At(k, PcOf(m) + Size(lg), c)
  BY <1>3, <1>4, <1>5, <1>7, CatParts
<1>9. At(k, PcOf(m), l) /\ At(k, PcOf(m) + Size(l), g)
  BY <1>3, <1>4, <1>7, <1>8, CatParts
<1>10. PICK s : Ends(k, l, n, m, s) /\ Holds(s, Temp(n)) = v /\ Ready(s, store) /\ IsState(s)
  BY <1>1, <1>6, <1>9, Saving
<1>11. At(k, PcOf(s), g)
  BY <1>9, <1>10 DEF Ends
<1>12. PICK q : Ends(k, g, j, s, q) /\ AOf(q) = w
  BY <1>6, <1>10, <1>11 DEF YieldsA
<1>13. Holds(q, Temp(n)) = v
  <2>1. Temp(n) \in Lasting(j)
    BY <1>6, TempsApart
  <2> QED
    BY <1>10, <1>12, <2>1 DEF Kept, Ends
<1>14. Ends(k, lg, n, m, q) /\ IsState(q)
  BY <1>3, <1>4, <1>6, <1>7, <1>10, <1>12, Sequel DEF Ends, Goes
<1>15. At(k, PcOf(q), c)
  BY <1>8, <1>14 DEF Ends
<1>16. PICK r : Ends(k, c, n, q, r) /\ ZOf(r) = Bit(v = w)
  BY <1>2, <1>12, <1>13, <1>14, <1>15, Matching
<1>17. Ends(k, h, n, m, r)
  BY <1>3, <1>4, <1>5, <1>6, <1>7, <1>14, <1>16, Sequel
<1> QED
  BY <1>16, <1>17

-----------------------------------------------------------------------------
(***************************************************************************)
(* The code of an expression, by its form.                                 *)
(***************************************************************************)
\* What the generator makes of a node and what the node is worth.
NodeToA(e, n)       == ToAOf(ToA, Predicate, e, n)
NodeToY(e, n)       == ToYOf(ToA(e, n), e, n)
NodeToX(e, n)       == LeftToX(ToA(e, n + 1), e, n)
NodeAgainstX(e, n)  == AgainstX(ToA(e, n + 1), e, n)
NodeCompared(e, n)  == Compared6502(ToA, e, n)
NodeToZ(e, n)       == PredicateOf(NodeCompared(e, n), e, n)
NodeValue(e, store) == EvalOf(Eval, e, store)

Instrs(c) == c.instrs
Temps(c)  == c.temps

LEMMA CodeOf ==
    /\ \A i, t : Instrs(Code(i, t)) = i /\ Temps(Code(i, t)) = t
    /\ \A a, f : Instrs(Then(a, f)) = Cat(Instrs(a), f) /\ Temps(Then(a, f)) = Temps(a)
    /\ \A a, b : Instrs(Join(a, b)) = Cat(Instrs(a), Instrs(b)) /\ Temps(Join(a, b)) = Temps(b)
  BY DEF Instrs, Temps, Code, Then, Join, Cat

LEMMA LitForm ==
    ASSUME NEW kind, NEW v, NEW n
    PROVE  LET c == NodeToA(Lit(kind, v), n)
           IN Instrs(c) = One("LDAI", v) /\ Temps(c) = n
<1>1. NodeToA(Lit(kind, v), n) = Code(One("LDAI", v), n)
  BY DEF NodeToA, ToAOf, Lit, One
<1> QED
  BY <1>1, CodeOf

LEMMA VarForm ==
    ASSUME NEW name, NEW scope, NEW n
    PROVE  LET c == NodeToA(Var(name, scope), n)
           IN Instrs(c) = One("LDA", << name, scope >>) /\ Temps(c) = n
<1>1. NodeToA(Var(name, scope), n) = Code(One("LDA", << name, scope >>), n)
  BY DEF NodeToA, ToAOf, Var, One, Slot
<1> QED
  BY <1>1, CodeOf

LEMMA CompareForm ==
    ASSUME NEW op, NEW l, NEW r, NEW n
    PROVE  LET e == Compare(op, l, r)
               c == NodeToA(e, n)
           IN Instrs(c) = Cat(Instrs(Predicate(e, n)), Materialize) /\ Temps(c) = Temps(Predicate(e, n))
<1>1. PICK e : e = Compare(op, l, r)
  OBVIOUS
<1>2. e.k = "cmp"
  BY <1>1 DEF Compare
<1>3. NodeToA(e, n) = Then(Predicate(e, n), Materialize)
  BY <1>2 DEF NodeToA, ToAOf
<1> QED
  BY <1>1, <1>3, CodeOf

LEMMA AddForm ==
    ASSUME NEW l, NEW r, NEW n
    PROVE  LET c == NodeToA(Add(l, r), n)
               a == ToA(l, n + 1)
               b == ToA(r, n + 1)
               d == ToA(r, Temps(a))
           IN /\ IsSmall(l) =>
                    Instrs(c) = Cat(Instrs(b), Bumped(n, l.v)) /\ Temps(c) = Temps(b)
              /\ ~IsSmall(l) /\ IsSmall(r) =>
                    Instrs(c) = Cat(Instrs(a), Bumped(n, r.v)) /\ Temps(c) = Temps(a)
              /\ ~IsSmall(l) /\ ~IsSmall(r) =>
                    /\ Instrs(c) = Cat(Cat(Instrs(a), One("STA", Temp(n))), Cat(Instrs(d), Summed(n)))
                    /\ Temps(c) = Temps(d)
<1>1. PICK e : e = Add(l, r)
  OBVIOUS
<1>2. e.k = "add" /\ e.l = l /\ e.r = r
  BY <1>1 DEF Add
<1>3. PICK c : c = NodeToA(e, n)
  OBVIOUS
<1>4. \A i, a : AddSmall(i, a, n) = Then(a, Bumped(n, i))
  BY DEF AddSmall, Bumped, Cat, One, Many
<1>5. \A a : Saved(a, n) = Then(a, One("STA", Temp(n))) /\ AddSlot(a, n) = Then(a, Summed(n))
  BY DEF Saved, AddSlot, One, Summed, Three
<1>6. \A a : Saved(a, n).temps = Temps(a)
  BY <1>5, CodeOf DEF Temps
<1>7. IsSmall(l) => c = AddSmall(l.v, ToA(r, n + 1), n)
  BY <1>2, <1>3 DEF NodeToA, ToAOf
<1>8. ~IsSmall(l) /\ IsSmall(r) => c = AddSmall(r.v, ToA(l, n + 1), n)
  BY <1>2, <1>3 DEF NodeToA, ToAOf
<1>9. ~IsSmall(l) /\ ~IsSmall(r) =>
         c = Join(Saved(ToA(l, n + 1), n), AddSlot(ToA(r, Saved(ToA(l, n + 1), n).temps), n))
  BY <1>2, <1>3 DEF NodeToA, ToAOf
<1>10. ~IsSmall(l) /\ ~IsSmall(r) =>
         c = Join(Then(ToA(l, n + 1), One("STA", Temp(n))),
                  Then(ToA(r, Temps(ToA(l, n + 1))), Summed(n)))
  BY <1>5, <1>6, <1>9
<1>11. IsSmall(l) =>
         Instrs(c) = Cat(Instrs(ToA(r, n + 1)), Bumped(n, l.v)) /\ Temps(c) = Temps(ToA(r, n + 1))
  BY <1>4, <1>7, CodeOf
<1>12. ~IsSmall(l) /\ IsSmall(r) =>
         Instrs(c) = Cat(Instrs(ToA(l, n + 1)), Bumped(n, r.v)) /\ Temps(c) = Temps(ToA(l, n + 1))
  BY <1>4, <1>8, CodeOf
<1>13. ~IsSmall(l) /\ ~IsSmall(r) =>
         /\ Instrs(c) = Cat(Cat(Instrs(ToA(l, n + 1)), One("STA", Temp(n))),
                            Cat(Instrs(ToA(r, Temps(ToA(l, n + 1)))), Summed(n)))
         /\ Temps(c) = Temps(ToA(r, Temps(ToA(l, n + 1))))
  BY <1>10, CodeOf
<1> QED
  BY <1>1, <1>3, <1>11, <1>12, <1>13

LEMMA LeftForm ==
    ASSUME NEW l, NEW n
    PROVE  LET c == NodeToX(l, n)
               a == ToA(l, n + 1)
           IN /\ l.k = "var" => Instrs(c) = One("LDX", Slot(l)) /\ Temps(c) = n
              /\ l.k # "var" /\ IsIntLit(l) => Instrs(c) = One("LDXI", l.v) /\ Temps(c) = n
              /\ l.k # "var" /\ ~IsIntLit(l) =>
                    Instrs(c) = Cat(Instrs(a), Spilled(n, "LDX")) /\ Temps(c) = Temps(a)
<1>1. PICK c : c = NodeToX(l, n)
  OBVIOUS
<1>2. \A a : Spill(a, n, "LDX") = Then(a, Spilled(n, "LDX"))
  BY DEF Spill, Spilled, Two
<1>3. l.k = "var" => c = Code(One("LDX", Slot(l)), n)
  BY <1>1 DEF NodeToX, LeftToX, One
<1>4. l.k # "var" /\ IsIntLit(l) => c = Code(One("LDXI", l.v), n)
  BY <1>1 DEF NodeToX, LeftToX, One
<1>5. l.k # "var" /\ ~IsIntLit(l) => c = Then(ToA(l, n + 1), Spilled(n, "LDX"))
  BY <1>1, <1>2 DEF NodeToX, LeftToX
<1> QED
  BY <1>1, <1>3, <1>4, <1>5, CodeOf

LEMMA RightForm ==
    ASSUME NEW r, NEW n
    PROVE  LET c == NodeAgainstX(r, n)
               b == ToA(r, n + 1)
           IN /\ r.k = "var" => Instrs(c) = One("CPX", Slot(r)) /\ Temps(c) = n
              /\ r.k # "var" => Instrs(c) = Cat(Instrs(b), Spilled(n, "CPX")) /\ Temps(c) = Temps(b)
<1>1. PICK c : c = NodeAgainstX(r, n)
  OBVIOUS
<1>2. \A a : Spill(a, n, "CPX") = Then(a, Spilled(n, "CPX"))
  BY DEF Spill, Spilled, Two
<1>3. r.k = "var" => c = Code(One("CPX", Slot(r)), n)
  BY <1>1 DEF NodeAgainstX, AgainstX, One
<1>4. r.k # "var" => c = Then(ToA(r, n + 1), Spilled(n, "CPX"))
  BY <1>1, <1>2 DEF NodeAgainstX, AgainstX
<1> QED
  BY <1>1, <1>3, <1>4, CodeOf

LEMMA ComparedForm ==
    ASSUME NEW op, NEW l, NEW r, NEW n
    PROVE  LET c == NodeCompared(Compare(op, l, r), n)
               x == NodeToX(l, n)
               y == NodeAgainstX(r, Temps(x))
               a == ToA(l, n)
               b == ToA(r, n)
           IN /\ IsString(l) \/ IsString(r) =>
                    /\ Instrs(c) = Cat(Cat(Cat(Instrs(a), One("STA", Temp(n))), Instrs(b)), Matched(n))
                    /\ Temps(c) = n + 2
              /\ ~ (IsString(l) \/ IsString(r)) =>
                    Instrs(c) = Cat(Instrs(x), Instrs(y)) /\ Temps(c) = Temps(y)
<1>1. PICK e : e = Compare(op, l, r)
  OBVIOUS
<1>2. e.l = l /\ e.r = r
  BY <1>1 DEF Compare
<1>3. PICK c : c = NodeCompared(e, n)
  OBVIOUS
<1>4. \A a, b : StringCompare(a, b, n)
                  = Code(Cat(Cat(Cat(Instrs(a), One("STA", Temp(n))), Instrs(b)), Matched(n)), n + 2)
  BY DEF StringCompare, Cat, Instrs, One, Matched, Three
<1>5. IsString(l) \/ IsString(r) => c = StringCompare(ToA(l, n), ToA(r, n), n)
  BY <1>2, <1>3 DEF NodeCompared, Compared6502
<1>6. ~ (IsString(l) \/ IsString(r)) => c = Join(NodeToX(l, n), NodeAgainstX(r, Temps(NodeToX(l, n))))
  BY <1>2, <1>3 DEF NodeCompared, Compared6502, IntCompare, Temps, NodeToX, NodeAgainstX
<1>8. IsString(l) \/ IsString(r) =>
         /\ Instrs(c) = Cat(Cat(Cat(Instrs(ToA(l, n)), One("STA", Temp(n))), Instrs(ToA(r, n))), Matched(n))
         /\ Temps(c) = n + 2
  BY <1>4, <1>5, CodeOf
<1>9. ~ (IsString(l) \/ IsString(r)) =>
         /\ Instrs(c) = Cat(Instrs(NodeToX(l, n)), Instrs(NodeAgainstX(r, Temps(NodeToX(l, n)))))
         /\ Temps(c) = Temps(NodeAgainstX(r, Temps(NodeToX(l, n))))
  BY <1>6, CodeOf
<1> QED
  BY <1>1, <1>3, <1>8, <1>9

LEMMA PredicateForm ==
    /\ \A v, n : LET c == NodeToZ(Lit("bool", v), n)
                 IN Instrs(c) = ForcedZ(IF v = 1 THEN 0 ELSE 1) /\ Temps(c) = n
    /\ \A op, l, r, n :
          LET c == NodeToZ(Compare(op, l, r), n)
              d == NodeCompared(Compare(op, l, r), n)
          IN /\ Temps(c) = Temps(d)
             /\ op = "==" => Instrs(c) = Cat(Instrs(d), << >>)
             /\ op # "==" => Instrs(c) = Cat(Instrs(d), InvertZ)
<1>1. ASSUME NEW v, NEW n
      PROVE  NodeToZ(Lit("bool", v), n) = Code(ForcedZ(IF v = 1 THEN 0 ELSE 1), n)
  <2>1. Lit("bool", v).k = "lit" /\ Lit("bool", v).v = v
    BY DEF Lit
  <2>2. ForceZSet = ForcedZ(0) /\ ForceZClear = ForcedZ(1)
    BY DEF ForceZSet, ForceZClear, ForcedZ, Two
  <2> QED
    BY <2>1, <2>2 DEF NodeToZ, PredicateOf
<1>2. ASSUME NEW op, NEW l, NEW r, NEW n
      PROVE  LET e == Compare(op, l, r)
             IN NodeToZ(e, n)
                  = Then(NodeCompared(e, n), IF op = "==" THEN << >> ELSE InvertZ)
  <2>1. PICK e : e = Compare(op, l, r)
    OBVIOUS
  <2>2. e.k = "cmp" /\ e.op = op
    BY <2>1 DEF Compare
  <2>3. NodeToZ(e, n) = Then(NodeCompared(e, n), IF op = "==" THEN << >> ELSE InvertZ)
    BY <2>2 DEF NodeToZ, PredicateOf
  <2> QED
    BY <2>1, <2>3
<1> QED
  BY <1>1, <1>2, CodeOf

LEMMA TwoOnes == \A a, b : << a >> \o << b >> = << a, b >>
<1> SUFFICES ASSUME NEW a, NEW b PROVE << a >> \o << b >> = << a, b >>
  OBVIOUS
<1>1. PICK S : S = {a, b}
  OBVIOUS
<1>2. << a >> \in Seq(S) /\ << b >> \in Seq(S) /\ << a, b >> \in Seq(S)
  BY <1>1
<1>3. /\ Len(<< a >>) = 1 /\ Len(<< b >>) = 1 /\ Len(<< a, b >>) = 2
      /\ << a >>[1] = a /\ << b >>[1] = b /\ << a, b >>[1] = a /\ << a, b >>[2] = b
  OBVIOUS
<1>4. PICK h : h = << a >> \o << b >>
  OBVIOUS
<1>5. h \in Seq(S) /\ Len(h) = 2 /\ h[1] = a /\ h[2] = b
  BY <1>2, <1>3, <1>4, ConcatProperties
<1>6. \A i \in 1 .. Len(h) : h[i] = << a, b >>[i]
  BY <1>3, <1>5
<1> QED
  BY <1>2, <1>3, <1>4, <1>5, <1>6, SeqEqual

\* emitIntExpr to Y.
LEMMA YForm ==
    ASSUME NEW n
    PROVE  /\ \A kind, v : kind # "bool" =>
                 LET c == NodeToY(Lit(kind, v), n)
                 IN Instrs(c) = One("LDYI", v) /\ Temps(c) = n
           /\ \A name, scope :
                 LET c == NodeToY(Var(name, scope), n)
                 IN Instrs(c) = One("LDY", << name, scope >>) /\ Temps(c) = n
           /\ \A l, r :
                 LET e == Add(l, r)
                     c == NodeToY(e, n)
                     a == ToA(e, n)
                 IN /\ Temps(c) = Temps(a)
                    /\ IsSmall(l) \/ IsSmall(r) =>
                          Instrs(c) = Cat(Instrs(a), One("LDY", Temp(n)))
                    /\ ~ (IsSmall(l) \/ IsSmall(r)) =>
                          Instrs(c) = Cat(Instrs(a), Spilled(n, "LDY"))
           /\ \A e : (\E v : e = Lit("bool", v)) \/ (\E op, l, r : e = Compare(op, l, r)) =>
                 LET c == NodeToY(e, n)
                     a == ToA(e, n)
                 IN Instrs(c) = Cat(Instrs(a), Spilled(Temps(a), "LDY")) /\ Temps(c) = Temps(a) + 1
<1>1. ASSUME NEW kind, NEW v, kind # "bool"
      PROVE  NodeToY(Lit(kind, v), n) = Code(One("LDYI", v), n)
  BY <1>1 DEF NodeToY, ToYOf, Lit, One
<1>2. ASSUME NEW name, NEW scope
      PROVE  NodeToY(Var(name, scope), n) = Code(One("LDY", << name, scope >>), n)
  BY DEF NodeToY, ToYOf, Var, One, Slot
<1>3. ASSUME NEW l, NEW r, NEW e, e = Add(l, r)
      PROVE  NodeToY(e, n)
               = Then(ToA(e, n), IF IsSmall(l) \/ IsSmall(r) THEN One("LDY", Temp(n)) ELSE Spilled(n, "LDY"))
  <2>1. e.k = "add" /\ e.l = l /\ e.r = r
    BY <1>3 DEF Add
  <2>2. NodeToY(e, n) = SumToY(e, ToA(e, n), n)
    BY <2>1 DEF NodeToY, ToYOf
  <2>3. SumToY(e, ToA(e, n), n)
          = Then(ToA(e, n), (IF IsSmall(l) \/ IsSmall(r) THEN << >> ELSE One("STA", Temp(n)))
                            \o One("LDY", Temp(n)))
    BY <2>1 DEF SumToY, One
  <2>4. << >> \o One("LDY", Temp(n)) = One("LDY", Temp(n))
    BY DEF One
  <2>5. One("STA", Temp(n)) \o One("LDY", Temp(n)) = Spilled(n, "LDY")
    BY TwoOnes DEF One, Spilled, Two
  <2> QED
    BY <2>2, <2>3, <2>4, <2>5
<1>4. ASSUME NEW e, (\E v : e = Lit("bool", v)) \/ (\E op, l, r : e = Compare(op, l, r))
      PROVE  LET a == ToA(e, n)
             IN NodeToY(e, n) = Code(Cat(Instrs(a), Spilled(Temps(a), "LDY")), Temps(a) + 1)
  <2>1. (e.k = "lit" /\ e.kind = "bool") \/ e.k = "cmp"
    BY <1>4 DEF Lit, Compare
  <2>2. NodeToY(e, n) = StoreToY(ToA(e, n))
    BY <2>1 DEF NodeToY, ToYOf
  <2> QED
    BY <2>2 DEF StoreToY, Cat, Instrs, Spilled, Two, Temps
<1>5. ASSUME NEW l, NEW r, NEW e, e = Add(l, r)
      PROVE  LET c == NodeToY(e, n)
                 a == ToA(e, n)
             IN /\ Temps(c) = Temps(a)
                /\ IsSmall(l) \/ IsSmall(r) => Instrs(c) = Cat(Instrs(a), One("LDY", Temp(n)))
                /\ ~ (IsSmall(l) \/ IsSmall(r)) => Instrs(c) = Cat(Instrs(a), Spilled(n, "LDY"))
  <2>1. CASE IsSmall(l) \/ IsSmall(r)
    <3>1. NodeToY(e, n) = Then(ToA(e, n), One("LDY", Temp(n)))
      BY <1>3, <1>5, <2>1
    <3> QED
      BY <2>1, <3>1, CodeOf
  <2>2. CASE ~ (IsSmall(l) \/ IsSmall(r))
    <3>1. NodeToY(e, n) = Then(ToA(e, n), Spilled(n, "LDY"))
      BY <1>3, <1>5, <2>2
    <3> QED
      BY <2>2, <3>1, CodeOf
  <2> QED
    BY <2>1, <2>2
<1>6. ASSUME NEW e, (\E v : e = Lit("bool", v)) \/ (\E op, l, r : e = Compare(op, l, r))
      PROVE  LET c == NodeToY(e, n)
                 a == ToA(e, n)
             IN Instrs(c) = Cat(Instrs(a), Spilled(Temps(a), "LDY")) /\ Temps(c) = Temps(a) + 1
  <2>1. NodeToY(e, n) = Code(Cat(Instrs(ToA(e, n)), Spilled(Temps(ToA(e, n)), "LDY")), Temps(ToA(e, n)) + 1)
    BY <1>4, <1>6
  <2> QED
    BY <2>1, CodeOf
<1>7. ASSUME NEW kind, NEW v, kind # "bool"
      PROVE  LET c == NodeToY(Lit(kind, v), n) IN Instrs(c) = One("LDYI", v) /\ Temps(c) = n
  BY <1>1, <1>7, CodeOf
<1>8. ASSUME NEW name, NEW scope
      PROVE  LET c == NodeToY(Var(name, scope), n)
             IN Instrs(c) = One("LDY", << name, scope >>) /\ Temps(c) = n
  BY <1>2, CodeOf
<1> QED
  BY <1>5, <1>6, <1>7, <1>8

-----------------------------------------------------------------------------
(***************************************************************************)
(* The code of an expression does what the expression means.               *)
(***************************************************************************)
IsCondition(e) == (\E v : e = Lit("bool", v)) \/ (\E op, l, r : e = Compare(op, l, r))

\* The code of e is what the generator makes of it, and its value what the
\* values of its parts make it.
Compiled6502(e) ==
    \A n \in Nat : /\ ToA(e, n) = NodeToA(e, n)
                   /\ IsCondition(e) => Predicate(e, n) = NodeToZ(e, n)
Meant(e, store) == Eval(e, store) = NodeValue(e, store)

Laid(c, n) == Fragment(Instrs(c)) /\ Temps(c) \in Nat /\ Temps(c) >= n

Worth(e, store) ==
    /\ Eval(e, store) \in Byte
    /\ e.k = "lit" => Eval(e, store) = e.v
    /\ e.k = "var" => Slot(e) \in VarSlots /\ Eval(e, store) = Val(store, Slot(e))
    /\ IsCondition(e) => Eval(e, store) \in {0, 1}

ToAWorks(e, store) ==
    \A n \in Nat : Laid(ToA(e, n), n) /\ YieldsA(Instrs(ToA(e, n)), n, store, Eval(e, store))
PredicateWorks(e, store) ==
    \A n \in Nat : Laid(Predicate(e, n), n) /\ YieldsZ(Instrs(Predicate(e, n)), n, store, Eval(e, store))
ToYWorks(e, store) ==
    \A n \in Nat : Laid(NodeToY(e, n), n) /\ YieldsY(Instrs(NodeToY(e, n)), n, store, Eval(e, store))
\* A literal or a variable needs no temporary.
Plain(e) == e.k \in {"lit", "var"} => \A n \in Nat : Instrs(ToA(e, n + 1)) = Instrs(ToA(e, n))
Works(e, store) ==
    /\ Worth(e, store) /\ Plain(e) /\ ToAWorks(e, store) /\ ToYWorks(e, store)
    /\ IsCondition(e) => PredicateWorks(e, store)

LEMMA KindsApart ==
    /\ \A kind, v : LET e == Lit(kind, v)
                    IN e.k = "lit" /\ e.kind = kind /\ e.v = v /\ (IsCondition(e) <=> kind = "bool")
    /\ \A name, scope : LET e == Var(name, scope)
                        IN e.k = "var" /\ e.name = name /\ e.scope = scope /\ ~IsCondition(e)
    /\ \A l, r : LET e == Add(l, r) IN e.k = "add" /\ e.l = l /\ e.r = r /\ ~IsCondition(e)
    /\ \A op, l, r : LET e == Compare(op, l, r)
                     IN e.k = "cmp" /\ e.op = op /\ e.l = l /\ e.r = r /\ IsCondition(e)
<1>1. \A kind, v : Lit(kind, v).k = "lit" /\ Lit(kind, v).kind = kind /\ Lit(kind, v).v = v
  BY DEF Lit
<1>2. \A name, scope :
         LET e == Var(name, scope) IN e.k = "var" /\ e.name = name /\ e.scope = scope
  BY DEF Var
<1>3. \A l, r : Add(l, r).k = "add" /\ Add(l, r).l = l /\ Add(l, r).r = r
  BY DEF Add
<1>4. \A op, l, r :
         LET e == Compare(op, l, r) IN e.k = "cmp" /\ e.op = op /\ e.l = l /\ e.r = r
  BY DEF Compare
<1>5. ASSUME NEW e, IsCondition(e) PROVE e.k = "cmp" \/ (e.k = "lit" /\ e.kind = "bool")
  BY <1>1, <1>4, <1>5 DEF IsCondition
<1>6. ASSUME NEW kind, NEW v PROVE IsCondition(Lit(kind, v)) <=> kind = "bool"
  <2>1. PICK e : e = Lit(kind, v)
    OBVIOUS
  <2>2. e.k = "lit" /\ e.kind = kind
    BY <1>1, <2>1
  <2>3. kind = "bool" => IsCondition(e)
    BY <2>1 DEF IsCondition
  <2> QED
    BY <1>5, <2>1, <2>2, <2>3
<1>7. \A op, l, r : IsCondition(Compare(op, l, r))
  BY DEF IsCondition
<1>8. ASSUME NEW name, NEW scope PROVE ~IsCondition(Var(name, scope))
  BY <1>2, <1>5
<1>9. ASSUME NEW l, NEW r PROVE ~IsCondition(Add(l, r))
  BY <1>3, <1>5
<1> QED
  BY <1>1, <1>2, <1>3, <1>4, <1>6, <1>7, <1>8, <1>9

SameBit(v, w) == Bit(v = w)

LEMMA EvalForm ==
    ASSUME NEW store
    PROVE  /\ \A kind, v : NodeValue(Lit(kind, v), store) = v
           /\ \A name, scope : NodeValue(Var(name, scope), store) = Val(store, << name, scope >>)
           /\ \A l, r : NodeValue(Add(l, r), store) = (Eval(l, store) + Eval(r, store)) % IntMod
           /\ \A l, r : NodeValue(Compare("==", l, r), store) = SameBit(Eval(l, store), Eval(r, store))
           /\ \A l, r : NodeValue(Compare("!=", l, r), store) = 1 - SameBit(Eval(l, store), Eval(r, store))
<1>1. \A kind, v : NodeValue(Lit(kind, v), store) = v
  BY DEF NodeValue, EvalOf, Lit
<1>2. \A name, scope : NodeValue(Var(name, scope), store) = Val(store, << name, scope >>)
  BY DEF NodeValue, EvalOf, Var, ValueOf, Val
<1>3. \A l, r : NodeValue(Add(l, r), store) = (Eval(l, store) + Eval(r, store)) % IntMod
  BY DEF NodeValue, EvalOf, Add
<1>4. ASSUME NEW l, NEW r
      PROVE  NodeValue(Compare("==", l, r), store) = SameBit(Eval(l, store), Eval(r, store))
  <2>1. PICK e : e = Compare("==", l, r)
    OBVIOUS
  <2>2. e.k = "cmp" /\ e.op = "==" /\ e.l = l /\ e.r = r
    BY <2>1 DEF Compare
  <2>3. CASE Eval(l, store) = Eval(r, store)
    BY <2>1, <2>2, <2>3 DEF NodeValue, EvalOf, Bit, SameBit
  <2>4. CASE Eval(l, store) # Eval(r, store)
    BY <2>1, <2>2, <2>4 DEF NodeValue, EvalOf, Bit, SameBit
  <2> QED
    BY <2>3, <2>4
<1>5. ASSUME NEW l, NEW r
      PROVE  NodeValue(Compare("!=", l, r), store) = 1 - SameBit(Eval(l, store), Eval(r, store))
  <2>1. PICK e : e = Compare("!=", l, r)
    OBVIOUS
  <2>2. e.k = "cmp" /\ e.op = "!=" /\ e.l = l /\ e.r = r
    BY <2>1 DEF Compare
  <2>3. CASE Eval(l, store) = Eval(r, store)
    BY <2>1, <2>2, <2>3 DEF NodeValue, EvalOf, Bit, SameBit
  <2>4. CASE Eval(l, store) # Eval(r, store)
    BY <2>1, <2>2, <2>4 DEF NodeValue, EvalOf, Bit, SameBit
  <2> QED
    BY <2>3, <2>4
<1> QED
  BY <1>1, <1>2, <1>3, <1>4, <1>5

LEMMA LitWorks ==
    ASSUME NEW kind, NEW v \in Byte, kind = "bool" => v \in {0, 1}, NEW store,
           NEW e, e = Lit(kind, v), Compiled6502(e), Meant(e, store)
    PROVE  Works(e, store)
<1>1. e.k = "lit" /\ e.v = v /\ (IsCondition(e) <=> kind = "bool")
  BY KindsApart
<1>2. Eval(e, store) = v
  BY EvalForm DEF Meant
<1>3. Worth(e, store)
  BY <1>1, <1>2 DEF Worth
<1>4. v \in Nat /\ \A n \in Nat : n >= n
  BY WordModAssumption DEF Byte
<1>5. ASSUME NEW n \in Nat
      PROVE  Instrs(ToA(e, n)) = One("LDAI", v) /\ Temps(ToA(e, n)) = n
  BY LitForm DEF Compiled6502
<1>6. ToAWorks(e, store)
  BY <1>2, <1>4, <1>5, LiteralToA DEF ToAWorks, Laid
<1>7. ToYWorks(e, store)
  <2>1. CASE kind # "bool"
    <3>1. ASSUME NEW n \in Nat
          PROVE  Instrs(NodeToY(e, n)) = One("LDYI", v) /\ Temps(NodeToY(e, n)) = n
      BY <2>1, YForm
    <3> QED
      BY <1>2, <1>4, <3>1, LiteralToXY DEF ToYWorks, Laid
  <2>2. CASE kind = "bool"
    <3> SUFFICES ASSUME NEW n \in Nat
                 PROVE  LET c == NodeToY(e, n)
                        IN Laid(c, n) /\ YieldsY(Instrs(c), n, store, Eval(e, store))
      BY DEF ToYWorks
    <3>1. PICK f : f = Instrs(ToA(e, n))
      OBVIOUS
    <3>2. Fragment(f) /\ YieldsA(f, n, store, v) /\ n >= n /\ n + 1 \in Nat /\ n + 1 >= n
      BY <1>2, <1>4, <1>6, <3>1 DEF ToAWorks, Laid
    <3>3. /\ Instrs(NodeToY(e, n)) = Cat(f, Spilled(n, "LDY"))
          /\ Temps(NodeToY(e, n)) = n + 1
      BY <1>5, <2>2, <3>1, YForm
    <3>4. /\ Fragment(Cat(f, Spilled(n, "LDY")))
          /\ YieldsY(Cat(f, Spilled(n, "LDY")), n, store, v)
      BY <3>2, SpillRule
    <3> QED
      BY <1>2, <3>2, <3>3, <3>4 DEF Laid
  <2> QED
    BY <2>1, <2>2
<1>8. IsCondition(e) => PredicateWorks(e, store)
  <2> SUFFICES ASSUME IsCondition(e), NEW n \in Nat
               PROVE  LET c == Predicate(e, n)
                      IN Laid(c, n) /\ YieldsZ(Instrs(c), n, store, v)
    BY <1>2 DEF PredicateWorks
  <2>1. kind = "bool" /\ v \in {0, 1}
    BY <1>1
  <2>2. PICK i \in {0, 1} : i = (IF v = 1 THEN 0 ELSE 1) /\ v = 1 - i
    BY <2>1
  <2>3. Instrs(Predicate(e, n)) = ForcedZ(i) /\ Temps(Predicate(e, n)) = n
    <3>1. e = Lit("bool", v) /\ Predicate(e, n) = NodeToZ(e, n)
      BY <2>1 DEF Compiled6502
    <3>2. /\ Instrs(NodeToZ(Lit("bool", v), n)) = ForcedZ(IF v = 1 THEN 0 ELSE 1)
          /\ Temps(NodeToZ(Lit("bool", v), n)) = n
      BY PredicateForm
    <3> QED
      BY <2>2, <3>1, <3>2
  <2> QED
    BY <1>4, <2>2, <2>3, ForcedZRule DEF Laid
<1>9. \A n \in Nat : n + 1 \in Nat
  OBVIOUS
<1>10. Plain(e)
  BY <1>5, <1>9 DEF Plain
<1> QED
  BY <1>3, <1>6, <1>7, <1>8, <1>10 DEF Works

LEMMA VarWorks ==
    ASSUME NEW name \in Names, NEW scope \in Nat,
           NEW store, \A s \in VarSlots : Val(store, s) \in Byte,
           NEW e, e = Var(name, scope), Compiled6502(e), Meant(e, store)
    PROVE  Works(e, store)
<1>1. PICK s \in VarSlots : s = << name, scope >>
  BY DEF VarSlots
<1>2. e.k = "var" /\ Slot(e) = s /\ ~IsCondition(e)
  BY <1>1, KindsApart DEF Slot
<1>3. Eval(e, store) = Val(store, s)
  BY <1>1, EvalForm DEF Meant
<1>4. Worth(e, store)
  BY <1>2, <1>3 DEF Worth
<1>5. ASSUME NEW n \in Nat
      PROVE  /\ Instrs(ToA(e, n)) = One("LDA", s) /\ Temps(ToA(e, n)) = n
             /\ Instrs(NodeToY(e, n)) = One("LDY", s) /\ Temps(NodeToY(e, n)) = n
  <2>1. ToA(e, n) = NodeToA(Var(name, scope), n) /\ NodeToY(e, n) = NodeToY(Var(name, scope), n)
    BY DEF Compiled6502
  <2>2. LET c == NodeToA(Var(name, scope), n) IN Instrs(c) = One("LDA", << name, scope >>) /\ Temps(c) = n
    BY VarForm
  <2>3. LET c == NodeToY(Var(name, scope), n) IN Instrs(c) = One("LDY", << name, scope >>) /\ Temps(c) = n
    BY YForm
  <2> QED
    BY <1>1, <2>1, <2>2, <2>3
<1>6. \A n \in Nat : n >= n
  OBVIOUS
<1>7. ToAWorks(e, store)
  BY <1>3, <1>5, <1>6, VariableToA DEF ToAWorks, Laid
<1>8. ToYWorks(e, store)
  BY <1>3, <1>5, <1>6, VariableToXY DEF ToYWorks, Laid
<1>9. \A n \in Nat : n + 1 \in Nat
  OBVIOUS
<1>10. Plain(e)
  BY <1>5, <1>9 DEF Plain
<1> QED
  BY <1>2, <1>4, <1>7, <1>8, <1>10 DEF Works

\* The sum of two expressions whose code works.
LEMMA AddWorks ==
    ASSUME NEW store, NEW l, NEW r, Works(l, store), Works(r, store), IntMod = WordMod,
           NEW e, e = Add(l, r), Compiled6502(e), Meant(e, store)
    PROVE  Works(e, store)
<1>1. e.k = "add" /\ ~IsCondition(e)
  BY KindsApart
<1>2. PICK v \in Byte : v = Eval(l, store) /\ (IsIntLit(l) => v = l.v)
  BY DEF Works, Worth, IsIntLit
<1>3. PICK w \in Byte : w = Eval(r, store) /\ (IsIntLit(r) => w = r.v)
  BY DEF Works, Worth, IsIntLit
<1>4. v \in Nat /\ w \in Nat /\ v + w \in Int /\ v + w = w + v
  BY WordModAssumption DEF Byte
<1>5. Eval(e, store) = (v + w) % WordMod
  <2>1. NodeValue(Add(l, r), store) = (Eval(l, store) + Eval(r, store)) % IntMod
    BY EvalForm
  <2> QED
    BY <1>2, <1>3, <2>1 DEF Meant
<1>6. Worth(e, store)
  BY <1>1, <1>4, <1>5, ModByte DEF Worth
<1>7. ASSUME NEW n \in Nat
      PROVE  /\ Laid(ToA(e, n), n) /\ YieldsA(Instrs(ToA(e, n)), n, store, (v + w) % WordMod)
             /\ Laid(NodeToY(e, n), n) /\ YieldsY(Instrs(NodeToY(e, n)), n, store, (v + w) % WordMod)
  <2>1. PICK j \in Nat : j = n + 1 /\ j >= n /\ n >= n
    OBVIOUS
  <2>2. PICK a : a = ToA(l, j)
    OBVIOUS
  <2>3. PICK b : b = ToA(r, j)
    OBVIOUS
  <2>4. PICK d : d = ToA(r, Temps(a))
    OBVIOUS
  <2>5. Laid(a, j) /\ YieldsA(Instrs(a), j, store, v)
    BY <1>2, <2>2 DEF Works, ToAWorks
  <2>6. Laid(b, j) /\ YieldsA(Instrs(b), j, store, w)
    BY <1>3, <2>3 DEF Works, ToAWorks
  <2>7. Laid(d, Temps(a)) /\ YieldsA(Instrs(d), Temps(a), store, w)
    BY <1>3, <2>4, <2>5 DEF Works, ToAWorks, Laid
  <2>8. PICK c : c = ToA(e, n)
    OBVIOUS
  <2>9. /\ IsSmall(l) => Instrs(c) = Cat(Instrs(b), Bumped(n, l.v)) /\ Temps(c) = Temps(b)
        /\ ~IsSmall(l) /\ IsSmall(r) => Instrs(c) = Cat(Instrs(a), Bumped(n, r.v)) /\ Temps(c) = Temps(a)
        /\ ~IsSmall(l) /\ ~IsSmall(r) =>
              /\ Instrs(c) = Cat(Cat(Instrs(a), One("STA", Temp(n))), Cat(Instrs(d), Summed(n)))
              /\ Temps(c) = Temps(d)
    <3>1. c = NodeToA(Add(l, r), n)
      BY <2>8 DEF Compiled6502
    <3> QED
      BY <2>1, <2>2, <2>3, <2>4, <3>1, AddForm
  <2>10. PICK y : y = NodeToY(e, n)
    OBVIOUS
  <2>11. /\ Temps(y) = Temps(c)
         /\ IsSmall(l) \/ IsSmall(r) => Instrs(y) = Cat(Instrs(c), One("LDY", Temp(n)))
         /\ ~ (IsSmall(l) \/ IsSmall(r)) => Instrs(y) = Cat(Instrs(c), Spilled(n, "LDY"))
    BY <2>8, <2>10, YForm
  <2>12. Fragment(Instrs(a)) /\ Fragment(Instrs(b)) /\ Fragment(Instrs(d))
    BY <2>5, <2>6, <2>7 DEF Laid
  <2>13. /\ Temps(a) \in Nat /\ Temps(a) >= j
         /\ Temps(b) \in Nat /\ Temps(b) >= n /\ Temps(d) \in Nat /\ Temps(d) >= n /\ Temps(a) >= n
    BY <2>1, <2>5, <2>6, <2>7 DEF Laid
  <2>14. CASE IsSmall(l)
    <3>1. l.v = v /\ Instrs(c) = Cat(Instrs(b), Bumped(n, v)) /\ Temps(c) = Temps(b)
      BY <1>2, <2>9, <2>14 DEF IsSmall
    <3>2. Fragment(Instrs(c)) /\ YieldsA(Instrs(c), n, store, (w + v) % WordMod)
      BY <1>4, <2>1, <2>6, <2>12, <3>1, AddSmallRule
    <3>3. Fragment(Instrs(y)) /\ YieldsY(Instrs(y), n, store, (w + v) % WordMod)
      BY <1>4, <2>1, <2>6, <2>11, <2>12, <2>14, <3>1, SmallSumToY
    <3> QED
      BY <1>4, <2>8, <2>10, <2>11, <2>13, <3>1, <3>2, <3>3 DEF Laid
  <2>15. CASE ~IsSmall(l) /\ IsSmall(r)
    <3>1. r.v = w /\ Instrs(c) = Cat(Instrs(a), Bumped(n, w)) /\ Temps(c) = Temps(a)
      BY <1>3, <2>9, <2>15 DEF IsSmall
    <3>2. Fragment(Instrs(c)) /\ YieldsA(Instrs(c), n, store, (v + w) % WordMod)
      BY <1>4, <2>1, <2>5, <2>12, <3>1, AddSmallRule
    <3>3. Fragment(Instrs(y)) /\ YieldsY(Instrs(y), n, store, (v + w) % WordMod)
      BY <1>4, <2>1, <2>5, <2>11, <2>12, <2>15, <3>1, SmallSumToY
    <3> QED
      BY <2>8, <2>10, <2>11, <2>13, <3>1, <3>2, <3>3 DEF Laid
  <2>16. CASE ~IsSmall(l) /\ ~IsSmall(r)
    <3>1. /\ Instrs(c) = Cat(Cat(Instrs(a), One("STA", Temp(n))), Cat(Instrs(d), Summed(n)))
          /\ Temps(c) = Temps(d)
      BY <2>9, <2>16
    <3>2. Fragment(Instrs(c)) /\ YieldsA(Instrs(c), n, store, (v + w) % WordMod)
      <4>1. Temps(a) >= n + 1 /\ YieldsA(Instrs(a), n + 1, store, v)
        BY <2>1, <2>5, <2>13
      <4>2. PICK i \in Nat : i = Temps(a) /\ i >= n + 1
        BY <2>13, <4>1
      <4>3. PICK f : f = Instrs(a) /\ Fragment(f) /\ YieldsA(f, n + 1, store, v)
        BY <2>12, <4>1
      <4>4. PICK g : g = Instrs(d) /\ Fragment(g) /\ YieldsA(g, i, store, w)
        BY <2>7, <2>12, <4>2
      <4>5. LET h == Cat(Cat(f, One("STA", Temp(n))), Cat(g, Summed(n)))
            IN Fragment(h) /\ YieldsA(h, n, store, (v + w) % WordMod)
        BY <1>4, <4>2, <4>3, <4>4, AddSlotRule
      <4> QED
        BY <3>1, <4>3, <4>4, <4>5
    <3>3. Instrs(y) = Cat(Instrs(c), Spilled(n, "LDY"))
      BY <2>11, <2>16
    <3>4. Fragment(Instrs(y)) /\ YieldsY(Instrs(y), n, store, (v + w) % WordMod)
      BY <2>1, <3>2, <3>3, SpillRule
    <3> QED
      BY <2>8, <2>10, <2>11, <2>13, <3>1, <3>2, <3>4 DEF Laid
  <2> QED
    BY <2>14, <2>15, <2>16
<1> QED
  BY <1>1, <1>5, <1>6, <1>7 DEF Works, Plain, ToAWorks, ToYWorks

\* Operands that the generated comparison compares: a string is compared with a
\* string, and what is compared with X leaves X alone.
Comparable(l, r) ==
    /\ IsString(l) <=> IsString(r)
    /\ ~IsString(r) /\ r.k # "var" => \A n \in Nat : KeepsX(Instrs(ToA(r, n)))

LEMMA IntComparison ==
    ASSUME NEW store, NEW l, NEW r, Works(l, store), Works(r, store), ~IsString(r), Comparable(l, r),
           NEW n \in Nat, NEW x, x = NodeToX(l, n), NEW y, y = NodeAgainstX(r, Temps(x))
    PROVE  LET f == Cat(Instrs(x), Instrs(y))
           IN /\ Fragment(f) /\ Temps(y) \in Nat /\ Temps(y) >= n
              /\ YieldsZ(f, n, store, Bit(Eval(l, store) = Eval(r, store)))
<1>1. PICK v \in Byte : v = Eval(l, store)
  BY DEF Works, Worth
<1>2. PICK w \in Byte : w = Eval(r, store)
  BY DEF Works, Worth
<1>3. PICK j1 \in Nat : j1 = n + 1 /\ j1 >= n /\ n >= n
  OBVIOUS
<1>4. /\ Fragment(Instrs(x)) /\ Temps(x) \in Nat /\ Temps(x) >= n
      /\ YieldsX(Instrs(x), n, store, v)
  <2>1. CASE l.k = "var"
    <3>1. Slot(l) \in VarSlots /\ v = Val(store, Slot(l))
      BY <1>1, <2>1 DEF Works, Worth
    <3>2. Instrs(x) = One("LDX", Slot(l)) /\ Temps(x) = n
      BY <2>1, LeftForm
    <3> QED
      BY <1>3, <3>1, <3>2, VariableToXY
  <2>2. CASE l.k # "var" /\ IsIntLit(l)
    <3>1. v = l.v
      BY <1>1, <2>2 DEF Works, Worth, IsIntLit
    <3>2. Instrs(x) = One("LDXI", v) /\ Temps(x) = n
      BY <2>2, <3>1, LeftForm
    <3> QED
      BY <1>3, <3>2, LiteralToXY
  <2>3. CASE l.k # "var" /\ ~IsIntLit(l)
    <3>1. PICK a : a = ToA(l, j1)
      OBVIOUS
    <3>2. Instrs(x) = Cat(Instrs(a), Spilled(n, "LDX")) /\ Temps(x) = Temps(a)
      BY <1>3, <2>3, <3>1, LeftForm
    <3>3. Laid(a, j1) /\ YieldsA(Instrs(a), j1, store, v)
      BY <1>1, <3>1 DEF Works, ToAWorks
    <3>4. Temps(a) \in Nat /\ Temps(a) >= n /\ Fragment(Instrs(a))
      BY <1>3, <3>3 DEF Laid
    <3>5. LET h == Cat(Instrs(a), Spilled(n, "LDX")) IN Fragment(h) /\ YieldsX(h, n, store, v)
      BY <1>3, <3>3, <3>4, SpillRule
    <3> QED
      BY <3>2, <3>4, <3>5
  <2> QED
    BY <2>1, <2>2, <2>3
<1>5. PICK j \in Nat : j = Temps(x) /\ j >= n /\ j >= j
  BY <1>4
<1>6. PICK j2 \in Nat : j2 = j + 1 /\ j2 >= j
  OBVIOUS
<1>7. /\ Fragment(Instrs(y)) /\ Temps(y) \in Nat /\ Temps(y) >= n
      /\ Compares(Instrs(y), j, store, w)
  <2>1. CASE r.k = "var"
    <3>1. Slot(r) \in VarSlots /\ w = Val(store, Slot(r))
      BY <1>2, <2>1 DEF Works, Worth
    <3>2. Instrs(y) = One("CPX", Slot(r)) /\ Temps(y) = j
      BY <1>5, <2>1, RightForm
    <3> QED
      BY <1>5, <3>1, <3>2, VariableToXY
  <2>2. CASE r.k # "var"
    <3>1. PICK b : b = ToA(r, j2)
      OBVIOUS
    <3>2. Instrs(y) = Cat(Instrs(b), Spilled(j, "CPX")) /\ Temps(y) = Temps(b)
      <4>1. /\ Instrs(y) = Cat(Instrs(ToA(r, Temps(x) + 1)), Spilled(Temps(x), "CPX"))
            /\ Temps(y) = Temps(ToA(r, Temps(x) + 1))
        BY <2>2, RightForm
      <4> QED
        BY <1>5, <1>6, <3>1, <4>1
    <3>3. Laid(b, j2) /\ YieldsA(Instrs(b), j2, store, w) /\ KeepsX(Instrs(b))
      BY <1>2, <2>2, <3>1 DEF Works, ToAWorks, Comparable
    <3>4. Temps(b) \in Nat /\ Temps(b) >= n /\ Fragment(Instrs(b))
      BY <1>5, <1>6, <3>3 DEF Laid
    <3>5. LET h == Cat(Instrs(b), Spilled(j, "CPX")) IN Fragment(h) /\ Compares(h, j, store, w)
      BY <1>5, <1>6, <3>3, <3>4, SpillRule
    <3> QED
      BY <3>2, <3>4, <3>5
  <2> QED
    BY <2>1, <2>2
<1> QED
  BY <1>1, <1>2, <1>4, <1>5, <1>7, CompareRule

LEMMA StringComparison ==
    ASSUME NEW store, NEW l, NEW r, Works(l, store), Works(r, store), IsString(l), IsString(r),
           NEW n \in Nat
    PROVE  LET f == Cat(Cat(Cat(Instrs(ToA(l, n)), One("STA", Temp(n))), Instrs(ToA(r, n))), Matched(n))
           IN Fragment(f) /\ YieldsZ(f, n, store, Bit(Eval(l, store) = Eval(r, store)))
<1>1. PICK f : f = Instrs(ToA(l, n))
  OBVIOUS
<1>2. Fragment(f) /\ YieldsA(f, n, store, Eval(l, store))
  BY <1>1 DEF Works, ToAWorks, Laid
<1>3. PICK g : g = Instrs(ToA(r, n))
  OBVIOUS
<1>4. Fragment(g) /\ YieldsA(g, n + 1, store, Eval(r, store))
  <2>1. r.k \in {"lit", "var"}
    BY DEF IsString
  <2>2. n + 1 \in Nat
    OBVIOUS
  <2>3. g = Instrs(ToA(r, n + 1))
    BY <1>3, <2>1 DEF Works, Plain
  <2> QED
    BY <2>2, <2>3 DEF Works, ToAWorks, Laid
<1> QED
  BY <1>1, <1>2, <1>3, <1>4, StringCompareRule

\* A comparison of two expressions whose code works.
LEMMA CompareWorks ==
    ASSUME NEW store, NEW l, NEW r, Works(l, store), Works(r, store), Comparable(l, r),
           NEW op \in {"==", "!="}, NEW e, e = Compare(op, l, r), Compiled6502(e), Meant(e, store)
    PROVE  Works(e, store)
<1>1. e.k = "cmp" /\ IsCondition(e)
  BY KindsApart
<1>2. PICK u \in {0, 1} : u = Bit(Eval(l, store) = Eval(r, store)) /\ u = SameBit(Eval(l, store), Eval(r, store))
  BY BitValues DEF SameBit
<1>3. /\ op = "==" => Eval(e, store) = u
      /\ op = "!=" => Eval(e, store) = 1 - u
  <2>1. Eval(e, store) = NodeValue(Compare(op, l, r), store)
    BY DEF Meant
  <2>2. /\ NodeValue(Compare("==", l, r), store) = SameBit(Eval(l, store), Eval(r, store))
        /\ NodeValue(Compare("!=", l, r), store) = 1 - SameBit(Eval(l, store), Eval(r, store))
    BY EvalForm
  <2> QED
    BY <1>2, <2>1, <2>2
<1>4. Eval(e, store) \in {0, 1}
  BY <1>2, <1>3
<1>5. Worth(e, store)
  BY <1>1, <1>4, SmallBytes DEF Worth
<1>6. ASSUME NEW n \in Nat
      PROVE  Laid(Predicate(e, n), n) /\ YieldsZ(Instrs(Predicate(e, n)), n, store, Eval(e, store))
  <2>1. PICK x : x = NodeToX(l, n)
    OBVIOUS
  <2>2. PICK y : y = NodeAgainstX(r, Temps(x))
    OBVIOUS
  <2>3. PICK d : d = NodeCompared(Compare(op, l, r), n)
    OBVIOUS
  <2>4. Fragment(Instrs(d)) /\ Temps(d) \in Nat /\ Temps(d) >= n /\ YieldsZ(Instrs(d), n, store, u)
    <3>1. CASE IsString(r)
      <4>1. IsString(l)
        BY <3>1 DEF Comparable
      <4>2. /\ Instrs(d) = Cat(Cat(Cat(Instrs(ToA(l, n)), One("STA", Temp(n))), Instrs(ToA(r, n))), Matched(n))
            /\ Temps(d) = n + 2
        BY <2>3, <3>1, ComparedForm
      <4>3. n + 2 \in Nat /\ n + 2 >= n
        OBVIOUS
      <4>4. PICK f : f = Cat(Cat(Cat(Instrs(ToA(l, n)), One("STA", Temp(n))), Instrs(ToA(r, n))), Matched(n))
        OBVIOUS
      <4>5. Fragment(f) /\ YieldsZ(f, n, store, Bit(Eval(l, store) = Eval(r, store)))
        BY <3>1, <4>1, <4>4, StringComparison
      <4> QED
        BY <1>2, <4>2, <4>3, <4>4, <4>5
    <3>2. CASE ~IsString(r)
      <4>1. ~IsString(l)
        BY <3>2 DEF Comparable
      <4>2. Instrs(d) = Cat(Instrs(x), Instrs(y)) /\ Temps(d) = Temps(y)
        <5>1. LET c == NodeCompared(Compare(op, l, r), n)
                  s == NodeToX(l, n)
                  t == NodeAgainstX(r, Temps(s))
              IN Instrs(c) = Cat(Instrs(s), Instrs(t)) /\ Temps(c) = Temps(t)
          BY <3>2, <4>1, ComparedForm
        <5> QED
          BY <2>1, <2>2, <2>3, <5>1
      <4>3. PICK f : f = Cat(Instrs(x), Instrs(y))
        OBVIOUS
      <4>4. /\ Fragment(f) /\ Temps(y) \in Nat /\ Temps(y) >= n
            /\ YieldsZ(f, n, store, Bit(Eval(l, store) = Eval(r, store)))
        BY <2>1, <2>2, <3>2, <4>3, IntComparison
      <4> QED
        BY <1>2, <4>2, <4>3, <4>4
    <3> QED
      BY <3>1, <3>2
  <2>5. PICK c : c = Predicate(e, n)
    OBVIOUS
  <2>6. /\ Temps(c) = Temps(d)
        /\ op = "==" => Instrs(c) = Cat(Instrs(d), << >>)
        /\ op # "==" => Instrs(c) = Cat(Instrs(d), InvertZ)
    <3>1. c = NodeToZ(Compare(op, l, r), n)
      BY <1>1, <2>5 DEF Compiled6502
    <3>2. LET b == NodeToZ(Compare(op, l, r), n)
              a == NodeCompared(Compare(op, l, r), n)
          IN /\ Temps(b) = Temps(a)
             /\ op = "==" => Instrs(b) = Cat(Instrs(a), << >>)
             /\ op # "==" => Instrs(b) = Cat(Instrs(a), InvertZ)
      BY PredicateForm
    <3> QED
      BY <2>3, <3>1, <3>2
  <2>7. Fragment(Instrs(c)) /\ YieldsZ(Instrs(c), n, store, Eval(e, store))
    <3>1. CASE op = "=="
      BY <1>3, <2>4, <2>6, <3>1, CatEmpty
    <3>2. CASE op = "!="
      <4>1. PICK f : f = Instrs(d) /\ Fragment(f) /\ YieldsZ(f, n, store, u)
        BY <2>4
      <4>2. LET h == Cat(f, InvertZ) IN Fragment(h) /\ YieldsZ(h, n, store, 1 - u)
        BY <4>1, InvertRule
      <4>3. Instrs(c) = Cat(f, InvertZ) /\ Eval(e, store) = 1 - u
        BY <1>3, <2>6, <3>2, <4>1
      <4> QED
        BY <4>2, <4>3
    <3> QED
      BY <3>1, <3>2
  <2> QED
    BY <2>4, <2>5, <2>6, <2>7 DEF Laid
<1>7. PredicateWorks(e, store)
  BY <1>6 DEF PredicateWorks
<1>8. ASSUME NEW n \in Nat
      PROVE  /\ Laid(ToA(e, n), n) /\ YieldsA(Instrs(ToA(e, n)), n, store, Eval(e, store))
             /\ Laid(NodeToY(e, n), n) /\ YieldsY(Instrs(NodeToY(e, n)), n, store, Eval(e, store))
  <2>1. PICK v \in {0, 1} : v = Eval(e, store)
    BY <1>4
  <2>2. PICK f : f = Instrs(Predicate(e, n))
    OBVIOUS
  <2>3. PICK j : j = Temps(Predicate(e, n))
    OBVIOUS
  <2>4. Fragment(f) /\ j \in Nat /\ j >= n /\ YieldsZ(f, n, store, v)
    BY <1>6, <2>1, <2>2, <2>3 DEF Laid
  <2>5. PICK a : a = ToA(e, n)
    OBVIOUS
  <2>6. Instrs(a) = Cat(f, Materialize) /\ Temps(a) = j
    <3>1. a = NodeToA(Compare(op, l, r), n)
      BY <2>5 DEF Compiled6502
    <3>2. LET b == Compare(op, l, r)
              c == NodeToA(b, n)
          IN Instrs(c) = Cat(Instrs(Predicate(b, n)), Materialize) /\ Temps(c) = Temps(Predicate(b, n))
      BY CompareForm
    <3> QED
      BY <2>2, <2>3, <3>1, <3>2
  <2>7. Fragment(Instrs(a)) /\ YieldsA(Instrs(a), n, store, v)
    <3>1. LET h == Cat(f, Materialize) IN Fragment(h) /\ YieldsA(h, n, store, v)
      BY <2>4, MaterializeRule
    <3> QED
      BY <2>6, <3>1
  <2>8. Instrs(NodeToY(e, n)) = Cat(Instrs(a), Spilled(j, "LDY")) /\ Temps(NodeToY(e, n)) = j + 1
    BY <2>5, <2>6, YForm
  <2>9. /\ Fragment(Cat(Instrs(a), Spilled(j, "LDY")))
        /\ YieldsY(Cat(Instrs(a), Spilled(j, "LDY")), n, store, v)
    <3>1. n >= n
      OBVIOUS
    <3> QED
      BY <2>4, <2>7, <3>1, SpillRule
  <2>10. j + 1 \in Nat /\ j + 1 >= n
    BY <2>4
  <2> QED
    BY <2>1, <2>4, <2>5, <2>6, <2>7, <2>8, <2>9, <2>10 DEF Laid
<1> QED
  BY <1>1, <1>5, <1>7, <1>8 DEF Works, Plain, ToAWorks, ToYWorks

\* T is a set of checked expressions, with their parts, that fit in a byte: what
\* TypeChecker lets pass and Emittable asks for.  Rank falls from a node to its
\* parts.
Typed(T, Rank, e) ==
    \/ \E kind \in {"int", "bool", "string"}, v \in Byte :
          e = Lit(kind, v) /\ (kind = "bool" => v \in {0, 1})
    \/ \E name \in Names, scope \in Nat : e = Var(name, scope)
    \/ \E l, r \in T :
          /\ Rank[l] < Rank[e] /\ Rank[r] < Rank[e]
          /\ \/ e = Add(l, r)
             \/ \E op \in {"==", "!="} : e = Compare(op, l, r) /\ Comparable(l, r)
Expressions(T, Rank) ==
    /\ Rank \in [T -> Nat]
    /\ \A e \in T : Typed(T, Rank, e) /\ Compiled6502(e)

Values6502(store) == \A s \in VarSlots : Val(store, s) \in Byte

LEMMA NodeWorks ==
    ASSUME NEW T, NEW Rank, Expressions(T, Rank), IntMod = WordMod,
           NEW store, Values6502(store), NEW e \in T, Meant(e, store),
           \A d \in T : Rank[d] < Rank[e] => Works(d, store)
    PROVE  Works(e, store)
<1>1. Compiled6502(e) /\ Typed(T, Rank, e)
  BY DEF Expressions
<1>2. CASE \E kind \in {"int", "bool", "string"}, v \in Byte :
              e = Lit(kind, v) /\ (kind = "bool" => v \in {0, 1})
  <2>1. PICK kind \in {"int", "bool", "string"}, v \in Byte :
                e = Lit(kind, v) /\ (kind = "bool" => v \in {0, 1})
    BY <1>2
  <2> QED
    BY <1>1, <2>1, LitWorks
<1>3. CASE \E name \in Names, scope \in Nat : e = Var(name, scope)
  BY <1>1, <1>3, VarWorks DEF Values6502
<1>4. CASE \E l, r \in T :
              /\ Rank[l] < Rank[e] /\ Rank[r] < Rank[e]
              /\ \/ e = Add(l, r)
                 \/ \E op \in {"==", "!="} : e = Compare(op, l, r) /\ Comparable(l, r)
  <2>1. PICK l \in T, r \in T :
                /\ Rank[l] < Rank[e] /\ Rank[r] < Rank[e]
                /\ \/ e = Add(l, r)
                   \/ \E op \in {"==", "!="} : e = Compare(op, l, r) /\ Comparable(l, r)
    BY <1>4
  <2>2. Works(l, store) /\ Works(r, store)
    BY <2>1
  <2>3. CASE e = Add(l, r)
    BY <1>1, <2>2, <2>3, AddWorks
  <2>4. CASE \E op \in {"==", "!="} : e = Compare(op, l, r) /\ Comparable(l, r)
    BY <1>1, <2>2, <2>4, CompareWorks
  <2> QED
    BY <2>1, <2>3, <2>4
<1> QED
  BY <1>1, <1>2, <1>3, <1>4 DEF Typed

\* A set with a rank, in which what holds of all smaller members holds of a
\* member, is all of it.
LEMMA EveryMember ==
    ASSUME NEW T, NEW Rank \in [T -> Nat], NEW W,
           \A e \in T : (\A d \in T : Rank[d] < Rank[e] => d \in W) => e \in W
    PROVE  T \subseteq W
<1>1. PICK R : R = {Rank[d] : d \in T \ W}
  OBVIOUS
<1> SUFFICES ASSUME R # {} PROVE FALSE
  BY <1>1
<1>2. R \subseteq Nat
  BY <1>1
<1>3. PICK x \in R : \A y \in R : x <= y
  BY <1>2, LeastNumber
<1>4. PICK e \in T \ W : x = Rank[e]
  BY <1>1, <1>3
<1>5. \A d \in T : Rank[d] < Rank[e] => d \in W
  <2> SUFFICES ASSUME NEW d \in T, Rank[d] < Rank[e], d \notin W PROVE FALSE
    OBVIOUS
  <2>1. Rank[d] \in R /\ Rank[d] \in Nat /\ Rank[e] \in Nat
    BY <1>1
  <2> QED
    BY <1>3, <1>4, <2>1
<1> QED
  BY <1>4, <1>5

LEMMA AllWork ==
    ASSUME NEW T, NEW Rank, Expressions(T, Rank), IntMod = WordMod,
           NEW store, Values6502(store), \A e \in T : Meant(e, store)
    PROVE  \A e \in T : Works(e, store)
<1>1. PICK W : W = {e \in T : Works(e, store)}
  OBVIOUS
<1>2. Rank \in [T -> Nat]
  BY DEF Expressions
<1>3. \A e \in T : (\A d \in T : Rank[d] < Rank[e] => d \in W) => e \in W
  BY <1>1, NodeWorks
<1>4. T \subseteq W
  BY <1>2, <1>3, EveryMember
<1> QED
  BY <1>1, <1>4

\* The expression compiler (emitIntExpr, emitBooleanExprAsPredicateZ) is right:
\* wherever the code of a checked expression lies, and whatever the variables
\* hold, it puts the value of the expression into the accumulator, into Y or,
\* where it is a condition, into Z.  It changes no variable, no constant and no
\* temporary that is in use, and prints nothing.
THEOREM ExpressionCode ==
    ASSUME NEW T, NEW Rank, Expressions(T, Rank), IntMod = WordMod,
           NEW store, Values6502(store), \A e \in T : Meant(e, store)
    PROVE  \A e \in T :
              /\ ToAWorks(e, store) /\ ToYWorks(e, store)
              /\ IsCondition(e) => PredicateWorks(e, store)
  BY AllWork DEF Works

-----------------------------------------------------------------------------
(***************************************************************************)
(* Rules for statements.  A run of the source program is at s: what the    *)
(* variables hold, what was printed, how many turns of loops are left.     *)
(***************************************************************************)
StoreIn(s) == s.store
OutIn(s)   == s.out
FuelIn(s)  == s.fuel

IsRun(s) ==
    /\ s = [store |-> StoreIn(s), out |-> OutIn(s), fuel |-> FuelIn(s)]
    /\ FuelIn(s) \in Nat
    /\ Values6502(StoreIn(s))

\* Wherever f lies, running it in s gets the machine behind f in t.
Mirrors(m, s) == Ready(m, StoreIn(s)) /\ OutOf(m) = OutIn(s)
Runs(f, s, t) ==
    \A k, m : Mirrors(m, s) /\ At(k, PcOf(m), f) =>
        \E r : Goes(k, m, r) /\ PcOf(r) = PcOf(m) + Size(f) /\ Mirrors(r, t)

LEMMA RunParts ==
    ASSUME NEW s, IsRun(s)
    PROVE  /\ \A key, v : LET t == Store(s, key, v)
                          IN /\ StoreIn(t) = Put(StoreIn(s), key, v) /\ OutIn(t) = OutIn(s)
                             /\ FuelIn(t) = FuelIn(s) /\ (v \in Byte => IsRun(t))
           /\ \A v : LET t == Output(s, v)
                     IN /\ StoreIn(t) = StoreIn(s) /\ OutIn(t) = Append(OutIn(s), v)
                        /\ FuelIn(t) = FuelIn(s) /\ IsRun(t)
           /\ FuelIn(s) > 0 =>
                 LET t == Burn(s)
                 IN /\ StoreIn(t) = StoreIn(s) /\ OutIn(t) = OutIn(s)
                    /\ FuelIn(t) = FuelIn(s) - 1 /\ IsRun(t)
           /\ LET t == [s EXCEPT !.fuel = 0]
              IN FuelIn(t) = 0 /\ IsRun(t)
<1>1. PICK a, b, c : a = StoreIn(s) /\ b = OutIn(s) /\ c = FuelIn(s)
  OBVIOUS
<1>2. s = [store |-> a, out |-> b, fuel |-> c] /\ c \in Nat /\ Values6502(a)
  BY <1>1 DEF IsRun
<1>3. \A i, j, n : /\ StoreIn([store |-> i, out |-> j, fuel |-> n]) = i
                   /\ OutIn([store |-> i, out |-> j, fuel |-> n]) = j
                   /\ FuelIn([store |-> i, out |-> j, fuel |-> n]) = n
  BY DEF StoreIn, OutIn, FuelIn
<1>4. \A i, j : \A n \in Nat : Values6502(i) => IsRun([store |-> i, out |-> j, fuel |-> n])
  BY <1>3 DEF IsRun
<1>5. ASSUME NEW key, NEW v
      PROVE  Store(s, key, v) = [store |-> Put(a, key, v), out |-> b, fuel |-> c]
  BY <1>2 DEF Store, Put
<1>6. ASSUME NEW key, NEW v \in Byte PROVE Values6502(Put(a, key, v))
  BY <1>2, ValPut DEF Values6502
<1>7. ASSUME NEW v PROVE Output(s, v) = [store |-> a, out |-> Append(b, v), fuel |-> c]
  <2>1. PICK o : o = Append(b, v)
    OBVIOUS
  <2>2. s.out = b
    BY <1>2
  <2>3. Output(s, v) = [s EXCEPT !.out = o]
    BY <2>1, <2>2 DEF Output
  <2> QED
    BY <1>2, <2>1, <2>3
<1>8. Burn(s) = [store |-> a, out |-> b, fuel |-> c - 1] /\ (c > 0 => c - 1 \in Nat)
  BY <1>2 DEF Burn
<1>9. [s EXCEPT !.fuel = 0] = [store |-> a, out |-> b, fuel |-> 0]
  BY <1>2
<1>10. ASSUME NEW key, NEW v
       PROVE  LET t == Store(s, key, v)
              IN /\ StoreIn(t) = Put(a, key, v) /\ OutIn(t) = b
                 /\ FuelIn(t) = c /\ (v \in Byte => IsRun(t))
  <2>1. PICK g : g = Put(a, key, v)
    OBVIOUS
  <2>2. Store(s, key, v) = [store |-> g, out |-> b, fuel |-> c]
    BY <1>5, <2>1
  <2>3. v \in Byte => Values6502(g)
    BY <1>6, <2>1
  <2> QED
    BY <1>2, <1>3, <1>4, <2>1, <2>2, <2>3
<1>11. ASSUME NEW v
       PROVE  LET t == Output(s, v)
              IN StoreIn(t) = a /\ OutIn(t) = Append(b, v) /\ FuelIn(t) = c /\ IsRun(t)
  <2>1. PICK o : o = Append(b, v)
    OBVIOUS
  <2>2. Output(s, v) = [store |-> a, out |-> o, fuel |-> c]
    BY <1>7, <2>1
  <2> QED
    BY <1>2, <1>3, <1>4, <2>1, <2>2
<1>12. c > 0 => LET t == Burn(s) IN StoreIn(t) = a /\ OutIn(t) = b /\ FuelIn(t) = c - 1 /\ IsRun(t)
  BY <1>2, <1>3, <1>4, <1>8
<1>13. LET t == [s EXCEPT !.fuel = 0] IN FuelIn(t) = 0 /\ IsRun(t)
  BY <1>2, <1>3, <1>4, <1>9
<1> QED
  BY <1>1, <1>10, <1>11, <1>12, <1>13

LEMMA NothingRuns == \A s : Runs(<< >>, s, s)
<1> SUFFICES ASSUME NEW s, NEW k, NEW m, Mirrors(m, s)
             PROVE  \E r : Goes(k, m, r) /\ PcOf(r) = PcOf(m) + Size(<< >>) /\ Mirrors(r, s)
  BY DEF Runs
<1>1. Goes(k, m, m) /\ PcOf(m) = PcOf(m) + Size(<< >>)
  BY Stays, PartsOf, EmptyPiece DEF Goes, Mirrors, Ready
<1> QED
  BY <1>1

LEMMA SequenceRuns ==
    ASSUME NEW f, NEW g, Fragment(f), Fragment(g), NEW s, NEW t, NEW u, Runs(f, s, t), Runs(g, t, u)
    PROVE  Runs(Cat(f, g), s, u)
<1> SUFFICES ASSUME NEW k, NEW m, Mirrors(m, s), At(k, PcOf(m), Cat(f, g))
             PROVE  \E r : Goes(k, m, r) /\ PcOf(r) = PcOf(m) + Size(Cat(f, g)) /\ Mirrors(r, u)
  BY DEF Runs
<1>1. PcOf(m) \in Nat
  BY PartsOf DEF Mirrors, Ready
<1>2. /\ At(k, PcOf(m), f) /\ At(k, PcOf(m) + Size(f), g)
      /\ Size(f) \in Nat /\ Size(g) \in Nat /\ Size(Cat(f, g)) = Size(f) + Size(g)
  BY <1>1, CatParts
<1>3. PICK q : Goes(k, m, q) /\ PcOf(q) = PcOf(m) + Size(f) /\ Mirrors(q, t)
  BY <1>2 DEF Runs
<1>4. PICK r : Goes(k, q, r) /\ PcOf(r) = PcOf(q) + Size(g) /\ Mirrors(r, u)
  BY <1>2, <1>3 DEF Runs
<1> QED
  BY <1>1, <1>2, <1>3, <1>4, GoesOn

\* A change of A, X, Y, the flags or temporaries is none of the program's state.
LEMMA EndMirrors ==
    ASSUME NEW k, NEW f, NEW n, NEW m, NEW r, NEW s, Mirrors(m, s), Ends(k, f, n, m, r)
    PROVE  Mirrors(r, s)
  BY StillReady DEF Mirrors, Ends, Goes

LEMMA AssignRuns ==
    ASSUME NEW s, IsRun(s), NEW n \in Nat, NEW v \in Byte, NEW slot \in VarSlots,
           NEW f, Fragment(f), YieldsA(f, n, StoreIn(s), v)
    PROVE  LET h == Cat(f, One("STA", slot)) IN Fragment(h) /\ Runs(h, s, Store(s, slot, v))
<1>1. PICK g : g = One("STA", slot)
  OBVIOUS
<1>2. Fragment(g) /\ Size(g) = 1 /\ \A k : \A p \in Nat : At(k, p, g) => k[p] = Instr("STA", slot)
  BY <1>1, Piece, SlotOperands, SmallOps
<1>3. PICK h : h = Cat(f, g) /\ Fragment(h)
  BY <1>2, CatSize
<1>4. PICK t : t = Store(s, slot, v)
  OBVIOUS
<1>5. StoreIn(t) = Put(StoreIn(s), slot, v) /\ OutIn(t) = OutIn(s)
  BY <1>4, RunParts
<1> SUFFICES ASSUME NEW k, NEW m, Mirrors(m, s), At(k, PcOf(m), h)
             PROVE  \E r : Goes(k, m, r) /\ PcOf(r) = PcOf(m) + Size(h) /\ Mirrors(r, t)
  BY <1>1, <1>3, <1>4 DEF Runs
<1>6. IsState(m) /\ PcOf(m) \in Nat /\ n >= n
  BY PartsOf DEF Mirrors, Ready
<1>7. PICK q : Ends(k, f, n, m, q) /\ AOf(q) = v /\ IsState(q) /\ PcOf(q) \in Nat /\ At(k, PcOf(q), g)
  BY <1>2, <1>3, <1>6, First DEF Mirrors
<1>8. Mirrors(q, s) /\ Goes(k, m, q) /\ PcOf(q) = PcOf(m) + Size(f)
  BY <1>7, EndMirrors DEF Ends
<1>9. k[q.pc].op = "STA" /\ k[q.pc].arg = slot /\ q.a = v
  BY <1>2, <1>7 DEF Instr, PcOf, AOf
<1>10. Goes(k, q, St(q.pc + 1, q.a, q.x, q.y, q.z, q.c, Put(q.mem, slot, v), q.out))
  BY <1>7, <1>9, DoStore
<1>11. PICK r : /\ Goes(k, q, r) /\ PcOf(r) = q.pc + 1 /\ OutOf(r) = q.out
                /\ \A i : Holds(r, i) = Val(Put(q.mem, slot, v), i)
  BY <1>10, Reached
<1>12. \A i : Holds(r, i) = IF i = slot THEN v ELSE Holds(q, i)
  BY <1>11, ValPut DEF Holds
<1>13. ZeroSlot # slot /\ OneSlot # slot
  BY ReservedNames DEF VarSlots, ZeroSlot, OneSlot
<1>14. \A i \in VarSlots : Holds(r, i) = Val(StoreIn(t), i)
  BY <1>5, <1>8, <1>12, ValPut DEF Mirrors, Ready
<1>15. Mirrors(r, t)
  BY <1>5, <1>8, <1>11, <1>12, <1>13, <1>14 DEF Mirrors, Ready, Goes, OutOf
<1>16. Goes(k, m, r) /\ Size(f) \in Nat /\ Size(h) = Size(f) + 1
  BY <1>2, <1>3, <1>8, <1>11, GoesOn, CatParts
<1>17. PcOf(r) = PcOf(m) + Size(h)
  BY <1>6, <1>8, <1>11, <1>16 DEF PcOf
<1> QED
  BY <1>15, <1>16, <1>17

\* The service in X, and the call that prints Y.
Called(i) == Two("LDXI", i, "SYS", 0)

LEMMA PrintRuns ==
    ASSUME NEW s, IsRun(s), NEW n \in Nat, NEW v \in Byte, NEW i \in {1, 2},
           NEW f, Fragment(f), YieldsY(f, n, StoreIn(s), v)
    PROVE  LET h == Cat(f, Called(i)) IN Fragment(h) /\ Runs(h, s, Output(s, v))
<1>1. PICK g : g = Called(i)
  OBVIOUS
<1>2. /\ Fragment(g) /\ Size(g) = 2
      /\ \A k : \A p \in Nat : At(k, p, g) => k[p] = Instr("LDXI", i) /\ k[p + 1] = Instr("SYS", 0)
  <2>1. i \in Operands /\ 0 \in Operands /\ "LDXI" \in Ops /\ "SYS" \in Ops
    BY SmallInts, SmallOps
  <2> QED
    BY <1>1, <2>1, PieceTwo DEF Called
<1>3. PICK h : h = Cat(f, g) /\ Fragment(h)
  BY <1>2, CatSize
<1>4. PICK t : t = Output(s, v)
  OBVIOUS
<1>5. StoreIn(t) = StoreIn(s) /\ OutIn(t) = Append(OutIn(s), v)
  BY <1>4, RunParts
<1> SUFFICES ASSUME NEW k, NEW m, Mirrors(m, s), At(k, PcOf(m), h)
             PROVE  \E r : Goes(k, m, r) /\ PcOf(r) = PcOf(m) + Size(h) /\ Mirrors(r, t)
  BY <1>1, <1>3, <1>4 DEF Runs
<1>6. IsState(m) /\ PcOf(m) \in Nat
  BY PartsOf DEF Mirrors, Ready
<1>7. At(k, PcOf(m), f) /\ At(k, PcOf(m) + Size(f), g) /\ Size(f) \in Nat /\ Size(h) = Size(f) + 2
  BY <1>2, <1>3, <1>6, CatParts
<1>8. PICK q : Ends(k, f, n, m, q) /\ YOf(q) = v
  BY <1>7 DEF YieldsY, Mirrors
<1>9. Mirrors(q, s) /\ Goes(k, m, q) /\ PcOf(q) = PcOf(m) + Size(f) /\ IsState(q)
  BY <1>8, EndMirrors DEF Ends, Goes
<1>10. PcOf(q) \in Nat /\ k[PcOf(q)] = Instr("LDXI", i) /\ k[PcOf(q) + 1] = Instr("SYS", 0)
  BY <1>2, <1>7, <1>9, PartsOf
<1>11. PICK c : Quiet(k, q, c) /\ PcOf(c) = PcOf(q) + 1 /\ YOf(c) = v
  <2>1. i \in Byte
    BY SmallBytes
  <2> QED
    BY <1>8, <1>9, <1>10, <2>1, Loading DEF Immediate, Quiet
<1>12. IsState(c) /\ k[PcOf(c)] = Instr("SYS", 0)
  BY <1>10, <1>11, QuietState
<1>13. PICK r : /\ Goes(k, c, r) /\ PcOf(r) = PcOf(c) + 1 /\ SameSlots(c, r)
                /\ OutOf(r) = Append(OutOf(c), v)
  BY <1>11, <1>12, Printing
<1>14. OutOf(r) = OutIn(t)
  BY <1>5, <1>9, <1>11, <1>13 DEF Quiet, Mirrors
<1>15. Mirrors(r, t)
  BY <1>5, <1>9, <1>11, <1>13, <1>14 DEF Mirrors, Ready, Quiet, SameSlots, Goes
<1>16. Goes(k, m, r)
  BY <1>9, <1>11, <1>13, GoesOn DEF Quiet
<1>17. PcOf(r) = PcOf(m) + Size(h)
  BY <1>6, <1>7, <1>9, <1>11, <1>13
<1> QED
  BY <1>15, <1>16, <1>17

\* A condition and the branch that is taken where it does not hold.
LEMMA ConditionRuns ==
    ASSUME NEW s, NEW n \in Nat, NEW v \in {0, 1}, NEW d \in Nat,
           NEW p, Fragment(p), YieldsZ(p, n, StoreIn(s), v)
    PROVE  LET h == Cat(p, One("BNE", d))
           IN /\ Fragment(h) /\ Size(h) = Size(p) + 1
              /\ \A k, m : Mirrors(m, s) /\ At(k, PcOf(m), h) =>
                    \E r : /\ Goes(k, m, r) /\ Mirrors(r, s)
                           /\ PcOf(r) = PcOf(m) + Size(h) + (IF v = 1 THEN 0 ELSE d)
<1>1. PICK g : g = One("BNE", d)
  OBVIOUS
<1>2. Fragment(g) /\ Size(g) = 1 /\ \A k : \A i \in Nat : At(k, i, g) => k[i] = Instr("BNE", d)
  <2>1. d \in Operands /\ "BNE" \in Ops
    BY SmallOps DEF Operands
  <2> QED
    BY <1>1, <2>1, Piece
<1>3. PICK h : h = Cat(p, g) /\ Fragment(h)
  BY <1>2, CatSize
<1>4. Size(p) \in Nat /\ Size(h) = Size(p) + 1
  BY <1>2, <1>3, CatParts
<1>5. ASSUME NEW k, NEW m, Mirrors(m, s), At(k, PcOf(m), h)
      PROVE  \E r : /\ Goes(k, m, r) /\ Mirrors(r, s)
                    /\ PcOf(r) = PcOf(m) + Size(h) + (IF v = 1 THEN 0 ELSE d)
  <2>1. Ready(m, StoreIn(s)) /\ IsState(m) /\ PcOf(m) \in Nat
    BY <1>5, PartsOf DEF Mirrors, Ready
  <2>2. PICK q : Ends(k, p, n, m, q) /\ ZOf(q) = v /\ IsState(q) /\ PcOf(q) \in Nat /\ At(k, PcOf(q), g)
    BY <1>2, <1>3, <1>5, <2>1, FirstZ
  <2>3. Mirrors(q, s) /\ Goes(k, m, q) /\ PcOf(q) = PcOf(m) + Size(p)
    BY <1>5, <2>2, EndMirrors DEF Ends
  <2>4. k[PcOf(q)] = Instr("BNE", d) /\ PcOf(q) + 1 + d \in Nat
    BY <1>2, <2>2
  <2>5. PICK r : /\ Goes(k, q, r) /\ SameSlots(q, r) /\ OutOf(r) = OutOf(q)
                 /\ PcOf(r) = IF ZOf(q) = 1 THEN PcOf(q) + 1 ELSE PcOf(q) + 1 + d
    BY <2>2, <2>4, Branching
  <2>6. Mirrors(r, s)
    BY <2>3, <2>5 DEF Mirrors, Ready, SameSlots, Goes
  <2>7. PcOf(r) = PcOf(m) + Size(h) + (IF v = 1 THEN 0 ELSE d)
    BY <1>4, <2>1, <2>2, <2>3, <2>5
  <2> QED
    BY <2>3, <2>5, <2>6, <2>7, GoesOn
<1> QED
  BY <1>1, <1>3, <1>4, <1>5

LEMMA IfRuns ==
    ASSUME NEW s, NEW t, NEW n \in Nat, NEW v \in {0, 1},
           NEW p, Fragment(p), YieldsZ(p, n, StoreIn(s), v),
           NEW b, Fragment(b), v = 1 => Runs(b, s, t), v = 0 => t = s
    PROVE  LET h == Cat(Cat(p, One("BNE", Size(b))), b) IN Fragment(h) /\ Runs(h, s, t)
<1>1. PICK d \in Nat : d = Size(b)
  BY CatParts
<1>2. PICK g : g = Cat(p, One("BNE", d))
  OBVIOUS
<1>3. /\ Fragment(g)
      /\ \A k, m : Mirrors(m, s) /\ At(k, PcOf(m), g) =>
            \E r : /\ Goes(k, m, r) /\ Mirrors(r, s)
                   /\ PcOf(r) = PcOf(m) + Size(g) + (IF v = 1 THEN 0 ELSE d)
  BY <1>2, ConditionRuns
<1>4. PICK h : h = Cat(g, b) /\ Fragment(h)
  BY <1>3, CatSize
<1> SUFFICES ASSUME NEW k, NEW m, Mirrors(m, s), At(k, PcOf(m), h)
             PROVE  \E r : Goes(k, m, r) /\ PcOf(r) = PcOf(m) + Size(h) /\ Mirrors(r, t)
  BY <1>1, <1>2, <1>4 DEF Runs
<1>5. PcOf(m) \in Nat
  BY PartsOf DEF Mirrors, Ready
<1>6. /\ At(k, PcOf(m), g) /\ At(k, PcOf(m) + Size(g), b)
      /\ Size(g) \in Nat /\ Size(h) = Size(g) + d
  BY <1>1, <1>3, <1>4, <1>5, CatParts
<1>7. PICK q : /\ Goes(k, m, q) /\ Mirrors(q, s)
               /\ PcOf(q) = PcOf(m) + Size(g) + (IF v = 1 THEN 0 ELSE d)
  BY <1>3, <1>6
<1>8. CASE v = 1
  <2>1. PcOf(q) = PcOf(m) + Size(g)
    BY <1>5, <1>6, <1>7, <1>8
  <2>2. PICK r : Goes(k, q, r) /\ PcOf(r) = PcOf(q) + d /\ Mirrors(r, t)
    BY <1>1, <1>6, <1>7, <1>8, <2>1 DEF Runs
  <2>3. PcOf(r) = PcOf(m) + Size(h)
    BY <1>5, <1>6, <2>1, <2>2
  <2> QED
    BY <1>7, <2>2, <2>3, GoesOn
<1>9. CASE v = 0
  BY <1>5, <1>6, <1>7, <1>9
<1> QED
  BY <1>8, <1>9

\* The code of a loop, u being that of one turn; and coming back to its start.
LoopCode(p, u) ==
    Cat(Cat(Cat(p, One("BNE", Size(u) + 1)), u), One("BNE", -(Size(p) + Size(u) + 2)))
Returns(h, s, t) ==
    \A k, m : Mirrors(m, s) /\ At(k, PcOf(m), h) =>
        \E r : Goes(k, m, r) /\ PcOf(r) = PcOf(m) /\ Mirrors(r, t)

LEMMA LoopParts ==
    ASSUME NEW p, NEW u, Fragment(p), Fragment(u)
    PROVE  LET h == LoopCode(p, u)
               g == Cat(p, One("BNE", Size(u) + 1))
           IN /\ Fragment(h) /\ Size(p) \in Nat /\ Size(u) \in Nat
              /\ Size(g) = Size(p) + 1 /\ Size(h) = Size(p) + Size(u) + 2
              /\ \A k : \A i \in Nat : At(k, i, h) =>
                    /\ At(k, i, g) /\ At(k, i + Size(g), u)
                    /\ k[i + Size(g) + Size(u)] = Instr("BNE", -(Size(p) + Size(u) + 2))
<1>1. PICK a \in Nat : a = Size(p)
  BY CatParts
<1>2. PICK c \in Nat : c = Size(u)
  BY CatParts
<1>3. PICK d \in Int : d = -(a + c + 2)
  OBVIOUS
<1>4. PICK go : go = One("BNE", c + 1)
  OBVIOUS
<1>5. PICK back : back = One("BNE", d)
  OBVIOUS
<1>6. c + 1 \in Operands /\ d \in Operands /\ "BNE" \in Ops
  BY SmallOps DEF Operands
<1>7. /\ Fragment(go) /\ Size(go) = 1 /\ Fragment(back) /\ Size(back) = 1
      /\ \A k : \A i \in Nat : At(k, i, back) => k[i] = Instr("BNE", d)
  BY <1>4, <1>5, <1>6, Piece
<1>8. PICK g : g = Cat(p, go) /\ Fragment(g) /\ Size(g) = a + 1
  BY <1>1, <1>7, CatSize
<1>9. PICK gu : gu = Cat(g, u) /\ Fragment(gu) /\ Size(gu) = Size(g) + c
  BY <1>2, <1>8, CatSize
<1>10. PICK h : h = Cat(gu, back) /\ Fragment(h) /\ Size(h) = Size(gu) + 1
  BY <1>7, <1>9, CatSize
<1>11. h = LoopCode(p, u)
  BY <1>1, <1>2, <1>3, <1>4, <1>5, <1>8, <1>9, <1>10 DEF LoopCode
<1>12. Size(h) = a + c + 2
  BY <1>8, <1>9, <1>10
<1>13. ASSUME NEW k, NEW i \in Nat, At(k, i, h)
       PROVE  /\ At(k, i, g) /\ At(k, i + Size(g), u)
              /\ k[i + Size(g) + c] = Instr("BNE", d)
  <2>1. At(k, i, gu) /\ At(k, i + Size(gu), back)
    BY <1>7, <1>9, <1>10, <1>13, CatParts
  <2>2. At(k, i, g) /\ At(k, i + Size(g), u)
    BY <1>8, <1>9, <2>1, CatParts
  <2>3. i + Size(gu) \in Nat /\ i + Size(gu) = i + Size(g) + c
    BY <1>8, <1>9
  <2> QED
    BY <1>7, <2>1, <2>2, <2>3
<1> QED
  BY <1>1, <1>2, <1>3, <1>4, <1>8, <1>10, <1>11, <1>12, <1>13

LEMMA LoopEnds ==
    ASSUME NEW s, NEW n \in Nat, NEW p, Fragment(p), YieldsZ(p, n, StoreIn(s), 0), NEW u, Fragment(u)
    PROVE  Runs(LoopCode(p, u), s, s)
<1>1. PICK h : h = LoopCode(p, u)
  OBVIOUS
<1>2. PICK d \in Nat : d = Size(u) + 1
  BY CatParts
<1>3. PICK g : g = Cat(p, One("BNE", d))
  OBVIOUS
<1>4. /\ Size(p) \in Nat /\ Size(u) \in Nat /\ Size(g) = Size(p) + 1 /\ Size(h) = Size(p) + Size(u) + 2
      /\ \A k : \A i \in Nat : At(k, i, h) => At(k, i, g)
  BY <1>1, <1>2, <1>3, LoopParts
<1>5. \A k, m : Mirrors(m, s) /\ At(k, PcOf(m), g) =>
         \E r : Goes(k, m, r) /\ Mirrors(r, s) /\ PcOf(r) = PcOf(m) + Size(g) + d
  BY <1>3, ConditionRuns
<1> SUFFICES ASSUME NEW k, NEW m, Mirrors(m, s), At(k, PcOf(m), h)
             PROVE  \E r : Goes(k, m, r) /\ PcOf(r) = PcOf(m) + Size(h) /\ Mirrors(r, s)
  BY <1>1 DEF Runs
<1>6. PcOf(m) \in Nat
  BY PartsOf DEF Mirrors, Ready
<1>7. PICK r : Goes(k, m, r) /\ Mirrors(r, s) /\ PcOf(r) = PcOf(m) + Size(g) + d
  BY <1>4, <1>5, <1>6
<1>8. PcOf(r) = PcOf(m) + Size(h)
  BY <1>2, <1>4, <1>6, <1>7
<1> QED
  BY <1>7, <1>8

LEMMA LoopTurns ==
    ASSUME NEW s, NEW t, NEW n \in Nat, NEW p, Fragment(p), YieldsZ(p, n, StoreIn(s), 1),
           NEW b, Fragment(b), Runs(b, s, t)
    PROVE  Returns(LoopCode(p, Cat(b, ForcedZ(1))), s, t)
<1>1. PICK z : z = ForcedZ(1)
  OBVIOUS
<1>2. /\ Fragment(z) /\ Size(z) = 2
      /\ \A k : \A i \in Nat : At(k, i, z) => k[i] = Instr("LDXI", 1) /\ k[i + 1] = Instr("CPX", ZeroSlot)
  BY <1>1, ForcedZPiece
<1>3. PICK u : u = Cat(b, z) /\ Fragment(u)
  BY <1>2, CatSize
<1>4. PICK h : h = LoopCode(p, u)
  OBVIOUS
<1>5. PICK d \in Nat : d = Size(u) + 1
  BY <1>3, CatParts
<1>6. PICK g : g = Cat(p, One("BNE", d))
  OBVIOUS
<1>7. /\ Size(p) \in Nat /\ Size(u) \in Nat /\ Size(g) = Size(p) + 1
      /\ \A k : \A i \in Nat : At(k, i, h) =>
            /\ At(k, i, g) /\ At(k, i + Size(g), u)
            /\ k[i + Size(g) + Size(u)] = Instr("BNE", -(Size(p) + Size(u) + 2))
  BY <1>3, <1>4, <1>5, <1>6, LoopParts
<1>8. \A k, m : Mirrors(m, s) /\ At(k, PcOf(m), g) =>
         \E r : Goes(k, m, r) /\ Mirrors(r, s) /\ PcOf(r) = PcOf(m) + Size(g) + 0
  BY <1>6, ConditionRuns
<1> SUFFICES ASSUME NEW k, NEW m, Mirrors(m, s), At(k, PcOf(m), h)
             PROVE  \E r : Goes(k, m, r) /\ PcOf(r) = PcOf(m) /\ Mirrors(r, t)
  BY <1>1, <1>3, <1>4 DEF Returns
<1>9. PcOf(m) \in Nat
  BY PartsOf DEF Mirrors, Ready
<1>10. PICK i \in Nat : i = PcOf(m) + Size(g)
  BY <1>7, <1>9
<1>11. PICK q : Goes(k, m, q) /\ Mirrors(q, s) /\ PcOf(q) = i
  <2>1. PICK q : Goes(k, m, q) /\ Mirrors(q, s) /\ PcOf(q) = PcOf(m) + Size(g) + 0
    BY <1>7, <1>8, <1>9
  <2> QED
    BY <1>7, <1>9, <1>10, <2>1
<1>12. At(k, i, b) /\ At(k, i + Size(b), z) /\ Size(b) \in Nat /\ Size(u) = Size(b) + 2
  BY <1>2, <1>3, <1>7, <1>9, <1>10, CatParts
<1>13. PICK c : Goes(k, q, c) /\ PcOf(c) = i + Size(b) /\ Mirrors(c, t)
  BY <1>11, <1>12 DEF Runs
<1>14. /\ IsState(c) /\ Holds(c, ZeroSlot) = 0 /\ PcOf(c) \in Nat
       /\ k[PcOf(c)] = Instr("LDXI", 1) /\ k[PcOf(c) + 1] = Instr("CPX", ZeroSlot)
  BY <1>2, <1>12, <1>13, PartsOf DEF Mirrors, Ready
<1>15. PICK e : Quiet(k, c, e) /\ PcOf(e) = PcOf(c) + 2 /\ ZOf(e) = 0
  BY <1>14, Forcing
<1>16. PICK back \in Int : back = -(Size(p) + Size(u) + 2)
  BY <1>7
<1>17. PcOf(e) = i + Size(u) /\ PcOf(e) + 1 + back = PcOf(m)
  BY <1>7, <1>9, <1>10, <1>12, <1>13, <1>15, <1>16
<1>18. IsState(e) /\ k[PcOf(e)] = Instr("BNE", back)
  BY <1>7, <1>9, <1>10, <1>15, <1>16, <1>17, QuietState
<1>19. PICK r : Quiet(k, e, r) /\ PcOf(r) = PcOf(m)
  <2>1. PICK r : /\ Quiet(k, e, r)
                 /\ PcOf(r) = IF ZOf(e) = 1 THEN PcOf(e) + 1 ELSE PcOf(e) + 1 + back
    BY <1>9, <1>17, <1>18, Branching DEF Quiet
  <2> QED
    BY <1>15, <1>17, <2>1
<1>20. Quiet(k, c, r)
  BY <1>15, <1>19, QuietOn
<1>21. Goes(k, m, r) /\ Mirrors(r, t)
  BY <1>11, <1>13, <1>20, GoesOn DEF Quiet, SameSlots, Mirrors, Ready, Goes
<1> QED
  BY <1>19, <1>21

LEMMA ReturnsOn ==
    /\ \A h, s : Returns(h, s, s)
    /\ \A h, s, t, u : Returns(h, s, t) /\ Returns(h, t, u) => Returns(h, s, u)
    /\ \A h, s, t, u : Returns(h, s, t) /\ Runs(h, t, u) => Runs(h, s, u)
<1>1. ASSUME NEW h, NEW s PROVE Returns(h, s, s)
  BY Stays DEF Returns, Mirrors, Ready, Goes
<1>2. ASSUME NEW h, NEW s, NEW t, NEW u, Returns(h, s, t), Returns(h, t, u) PROVE Returns(h, s, u)
  <2> SUFFICES ASSUME NEW k, NEW m, Mirrors(m, s), At(k, PcOf(m), h)
               PROVE  \E r : Goes(k, m, r) /\ PcOf(r) = PcOf(m) /\ Mirrors(r, u)
    BY DEF Returns
  <2>1. PICK q : Goes(k, m, q) /\ PcOf(q) = PcOf(m) /\ Mirrors(q, t)
    BY <1>2 DEF Returns
  <2>2. PICK r : Goes(k, q, r) /\ PcOf(r) = PcOf(q) /\ Mirrors(r, u)
    BY <1>2, <2>1 DEF Returns
  <2> QED
    BY <2>1, <2>2, GoesOn
<1>3. ASSUME NEW h, NEW s, NEW t, NEW u, Returns(h, s, t), Runs(h, t, u) PROVE Runs(h, s, u)
  <2> SUFFICES ASSUME NEW k, NEW m, Mirrors(m, s), At(k, PcOf(m), h)
               PROVE  \E r : Goes(k, m, r) /\ PcOf(r) = PcOf(m) + Size(h) /\ Mirrors(r, u)
    BY DEF Runs
  <2>1. PICK q : Goes(k, m, q) /\ PcOf(q) = PcOf(m) /\ Mirrors(q, t)
    BY <1>3 DEF Returns
  <2>2. PICK r : Goes(k, q, r) /\ PcOf(r) = PcOf(q) + Size(h) /\ Mirrors(r, u)
    BY <1>3, <2>1 DEF Runs
  <2> QED
    BY <2>1, <2>2, GoesOn
<1> QED
  BY <1>1, <1>2, <1>3

-----------------------------------------------------------------------------
(***************************************************************************)
(* The code of a statement, by its form, and what the statement does.      *)
(***************************************************************************)
NodeStatement(st, n) == StatementOf(ToA, Predicate, Lowered, st, n)
NodeBlock(q, n)      == BlockOf(ToA, Predicate, Lowered, q, n)
NodeExec(st, s)      == ExecStmtOf(Eval, ExecBlock, Loop, st, s)
NodeRun(q, s)        == ExecBlockOf(ExecStmt, ExecBlock, q, s)
NodeLoop(w, s, k)    == LoopOf(Eval, ExecBlock, Loop, w, s, k)
NodeSettled(w, s)    == Settled(Eval(w.cond, s.store), s)

LEMMA StatementKinds ==
    /\ \A name, scope : Decl(name, scope).k = "decl"
    /\ \A name, scope, e : LET st == Assign(name, scope, e)
                           IN st.k = "assign" /\ st.name = name /\ st.scope = scope /\ st.e = e
    /\ \A e : LET st == PrintOf(e) IN st.k = "print" /\ st.e = e
    /\ \A b : LET st == Block(b) IN st.k = "block" /\ st.body = b
    /\ \A c, b : LET st == If(c, b) IN st.k = "if" /\ st.cond = c /\ st.body = b
    /\ \A c, b : LET st == While(c, b) IN st.k = "while" /\ st.cond = c /\ st.body = b
  BY DEF Decl, Assign, PrintOf, Block, If, While

LEMMA SimpleForm ==
    ASSUME NEW n
    PROVE  /\ \A name, scope : LET c == NodeStatement(Decl(name, scope), n)
                               IN Instrs(c) = << >> /\ Temps(c) = n
           /\ \A name, scope, e :
                 LET c == NodeStatement(Assign(name, scope, e), n)
                     a == ToA(e, n)
                 IN Instrs(c) = Cat(Instrs(a), One("STA", << name, scope >>)) /\ Temps(c) = Temps(a)
           /\ \A e : LET c == NodeStatement(PrintOf(e), n)
                         a == NodeToY(e, n)
                     IN /\ Instrs(c) = Cat(Instrs(a), Called(IF IsString(e) THEN 2 ELSE 1))
                        /\ Temps(c) = Temps(a)
           /\ \A b : NodeStatement(Block(b), n) = Lowered(b, n)
<1>1. ASSUME NEW name, NEW scope
      PROVE  LET c == NodeStatement(Decl(name, scope), n) IN Instrs(c) = << >> /\ Temps(c) = n
  <2>1. PICK st : st = Decl(name, scope)
    OBVIOUS
  <2>2. st.k = "decl"
    BY <2>1, StatementKinds
  <2>3. NodeStatement(st, n) = Code(<< >>, n)
    BY <2>2 DEF NodeStatement, StatementOf
  <2> QED
    BY <2>1, <2>3, CodeOf
<1>2. ASSUME NEW name, NEW scope, NEW e
      PROVE  LET c == NodeStatement(Assign(name, scope, e), n)
                 a == ToA(e, n)
             IN Instrs(c) = Cat(Instrs(a), One("STA", << name, scope >>)) /\ Temps(c) = Temps(a)
  <2>1. PICK st : st = Assign(name, scope, e)
    OBVIOUS
  <2>2. st.k = "assign" /\ st.e = e /\ Slot(st) = << name, scope >>
    BY <2>1, StatementKinds DEF Slot
  <2>3. NodeStatement(st, n) = AssignCode(ToA(e, n), st)
    BY <2>2 DEF NodeStatement, StatementOf
  <2>4. AssignCode(ToA(e, n), st) = Then(ToA(e, n), One("STA", << name, scope >>))
    BY <2>2 DEF AssignCode, One
  <2> QED
    BY <2>1, <2>3, <2>4, CodeOf
<1>3. ASSUME NEW e
      PROVE  LET c == NodeStatement(PrintOf(e), n)
                 a == NodeToY(e, n)
             IN /\ Instrs(c) = Cat(Instrs(a), Called(IF IsString(e) THEN 2 ELSE 1))
                /\ Temps(c) = Temps(a)
  <2>1. PICK st : st = PrintOf(e)
    OBVIOUS
  <2>2. st.k = "print" /\ st.e = e
    BY <2>1, StatementKinds
  <2>3. NodeStatement(st, n) = PrintCode(NodeToY(e, n), e)
    BY <2>2 DEF NodeStatement, StatementOf, NodeToY
  <2>4. PrintCode(NodeToY(e, n), e) = Then(NodeToY(e, n), Called(IF IsString(e) THEN 2 ELSE 1))
    BY DEF PrintCode, Called, Two
  <2> QED
    BY <2>1, <2>3, <2>4, CodeOf
<1>4. ASSUME NEW b PROVE NodeStatement(Block(b), n) = Lowered(b, n)
  <2>1. PICK st : st = Block(b)
    OBVIOUS
  <2>2. st.k = "block" /\ st.body = b
    BY <2>1, StatementKinds
  <2> QED
    BY <2>1, <2>2 DEF NodeStatement, StatementOf
<1> QED
  BY <1>1, <1>2, <1>3, <1>4

LEMMA BranchForm ==
    ASSUME NEW c, NEW b, NEW n
    PROVE  LET p == Predicate(c, n)
               l == Lowered(b, Temps(p))
               f == NodeStatement(If(c, b), n)
               w == NodeStatement(While(c, b), n)
           IN /\ Instrs(f) = Cat(Cat(Instrs(p), One("BNE", Size(Instrs(l)))), Instrs(l))
              /\ Temps(f) = Temps(l)
              /\ Instrs(w) = LoopCode(Instrs(p), Cat(Instrs(l), ForcedZ(1)))
              /\ Temps(w) = Temps(l)
<1>1. PICK p : p = Predicate(c, n)
  OBVIOUS
<1>2. PICK l : l = Lowered(b, Temps(p))
  OBVIOUS
<1>3. NodeStatement(If(c, b), n) = IfCode(p, l)
  <2>1. PICK st : st = If(c, b)
    OBVIOUS
  <2>2. st.k = "if" /\ st.cond = c /\ st.body = b
    BY <2>1, StatementKinds
  <2> QED
    BY <1>1, <1>2, <2>1, <2>2 DEF NodeStatement, StatementOf, Temps
<1>4. NodeStatement(While(c, b), n) = WhileCode(p, l)
  <2>1. PICK st : st = While(c, b)
    OBVIOUS
  <2>2. st.k = "while" /\ st.cond = c /\ st.body = b
    BY <2>1, StatementKinds
  <2> QED
    BY <1>1, <1>2, <2>1, <2>2 DEF NodeStatement, StatementOf, Temps
<1>5. \A a, d : Guarded(p, a, d) = Code(Cat(Cat(Instrs(p), One("BNE", d)), Instrs(a)), Temps(a))
  BY DEF Guarded, Cat, One, Instrs, Temps
<1>6. IfCode(p, l) = Code(Cat(Cat(Instrs(p), One("BNE", Size(Instrs(l)))), Instrs(l)), Temps(l))
  BY <1>5 DEF IfCode, Size, Instrs
<1>7. PICK u : u = Then(l, ForceZClear)
  OBVIOUS
<1>8. Instrs(u) = Cat(Instrs(l), ForcedZ(1)) /\ Temps(u) = Temps(l)
  <2>1. ForceZClear = ForcedZ(1)
    BY DEF ForceZClear, ForcedZ, Two
  <2> QED
    BY <1>7, <2>1, CodeOf
<1>9. Looped(p, u) = Then(Guarded(p, u, Size(Instrs(u)) + 1),
                          One("BNE", -(Size(Instrs(p)) + Size(Instrs(u)) + 2)))
  BY DEF Looped, Size, Instrs, One
<1>10. Instrs(Looped(p, u)) = LoopCode(Instrs(p), Instrs(u)) /\ Temps(Looped(p, u)) = Temps(u)
  BY <1>5, <1>9, CodeOf DEF LoopCode
<1>11. WhileCode(p, l) = Looped(p, u)
  BY <1>7 DEF WhileCode
<1> QED
  BY <1>1, <1>2, <1>3, <1>4, <1>6, <1>8, <1>10, <1>11, CodeOf

LEMMA SequenceForm ==
    ASSUME NEW n
    PROVE  /\ LET c == NodeBlock(<< >>, n) IN Instrs(c) = << >> /\ Temps(c) = n
           /\ \A q : q # << >> =>
                 LET c == NodeBlock(q, n)
                     a == NodeStatement(Head(q), n)
                     b == Lowered(Tail(q), Temps(a))
                 IN Instrs(c) = Cat(Instrs(a), Instrs(b)) /\ Temps(c) = Temps(b)
<1>1. NodeBlock(<< >>, n) = Code(<< >>, n)
  BY DEF NodeBlock, BlockOf
<1>2. ASSUME NEW q, q # << >>
      PROVE  NodeBlock(q, n) =
                Join(NodeStatement(Head(q), n), Lowered(Tail(q), Temps(NodeStatement(Head(q), n))))
  BY <1>2 DEF NodeBlock, NodeStatement, BlockOf, Temps
<1> QED
  BY <1>1, <1>2, CodeOf

LEMMA ExecForm ==
    ASSUME NEW s, FuelIn(s) # 0
    PROVE  /\ DeclResets = FALSE => \A name, scope : NodeExec(Decl(name, scope), s) = s
           /\ \A name, scope, e :
                 NodeExec(Assign(name, scope, e), s) = Store(s, << name, scope >>, Eval(e, StoreIn(s)))
           /\ \A e : NodeExec(PrintOf(e), s) = Output(s, Eval(e, StoreIn(s)))
           /\ \A b : NodeExec(Block(b), s) = ExecBlock(b, s)
           /\ \A c, b : NodeExec(If(c, b), s) = IF Eval(c, StoreIn(s)) = 1 THEN ExecBlock(b, s) ELSE s
           /\ \A c, b : NodeExec(While(c, b), s) = NodeSettled(While(c, b), Loop(While(c, b), s, LoopDepth))
<1>1. s.fuel # 0 /\ StoreIn(s) = s.store
  BY DEF FuelIn, StoreIn
<1>2. ASSUME DeclResets = FALSE, NEW name, NEW scope PROVE NodeExec(Decl(name, scope), s) = s
  <2>1. PICK st : st = Decl(name, scope)
    OBVIOUS
  <2>2. st.k = "decl"
    BY <2>1, StatementKinds
  <2> QED
    BY <1>1, <1>2, <2>1, <2>2 DEF NodeExec, ExecStmtOf
<1>3. ASSUME NEW name, NEW scope, NEW e
      PROVE  NodeExec(Assign(name, scope, e), s) = Store(s, << name, scope >>, Eval(e, StoreIn(s)))
  <2>1. PICK st : st = Assign(name, scope, e)
    OBVIOUS
  <2>2. st.k = "assign" /\ st.e = e /\ st.name = name /\ st.scope = scope
    BY <2>1, StatementKinds
  <2> QED
    BY <1>1, <2>1, <2>2 DEF NodeExec, ExecStmtOf
<1>4. ASSUME NEW e PROVE NodeExec(PrintOf(e), s) = Output(s, Eval(e, StoreIn(s)))
  <2>1. PICK st : st = PrintOf(e)
    OBVIOUS
  <2>2. st.k = "print" /\ st.e = e
    BY <2>1, StatementKinds
  <2> QED
    BY <1>1, <2>1, <2>2 DEF NodeExec, ExecStmtOf
<1>5. ASSUME NEW b PROVE NodeExec(Block(b), s) = ExecBlock(b, s)
  <2>1. PICK st : st = Block(b)
    OBVIOUS
  <2>2. st.k = "block" /\ st.body = b
    BY <2>1, StatementKinds
  <2> QED
    BY <1>1, <2>1, <2>2 DEF NodeExec, ExecStmtOf
<1>6. ASSUME NEW c, NEW b
      PROVE  NodeExec(If(c, b), s) = IF Eval(c, StoreIn(s)) = 1 THEN ExecBlock(b, s) ELSE s
  <2>1. PICK st : st = If(c, b)
    OBVIOUS
  <2>2. st.k = "if" /\ st.cond = c /\ st.body = b
    BY <2>1, StatementKinds
  <2> QED
    BY <1>1, <2>1, <2>2 DEF NodeExec, ExecStmtOf
<1>7. ASSUME NEW c, NEW b
      PROVE  NodeExec(While(c, b), s) = NodeSettled(While(c, b), Loop(While(c, b), s, LoopDepth))
  <2>1. PICK st : st = While(c, b)
    OBVIOUS
  <2>2. st.k = "while"
    BY <2>1, StatementKinds
  <2> QED
    BY <1>1, <2>1, <2>2 DEF NodeExec, NodeSettled, ExecStmtOf
<1> QED
  BY <1>2, <1>3, <1>4, <1>5, <1>6, <1>7

LEMMA LoopForm ==
    ASSUME NEW c, NEW b, NEW w, w = While(c, b), NEW s
    PROVE  /\ FuelIn(s) = 0 \/ Eval(c, StoreIn(s)) # 1 => \A k : NodeLoop(w, s, k) = s
           /\ FuelIn(s) # 0 /\ Eval(c, StoreIn(s)) = 1 =>
                 /\ NodeLoop(w, s, 0) = ExecBlock(b, Burn(s))
                 /\ \A k \in Nat : NodeLoop(w, s, k + 1) = Loop(w, Loop(w, s, k), k)
           /\ NodeSettled(w, s) = IF Eval(c, StoreIn(s)) = 1 THEN [s EXCEPT !.fuel = 0] ELSE s
<1>1. w.cond = c /\ w.body = b
  BY StatementKinds
<1>2. StoreIn(s) = s.store /\ FuelIn(s) = s.fuel
  BY DEF StoreIn, FuelIn
<1>3. FuelIn(s) = 0 \/ Eval(c, StoreIn(s)) # 1 => \A k : NodeLoop(w, s, k) = s
  BY <1>1, <1>2 DEF NodeLoop, LoopOf
<1>4. FuelIn(s) # 0 /\ Eval(c, StoreIn(s)) = 1 => NodeLoop(w, s, 0) = ExecBlock(b, Burn(s))
  BY <1>1, <1>2 DEF NodeLoop, LoopOf
<1>5. ASSUME FuelIn(s) # 0, Eval(c, StoreIn(s)) = 1, NEW k \in Nat
      PROVE  NodeLoop(w, s, k + 1) = Loop(w, Loop(w, s, k), k)
  <2>1. PICK j \in Nat : j = k + 1 /\ j # 0 /\ j - 1 = k
    OBVIOUS
  <2>2. NodeLoop(w, s, j) = Loop(w, Loop(w, s, j - 1), j - 1)
    BY <1>1, <1>2, <1>5, <2>1 DEF NodeLoop, LoopOf
  <2> QED
    BY <2>1, <2>2
<1>6. NodeSettled(w, s) = IF Eval(c, StoreIn(s)) = 1 THEN [s EXCEPT !.fuel = 0] ELSE s
  BY <1>1, <1>2 DEF NodeSettled, Settled
<1> QED
  BY <1>3, <1>4, <1>5, <1>6

LEMMA RunForm ==
    /\ \A s : NodeRun(<< >>, s) = s
    /\ \A q, s : q # << >> => NodeRun(q, s) = ExecBlock(Tail(q), ExecStmt(Head(q), s))
    /\ \A st, s : FuelIn(s) = 0 => NodeExec(st, s) = s
  BY DEF NodeRun, ExecBlockOf, NodeExec, ExecStmtOf, FuelIn

-----------------------------------------------------------------------------
(***************************************************************************)
(* The code of a statement does what the statement means.                  *)
(***************************************************************************)
\* Wherever f lies, running it in s prints what there is in t.
Prints(f, s, t) ==
    \A k, m : Mirrors(m, s) /\ At(k, PcOf(m), f) => \E r : Goes(k, m, r) /\ OutOf(r) = OutIn(t)

\* As long as there are turns of loops left the machine gets where the source
\* program gets; if there are none it has printed what the source program has.
Follows(f, s, t) == IsRun(t) /\ IF FuelIn(t) > 0 THEN Runs(f, s, t) ELSE Prints(f, s, t)

BlockFollows(q) ==
    /\ \A n \in Nat : /\ Laid(Lowered(q, n), n)
                      /\ \A s : IsRun(s) => Follows(Instrs(Lowered(q, n)), s, ExecBlock(q, s))
    /\ \A s : FuelIn(s) = 0 => ExecBlock(q, s) = s

StatementFollows(st) ==
    \A n \in Nat : /\ Laid(NodeStatement(st, n), n)
                   /\ \A s : IsRun(s) => Follows(Instrs(NodeStatement(st, n)), s, NodeExec(st, s))

\* The code of e works, whatever the variables hold.
Sound(e) == \A store : Values6502(store) => Works(e, store)

LEMMA FuelLeft ==
    ASSUME NEW s, IsRun(s)
    PROVE  FuelIn(s) \in Nat /\ (FuelIn(s) # 0 <=> FuelIn(s) > 0) /\ Values6502(StoreIn(s))
  BY DEF IsRun

LEMMA RunsPrints ==
    /\ \A f, s, t : Runs(f, s, t) => Prints(f, s, t)
    /\ \A f, s : Prints(f, s, s)
    /\ \A h, s, t : Returns(h, s, t) => Prints(h, s, t)
    /\ \A h, s, t, u : Returns(h, s, t) /\ Prints(h, t, u) => Prints(h, s, u)
<1>1. ASSUME NEW f, NEW s, NEW t, Runs(f, s, t) PROVE Prints(f, s, t)
  BY <1>1 DEF Runs, Prints, Mirrors
<1>2. ASSUME NEW f, NEW s PROVE Prints(f, s, s)
  BY Stays DEF Prints, Mirrors, Ready, Goes
<1>3. ASSUME NEW h, NEW s, NEW t, Returns(h, s, t) PROVE Prints(h, s, t)
  BY <1>3 DEF Returns, Prints, Mirrors
<1>4. ASSUME NEW h, NEW s, NEW t, NEW u, Returns(h, s, t), Prints(h, t, u) PROVE Prints(h, s, u)
  <2> SUFFICES ASSUME NEW k, NEW m, Mirrors(m, s), At(k, PcOf(m), h)
               PROVE  \E r : Goes(k, m, r) /\ OutOf(r) = OutIn(u)
    BY DEF Prints
  <2>1. PICK q : Goes(k, m, q) /\ PcOf(q) = PcOf(m) /\ Mirrors(q, t)
    BY <1>4 DEF Returns
  <2>2. PICK r : Goes(k, q, r) /\ OutOf(r) = OutIn(u)
    BY <1>4, <2>1 DEF Prints
  <2> QED
    BY <2>1, <2>2, GoesOn
<1> QED
  BY <1>1, <1>2, <1>3, <1>4

LEMMA RunFollows ==
    /\ \A f, s, t : IsRun(t) /\ Runs(f, s, t) => Follows(f, s, t)
    /\ \A f, s : IsRun(s) /\ FuelIn(s) = 0 => Follows(f, s, s)
    /\ \A f, s, t : Follows(f, s, t) => IsRun(t) /\ Prints(f, s, t)
<1>1. \A f, s, t : IsRun(t) /\ Runs(f, s, t) => Follows(f, s, t)
  BY RunsPrints DEF Follows
<1>2. \A f, s : IsRun(s) /\ FuelIn(s) = 0 => Follows(f, s, s)
  BY RunsPrints, FuelLeft DEF Follows
<1>3. \A f, s, t : Follows(f, s, t) => IsRun(t) /\ Prints(f, s, t)
  BY RunsPrints DEF Follows
<1> QED
  BY <1>1, <1>2, <1>3

\* The first of two pieces and then the second, which does nothing when there are
\* no turns of loops left.
LEMMA SequenceFollows ==
    ASSUME NEW f, NEW g, Fragment(f), Fragment(g), NEW s, NEW t, NEW u,
           Follows(f, s, t), Follows(g, t, u), FuelIn(t) = 0 => u = t
    PROVE  Follows(Cat(f, g), s, u)
<1>1. PICK h : h = Cat(f, g)
  OBVIOUS
<1>2. IsRun(t) /\ IsRun(u)
  BY DEF Follows
<1>3. CASE FuelIn(t) > 0
  <2>1. Runs(f, s, t)
    BY <1>3 DEF Follows
  <2>2. CASE FuelIn(u) > 0
    <3>1. Runs(g, t, u)
      BY <2>2 DEF Follows
    <3>2. Runs(h, s, u)
      BY <1>1, <2>1, <3>1, SequenceRuns
    <3> QED
      BY <1>1, <1>2, <3>2, RunFollows
  <2>3. CASE ~ (FuelIn(u) > 0)
    <3>1. Prints(g, t, u)
      BY RunFollows
    <3>2. ASSUME NEW k, NEW m, Mirrors(m, s), At(k, PcOf(m), h)
          PROVE  \E r : Goes(k, m, r) /\ OutOf(r) = OutIn(u)
      <4>1. PcOf(m) \in Nat
        BY <3>2, PartsOf DEF Mirrors, Ready
      <4>2. At(k, PcOf(m), f) /\ At(k, PcOf(m) + Size(f), g)
        BY <1>1, <3>2, <4>1, CatParts
      <4>3. PICK q : Goes(k, m, q) /\ PcOf(q) = PcOf(m) + Size(f) /\ Mirrors(q, t)
        BY <2>1, <3>2, <4>2 DEF Runs
      <4>4. PICK r : Goes(k, q, r) /\ OutOf(r) = OutIn(u)
        BY <3>1, <4>2, <4>3 DEF Prints
      <4> QED
        BY <4>3, <4>4, GoesOn
    <3>3. Prints(h, s, u)
      BY <3>2 DEF Prints
    <3> QED
      BY <1>1, <1>2, <2>3, <3>3 DEF Follows
  <2> QED
    BY <2>2, <2>3
<1>4. CASE ~ (FuelIn(t) > 0)
  <2>1. u = t
    BY <1>2, <1>4, FuelLeft
  <2>2. Prints(f, s, t)
    BY RunFollows
  <2>3. ASSUME NEW k, NEW m, Mirrors(m, s), At(k, PcOf(m), h)
        PROVE  \E r : Goes(k, m, r) /\ OutOf(r) = OutIn(u)
    <3>1. PcOf(m) \in Nat
      BY <2>3, PartsOf DEF Mirrors, Ready
    <3>2. At(k, PcOf(m), f)
      BY <1>1, <2>3, <3>1, CatParts
    <3> QED
      BY <2>1, <2>2, <2>3, <3>2 DEF Prints
  <2>4. Prints(h, s, u)
    BY <2>3 DEF Prints
  <2> QED
    BY <1>1, <1>2, <1>4, <2>1, <2>4 DEF Follows
<1> QED
  BY <1>3, <1>4

\* There is a run; what code looks like does not depend on it.
LEMMA SomeRun == \E s : IsRun(s) /\ FuelIn(s) # 0
<1>1. PICK s : s = [store |-> << >>, out |-> << >>, fuel |-> 1]
  OBVIOUS
<1>2. StoreIn(s) = << >> /\ OutIn(s) = << >> /\ FuelIn(s) = 1
  BY <1>1 DEF StoreIn, OutIn, FuelIn
<1>3. \A i : Val(<< >>, i) = 0
  BY DEF Val
<1>4. Values6502(<< >>)
  BY <1>3, SmallBytes DEF Values6502
<1>5. IsRun(s)
  BY <1>1, <1>2, <1>4 DEF IsRun
<1> QED
  BY <1>2, <1>5

LEMMA IfPrints ==
    ASSUME NEW s, NEW t, NEW n \in Nat, NEW p, Fragment(p), YieldsZ(p, n, StoreIn(s), 1),
           NEW b, Fragment(b), Prints(b, s, t)
    PROVE  LET h == Cat(Cat(p, One("BNE", Size(b))), b) IN Fragment(h) /\ Prints(h, s, t)
<1>1. PICK d \in Nat : d = Size(b)
  BY CatParts
<1>2. PICK g : g = Cat(p, One("BNE", d))
  OBVIOUS
<1>3. /\ Fragment(g)
      /\ \A k, m : Mirrors(m, s) /\ At(k, PcOf(m), g) =>
            \E r : Goes(k, m, r) /\ Mirrors(r, s) /\ PcOf(r) = PcOf(m) + Size(g) + 0
  BY <1>2, ConditionRuns
<1>4. PICK h : h = Cat(g, b) /\ Fragment(h)
  BY <1>3, CatSize
<1> SUFFICES ASSUME NEW k, NEW m, Mirrors(m, s), At(k, PcOf(m), h)
             PROVE  \E r : Goes(k, m, r) /\ OutOf(r) = OutIn(t)
  BY <1>1, <1>2, <1>4 DEF Prints
<1>5. PcOf(m) \in Nat
  BY PartsOf DEF Mirrors, Ready
<1>6. At(k, PcOf(m), g) /\ At(k, PcOf(m) + Size(g), b) /\ Size(g) \in Nat
  BY <1>1, <1>3, <1>4, <1>5, CatParts
<1>7. PICK q : Goes(k, m, q) /\ Mirrors(q, s) /\ PcOf(q) = PcOf(m) + Size(g) + 0
  BY <1>3, <1>6
<1>8. PcOf(q) = PcOf(m) + Size(g)
  BY <1>5, <1>6, <1>7
<1>9. PICK r : Goes(k, q, r) /\ OutOf(r) = OutIn(t)
  BY <1>6, <1>7, <1>8 DEF Prints
<1> QED
  BY <1>7, <1>9, GoesOn

LEMMA WithFuel ==
    ASSUME NEW st, \A n \in Nat : Laid(NodeStatement(st, n), n),
           \A n \in Nat : \A s : IsRun(s) /\ FuelIn(s) # 0 =>
               Follows(Instrs(NodeStatement(st, n)), s, NodeExec(st, s))
    PROVE  StatementFollows(st)
<1> SUFFICES ASSUME NEW n \in Nat, NEW s, IsRun(s)
             PROVE  Follows(Instrs(NodeStatement(st, n)), s, NodeExec(st, s))
  BY DEF StatementFollows
<1>1. CASE FuelIn(s) = 0
  BY <1>1, RunForm, RunFollows
<1>2. CASE FuelIn(s) # 0
  BY <1>2
<1> QED
  BY <1>1, <1>2

LEMMA DeclFollows ==
    ASSUME DeclResets = FALSE, NEW name, NEW scope, NEW st, st = Decl(name, scope)
    PROVE  StatementFollows(st)
<1>1. ASSUME NEW n \in Nat
      PROVE  Instrs(NodeStatement(st, n)) = << >> /\ Temps(NodeStatement(st, n)) = n
  BY SimpleForm
<1>2. \A n \in Nat : n >= n
  OBVIOUS
<1>3. Fragment(<< >>)
  BY EmptyPiece
<1>4. \A n \in Nat : Laid(NodeStatement(st, n), n)
  BY <1>1, <1>2, <1>3 DEF Laid
<1>5. ASSUME NEW n \in Nat, NEW s, IsRun(s), FuelIn(s) # 0
      PROVE  Follows(Instrs(NodeStatement(st, n)), s, NodeExec(st, s))
  <2>1. NodeExec(st, s) = s
    BY <1>5, ExecForm
  <2> QED
    BY <1>1, <1>5, <2>1, NothingRuns, RunFollows
<1> QED
  BY <1>4, <1>5, WithFuel

LEMMA AssignFollows ==
    ASSUME NEW name \in Names, NEW scope \in Nat, NEW e, Sound(e), NEW st, st = Assign(name, scope, e)
    PROVE  StatementFollows(st)
<1>1. PICK slot \in VarSlots : slot = << name, scope >>
  BY DEF VarSlots
<1>2. ASSUME NEW n \in Nat
      PROVE  /\ Instrs(NodeStatement(st, n)) = Cat(Instrs(ToA(e, n)), One("STA", slot))
             /\ Temps(NodeStatement(st, n)) = Temps(ToA(e, n))
  BY <1>1, SimpleForm
<1>3. ASSUME NEW s, IsRun(s), NEW n \in Nat
      PROVE  /\ Laid(ToA(e, n), n) /\ Eval(e, StoreIn(s)) \in Byte
             /\ YieldsA(Instrs(ToA(e, n)), n, StoreIn(s), Eval(e, StoreIn(s)))
  <2>1. Works(e, StoreIn(s))
    BY <1>3, FuelLeft DEF Sound
  <2> QED
    BY <2>1 DEF Works, Worth, ToAWorks
<1>4. ASSUME NEW s, IsRun(s), NEW n \in Nat
      PROVE  /\ Laid(NodeStatement(st, n), n)
             /\ Runs(Instrs(NodeStatement(st, n)), s, Store(s, slot, Eval(e, StoreIn(s))))
  <2>1. PICK v \in Byte : v = Eval(e, StoreIn(s))
    BY <1>3, <1>4
  <2>2. PICK f : f = Instrs(ToA(e, n)) /\ Fragment(f) /\ YieldsA(f, n, StoreIn(s), v)
    BY <1>3, <1>4, <2>1 DEF Laid
  <2>3. LET h == Cat(f, One("STA", slot)) IN Fragment(h) /\ Runs(h, s, Store(s, slot, v))
    BY <1>4, <2>2, AssignRuns
  <2>4. Laid(ToA(e, n), n)
    BY <1>3, <1>4
  <2> QED
    BY <1>2, <2>1, <2>2, <2>3, <2>4 DEF Laid
<1>5. ASSUME NEW n \in Nat, NEW s, IsRun(s), FuelIn(s) # 0
      PROVE  Follows(Instrs(NodeStatement(st, n)), s, NodeExec(st, s))
  <2>1. NodeExec(st, s) = Store(s, slot, Eval(e, StoreIn(s)))
    <3>1. \A i, j, d : NodeExec(Assign(i, j, d), s) = Store(s, << i, j >>, Eval(d, StoreIn(s)))
      BY <1>5, ExecForm
    <3>2. NodeExec(Assign(name, scope, e), s) = Store(s, << name, scope >>, Eval(e, StoreIn(s)))
      BY <3>1
    <3> QED
      BY <1>1, <3>2
  <2>2. IsRun(Store(s, slot, Eval(e, StoreIn(s))))
    BY <1>3, <1>5, RunParts
  <2> QED
    BY <1>4, <1>5, <2>1, <2>2, RunFollows
<1>6. \A n \in Nat : Laid(NodeStatement(st, n), n)
  BY <1>4, SomeRun
<1> QED
  BY <1>5, <1>6, WithFuel

LEMMA PrintFollows ==
    ASSUME NEW e, Sound(e), NEW st, st = PrintOf(e)
    PROVE  StatementFollows(st)
<1>1. PICK i \in {1, 2} : i = IF IsString(e) THEN 2 ELSE 1
  OBVIOUS
<1>2. ASSUME NEW n \in Nat
      PROVE  /\ Instrs(NodeStatement(st, n)) = Cat(Instrs(NodeToY(e, n)), Called(i))
             /\ Temps(NodeStatement(st, n)) = Temps(NodeToY(e, n))
  BY <1>1, SimpleForm
<1>3. ASSUME NEW s, IsRun(s), NEW n \in Nat
      PROVE  /\ Laid(NodeToY(e, n), n) /\ Eval(e, StoreIn(s)) \in Byte
             /\ YieldsY(Instrs(NodeToY(e, n)), n, StoreIn(s), Eval(e, StoreIn(s)))
  <2>1. Works(e, StoreIn(s))
    BY <1>3, FuelLeft DEF Sound
  <2> QED
    BY <2>1 DEF Works, Worth, ToYWorks
<1>4. ASSUME NEW s, IsRun(s), NEW n \in Nat
      PROVE  /\ Laid(NodeStatement(st, n), n)
             /\ Runs(Instrs(NodeStatement(st, n)), s, Output(s, Eval(e, StoreIn(s))))
  <2>1. PICK v \in Byte : v = Eval(e, StoreIn(s))
    BY <1>3, <1>4
  <2>2. PICK f : f = Instrs(NodeToY(e, n)) /\ Fragment(f) /\ YieldsY(f, n, StoreIn(s), v)
    BY <1>3, <1>4, <2>1 DEF Laid
  <2>3. LET h == Cat(f, Called(i)) IN Fragment(h) /\ Runs(h, s, Output(s, v))
    BY <1>4, <2>2, PrintRuns
  <2>4. Laid(NodeToY(e, n), n)
    BY <1>3, <1>4
  <2> QED
    BY <1>2, <2>1, <2>2, <2>3, <2>4 DEF Laid
<1>5. ASSUME NEW n \in Nat, NEW s, IsRun(s), FuelIn(s) # 0
      PROVE  Follows(Instrs(NodeStatement(st, n)), s, NodeExec(st, s))
  <2>1. NodeExec(st, s) = Output(s, Eval(e, StoreIn(s)))
    BY <1>5, ExecForm
  <2>2. IsRun(Output(s, Eval(e, StoreIn(s))))
    BY <1>5, RunParts
  <2> QED
    BY <1>4, <1>5, <2>1, <2>2, RunFollows
<1>6. \A n \in Nat : Laid(NodeStatement(st, n), n)
  BY <1>4, SomeRun
<1> QED
  BY <1>5, <1>6, WithFuel

LEMMA BlockStatementFollows ==
    ASSUME NEW b, BlockFollows(b), NEW st, st = Block(b)
    PROVE  StatementFollows(st)
<1>1. \A n \in Nat : NodeStatement(st, n) = Lowered(b, n)
  BY SimpleForm
<1>2. \A n \in Nat : Laid(NodeStatement(st, n), n)
  BY <1>1 DEF BlockFollows
<1>3. ASSUME NEW n \in Nat, NEW s, IsRun(s), FuelIn(s) # 0
      PROVE  Follows(Instrs(NodeStatement(st, n)), s, NodeExec(st, s))
  <2>1. NodeExec(Block(b), s) = ExecBlock(b, s)
    BY <1>3, ExecForm
  <2> QED
    BY <1>1, <1>3, <2>1 DEF BlockFollows
<1> QED
  BY <1>2, <1>3, WithFuel

LEMMA IfFollows ==
    ASSUME NEW c, Sound(c), IsCondition(c), NEW b, BlockFollows(b), NEW st, st = If(c, b)
    PROVE  StatementFollows(st)
<1>1. ASSUME NEW s, IsRun(s), NEW n \in Nat
      PROVE  /\ Laid(Predicate(c, n), n) /\ Eval(c, StoreIn(s)) \in {0, 1}
             /\ YieldsZ(Instrs(Predicate(c, n)), n, StoreIn(s), Eval(c, StoreIn(s)))
  <2>1. Works(c, StoreIn(s))
    BY <1>1, FuelLeft DEF Sound
  <2> QED
    BY <2>1 DEF Works, Worth, PredicateWorks
<1>2. ASSUME NEW n \in Nat, NEW s, IsRun(s), FuelIn(s) # 0
      PROVE  /\ Laid(NodeStatement(st, n), n)
             /\ Follows(Instrs(NodeStatement(st, n)), s, NodeExec(st, s))
  <2>1. PICK v \in {0, 1} : v = Eval(c, StoreIn(s))
    BY <1>1, <1>2
  <2>2. PICK p : p = Predicate(c, n)
    OBVIOUS
  <2>3. /\ Fragment(Instrs(p)) /\ Temps(p) \in Nat /\ Temps(p) >= n
        /\ YieldsZ(Instrs(p), n, StoreIn(s), v)
    BY <1>1, <1>2, <2>1, <2>2 DEF Laid
  <2>4. PICK l : l = Lowered(b, Temps(p))
    OBVIOUS
  <2>5. PICK t : t = ExecBlock(b, s)
    OBVIOUS
  <2>6. Laid(l, Temps(p)) /\ Follows(Instrs(l), s, t)
    BY <1>2, <2>3, <2>4, <2>5 DEF BlockFollows
  <2>7. Fragment(Instrs(l)) /\ Temps(l) \in Nat /\ Temps(l) >= n
    BY <2>3, <2>6 DEF Laid
  <2>8. PICK x : x = NodeStatement(st, n)
    OBVIOUS
  <2>9. /\ Instrs(x) = Cat(Cat(Instrs(p), One("BNE", Size(Instrs(l)))), Instrs(l))
        /\ Temps(x) = Temps(l)
    BY <2>2, <2>4, <2>8, BranchForm
  <2>10. NodeExec(st, s) = IF v = 1 THEN t ELSE s
    BY <1>2, <2>1, <2>5, ExecForm
  <2>11. PICK u : u = IF v = 1 THEN t ELSE s
    OBVIOUS
  <2>12. PICK pi : pi = Instrs(p) /\ Fragment(pi) /\ YieldsZ(pi, n, StoreIn(s), v)
    BY <2>3
  <2>13. PICK li : li = Instrs(l) /\ Fragment(li) /\ Follows(li, s, t)
    BY <2>6, <2>7
  <2>14. PICK h : h = Cat(Cat(pi, One("BNE", Size(li))), li)
    OBVIOUS
  <2>15. CASE v = 0 \/ FuelIn(t) > 0
    <3>1. v = 1 => Runs(li, s, u)
      BY <2>11, <2>13, <2>15 DEF Follows
    <3>2. v = 0 => u = s
      BY <2>11
    <3>3. Fragment(h) /\ Runs(h, s, u)
      BY <2>12, <2>13, <2>14, <3>1, <3>2, IfRuns
    <3>4. IsRun(u)
      BY <1>2, <2>11, <2>13 DEF Follows
    <3> QED
      BY <2>7, <2>8, <2>9, <2>10, <2>11, <2>12, <2>13, <2>14, <3>3, <3>4, RunFollows DEF Laid
  <2>16. CASE v = 1 /\ ~ (FuelIn(t) > 0)
    <3>1. Fragment(h) /\ Prints(h, s, t)
      BY <2>12, <2>13, <2>14, <2>16, IfPrints, RunFollows
    <3>2. Follows(h, s, t)
      BY <2>13, <2>16, <3>1 DEF Follows
    <3> QED
      BY <2>7, <2>8, <2>9, <2>10, <2>12, <2>13, <2>14, <2>16, <3>1, <3>2 DEF Laid
  <2> QED
    BY <2>15, <2>16
<1>3. \A n \in Nat : Laid(NodeStatement(st, n), n)
  BY <1>2, SomeRun
<1> QED
  BY <1>2, <1>3, WithFuel

LEMMA Spent == \A s : IsRun(s) => OutIn([s EXCEPT !.fuel = 0]) = OutIn(s)
  BY DEF IsRun, OutIn

LEMMA LoopPrints ==
    ASSUME NEW s, NEW t, NEW n \in Nat, NEW p, Fragment(p), YieldsZ(p, n, StoreIn(s), 1),
           NEW b, Fragment(b), NEW z, Fragment(z), Prints(b, s, t)
    PROVE  Prints(LoopCode(p, Cat(b, z)), s, t)
<1>1. PICK u : u = Cat(b, z) /\ Fragment(u)
  BY CatSize
<1>2. PICK h : h = LoopCode(p, u)
  OBVIOUS
<1>3. PICK d \in Nat : d = Size(u) + 1
  BY <1>1, CatParts
<1>4. PICK g : g = Cat(p, One("BNE", d))
  OBVIOUS
<1>5. /\ Size(p) \in Nat /\ Size(g) = Size(p) + 1
      /\ \A k : \A i \in Nat : At(k, i, h) => At(k, i, g) /\ At(k, i + Size(g), u)
  BY <1>1, <1>2, <1>3, <1>4, LoopParts
<1>6. \A k, m : Mirrors(m, s) /\ At(k, PcOf(m), g) =>
         \E r : Goes(k, m, r) /\ Mirrors(r, s) /\ PcOf(r) = PcOf(m) + Size(g) + 0
  BY <1>4, ConditionRuns
<1> SUFFICES ASSUME NEW k, NEW m, Mirrors(m, s), At(k, PcOf(m), h)
             PROVE  \E r : Goes(k, m, r) /\ OutOf(r) = OutIn(t)
  BY <1>1, <1>2 DEF Prints
<1>7. PcOf(m) \in Nat
  BY PartsOf DEF Mirrors, Ready
<1>8. PICK i \in Nat : i = PcOf(m) + Size(g)
  BY <1>5, <1>7
<1>9. PICK q : Goes(k, m, q) /\ Mirrors(q, s) /\ PcOf(q) = i
  <2>1. PICK q : Goes(k, m, q) /\ Mirrors(q, s) /\ PcOf(q) = PcOf(m) + Size(g) + 0
    BY <1>5, <1>6, <1>7
  <2> QED
    BY <1>5, <1>7, <1>8, <2>1
<1>10. At(k, i, b)
  BY <1>1, <1>5, <1>7, <1>8, CatParts
<1>11. PICK r : Goes(k, q, r) /\ OutOf(r) = OutIn(t)
  BY <1>9, <1>10 DEF Prints
<1> QED
  BY <1>9, <1>11, GoesOn

\* What Follows is for whole statements, for coming back to the start of a loop.
TurnsFollow(h, s, t) == IsRun(t) /\ IF FuelIn(t) > 0 THEN Returns(h, s, t) ELSE Prints(h, s, t)

LEMMA NoTurn == \A h, s : IsRun(s) => TurnsFollow(h, s, s)
  BY ReturnsOn, RunsPrints DEF TurnsFollow

\* One turn.
LEMMA OneTurn ==
    ASSUME NEW s, IsRun(s), FuelIn(s) # 0, NEW n \in Nat, NEW p, Fragment(p), YieldsZ(p, n, StoreIn(s), 1),
           NEW b, Fragment(b), NEW t, Follows(b, Burn(s), t)
    PROVE  TurnsFollow(LoopCode(p, Cat(b, ForcedZ(1))), s, t)
<1>1. PICK z : z = ForcedZ(1) /\ Fragment(z)
  BY ForcedZPiece
<1>2. PICK h : h = LoopCode(p, Cat(b, z))
  OBVIOUS
<1>3. \A m : Mirrors(m, s) => Mirrors(m, Burn(s))
  <2>1. StoreIn(Burn(s)) = StoreIn(s) /\ OutIn(Burn(s)) = OutIn(s)
    BY FuelLeft, RunParts
  <2> QED
    BY <2>1 DEF Mirrors
<1>4. Follows(b, Burn(s), t) /\ IsRun(t)
  BY DEF Follows
<1>5. CASE FuelIn(t) > 0
  <2>1. Runs(b, Burn(s), t)
    BY <1>4, <1>5 DEF Follows
  <2>2. Runs(b, s, t)
    BY <1>3, <2>1 DEF Runs
  <2>3. Returns(h, s, t)
    BY <1>1, <1>2, <2>2, LoopTurns
  <2> QED
    BY <1>1, <1>2, <1>4, <1>5, <2>3 DEF TurnsFollow
<1>6. CASE ~ (FuelIn(t) > 0)
  <2>1. Prints(b, Burn(s), t)
    BY <1>4, RunFollows
  <2>2. Prints(b, s, t)
    BY <1>3, <2>1 DEF Prints
  <2>3. Prints(h, s, t)
    BY <1>1, <1>2, <2>2, LoopPrints
  <2> QED
    BY <1>1, <1>2, <1>4, <1>6, <2>3 DEF TurnsFollow
<1> QED
  BY <1>5, <1>6

\* Up to 2^k turns.
LEMMA ManyTurns ==
    ASSUME NEW c, Sound(c), IsCondition(c), NEW b, BlockFollows(b), NEW w, w = While(c, b),
           \A s : \A k \in Nat : Loop(w, s, k) = NodeLoop(w, s, k),
           NEW n \in Nat, NEW h, h = Instrs(NodeStatement(w, n))
    PROVE  \A k \in Nat : \A s : IsRun(s) => TurnsFollow(h, s, Loop(w, s, k))
<1>1. PICK K : K = {k \in Nat : \A s : IsRun(s) => TurnsFollow(h, s, Loop(w, s, k))}
  OBVIOUS
<1>2. ASSUME NEW s, IsRun(s), NEW k \in Nat, FuelIn(s) = 0 \/ Eval(c, StoreIn(s)) # 1
      PROVE  TurnsFollow(h, s, Loop(w, s, k))
  <2>1. FuelIn(s) = 0 \/ Eval(c, StoreIn(s)) # 1 => \A j : NodeLoop(w, s, j) = s
    BY LoopForm
  <2>2. NodeLoop(w, s, k) = s
    BY <1>2, <2>1
  <2>3. Loop(w, s, k) = s
    BY <2>2
  <2> QED
    BY <1>2, <2>3, NoTurn
<1>3. ASSUME NEW s, IsRun(s), FuelIn(s) # 0, Eval(c, StoreIn(s)) = 1
      PROVE  TurnsFollow(h, s, Loop(w, s, 0))
  <2>1. PICK p : p = Predicate(c, n)
    OBVIOUS
  <2>2. Works(c, StoreIn(s))
    BY <1>3, FuelLeft DEF Sound
  <2>3. Laid(p, n) /\ YieldsZ(Instrs(p), n, StoreIn(s), 1)
    BY <1>3, <2>1, <2>2 DEF Works, PredicateWorks
  <2>4. PICK l : l = Lowered(b, Temps(p))
    OBVIOUS
  <2>5. PICK t : t = ExecBlock(b, Burn(s))
    OBVIOUS
  <2>6. IsRun(Burn(s))
    BY <1>3, FuelLeft, RunParts
  <2>7. Temps(p) \in Nat /\ Fragment(Instrs(p))
    BY <2>3 DEF Laid
  <2>8. Fragment(Instrs(l)) /\ Follows(Instrs(l), Burn(s), t)
    BY <2>4, <2>5, <2>6, <2>7 DEF BlockFollows, Laid
  <2>9. h = LoopCode(Instrs(p), Cat(Instrs(l), ForcedZ(1)))
    BY <2>1, <2>4, BranchForm
  <2>10. TurnsFollow(h, s, t)
    BY <1>3, <2>3, <2>7, <2>8, <2>9, OneTurn
  <2>11. Loop(w, s, 0) = t
    <3>1. NodeLoop(w, s, 0) = t
      BY <1>3, <2>5, LoopForm
    <3> QED
      BY <3>1
  <2> QED
    BY <2>10, <2>11
<1>4. 0 \in K
  BY <1>1, <1>2, <1>3
<1>5. ASSUME NEW s, FuelIn(s) = 0, NEW k \in Nat PROVE Loop(w, s, k) = s
  <2>1. FuelIn(s) = 0 \/ Eval(c, StoreIn(s)) # 1 => \A j : NodeLoop(w, s, j) = s
    BY LoopForm
  <2>2. NodeLoop(w, s, k) = s
    BY <1>5, <2>1
  <2> QED
    BY <2>2
<1>6. ASSUME NEW k \in Nat, k \in K PROVE k + 1 \in K
  <2>1. k + 1 \in Nat
    OBVIOUS
  <2> SUFFICES ASSUME NEW s, IsRun(s) PROVE TurnsFollow(h, s, Loop(w, s, k + 1))
    BY <1>1, <2>1
  <2>2. CASE FuelIn(s) = 0 \/ Eval(c, StoreIn(s)) # 1
    BY <1>2, <2>1, <2>2
  <2>3. CASE FuelIn(s) # 0 /\ Eval(c, StoreIn(s)) = 1
    <3>1. PICK t : t = Loop(w, s, k)
      OBVIOUS
    <3>2. PICK u : u = Loop(w, t, k)
      OBVIOUS
    <3>3. Loop(w, s, k + 1) = u
      <4>1. NodeLoop(w, s, k + 1) = u
        BY <2>3, <3>1, <3>2, LoopForm
      <4>2. \A j \in Nat : Loop(w, s, j) = NodeLoop(w, s, j)
        OBVIOUS
      <4> QED
        BY <2>1, <4>1, <4>2
    <3>4. TurnsFollow(h, s, t) /\ IsRun(t)
      BY <1>1, <1>6, <3>1 DEF TurnsFollow
    <3>5. TurnsFollow(h, t, u) /\ IsRun(u)
      BY <1>1, <1>6, <3>2, <3>4 DEF TurnsFollow
    <3>6. CASE FuelIn(t) = 0
      <4>1. u = t
        BY <1>5, <3>2, <3>6
      <4> QED
        BY <3>3, <3>4, <4>1
    <3>7. CASE FuelIn(t) > 0
      <4>1. Returns(h, s, t)
        BY <3>4, <3>7 DEF TurnsFollow
      <4>2. FuelIn(u) > 0 => Returns(h, s, u)
        BY <3>5, <4>1, ReturnsOn DEF TurnsFollow
      <4>3. ~ (FuelIn(u) > 0) => Prints(h, s, u)
        BY <3>5, <4>1, RunsPrints DEF TurnsFollow
      <4> QED
        BY <3>3, <3>5, <4>2, <4>3 DEF TurnsFollow
    <3> QED
      BY <3>4, <3>6, <3>7, FuelLeft
  <2> QED
    BY <2>2, <2>3
<1>7. Nat \subseteq K
  BY <1>4, <1>6, EveryNumber
<1> QED
  BY <1>1, <1>7

LEMMA WhileFollows ==
    ASSUME NEW c, Sound(c), IsCondition(c), NEW b, BlockFollows(b), NEW w, w = While(c, b),
           \A s : \A k \in Nat : Loop(w, s, k) = NodeLoop(w, s, k)
    PROVE  StatementFollows(w)
<1>1. ASSUME NEW s, IsRun(s), NEW n \in Nat
      PROVE  /\ Laid(Predicate(c, n), n) /\ Eval(c, StoreIn(s)) \in {0, 1}
             /\ YieldsZ(Instrs(Predicate(c, n)), n, StoreIn(s), Eval(c, StoreIn(s)))
  <2>1. Works(c, StoreIn(s))
    BY <1>1, FuelLeft DEF Sound
  <2> QED
    BY <2>1 DEF Works, Worth, PredicateWorks
<1>2. ASSUME NEW n \in Nat, NEW p, p = Predicate(c, n), NEW l, l = Lowered(b, Temps(p))
      PROVE  /\ Laid(NodeStatement(w, n), n) /\ Fragment(Instrs(p)) /\ Fragment(Cat(Instrs(l), ForcedZ(1)))
             /\ Instrs(NodeStatement(w, n)) = LoopCode(Instrs(p), Cat(Instrs(l), ForcedZ(1)))
  <2>1. Laid(p, n)
    BY <1>1, <1>2, SomeRun
  <2>2. Fragment(Instrs(p)) /\ Temps(p) \in Nat /\ Temps(p) >= n
    BY <2>1 DEF Laid
  <2>3. Laid(l, Temps(p))
    BY <1>2, <2>2 DEF BlockFollows
  <2>4. Fragment(Instrs(l)) /\ Temps(l) \in Nat /\ Temps(l) >= n
    BY <2>2, <2>3 DEF Laid
  <2>5. PICK x : x = NodeStatement(w, n)
    OBVIOUS
  <2>6. Instrs(x) = LoopCode(Instrs(p), Cat(Instrs(l), ForcedZ(1))) /\ Temps(x) = Temps(l)
    BY <1>2, <2>5, BranchForm
  <2>7. PICK u : u = Cat(Instrs(l), ForcedZ(1)) /\ Fragment(u)
    BY <2>4, ForcedZPiece, CatSize
  <2>8. Fragment(LoopCode(Instrs(p), u))
    BY <2>2, <2>7, LoopParts
  <2> QED
    BY <2>2, <2>4, <2>5, <2>6, <2>7, <2>8 DEF Laid
<1>3. \A n \in Nat : Laid(NodeStatement(w, n), n)
  BY <1>2
<1>4. ASSUME NEW n \in Nat, NEW s, IsRun(s), FuelIn(s) # 0
      PROVE  Follows(Instrs(NodeStatement(w, n)), s, NodeExec(w, s))
  <2>1. PICK h : h = Instrs(NodeStatement(w, n))
    OBVIOUS
  <2>2. PICK t : t = Loop(w, s, LoopDepth)
    OBVIOUS
  <2>3. TurnsFollow(h, s, t)
    BY <1>4, <2>1, <2>2, ManyTurns, LoopDepthAssumption
  <2>4. IsRun(t)
    BY <2>3 DEF TurnsFollow
  <2>5. NodeExec(w, s) = NodeSettled(w, t)
    <3>1. \A i, j : NodeExec(While(i, j), s) = NodeSettled(While(i, j), Loop(While(i, j), s, LoopDepth))
      BY <1>4, ExecForm
    <3>2. NodeExec(While(c, b), s) = NodeSettled(While(c, b), Loop(While(c, b), s, LoopDepth))
      BY <3>1
    <3> QED
      BY <2>2, <3>2
  <2>6. NodeSettled(w, t) = IF Eval(c, StoreIn(t)) = 1 THEN [t EXCEPT !.fuel = 0] ELSE t
    BY LoopForm
  <2>7. Prints(h, s, t)
    BY <2>3, RunsPrints DEF TurnsFollow
  <2>8. CASE Eval(c, StoreIn(t)) = 1
    <3>1. PICK u : u = [t EXCEPT !.fuel = 0]
      OBVIOUS
    <3>2. FuelIn(u) = 0 /\ IsRun(u) /\ OutIn(u) = OutIn(t)
      BY <2>4, <3>1, RunParts, Spent
    <3>3. Prints(h, s, u)
      BY <2>7, <3>2 DEF Prints
    <3>4. ~ (FuelIn(u) > 0)
      BY <3>2
    <3>5. Follows(h, s, u)
      BY <3>2, <3>3, <3>4 DEF Follows
    <3> QED
      BY <2>1, <2>5, <2>6, <2>8, <3>1, <3>5
  <2>9. CASE Eval(c, StoreIn(t)) # 1
    <3>1. CASE FuelIn(t) > 0
      <4>1. Returns(h, s, t)
        BY <2>3, <3>1 DEF TurnsFollow
      <4>2. PICK p : p = Predicate(c, n)
        OBVIOUS
      <4>3. PICK l : l = Lowered(b, Temps(p))
        OBVIOUS
      <4>4. Eval(c, StoreIn(t)) = 0
        BY <1>1, <2>4, <2>9
      <4>5. YieldsZ(Instrs(p), n, StoreIn(t), 0)
        BY <1>1, <2>4, <4>2, <4>4
      <4>6. Runs(h, t, t)
        BY <1>2, <2>1, <4>2, <4>3, <4>5, LoopEnds
      <4>7. Runs(h, s, t)
        BY <4>1, <4>6, ReturnsOn
      <4> QED
        BY <2>1, <2>4, <2>5, <2>6, <2>9, <4>7, RunFollows
    <3>2. CASE ~ (FuelIn(t) > 0)
      <4>1. Follows(h, s, t)
        BY <2>4, <2>7, <3>2 DEF Follows
      <4> QED
        BY <2>1, <2>5, <2>6, <2>9, <4>1
    <3> QED
      BY <3>1, <3>2
  <2> QED
    BY <2>8, <2>9
<1> QED
  BY <1>3, <1>4, WithFuel

\* Q is a set of checked sequences of statements, with what follows the first of
\* each and the bodies, over the expressions T.  Rank falls from a sequence to
\* its parts.
Checked(T, Q, Rank, q) ==
    q # << >> =>
        /\ Tail(q) \in Q /\ Rank[Tail(q)] < Rank[q]
        /\ \/ \E name \in Names, scope \in Nat : Head(q) = Decl(name, scope)
           \/ \E name \in Names, scope \in Nat, e \in T : Head(q) = Assign(name, scope, e)
           \/ \E e \in T : Head(q) = PrintOf(e)
           \/ \E b \in Q : Rank[b] < Rank[q] /\ Head(q) = Block(b)
           \/ \E b \in Q, c \in T :
                 /\ Rank[b] < Rank[q] /\ IsCondition(c)
                 /\ Head(q) = If(c, b) \/ Head(q) = While(c, b)

\* The code of q is what the generator makes of it, and what q does follows from
\* what its parts do.
CompiledBlock(q) == \A n \in Nat : Lowered(q, n) = NodeBlock(q, n)
MeantBlock(q) ==
    /\ \A s : ExecBlock(q, s) = NodeRun(q, s)
    /\ q # << >> =>
          /\ \A s : ExecStmt(Head(q), s) = NodeExec(Head(q), s)
          /\ \A s : \A k \in Nat : Loop(Head(q), s, k) = NodeLoop(Head(q), s, k)

Statements(T, Q, Rank) ==
    /\ Rank \in [Q -> Nat]
    /\ \A q \in Q : Checked(T, Q, Rank, q) /\ CompiledBlock(q) /\ MeantBlock(q)

LEMMA HeadFollows ==
    ASSUME DeclResets = FALSE, NEW T, \A e \in T : Sound(e),
           NEW Q, NEW Rank, NEW q, q # << >>, Checked(T, Q, Rank, q), MeantBlock(q),
           \A b \in Q : Rank[b] < Rank[q] => BlockFollows(b)
    PROVE  StatementFollows(Head(q))
<1>1. PICK st : st = Head(q)
  OBVIOUS
<1>2. \/ \E name \in Names, scope \in Nat : st = Decl(name, scope)
      \/ \E name \in Names, scope \in Nat, e \in T : st = Assign(name, scope, e)
      \/ \E e \in T : st = PrintOf(e)
      \/ \E b \in Q : Rank[b] < Rank[q] /\ st = Block(b)
      \/ \E b \in Q, c \in T :
            /\ Rank[b] < Rank[q] /\ IsCondition(c)
            /\ st = If(c, b) \/ st = While(c, b)
  BY <1>1 DEF Checked
<1>3. CASE \E name \in Names, scope \in Nat : st = Decl(name, scope)
  <2>1. PICK name \in Names, scope \in Nat : st = Decl(name, scope)
    BY <1>3
  <2> QED
    BY <1>1, <2>1, DeclFollows
<1>4. CASE \E name \in Names, scope \in Nat, e \in T : st = Assign(name, scope, e)
  <2>1. PICK name \in Names, scope \in Nat, e \in T : st = Assign(name, scope, e)
    BY <1>4
  <2>2. Sound(e)
    OBVIOUS
  <2> QED
    BY <1>1, <2>1, <2>2, AssignFollows
<1>5. CASE \E e \in T : st = PrintOf(e)
  <2>1. PICK e \in T : st = PrintOf(e)
    BY <1>5
  <2>2. Sound(e)
    OBVIOUS
  <2> QED
    BY <1>1, <2>1, <2>2, PrintFollows
<1>6. CASE \E b \in Q : Rank[b] < Rank[q] /\ st = Block(b)
  <2>1. PICK b \in Q : Rank[b] < Rank[q] /\ st = Block(b)
    BY <1>6
  <2>2. BlockFollows(b)
    BY <2>1
  <2> QED
    BY <1>1, <2>1, <2>2, BlockStatementFollows
<1>7. CASE \E b \in Q, c \in T :
              /\ Rank[b] < Rank[q] /\ IsCondition(c)
              /\ st = If(c, b) \/ st = While(c, b)
  <2>1. PICK b \in Q, c \in T : /\ Rank[b] < Rank[q] /\ IsCondition(c)
                                /\ st = If(c, b) \/ st = While(c, b)
    BY <1>7
  <2>2. BlockFollows(b) /\ Sound(c)
    BY <2>1
  <2>3. CASE st = If(c, b)
    BY <1>1, <2>1, <2>2, <2>3, IfFollows
  <2>4. CASE st = While(c, b)
    <3>1. \A s : \A k \in Nat : Loop(st, s, k) = NodeLoop(st, s, k)
      BY <1>1 DEF MeantBlock
    <3> QED
      BY <1>1, <2>1, <2>2, <2>4, <3>1, WhileFollows
  <2> QED
    BY <2>1, <2>3, <2>4
<1> QED
  BY <1>2, <1>3, <1>4, <1>5, <1>6, <1>7

LEMMA EmptyFollows ==
    ASSUME CompiledBlock(<< >>), MeantBlock(<< >>)
    PROVE  BlockFollows(<< >>)
<1>1. ASSUME NEW n \in Nat PROVE Instrs(Lowered(<< >>, n)) = << >> /\ Temps(Lowered(<< >>, n)) = n
  <2>1. Lowered(<< >>, n) = NodeBlock(<< >>, n)
    BY DEF CompiledBlock
  <2> QED
    BY <2>1, SequenceForm
<1>2. \A s : ExecBlock(<< >>, s) = s
  BY RunForm DEF MeantBlock
<1>3. Fragment(<< >>)
  BY EmptyPiece
<1>4. \A n \in Nat : n >= n
  OBVIOUS
<1>5. \A n \in Nat : Laid(Lowered(<< >>, n), n)
  BY <1>1, <1>3, <1>4 DEF Laid
<1>6. ASSUME NEW n \in Nat, NEW s, IsRun(s)
      PROVE  Follows(Instrs(Lowered(<< >>, n)), s, ExecBlock(<< >>, s))
  BY <1>1, <1>2, <1>6, NothingRuns, RunFollows
<1> QED
  BY <1>2, <1>5, <1>6 DEF BlockFollows

LEMMA BlockNode ==
    ASSUME NEW q, q # << >>, CompiledBlock(q), MeantBlock(q),
           StatementFollows(Head(q)), BlockFollows(Tail(q))
    PROVE  BlockFollows(q)
<1>1. PICK st : st = Head(q) /\ StatementFollows(st)
  OBVIOUS
<1>2. PICK rest : rest = Tail(q) /\ BlockFollows(rest)
  OBVIOUS
<1>3. \A s : ExecBlock(q, s) = ExecBlock(rest, NodeExec(st, s))
  <2> SUFFICES ASSUME NEW s PROVE ExecBlock(q, s) = ExecBlock(rest, NodeExec(st, s))
    OBVIOUS
  <2>1. NodeRun(q, s) = ExecBlock(rest, ExecStmt(st, s))
    BY <1>1, <1>2, RunForm
  <2>2. ExecStmt(st, s) = NodeExec(st, s)
    BY <1>1 DEF MeantBlock
  <2> QED
    BY <2>1, <2>2 DEF MeantBlock
<1>4. ASSUME NEW n \in Nat, NEW a, a = NodeStatement(st, n), NEW d, d = Lowered(rest, Temps(a))
      PROVE  /\ Laid(Lowered(q, n), n) /\ Fragment(Instrs(a)) /\ Fragment(Instrs(d)) /\ Temps(a) \in Nat
             /\ Instrs(Lowered(q, n)) = Cat(Instrs(a), Instrs(d))
  <2>1. Laid(a, n)
    BY <1>1, <1>4 DEF StatementFollows
  <2>2. Fragment(Instrs(a)) /\ Temps(a) \in Nat /\ Temps(a) >= n
    BY <2>1 DEF Laid
  <2>3. Laid(d, Temps(a))
    BY <1>2, <1>4, <2>2 DEF BlockFollows
  <2>4. Fragment(Instrs(d)) /\ Temps(d) \in Nat /\ Temps(d) >= n
    BY <2>2, <2>3 DEF Laid
  <2>5. PICK x : x = Lowered(q, n)
    OBVIOUS
  <2>6. x = NodeBlock(q, n)
    BY <2>5 DEF CompiledBlock
  <2>7. Instrs(x) = Cat(Instrs(a), Instrs(d)) /\ Temps(x) = Temps(d)
    BY <1>1, <1>2, <1>4, <2>6, SequenceForm
  <2>8. Fragment(Cat(Instrs(a), Instrs(d)))
    BY <2>2, <2>4, CatSize
  <2> QED
    BY <2>2, <2>4, <2>5, <2>7, <2>8 DEF Laid
<1>5. ASSUME NEW n \in Nat, NEW s, IsRun(s)
      PROVE  Follows(Instrs(Lowered(q, n)), s, ExecBlock(q, s))
  <2>1. PICK a : a = NodeStatement(st, n)
    OBVIOUS
  <2>2. PICK d : d = Lowered(rest, Temps(a))
    OBVIOUS
  <2>3. PICK t : t = NodeExec(st, s)
    OBVIOUS
  <2>4. PICK u : u = ExecBlock(rest, t)
    OBVIOUS
  <2>5. Follows(Instrs(a), s, t) /\ IsRun(t)
    BY <1>1, <1>5, <2>1, <2>3, RunFollows DEF StatementFollows
  <2>6. /\ Fragment(Instrs(a)) /\ Fragment(Instrs(d)) /\ Temps(a) \in Nat
        /\ Instrs(Lowered(q, n)) = Cat(Instrs(a), Instrs(d))
    BY <1>4, <2>1, <2>2
  <2>7. Follows(Instrs(d), t, u)
    BY <1>2, <2>2, <2>4, <2>5, <2>6 DEF BlockFollows
  <2>8. FuelIn(t) = 0 => u = t
    BY <1>2, <2>4 DEF BlockFollows
  <2>9. Follows(Cat(Instrs(a), Instrs(d)), s, u)
    BY <2>5, <2>6, <2>7, <2>8, SequenceFollows
  <2> QED
    BY <1>3, <2>3, <2>4, <2>6, <2>9
<1>6. ASSUME NEW s, FuelIn(s) = 0 PROVE ExecBlock(q, s) = s
  <2>1. NodeExec(st, s) = s
    BY <1>6, RunForm
  <2> QED
    BY <1>2, <1>3, <1>6, <2>1 DEF BlockFollows
<1>7. \A n \in Nat : Laid(Lowered(q, n), n)
  BY <1>4
<1> QED
  BY <1>5, <1>6, <1>7 DEF BlockFollows

\* The statement compiler (visitStatement, visitBlock, visitIfStatement,
\* visitWhileStatement, visitPrint) is right: wherever the code of checked
\* statements lies, and whatever the variables hold, the machine that starts it
\* gets behind it with the variables as the statements leave them and has printed
\* what they print.  Where the loops of the source use up their turns, it gets at
\* least as far as to have printed what the source has.
THEOREM StatementCode ==
    ASSUME IntMod = WordMod, DeclResets = FALSE,
           NEW T, NEW RankT, Expressions(T, RankT),
           \A e \in T : \A store : Values6502(store) => Meant(e, store),
           NEW Q, NEW RankQ, Statements(T, Q, RankQ)
    PROVE  \A q \in Q : BlockFollows(q)
<1>1. ASSUME NEW e \in T, NEW store, Values6502(store) PROVE Works(e, store)
  BY <1>1, AllWork
<1>2. \A e \in T : Sound(e)
  BY <1>1 DEF Sound
<1>3. PICK W : W = {q \in Q : BlockFollows(q)}
  OBVIOUS
<1>4. RankQ \in [Q -> Nat]
  BY DEF Statements
<1>5. ASSUME NEW q \in Q, \A b \in Q : RankQ[b] < RankQ[q] => b \in W PROVE q \in W
  <2>1. Checked(T, Q, RankQ, q) /\ CompiledBlock(q) /\ MeantBlock(q)
    BY DEF Statements
  <2>2. \A b \in Q : RankQ[b] < RankQ[q] => BlockFollows(b)
    BY <1>3, <1>5
  <2>3. CASE q = << >>
    BY <1>3, <2>1, <2>3, EmptyFollows
  <2>4. CASE q # << >>
    <3>1. StatementFollows(Head(q))
      BY <1>2, <2>1, <2>2, <2>4, HeadFollows
    <3>2. BlockFollows(Tail(q))
      BY <2>1, <2>2, <2>4 DEF Checked
    <3>3. BlockFollows(q)
      BY <2>1, <2>4, <3>1, <3>2, BlockNode
    <3> QED
      BY <1>3, <3>3
  <2> QED
    BY <2>3, <2>4
<1>6. Q \subseteq W
  BY <1>4, <1>5, EveryMember
<1> QED
  BY <1>3, <1>6

-----------------------------------------------------------------------------
(***************************************************************************)
(* Runs and what they print.                                               *)
(***************************************************************************)
\* A state that steps to itself reaches no other.
LEMMA StoppedStays ==
    ASSUME NEW k, NEW m, Effect(k, m) = m, NEW r, Reaches(k, m, r)
    PROVE  r = m
<1> PICK n \in Nat : \E t : t[0] = m /\ t[n] = r /\ Trace(k, t, n)
  BY DEF Reaches
<1>1. PICK t : t[0] = m /\ t[n] = r /\ Trace(k, t, n)
  OBVIOUS
<1>2. PICK T : T = {i \in Nat : i <= n => t[i] = m}
  OBVIOUS
<1>3. 0 \in T
  BY <1>1, <1>2
<1>4. ASSUME NEW i \in Nat, i \in T PROVE i + 1 \in T
  <2> SUFFICES ASSUME i + 1 <= n PROVE t[i + 1] = m
    BY <1>2
  <2>1. i + 1 \in 1 .. n /\ (i + 1) - 1 = i
    OBVIOUS
  <2>2. t[i + 1] = Effect(k, t[i])
    BY <1>1, <2>1 DEF Trace
  <2> QED
    BY <1>2, <1>4, <2>2
<1>5. n \in T
  BY <1>3, <1>4, EveryNumber
<1> QED
  BY <1>1, <1>2, <1>5

\* On the way to r, the next state is there or on the way, too.
LEMMA NextOnTheWay ==
    ASSUME NEW k, NEW m, NEW r, Reaches(k, m, r), r # m
    PROVE  Reaches(k, Effect(k, m), r)
<1> PICK n \in Nat : \E t : t[0] = m /\ t[n] = r /\ Trace(k, t, n)
  BY DEF Reaches
<1>1. PICK t : t[0] = m /\ t[n] = r /\ Trace(k, t, n)
  OBVIOUS
<1>2. PICK j \in Nat : j + 1 = n
  <2>1. n # 0
    BY <1>1
  <2> QED
    BY <2>1
<1>3. PICK u : u = [i \in 0 .. j |-> t[i + 1]]
  OBVIOUS
<1>4. u[0] = Effect(k, m)
  <2>1. t[1] = Effect(k, t[1 - 1])
    BY <1>1, <1>2 DEF Trace
  <2> QED
    BY <1>1, <1>3, <2>1
<1>5. u[j] = r
  BY <1>1, <1>2, <1>3
<1>6. ASSUME NEW i \in 1 .. j PROVE u[i] = Effect(k, u[i - 1])
  <2>1. i + 1 \in 1 .. n /\ (i + 1) - 1 = i /\ i \in 0 .. j /\ i - 1 \in 0 .. j /\ (i - 1) + 1 = i
    BY <1>2
  <2>2. t[i + 1] = Effect(k, t[i])
    BY <1>1, <2>1 DEF Trace
  <2> QED
    BY <1>3, <2>1, <2>2
<1>7. Trace(k, u, j)
  BY <1>6 DEF Trace
<1> QED
  BY <1>4, <1>5, <1>7 DEF Reaches

LEMMA PrefixOrder ==
    ASSUME NEW S
    PROVE  /\ \A s \in Seq(S) : IsPrefix(s, s)
           /\ \A s \in Seq(S) : \A v \in S : IsPrefix(s, Append(s, v))
           /\ \A s, t, u \in Seq(S) : IsPrefix(s, t) /\ IsPrefix(t, u) => IsPrefix(s, u)
<1>1. ASSUME NEW s \in Seq(S), NEW t \in Seq(S)
      PROVE  IsPrefix(s, t) <=> Len(s) <= Len(t) /\ \A i \in 1 .. Len(s) : s[i] = t[i]
  <2>1. SubSeq(s, 1, Len(s)) = s
    BY SubSeqFull
  <2>2. Len(s) \in Nat /\ Len(t) \in Nat
    OBVIOUS
  <2>3. ASSUME Len(s) <= Len(t)
        PROVE  SubSeq(t, 1, Len(s)) = s <=> \A i \in 1 .. Len(s) : s[i] = t[i]
    <3>1. \A i \in 1 .. Len(s) : t[i] \in S
      BY <2>2, <2>3
    <3>2. PICK l \in Nat : l = Len(s)
      BY <2>2
    <3>3. PICK w : w = SubSeq(t, 1, l)
      OBVIOUS
    <3>4. w \in Seq(S) /\ Len(w) = l /\ \A i \in 1 .. l : w[i] = t[i]
      <4>1. /\ SubSeq(t, 1, l) \in Seq(S) /\ Len(SubSeq(t, 1, l)) = IF 1 <= l THEN l - 1 + 1 ELSE 0
            /\ \A i \in 1 .. l - 1 + 1 : SubSeq(t, 1, l)[i] = t[1 + i - 1]
        BY <3>1, <3>2, SubSeqProperties
      <4> QED
        BY <3>3, <4>1
    <3>5. w = s <=> \A i \in 1 .. l : w[i] = s[i]
      BY <3>2, <3>4, SeqEqual
    <3> QED
      BY <3>2, <3>3, <3>4, <3>5
  <2> QED
    BY <2>1, <2>3 DEF IsPrefix
<1>2. \A s \in Seq(S) : IsPrefix(s, s)
  <2> SUFFICES ASSUME NEW s \in Seq(S) PROVE IsPrefix(s, s)
    OBVIOUS
  <2>1. Len(s) <= Len(s)
    OBVIOUS
  <2> QED
    BY <1>1, <2>1
<1>3. ASSUME NEW s \in Seq(S), NEW v \in S PROVE IsPrefix(s, Append(s, v))
  <2>1. PICK t \in Seq(S) : t = Append(s, v) /\ Len(t) = Len(s) + 1 /\ \A i \in 1 .. Len(s) : t[i] = s[i]
    BY AppendProperties
  <2>2. Len(s) <= Len(t)
    BY <2>1
  <2> QED
    BY <1>1, <2>1, <2>2
<1>4. ASSUME NEW s \in Seq(S), NEW t \in Seq(S), NEW u \in Seq(S), IsPrefix(s, t), IsPrefix(t, u)
      PROVE  IsPrefix(s, u)
  <2>1. Len(s) <= Len(t) /\ \A i \in 1 .. Len(s) : s[i] = t[i]
    BY <1>1, <1>4
  <2>2. Len(t) <= Len(u) /\ \A i \in 1 .. Len(t) : t[i] = u[i]
    BY <1>1, <1>4
  <2>3. Len(s) <= Len(u) /\ \A i \in 1 .. Len(s) : s[i] = u[i]
    BY <2>1, <2>2
  <2> QED
    BY <1>1, <2>3
<1> QED
  BY <1>2, <1>3, <1>4

LEMMA OutOfEffect ==
    ASSUME NEW k, NEW m
    PROVE  OutOf(Effect(k, m)) = OutOf(m) \/ OutOf(Effect(k, m)) = Append(OutOf(m), YOf(m))
<1>1. \A p, a, x, y, z, c, f, o : OutOf(St(p, a, x, y, z, c, f, o)) = o
  BY FieldsOf DEF OutOf
<1>2. \/ Effect(k, m) = m
      \/ \E p, a, x, y, z, c, f, o :
            Effect(k, m) = St(p, a, x, y, z, c, f, o) /\ o \in {m.out, Append(m.out, m.y)}
  BY DEF Effect
<1> QED
  BY <1>1, <1>2 DEF OutOf, YOf

\* What is printed stays printed.
LEMMA OutGrows ==
    ASSUME NEW k, NEW m, NEW r, Reaches(k, m, r), NEW S, OutOf(m) \in Seq(S)
    PROVE  IsPrefix(OutOf(m), OutOf(r))
<1> PICK n \in Nat : \E t : t[0] = m /\ t[n] = r /\ Trace(k, t, n)
  BY DEF Reaches
<1>1. PICK t : t[0] = m /\ t[n] = r /\ Trace(k, t, n)
  OBVIOUS
<1>2. PICK V : V = S \cup {YOf(t[i]) : i \in 0 .. n}
  OBVIOUS
<1>3. PICK T : T = {i \in Nat : i <= n => OutOf(t[i]) \in Seq(V) /\ IsPrefix(OutOf(m), OutOf(t[i]))}
  OBVIOUS
<1>4. OutOf(m) \in Seq(V)
  BY <1>2, SeqMonotonic
<1>5. 0 \in T
  BY <1>1, <1>3, <1>4, PrefixOrder
<1>6. ASSUME NEW i \in Nat, i \in T PROVE i + 1 \in T
  <2> SUFFICES ASSUME i + 1 <= n PROVE OutOf(t[i + 1]) \in Seq(V) /\ IsPrefix(OutOf(m), OutOf(t[i + 1]))
    BY <1>3
  <2>1. i + 1 \in 1 .. n /\ (i + 1) - 1 = i /\ i \in 0 .. n /\ i <= n
    OBVIOUS
  <2>2. t[i + 1] = Effect(k, t[i])
    BY <1>1, <2>1 DEF Trace
  <2>3. PICK o \in Seq(V) : o = OutOf(t[i]) /\ IsPrefix(OutOf(m), o)
    BY <1>3, <1>6, <2>1
  <2>4. PICK v \in V : v = YOf(t[i])
    BY <1>2, <2>1
  <2>5. OutOf(t[i + 1]) = o \/ OutOf(t[i + 1]) = Append(o, v)
    BY <2>2, <2>3, <2>4, OutOfEffect
  <2>6. Append(o, v) \in Seq(V) /\ IsPrefix(o, Append(o, v))
    BY PrefixOrder
  <2>7. IsPrefix(OutOf(m), Append(o, v))
    BY <1>4, <2>3, <2>6, PrefixOrder
  <2> QED
    BY <2>3, <2>5, <2>6, <2>7
<1>7. n \in T
  BY <1>5, <1>6, EveryNumber
<1> QED
  BY <1>1, <1>3, <1>7

-----------------------------------------------------------------------------
(***************************************************************************)
(* Whole programs.                                                         *)
(***************************************************************************)
AtBoot == St(1, 0, 0, 0, 0, 0, << >>, << >>)

LEMMA ProloguePiece ==
    /\ Fragment(Prologue) /\ Size(Prologue) = 4
    /\ \A k : At(k, 1, Prologue) =>
          /\ k[1] = Instr("LDAI", 0) /\ k[2] = Instr("STA", ZeroSlot)
          /\ k[3] = Instr("LDAI", 1) /\ k[4] = Instr("STA", OneSlot)
<1>1. PICK a \in Instructions : a = Instr("LDAI", 0)
  BY InstrIn, SmallInts, SmallOps
<1>2. PICK b \in Instructions : b = Instr("STA", ZeroSlot)
  BY InstrIn, SlotOperands, SmallOps
<1>3. PICK c \in Instructions : c = Instr("LDAI", 1)
  BY InstrIn, SmallInts, SmallOps
<1>4. PICK d \in Instructions : d = Instr("STA", OneSlot)
  BY InstrIn, SlotOperands, SmallOps
<1>5. PICK f : f = << a, b, c, d >>
  OBVIOUS
<1>6. f = Prologue
  BY <1>1, <1>2, <1>3, <1>4, <1>5 DEF Prologue
<1>7. Len(f) = 4 /\ f[1] = a /\ f[2] = b /\ f[3] = c /\ f[4] = d /\ 1 .. 4 = {1, 2, 3, 4}
  BY <1>5
<1>8. ASSUME NEW k, At(k, 1, f) PROVE k[1] = a /\ k[2] = b /\ k[3] = c /\ k[4] = d
  <2>1. k[1 + 1 - 1] = f[1] /\ k[1 + 2 - 1] = f[2] /\ k[1 + 3 - 1] = f[3] /\ k[1 + 4 - 1] = f[4]
    BY <1>7, <1>8 DEF At
  <2>2. 1 + 1 - 1 = 1 /\ 1 + 2 - 1 = 2 /\ 1 + 3 - 1 = 3 /\ 1 + 4 - 1 = 4
    OBVIOUS
  <2> QED
    BY <1>7, <2>1, <2>2
<1>9. Fragment(f)
  BY <1>5 DEF Fragment
<1> QED
  BY <1>1, <1>2, <1>3, <1>4, <1>6, <1>7, <1>8, <1>9 DEF Size

\* The code of a program is the prologue, that of its statements, and BRK.
LEMMA ProgramParts ==
    ASSUME NEW block, Fragment(Instrs(block)), NEW k, k = ProgramCode(block)
    PROVE  /\ At(k, 1, Prologue) /\ At(k, 5, Instrs(block))
           /\ Size(Instrs(block)) \in Nat /\ k[5 + Size(Instrs(block))].op = "BRK"
<1>1. PICK f : f = Instrs(block) /\ Fragment(f)
  OBVIOUS
<1>2. PICK e : e = One("BRK", 0)
  OBVIOUS
<1>3. /\ Fragment(e) /\ Size(e) = 1
      /\ \A i : \A p \in Nat : At(i, p, e) => i[p] = Instr("BRK", 0)
  <2>1. 0 \in Operands /\ "BRK" \in Ops
    BY SmallInts DEF Ops
  <2> QED
    BY <1>2, <2>1, Piece
<1>4. PICK g : g = Cat(Prologue, f) /\ Fragment(g) /\ Size(g) = 4 + Size(f)
  BY <1>1, ProloguePiece, CatSize
<1>5. k = Cat(g, e)
  BY <1>1, <1>2, <1>4 DEF ProgramCode, Epilogue, Instrs, Cat, One
<1>6. Fragment(k)
  BY <1>3, <1>4, <1>5, CatSize
<1>7. At(k, 1, k)
  <2>1. \A i \in 1 .. Len(k) : 1 + i - 1 = i
    OBVIOUS
  <2> QED
    BY <2>1 DEF At
<1>8. At(k, 1, g) /\ At(k, 1 + Size(g), e)
  <2>1. At(k, 1, Cat(g, e))
    BY <1>5, <1>7
  <2>2. \A p \in Nat : At(k, p, Cat(g, e)) => At(k, p, g) /\ At(k, p + Size(g), e)
    BY <1>3, <1>4, CatParts
  <2> QED
    BY <2>1, <2>2
<1>9. At(k, 1, Prologue) /\ At(k, 1 + 4, f) /\ Size(f) \in Nat
  <2>1. \A p \in Nat : At(k, p, Cat(Prologue, f)) => At(k, p, Prologue) /\ At(k, p + Size(Prologue), f)
    BY <1>1, ProloguePiece, CatParts
  <2>2. At(k, 1, Prologue) /\ At(k, 1 + Size(Prologue), f)
    BY <1>4, <1>8, <2>1
  <2> QED
    BY <1>1, <2>2, ProloguePiece, CatParts
<1>10. 1 + Size(g) = 5 + Size(f) /\ 5 + Size(f) \in Nat /\ 1 + 4 = 5
  BY <1>4, <1>9
<1>11. k[5 + Size(f)] = Instr("BRK", 0)
  BY <1>3, <1>8, <1>10
<1> QED
  BY <1>1, <1>9, <1>10, <1>11 DEF Instr

\* A state while the prologue runs; a step of it.
Early(p, a, f) == St(p, a, 0, 0, 0, 0, f, << >>)

LEMMA EarlyStep ==
    ASSUME NEW k, NEW p \in Nat, NEW a, NEW f, IsState(Early(p, a, f)),
           NEW q, q = p + 1, NEW b \in Byte, NEW g, \A i : Val(g, i) \in Byte,
           Effect(k, Early(p, a, f)) = Early(q, b, g)
    PROVE  Goes(k, Early(p, a, f), Early(q, b, g))
<1>1. 0 \in Byte /\ << >> \in Seq(Byte) /\ 0 \in {0, 1} /\ q \in Nat
  BY SmallBytes
<1>2. Effect(k, Early(p, a, f)) = St(q, b, 0, 0, 0, 0, g, << >>)
  BY DEF Early
<1>3. Goes(k, Early(p, a, f), St(q, b, 0, 0, 0, 0, g, << >>))
  BY <1>1, <1>2, GoesTo
<1> QED
  BY <1>3 DEF Early

LEMMA Booting ==
    ASSUME NEW k, At(k, 1, Prologue), NEW fuel \in Nat
    PROVE  /\ IsRun(Started(fuel)) /\ FuelIn(Started(fuel)) = fuel
           /\ \E m : Goes(k, AtBoot, m) /\ PcOf(m) = 5 /\ Mirrors(m, Started(fuel))
<1>1. PICK s : s = Started(fuel)
  OBVIOUS
<1>2. /\ s = [store |-> << >>, out |-> << >>, fuel |-> fuel]
      /\ StoreIn(s) = << >> /\ OutIn(s) = << >> /\ FuelIn(s) = fuel
  BY <1>1 DEF Started, StoreIn, OutIn, FuelIn
<1>3. \A i : Val(<< >>, i) = 0
  BY DEF Val
<1>4. IsRun(s)
  BY <1>2, <1>3, SmallBytes DEF IsRun, Values6502
<1>5. /\ k[1] = Instr("LDAI", 0) /\ k[2] = Instr("STA", ZeroSlot)
      /\ k[3] = Instr("LDAI", 1) /\ k[4] = Instr("STA", OneSlot)
  BY ProloguePiece
<1>6. /\ k[1].op = "LDAI" /\ k[1].arg = 0 /\ k[2].op = "STA" /\ k[2].arg = ZeroSlot
      /\ k[3].op = "LDAI" /\ k[3].arg = 1 /\ k[4].op = "STA" /\ k[4].arg = OneSlot
  BY <1>5 DEF Instr
<1>7. 0 \in Byte /\ 1 \in Byte /\ << >> \in Seq(Byte) /\ 0 \in {0, 1}
  BY SmallBytes
<1>8. PICK f : f = Put(<< >>, ZeroSlot, 0)
  OBVIOUS
<1>9. PICK g : g = Put(f, OneSlot, 1)
  OBVIOUS
<1>10. \A i : Val(f, i) = 0 /\ Val(g, i) = IF i = OneSlot THEN 1 ELSE 0
  BY <1>3, <1>8, <1>9, ValPut
<1>11. \A i : Val(<< >>, i) \in Byte /\ Val(f, i) \in Byte /\ Val(g, i) \in Byte
  BY <1>3, <1>7, <1>10
<1>12. AtBoot = Early(1, 0, << >>) /\ IsState(Early(1, 0, << >>))
  BY <1>7, <1>11, StateOf DEF AtBoot, Early
<1>13. 1 + 1 = 2 /\ 2 + 1 = 3 /\ 3 + 1 = 4 /\ 4 + 1 = 5
  OBVIOUS
<1>14. /\ Effect(k, Early(1, 0, << >>)) = Early(1 + 1, 0, << >>)
       /\ Effect(k, Early(2, 0, << >>)) = Early(2 + 1, 0, f)
       /\ Effect(k, Early(3, 0, f)) = Early(3 + 1, 1, f)
       /\ Effect(k, Early(4, 1, f)) = Early(4 + 1, 1, g)
  BY <1>6, <1>8, <1>9, EffectOf DEF Early
<1>15. Goes(k, Early(1, 0, << >>), Early(2, 0, << >>)) /\ IsState(Early(2, 0, << >>))
  <2>1. Goes(k, Early(1, 0, << >>), Early(2, 0, << >>))
    BY <1>7, <1>11, <1>12, <1>13, <1>14, EarlyStep
  <2> QED
    BY <2>1 DEF Goes
<1>16. Goes(k, Early(2, 0, << >>), Early(3, 0, f)) /\ IsState(Early(3, 0, f))
  <2>1. Goes(k, Early(2, 0, << >>), Early(3, 0, f))
    BY <1>7, <1>11, <1>13, <1>14, <1>15, EarlyStep
  <2> QED
    BY <2>1 DEF Goes
<1>17. Goes(k, Early(3, 0, f), Early(4, 1, f)) /\ IsState(Early(4, 1, f))
  <2>1. Goes(k, Early(3, 0, f), Early(4, 1, f))
    BY <1>7, <1>11, <1>13, <1>14, <1>16, EarlyStep
  <2> QED
    BY <2>1 DEF Goes
<1>18. Goes(k, Early(4, 1, f), Early(5, 1, g))
  BY <1>7, <1>11, <1>13, <1>14, <1>17, EarlyStep
<1>19. Goes(k, AtBoot, St(5, 1, 0, 0, 0, 0, g, << >>))
  BY <1>12, <1>15, <1>16, <1>17, <1>18, GoesOn DEF Early
<1>20. PICK m : /\ Goes(k, AtBoot, m) /\ PcOf(m) = 5 /\ OutOf(m) = << >>
                /\ \A i : Holds(m, i) = Val(g, i)
  BY <1>19, Reached
<1>21. ZeroSlot # OneSlot /\ ZeroSlot \notin VarSlots /\ OneSlot \notin VarSlots
  BY ReservedNames DEF VarSlots, ZeroSlot, OneSlot
<1>22. Mirrors(m, s)
  BY <1>2, <1>3, <1>10, <1>20, <1>21 DEF Mirrors, Ready, Goes
<1> QED
  BY <1>1, <1>2, <1>4, <1>20, <1>22

\* The machine that runs code k gets to r, where it has printed what the source
\* program prints; where the program ends, the machine stops there.
Arrives(k, r, o) ==
    /\ Reaches(k, AtBoot, r) /\ OutOf(r) = o.out /\ OutOf(r) \in Seq(Byte)
    /\ o.ends => Effect(k, r) = r

LEMMA BreakStops == \A k, m : k[PcOf(m)].op = "BRK" => Effect(k, m) = m
  BY DEF Effect, PcOf, Immediate

LEMMA ProgramArrives ==
    ASSUME NEW q, BlockFollows(q), NEW fuel \in Nat, NEW k, k = ProgramCode(Lowered(q, 0)),
           NEW o, o = Outcome(ExecBlock(q, Started(fuel)))
    PROVE  \E r : Arrives(k, r, o)
<1>1. PICK f : f = Instrs(Lowered(q, 0))
  OBVIOUS
<1>2. PICK s : s = Started(fuel)
  OBVIOUS
<1>3. PICK t : t = ExecBlock(q, s)
  OBVIOUS
<1>4. Fragment(f)
  BY <1>1 DEF BlockFollows, Laid
<1>5. At(k, 1, Prologue) /\ At(k, 5, f) /\ Size(f) \in Nat /\ k[5 + Size(f)].op = "BRK"
  BY <1>1, <1>4, ProgramParts
<1>6. PICK m : Goes(k, AtBoot, m) /\ PcOf(m) = 5 /\ Mirrors(m, s) /\ IsRun(s)
  BY <1>2, <1>5, Booting
<1>7. Follows(f, s, t)
  BY <1>1, <1>3, <1>6 DEF BlockFollows
<1>8. o.out = OutIn(t) /\ (o.ends <=> FuelIn(t) > 0)
  BY <1>2, <1>3 DEF Outcome, OutIn, FuelIn
<1>9. CASE FuelIn(t) > 0
  <2>1. PICK r : Goes(k, m, r) /\ PcOf(r) = 5 + Size(f) /\ Mirrors(r, t)
    BY <1>5, <1>6, <1>7, <1>9 DEF Follows, Runs
  <2>2. Goes(k, AtBoot, r) /\ OutOf(r) = OutIn(t)
    BY <1>6, <2>1, GoesOn DEF Mirrors
  <2>3. OutOf(r) \in Seq(Byte)
    BY <2>2, PartsOf DEF Goes
  <2>4. Effect(k, r) = r
    BY <1>5, <2>1, BreakStops
  <2> QED
    BY <1>8, <2>2, <2>3, <2>4 DEF Arrives, Goes
<1>10. CASE ~ (FuelIn(t) > 0)
  <2>1. Prints(f, s, t)
    BY <1>7, RunFollows
  <2>2. PICK r : Goes(k, m, r) /\ OutOf(r) = OutIn(t)
    BY <1>5, <1>6, <2>1 DEF Prints
  <2>3. Goes(k, AtBoot, r)
    BY <1>6, <2>2, GoesOn
  <2>4. OutOf(r) \in Seq(Byte)
    BY <2>3, PartsOf DEF Goes
  <2> QED
    BY <1>8, <1>10, <2>2, <2>3, <2>4 DEF Arrives, Goes
<1> QED
  BY <1>9, <1>10

\* On the way to r, or past it.
OnTheWay(k, r, o) ==
    Compiled =>
        /\ code = k /\ meant = o
        /\ \E V : out \in Seq(V)
        /\ Reaches(k, Now, r) \/ Reaches(k, r, Now)
        /\ halted => Effect(k, Now) = Now

LEMMA OffTheWay ==
    ASSUME NEW CONSTANT k, NEW CONSTANT r, NEW CONSTANT o, Off
    PROVE  OnTheWay(k, r, o)
  BY DEF Off, Compiled, OnTheWay

LEMMA LoadedOnTheWay ==
    ASSUME NEW CONSTANT k, NEW CONSTANT r, NEW CONSTANT o, Arrives(k, r, o), Loaded(k, o)
    PROVE  OnTheWay(k, r, o)'
<1>1. code' = k /\ meant' = o /\ out' = << >> /\ ~halted'
  BY DEF Loaded, Boot
<1>2. Now' = AtBoot
  BY DEF Loaded, Boot, Now, AtBoot, Bit
<1>3. out' \in Seq({})
  BY <1>1
<1> QED
  BY <1>1, <1>2, <1>3 DEF OnTheWay, Arrives

LEMMA StepParts ==
    ASSUME CpuStep
    PROVE  /\ ~halted /\ code' = code
           /\ out' = out \/ out' = Append(out, regY)
           /\ code[pc].op = "BRK" => Now' = Now
           /\ code[pc].op # "BRK" => Now' = Effect(code, Now) /\ ~halted'
<1>1. CASE code[pc].op = "BRK"
  <2>1. Halt
    BY <1>1 DEF CpuStep, LoadA, LoadX, LoadY, StoreA, Increment, AddWithCarry,
                CompareX, BranchNotEqual, SystemCall, Fetch
  <2> QED
    BY <1>1, <2>1 DEF Halt, Fetch, registers, flags, Now
<1>2. CASE code[pc].op # "BRK"
  <2>1. Now' = Effect(code, Now) /\ code' = code
    BY <1>2, StepIsEffect
  <2>2. ~Halt
    BY <1>2 DEF Halt, Fetch
  <2>3. /\ ~halted /\ halted' = halted
        /\ out' = out \/ out' = Append(out, regY)
    BY <2>2 DEF CpuStep, LoadA, LoadX, LoadY, StoreA, Increment, AddWithCarry,
                CompareX, BranchNotEqual, SystemCall, Fetch, Advance
  <2> QED
    BY <1>2, <2>1, <2>3
<1> QED
  BY <1>1, <1>2

LEMMA StepOnTheWay ==
    ASSUME NEW CONSTANT k, NEW CONSTANT r, NEW CONSTANT o,
           OnTheWay(k, r, o), Compiled, MachineRuns
    PROVE  OnTheWay(k, r, o)'
<1>1. /\ code = k /\ meant = o /\ meant' = o /\ CpuStep
      /\ Reaches(k, Now, r) \/ Reaches(k, r, Now)
  BY DEF OnTheWay, MachineRuns
<1>2. /\ ~halted /\ code' = k
      /\ out' = out \/ out' = Append(out, regY)
      /\ k[pc].op = "BRK" => Now' = Now
      /\ k[pc].op # "BRK" => Now' = Effect(k, Now) /\ ~halted'
  BY <1>1, StepParts
<1>3. \E V : out' \in Seq(V)
  <2>1. PICK V : out \in Seq(V)
    BY DEF OnTheWay
  <2>2. PICK W : W = V \cup {regY}
    OBVIOUS
  <2>3. out \in Seq(W) /\ regY \in W
    BY <2>1, <2>2, SeqMonotonic
  <2>4. Append(out, regY) \in Seq(W)
    BY <2>3
  <2> QED
    BY <1>2, <2>3, <2>4
<1>4. k[pc].op = "BRK" => Effect(k, Now) = Now
  <2>1. PcOf(Now) = pc
    BY FieldsOf DEF PcOf, Now
  <2> QED
    BY <2>1, BreakStops
<1>5. Reaches(k, Now', r) \/ Reaches(k, r, Now')
  <2>1. CASE k[pc].op = "BRK"
    BY <1>1, <1>2, <2>1
  <2>2. CASE k[pc].op # "BRK"
    <3>1. Reaches(k, Now, r) /\ r # Now => Reaches(k, Effect(k, Now), r)
      BY NextOnTheWay
    <3>2. Reaches(k, r, Now) => Reaches(k, r, Effect(k, Now))
      BY OneStep, AndThen
    <3>3. r = Now => Reaches(k, r, Effect(k, Now))
      BY OneStep
    <3> QED
      BY <1>1, <1>2, <2>2, <3>1, <3>2, <3>3
  <2> QED
    BY <2>1, <2>2
<1>6. halted' => Effect(k, Now') = Now'
  BY <1>2, <1>4
<1> QED
  BY <1>1, <1>2, <1>3, <1>5, <1>6 DEF OnTheWay

LEMMA StillOnTheWay ==
    ASSUME NEW CONSTANT k, NEW CONSTANT r, NEW CONSTANT o,
           OnTheWay(k, r, o), UNCHANGED << cpuVars, meant >>
    PROVE  OnTheWay(k, r, o)'
<1>1. Now' = Now /\ code' = code /\ meant' = meant /\ out' = out /\ halted' = halted
  BY DEF cpuVars, registers, flags, Now
<1> QED
  BY <1>1 DEF OnTheWay, Compiled

\* What follows for the output.
LEMMA OutputOnTheWay ==
    ASSUME NEW CONSTANT k, NEW CONSTANT r, NEW CONSTANT o, Arrives(k, r, o), OnTheWay(k, r, o), Compiled
    PROVE  Prefixed(out, meant) /\ (o.ends => Agrees(out, halted, meant))
<1>1. /\ meant = o /\ (Reaches(k, Now, r) \/ Reaches(k, r, Now))
      /\ halted => Effect(k, Now) = Now
  BY DEF OnTheWay
<1>2. OutOf(r) = o.out /\ OutOf(r) \in Seq(Byte) /\ (o.ends => Effect(k, r) = r)
  BY DEF Arrives
<1>3. OutOf(Now) = out
  BY FieldsOf DEF OutOf, Now
<1>4. Reaches(k, Now, r) => IsPrefix(out, o.out)
  <2>1. PICK V : out \in Seq(V)
    BY DEF OnTheWay
  <2> QED
    BY <1>2, <1>3, <2>1, OutGrows
<1>5. Reaches(k, r, Now) => IsPrefix(o.out, out)
  BY <1>2, <1>3, OutGrows
<1>6. o.ends /\ Reaches(k, r, Now) => out = o.out /\ IsPrefix(out, o.out)
  <2> SUFFICES ASSUME o.ends, Reaches(k, r, Now) PROVE out = o.out /\ IsPrefix(out, o.out)
    OBVIOUS
  <2>1. Now = r
    BY <1>2, StoppedStays
  <2> QED
    BY <1>2, <1>3, <2>1, PrefixOrder
<1>7. halted /\ Reaches(k, Now, r) => out = o.out
  <2> SUFFICES ASSUME halted, Reaches(k, Now, r) PROVE out = o.out
    OBVIOUS
  <2>1. r = Now
    BY <1>1, StoppedStays
  <2> QED
    BY <1>2, <1>3, <2>1
<1>8. Prefixed(out, o)
  BY <1>1, <1>4, <1>5, <1>6 DEF Prefixed
<1>9. o.ends /\ halted => out = o.out
  BY <1>1, <1>6, <1>7
<1> QED
  BY <1>1, <1>8, <1>9 DEF Agrees

\* What one program prints.
LEMMA OneProgramPrints ==
    ASSUME NEW CONSTANT k, NEW CONSTANT r, NEW CONSTANT o, Arrives(k, r, o)
    PROVE  /\ OneProgram(k, o) => [](Compiled => Prefixed(out, meant))
           /\ o.ends => (OneProgram(k, o) => []OutputFollows)
<1>1. Off => OnTheWay(k, r, o)
  BY OffTheWay
<1>2. /\ OnTheWay(k, r, o)
      /\ [(~Compiled /\ Loaded(k, o)) \/ (Compiled /\ MachineRuns)]_<< cpuVars, meant >>
      => OnTheWay(k, r, o)'
  <2>1. ASSUME Loaded(k, o) PROVE OnTheWay(k, r, o)'
    BY <2>1, LoadedOnTheWay
  <2>2. ASSUME OnTheWay(k, r, o), Compiled, MachineRuns PROVE OnTheWay(k, r, o)'
    BY <2>2, StepOnTheWay
  <2>3. ASSUME OnTheWay(k, r, o), UNCHANGED << cpuVars, meant >> PROVE OnTheWay(k, r, o)'
    BY <2>3, StillOnTheWay
  <2> QED
    BY <2>1, <2>2, <2>3
<1>3. OnTheWay(k, r, o) => (Compiled => Prefixed(out, meant))
  BY OutputOnTheWay
<1>4. OneProgram(k, o) => []OnTheWay(k, r, o)
  BY <1>1, <1>2, PTL DEF OneProgram
<1>5. OneProgram(k, o) => [](Compiled => Prefixed(out, meant))
  BY <1>3, <1>4, PTL
<1>6. ASSUME o.ends PROVE OneProgram(k, o) => []OutputFollows
  <2>1. OnTheWay(k, r, o) => OutputFollows
    BY <1>6, OutputOnTheWay DEF OutputFollows
  <2> QED
    BY <1>4, <2>1, PTL
<1> QED
  BY <1>5, <1>6

\* The compiler is right about what a program prints: load the code of a checked
\* program and let the machine run, and at every moment it has printed a prefix
\* of what the source prints, and it halts, if it does, only with all of it
\* printed (visitProgram, generate6502Program; README.md:301, "equivalent form").
\* Where the source still has turns of a loop to take when its fuel is used up,
\* what it has printed by then is a prefix of what the machine prints, or the
\* other way round.
THEOREM ProgramOutput ==
    ASSUME IntMod = WordMod, DeclResets = FALSE,
           NEW CONSTANT T, NEW CONSTANT RankT, Expressions(T, RankT),
           \A e \in T : \A store : Values6502(store) => Meant(e, store),
           NEW CONSTANT Q, NEW CONSTANT RankQ, Statements(T, Q, RankQ),
           NEW CONSTANT q \in Q, NEW CONSTANT fuel \in Nat,
           NEW CONSTANT k, k = ProgramCode(Lowered(q, 0)),
           NEW CONSTANT o, o = Outcome(ExecBlock(q, Started(fuel)))
    PROVE  /\ OneProgram(k, o) => [](Compiled => Prefixed(out, meant))
           /\ o.ends => (OneProgram(k, o) => []OutputFollows)
<1>1. BlockFollows(q)
  BY StatementCode
<1>2. \E r : Arrives(k, r, o)
  BY <1>1, ProgramArrives
<1>3. PICK r : Arrives(k, r, o)
  BY <1>2
<1> QED
  BY <1>3, OneProgramPrints

-----------------------------------------------------------------------------
(***************************************************************************)
(* The code of a program is code the machine may be given.                 *)
(***************************************************************************)
OpAt(f, i)  == f[i].op
ArgAt(f, i) == f[i].arg

\* An instruction that does no harm, wherever it lies; a branch that stays in
\* the fragment, or leads behind it, and never to a system call.
Fits(f, i) ==
    /\ OpAt(f, i) \in Ops \ {"BRK"}
    /\ OpAt(f, i) \in Immediate => ArgAt(f, i) \in Byte
    /\ OpAt(f, i) \in Stores => ArgAt(f, i) \notin Constants
    /\ OpAt(f, i) = "SYS" => i > 1 /\ OpAt(f, i - 1) = "LDXI" /\ ArgAt(f, i - 1) \in Services
Lands(f, i) ==
    OpAt(f, i) = "BNE" =>
        LET t == i + 1 + ArgAt(f, i)
        IN ArgAt(f, i) \in Int /\ t \in 1 .. Size(f) + 1 /\ (t <= Size(f) => OpAt(f, t) # "SYS")
Contained(f) == Fragment(f) /\ \A i \in 1 .. Size(f) : Fits(f, i) /\ Lands(f, i)

\* A contained fragment in a larger one.
LEMMA Moved ==
    ASSUME NEW f, Contained(f), NEW h, NEW o \in Nat, Size(f) \in Nat, Size(h) \in Nat,
           \A i \in 1 .. Size(f) : h[o + i] = f[i], o + Size(f) <= Size(h),
           o + Size(f) < Size(h) => OpAt(h, o + Size(f) + 1) # "SYS"
    PROVE  \A i \in 1 .. Size(f) : Fits(h, o + i) /\ Lands(h, o + i)
<1>1. PICK n \in Nat : n = Size(f)
  OBVIOUS
<1>2. PICK j \in Nat : j = Size(h)
  OBVIOUS
<1>3. \A i \in 1 .. n : OpAt(h, o + i) = OpAt(f, i) /\ ArgAt(h, o + i) = ArgAt(f, i)
  BY <1>1 DEF OpAt, ArgAt
<1> SUFFICES ASSUME NEW i \in 1 .. n PROVE Fits(h, o + i) /\ Lands(h, o + i)
  BY <1>1
<1>4. Fits(f, i) /\ Lands(f, i)
  BY <1>1 DEF Contained
<1>5. Fits(h, o + i)
  <2>1. OpAt(f, i) = "SYS" => o + i > 1 /\ OpAt(h, o + i - 1) = OpAt(f, i - 1) /\ ArgAt(h, o + i - 1) = ArgAt(f, i - 1)
    <3> SUFFICES ASSUME OpAt(f, i) = "SYS"
                 PROVE  o + i > 1 /\ OpAt(h, o + i - 1) = OpAt(f, i - 1) /\ ArgAt(h, o + i - 1) = ArgAt(f, i - 1)
      OBVIOUS
    <3>1. i - 1 \in 1 .. n /\ o + (i - 1) = o + i - 1 /\ o + i > 1
      BY <1>4 DEF Fits
    <3> QED
      BY <1>3, <3>1
  <2> QED
    BY <1>3, <1>4, <2>1 DEF Fits
<1>6. Lands(h, o + i)
  <2> SUFFICES ASSUME OpAt(f, i) = "BNE" PROVE Lands(h, o + i)
    BY <1>3 DEF Lands
  <2>1. PICK a \in Int : a = ArgAt(f, i)
    BY <1>4 DEF Lands
  <2>2. i + 1 + a \in 1 .. n + 1 /\ (i + 1 + a <= n => OpAt(f, i + 1 + a) # "SYS")
    BY <1>1, <1>4, <2>1 DEF Lands
  <2>3. PICK t \in 1 .. n + 1 : t = i + 1 + a
    BY <2>2
  <2>4. o + i + 1 + a = o + t /\ o + t \in 1 .. j + 1 /\ ArgAt(h, o + i) = a
    BY <1>1, <1>2, <1>3, <2>1, <2>3
  <2>5. CASE t <= n
    <3>1. OpAt(h, o + t) = OpAt(f, t)
      BY <1>3, <2>5
    <3>2. OpAt(f, t) # "SYS"
      BY <2>2, <2>3, <2>5
    <3> QED
      BY <1>2, <2>1, <2>4, <3>1, <3>2 DEF Lands
  <2>6. CASE t = n + 1
    <3>1. o + t = o + n + 1
      BY <2>6
    <3>2. o + t <= j => OpAt(h, o + t) # "SYS"
      BY <1>1, <1>2, <3>1
    <3> QED
      BY <1>2, <2>1, <2>4, <3>2 DEF Lands
  <2> QED
    BY <2>5, <2>6
<1> QED
  BY <1>5, <1>6

\* Where the instructions of two fragments are in the one they make.
LEMMA CatPlaces ==
    ASSUME NEW f, NEW g, Fragment(f), Fragment(g)
    PROVE  LET h == Cat(f, g)
           IN /\ Fragment(h) /\ Size(f) \in Nat /\ Size(g) \in Nat /\ Size(h) = Size(f) + Size(g)
              /\ \A i \in 1 .. Size(f) : h[i] = f[i]
              /\ \A i \in 1 .. Size(g) : h[Size(f) + i] = g[i]
<1>1. /\ Len(f) \in Nat /\ Len(g) \in Nat /\ Len(f \o g) = Len(f) + Len(g)
      /\ f \o g \in Seq(Instructions)
      /\ \A i \in 1 .. Len(f) : (f \o g)[i] = f[i]
      /\ \A i \in 1 .. Len(g) : (f \o g)[Len(f) + i] = g[i]
  BY ConcatProperties, LenProperties DEF Fragment
<1> QED
  BY <1>1 DEF Fragment, Cat, Size

\* No contained fragment starts with a system call.
LEMMA FirstNoCall ==
    ASSUME NEW f, Contained(f), Size(f) \in Nat, Size(f) > 0
    PROVE  OpAt(f, 1) # "SYS"
<1>1. Fits(f, 1)
  BY DEF Contained
<1> QED
  BY <1>1 DEF Fits

LEMMA CatContained ==
    ASSUME NEW f, NEW g, Contained(f), Contained(g)
    PROVE  Contained(Cat(f, g))
<1>1. PICK h : h = Cat(f, g)
  OBVIOUS
<1>2. PICK n \in Nat : n = Size(f)
  BY CatPlaces DEF Contained
<1>3. PICK j \in Nat : j = Size(g)
  BY CatPlaces DEF Contained
<1>4. /\ Fragment(h) /\ Size(h) = n + j
      /\ \A i \in 1 .. n : h[i] = f[i]
      /\ \A i \in 1 .. j : h[n + i] = g[i]
  BY <1>1, <1>2, <1>3, CatPlaces DEF Contained
<1>5. \A i \in 1 .. n : Fits(h, i) /\ Lands(h, i)
  <2>1. n < n + j => OpAt(h, n + 1) # "SYS"
    <3> SUFFICES ASSUME j > 0 PROVE OpAt(h, n + 1) # "SYS"
      OBVIOUS
    <3>1. h[n + 1] = g[1]
      BY <1>4
    <3> QED
      BY <1>3, <3>1, FirstNoCall DEF OpAt
  <2>2. /\ \A i \in 1 .. n : h[0 + i] = f[i]
        /\ 0 + n <= n + j /\ (0 + n < n + j => OpAt(h, 0 + n + 1) # "SYS")
        /\ 0 \in Nat
    BY <1>4, <2>1
  <2>3. \A i \in 1 .. n : Fits(h, 0 + i) /\ Lands(h, 0 + i)
    BY <1>2, <1>4, <2>2, Moved
  <2> QED
    BY <2>3
<1>6. \A i \in 1 .. j : Fits(h, n + i) /\ Lands(h, n + i)
  <2>1. n + j <= n + j /\ ~ (n + j < n + j) /\ n + j \in Nat
    OBVIOUS
  <2> QED
    BY <1>3, <1>4, <2>1, Moved
<1>7. ASSUME NEW i \in 1 .. n + j PROVE Fits(h, i) /\ Lands(h, i)
  <2>1. CASE i <= n
    BY <1>5, <2>1
  <2>2. CASE i > n
    <3>1. i - n \in 1 .. j /\ n + (i - n) = i
      BY <2>2
    <3> QED
      BY <1>6, <3>1
  <2> QED
    BY <2>1, <2>2
<1> QED
  BY <1>1, <1>4, <1>7 DEF Contained

\* The code of an if: where the condition does not hold, the body is skipped.
LEMMA GuardContained ==
    ASSUME NEW p, NEW b, Contained(p), Contained(b)
    PROVE  Contained(Cat(Cat(p, One("BNE", Size(b))), b))
<1>1. PICK n \in Nat : n = Size(p)
  BY CatPlaces DEF Contained
<1>2. PICK j \in Nat : j = Size(b)
  BY CatPlaces DEF Contained
<1>3. PICK i : i = One("BNE", j)
  OBVIOUS
<1>4. Fragment(i) /\ Size(i) = 1 /\ OpAt(i, 1) = "BNE" /\ ArgAt(i, 1) = j
  <2>1. "BNE" \in Ops /\ j \in Operands
    BY DEF Ops, Operands
  <2>2. i[1] = Instr("BNE", j)
    BY <1>3 DEF One
  <2> QED
    BY <1>3, <2>1, <2>2, Piece, InstrIn DEF OpAt, ArgAt
<1>5. PICK g : g = Cat(p, i)
  OBVIOUS
<1>6. /\ Fragment(g) /\ Size(g) = n + 1
      /\ \A d \in 1 .. n : g[d] = p[d]
      /\ g[n + 1] = i[1]
  <2>1. 1 \in 1 .. 1
    OBVIOUS
  <2> QED
    BY <1>1, <1>4, <1>5, <2>1, CatPlaces DEF Contained
<1>7. PICK h : h = Cat(g, b)
  OBVIOUS
<1>8. /\ Fragment(h) /\ Size(h) = n + 1 + j
      /\ \A d \in 1 .. n + 1 : h[d] = g[d]
      /\ \A d \in 1 .. j : h[n + 1 + d] = b[d]
  BY <1>2, <1>6, <1>7, CatPlaces DEF Contained
<1>9. (\A d \in 1 .. n : h[d] = p[d]) /\ OpAt(h, n + 1) = "BNE" /\ ArgAt(h, n + 1) = j
  <2>1. h[n + 1] = i[1]
    BY <1>6, <1>8
  <2> QED
    BY <1>4, <1>6, <1>8, <2>1 DEF OpAt, ArgAt
<1>10. \A d \in 1 .. n : Fits(h, d) /\ Lands(h, d)
  <2>1. /\ \A d \in 1 .. n : h[0 + d] = p[d]
        /\ 0 + n <= n + 1 + j /\ OpAt(h, 0 + n + 1) # "SYS" /\ n + 1 + j \in Nat /\ 0 \in Nat
    BY <1>9
  <2>2. \A d \in 1 .. n : Fits(h, 0 + d) /\ Lands(h, 0 + d)
    BY <1>1, <1>8, <2>1, Moved
  <2> QED
    BY <2>2
<1>11. \A d \in 1 .. j : Fits(h, n + 1 + d) /\ Lands(h, n + 1 + d)
  <2>1. n + 1 + j <= n + 1 + j /\ ~ (n + 1 + j < n + 1 + j) /\ n + 1 + j \in Nat /\ n + 1 \in Nat
    OBVIOUS
  <2> QED
    BY <1>2, <1>8, <2>1, Moved
<1>12. Fits(h, n + 1) /\ Lands(h, n + 1)
  <2>1. "BNE" \in Ops \ {"BRK"} /\ "BNE" \notin Immediate /\ "BNE" \notin Stores
    BY DEF Ops, Immediate, Stores
  <2>2. n + 1 + 1 + j = n + 1 + j + 1 /\ n + 1 + 1 + j \in 1 .. n + 1 + j + 1 /\ ~ (n + 1 + 1 + j <= n + 1 + j)
    OBVIOUS
  <2> QED
    BY <1>8, <1>9, <2>1, <2>2 DEF Fits, Lands
<1>13. ASSUME NEW d \in 1 .. n + 1 + j PROVE Fits(h, d) /\ Lands(h, d)
  <2>1. CASE d <= n
    BY <1>10, <2>1
  <2>2. CASE d = n + 1
    BY <1>12, <2>2
  <2>3. CASE d > n + 1
    <3>1. d - (n + 1) \in 1 .. j /\ n + 1 + (d - (n + 1)) = d
      BY <2>3
    <3> QED
      BY <1>11, <3>1
  <2> QED
    BY <2>1, <2>2, <2>3
<1> QED
  BY <1>2, <1>3, <1>5, <1>7, <1>8, <1>13 DEF Contained

\* The code of a while: a branch behind the body leads to the condition.
LEMMA LoopContained ==
    ASSUME NEW p, NEW u, Contained(p), Contained(u)
    PROVE  Contained(LoopCode(p, u))
<1>1. PICK n \in Nat : n = Size(p)
  BY CatPlaces DEF Contained
<1>2. PICK j \in Nat : j = Size(u)
  BY CatPlaces DEF Contained
<1>3. PICK a : a = One("BNE", j + 1)
  OBVIOUS
<1>4. PICK z : z = One("BNE", -(n + j + 2))
  OBVIOUS
<1>5. \A d \in Int : LET i == One("BNE", d)
                     IN Fragment(i) /\ Size(i) = 1 /\ OpAt(i, 1) = "BNE" /\ ArgAt(i, 1) = d
  <2> SUFFICES ASSUME NEW d \in Int, NEW i, i = One("BNE", d)
               PROVE  Fragment(i) /\ Size(i) = 1 /\ OpAt(i, 1) = "BNE" /\ ArgAt(i, 1) = d
    OBVIOUS
  <2>1. "BNE" \in Ops /\ d \in Operands
    BY DEF Ops, Operands
  <2>2. i[1] = Instr("BNE", d)
    BY DEF One
  <2> QED
    BY <2>1, <2>2, Piece, InstrIn DEF OpAt, ArgAt
<1>6. /\ Fragment(a) /\ Size(a) = 1 /\ OpAt(a, 1) = "BNE" /\ ArgAt(a, 1) = j + 1
      /\ Fragment(z) /\ Size(z) = 1 /\ OpAt(z, 1) = "BNE" /\ ArgAt(z, 1) = -(n + j + 2)
      /\ 1 \in 1 .. 1
  BY <1>3, <1>4, <1>5
<1>7. PICK g : g = Cat(p, a)
  OBVIOUS
<1>8. /\ Fragment(g) /\ Size(g) = n + 1
      /\ \A d \in 1 .. n : g[d] = p[d]
      /\ g[n + 1] = a[1]
  BY <1>1, <1>6, <1>7, CatPlaces DEF Contained
<1>9. PICK v : v = Cat(g, u)
  OBVIOUS
<1>10. /\ Fragment(v) /\ Size(v) = n + 1 + j
       /\ \A d \in 1 .. n + 1 : v[d] = g[d]
       /\ \A d \in 1 .. j : v[n + 1 + d] = u[d]
  BY <1>2, <1>8, <1>9, CatPlaces DEF Contained
<1>11. PICK h : h = Cat(v, z)
  OBVIOUS
<1>12. PICK s \in Nat : s = n + 1 + j
  OBVIOUS
<1>13. /\ Fragment(h) /\ Size(h) = s + 1
       /\ \A d \in 1 .. s : h[d] = v[d]
       /\ h[s + 1] = z[1]
  BY <1>6, <1>10, <1>11, <1>12, CatPlaces
<1>14. (\A d \in 1 .. n : h[d] = p[d]) /\ (\A d \in 1 .. j : h[n + 1 + d] = u[d])
  <2>1. \A d \in 1 .. n : d \in 1 .. s /\ d \in 1 .. n + 1
    BY <1>12
  <2>2. \A d \in 1 .. j : n + 1 + d \in 1 .. s
    BY <1>12
  <2> QED
    BY <1>8, <1>10, <1>13, <2>1, <2>2
<1>15. OpAt(h, n + 1) = "BNE" /\ ArgAt(h, n + 1) = j + 1
  <2>1. n + 1 \in 1 .. s /\ n + 1 \in 1 .. n + 1
    BY <1>12
  <2>2. h[n + 1] = a[1]
    BY <1>8, <1>10, <1>13, <2>1
  <2> QED
    BY <1>6, <2>2 DEF OpAt, ArgAt
<1>16. OpAt(h, s + 1) = "BNE" /\ ArgAt(h, s + 1) = -(n + j + 2)
  BY <1>6, <1>13 DEF OpAt, ArgAt
<1>17. \A d \in 1 .. n : Fits(h, d) /\ Lands(h, d)
  <2>1. /\ \A d \in 1 .. n : h[0 + d] = p[d]
        /\ 0 + n <= s + 1 /\ OpAt(h, 0 + n + 1) # "SYS" /\ s + 1 \in Nat /\ 0 \in Nat
    BY <1>12, <1>14, <1>15
  <2>2. \A d \in 1 .. n : Fits(h, 0 + d) /\ Lands(h, 0 + d)
    BY <1>1, <1>13, <2>1, Moved
  <2> QED
    BY <2>2
<1>18. \A d \in 1 .. j : Fits(h, n + 1 + d) /\ Lands(h, n + 1 + d)
  <2>1. n + 1 + j <= s + 1 /\ OpAt(h, n + 1 + j + 1) # "SYS" /\ s + 1 \in Nat /\ n + 1 \in Nat
    BY <1>12, <1>16
  <2> QED
    BY <1>2, <1>13, <1>14, <2>1, Moved
<1>19. "BNE" \in Ops \ {"BRK"} /\ "BNE" \notin Immediate /\ "BNE" \notin Stores
  BY DEF Ops, Immediate, Stores
<1>20. Fits(h, n + 1) /\ Lands(h, n + 1)
  <2>1. LET t == n + 1 + 1 + (j + 1) IN t \in 1 .. s + 1 + 1 /\ ~ (t <= s + 1) /\ j + 1 \in Int
    BY <1>12
  <2> QED
    BY <1>13, <1>15, <1>19, <2>1 DEF Fits, Lands
<1>21. Fits(h, s + 1) /\ Lands(h, s + 1)
  <2>1. s + 1 + 1 + -(n + j + 2) = 1 /\ 1 \in 1 .. s + 1 + 1 /\ -(n + j + 2) \in Int
    BY <1>12
  <2>2. OpAt(h, 1) # "SYS"
    <3>1. CASE n = 0
      BY <1>15, <3>1
    <3>2. CASE n > 0
      <4>1. h[1] = p[1]
        BY <1>14, <3>2
      <4> QED
        BY <1>1, <3>2, <4>1, FirstNoCall DEF OpAt
    <3> QED
      BY <3>1, <3>2
  <2> QED
    BY <1>13, <1>16, <1>19, <2>1, <2>2 DEF Fits, Lands
<1>22. ASSUME NEW d \in 1 .. s + 1 PROVE Fits(h, d) /\ Lands(h, d)
  <2>1. CASE d <= n
    BY <1>17, <2>1
  <2>2. CASE d = n + 1
    BY <1>20, <2>2
  <2>3. CASE d > n + 1 /\ d <= s
    <3>1. d - (n + 1) \in 1 .. j /\ n + 1 + (d - (n + 1)) = d
      BY <1>12, <2>3
    <3> QED
      BY <1>18, <3>1
  <2>4. CASE d = s + 1
    BY <1>21, <2>4
  <2> QED
    BY <2>1, <2>2, <2>3, <2>4
<1>23. LoopCode(p, u) = h
  BY <1>1, <1>2, <1>3, <1>4, <1>7, <1>9, <1>11 DEF LoopCode
<1> QED
  BY <1>13, <1>22, <1>23 DEF Contained

\* Instructions that do no harm wherever they lie.
Harmless(op, s) ==
    /\ op \in Ops \ {"BRK", "BNE", "SYS"} /\ s \in Operands
    /\ op \in Immediate => s \in Byte
    /\ op \in Stores => s \notin Constants

LEMMA HarmlessFits ==
    ASSUME NEW f, NEW i, NEW op, NEW s, Harmless(op, s), f[i] = Instr(op, s)
    PROVE  Fits(f, i) /\ Lands(f, i)
<1>1. OpAt(f, i) = op /\ ArgAt(f, i) = s
  BY InstrIn DEF Harmless, OpAt, ArgAt
<1> QED
  BY <1>1 DEF Harmless, Fits, Lands

LEMMA OneContained ==
    ASSUME NEW op, NEW s, Harmless(op, s)
    PROVE  Contained(One(op, s))
<1>1. PICK f : f = One(op, s)
  OBVIOUS
<1>2. Fragment(f) /\ Size(f) = 1
  BY <1>1, Piece DEF Harmless
<1>3. f[1] = Instr(op, s)
  BY <1>1 DEF One
<1>4. \A i \in 1 .. 1 : i = 1
  OBVIOUS
<1> QED
  BY <1>1, <1>2, <1>3, <1>4, HarmlessFits DEF Contained

LEMMA TwoContained ==
    ASSUME NEW op1, NEW s1, NEW op2, NEW s2, Harmless(op1, s1), Harmless(op2, s2)
    PROVE  Contained(Two(op1, s1, op2, s2))
<1>1. Two(op1, s1, op2, s2) = Cat(One(op1, s1), One(op2, s2))
  BY TwoOnes DEF Two, One, Cat
<1> QED
  BY <1>1, OneContained, CatContained

LEMMA ThreeContained ==
    ASSUME NEW op1, NEW s1, NEW op2, NEW s2, NEW op3, NEW s3,
           Harmless(op1, s1), Harmless(op2, s2), Harmless(op3, s3)
    PROVE  Contained(Three(op1, s1, op2, s2, op3, s3))
<1>1. PICK f : f = Three(op1, s1, op2, s2, op3, s3)
  OBVIOUS
<1>2. Fragment(f) /\ Size(f) = 3
  BY <1>1, PieceThree DEF Harmless
<1>3. f[1] = Instr(op1, s1) /\ f[2] = Instr(op2, s2) /\ f[3] = Instr(op3, s3)
  BY <1>1 DEF Three
<1>4. \A i \in 1 .. 3 : i = 1 \/ i = 2 \/ i = 3
  OBVIOUS
<1>5. Fits(f, 1) /\ Lands(f, 1) /\ Fits(f, 2) /\ Lands(f, 2) /\ Fits(f, 3) /\ Lands(f, 3)
  BY <1>3, HarmlessFits
<1> QED
  BY <1>1, <1>2, <1>4, <1>5 DEF Contained

LEMMA ManyContained ==
    ASSUME NEW op, NEW s, Harmless(op, s), NEW j \in Nat
    PROVE  Contained(Many(op, s, j))
<1>1. PICK f : f = Many(op, s, j)
  OBVIOUS
<1>2. Fragment(f) /\ Size(f) = j
  BY <1>1, PieceMany DEF Harmless
<1>3. \A i \in 1 .. j : f[i] = Instr(op, s)
  BY <1>1 DEF Many
<1>4. \A i \in 1 .. j : Fits(f, i) /\ Lands(f, i)
  BY <1>3, HarmlessFits
<1> QED
  BY <1>1, <1>2, <1>4 DEF Contained

\* The operands of these instructions.
LEMMA HarmlessOnes ==
    /\ \A v \in Byte : \A op \in Immediate : Harmless(op, v)
    /\ \A n \in Nat : \A op \in Loads \cup Stores : Harmless(op, Temp(n))
    /\ \A s \in VarSlots : \A op \in Loads \cup Stores : Harmless(op, s)
    /\ \A op \in Loads : Harmless(op, ZeroSlot) /\ Harmless(op, OneSlot)
    /\ {0, 1, 2} \subseteq Byte /\ {0, 1, 2} \subseteq Services \cup {0}
<1>1. /\ Immediate \cap (Loads \cup Stores) = {} /\ Loads \cap Stores = {}
      /\ Immediate \subseteq Ops \ {"BRK", "BNE", "SYS"}
      /\ Loads \cup Stores \subseteq Ops \ {"BRK", "BNE", "SYS"}
  BY DEF Immediate, Loads, Stores, Ops
<1>2. \A n \in Nat : Temp(n) \in Operands /\ Temp(n) \notin Constants
  BY SlotOperands DEF Temp, Constants, ZeroSlot, OneSlot
<1>3. \A s \in VarSlots : s \in Operands /\ s \notin Constants
  <2> SUFFICES ASSUME NEW name \in Names, NEW scope \in Nat
               PROVE  << name, scope >> \in Operands /\ << name, scope >> \notin Constants
    BY DEF VarSlots
  <2>1. name # "zero" /\ name # "one"
    BY ReservedNames
  <2>2. << name, scope >> # ZeroSlot /\ << name, scope >> # OneSlot
    BY <2>1 DEF ZeroSlot, OneSlot
  <2>3. << name, scope >> \in VarSlots
    BY DEF VarSlots
  <2> QED
    BY <2>2, <2>3, SlotOperands DEF Constants
<1>4. ZeroSlot \in Operands /\ OneSlot \in Operands
  BY SlotOperands
<1>5. \A v \in Byte : \A op \in Immediate : Harmless(op, v)
  BY <1>1, ByteOperands DEF Harmless
<1>6. \A n \in Nat : \A op \in Loads \cup Stores : Harmless(op, Temp(n))
  BY <1>1, <1>2 DEF Harmless
<1>7. \A s \in VarSlots : \A op \in Loads \cup Stores : Harmless(op, s)
  BY <1>1, <1>3 DEF Harmless
<1>8. \A op \in Loads : Harmless(op, ZeroSlot) /\ Harmless(op, OneSlot)
  BY <1>1, <1>4 DEF Harmless
<1>9. {0, 1, 2} \subseteq Services \cup {0}
  BY DEF Services
<1> QED
  BY <1>5, <1>6, <1>7, <1>8, <1>9, SmallBytes

LEMMA AtItself == \A h : At(h, 1, h)
<1>1. \A i \in Int : 1 + i - 1 = i
  OBVIOUS
<1> QED
  BY <1>1 DEF At

\* The pieces with branches of their own.
LEMMA MaterializeContained == Contained(Materialize)
<1>1. PICK h : h = Materialize
  OBVIOUS
<1>2. Fragment(h) /\ Size(h) = 6
  BY <1>1, MaterializeParts
<1>3. /\ h[1] = Instr("LDAI", 1) /\ h[2] = Instr("BNE", 3)
      /\ h[3] = Instr("LDXI", 1) /\ h[4] = Instr("CPX", ZeroSlot)
      /\ h[5] = Instr("BNE", 1) /\ h[6] = Instr("LDAI", 0)
  <2>1. 1 \in Nat /\ 1 + 1 = 2 /\ 1 + 2 = 3 /\ 1 + 3 = 4 /\ 1 + 4 = 5 /\ 1 + 5 = 6
    OBVIOUS
  <2> QED
    BY <1>1, <2>1, AtItself, MaterializeParts
<1>4. /\ Harmless("LDAI", 1) /\ Harmless("LDXI", 1) /\ Harmless("LDAI", 0) /\ Harmless("CPX", ZeroSlot)
  BY HarmlessOnes DEF Immediate, Loads
<1>5. /\ Fits(h, 1) /\ Lands(h, 1) /\ Fits(h, 3) /\ Lands(h, 3)
      /\ Fits(h, 4) /\ Lands(h, 4) /\ Fits(h, 6) /\ Lands(h, 6)
  BY <1>3, <1>4, HarmlessFits
<1>6. /\ OpAt(h, 2) = "BNE" /\ ArgAt(h, 2) = 3 /\ OpAt(h, 5) = "BNE" /\ ArgAt(h, 5) = 1
      /\ OpAt(h, 6) = "LDAI"
  BY <1>3 DEF OpAt, ArgAt, Instr
<1>7. "BNE" \in Ops \ {"BRK"} /\ "BNE" \notin Immediate /\ "BNE" \notin Stores
  BY DEF Ops, Immediate, Stores
<1>8. Fits(h, 2) /\ Lands(h, 2) /\ Fits(h, 5) /\ Lands(h, 5)
  <2>1. 2 + 1 + 3 = 6 /\ 5 + 1 + 1 = 7 /\ 6 \in 1 .. 6 + 1 /\ 7 \in 1 .. 6 + 1
    OBVIOUS
  <2> QED
    BY <1>2, <1>6, <1>7, <2>1 DEF Fits, Lands
<1>9. \A i \in 1 .. 6 : i \in {1, 2, 3, 4, 5, 6}
  OBVIOUS
<1> QED
  BY <1>1, <1>2, <1>5, <1>8, <1>9 DEF Contained

LEMMA InvertContained == Contained(InvertZ)
<1>1. PICK h : h = InvertZ
  OBVIOUS
<1>2. Fragment(h) /\ Size(h) = 6
  BY <1>1, InvertParts
<1>3. /\ h[1] = Instr("BNE", 3) /\ h[2] = Instr("LDXI", 1) /\ h[3] = Instr("CPX", ZeroSlot)
      /\ h[4] = Instr("BNE", 2) /\ h[5] = Instr("LDXI", 0) /\ h[6] = Instr("CPX", ZeroSlot)
  <2>1. 1 \in Nat /\ 1 + 1 = 2 /\ 1 + 2 = 3 /\ 1 + 3 = 4 /\ 1 + 4 = 5 /\ 1 + 5 = 6
    OBVIOUS
  <2> QED
    BY <1>1, <2>1, AtItself, InvertParts
<1>4. Harmless("LDXI", 1) /\ Harmless("LDXI", 0) /\ Harmless("CPX", ZeroSlot)
  BY HarmlessOnes DEF Immediate, Loads
<1>5. /\ Fits(h, 2) /\ Lands(h, 2) /\ Fits(h, 3) /\ Lands(h, 3)
      /\ Fits(h, 5) /\ Lands(h, 5) /\ Fits(h, 6) /\ Lands(h, 6)
  BY <1>3, <1>4, HarmlessFits
<1>6. /\ OpAt(h, 1) = "BNE" /\ ArgAt(h, 1) = 3 /\ OpAt(h, 4) = "BNE" /\ ArgAt(h, 4) = 2
      /\ OpAt(h, 5) = "LDXI"
  BY <1>3 DEF OpAt, ArgAt, Instr
<1>7. "BNE" \in Ops \ {"BRK"} /\ "BNE" \notin Immediate /\ "BNE" \notin Stores
  BY DEF Ops, Immediate, Stores
<1>8. Fits(h, 1) /\ Lands(h, 1) /\ Fits(h, 4) /\ Lands(h, 4)
  <2>1. 1 + 1 + 3 = 5 /\ 4 + 1 + 2 = 7 /\ 5 \in 1 .. 6 + 1 /\ 7 \in 1 .. 6 + 1
    OBVIOUS
  <2> QED
    BY <1>2, <1>6, <1>7, <2>1 DEF Fits, Lands
<1>9. \A i \in 1 .. 6 : i \in {1, 2, 3, 4, 5, 6}
  OBVIOUS
<1> QED
  BY <1>1, <1>2, <1>5, <1>8, <1>9 DEF Contained

LEMMA CalledContained == \A i \in Services : Contained(Called(i))
<1> SUFFICES ASSUME NEW i \in Services PROVE Contained(Called(i))
  OBVIOUS
<1>1. PICK h : h = Called(i)
  OBVIOUS
<1>2. i \in Byte /\ i \in Operands /\ 0 \in Operands /\ "LDXI" \in Ops /\ "SYS" \in Ops
  BY SmallBytes, SmallInts, SmallOps DEF Services
<1>3. Fragment(h) /\ Size(h) = 2
  BY <1>1, <1>2, PieceTwo DEF Called
<1>4. h[1] = Instr("LDXI", i) /\ h[2] = Instr("SYS", 0)
  BY <1>1 DEF Called, Two
<1>5. Fits(h, 1) /\ Lands(h, 1)
  BY <1>2, <1>4, HarmlessFits, HarmlessOnes DEF Immediate
<1>6. /\ OpAt(h, 1) = "LDXI" /\ ArgAt(h, 1) = i /\ OpAt(h, 2) = "SYS"
      /\ "SYS" \in Ops \ {"BRK"} /\ "SYS" \notin Immediate /\ "SYS" \notin Stores
  BY <1>4 DEF OpAt, ArgAt, Instr, Ops, Immediate, Stores
<1>7. Fits(h, 2) /\ Lands(h, 2)
  BY <1>6 DEF Fits, Lands
<1>8. \A d \in 1 .. 2 : d = 1 \/ d = 2
  OBVIOUS
<1> QED
  BY <1>1, <1>3, <1>5, <1>7, <1>8 DEF Contained

\* Code that is contained; an expression all of whose codes are.
Placed(c) == Contained(Instrs(c)) /\ Temps(c) \in Nat
Tidy(e) ==
    /\ e.k = "lit" => e.v \in Byte
    /\ e.k = "var" => Slot(e) \in VarSlots
    /\ \A n \in Nat : /\ Placed(ToA(e, n)) /\ Placed(NodeToY(e, n))
                      /\ IsCondition(e) => Placed(Predicate(e, n))

\* The small pieces of expressions.
LEMMA PiecesContained ==
    ASSUME NEW n \in Nat
    PROVE  /\ \A i \in {0, 1} : Contained(ForcedZ(i))
           /\ \A op \in {"LDX", "LDY", "CPX"} : Contained(Spilled(n, op))
           /\ Contained(One("STA", Temp(n))) /\ Contained(One("LDY", Temp(n)))
           /\ \A j \in Nat : Contained(Bumped(n, j))
           /\ Contained(Summed(n)) /\ Contained(Matched(n))
<1>1. /\ \A op \in {"LDA", "LDX", "LDY", "CPX", "ADC", "STA", "INC"} : Harmless(op, Temp(n))
      /\ \A op \in {"LDX", "CPX", "STA"} : Harmless(op, Temp(n + 1))
  <2>1. n + 1 \in Nat
    OBVIOUS
  <2> QED
    BY <2>1, HarmlessOnes DEF Loads, Stores
<1>2. /\ Harmless("LDXI", 0) /\ Harmless("LDXI", 1)
      /\ Harmless("CPX", ZeroSlot) /\ Harmless("CPX", OneSlot)
  BY HarmlessOnes DEF Immediate, Loads
<1>3. Contained(ForcedZ(0)) /\ Contained(ForcedZ(1))
  BY <1>2, TwoContained DEF ForcedZ
<1>4. \A op \in {"LDX", "LDY", "CPX"} : Contained(Spilled(n, op))
  BY <1>1, TwoContained DEF Spilled
<1>5. Contained(One("STA", Temp(n))) /\ Contained(One("LDY", Temp(n))) /\ Contained(One("LDA", Temp(n)))
  BY <1>1, OneContained
<1>6. \A j \in Nat : Contained(Bumped(n, j))
  <2> SUFFICES ASSUME NEW j \in Nat PROVE Contained(Bumped(n, j))
    OBVIOUS
  <2>1. Contained(Many("INC", Temp(n), j))
    BY <1>1, ManyContained
  <2> QED
    BY <1>5, <2>1, CatContained DEF Bumped
<1>7. Contained(Summed(n))
  BY <1>1, <1>2, ThreeContained DEF Summed
<1>8. Contained(Matched(n))
  BY <1>1, ThreeContained DEF Matched
<1> QED
  BY <1>3, <1>4, <1>5, <1>6, <1>7, <1>8

\* A literal boolean or a comparison, to Y.
LEMMA SpilledToY ==
    ASSUME NEW e, IsCondition(e), NEW n \in Nat, Placed(ToA(e, n))
    PROVE  Placed(NodeToY(e, n))
<1>1. PICK a : a = ToA(e, n)
  OBVIOUS
<1>2. PICK y : y = NodeToY(e, n)
  OBVIOUS
<1>3. PICK j \in Nat : j = Temps(a)
  BY <1>1 DEF Placed
<1>4. Instrs(y) = Cat(Instrs(a), Spilled(j, "LDY")) /\ Temps(y) = j + 1
  BY <1>1, <1>2, <1>3, YForm DEF IsCondition
<1>5. Contained(Spilled(j, "LDY"))
  BY PiecesContained
<1> QED
  BY <1>1, <1>2, <1>4, <1>5, CatContained DEF Placed

LEMMA LitTidy ==
    ASSUME NEW kind, NEW v \in Byte, kind = "bool" => v \in {0, 1},
           NEW e, e = Lit(kind, v), Compiled6502(e)
    PROVE  Tidy(e)
<1>1. e.k = "lit" /\ e.v = v /\ (IsCondition(e) <=> kind = "bool")
  BY KindsApart
<1>2. \A n \in Nat : Placed(ToA(e, n))
  <2> SUFFICES ASSUME NEW n \in Nat PROVE Placed(ToA(e, n))
    OBVIOUS
  <2>1. Instrs(ToA(e, n)) = One("LDAI", v) /\ Temps(ToA(e, n)) = n
    BY LitForm DEF Compiled6502
  <2>2. Contained(One("LDAI", v))
    BY OneContained, HarmlessOnes DEF Immediate
  <2> QED
    BY <2>1, <2>2 DEF Placed
<1>3. ASSUME NEW n \in Nat PROVE Placed(NodeToY(e, n))
  <2>1. CASE kind = "bool"
    BY <1>1, <1>2, <2>1, SpilledToY
  <2>2. CASE kind # "bool"
    <3>1. Instrs(NodeToY(e, n)) = One("LDYI", v) /\ Temps(NodeToY(e, n)) = n
      BY <2>2, YForm
    <3>2. Contained(One("LDYI", v))
      BY OneContained, HarmlessOnes DEF Immediate
    <3> QED
      BY <3>1, <3>2 DEF Placed
  <2> QED
    BY <2>1, <2>2
<1>4. ASSUME NEW n \in Nat, IsCondition(e) PROVE Placed(Predicate(e, n))
  <2>1. kind = "bool"
    BY <1>1, <1>4
  <2>2. PICK i \in {0, 1} : i = IF v = 1 THEN 0 ELSE 1
    OBVIOUS
  <2>3. Instrs(Predicate(e, n)) = ForcedZ(i) /\ Temps(Predicate(e, n)) = n
    BY <1>4, <2>1, <2>2, PredicateForm DEF Compiled6502
  <2> QED
    BY <2>3, PiecesContained DEF Placed
<1> QED
  BY <1>1, <1>2, <1>3, <1>4 DEF Tidy

LEMMA VarTidy ==
    ASSUME NEW name \in Names, NEW scope \in Nat, NEW e, e = Var(name, scope), Compiled6502(e)
    PROVE  Tidy(e)
<1>1. e.k = "var" /\ e.name = name /\ e.scope = scope /\ ~IsCondition(e)
  BY KindsApart
<1>2. PICK s \in VarSlots : s = << name, scope >>
  BY DEF VarSlots
<1>3. Slot(e) = s
  BY <1>1, <1>2 DEF Slot
<1>4. Contained(One("LDA", s)) /\ Contained(One("LDY", s))
  BY OneContained, HarmlessOnes DEF Loads
<1>5. ASSUME NEW n \in Nat PROVE Placed(ToA(e, n)) /\ Placed(NodeToY(e, n))
  <2>1. Instrs(ToA(e, n)) = One("LDA", s) /\ Temps(ToA(e, n)) = n
    BY <1>2, VarForm DEF Compiled6502
  <2>2. Instrs(NodeToY(e, n)) = One("LDY", s) /\ Temps(NodeToY(e, n)) = n
    BY <1>2, YForm
  <2> QED
    BY <1>4, <2>1, <2>2 DEF Placed
<1> QED
  BY <1>1, <1>3, <1>5 DEF Tidy

LEMMA AddTidy ==
    ASSUME NEW l, NEW r, Tidy(l), Tidy(r), NEW e, e = Add(l, r), Compiled6502(e)
    PROVE  Tidy(e)
<1>1. e.k = "add" /\ ~IsCondition(e)
  BY KindsApart
<1>2. /\ IsSmall(l) => l.v \in Nat
      /\ IsSmall(r) => r.v \in Nat
  BY DEF IsSmall, IsIntLit, Tidy, Byte
<1>3. ASSUME NEW n \in Nat PROVE Placed(ToA(e, n))
  <2>1. PICK c : c = ToA(e, n)
    OBVIOUS
  <2>2. PICK m \in Nat : m = n + 1
    OBVIOUS
  <2>3. PICK a : a = ToA(l, m)
    OBVIOUS
  <2>4. PICK b : b = ToA(r, m)
    OBVIOUS
  <2>5. PICK d : d = ToA(r, Temps(a))
    OBVIOUS
  <2>6. Placed(a) /\ Placed(b)
    BY <2>2, <2>3, <2>4 DEF Tidy
  <2>7. Placed(d)
    BY <2>5, <2>6 DEF Placed, Tidy
  <2>8. c = NodeToA(Add(l, r), n)
    BY <2>1 DEF Compiled6502
  <2>9. CASE IsSmall(l)
    <3>1. Instrs(c) = Cat(Instrs(b), Bumped(n, l.v)) /\ Temps(c) = Temps(b)
      BY <2>2, <2>4, <2>8, <2>9, AddForm
    <3>2. Contained(Bumped(n, l.v))
      BY <1>2, <2>9, PiecesContained
    <3> QED
      BY <2>1, <2>6, <3>1, <3>2, CatContained DEF Placed
  <2>10. CASE ~IsSmall(l) /\ IsSmall(r)
    <3>1. Instrs(c) = Cat(Instrs(a), Bumped(n, r.v)) /\ Temps(c) = Temps(a)
      BY <2>2, <2>3, <2>8, <2>10, AddForm
    <3>2. Contained(Bumped(n, r.v))
      BY <1>2, <2>10, PiecesContained
    <3> QED
      BY <2>1, <2>6, <3>1, <3>2, CatContained DEF Placed
  <2>11. CASE ~IsSmall(l) /\ ~IsSmall(r)
    <3>1. /\ Instrs(c) = Cat(Cat(Instrs(a), One("STA", Temp(n))), Cat(Instrs(d), Summed(n)))
          /\ Temps(c) = Temps(d)
      BY <2>2, <2>3, <2>5, <2>8, <2>11, AddForm
    <3>2. Contained(One("STA", Temp(n))) /\ Contained(Summed(n))
      BY PiecesContained
    <3>3. Contained(Cat(Instrs(a), One("STA", Temp(n)))) /\ Contained(Cat(Instrs(d), Summed(n)))
      BY <2>6, <2>7, <3>2, CatContained DEF Placed
    <3> QED
      BY <2>1, <2>7, <3>1, <3>3, CatContained DEF Placed
  <2> QED
    BY <2>9, <2>10, <2>11
<1>4. ASSUME NEW n \in Nat PROVE Placed(NodeToY(e, n))
  <2>1. PICK y : y = NodeToY(e, n)
    OBVIOUS
  <2>2. PICK a : a = ToA(e, n)
    OBVIOUS
  <2>3. Placed(a)
    BY <1>3, <2>2
  <2>4. /\ Temps(y) = Temps(a)
        /\ Instrs(y) = Cat(Instrs(a), One("LDY", Temp(n))) \/ Instrs(y) = Cat(Instrs(a), Spilled(n, "LDY"))
    BY <2>1, <2>2, YForm
  <2>5. Contained(One("LDY", Temp(n))) /\ Contained(Spilled(n, "LDY"))
    BY PiecesContained
  <2> QED
    BY <2>1, <2>3, <2>4, <2>5, CatContained DEF Placed
<1> QED
  BY <1>1, <1>3, <1>4 DEF Tidy

\* The left operand to X, and X compared with the right one.
LEMMA SidesPlaced ==
    ASSUME NEW e, Tidy(e), NEW n \in Nat
    PROVE  Placed(NodeToX(e, n)) /\ Placed(NodeAgainstX(e, n))
<1>1. PICK a : a = ToA(e, n + 1)
  OBVIOUS
<1>2. n + 1 \in Nat
  OBVIOUS
<1>3. Placed(a)
  BY <1>1, <1>2 DEF Tidy
<1>4. PICK x : x = NodeToX(e, n)
  OBVIOUS
<1>5. PICK y : y = NodeAgainstX(e, n)
  OBVIOUS
<1>6. Contained(Cat(Instrs(a), Spilled(n, "LDX"))) /\ Contained(Cat(Instrs(a), Spilled(n, "CPX")))
  BY <1>3, PiecesContained, CatContained DEF Placed
<1>7. e.k = "var" => Contained(One("LDX", Slot(e))) /\ Contained(One("CPX", Slot(e)))
  BY OneContained, HarmlessOnes DEF Tidy, Loads
<1>8. e.k # "var" /\ IsIntLit(e) => Contained(One("LDXI", e.v))
  BY OneContained, HarmlessOnes DEF Tidy, IsIntLit, Immediate
<1>9. Placed(x)
  <2>1. /\ e.k = "var" => Instrs(x) = One("LDX", Slot(e)) /\ Temps(x) = n
        /\ e.k # "var" /\ IsIntLit(e) => Instrs(x) = One("LDXI", e.v) /\ Temps(x) = n
        /\ e.k # "var" /\ ~IsIntLit(e) =>
              Instrs(x) = Cat(Instrs(a), Spilled(n, "LDX")) /\ Temps(x) = Temps(a)
    BY <1>1, <1>4, LeftForm
  <2> QED
    BY <1>3, <1>6, <1>7, <1>8, <2>1 DEF Placed
<1>10. Placed(y)
  <2>1. /\ e.k = "var" => Instrs(y) = One("CPX", Slot(e)) /\ Temps(y) = n
        /\ e.k # "var" => Instrs(y) = Cat(Instrs(a), Spilled(n, "CPX")) /\ Temps(y) = Temps(a)
    BY <1>1, <1>5, RightForm
  <2> QED
    BY <1>3, <1>6, <1>7, <2>1 DEF Placed
<1> QED
  BY <1>4, <1>5, <1>9, <1>10

LEMMA ComparedPlaced ==
    ASSUME NEW op, NEW l, NEW r, Tidy(l), Tidy(r), NEW n \in Nat
    PROVE  Placed(NodeCompared(Compare(op, l, r), n))
<1>1. PICK c : c = NodeCompared(Compare(op, l, r), n)
  OBVIOUS
<1>2. CASE IsString(l) \/ IsString(r)
  <2>1. PICK a : a = ToA(l, n)
    OBVIOUS
  <2>2. PICK b : b = ToA(r, n)
    OBVIOUS
  <2>3. Placed(a) /\ Placed(b)
    BY <2>1, <2>2 DEF Tidy
  <2>4. /\ Instrs(c) = Cat(Cat(Cat(Instrs(a), One("STA", Temp(n))), Instrs(b)), Matched(n))
        /\ Temps(c) = n + 2
    BY <1>1, <1>2, <2>1, <2>2, ComparedForm
  <2>5. Contained(Cat(Instrs(a), One("STA", Temp(n))))
    BY <2>3, PiecesContained, CatContained DEF Placed
  <2>6. Contained(Cat(Cat(Instrs(a), One("STA", Temp(n))), Instrs(b)))
    BY <2>3, <2>5, CatContained DEF Placed
  <2>7. Contained(Instrs(c))
    BY <2>4, <2>6, PiecesContained, CatContained
  <2>8. n + 2 \in Nat
    OBVIOUS
  <2> QED
    BY <1>1, <2>4, <2>7, <2>8 DEF Placed
<1>3. CASE ~ (IsString(l) \/ IsString(r))
  <2>1. PICK x : x = NodeToX(l, n)
    OBVIOUS
  <2>2. Placed(x)
    BY <2>1, SidesPlaced
  <2>3. PICK y : y = NodeAgainstX(r, Temps(x))
    OBVIOUS
  <2>4. Placed(y)
    BY <2>2, <2>3, SidesPlaced DEF Placed
  <2>5. Instrs(c) = Cat(Instrs(x), Instrs(y)) /\ Temps(c) = Temps(y)
    BY <1>1, <1>3, <2>1, <2>3, ComparedForm
  <2> QED
    BY <1>1, <2>2, <2>4, <2>5, CatContained DEF Placed
<1> QED
  BY <1>2, <1>3

LEMMA CompareTidy ==
    ASSUME NEW op, NEW l, NEW r, Tidy(l), Tidy(r),
           NEW e, e = Compare(op, l, r), Compiled6502(e)
    PROVE  Tidy(e)
<1>1. e.k = "cmp" /\ IsCondition(e)
  BY KindsApart
<1>2. ASSUME NEW n \in Nat PROVE Placed(Predicate(e, n))
  <2>1. PICK d : d = NodeCompared(e, n)
    OBVIOUS
  <2>2. PICK c : c = Predicate(e, n)
    OBVIOUS
  <2>3. Placed(d)
    BY <2>1, ComparedPlaced
  <2>4. c = NodeToZ(Compare(op, l, r), n)
    BY <1>1, <2>2 DEF Compiled6502
  <2>5. /\ Temps(c) = Temps(d)
        /\ Instrs(c) = Cat(Instrs(d), << >>) \/ Instrs(c) = Cat(Instrs(d), InvertZ)
    BY <2>1, <2>4, PredicateForm
  <2>6. Cat(Instrs(d), << >>) = Instrs(d)
    BY <2>3, CatEmpty DEF Placed, Contained
  <2>7. Contained(Cat(Instrs(d), InvertZ))
    BY <2>3, InvertContained, CatContained DEF Placed
  <2> QED
    BY <2>2, <2>3, <2>5, <2>6, <2>7 DEF Placed
<1>3. ASSUME NEW n \in Nat PROVE Placed(ToA(e, n))
  <2>1. PICK c : c = ToA(e, n)
    OBVIOUS
  <2>2. PICK p : p = Predicate(e, n)
    OBVIOUS
  <2>3. c = NodeToA(Compare(op, l, r), n)
    BY <2>1 DEF Compiled6502
  <2>4. Instrs(c) = Cat(Instrs(p), Materialize) /\ Temps(c) = Temps(p)
    BY <2>2, <2>3, CompareForm
  <2>5. Placed(p)
    BY <1>2, <2>2
  <2> QED
    BY <2>1, <2>4, <2>5, MaterializeContained, CatContained DEF Placed
<1>4. ASSUME NEW n \in Nat PROVE Placed(NodeToY(e, n))
  BY <1>1, <1>3, SpilledToY
<1> QED
  BY <1>1, <1>2, <1>3, <1>4 DEF Tidy

\* T is a set of expressions, with their parts: as Expressions, whatever is
\* compared with what.
Formed(T, Rank, e) ==
    \/ \E kind \in {"int", "bool", "string"}, v \in Byte :
          e = Lit(kind, v) /\ (kind = "bool" => v \in {0, 1})
    \/ \E name \in Names, scope \in Nat : e = Var(name, scope)
    \/ \E l, r \in T :
          /\ Rank[l] < Rank[e] /\ Rank[r] < Rank[e]
          /\ e = Add(l, r) \/ \E op \in {"==", "!="} : e = Compare(op, l, r)
FormedExpressions(T, Rank) ==
    /\ Rank \in [T -> Nat]
    /\ \A e \in T : Formed(T, Rank, e) /\ Compiled6502(e)

LEMMA NodeTidy ==
    ASSUME NEW T, NEW Rank, FormedExpressions(T, Rank), NEW e \in T,
           \A d \in T : Rank[d] < Rank[e] => Tidy(d)
    PROVE  Tidy(e)
<1>1. Compiled6502(e) /\ Formed(T, Rank, e)
  BY DEF FormedExpressions
<1>2. CASE \E kind \in {"int", "bool", "string"}, v \in Byte :
              e = Lit(kind, v) /\ (kind = "bool" => v \in {0, 1})
  BY <1>1, <1>2, LitTidy
<1>3. CASE \E name \in Names, scope \in Nat : e = Var(name, scope)
  BY <1>1, <1>3, VarTidy
<1>4. CASE \E l, r \in T :
              /\ Rank[l] < Rank[e] /\ Rank[r] < Rank[e]
              /\ e = Add(l, r) \/ \E op \in {"==", "!="} : e = Compare(op, l, r)
  <2>1. PICK l \in T, r \in T :
                /\ Rank[l] < Rank[e] /\ Rank[r] < Rank[e]
                /\ e = Add(l, r) \/ \E op \in {"==", "!="} : e = Compare(op, l, r)
    BY <1>4
  <2>2. Tidy(l) /\ Tidy(r)
    BY <2>1
  <2> QED
    BY <1>1, <2>1, <2>2, AddTidy, CompareTidy
<1> QED
  BY <1>1, <1>2, <1>3, <1>4 DEF Formed

LEMMA AllTidy ==
    ASSUME NEW T, NEW Rank, FormedExpressions(T, Rank)
    PROVE  \A e \in T : Tidy(e)
<1>1. PICK W : W = {e \in T : Tidy(e)}
  OBVIOUS
<1>2. Rank \in [T -> Nat]
  BY DEF FormedExpressions
<1>3. \A e \in T : (\A d \in T : Rank[d] < Rank[e] => d \in W) => e \in W
  BY <1>1, NodeTidy
<1>4. T \subseteq W
  BY <1>2, <1>3, EveryMember
<1> QED
  BY <1>1, <1>4

\* A sequence of statements all of whose codes are contained.
BlockPlaced(q) == \A n \in Nat : Placed(Lowered(q, n))

LEMMA SimplePlaced ==
    ASSUME NEW n \in Nat
    PROVE  /\ \A name, scope : Placed(NodeStatement(Decl(name, scope), n))
           /\ \A name \in Names, scope \in Nat : \A e : Tidy(e) =>
                 Placed(NodeStatement(Assign(name, scope, e), n))
           /\ \A e : Tidy(e) => Placed(NodeStatement(PrintOf(e), n))
<1>1. ASSUME NEW name, NEW scope PROVE Placed(NodeStatement(Decl(name, scope), n))
  <2>1. PICK c : c = NodeStatement(Decl(name, scope), n)
    OBVIOUS
  <2>2. Instrs(c) = << >> /\ Temps(c) = n
    BY <2>1, SimpleForm
  <2>3. Contained(<< >>)
    BY EmptyPiece DEF Contained
  <2> QED
    BY <2>1, <2>2, <2>3 DEF Placed
<1>2. ASSUME NEW name \in Names, NEW scope \in Nat, NEW e, Tidy(e)
      PROVE  Placed(NodeStatement(Assign(name, scope, e), n))
  <2>1. PICK c : c = NodeStatement(Assign(name, scope, e), n)
    OBVIOUS
  <2>2. PICK s \in VarSlots : s = << name, scope >>
    BY DEF VarSlots
  <2>3. PICK a : a = ToA(e, n)
    OBVIOUS
  <2>4. Placed(a)
    BY <1>2, <2>3 DEF Tidy
  <2>5. Instrs(c) = Cat(Instrs(a), One("STA", s)) /\ Temps(c) = Temps(a)
    BY <2>1, <2>2, <2>3, SimpleForm
  <2>6. Contained(One("STA", s))
    BY OneContained, HarmlessOnes DEF Stores
  <2> QED
    BY <2>1, <2>4, <2>5, <2>6, CatContained DEF Placed
<1>3. ASSUME NEW e, Tidy(e) PROVE Placed(NodeStatement(PrintOf(e), n))
  <2>1. PICK c : c = NodeStatement(PrintOf(e), n)
    OBVIOUS
  <2>2. PICK a : a = NodeToY(e, n)
    OBVIOUS
  <2>3. PICK i \in Services : i = IF IsString(e) THEN 2 ELSE 1
    BY DEF Services
  <2>4. Placed(a)
    BY <1>3, <2>2 DEF Tidy
  <2>5. Instrs(c) = Cat(Instrs(a), Called(i)) /\ Temps(c) = Temps(a)
    BY <2>1, <2>2, <2>3, SimpleForm
  <2> QED
    BY <2>1, <2>4, <2>5, CalledContained, CatContained DEF Placed
<1> QED
  BY <1>1, <1>2, <1>3

LEMMA BranchPlaced ==
    ASSUME NEW c, Tidy(c), IsCondition(c), NEW b, BlockPlaced(b), NEW n \in Nat
    PROVE  Placed(NodeStatement(If(c, b), n)) /\ Placed(NodeStatement(While(c, b), n))
<1>1. PICK p : p = Predicate(c, n)
  OBVIOUS
<1>2. Placed(p)
  BY <1>1 DEF Tidy
<1>3. PICK l : l = Lowered(b, Temps(p))
  OBVIOUS
<1>4. Placed(l)
  BY <1>2, <1>3 DEF Placed, BlockPlaced
<1>5. PICK f : f = NodeStatement(If(c, b), n)
  OBVIOUS
<1>6. PICK w : w = NodeStatement(While(c, b), n)
  OBVIOUS
<1>7. /\ Instrs(f) = Cat(Cat(Instrs(p), One("BNE", Size(Instrs(l)))), Instrs(l))
      /\ Temps(f) = Temps(l)
      /\ Instrs(w) = LoopCode(Instrs(p), Cat(Instrs(l), ForcedZ(1)))
      /\ Temps(w) = Temps(l)
  BY <1>1, <1>3, <1>5, <1>6, BranchForm
<1>8. Contained(Instrs(f))
  BY <1>2, <1>4, <1>7, GuardContained DEF Placed
<1>9. Contained(Instrs(w))
  <2>1. Contained(ForcedZ(1))
    BY PiecesContained
  <2>2. Contained(Cat(Instrs(l), ForcedZ(1)))
    BY <1>4, <2>1, CatContained DEF Placed
  <2> QED
    BY <1>2, <1>7, <2>2, LoopContained DEF Placed
<1> QED
  BY <1>4, <1>5, <1>6, <1>7, <1>8, <1>9 DEF Placed

LEMMA HeadPlaced ==
    ASSUME NEW T, \A e \in T : Tidy(e),
           NEW Q, NEW Rank, NEW q, q # << >>, Checked(T, Q, Rank, q),
           \A b \in Q : Rank[b] < Rank[q] => BlockPlaced(b), NEW n \in Nat
    PROVE  Placed(NodeStatement(Head(q), n))
<1>1. PICK st : st = Head(q)
  OBVIOUS
<1>2. \/ \E name \in Names, scope \in Nat : st = Decl(name, scope)
      \/ \E name \in Names, scope \in Nat, e \in T : st = Assign(name, scope, e)
      \/ \E e \in T : st = PrintOf(e)
      \/ \E b \in Q : Rank[b] < Rank[q] /\ st = Block(b)
      \/ \E b \in Q, c \in T :
            /\ Rank[b] < Rank[q] /\ IsCondition(c)
            /\ st = If(c, b) \/ st = While(c, b)
  BY <1>1 DEF Checked
<1>3. CASE \/ \E name \in Names, scope \in Nat : st = Decl(name, scope)
           \/ \E name \in Names, scope \in Nat, e \in T : st = Assign(name, scope, e)
           \/ \E e \in T : st = PrintOf(e)
  BY <1>1, <1>3, SimplePlaced
<1>4. CASE \E b \in Q : Rank[b] < Rank[q] /\ st = Block(b)
  <2>1. PICK b \in Q : Rank[b] < Rank[q] /\ st = Block(b)
    BY <1>4
  <2>2. NodeStatement(Block(b), n) = Lowered(b, n)
    BY SimpleForm
  <2> QED
    BY <1>1, <2>1, <2>2 DEF BlockPlaced
<1>5. CASE \E b \in Q, c \in T :
              /\ Rank[b] < Rank[q] /\ IsCondition(c)
              /\ st = If(c, b) \/ st = While(c, b)
  BY <1>1, <1>5, BranchPlaced
<1> QED
  BY <1>2, <1>3, <1>4, <1>5

\* Q is a set of sequences of statements, with their parts, over the expressions
\* T, and their code is what the generator makes of them.
FormedStatements(T, Q, Rank) ==
    /\ Rank \in [Q -> Nat]
    /\ \A q \in Q : Checked(T, Q, Rank, q) /\ CompiledBlock(q)

LEMMA AllPlaced ==
    ASSUME NEW T, \A e \in T : Tidy(e), NEW Q, NEW Rank, FormedStatements(T, Q, Rank)
    PROVE  \A q \in Q : BlockPlaced(q)
<1>1. PICK W : W = {q \in Q : BlockPlaced(q)}
  OBVIOUS
<1>2. Rank \in [Q -> Nat]
  BY DEF FormedStatements
<1>3. ASSUME NEW q \in Q, \A b \in Q : Rank[b] < Rank[q] => b \in W PROVE q \in W
  <2>1. Checked(T, Q, Rank, q) /\ CompiledBlock(q)
    BY DEF FormedStatements
  <2>2. \A b \in Q : Rank[b] < Rank[q] => BlockPlaced(b)
    BY <1>1, <1>3
  <2> SUFFICES ASSUME NEW n \in Nat PROVE Placed(Lowered(q, n))
    BY <1>1 DEF BlockPlaced
  <2>3. PICK c : c = NodeBlock(q, n)
    OBVIOUS
  <2>4. Lowered(q, n) = c
    BY <2>1, <2>3 DEF CompiledBlock
  <2>5. CASE q = << >>
    <3>1. Instrs(c) = << >> /\ Temps(c) = n
      BY <2>3, <2>5, SequenceForm
    <3>2. Contained(<< >>)
      BY EmptyPiece DEF Contained
    <3> QED
      BY <2>4, <3>1, <3>2 DEF Placed
  <2>6. CASE q # << >>
    <3>1. PICK a : a = NodeStatement(Head(q), n)
      OBVIOUS
    <3>2. Placed(a)
      BY <2>1, <2>2, <2>6, <3>1, HeadPlaced
    <3>3. PICK b : b = Lowered(Tail(q), Temps(a))
      OBVIOUS
    <3>4. BlockPlaced(Tail(q))
      BY <2>1, <2>2, <2>6 DEF Checked
    <3>5. Placed(b)
      BY <3>2, <3>3, <3>4 DEF Placed, BlockPlaced
    <3>6. Instrs(c) = Cat(Instrs(a), Instrs(b)) /\ Temps(c) = Temps(b)
      BY <2>3, <2>6, <3>1, <3>3, SequenceForm
    <3> QED
      BY <2>4, <3>2, <3>5, <3>6, CatContained DEF Placed
  <2> QED
    BY <2>5, <2>6
<1>4. Q \subseteq W
  BY <1>2, <1>3, EveryMember
<1> QED
  BY <1>1, <1>4

\* The generator (generate6502Program) emits code the machine may be given: a
\* branch leads to an instruction of the program, wherever the program branches
\* and loops, the system is only called with a service in X, and nothing but the
\* prologue writes the two bytes that hold 0 and 1.
THEOREM CodeIsRunnable ==
    ASSUME NEW T, NEW RankT, FormedExpressions(T, RankT),
           NEW Q, NEW RankQ, FormedStatements(T, Q, RankQ)
    PROVE  \A q \in Q : Runnable(ProgramCode(Lowered(q, 0)))
<1> SUFFICES ASSUME NEW q \in Q PROVE Runnable(ProgramCode(Lowered(q, 0)))
  OBVIOUS
<1>1. PICK block : block = Lowered(q, 0)
  OBVIOUS
<1>2. PICK f : f = Instrs(block)
  OBVIOUS
<1>3. Contained(f)
  <2>1. \A e \in T : Tidy(e)
    BY AllTidy
  <2>2. BlockPlaced(q)
    BY <2>1, AllPlaced
  <2>3. 0 \in Nat
    OBVIOUS
  <2> QED
    BY <1>1, <1>2, <2>2, <2>3 DEF BlockPlaced, Placed
<1>4. PICK g : g = Cat(Prologue, f)
  OBVIOUS
<1>5. PICK n \in Nat : n = Size(f)
  BY <1>3, CatPlaces DEF Contained
<1>6. /\ Fragment(g) /\ Size(g) = 4 + n
      /\ \A i \in 1 .. 4 : g[i] = Prologue[i]
      /\ \A i \in 1 .. n : g[4 + i] = f[i]
  BY <1>3, <1>4, <1>5, ProloguePiece, CatPlaces DEF Contained
<1>7. PICK e : e = One("BRK", 0)
  OBVIOUS
<1>8. Fragment(e) /\ Size(e) = 1 /\ e[1] = Instr("BRK", 0)
  <2>1. 0 \in Operands /\ "BRK" \in Ops
    BY SmallInts DEF Ops
  <2> QED
    BY <1>7, <2>1, Piece DEF One
<1>9. PICK k : k = Cat(g, e)
  OBVIOUS
<1>10. PICK z \in Nat : z = 5 + n
  OBVIOUS
<1>11. k = ProgramCode(block)
  BY <1>2, <1>4, <1>7, <1>9 DEF ProgramCode, Epilogue, Instrs, Cat, One
<1>12. /\ Fragment(k) /\ Size(k) = z
       /\ \A i \in 1 .. 4 + n : k[i] = g[i]
       /\ k[z] = Instr("BRK", 0)
  <2>1. /\ Fragment(k) /\ Size(k) = Size(g) + 1 /\ Size(g) \in Nat
        /\ \A i \in 1 .. Size(g) : k[i] = g[i]
        /\ \A i \in 1 .. 1 : k[Size(g) + i] = e[i]
    BY <1>6, <1>8, <1>9, CatPlaces
  <2>2. 1 \in 1 .. 1 /\ (4 + n) + 1 = z
    BY <1>10
  <2>3. k[(4 + n) + 1] = e[1]
    BY <1>6, <2>1, <2>2
  <2> QED
    BY <1>6, <1>8, <2>1, <2>2, <2>3
<1>13. \A i \in 1 .. n : k[4 + i] = f[i]
  <2>1. \A i \in 1 .. n : 4 + i \in 1 .. 4 + n
    OBVIOUS
  <2> QED
    BY <1>6, <1>12, <2>1
<1>14. \A i \in 1 .. 4 : k[i] = Prologue[i]
  <2>1. \A i \in 1 .. 4 : i \in 1 .. 4 + n
    OBVIOUS
  <2> QED
    BY <1>6, <1>12, <2>1
<1>15. OpAt(k, z) = "BRK"
  BY <1>12 DEF OpAt, Instr
<1>16. \A i \in 1 .. n : Fits(k, 4 + i) /\ Lands(k, 4 + i)
  <2>1. 4 + n <= z /\ 4 + n + 1 = z /\ 4 \in Nat
    BY <1>10
  <2> QED
    BY <1>3, <1>5, <1>12, <1>13, <1>15, <2>1, Moved
<1>17. Len(k) = z /\ DOMAIN k = 1 .. z /\ z > 4
  <2>1. k \in Seq(Instructions) /\ Len(k) = z
    BY <1>12 DEF Fragment, Size
  <2>2. DOMAIN k = 1 .. Len(k)
    BY <2>1, LenProperties
  <2> QED
    BY <1>10, <2>1, <2>2
<1>18. ASSUME NEW i \in 5 .. z
       PROVE  /\ k[i].op \in Ops
              /\ k[i].op \in Immediate => k[i].arg \in Byte
              /\ k[i].op \in Stores => k[i].arg \notin Constants
              /\ k[i].op = "BNE" => Target(k, i) \in 5 .. z /\ k[Target(k, i)].op # "SYS"
              /\ k[i].op = "SYS" => k[i - 1].op = "LDXI" /\ k[i - 1].arg \in Services
  <2>1. CASE i = z
    BY <1>15, <2>1 DEF OpAt, Ops, Immediate, Stores
  <2>2. CASE i # z
    <3>1. PICK j \in 1 .. n : i = 4 + j
      <4>1. i - 4 \in 1 .. n /\ i = 4 + (i - 4)
        BY <1>10, <2>2
      <4> QED
        BY <4>1
    <3>2. Fits(k, i) /\ Lands(k, i)
      BY <1>16, <3>1
    <3>3. /\ k[i].op \in Ops
          /\ k[i].op \in Immediate => k[i].arg \in Byte
          /\ k[i].op \in Stores => k[i].arg \notin Constants
          /\ k[i].op = "SYS" => k[i - 1].op = "LDXI" /\ k[i - 1].arg \in Services
      BY <3>2 DEF Fits, OpAt, ArgAt
    <3>4. ASSUME k[i].op = "BNE" PROVE Target(k, i) \in 5 .. z /\ k[Target(k, i)].op # "SYS"
      <4>1. Fits(f, j) /\ Lands(f, j)
        BY <1>3, <1>5 DEF Contained
      <4>2. OpAt(f, j) = "BNE" /\ ArgAt(f, j) = ArgAt(k, i)
        BY <1>13, <3>1, <3>4 DEF OpAt, ArgAt
      <4>3. PICK a \in Int : a = ArgAt(f, j)
        BY <4>1, <4>2 DEF Lands
      <4>4. j + 1 + a \in 1 .. n + 1
        BY <1>5, <4>1, <4>2, <4>3 DEF Lands
      <4>5. i + 1 + a \in 5 .. z
        BY <1>10, <3>1, <4>4
      <4>6. i + 1 + a <= Size(k) => OpAt(k, i + 1 + a) # "SYS"
        BY <3>2, <3>4, <4>2, <4>3 DEF Lands, OpAt
      <4>7. Target(k, i) = i + 1 + a
        BY <4>2, <4>3 DEF Target, ArgAt
      <4> QED
        BY <1>12, <4>5, <4>6, <4>7 DEF OpAt
    <3> QED
      BY <3>3, <3>4
  <2> QED
    BY <2>1, <2>2
<1>19. k[z].op = "BRK"
  BY <1>15 DEF OpAt
<1>20. Runnable(k)
  BY <1>14, <1>17, <1>18, <1>19 DEF Runnable
<1> QED
  BY <1>1, <1>11, <1>20

\* A program that is compiled, loaded and run is a case of what module
\* MachineCode calls code that runs, so all that holds of such code holds of it:
\* the machine stays in the program and in its types, and the two constants keep
\* their values ("a stable byte that always stores 0", codegen.cpp:115).
THEOREM ProgramsAreRunnable ==
    ASSUME NEW CONSTANT T, NEW CONSTANT RankT, FormedExpressions(T, RankT),
           NEW CONSTANT Q, NEW CONSTANT RankQ, FormedStatements(T, Q, RankQ),
           NEW CONSTANT q \in Q,
           NEW CONSTANT k, k = ProgramCode(Lowered(q, 0)), NEW CONSTANT o
    PROVE  /\ OneProgram(k, o) => MachineSpec
           /\ OneProgram(k, o) => []TypeOK
           /\ OneProgram(k, o) => []ConstantsHold
<1>1. Runnable(k)
  BY CodeIsRunnable
<1>2. [(~Compiled /\ Loaded(k, o)) \/ (Compiled /\ MachineRuns)]_<< cpuVars, meant >>
      => [Load \/ CpuStep]_cpuVars
  BY <1>1 DEF Loaded, MachineRuns, Load
<1>3. OneProgram(k, o) => MachineSpec
  BY <1>2, PTL DEF OneProgram, MachineSpec
<1> QED
  BY <1>3, MachineTypes, StableConstants, PTL
=============================================================================
