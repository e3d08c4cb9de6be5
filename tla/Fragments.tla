------------------------------ MODULE Fragments ------------------------------
(***************************************************************************)
(* Instruction selection of the 6502 generator (src/codegen/codegen.cpp):  *)
(* the code of one node of a checked and optimized tree, put together from *)
(* the code of its parts.  Module Lowering ties the knot.                  *)
(*                                                                         *)
(* An operand names a slot: a variable by its (name, scope) key, or one of *)
(* the temporaries, which are numbered as they are allocated.  Module      *)
(* ObjectImage gives slots their addresses and shows them distinct.        *)
(* Branches are relative, in instructions from the next one, so code can   *)
(* be put together from fragments.                                         *)
(***************************************************************************)
EXTENDS Tree

CONSTANTS
    DeclType,     \* lookupDeclType: the type of the declarations of a name
    MaxIncrement  \* literals up to which a sum becomes INCs (8)

\* The slots that are no variables are none of the program's names.
ASSUME ReservedNames == {"temp", "zero", "one"} \cap Names = {}

Instr(op, arg) == [op |-> op, arg |-> arg]
Slot(x)  == << x.name, x.scope >>
Temp(n)  == << "temp", n >>
ZeroSlot == << "zero", 0 >>
OneSlot  == << "one", 0 >>

\* A fragment and the number of the next temporary.
Code(instrs, temps) == [instrs |-> instrs, temps |-> temps]
Then(a, instrs) == Code(a.instrs \o instrs, a.temps)
Join(a, b) == Code(a.instrs \o b.instrs, b.temps)

\* emitForceZClear; and the same with 0, which sets Z.
ForceZClear == << Instr("LDXI", 1), Instr("CPX", ZeroSlot) >>
ForceZSet   == << Instr("LDXI", 0), Instr("CPX", ZeroSlot) >>

\* The end of a predicate with `!=`: Z becomes 1 where it was 0.
InvertZ == << Instr("BNE", 3) >> \o ForceZClear \o << Instr("BNE", 2) >> \o ForceZSet

\* BooleanExprWrapper: 1 in A where Z is 1, and otherwise 0.
Materialize ==
    << Instr("LDAI", 1), Instr("BNE", 3) >> \o ForceZClear \o << Instr("BNE", 1), Instr("LDAI", 0) >>

(***************************************************************************)
(* Expressions.  n temporaries are in use.  A(e, n) is the code that puts  *)
(* the value of e into the accumulator and P(c, n) the code that puts      *)
(* condition c into Z; a is A of the node itself.                          *)
(***************************************************************************)
IsIntLit(e) == e.k = "lit" /\ e.kind = "int"
IsSmall(e)  == IsIntLit(e) /\ e.v <= MaxIncrement
IsString(e) ==
    \/ e.k = "lit" /\ e.kind = "string"
    \/ e.k = "var" /\ DeclType[e.name] = "string"

\* A literal up to MaxIncrement is added to the other operand in its slot.
AddSmall(k, other, n) ==
    Then(other, << Instr("STA", Temp(n)) >> \o [i \in 1 .. k |-> Instr("INC", Temp(n))]
                \o << Instr("LDA", Temp(n)) >>)
\* The left operand is kept in a slot while the right one is evaluated.
Saved(left, n) == Then(left, << Instr("STA", Temp(n)) >>)
\* The comparison of 0 with the slot that holds 1 clears the carry.
AddSlot(right, n) == Then(right, << Instr("LDXI", 0), Instr("CPX", OneSlot), Instr("ADC", Temp(n)) >>)

\* emitIntExpr to the accumulator; a string is the address of its bytes
\* (emitStringExprPointerToA).
ToAOf(A(_, _), P(_, _), e, n) ==
    CASE e.k = "lit" -> Code(<< Instr("LDAI", e.v) >>, n)
      [] e.k = "var" -> Code(<< Instr("LDA", Slot(e)) >>, n)
      [] e.k = "cmp" -> Then(P(e, n), Materialize)
      [] e.k = "add" /\ IsSmall(e.l) -> AddSmall(e.l.v, A(e.r, n + 1), n)
      [] e.k = "add" /\ ~IsSmall(e.l) /\ IsSmall(e.r) -> AddSmall(e.r.v, A(e.l, n + 1), n)
      [] OTHER ->
            LET l == Saved(A(e.l, n + 1), n)
            IN Join(l, AddSlot(A(e.r, l.temps), n))

Spill(a, n, op) == Then(a, << Instr("STA", Temp(n)), Instr(op, Temp(n)) >>)

\* emitLoadXFromExpr and emitCpxFromExpr, where a spares the next temporary.
LeftToX(a, e, n) ==
    IF e.k = "var" THEN Code(<< Instr("LDX", Slot(e)) >>, n)
    ELSE IF IsIntLit(e) THEN Code(<< Instr("LDXI", e.v) >>, n)
    ELSE Spill(a, n, "LDX")
AgainstX(a, e, n) ==
    IF e.k = "var" THEN Code(<< Instr("CPX", Slot(e)) >>, n) ELSE Spill(a, n, "CPX")

\* emitBinaryIntCompare: X holds the left operand while the right one is
\* evaluated.
IntCompare(left, right) == Join(left, right)

\* emitBinaryStringCompare: the operands are in slots, X is loaded last.
StringCompare(l, r, n) ==
    Code(l.instrs \o << Instr("STA", Temp(n)) >> \o r.instrs
         \o << Instr("STA", Temp(n + 1)), Instr("LDX", Temp(n)), Instr("CPX", Temp(n + 1)) >>, n + 2)

\* emitBinaryCompare.
Compared6502(A(_, _), c, n) ==
    IF IsString(c.l) \/ IsString(c.r) THEN StringCompare(A(c.l, n), A(c.r, n), n)
    ELSE LET l == LeftToX(A(c.l, n + 1), c.l, n)
         IN IntCompare(l, AgainstX(A(c.r, l.temps + 1), c.r, l.temps))

\* emitBooleanExprAsPredicateZ: Z is 1 where the condition holds.
PredicateOf(compared, c, n) ==
    IF c.k = "lit" THEN Code(IF c.v = 1 THEN ForceZSet ELSE ForceZClear, n)
    ELSE Then(compared, IF c.op = "==" THEN << >> ELSE InvertZ)

\* A slot that holds A, or a sum that is already in its slot, to Y.
StoreToY(a) == Code(a.instrs \o << Instr("STA", Temp(a.temps)), Instr("LDY", Temp(a.temps)) >>, a.temps + 1)
SumToY(e, a, n) ==
    Then(a, (IF IsSmall(e.l) \/ IsSmall(e.r) THEN << >> ELSE << Instr("STA", Temp(n)) >>)
            \o << Instr("LDY", Temp(n)) >>)
\* emitIntExpr to Y.
ToYOf(a, e, n) ==
    CASE e.k = "lit" /\ e.kind # "bool" -> Code(<< Instr("LDYI", e.v) >>, n)
      [] e.k = "var" -> Code(<< Instr("LDY", Slot(e)) >>, n)
      [] e.k = "add" -> SumToY(e, a, n)
      [] OTHER -> StoreToY(a)

(***************************************************************************)
(* Statements.  L(s, n) is the code of a sequence of statements.           *)
(***************************************************************************)
\* visitPrint: the operand in Y, the service in X.
PrintCode(y, e) ==
    Then(y, << Instr("LDXI", IF IsString(e) THEN 2 ELSE 1), Instr("SYS", 0) >>)

AssignCode(a, st) == Then(a, << Instr("STA", Slot(st)) >>)

Guarded(p, b, distance) == Code(p.instrs \o << Instr("BNE", distance) >> \o b.instrs, b.temps)
Looped(p, turn) ==
    Then(Guarded(p, turn, Len(turn.instrs) + 1),
         << Instr("BNE", -(Len(p.instrs) + Len(turn.instrs) + 2)) >>)

\* Mutant of IfCode: the branch goes one instruction too far.
IfCodeFar(p, b) == Guarded(p, b, Len(b.instrs) + 1)
\* visitIfStatement: BNE skips the body where the condition does not hold.
IfCode(p, b) == Guarded(p, b, Len(b.instrs))

\* visitWhileStatement: the body is followed by a branch that is always taken.
WhileCode(p, b) == Looped(p, Then(b, ForceZClear))

\* visitStatement.
StatementOf(A(_, _), P(_, _), L(_, _), st, n) ==
    CASE st.k = "decl"   -> Code(<< >>, n)
      [] st.k = "print"  -> PrintCode(ToYOf(A(st.e, n), st.e, n), st.e)
      [] st.k = "assign" -> AssignCode(A(st.e, n), st)
      [] st.k = "block"  -> L(st.body, n)
      [] OTHER ->
            LET p == P(st.cond, n)
                b == L(st.body, p.temps)
            IN IF st.k = "if" THEN IfCode(p, b) ELSE WhileCode(p, b)

\* visitBlock.
BlockOf(A(_, _), P(_, _), L(_, _), stmts, n) ==
    IF stmts = << >> THEN Code(<< >>, n)
    ELSE LET first == StatementOf(A, P, L, Head(stmts), n)
         IN Join(first, L(Tail(stmts), first.temps))

(***************************************************************************)
(* Programs.                                                               *)
(***************************************************************************)
\* visitProgram: the two bytes the code relies on.
Prologue == << Instr("LDAI", 0), Instr("STA", ZeroSlot), Instr("LDAI", 1), Instr("STA", OneSlot) >>
\* The BRK of generate6502Program.
Epilogue == << Instr("BRK", 0) >>
\* visitProgram and generate6502Program; a program is a block.
ProgramCode(block) == Prologue \o block.instrs \o Epilogue
=============================================================================
