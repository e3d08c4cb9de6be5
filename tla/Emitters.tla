------------------------------ MODULE Emitters ------------------------------
(***************************************************************************)
(* The emitters of src/multi_backend.cpp: Java, TypeScript and LLVM IR.    *)
(* They look names up by the nesting of blocks in the optimized tree and   *)
(* give every declaration a name of its own.                               *)
(*                                                                         *)
(* What is emitted is a tree again for Java and TypeScript, over aliases   *)
(* instead of names, and a sequence of instructions for LLVM.  What is     *)
(* emitted for a node is put together from what is for its parts; module   *)
(* TextBackEnds ties the knot.                                             *)
(***************************************************************************)
EXTENDS Tree, SequencesExt

\* Scopes of names, innermost last: what a name stands for.
NoScope == << >>
EnterScope(frames) == Append(frames, NoScope)
DeclareAs(frames, n, v) ==
    LET top == frames[Len(frames)]
    IN [frames EXCEPT ![Len(frames)] = [m \in DOMAIN top \cup {n} |-> IF m = n THEN v ELSE top[m]]]
\* Mutant of LookedUp: the outermost declaration is found first.
LookedUpOutermost(frames, n) ==
    frames[Min({i \in DOMAIN frames : n \in DOMAIN frames[i]})][n]
LookedUp(frames, n) ==
    frames[Max({i \in DOMAIN frames : n \in DOMAIN frames[i]})][n]

(***************************************************************************)
(* Java and TypeScript: name_0, name_1, ... in the order of declaration.   *)
(***************************************************************************)
\* Mutant of Alias: variables keep the names of the source.
AliasPlain(n, id) == << n >>
Alias(n, id) == << n, id >>

\* emitExpr and emitBooleanExpr, where l and r is what is emitted for the operands;
\* comparisons are by value for every type.
SpelledOf(l, r, e, frames) ==
    CASE e.k = "lit" -> e
      [] e.k = "var" -> Var(LookedUp(frames, e.name), 0)
      [] e.k = "add" -> Add(l, r)
      [] OTHER       -> Compare(e.op, l, r)

\* What is emitted, and nextAliasId_ and aliasScopes_ after it.
Emitter(stmts, id, frames) == [stmts |-> stmts, id |-> id, frames |-> frames]

\* emitStatement, where x is what is emitted for its expression and body for its
\* body.
EmittedStmtOf(x, body, st, id, frames) ==
    CASE st.k = "decl" ->
            LET alias == Alias(st.name, id)
            IN Emitter(<< Decl(alias, 0) >>, id + 1, DeclareAs(frames, st.name, alias))
      [] st.k = "assign" -> Emitter(<< Assign(LookedUp(frames, st.name), 0, x) >>, id, frames)
      [] st.k = "print"  -> Emitter(<< PrintOf(x) >>, id, frames)
      [] st.k = "if"     -> Emitter(<< If(x, body.stmts) >>, body.id, frames)
      [] st.k = "while"  -> Emitter(<< While(x, body.stmts) >>, body.id, frames)
      [] OTHER           -> Emitter(<< Block(body.stmts) >>, body.id, frames)

\* The statements of a block, where first and rest is what is emitted for its first
\* statement and for those after it.
EmittedOf(first, rest, stmts, id, frames) ==
    IF stmts = << >> THEN Emitter(<< >>, id, frames)
    ELSE Emitter(first.stmts \o rest.stmts, rest.id, rest.frames)

\* JavaEmitter::emit, where method is that of the first program and rest those of
\* the others, called after it.
ModuleOf(method, rest, programs) ==
    IF programs = << >> THEN << >> ELSE << Block(method.stmts) >> \o rest

(***************************************************************************)
(* LLVM IR.  A value is a constant or a register; registers and pointers   *)
(* are numbered together, labels on their own.                             *)
(***************************************************************************)
Const32(v) == << "const", v >>
Reg(n)     == << "reg", n >>
Line3(op, dst, l, r) == [op |-> op, dst |-> dst, l |-> l, r |-> r]
None == << >>

\* What is emitted, and nextReg_, nextLabel_ and scopes_ after it.  What follows it
\* is emitted from there on.
Ir(text, reg, label, frames) == [text |-> text, reg |-> reg, label |-> label, frames |-> frames]
Nothing(s)      == Ir(<< >>, s.reg, s.label, s.frames)
Continued(s, t) == Ir(s.text \o t.text, t.reg, t.label, t.frames)
\* emitLine of an instruction without and with a fresh register as its result.
Emit(s, op, l, r) == Ir(Append(s.text, Line3(op, None, l, r)), s.reg, s.label, s.frames)
Define(s, op, l, r) ==
    Ir(Append(s.text, Line3(op, Reg(s.reg), l, r)), s.reg + 1, s.label, s.frames)
IrValue(s, v) == [s |-> s, v |-> v]

\* LlvmEmitter::emitExpr and emitBooleanExpr, where l and r are the operands, one
\* after the other.
IrExprOf(l, r, s, e) ==
    CASE e.k = "lit" -> IrValue(Nothing(s), Const32(e.v))
      [] e.k = "var" ->
            IrValue(Define(Nothing(s), "load", LookedUp(s.frames, e.name), None), Reg(s.reg))
      [] OTHER ->
            LET op == IF e.k = "add" THEN "add" ELSE IF e.op = "==" THEN "eq" ELSE "ne"
            IN IrValue(Define(Continued(l.s, r.s), op, l.v, r.v), Reg(r.s.reg))

\* Mutant of Labels: the labels of a statement are numbered from the same start.
LabelsStuck(s, n) == s
Labels(s, n) == Ir(s.text, s.reg, s.label + n, s.frames)
\* Code goes elsewhere with op, and a label follows.
Part(s, op, l, r, label) == Emit(Emit(s, op, l, r), "label", label, None)

\* IfStatement, whose condition is c: up to its body, and with it.
\* Labels: then, end.
IrThen(c) ==
    LET then == c.s.label
    IN Part(Labels(c.s, 2), "br", c.v, << then, then + 1 >>, then)
IrEndIf(c, body) ==
    LET end == c.s.label + 1
    IN Part(Continued(IrThen(c), body), "jmp", end, None, end)

\* WhileStatement: up to its condition, up to its body, and with it.
\* Labels: cond, body, end.
IrTurn(s) == Part(Labels(Nothing(s), 3), "jmp", s.label, None, s.label)
IrDo(s, c) ==
    LET enter == s.label + 1
    IN Part(Continued(IrTurn(s), c.s), "br", c.v, << enter, enter + 1 >>, enter)
IrEndWhile(s, c, body) ==
    Part(Continued(IrDo(s, c), body), "jmp", s.label, None, s.label + 2)

\* LlvmEmitter::emitStatement, where v is its expression and body its body; where
\* they start, and how it ends.
IrHead(s, st) == IF st.k = "while" THEN IrTurn(s) ELSE s
IrInto(s, v, st) ==
    CASE st.k = "if"    -> IrThen(v)
      [] st.k = "while" -> IrDo(s, v)
      [] OTHER          -> s
IrStmtOf(v, body, s, st) ==
    CASE st.k = "decl" ->
            LET ptr == << st.name, s.reg >>
                t   == Emit(Emit(Nothing(s), "alloca", ptr, None), "store", Const32(0), ptr)
            IN Ir(t.text, s.reg + 1, s.label, DeclareAs(s.frames, st.name, ptr))
      [] st.k = "assign" -> Emit(v.s, "store", v.v, LookedUp(s.frames, st.name))
      [] st.k = "print"  -> Emit(v.s, "print", v.v, None)
      [] st.k = "if"     -> IrEndIf(v, body)
      [] st.k = "while"  -> IrEndWhile(s, v, body)
      [] OTHER           -> body

\* LlvmEmitter::emitBlock, around its statements, and one statement or program
\* after the other.
IrEntered(s)     == Ir(<< >>, s.reg, s.label, EnterScope(s.frames))
IrLeft(s, inner) == Ir(inner.text, inner.reg, inner.label, s.frames)
IrOneByOne(first, rest, s, parts) == IF parts = << >> THEN Nothing(s) ELSE Continued(first, rest)

\* LlvmEmitter::emit, around the programs: one main for all of them.
IrBegun    == Ir(<< >>, 0, 0, << NoScope >>)
IrEnded(s) == Emit(s, "ret", None, None).text
=============================================================================
