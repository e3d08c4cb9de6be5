------------------------------- MODULE Rewrites ------------------------------
(***************************************************************************)
(* The rewrites of optimizeAstProgram (src/optimizer.cpp): constants are   *)
(* folded and propagated, dead code is removed, loops are unrolled.  What  *)
(* becomes of a node is put together from what becomes of its parts;       *)
(* module Optimizer ties the knot.                                         *)
(*                                                                         *)
(* The walk keeps an environment, a stack of scopes by name, with what is  *)
(* known of each variable; the optimizer does not look at the scope ids in *)
(* the tree.                                                               *)
(***************************************************************************)
EXTENDS Tree, SequencesExt

CONSTANT MaxUnroll  \* turns up to which a loop is unrolled (16)

(***************************************************************************)
(* ConstValue and Env.                                                     *)
(***************************************************************************)
Unknown == [kind |-> "unknown", v |-> 0]
Absent  == [kind |-> "absent", v |-> 0]
Const(kind, v) == [kind |-> kind, v |-> v]

NoNames == [n \in Names |-> Absent]
Enter(env) == Append(env, NoNames)
Leave(env) == Front(env)

DeclareVar(env, n) == [env EXCEPT ![Len(env)][n] = Unknown]

Frame(env, n) == LET holding == {i \in DOMAIN env : env[i][n] # Absent}
                 IN IF holding = {} THEN 0 ELSE Max(holding)

\* A name no scope holds is added to the innermost one.
AssignVar(env, n, c) ==
    LET i == IF Frame(env, n) = 0 THEN Len(env) ELSE Frame(env, n)
    IN [env EXCEPT ![i][n] = c]

Lookup(env, n) == IF Frame(env, n) = 0 THEN Unknown ELSE env[Frame(env, n)][n]

\* invalidateVar, for each of a set of names; names of bodies that are not
\* declared here are added, as unknown, to the innermost scope.
Invalidate(env, names) ==
    [i \in DOMAIN env |-> [n \in Names |->
        IF n \in names /\ i = (IF Frame(env, n) = 0 THEN Len(env) ELSE Frame(env, n))
        THEN Unknown ELSE env[i][n]]]

(***************************************************************************)
(* Expressions.                                                            *)
(***************************************************************************)
IsKnown(c) == c.kind # "unknown"
Same(c, d) == IsKnown(c) /\ c.kind = d.kind
Compared(op, c, d) == (op = "==") = (c.v = d.v)

\* evalConstExpr, where a and b are the values of the operands: sums are the
\* host's, they do not wrap.
EvalConstOf(a, b, e, env) ==
    CASE e.k = "lit" -> Const(e.kind, e.v)
      [] e.k = "var" -> Lookup(env, e.name)
      [] e.k = "add" -> IF a.kind = "int" /\ b.kind = "int" THEN Const("int", a.v + b.v) ELSE Unknown
      [] OTHER -> IF Same(a, b) THEN Const("bool", IF Compared(e.op, a, b) THEN 1 ELSE 0) ELSE Unknown

\* constToExpr.
\* Mutant of Literal: a constant that is no string is written as an int.
NumericLiteral(c) == Lit(IF c.kind = "string" THEN "string" ELSE "int", c.v)
Literal(c) == Lit(c.kind, c.v)

\* optimizeExpr and optimizeBoolExpr, where c is the value of the expression and
\* l and r are the operands, optimized: a comparison is folded when its operands
\* are, which is when it has a constant value.  The folding of a sum after its
\* operands finds no sum that was not folded as a whole.
OptExprOf(c, l, r, e) ==
    IF IsKnown(c) THEN Literal(c)
    ELSE CASE e.k = "add" -> Add(l, r)
           [] e.k = "cmp" -> Compare(e.op, l, r)
           [] OTHER       -> e

IsFalse(c) == c.k = "lit" /\ c.v = 0
IsTrue(c)  == c.k = "lit" /\ c.v = 1

(***************************************************************************)
(* Loops.                                                                  *)
(***************************************************************************)
\* collectAssignedVars: names assigned anywhere in a body, whatever they mean; In
\* are those of the bodies in it.
AssignedOf(In(_), body) ==
    {body[i].name : i \in {i \in DOMAIN body : body[i].k = "assign"}}
    \cup UNION {In(body[i].body) : i \in {i \in DOMAIN body : HasBody(body[i])}}

\* incrementStepIfCanonical: n + k or k + n; 0 if the expression is neither.
IsVar(e, n) == e.k = "var" /\ e.name = n
IsInt(e)    == e.k = "lit" /\ e.kind = "int"
Step(e, n) ==
    IF e.k # "add" THEN 0
    ELSE IF IsVar(e.l, n) THEN (IF IsInt(e.r) THEN e.r.v ELSE 0)
    ELSE IF IsVar(e.r, n) /\ IsInt(e.l) THEN e.l.v ELSE 0

\* tryUnrollWhile: while n != limit, with n known and stepped by the last
\* statement of a straight body that assigns it nowhere else.  The turns the
\* loop makes, or {} if it is not unrolled.
Counted(cur, limit, step) ==
    /\ cur <= limit
    /\ (limit - cur) % step = 0
    /\ (limit - cur) \div step <= MaxUnroll

Straight(body, n) ==
    /\ \A i \in DOMAIN body : ~HasBody(body[i])
    /\ {i \in DOMAIN body : body[i].k = "assign" /\ body[i].name = n} = {Len(body)}

Turns(w, env) ==
    LET n     == w.cond.l.name
        cur   == Lookup(env, n)
        limit == w.cond.r.v
        step  == Step(Last(w.body).e, n)
    IN IF /\ w.cond.k = "cmp" /\ w.cond.op = "!="
          /\ w.cond.l.k = "var" /\ IsInt(w.cond.r)
          /\ cur.kind = "int"
          /\ w.body # << >> /\ Straight(w.body, n)
          /\ step > 0 /\ Counted(cur.v, limit, step)
       THEN {(limit - cur.v) \div step}
       ELSE {}

(***************************************************************************)
(* Statements.  A statement becomes a sequence of statements; the walk     *)
(* returns it with the environment after it.                               *)
(***************************************************************************)
Result(stmts, env) == [stmts |-> stmts, env |-> env]

\* The environment for code that runs before, after or without some of the
\* assignments to the names.
\* Mutant of AfterBody: what was known before the body stays known.
KeepKnown(env, names) == env
AfterBody(env, names) == Invalidate(env, names)

Follow(r, s) == Result(r.stmts \o s.stmts, s.env)
AsBlock(r)   == Result(<< Block(r.stmts) >>, r.env)
LeaveScope(r) == Result(r.stmts, Leave(r.env))

\* optimizeBlock, where the statements are the first one's result and the rest's.
SequenceOf(first, rest, stmts, env) ==
    IF stmts = << >> THEN Result(<< >>, env) ELSE Follow(first, rest)

\* The turns of a loop, each a block of its own, one after the other.
TurnsOf(first, rest, turns, env) ==
    IF turns = 0 THEN Result(<< >>, env) ELSE Follow(first, rest)

\* The branch of an if is walked with a copy of the environment, as it may not
\* be taken.  A condition that is known leaves nothing or the bare block.
\* Mutant of IfOf: the statements of a branch that is always taken lose their
\* block.
IfOfBare(c, branch, env, names) ==
    IF IsFalse(c) THEN Result(<< >>, env)
    ELSE IF IsTrue(c) THEN branch
    ELSE Result(<< If(c, branch.stmts) >>, AfterBody(env, names))
IfOf(c, branch, env, names) ==
    IF IsFalse(c) THEN Result(<< >>, env)
    ELSE IF IsTrue(c) THEN AsBlock(branch)
    ELSE Result(<< If(c, branch.stmts) >>, AfterBody(env, names))

\* The condition c and the body of a loop that is kept hold for every turn, in
\* the environment `stable`.
WhileOf(c, turns, unrolled, body, env, stable) ==
    IF IsFalse(c) THEN Result(<< >>, env)
    ELSE IF turns # {} THEN unrolled
    ELSE Result(<< While(c, body.stmts) >>, stable)

\* optimizeStatement: F optimizes an expression and K evaluates it, B optimizes a
\* block, A are the names it assigns and U are the turns of a loop.
OptStmtOf(F(_, _), K(_, _), B(_, _), A(_), U(_, _, _), st, env) ==
    CASE st.k = "decl"   -> Result(<< st >>, DeclareVar(env, st.name))
      [] st.k = "assign" ->
            LET e == F(st.e, env)
            IN Result(<< Assign(st.name, st.scope, e) >>, AssignVar(env, st.name, K(e, env)))
      [] st.k = "print"  -> Result(<< PrintOf(F(st.e, env)) >>, env)
      [] st.k = "block"  -> AsBlock(B(st.body, env))
      [] st.k = "if"     -> IfOf(F(st.cond, env), B(st.body, env), env, A(st.body))
      [] OTHER ->
            LET stable == AfterBody(env, A(st.body))
                turns  == Turns(st, env)
            IN WhileOf(F(st.cond, stable), turns, U(st, env, CHOOSE t \in turns : TRUE),
                       B(st.body, stable), env, stable)
=============================================================================
