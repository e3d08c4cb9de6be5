--------------------------- MODULE OptimizerCheck ---------------------------
(***************************************************************************)
(* The optimizer against the interpreter, for every program up to a size.  *)
(***************************************************************************)
EXTENDS Programs, Optimizer, Interp, FiniteSets

CONSTANT Fuel  \* bound: turns of loops

Spec == InitProgram /\ [][WriteStep]_programVars

-----------------------------------------------------------------------------
(***************************************************************************)
(* Properties.                                                             *)
(***************************************************************************)
Ends(s)  == s.fuel > 0

\* The generator refuses a program with a literal that does not fit in a byte.
Emittable(program) == \A l \in StmtLits(program) : l.v < IntMod

\* Both end, with the same output, or neither does.
Alike(p, q) ==
    LET s == Exec(p, Fuel)
        t == Exec(q, Fuel)
    IN /\ Ends(s) <=> Ends(t)
       /\ IF Ends(s) THEN s.out = t.out
          ELSE IsPrefix(s.out, t.out) \/ IsPrefix(t.out, s.out)

\* "After type checking, the compiler rewrites AST into a more efficient
\* equivalent form" (README.md:301): a program and its optimized form print the
\* same and either both end or neither does, if the generator takes the latter.
Equivalent ==
    Complete /\ Emittable(Optimize(Program)) => Alike(Program, Optimize(Program))

DeclsOf(stmts, n) == {stmts[i].name : i \in {i \in 1 .. n : stmts[i].k = "decl"}}

RECURSIVE Accepted(_, _)
\* TypeChecker::visitBlock finds nothing to report in a block where the names
\* `known` are declared before.
Accepted(stmts, known) ==
    \A i \in DOMAIN stmts :
        LET st == stmts[i]
            seen == known \cup DeclsOf(stmts, i - 1)
        IN CASE st.k = "decl"   -> TRUE
             [] st.k = "assign" -> st.name \in seen /\ Infer(st.e, seen) = TypeOf[st.name]
             [] st.k = "print"  -> Infer(st.e, seen) # "invalid"
             [] st.k = "block"  -> Accepted(st.body, seen)
             [] OTHER           -> Infer(st.cond, seen) = "bool" /\ Accepted(st.body, seen)

RECURSIVE Labelled(_, _)
\* The program that prints the type of each value instead of the value.
Labelled(stmts, known) ==
    [i \in DOMAIN stmts |->
        LET seen == known \cup DeclsOf(stmts, i - 1)
        IN CASE stmts[i].k = "print" -> PrintOf(Lit("string", Infer(stmts[i].e, seen)))
             [] HasBody(stmts[i])    -> [stmts[i] EXCEPT !.body = Labelled(@, seen)]
             [] OTHER                -> stmts[i]]

\* The generator emits code by the types it reads off the tree ("The type checker
\* should have caught this", codegen.cpp:606), but the type pass ran before the
\* optimizer: it would accept the optimized tree as well, in which every print
\* has the type it had, as an int does not print like a boolean of its value.
TypesKept ==
    LET optimized == Optimize(Program)
    IN Complete => /\ Accepted(optimized, {})
                   /\ Emittable(optimized) =>
                         Alike(Labelled(Program, {}), Labelled(optimized, {}))

RECURSIVE Rescoped(_, _)
\* Every name means the same declaration when it is looked up by the nesting of
\* blocks, `seen` being the declarations before, innermost last.
Rescoped(stmts, seen) ==
    LET Before(i) == seen \o SelectSeq(SubSeq(stmts, 1, i - 1), LAMBDA st : st.k = "decl")
        Means(i, n) == LET b == Before(i)
                       IN b[Max({j \in DOMAIN b : b[j].name = n})].scope
        Known(i, n) == \E j \in DOMAIN Before(i) : Before(i)[j].name = n
    IN \A i \in DOMAIN stmts :
          /\ \A e \in OwnExprs(stmts[i]) : \A x \in ExprVars(e) :
                Known(i, x.name) /\ Means(i, x.name) = x.scope
          /\ stmts[i].k = "assign" =>
                Known(i, stmts[i].name) /\ Means(i, stmts[i].name) = stmts[i].scope
          /\ HasBody(stmts[i]) => Rescoped(stmts[i].body, Before(i))

\* The back ends for Java, TypeScript and LLVM look names up anew, by block, in
\* the optimized tree; the 6502 generator goes by the scope ids in it.  They
\* agree on what every name means.
ScopesKept == Complete => Rescoped(Optimize(Program), << >>)
=============================================================================
