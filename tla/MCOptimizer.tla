---------------------------- MODULE MCOptimizer ----------------------------
(* Instances of OptimizerCheck for TLC. *)
EXTENDS OptimizerCheck

\* Names stand for themselves in what is given to the writer of programs.
Name(n) == Var(n, 0)
Is(n, v)    == Compare("==", Name(n), IntLit(v))
IsNot(n, v) == Compare("!=", Name(n), IntLit(v))
Inc(n, k)   == Add(IntLit(k), Name(n))

Zeroed(n) == << Decl(n, 0), Assign(n, 0, IntLit(0)) >>

\* Optimizer.cfg: an int that counts and a boolean; loops that can and cannot be
\* unrolled, conditions that are known and unknown.
TwoNames == {"i", "b"}
OneName == {"i"}
Types == [n \in {"i", "b"} |-> IF n = "i" THEN "int" ELSE "bool"]
MixedExprs == {Inc("i", 1), Inc("i", 2), Is("i", 1), BoolLit(TRUE)}
MixedPrinted == {Inc("i", 1), Name("b")}
MixedConditions == {Compare("==", Name("b"), BoolLit(TRUE)), IsNot("i", 2), IsNot("i", 3), BoolLit(FALSE)}
MixedPreludes == {Zeroed("i") \o << Decl("b", 0) >>}

\* OptimizerCapture.cfg: a counter.
CountExprs == {IntLit(1), Inc("i", 2)}
CountPrinted == {Name("i")}
CountConditions == {IsNot("i", 2)}
CountPreludes == {Zeroed("i")}

\* OptimizerOverflow.cfg: a sum that does not fit in an int.
SumConditions == {Compare("==", Add(IntLit(5), IntLit(4)), IntLit(1))}
=============================================================================
