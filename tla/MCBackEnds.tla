----------------------------- MODULE MCBackEnds -----------------------------
(* Instances of BackEnds for TLC. *)
EXTENDS BackEnds

\* Names stand for themselves in what is given to the writer of programs.
Name(n) == Var(n, 0)
Is(l, r)    == Compare("==", l, r)
IsNot(l, r) == Compare("!=", l, r)
Text(v) == Lit("string", v)

AllNames == {"i", "j", "b", "s"}
Types == [n \in AllNames |-> CASE n = "b" -> "bool" [] n = "s" -> "string" [] OTHER -> "int"]

\* Variables that are not set are 0; i is 9, but the optimizer does not know.
OneOfEach == << Decl("i", 0), Decl("j", 0), Decl("b", 0), Decl("s", 0),
                If(Is(Name("j"), IntLit(0)), << Assign("i", 0, IntLit(9)) >>) >>
MixedPreludes == {OneOfEach}

\* Sums up to and above MaxIncrement, nested sums, comparisons as values.
MixedExprs ==
    { Add(IntLit(1), Name("i")), Add(IntLit(7), Add(IntLit(9), Name("j"))),
      IsNot(Add(IntLit(9), Name("i")), Name("j")), Text(5) }
MixedPrinted == { Add(IntLit(2), Name("i")), Add(IntLit(9), Name("j")), Name("b"), Name("s") }
MixedConditions ==
    { Is(Is(Name("i"), IntLit(1)), Name("b")), IsNot(Name("s"), Text(5)),
      IsNot(Name("j"), Add(IntLit(2), Name("i"))) }

\* A right operand that is a sum above MaxIncrement.
SumPreludes == {<< Decl("i", 0), Decl("j", 0) >>}
SumExprs == {IntLit(9)}
SumPrinted == {Name("i")}
SumConditions == {Is(Name("j"), Add(IntLit(9), Name("i")))}
=============================================================================
