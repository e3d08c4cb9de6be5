---------------------------- MODULE MCSemantics ----------------------------
(***************************************************************************)
(* Instances of Semantics for TLC.                                         *)
(***************************************************************************)
EXTENDS Semantics

CONSTANTS a, b, none

Atom(x)       == [op |-> "atom", args |-> << x >>]
Add(x, y)     == [op |-> "add", args |-> << x, y >>]
Compare(x, y) == [op |-> "compare", args |-> << x, y >>]

\* One name, declared again in nested and sibling blocks.
Shadowing == [names |-> {a}, types |-> {"int", "string"}, exprs |-> {Atom(a)},
              conditions |-> {}, visits |-> 8]

\* Two names and every operator over names and literals.
Typing == [names |-> {a, b}, types |-> Types,
           exprs |-> {Atom(a), Atom("string"), Add("int", b), Compare(a, b),
                      Compare(b, "boolean")},
           conditions |-> {Compare(a, b), Atom("boolean")}, visits |-> 5]

Both == {Shadowing, Typing}
=============================================================================
