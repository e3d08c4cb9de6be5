-------------------------------- MODULE Tree ---------------------------------
(***************************************************************************)
(* The abstract syntax tree (src/ast.hpp) as the optimizer and the code    *)
(* generator see it: checked, with the scope id of its declaration in      *)
(* every identifier.  A boolean literal and a comparison are the same      *)
(* whether they are a condition or a value (BooleanExprWrapper).  Values   *)
(* are numbers: 0 and 1 for booleans, a positive number for each string; 0 *)
(* is a string variable that was not set.                                  *)
(***************************************************************************)
EXTENDS Integers, Sequences

CONSTANT Names  \* identifiers

Lit(kind, v)       == [k |-> "lit", kind |-> kind, v |-> v]
Var(n, scope)      == [k |-> "var", name |-> n, scope |-> scope]
Add(l, r)          == [k |-> "add", l |-> l, r |-> r]
Compare(op, l, r)  == [k |-> "cmp", op |-> op, l |-> l, r |-> r]

IntLit(n)  == Lit("int", n)
BoolLit(b) == Lit("bool", IF b THEN 1 ELSE 0)

Decl(n, scope)      == [k |-> "decl", name |-> n, scope |-> scope]
Assign(n, scope, e) == [k |-> "assign", name |-> n, scope |-> scope, e |-> e]
PrintOf(e)          == [k |-> "print", e |-> e]
Block(body)         == [k |-> "block", body |-> body]
If(c, body)         == [k |-> "if", cond |-> c, body |-> body]
While(c, body)      == [k |-> "while", cond |-> c, body |-> body]

\* inferExprType and inferBooleanExprType: the type of a node, where a and b are
\* those of its operands and t is that of the variable it names.
InferOf(a, b, t, e) ==
    CASE e.k = "lit" -> e.kind
      [] e.k = "var" -> t
      [] e.k = "add" -> IF a = "int" /\ b = "int" THEN "int" ELSE "invalid"
      [] OTHER       -> IF a = b /\ a # "invalid" THEN "bool" ELSE "invalid"

\* The identifiers of an expression, where those of its operands are l and r.
VarsOf(l, r, e) ==
    CASE e.k = "lit" -> {}
      [] e.k = "var" -> {e}
      [] OTHER       -> l \cup r

HasBody(st) == st.k \in {"block", "if", "while"}

\* The expression of a statement that has one.
OwnExpr(st) == IF HasBody(st) THEN st.cond ELSE st.e

OwnExprs(st) ==
    CASE st.k \in {"assign", "print"} -> {st.e}
      [] st.k \in {"if", "while"}     -> {st.cond}
      [] OTHER                        -> {}
=============================================================================
