------------------------------- MODULE Values --------------------------------
(***************************************************************************)
(* What a checked program does when it runs: what an expression is worth   *)
(* and what a statement does, given the same of their parts.  Module       *)
(* Interp ties the knot.                                                   *)
(*                                                                         *)
(* On the machine variables are static slots, one for each declaration,    *)
(* that start as 0 and keep their value when their block is left and       *)
(* entered again: a declaration does nothing; an int is one byte.  In the  *)
(* languages of the text back ends a declaration makes the variable anew,  *)
(* with 0 in it, and ints are wide.                                        *)
(*                                                                         *)
(* Fuel bounds the turns of loops; a program that uses it up is taken not  *)
(* to end, as is one with a loop of more than 2^LoopDepth turns.           *)
(***************************************************************************)
EXTENDS Tree

CONSTANTS
    IntMod,      \* 2^8: the width of an int
    DeclResets,  \* does a declaration set its variable to 0?
    LoopDepth    \* bound: a loop makes up to 2^LoopDepth turns

ASSUME LoopDepthAssumption == LoopDepth \in Nat

ValueOf(store, var) ==
    LET key == << var.name, var.scope >>
    IN IF key \in DOMAIN store THEN store[key] ELSE 0

EvalOf(Ev(_, _), e, store) ==
    CASE e.k = "lit" -> e.v
      [] e.k = "var" -> ValueOf(store, e)
      [] e.k = "add" -> (Ev(e.l, store) + Ev(e.r, store)) % IntMod
      [] OTHER ->
            LET same == Ev(e.l, store) = Ev(e.r, store)
            IN IF (e.op = "==") = same THEN 1 ELSE 0

Store(s, key, v) ==
    [s EXCEPT !.store = [k \in DOMAIN s.store \cup {key} |-> IF k = key THEN v ELSE s.store[k]]]
Output(s, v) == [s EXCEPT !.out = Append(@, v)]
Burn(s)      == [s EXCEPT !.fuel = @ - 1]

\* Up to 2^k turns of a loop; as two halves, so that the recursion is k deep.
LoopOf(Ev(_, _), Bl(_, _), Lp(_, _, _), w, s, k) ==
    IF s.fuel = 0 \/ Ev(w.cond, s.store) # 1 THEN s
    ELSE IF k = 0 THEN Bl(w.body, Burn(s))
    ELSE Lp(w, Lp(w, s, k - 1), k - 1)
\* A loop that would go on is taken not to end.
Settled(cond, s) == IF cond = 1 THEN [s EXCEPT !.fuel = 0] ELSE s

ExecStmtOf(Ev(_, _), Bl(_, _), Lp(_, _, _), st, s) ==
    IF s.fuel = 0 THEN s
    ELSE CASE st.k = "decl"   -> IF DeclResets THEN Store(s, << st.name, st.scope >>, 0) ELSE s
           [] st.k = "assign" -> Store(s, << st.name, st.scope >>, Ev(st.e, s.store))
           [] st.k = "print"  -> Output(s, Ev(st.e, s.store))
           [] st.k = "block"  -> Bl(st.body, s)
           [] st.k = "if"     -> IF Ev(st.cond, s.store) = 1 THEN Bl(st.body, s) ELSE s
           [] OTHER           -> LET t == Lp(st, s, LoopDepth) IN Settled(Ev(st.cond, t.store), t)

ExecBlockOf(Ex(_, _), Bl(_, _), stmts, s) ==
    IF stmts = << >> THEN s ELSE Bl(Tail(stmts), Ex(Head(stmts), s))

Started(fuel) == [store |-> << >>, out |-> << >>, fuel |-> fuel]
=============================================================================
