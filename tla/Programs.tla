------------------------------ MODULE Programs ------------------------------
(***************************************************************************)
(* Checked programs, written statement by statement.                       *)
(*                                                                         *)
(* Names get the scope ids the scope pass gives them (module Semantics),   *)
(* and only programs it and the type pass accept are written.  With the    *)
(* root block alone open, the program is complete.                         *)
(***************************************************************************)
EXTENDS Ast, SequencesExt

CONSTANTS
    TypeOf,     \* the type every declaration of a name has: "int", "bool" or "string"
    Exprs,      \* expressions that are assigned, over names
    Printed,    \* expressions that are printed
    Conditions, \* conditions of if and while, over names
    Preludes,   \* beginnings of programs: statements of the root block
    Capture,    \* may a loop redeclare, in its body, a name of its condition?
    MaxSize,    \* bound: statements after the prelude
    MaxDepth    \* bound: blocks open at once

VARIABLES
    open,   \* the open blocks: the statement that will be made of each
    scopes, \* scope ids given
    size    \* statements written

programVars == << open, scopes, size >>

Top == open[Len(open)]
Opened(k, c, scope) == [k |-> k, cond |-> c, body |-> << >>, scope |-> scope, names |-> {}]

ScopeOf(n) == open[Max({i \in DOMAIN open : n \in open[i].names})].scope
Visible == UNION {open[i].names : i \in DOMAIN open}

RECURSIVE Resolve(_)
Resolve(e) ==
    CASE e.k = "lit" -> e
      [] e.k = "var" -> Var(e.name, ScopeOf(e.name))
      [] e.k = "add" -> Add(Resolve(e.l), Resolve(e.r))
      [] OTHER       -> Compare(e.op, Resolve(e.l), Resolve(e.r))
UsedNames(e) == {x.name : x \in ExprVars(e)}

RECURSIVE Infer(_, _)
\* The type of an expression, where the names `known` are declared.
Infer(e, known) ==
    InferOf(Infer(e.l, known), Infer(e.r, known),
            IF e.name \in known THEN TypeOf[e.name] ELSE "invalid", e)
Typed(e) == Infer(e, Visible) # "invalid"

Write(st) ==
    /\ size < MaxSize
    /\ size' = size + 1
    /\ open' = [open EXCEPT ![Len(open)].body = Append(@, st)]
    /\ UNCHANGED scopes

WriteDecl(n) ==
    /\ n \notin Top.names
    /\ Capture \/ Top.k # "while" \/ n \notin UsedNames(Top.cond)
    /\ size < MaxSize
    /\ size' = size + 1
    /\ open' = [open EXCEPT ![Len(open)].body = Append(@, Decl(n, Top.scope)),
                            ![Len(open)].names = @ \cup {n}]
    /\ UNCHANGED scopes
WriteAssign(n, e) ==
    /\ n \in Visible /\ Infer(e, Visible) = TypeOf[n]
    /\ Write(Assign(n, ScopeOf(n), Resolve(e)))
WritePrint(e) == Typed(e) /\ Write(PrintOf(Resolve(e)))

OpenBody(k, c) ==
    /\ size < MaxSize /\ Len(open) < MaxDepth
    /\ Typed(c)
    /\ size' = size + 1
    /\ scopes' = scopes + 1
    /\ open' = Append(open, Opened(k, Resolve(c), scopes))
Close ==
    /\ Len(open) > 1
    /\ LET st == CASE Top.k = "block" -> Block(Top.body)
                   [] Top.k = "if"    -> If(Top.cond, Top.body)
                   [] OTHER           -> While(Top.cond, Top.body)
       IN open' = [Front(open) EXCEPT ![Len(open) - 1].body = Append(@, st)]
    /\ UNCHANGED << scopes, size >>

InitProgram ==
    /\ \E p \in Preludes :
          open = << [Opened("block", BoolLit(TRUE), 0) EXCEPT
                        !.body = p,
                        !.names = {p[i].name : i \in {i \in DOMAIN p : p[i].k = "decl"}}] >>
    /\ scopes = 1 /\ size = 0

WriteStep ==
    \/ \E n \in Names : WriteDecl(n)
    \/ \E n \in Names, e \in Exprs : WriteAssign(n, e)
    \/ \E e \in Printed : WritePrint(e)
    \/ OpenBody("block", BoolLit(TRUE))
    \/ \E c \in Conditions : OpenBody("if", c) \/ OpenBody("while", c)
    \/ Close

Complete == Len(open) = 1
Program  == open[1].body
=============================================================================
