--------------------------------- MODULE Ast ---------------------------------
(***************************************************************************)
(* Walks over whole trees.                                                 *)
(***************************************************************************)
EXTENDS Tree

RECURSIVE ExprVars(_)
ExprVars(e) == VarsOf(ExprVars(e.l), ExprVars(e.r), e)

RECURSIVE ExprLits(_)
ExprLits(e) ==
    CASE e.k = "lit" -> {e}
      [] e.k = "var" -> {}
      [] OTHER       -> ExprLits(e.l) \cup ExprLits(e.r)

RECURSIVE StmtLits(_)
\* The literals of a sequence of statements.
StmtLits(stmts) ==
    UNION {UNION {ExprLits(e) : e \in OwnExprs(stmts[i])}
           \cup (IF HasBody(stmts[i]) THEN StmtLits(stmts[i].body) ELSE {})
           : i \in DOMAIN stmts}
=============================================================================
