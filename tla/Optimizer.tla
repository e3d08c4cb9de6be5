------------------------------ MODULE Optimizer ------------------------------
(***************************************************************************)
(* optimizeAstProgram: one walk over the tree.                             *)
(***************************************************************************)
EXTENDS Ast, Rewrites

RECURSIVE EvalConst(_, _), OptExpr(_, _)
EvalConst(e, env) == EvalConstOf(EvalConst(e.l, env), EvalConst(e.r, env), e, env)
OptExpr(e, env) == OptExprOf(EvalConst(e, env), OptExpr(e.l, env), OptExpr(e.r, env), e)

RECURSIVE Assigned(_)
Assigned(body) == AssignedOf(Assigned, body)

(***************************************************************************)
(* A statement becomes a sequence of statements; the walk returns it with  *)
(* the environment after it.                                               *)
(***************************************************************************)
RECURSIVE OptStmts(_, _), OptStmt(_, _), Unrolled(_, _, _)
OptStmts(stmts, env) ==
    LET first == OptStmt(Head(stmts), env)
    IN SequenceOf(first, OptStmts(Tail(stmts), first.env), stmts, env)

\* optimizeBlock.
OptBlock(stmts, env) == LeaveScope(OptStmts(stmts, Enter(env)))

Unrolled(w, env, turns) ==
    LET first == AsBlock(OptBlock(w.body, env))
    IN TurnsOf(first, Unrolled(w, first.env, turns - 1), turns, env)

OptStmt(st, env) == OptStmtOf(OptExpr, EvalConst, OptBlock, Assigned, Unrolled, st, env)

\* optimizeAstProgram.
Optimize(program) == OptBlock(program, << >>).stmts
=============================================================================
