------------------------------- MODULE Interp -------------------------------
(***************************************************************************)
(* What a checked program does when it runs.                               *)
(***************************************************************************)
EXTENDS Ast, Values, SequencesExt

RECURSIVE Eval(_, _)
Eval(e, store) == EvalOf(Eval, e, store)

RECURSIVE ExecBlock(_, _), ExecStmt(_, _), Loop(_, _, _)
ExecBlock(stmts, s) == ExecBlockOf(ExecStmt, ExecBlock, stmts, s)
ExecStmt(st, s)     == ExecStmtOf(Eval, ExecBlock, Loop, st, s)
Loop(w, s, k)       == LoopOf(Eval, ExecBlock, Loop, w, s, k)

Exec(program, fuel) == ExecBlock(program, Started(fuel))
=============================================================================
