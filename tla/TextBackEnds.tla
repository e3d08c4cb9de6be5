---------------------------- MODULE TextBackEnds ----------------------------
(***************************************************************************)
(* The back ends that emit text (src/multi_backend.cpp): the walks over    *)
(* the optimized tree.                                                     *)
(***************************************************************************)
EXTENDS Ast, Emitters

RECURSIVE Spelled(_, _)
Spelled(e, frames) == SpelledOf(Spelled(e.l, frames), Spelled(e.r, frames), e, frames)

RECURSIVE Emitted(_, _, _), EmittedStmt(_, _, _)
\* emitBlock and emitStatement.
EmittedBody(body, id, frames) == Emitted(body, id, EnterScope(frames))
EmittedStmt(st, id, frames) ==
    EmittedStmtOf(Spelled(OwnExpr(st), frames), EmittedBody(st.body, id, frames), st, id, frames)
Emitted(stmts, id, frames) ==
    LET first == EmittedStmt(Head(stmts), id, frames)
    IN EmittedOf(first, Emitted(Tail(stmts), first.id, first.frames), stmts, id, frames)

RECURSIVE Module(_, _)
\* JavaEmitter::emit: a method for each program, called in order.
Module(programs, id) ==
    LET method == EmittedBody(Head(programs), id, << >>)
    IN ModuleOf(method, Module(Tail(programs), method.id), programs)
Java(programs) == Module(programs, 0)

\* TsEmitter: the same walk, with let for the types and === for ==.
TypeScript(programs) == Module(programs, 0)

RECURSIVE IrExpr(_, _)
IrExpr(s, e) ==
    LET l == IrExpr(s, e.l)
    IN IrExprOf(l, IrExpr(l.s, e.r), s, e)

RECURSIVE IrStmts(_, _), IrStmt(_, _)
\* LlvmEmitter::emitBlock.
IrBlock(s, body) == IrLeft(s, IrStmts(IrEntered(s), body))
IrStmts(s, stmts) ==
    LET first == IrStmt(s, Head(stmts))
    IN IrOneByOne(first, IrStmts(first, Tail(stmts)), s, stmts)
IrStmt(s, st) ==
    LET v == IrExpr(IrHead(s, st), OwnExpr(st))
    IN IrStmtOf(v, IrBlock(IrInto(s, v, st), st.body), s, st)

RECURSIVE IrPrograms(_, _)
IrPrograms(s, programs) ==
    LET main == IrBlock(s, Head(programs))
    IN IrOneByOne(main, IrPrograms(main, Tail(programs)), s, programs)
\* LlvmEmitter::emit.
Llvm(programs) == IrEnded(IrPrograms(IrBegun, programs))
=============================================================================
