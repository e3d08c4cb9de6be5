------------------------------ MODULE Lowering ------------------------------
(***************************************************************************)
(* What code a checked and optimized tree becomes: the fragments of its    *)
(* nodes, put together along the tree.                                     *)
(***************************************************************************)
EXTENDS Ast, Fragments

RECURSIVE ToA(_, _), Predicate(_, _)
ToA(e, n) == ToAOf(ToA, Predicate, e, n)

\* Mutant of Predicate: `!=` is not inverted.
PredicateUninverted(c, n) ==
    IF c.k = "lit" THEN PredicateOf(<< >>, c, n) ELSE Compared6502(ToA, c, n)
Predicate(c, n) == PredicateOf(Compared6502(ToA, c, n), c, n)

RECURSIVE Lowered(_, _)
Lowered(stmts, n) == BlockOf(ToA, Predicate, Lowered, stmts, n)

\* Mutant of Generated: the constant that clears the carry is not set.
GeneratedCarry(program) ==
    << Instr("LDAI", 0), Instr("STA", ZeroSlot) >> \o Lowered(program, 0).instrs \o Epilogue
Generated(program) == ProgramCode(Lowered(program, 0))
=============================================================================
