------------------------------ MODULE BackEnds ------------------------------
(***************************************************************************)
(* A program is written, optimized and handed to the back ends; the 6502   *)
(* machine then runs its code, instruction by instruction.                 *)
(***************************************************************************)
EXTENDS Programs, Optimizer, Interp, Lowering, TextBackEnds, TextRules, IrMachine, Outcomes

CONSTANTS
    HostMod,  \* more values than any sum of these programs has: wide ints
    Fuel,     \* bound: turns of loops
    HostFuel, \* bound: the same where ints are wide, and an eighth of the jumps of IR
    MaxOut    \* bound: what is printed beyond what is meant, or by a program without end

vars == << programVars, cpuVars, meant >>

\* The generator refuses a program with a literal that does not fit in a byte.
Emittable(program) == \A l \in StmtLits(program) : l.v < WordMod

Init ==
    /\ InitProgram
    /\ Off
    /\ meant = << >>

WriteSource == ~Compiled /\ WriteStep /\ UNCHANGED << cpuVars, meant >>
Compile ==
    /\ ~Compiled /\ Complete /\ Emittable(Optimize(Program))
    /\ Loaded(Generated(Optimize(Program)), Outcome(Exec(Program, Fuel)))
    /\ UNCHANGED programVars
Run ==
    /\ Compiled
    /\ Len(out) < MaxOut + (IF meant.ends THEN Len(meant.out) ELSE 0)
    /\ MachineRuns
    /\ UNCHANGED programVars

Next == WriteSource \/ Compile \/ Run

Spec     == Init /\ [][Next]_vars
FairSpec == Spec /\ WF_vars(Run)

-----------------------------------------------------------------------------
(***************************************************************************)
(* What the text back ends emit, run.                                      *)
(***************************************************************************)
Host == INSTANCE Interp WITH IntMod <- HostMod, DeclResets <- TRUE

IrStopped(text, m) == m.jumps = 8 * HostFuel \/ IrReturns(text, m)
RECURSIVE RunIr(_, _, _)
\* Up to 2^k instructions; as two halves, so that the recursion is k deep.
RunIr(text, m, k) ==
    IF IrStopped(text, m) THEN m
    ELSE IF k = 0 THEN IrStep(text, m, HostMod)
    ELSE RunIr(text, RunIr(text, m, k - 1), k - 1)
\* The jumps are used up long before 2^16 instructions are.
IrOutcome(text) ==
    LET m == RunIr(text, IrStart, 16) IN [out |-> m.out, ends |-> m.jumps < 8 * HostFuel]

-----------------------------------------------------------------------------
(***************************************************************************)
(* Properties.                                                             *)
(***************************************************************************)
\* The machine comes to a halt whenever the program ends.
Halts == (Compiled /\ meant.ends) ~> halted

Ready == ~Compiled /\ Complete /\ Emittable(Optimize(Program))
Tree  == Optimize(Program)
\* Twice the program, as two programs of one file.
Twice(o) == IF o.ends THEN [o EXCEPT !.out = @ \o @] ELSE o
SameOutcome(o, p) ==
    IF o.ends THEN p.ends /\ o.out = p.out ELSE IsPrefix(o.out, p.out) \/ IsPrefix(p.out, o.out)

\* The Java, TypeScript and LLVM texts of a file do what its programs do, one
\* after the other, where declarations make variables anew and ints are wide
\* ("Added source generation backends that consume the same optimized AST",
\* README.md:153).
TextAgrees ==
    Ready =>
        LET o == Twice(Outcome(Host!Exec(Program, HostFuel)))
        IN /\ SameOutcome(o, Outcome(Host!Exec(Java(<< Tree, Tree >>), 2 * HostFuel)))
           /\ SameOutcome(o, IrOutcome(Llvm(<< Tree, Tree >>)))

RECURSIVE NoClash(_, _)
NoClash(stmts, seen) ==
    LET st == Head(stmts)
    IN NoClashOf(ExprVars(OwnExpr(st)), NoClash(st.body, seen),
                 NoClash(Tail(stmts), SeenAfter(st, seen)), stmts, seen)
\* "Java source and TypeScript source generation are fully integrated and
\* runnable" (README.md:168): shadowing in the source never becomes a second
\* declaration of a visible variable, which Java does not allow.
JavaNames == Ready => NoClash(Java(<< Tree, Tree >>), {})

\* The module that is emitted is one LLVM takes.
IrWellFormed == Ready => WellFormed(Llvm(<< Tree, Tree >>))
=============================================================================
