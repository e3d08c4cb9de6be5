------------------------------ MODULE Outcomes -------------------------------
(***************************************************************************)
(* Code is loaded and the machine runs it: what it has to print.           *)
(***************************************************************************)
EXTENDS MachineCode, SequencesExt

VARIABLE meant  \* what the program that was compiled prints, and whether it ends

\* The outcome of a run of the source program.
Outcome(s) == [out |-> s.out, ends |-> s.fuel > 0]

Loaded(k, o) == Boot(k) /\ meant' = o
MachineRuns   == CpuStep /\ UNCHANGED meant

\* One program that means o becomes code k, which is loaded, once, and runs.
OneProgram(k, o) ==
    /\ Off /\ meant = << >>
    /\ [][(~Compiled /\ Loaded(k, o)) \/ (Compiled /\ MachineRuns)]_<< cpuVars, meant >>

Prefixed(printed, o) == IsPrefix(printed, o.out) \/ (~o.ends /\ IsPrefix(o.out, printed))
Agrees(printed, ended, o) == IF ended THEN o.ends /\ printed = o.out ELSE Prefixed(printed, o)

\* What the machine has printed is what the source program prints up to there,
\* and the machine halts only where the program ends (README.md:301: "equivalent
\* form"; generate6502Program).
OutputFollows == Compiled => Agrees(out, halted, meant)
=============================================================================
