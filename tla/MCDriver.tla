------------------------------ MODULE MCDriver ------------------------------
(* Constants of Driver for TLC. *)
EXTENDS Driver

AllTargets == {"6502", "llvm", "java", "typescript"}
ObjectTarget == {"6502"}
=============================================================================
