------------------------------- MODULE Driver -------------------------------
(***************************************************************************)
(* One run of the compiler (src/main.cpp): read, lex and parse with the    *)
(* --fix loop, lower, check, generate, link, write, exit.                  *)
(*                                                                         *)
(* A source file holds several programs, and all phases share one bag of   *)
(* diagnostics; main tells from its error count, before and after a call,  *)
(* what the call found wrong.  The phases themselves are modelled here by  *)
(* what they do to the bag and to their result, as the nature of each      *)
(* program has it; Semantics and ObjectImage are about what they compute.  *)
(***************************************************************************)
EXTENDS Naturals, Sequences

CONSTANTS
    Targets,      \* back ends: "6502", "llvm", "java", "typescript"
    MaxFixPasses, \* kMaxFixPasses (32)
    MaxPrograms,  \* bound: programs in the source
    MaxErrors,    \* bound: errors one call reports
    LateLoss      \* the disk may refuse data after the last check of the stream

ASSUME DriverAssumption ==
    /\ Targets \subseteq {"6502", "llvm", "java", "typescript"}
    /\ MaxFixPasses \in Nat \ {0}
    /\ MaxPrograms \in Nat
    /\ MaxErrors \in Nat \ {0}
    /\ LateLoss \in BOOLEAN

\* What a program is: faultless; with a name the scope pass misses; with types
\* that do not fit; or for the 6502, with strings that do not fit in the image,
\* with code and data that do not, with a branch that is too long.
Natures == {"fine", "undeclared", "mistyped", "crowded", "oversized", "tangled"}
Sources == UNION {[1 .. n -> Natures] : n \in 0 .. MaxPrograms}

Sound6502 == {"fine"}
SoundText == {"fine", "crowded", "oversized", "tangled"}

VARIABLES
    stage,    \* where main is
    fixing,   \* --fix
    target,   \* --target
    wanted,   \* -o was given
    fixPass,  \* turns of the fix loop made
    fresh,    \* tokens are those of the source text
    errors,   \* errorCount() of the bag
    fixes,    \* the bag holds suggested fixes
    stuck,    \* this turn's fixes could not be applied
    programs, \* the programs of the source, by nature
    at,       \* the program the current phase is at
    scopeOk,  \* scopeOkPerProgram
    typeOk,   \* typeOkPerProgram
    canRun,   \* canRunCodegen
    objects,  \* objectCodePerProgram
    text,     \* textBackendOutput
    file,     \* the file at the output path
    exit      \* "none", "success", "failure"

options  == << fixing, target, wanted >>
frontEnd == << fixPass, fresh, fixes, stuck >>
checks   == << scopeOk, typeOk, canRun >>
outputs  == << objects, text, file >>
vars == << stage, options, frontEnd, errors, programs, at, checks, outputs, exit >>

ErrorCounts == 1 .. MaxErrors

Stop(status) == stage' = "exit" /\ exit' = status

-----------------------------------------------------------------------------
(***************************************************************************)
(* Reading and the fix loop.                                               *)
(***************************************************************************)
OpenSource ==
    /\ stage = "read"
    /\ \/ stage' = "lex" /\ UNCHANGED << errors, exit >>
       \/ errors' = 1 /\ Stop("failure")
    /\ UNCHANGED << options, frontEnd, programs, at, checks, outputs >>

\* Mutant of Lex: one turn too many.
LexOnceMore ==
    /\ stage = "lex" /\ fixPass <= MaxFixPasses
    /\ errors' \in 0 .. MaxErrors
    /\ fixes' \in BOOLEAN
    /\ fresh' = TRUE /\ stuck' = FALSE
    /\ stage' = "lexed"
    /\ UNCHANGED << options, fixPass, programs, at, checks, outputs, exit >>
\* A turn of the loop: the bag is cleared and the text lexed anew.
Lex ==
    /\ stage = "lex" /\ fixPass < MaxFixPasses
    /\ errors' \in 0 .. MaxErrors
    /\ fixes' \in BOOLEAN
    /\ fresh' = TRUE /\ stuck' = FALSE
    /\ stage' = "lexed"
    /\ UNCHANGED << options, fixPass, programs, at, checks, outputs, exit >>

\* The loop ran out of turns without a parse.
GiveUp ==
    /\ stage = "lex" /\ fixPass = MaxFixPasses
    /\ Stop("failure")
    /\ UNCHANGED << options, frontEnd, errors, programs, at, checks, outputs >>

\* applySourceRewritesToString: all the fixes of the bag, or none of them.  When
\* some of them overlap, adding more does not help.
Fixable == fixing /\ fixes

\* Mutant of Restart: a restart is not counted.
RestartUncounted ==
    /\ Fixable /\ ~stuck
    /\ fresh' = FALSE /\ stage' = "lex"
    /\ UNCHANGED << fixPass, fixes, stuck, exit >>
\* Mutant of Restart: the rewritten text is not lexed again.
RestartAtParse ==
    /\ Fixable /\ ~stuck
    /\ fixPass' = fixPass + 1
    /\ fresh' = FALSE /\ stage' = "parse"
    /\ UNCHANGED << fixes, stuck, exit >>
Restart ==
    /\ Fixable /\ ~stuck
    /\ fixPass' = fixPass + 1
    /\ fresh' = FALSE /\ stage' = "lex"
    /\ UNCHANGED << fixes, stuck, exit >>

Refuse ==
    /\ errors > 0
    /\ Stop("failure")
    /\ UNCHANGED << fixPass, fresh, fixes >>
    /\ stuck' = (stuck \/ Fixable)

\* With or without errors, fixes suggested by the lexer are tried first.
AfterLex ==
    /\ stage = "lexed"
    /\ \/ Restart
       \/ Refuse
       \/ /\ errors = 0
          /\ stage' = "parse" /\ stuck' = Fixable
          /\ UNCHANGED << fixPass, fresh, fixes, exit >>
    /\ UNCHANGED << options, errors, programs, at, checks, outputs >>

\* parseTranslationUnit: errors and fixes join those of the lexer in the bag.
Parse ==
    /\ stage = "parse"
    /\ \E e \in 0 .. MaxErrors : errors' = errors + e
    /\ \E more \in BOOLEAN : fixes' = (fixes \/ more)
    /\ stage' = "parsed"
    /\ UNCHANGED << options, fixPass, fresh, stuck, programs, at, checks, outputs, exit >>

\* After a parse fixes are tried only if there are errors.  A parse without any
\* ends the loop, and the programs are lowered; there may be none.
AfterParse ==
    /\ stage = "parsed"
    /\ \/ errors > 0 /\ Restart /\ UNCHANGED programs
       \/ Refuse /\ UNCHANGED programs
       \/ /\ errors = 0
          /\ programs' \in Sources
          /\ stage' = "scope"
          /\ UNCHANGED << fixPass, fresh, fixes, stuck, exit >>
    /\ UNCHANGED << options, errors, at, checks, outputs >>

-----------------------------------------------------------------------------
(***************************************************************************)
(* The semantic phases, each over all programs before the next begins.     *)
(***************************************************************************)
Phase(s) == stage = s /\ at <= Len(programs) /\ at' = at + 1 /\ UNCHANGED stage
PhaseEnd(s, following) == stage = s /\ at > Len(programs) /\ at' = 1 /\ stage' = following
Semantic == UNCHANGED << options, frontEnd, programs, outputs, exit >>

\* A call adds errors to the bag exactly if the program is at fault.
Report(faulty) == \E e \in ErrorCounts : errors' = IF faulty THEN errors + e ELSE errors

\* Mutant of Passed: the whole bag is looked at, not what the call added.
PassedCleanBag(before, after) == after = 0
Passed(before, after) == after = before

CheckScopes ==
    /\ Phase("scope")
    /\ Report(programs[at] = "undeclared")
    /\ scopeOk' = Append(scopeOk, Passed(errors, errors'))
    /\ UNCHANGED << typeOk, canRun >> /\ Semantic
EndScopes == PhaseEnd("scope", "type") /\ UNCHANGED << errors, checks >> /\ Semantic

\* Types are only checked in a program whose names are all resolved.
CheckTypes ==
    /\ Phase("type")
    /\ Report(scopeOk[at] /\ programs[at] = "mistyped")
    /\ typeOk' = Append(typeOk, scopeOk[at] /\ Passed(errors, errors'))
    /\ UNCHANGED << scopeOk, canRun >> /\ Semantic
EndTypes == PhaseEnd("type", "usage") /\ UNCHANGED << errors, checks >> /\ Semantic

\* The optimizer and the usage pass add no errors; what they do to a program is
\* in modules of their own.  The bag held no error before the semantic phases.
OptimizeAndHint ==
    /\ stage = "usage"
    /\ canRun' = (errors = 0)
    /\ stage' = IF ~canRun' THEN "output"
                ELSE IF target \in {"6502", "llvm"} THEN "codegen" ELSE "text"
    /\ UNCHANGED << at, errors, scopeOk, typeOk >> /\ Semantic

-----------------------------------------------------------------------------
(***************************************************************************)
(* Back ends.                                                              *)
(***************************************************************************)
\* generate6502Program.  planStringHeap comes first; then, if the bag holds an
\* error of whatever program, the generator emits nothing, and the padded image
\* of the bare BRK becomes the object of this program.
Object(nature, dirty) ==
    IF nature = "crowded" \/ dirty THEN "stub"
    ELSE CASE nature = "tangled"   -> "broken"
           [] nature = "oversized" -> "none"
           [] OTHER                -> "complete"
Fails(nature, dirty) ==
    nature = "crowded" \/ (~dirty /\ nature \in {"oversized", "tangled"})

Generate6502 ==
    /\ Phase("codegen")
    /\ IF typeOk[at]
       THEN /\ Report(Fails(programs[at], errors > 0))
            /\ objects' = Append(objects, Object(programs[at], errors > 0))
       ELSE objects' = Append(objects, "none") /\ UNCHANGED errors
    /\ UNCHANGED << options, frontEnd, programs, checks, text, file, exit >>

\* For LLVM the 6502 code is only shown, but its errors count.
End6502 ==
    /\ PhaseEnd("codegen", IF target = "6502" THEN "output" ELSE "text")
    /\ UNCHANGED << options, frontEnd, errors, programs, checks, outputs, exit >>

\* emit*Module: all programs in one text.  An emitter is content if the bag holds
\* no error when it is done, so the error main keeps for an emitter that is not
\* content and reported none is never needed.
EmitText ==
    /\ stage = "text"
    /\ \E e \in 0 .. MaxErrors :
          /\ text' = [i \in DOMAIN programs |-> IF e = 0 THEN "complete" ELSE "broken"]
          /\ errors' = errors + e
    /\ stage' = "output"
    /\ UNCHANGED << options, frontEnd, programs, at, checks, objects, file, exit >>

-----------------------------------------------------------------------------
(***************************************************************************)
(* The output file.                                                        *)
(***************************************************************************)
\* What the file holds: the code of each program that has any, in their order.
NonEmpty == {i \in DOMAIN objects : objects[i] # "none"}
Linked == IF target = "6502" THEN [i \in NonEmpty |-> objects[i]] ELSE text

\* Mutant of MayWrite: only the semantic phases are asked about.
MayWriteAfterChecks == wanted /\ canRun
MayWrite == wanted /\ canRun /\ errors = 0

\* write*File.  Opening truncates the file.  The stream is checked after the last
\* byte has been handed to it, but not after it is closed.
NoOutput   == UNCHANGED << errors, file >>
OpenFails  == \E e \in ErrorCounts : errors' = errors + e /\ UNCHANGED file
WriteFails == /\ \E e \in ErrorCounts : errors' = errors + e
              /\ file' = [is |-> "truncated", parts |-> << >>]
CloseFails == LateLoss /\ file' = [is |-> "truncated", parts |-> << >>] /\ UNCHANGED errors
Written    == file' = [is |-> "whole", parts |-> Linked] /\ UNCHANGED errors

WriteOutput ==
    /\ stage = "output"
    /\ IF MayWrite THEN OpenFails \/ WriteFails \/ CloseFails \/ Written ELSE NoOutput
    /\ stage' = "report"
    /\ UNCHANGED << options, frontEnd, programs, at, checks, objects, text, exit >>

\* Mutant of ReportAndExit: the status is that of the checks alone.
ExitAfterChecks ==
    /\ stage = "report"
    /\ Stop(IF canRun THEN "success" ELSE "failure")
    /\ UNCHANGED << options, frontEnd, errors, programs, at, checks, outputs >>
ReportAndExit ==
    /\ stage = "report"
    /\ Stop(IF errors > 0 THEN "failure" ELSE "success")
    /\ UNCHANGED << options, frontEnd, errors, programs, at, checks, outputs >>

-----------------------------------------------------------------------------
Init ==
    /\ stage = "read"
    /\ fixing \in BOOLEAN /\ target \in Targets /\ wanted \in BOOLEAN
    /\ fixPass = 0 /\ fresh = FALSE /\ fixes = FALSE /\ stuck = FALSE
    /\ errors = 0 /\ programs = << >> /\ at = 1
    /\ scopeOk = << >> /\ typeOk = << >> /\ canRun = FALSE
    /\ objects = << >> /\ text = << >>
    /\ file = [is |-> "before", parts |-> << >>]
    /\ exit = "none"

Next ==
    \/ OpenSource \/ Lex \/ GiveUp \/ AfterLex \/ Parse \/ AfterParse
    \/ CheckScopes \/ EndScopes \/ CheckTypes \/ EndTypes \/ OptimizeAndHint
    \/ Generate6502 \/ End6502 \/ EmitText \/ WriteOutput \/ ReportAndExit

Spec == Init /\ [][Next]_vars

\* main is sequential, and no phase waits for anything.
FairSpec == Spec /\ WF_vars(Next)

-----------------------------------------------------------------------------
(***************************************************************************)
(* Properties.                                                             *)
(***************************************************************************)
Stages == {"read", "lex", "lexed", "parse", "parsed", "scope", "type", "usage",
           "codegen", "text", "output", "report", "exit"}
Codes == {"none", "stub", "broken", "complete"}

TypeOK ==
    /\ stage \in Stages
    /\ fixing \in BOOLEAN /\ target \in Targets /\ wanted \in BOOLEAN
    /\ fixPass \in 0 .. MaxFixPasses
    /\ fresh \in BOOLEAN /\ fixes \in BOOLEAN /\ stuck \in BOOLEAN
    /\ errors \in Nat
    /\ programs \in Sources
    /\ at \in 1 .. Len(programs) + 1
    /\ scopeOk \in Seq(BOOLEAN) /\ typeOk \in Seq(BOOLEAN) /\ canRun \in BOOLEAN
    /\ objects \in Seq(Codes) /\ text \in Seq(Codes)
    /\ file \in [is : {"before", "truncated", "whole"},
                 parts : UNION {[S -> Codes] : S \in SUBSET (1 .. MaxPrograms)}]
    /\ exit \in {"none", "success", "failure"}

\* Past the fix loop, the tokens (and with them every span of every tree) are
\* those of the source text as the rewrites left it.
TokensCurrent == stage \in {"scope", "type", "usage", "codegen", "text", "output", "report"} => fresh

\* A program is held to be well typed exactly if it is, whatever was wrong with
\* the programs before it in the file, though all share one error count.
BlameIsLocal ==
    \A i \in DOMAIN typeOk : typeOk[i] <=> programs[i] \notin {"undeclared", "mistyped"}

\* A file that is written has in it every program of the source, each generated
\* to its end: no stub, no missing program, no object with an error.
AllOrNothing ==
    file.is = "whole" =>
        file.parts = [i \in DOMAIN programs |-> "complete"]

\* Only a source all of whose programs the target can take makes the compiler
\* touch what is at the output path.
Takes == IF target \in {"6502", "llvm"} THEN Sound6502 ELSE SoundText
UntouchedUnlessSound ==
    [][file' # file => wanted /\ \A i \in DOMAIN programs : programs[i] \in Takes]_vars

\* The exit status: success means that no error was reported and, if an output
\* file was requested, that it is there and whole.  "unable to write complete
\* object file ... The output path may be on a full disk" (src/main.cpp:211-213)
\* is what the driver says otherwise.
ExitHonest == exit = "success" => errors = 0 /\ (wanted => file.is = "whole")

\* Every run ends, also one with --fix whose rewrites never make the source right.
Terminates == <>(exit # "none")

\* The file and the exit status as the caller sees them.
Product == IF file.is = "whole"
           THEN IF AllOrNothing THEN "delivered" ELSE "truncated"
           ELSE file.is
Verdict == IF exit = "none" THEN "pending" ELSE exit
Promise == INSTANCE Build WITH product <- Product, verdict <- Verdict

\* The promise to the caller, as Build states it.
KeepsPromise == Promise!Spec
=============================================================================
