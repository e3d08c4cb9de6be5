---------------------------- MODULE Driver_proofs ----------------------------
(***************************************************************************)
(* What one run of the compiler guarantees, for every number of programs,  *)
(* of errors and of turns of the fix loop.                                 *)
(***************************************************************************)
EXTENDS Driver, TLAPS

Early == {"read", "lex", "lexed", "parse", "parsed"}
Late  == {"codegen", "text", "output", "report"}

\* How far each of the lists kept per program has got.
ProgressInv ==
    /\ stage \in Early => programs = << >> /\ scopeOk = << >>
    /\ stage \in Early \cup {"scope"} => typeOk = << >>
    /\ stage \in Early \cup {"scope", "type", "usage"} => objects = << >>
    /\ stage = "scope" => Len(scopeOk) = at - 1
    /\ stage = "type" => Len(scopeOk) = Len(programs) /\ Len(typeOk) = at - 1
    /\ stage \in {"usage"} \cup Late => Len(typeOk) = Len(programs)
    /\ stage \in Early \cup {"usage"} => at = 1
    /\ stage = "codegen" => Len(objects) = at - 1 /\ target \in {"6502", "llvm"}
    /\ stage \in {"text", "output", "report"} /\ canRun /\ target \in {"6502", "llvm"} =>
          Len(objects) = Len(programs)
    /\ stage = "text" => target # "6502"
    /\ stage \in {"lexed", "parse", "parsed"} => fixPass < MaxFixPasses
    /\ Len(scopeOk) <= Len(programs) /\ Len(typeOk) <= Len(programs)
    /\ Len(objects) <= Len(programs)

\* The verdicts on the programs are right, and the gates follow from them.
GateInv ==
    /\ \A i \in 1 .. Len(scopeOk) : scopeOk[i] <=> programs[i] # "undeclared"
    /\ BlameIsLocal
    /\ stage \in {"scope", "type", "usage"} /\ errors = 0 =>
          /\ \A i \in 1 .. Len(scopeOk) : scopeOk[i]
          /\ \A i \in 1 .. Len(typeOk) : typeOk[i]
    /\ stage \in Late /\ canRun => \A i \in 1 .. Len(programs) : typeOk[i]
    /\ stage \in {"codegen", "text"} => canRun
    /\ stage \in Late /\ errors = 0 =>
          /\ canRun
          /\ \A i \in 1 .. Len(objects) : objects[i] = "complete" /\ programs[i] = "fine"
    /\ stage \in {"output", "report"} /\ errors = 0 /\ target # "6502" =>
          text = [i \in DOMAIN programs |-> "complete"]

\* The file is touched only between the gate and the report, and then it is
\* whole or an error is counted.
FileInv ==
    /\ stage \notin {"report", "exit"} \/ ~wanted => file.is = "before"
    /\ stage # "exit" <=> exit = "none"
    /\ file.is = "whole" => errors = 0
    /\ AllOrNothing
    /\ exit = "success" => errors = 0

DriverInv == TypeOK /\ ProgressInv /\ GateInv /\ FileInv

-----------------------------------------------------------------------------
(***************************************************************************)
(* Sources are sequences.                                                  *)
(***************************************************************************)
LEMMA SourceIsSeq ==
    ASSUME NEW p \in Sources
    PROVE  p \in Seq(Natures) /\ Len(p) \in 0 .. MaxPrograms /\ DOMAIN p = 1 .. Len(p)
<1>1. PICK n \in 0 .. MaxPrograms : p \in [1 .. n -> Natures]
    BY DEF Sources
<1>2. n \in Nat
    BY DriverAssumption
<1> QED BY <1>1, <1>2, DriverAssumption

LEMMA EmptySource == << >> \in Sources
<1>1. << >> \in [1 .. 0 -> Natures]
    OBVIOUS
<1>2. 0 \in 0 .. MaxPrograms
    BY DriverAssumption
<1> QED BY <1>1, <1>2 DEF Sources

LEMMA NoParts == << >> \in UNION {[S -> Codes] : S \in SUBSET (1 .. MaxPrograms)}
<1>1. << >> \in [{} -> Codes]
    OBVIOUS
<1> QED BY <1>1

\* TypeOK in parts.
FlagType ==
    /\ stage \in Stages
    /\ fixing \in BOOLEAN /\ target \in Targets /\ wanted \in BOOLEAN
    /\ fresh \in BOOLEAN /\ fixes \in BOOLEAN /\ stuck \in BOOLEAN
    /\ canRun \in BOOLEAN
    /\ exit \in {"none", "success", "failure"}
CountType == fixPass \in 0 .. MaxFixPasses /\ errors \in Nat
SourceType == programs \in Sources /\ at \in 1 .. Len(programs) + 1
ListType == /\ scopeOk \in Seq(BOOLEAN) /\ typeOk \in Seq(BOOLEAN)
            /\ objects \in Seq(Codes) /\ text \in Seq(Codes)
Parts == UNION {[S -> Codes] : S \in SUBSET (1 .. MaxPrograms)}
FileType == file \in [is : {"before", "truncated", "whole"}, parts : Parts]

LEMMA TypeSplit == TypeOK <=> FlagType /\ CountType /\ SourceType /\ ListType /\ FileType
    BY DEF TypeOK, FlagType, CountType, SourceType, ListType, FileType, Parts

\* What every step below starts from.
LEMMA DriverFacts ==
    ASSUME DriverInv
    PROVE  /\ FlagType /\ CountType /\ SourceType /\ ListType /\ FileType
           /\ programs \in Seq(Natures) /\ Len(programs) \in Nat
           /\ DOMAIN programs = 1 .. Len(programs)
<1>1. FlagType /\ CountType /\ SourceType /\ ListType /\ FileType
    BY TypeSplit DEF DriverInv
<1> QED BY <1>1, SourceIsSeq, DriverAssumption DEF SourceType

LEMMA DriverInit == Init => DriverInv
<1> SUFFICES ASSUME Init PROVE DriverInv
    OBVIOUS
<1>1. FlagType
    BY DEF Init, FlagType, Stages
<1>2. CountType
    BY DriverAssumption DEF Init, CountType
<1>3. SourceType
    BY EmptySource DEF Init, SourceType
<1>4. ListType
    BY DEF Init, ListType
<1>5. FileType
    BY NoParts DEF Init, FileType, Parts
<1>6. ProgressInv
    BY DriverAssumption DEF Init, ProgressInv, Early, Late
<1>7. GateInv
    BY DEF Init, GateInv, BlameIsLocal, Late
<1>8. FileInv
    BY DEF Init, FileInv, AllOrNothing
<1> QED BY <1>1, <1>2, <1>3, <1>4, <1>5, <1>6, <1>7, <1>8, TypeSplit DEF DriverInv

LEMMA OpenSourceStep == ASSUME DriverInv, OpenSource PROVE DriverInv'
<1> USE DEF OpenSource, Stop, options, frontEnd, checks, outputs
<1>0. TypeOK /\ ProgressInv /\ GateInv /\ FileInv
    BY DEF DriverInv
<1>1. FlagType /\ CountType /\ SourceType /\ ListType /\ FileType
    BY DriverFacts
<1>2. programs \in Seq(Natures) /\ Len(programs) \in Nat /\ DOMAIN programs = 1 .. Len(programs)
    BY DriverFacts
<1>3. TypeOK'
  <2>1. FlagType'
    BY <1>1 DEF FlagType, Stages
  <2>2. CountType'
    BY <1>0, <1>1, DriverAssumption DEF CountType, ProgressInv
  <2>3. SourceType'
    BY <1>1, <1>2 DEF SourceType
  <2>4. ListType'
    BY <1>1, <1>2 DEF ListType, Codes
  <2>5. FileType'
    BY <1>1 DEF FileType
  <2> QED BY <2>1, <2>2, <2>3, <2>4, <2>5 DEF TypeOK, FlagType, CountType, SourceType, ListType, FileType, Parts
<1>4. ProgressInv'
    BY <1>0, <1>1, <1>2, DriverAssumption DEF FlagType, CountType, SourceType, ListType, ProgressInv, Early, Late
<1>5. GateInv'
    BY <1>0, <1>1, <1>2 DEF FlagType, CountType, SourceType, ListType, ProgressInv, GateInv, BlameIsLocal, Early, Late
<1>6. FileInv'
    BY <1>0, <1>1, <1>2 DEF FlagType, CountType, FileInv, AllOrNothing
<1> QED BY <1>3, <1>4, <1>5, <1>6 DEF DriverInv

LEMMA LexStep == ASSUME DriverInv, Lex PROVE DriverInv'
<1> USE DEF Lex, options, frontEnd, checks, outputs
<1>0. TypeOK /\ ProgressInv /\ GateInv /\ FileInv
    BY DEF DriverInv
<1>1. FlagType /\ CountType /\ SourceType /\ ListType /\ FileType
    BY DriverFacts
<1>2. programs \in Seq(Natures) /\ Len(programs) \in Nat /\ DOMAIN programs = 1 .. Len(programs)
    BY DriverFacts
<1>3. TypeOK'
  <2>1. FlagType'
    BY <1>1 DEF FlagType, Stages
  <2>2. CountType'
    BY <1>0, <1>1, DriverAssumption DEF CountType, ProgressInv
  <2>3. SourceType'
    BY <1>1, <1>2 DEF SourceType
  <2>4. ListType'
    BY <1>1, <1>2 DEF ListType, Codes
  <2>5. FileType'
    BY <1>1 DEF FileType
  <2> QED BY <2>1, <2>2, <2>3, <2>4, <2>5 DEF TypeOK, FlagType, CountType, SourceType, ListType, FileType, Parts
<1>4. ProgressInv'
    BY <1>0, <1>1, <1>2, DriverAssumption DEF FlagType, CountType, SourceType, ListType, ProgressInv, Early, Late
<1>5. GateInv'
    BY <1>0, <1>1, <1>2 DEF FlagType, CountType, SourceType, ListType, ProgressInv, GateInv, BlameIsLocal, Early, Late
<1>6. FileInv'
    BY <1>0, <1>1, <1>2 DEF FlagType, CountType, FileInv, AllOrNothing
<1> QED BY <1>3, <1>4, <1>5, <1>6 DEF DriverInv

LEMMA GiveUpStep == ASSUME DriverInv, GiveUp PROVE DriverInv'
<1> USE DEF GiveUp, Stop, options, frontEnd, checks, outputs
<1>0. TypeOK /\ ProgressInv /\ GateInv /\ FileInv
    BY DEF DriverInv
<1>1. FlagType /\ CountType /\ SourceType /\ ListType /\ FileType
    BY DriverFacts
<1>2. programs \in Seq(Natures) /\ Len(programs) \in Nat /\ DOMAIN programs = 1 .. Len(programs)
    BY DriverFacts
<1>3. TypeOK'
  <2>1. FlagType'
    BY <1>1 DEF FlagType, Stages
  <2>2. CountType'
    BY <1>0, <1>1, DriverAssumption DEF CountType, ProgressInv
  <2>3. SourceType'
    BY <1>1, <1>2 DEF SourceType
  <2>4. ListType'
    BY <1>1, <1>2 DEF ListType, Codes
  <2>5. FileType'
    BY <1>1 DEF FileType
  <2> QED BY <2>1, <2>2, <2>3, <2>4, <2>5 DEF TypeOK, FlagType, CountType, SourceType, ListType, FileType, Parts
<1>4. ProgressInv'
    BY <1>0, <1>1, <1>2, DriverAssumption DEF FlagType, CountType, SourceType, ListType, ProgressInv, Early, Late
<1>5. GateInv'
    BY <1>0, <1>1, <1>2 DEF FlagType, CountType, SourceType, ListType, ProgressInv, GateInv, BlameIsLocal, Early, Late
<1>6. FileInv'
    BY <1>0, <1>1, <1>2 DEF FlagType, CountType, FileInv, AllOrNothing
<1> QED BY <1>3, <1>4, <1>5, <1>6 DEF DriverInv

LEMMA AfterLexStep == ASSUME DriverInv, AfterLex PROVE DriverInv'
<1> USE DEF AfterLex, Restart, Refuse, Fixable, Stop, options, frontEnd, checks, outputs
<1>0. TypeOK /\ ProgressInv /\ GateInv /\ FileInv
    BY DEF DriverInv
<1>1. FlagType /\ CountType /\ SourceType /\ ListType /\ FileType
    BY DriverFacts
<1>2. programs \in Seq(Natures) /\ Len(programs) \in Nat /\ DOMAIN programs = 1 .. Len(programs)
    BY DriverFacts
<1>3. TypeOK'
  <2>1. FlagType'
    BY <1>1 DEF FlagType, Stages
  <2>2. CountType'
    BY <1>0, <1>1, DriverAssumption DEF CountType, ProgressInv
  <2>3. SourceType'
    BY <1>1, <1>2 DEF SourceType
  <2>4. ListType'
    BY <1>1, <1>2 DEF ListType, Codes
  <2>5. FileType'
    BY <1>1 DEF FileType
  <2> QED BY <2>1, <2>2, <2>3, <2>4, <2>5 DEF TypeOK, FlagType, CountType, SourceType, ListType, FileType, Parts
<1>4. ProgressInv'
    BY <1>0, <1>1, <1>2, DriverAssumption DEF FlagType, CountType, SourceType, ListType, ProgressInv, Early, Late
<1>5. GateInv'
    BY <1>0, <1>1, <1>2 DEF FlagType, CountType, SourceType, ListType, ProgressInv, GateInv, BlameIsLocal, Early, Late
<1>6. FileInv'
    BY <1>0, <1>1, <1>2 DEF FlagType, CountType, FileInv, AllOrNothing
<1> QED BY <1>3, <1>4, <1>5, <1>6 DEF DriverInv

LEMMA ParseStep == ASSUME DriverInv, Parse PROVE DriverInv'
<1> USE DEF Parse, options, frontEnd, checks, outputs
<1>0. TypeOK /\ ProgressInv /\ GateInv /\ FileInv
    BY DEF DriverInv
<1>1. FlagType /\ CountType /\ SourceType /\ ListType /\ FileType
    BY DriverFacts
<1>2. programs \in Seq(Natures) /\ Len(programs) \in Nat /\ DOMAIN programs = 1 .. Len(programs)
    BY DriverFacts
<1>3. TypeOK'
  <2>1. FlagType'
    BY <1>1 DEF FlagType, Stages
  <2>2. CountType'
    BY <1>0, <1>1, DriverAssumption DEF CountType, ProgressInv
  <2>3. SourceType'
    BY <1>1, <1>2 DEF SourceType
  <2>4. ListType'
    BY <1>1, <1>2 DEF ListType, Codes
  <2>5. FileType'
    BY <1>1 DEF FileType
  <2> QED BY <2>1, <2>2, <2>3, <2>4, <2>5 DEF TypeOK, FlagType, CountType, SourceType, ListType, FileType, Parts
<1>4. ProgressInv'
    BY <1>0, <1>1, <1>2, DriverAssumption DEF FlagType, CountType, SourceType, ListType, ProgressInv, Early, Late
<1>5. GateInv'
    BY <1>0, <1>1, <1>2 DEF FlagType, CountType, SourceType, ListType, ProgressInv, GateInv, BlameIsLocal, Early, Late
<1>6. FileInv'
    BY <1>0, <1>1, <1>2 DEF FlagType, CountType, FileInv, AllOrNothing
<1> QED BY <1>3, <1>4, <1>5, <1>6 DEF DriverInv

LEMMA AfterParseStep == ASSUME DriverInv, AfterParse PROVE DriverInv'
<1> USE DEF AfterParse, Restart, Refuse, Fixable, Stop, options, frontEnd, checks, outputs
<1>0. TypeOK /\ ProgressInv /\ GateInv /\ FileInv
    BY DEF DriverInv
<1>1. FlagType /\ CountType /\ SourceType /\ ListType /\ FileType
    BY DriverFacts
<1>2. programs \in Seq(Natures) /\ Len(programs) \in Nat /\ DOMAIN programs = 1 .. Len(programs)
    BY DriverFacts
<1>3. TypeOK'
  <2>1. FlagType'
    BY <1>1 DEF FlagType, Stages
  <2>2. CountType'
    BY <1>0, <1>1, DriverAssumption DEF CountType, ProgressInv
  <2>3. SourceType'
    <3>1. CASE UNCHANGED programs
        BY <1>1, <1>2, <3>1 DEF SourceType
    <3>2. CASE programs' \in Sources
      <4>1. Len(programs') \in Nat
          BY <3>2, SourceIsSeq, DriverAssumption
      <4> QED BY <1>0, <3>2, <4>1 DEF SourceType, ProgressInv, Early
    <3> QED BY <3>1, <3>2
  <2>4. ListType'
    BY <1>1, <1>2 DEF ListType, Codes
  <2>5. FileType'
    BY <1>1 DEF FileType
  <2> QED BY <2>1, <2>2, <2>3, <2>4, <2>5 DEF TypeOK, FlagType, CountType, SourceType, ListType, FileType, Parts
<1>4. ProgressInv'
    BY <1>0, <1>1, <1>2, DriverAssumption DEF FlagType, CountType, SourceType, ListType, ProgressInv, Early, Late
<1>5. GateInv'
    BY <1>0, <1>1, <1>2 DEF FlagType, CountType, SourceType, ListType, ProgressInv, GateInv, BlameIsLocal, Early, Late
<1>6. FileInv'
    BY <1>0, <1>1, <1>2 DEF FlagType, CountType, FileInv, AllOrNothing
<1> QED BY <1>3, <1>4, <1>5, <1>6 DEF DriverInv

LEMMA CheckScopesStep == ASSUME DriverInv, CheckScopes PROVE DriverInv'
<1> USE DEF CheckScopes, Phase, Report, Passed, Semantic, ErrorCounts, options, frontEnd, checks, outputs
<1>0. TypeOK /\ ProgressInv /\ GateInv /\ FileInv
    BY DEF DriverInv
<1>1. FlagType /\ CountType /\ SourceType /\ ListType /\ FileType
    BY DriverFacts
<1>2. programs \in Seq(Natures) /\ Len(programs) \in Nat /\ DOMAIN programs = 1 .. Len(programs)
    BY DriverFacts
<1>3. TypeOK'
  <2>1. FlagType'
    BY <1>1 DEF FlagType, Stages
  <2>2. CountType'
    BY <1>0, <1>1, DriverAssumption DEF CountType, ProgressInv
  <2>3. SourceType'
    BY <1>1, <1>2 DEF SourceType
  <2>4. ListType'
    BY <1>1, <1>2 DEF ListType, Codes
  <2>5. FileType'
    BY <1>1 DEF FileType
  <2> QED BY <2>1, <2>2, <2>3, <2>4, <2>5 DEF TypeOK, FlagType, CountType, SourceType, ListType, FileType, Parts
<1>4. ProgressInv'
    BY <1>0, <1>1, <1>2, DriverAssumption DEF FlagType, CountType, SourceType, ListType, ProgressInv, Early, Late
<1>5. GateInv'
  <2>1. PICK e \in 1 .. MaxErrors : errors' = IF programs[at] = "undeclared" THEN errors + e ELSE errors
      OBVIOUS
  <2>2. errors \in Nat /\ errors' \in Nat /\ (errors' = 0 => errors = 0)
      BY <1>1, <2>1, DriverAssumption DEF CountType
  <2>3. errors' = errors <=> ~(programs[at] = "undeclared")
      BY <2>1, <2>2, DriverAssumption
  <2>4. /\ at \in Nat /\ at \in 1 .. Len(programs) /\ Len(scopeOk) = at - 1
        /\ scopeOk \in Seq(BOOLEAN) /\ typeOk = << >>
      BY <1>0, <1>1, <1>2 DEF ProgressInv, ListType, SourceType
  <2>5. /\ Len(scopeOk') = at
        /\ \A i \in 1 .. Len(scopeOk) : scopeOk'[i] = scopeOk[i]
        /\ scopeOk'[at] = (errors' = errors)
      BY <2>4
  <2>6. \A i \in 1 .. Len(scopeOk') : scopeOk'[i] <=> programs[i] # "undeclared"
    <3> TAKE i \in 1 .. Len(scopeOk')
    <3>1. CASE i = at
        BY <2>3, <2>5, <3>1
    <3>2. CASE i # at
      <4>1. i \in 1 .. Len(scopeOk)
          BY <2>4, <2>5, <3>2
      <4> QED BY <1>0, <2>5, <4>1 DEF GateInv
    <3> QED BY <3>1, <3>2
  <2>7. errors' = 0 => \A i \in 1 .. Len(scopeOk') : scopeOk'[i]
    <3> SUFFICES ASSUME errors' = 0, NEW i \in 1 .. Len(scopeOk') PROVE scopeOk'[i]
        OBVIOUS
    <3>1. CASE i = at
        BY <2>2, <2>5, <3>1
    <3>2. CASE i # at
      <4>1. i \in 1 .. Len(scopeOk)
          BY <2>4, <2>5, <3>2
      <4> QED BY <1>0, <2>2, <2>5, <4>1 DEF GateInv
    <3> QED BY <3>1, <3>2
  <2> QED BY <1>0, <2>2, <2>4, <2>6, <2>7 DEF GateInv, BlameIsLocal, Late
<1>6. FileInv'
    BY <1>0, <1>1, <1>2 DEF FlagType, CountType, FileInv, AllOrNothing
<1> QED BY <1>3, <1>4, <1>5, <1>6 DEF DriverInv

LEMMA EndScopesStep == ASSUME DriverInv, EndScopes PROVE DriverInv'
<1> USE DEF EndScopes, PhaseEnd, Semantic, options, frontEnd, checks, outputs
<1>0. TypeOK /\ ProgressInv /\ GateInv /\ FileInv
    BY DEF DriverInv
<1>1. FlagType /\ CountType /\ SourceType /\ ListType /\ FileType
    BY DriverFacts
<1>2. programs \in Seq(Natures) /\ Len(programs) \in Nat /\ DOMAIN programs = 1 .. Len(programs)
    BY DriverFacts
<1>3. TypeOK'
  <2>1. FlagType'
    BY <1>1 DEF FlagType, Stages
  <2>2. CountType'
    BY <1>0, <1>1, DriverAssumption DEF CountType, ProgressInv
  <2>3. SourceType'
    BY <1>1, <1>2 DEF SourceType
  <2>4. ListType'
    BY <1>1, <1>2 DEF ListType, Codes
  <2>5. FileType'
    BY <1>1 DEF FileType
  <2> QED BY <2>1, <2>2, <2>3, <2>4, <2>5 DEF TypeOK, FlagType, CountType, SourceType, ListType, FileType, Parts
<1>4. ProgressInv'
    BY <1>0, <1>1, <1>2, DriverAssumption DEF FlagType, CountType, SourceType, ListType, ProgressInv, Early, Late
<1>5. GateInv'
    BY <1>0, <1>1, <1>2 DEF FlagType, CountType, SourceType, ListType, ProgressInv, GateInv, BlameIsLocal, Early, Late
<1>6. FileInv'
    BY <1>0, <1>1, <1>2 DEF FlagType, CountType, FileInv, AllOrNothing
<1> QED BY <1>3, <1>4, <1>5, <1>6 DEF DriverInv

LEMMA CheckTypesStep == ASSUME DriverInv, CheckTypes PROVE DriverInv'
<1> USE DEF CheckTypes, Phase, Report, Passed, Semantic, ErrorCounts, options, frontEnd, checks, outputs
<1>0. TypeOK /\ ProgressInv /\ GateInv /\ FileInv
    BY DEF DriverInv
<1>1. FlagType /\ CountType /\ SourceType /\ ListType /\ FileType
    BY DriverFacts
<1>2. programs \in Seq(Natures) /\ Len(programs) \in Nat /\ DOMAIN programs = 1 .. Len(programs)
    BY DriverFacts
<1>3. TypeOK'
  <2>1. FlagType'
    BY <1>1 DEF FlagType, Stages
  <2>2. CountType'
    BY <1>0, <1>1, DriverAssumption DEF CountType, ProgressInv
  <2>3. SourceType'
    BY <1>1, <1>2 DEF SourceType
  <2>4. ListType'
    BY <1>1, <1>2 DEF ListType, Codes
  <2>5. FileType'
    BY <1>1 DEF FileType
  <2> QED BY <2>1, <2>2, <2>3, <2>4, <2>5 DEF TypeOK, FlagType, CountType, SourceType, ListType, FileType, Parts
<1>4. ProgressInv'
    BY <1>0, <1>1, <1>2, DriverAssumption DEF FlagType, CountType, SourceType, ListType, ProgressInv, Early, Late
<1>5. GateInv'
  <2>1. PICK e \in 1 .. MaxErrors : errors' = IF scopeOk[at] /\ programs[at] = "mistyped" THEN errors + e ELSE errors
      OBVIOUS
  <2>2. errors \in Nat /\ errors' \in Nat /\ (errors' = 0 => errors = 0)
      BY <1>1, <2>1, DriverAssumption DEF CountType
  <2>3. errors' = errors <=> ~(scopeOk[at] /\ programs[at] = "mistyped")
      BY <2>1, <2>2, DriverAssumption
  <2>4. /\ at \in Nat /\ at \in 1 .. Len(programs) /\ Len(typeOk) = at - 1
        /\ scopeOk \in Seq(BOOLEAN) /\ typeOk \in Seq(BOOLEAN) /\ at \in 1 .. Len(scopeOk)
      BY <1>0, <1>1, <1>2 DEF ProgressInv, ListType, SourceType
  <2>5. /\ Len(typeOk') = at /\ DOMAIN typeOk' = 1 .. at
        /\ \A i \in 1 .. Len(typeOk) : typeOk'[i] = typeOk[i]
        /\ typeOk'[at] = (scopeOk[at] /\ errors' = errors)
      BY <2>4
  <2>6. scopeOk[at] <=> programs[at] # "undeclared"
      BY <1>0, <2>4 DEF GateInv
  <2>7. \A i \in 1 .. Len(typeOk') : typeOk'[i] <=> programs[i] \notin {"undeclared", "mistyped"}
    <3> TAKE i \in 1 .. Len(typeOk')
    <3>1. CASE i = at
        BY <2>3, <2>5, <2>6, <3>1
    <3>2. CASE i # at
      <4>1. i \in 1 .. Len(typeOk) /\ i \in DOMAIN typeOk
          BY <2>4, <2>5, <3>2
      <4> QED BY <1>0, <2>5, <4>1 DEF GateInv, BlameIsLocal
    <3> QED BY <3>1, <3>2
  <2>8. errors' = 0 => \A i \in 1 .. Len(typeOk') : typeOk'[i]
    <3> SUFFICES ASSUME errors' = 0, NEW i \in 1 .. Len(typeOk') PROVE typeOk'[i]
        OBVIOUS
    <3>1. errors = 0 /\ scopeOk[at]
        BY <1>0, <2>2, <2>4 DEF GateInv
    <3>2. CASE i = at
        BY <2>5, <3>1, <3>2
    <3>3. CASE i # at
      <4>1. i \in 1 .. Len(typeOk)
          BY <2>4, <2>5, <3>3
      <4> QED BY <1>0, <2>5, <3>1, <4>1 DEF GateInv
    <3> QED BY <3>2, <3>3
  <2>9. errors' = 0 => \A i \in 1 .. Len(scopeOk) : scopeOk[i]
      BY <1>0, <2>2 DEF GateInv
  <2> QED BY <1>0, <2>5, <2>7, <2>8, <2>9 DEF GateInv, BlameIsLocal, Late
<1>6. FileInv'
    BY <1>0, <1>1, <1>2 DEF FlagType, CountType, FileInv, AllOrNothing
<1> QED BY <1>3, <1>4, <1>5, <1>6 DEF DriverInv

LEMMA EndTypesStep == ASSUME DriverInv, EndTypes PROVE DriverInv'
<1> USE DEF EndTypes, PhaseEnd, Semantic, options, frontEnd, checks, outputs
<1>0. TypeOK /\ ProgressInv /\ GateInv /\ FileInv
    BY DEF DriverInv
<1>1. FlagType /\ CountType /\ SourceType /\ ListType /\ FileType
    BY DriverFacts
<1>2. programs \in Seq(Natures) /\ Len(programs) \in Nat /\ DOMAIN programs = 1 .. Len(programs)
    BY DriverFacts
<1>3. TypeOK'
  <2>1. FlagType'
    BY <1>1 DEF FlagType, Stages
  <2>2. CountType'
    BY <1>0, <1>1, DriverAssumption DEF CountType, ProgressInv
  <2>3. SourceType'
    BY <1>1, <1>2 DEF SourceType
  <2>4. ListType'
    BY <1>1, <1>2 DEF ListType, Codes
  <2>5. FileType'
    BY <1>1 DEF FileType
  <2> QED BY <2>1, <2>2, <2>3, <2>4, <2>5 DEF TypeOK, FlagType, CountType, SourceType, ListType, FileType, Parts
<1>4. ProgressInv'
    BY <1>0, <1>1, <1>2, DriverAssumption DEF FlagType, CountType, SourceType, ListType, ProgressInv, Early, Late
<1>5. GateInv'
    BY <1>0, <1>1, <1>2 DEF FlagType, CountType, SourceType, ListType, ProgressInv, GateInv, BlameIsLocal, Early, Late
<1>6. FileInv'
    BY <1>0, <1>1, <1>2 DEF FlagType, CountType, FileInv, AllOrNothing
<1> QED BY <1>3, <1>4, <1>5, <1>6 DEF DriverInv

LEMMA OptimizeAndHintStep == ASSUME DriverInv, OptimizeAndHint PROVE DriverInv'
<1> USE DEF OptimizeAndHint, Semantic, options, frontEnd, checks, outputs
<1>0. TypeOK /\ ProgressInv /\ GateInv /\ FileInv
    BY DEF DriverInv
<1>1. FlagType /\ CountType /\ SourceType /\ ListType /\ FileType
    BY DriverFacts
<1>2. programs \in Seq(Natures) /\ Len(programs) \in Nat /\ DOMAIN programs = 1 .. Len(programs)
    BY DriverFacts
<1>3. TypeOK'
  <2>1. FlagType'
    BY <1>1 DEF FlagType, Stages
  <2>2. CountType'
    BY <1>0, <1>1, DriverAssumption DEF CountType, ProgressInv
  <2>3. SourceType'
    BY <1>1, <1>2 DEF SourceType
  <2>4. ListType'
    BY <1>1, <1>2 DEF ListType, Codes
  <2>5. FileType'
    BY <1>1 DEF FileType
  <2> QED BY <2>1, <2>2, <2>3, <2>4, <2>5 DEF TypeOK, FlagType, CountType, SourceType, ListType, FileType, Parts
<1>4. ProgressInv'
    BY <1>0, <1>1, <1>2, DriverAssumption DEF FlagType, CountType, SourceType, ListType, ProgressInv, Early, Late
<1>5. GateInv'
  <2>1. objects = << >> /\ Len(typeOk) = Len(programs)
      BY <1>0 DEF ProgressInv
  <2>2. canRun' => \A i \in 1 .. Len(programs) : typeOk[i]
      BY <1>0, <2>1 DEF GateInv
  <2>3. stage' \in Late /\ errors' = errors /\ (errors = 0 => canRun')
      BY DEF Late
  <2>4. ~(stage' \in {"output", "report"} /\ errors' = 0)
      BY <2>3
  <2>5. stage' \in {"codegen", "text"} => canRun'
      OBVIOUS
  <2> QED BY <1>0, <2>1, <2>2, <2>3, <2>4, <2>5 DEF GateInv, BlameIsLocal, Late
<1>6. FileInv'
    BY <1>0, <1>1, <1>2 DEF FlagType, CountType, FileInv, AllOrNothing
<1> QED BY <1>3, <1>4, <1>5, <1>6 DEF DriverInv

LEMMA AppendCode == \A s \in Seq(Codes), c \in Codes : Append(s, c) \in Seq(Codes)
    OBVIOUS

LEMMA ObjectIsCode == \A n \in Natures, d \in BOOLEAN : Object(n, d) \in Codes
<1> SUFFICES ASSUME NEW n \in Natures, NEW d \in BOOLEAN PROVE Object(n, d) \in Codes
    OBVIOUS
<1>1. CASE n = "crowded" \/ d
    BY <1>1 DEF Object, Codes
<1>2. CASE ~(n = "crowded" \/ d) /\ n = "tangled"
    BY <1>2 DEF Object, Codes
<1>3. CASE ~(n = "crowded" \/ d) /\ n = "oversized"
    BY <1>3 DEF Object, Codes
<1>4. CASE ~(n = "crowded" \/ d) /\ n \notin {"tangled", "oversized"}
    BY <1>4 DEF Object, Codes
<1> QED BY <1>1, <1>2, <1>3, <1>4

LEMMA Generate6502Step == ASSUME DriverInv, Generate6502 PROVE DriverInv'
<1> USE DEF Generate6502, Phase, Report, Fails, ErrorCounts, options, frontEnd, checks, outputs
<1>0. TypeOK /\ ProgressInv /\ GateInv /\ FileInv
    BY DEF DriverInv
<1>1. FlagType /\ CountType /\ SourceType /\ ListType /\ FileType
    BY DriverFacts
<1>2. programs \in Seq(Natures) /\ Len(programs) \in Nat /\ DOMAIN programs = 1 .. Len(programs)
    BY DriverFacts
<1>3. TypeOK'
  <2>1. FlagType'
    BY <1>1 DEF FlagType, Stages
  <2>2. CountType'
    BY <1>0, <1>1, DriverAssumption DEF CountType, ProgressInv
  <2>3. SourceType'
    BY <1>1, <1>2 DEF SourceType
  <2>4. ListType'
    <3>1. Object(programs[at], errors > 0) \in Codes
      <4>1. programs[at] \in Natures
          BY <1>1, <1>2 DEF SourceType
      <4>2. (errors > 0) \in BOOLEAN
          OBVIOUS
      <4> QED BY <4>1, <4>2, ObjectIsCode
    <3>2. "none" \in Codes
        BY ObjectIsCode DEF Codes
    <3>3. objects \in Seq(Codes) /\ scopeOk \in Seq(BOOLEAN) /\ typeOk \in Seq(BOOLEAN) /\ text \in Seq(Codes)
        BY <1>1 DEF ListType
    <3>4. \/ objects' = Append(objects, Object(programs[at], errors > 0))
          \/ objects' = Append(objects, "none")
        OBVIOUS
    <3>5. objects' \in Seq(Codes)
        BY ONLY <3>1, <3>2, <3>3, <3>4, AppendCode, Zenon
    <3> QED BY <3>3, <3>5 DEF ListType
  <2>5. FileType'
    BY <1>1 DEF FileType
  <2> QED BY <2>1, <2>2, <2>3, <2>4, <2>5 DEF TypeOK, FlagType, CountType, SourceType, ListType, FileType, Parts
<1>4. ProgressInv'
    BY <1>0, <1>1, <1>2, DriverAssumption DEF FlagType, CountType, SourceType, ListType, ProgressInv, Early, Late
<1>5. GateInv'
  <2>1. /\ at \in Nat /\ at \in 1 .. Len(programs) /\ Len(objects) = at - 1
        /\ objects \in Seq(Codes) /\ errors \in Nat /\ canRun
        /\ typeOk[at] /\ at \in DOMAIN typeOk /\ programs[at] \in Natures
      BY <1>0, <1>1, <1>2 DEF ProgressInv, GateInv, ListType, SourceType, CountType, Late
  <2>2. programs[at] \notin {"undeclared", "mistyped"}
      BY <1>0, <2>1 DEF GateInv, BlameIsLocal
  <2>3. PICK e \in 1 .. MaxErrors :
            errors' = IF Fails(programs[at], errors > 0) THEN errors + e ELSE errors
      BY <2>1
  <2>4. errors' = 0 => errors = 0 /\ ~Fails(programs[at], errors > 0)
      BY <2>1, <2>3, DriverAssumption
  <2>5. errors' = 0 => programs[at] = "fine" /\ Object(programs[at], errors > 0) = "complete"
      BY <2>1, <2>2, <2>4 DEF Natures, Object
  <2>6. /\ Len(objects') = at
        /\ \A i \in 1 .. Len(objects) : objects'[i] = objects[i]
        /\ objects'[at] = Object(programs[at], errors > 0)
    <3>1. objects' = Append(objects, Object(programs[at], errors > 0))
        BY <2>1
    <3> QED BY <2>1, <3>1
  <2>7. errors' = 0 =>
            \A i \in 1 .. Len(objects') : objects'[i] = "complete" /\ programs[i] = "fine"
    <3> SUFFICES ASSUME errors' = 0, NEW i \in 1 .. Len(objects')
                 PROVE objects'[i] = "complete" /\ programs[i] = "fine"
        OBVIOUS
    <3>1. CASE i = at
        BY <2>5, <2>6, <3>1
    <3>2. CASE i # at
      <4>1. i \in 1 .. Len(objects)
          BY <2>1, <2>6, <3>2
      <4> QED BY <1>0, <2>4, <2>6, <4>1 DEF GateInv, Late
    <3> QED BY <3>1, <3>2
  <2> QED BY <1>0, <2>1, <2>7 DEF GateInv, BlameIsLocal, Late
<1>6. FileInv'
    BY <1>0, <1>1, <1>2 DEF FlagType, CountType, FileInv, AllOrNothing
<1> QED BY <1>3, <1>4, <1>5, <1>6 DEF DriverInv

LEMMA End6502Step == ASSUME DriverInv, End6502 PROVE DriverInv'
<1> USE DEF End6502, PhaseEnd, options, frontEnd, checks, outputs
<1>0. TypeOK /\ ProgressInv /\ GateInv /\ FileInv
    BY DEF DriverInv
<1>1. FlagType /\ CountType /\ SourceType /\ ListType /\ FileType
    BY DriverFacts
<1>2. programs \in Seq(Natures) /\ Len(programs) \in Nat /\ DOMAIN programs = 1 .. Len(programs)
    BY DriverFacts
<1>3. TypeOK'
  <2>1. FlagType'
    BY <1>1 DEF FlagType, Stages
  <2>2. CountType'
    BY <1>0, <1>1, DriverAssumption DEF CountType, ProgressInv
  <2>3. SourceType'
    BY <1>1, <1>2 DEF SourceType
  <2>4. ListType'
    BY <1>1, <1>2 DEF ListType, Codes
  <2>5. FileType'
    BY <1>1 DEF FileType
  <2> QED BY <2>1, <2>2, <2>3, <2>4, <2>5 DEF TypeOK, FlagType, CountType, SourceType, ListType, FileType, Parts
<1>4. ProgressInv'
    BY <1>0, <1>1, <1>2, DriverAssumption DEF FlagType, CountType, SourceType, ListType, ProgressInv, Early, Late
<1>5. GateInv'
    BY <1>0, <1>1, <1>2 DEF FlagType, CountType, SourceType, ListType, ProgressInv, GateInv, BlameIsLocal, Early, Late
<1>6. FileInv'
    BY <1>0, <1>1, <1>2 DEF FlagType, CountType, FileInv, AllOrNothing
<1> QED BY <1>3, <1>4, <1>5, <1>6 DEF DriverInv

LEMMA EmitTextStep == ASSUME DriverInv, EmitText PROVE DriverInv'
<1> USE DEF EmitText, options, frontEnd, checks, outputs
<1>0. TypeOK /\ ProgressInv /\ GateInv /\ FileInv
    BY DEF DriverInv
<1>1. FlagType /\ CountType /\ SourceType /\ ListType /\ FileType
    BY DriverFacts
<1>2. programs \in Seq(Natures) /\ Len(programs) \in Nat /\ DOMAIN programs = 1 .. Len(programs)
    BY DriverFacts
<1>3. TypeOK'
  <2>1. FlagType'
    BY <1>1 DEF FlagType, Stages
  <2>2. CountType'
    BY <1>0, <1>1, DriverAssumption DEF CountType, ProgressInv
  <2>3. SourceType'
    BY <1>1, <1>2 DEF SourceType
  <2>4. ListType'
    BY <1>1, <1>2 DEF ListType, Codes
  <2>5. FileType'
    BY <1>1 DEF FileType
  <2> QED BY <2>1, <2>2, <2>3, <2>4, <2>5 DEF TypeOK, FlagType, CountType, SourceType, ListType, FileType, Parts
<1>4. ProgressInv'
    BY <1>0, <1>1, <1>2, DriverAssumption DEF FlagType, CountType, SourceType, ListType, ProgressInv, Early, Late
<1>5. GateInv'
    BY <1>0, <1>1, <1>2 DEF FlagType, CountType, SourceType, ListType, ProgressInv, GateInv, BlameIsLocal, Early, Late
<1>6. FileInv'
    BY <1>0, <1>1, <1>2 DEF FlagType, CountType, FileInv, AllOrNothing
<1> QED BY <1>3, <1>4, <1>5, <1>6 DEF DriverInv

\* Past the gate, what is linked is every program, complete.
LEMMA LinkedIsComplete ==
    ASSUME TypeOK, ProgressInv, GateInv, stage = "output", MayWrite
    PROVE  Linked = [i \in DOMAIN programs |-> "complete"]
<1>1. errors = 0 /\ canRun
    BY DEF MayWrite
<1>2. CASE target = "6502"
  <2>1. programs \in Sources /\ objects \in Seq(Codes)
      BY DEF TypeOK
  <2>2. Len(objects) = Len(programs) /\ DOMAIN programs = 1 .. Len(programs)
      BY <1>1, <1>2, <2>1, SourceIsSeq DEF ProgressInv
  <2>3. DOMAIN objects = DOMAIN programs
      BY <2>1, <2>2
  <2>4. \A i \in DOMAIN programs : objects[i] = "complete"
      BY <1>1, <2>2 DEF GateInv, Late
  <2>5. NonEmpty = DOMAIN programs
      BY <2>3, <2>4 DEF NonEmpty
  <2> QED BY <1>2, <2>4, <2>5 DEF Linked
<1>3. CASE target # "6502"
    BY <1>1, <1>3 DEF GateInv, Linked, Late
<1> QED BY <1>2, <1>3

LEMMA WriteOutputStep == ASSUME DriverInv, WriteOutput PROVE DriverInv'
<1> USE DEF WriteOutput, OpenFails, WriteFails, CloseFails, Written, NoOutput, MayWrite, ErrorCounts, options, frontEnd, checks, outputs
<1>0. TypeOK /\ ProgressInv /\ GateInv /\ FileInv
    BY DEF DriverInv
<1>1. FlagType /\ CountType /\ SourceType /\ ListType /\ FileType
    BY DriverFacts
<1>2. programs \in Seq(Natures) /\ Len(programs) \in Nat /\ DOMAIN programs = 1 .. Len(programs)
    BY DriverFacts
<1>3. TypeOK'
  <2>1. FlagType'
    BY <1>1 DEF FlagType, Stages
  <2>2. CountType'
    BY <1>0, <1>1, DriverAssumption DEF CountType, ProgressInv
  <2>3. SourceType'
    BY <1>1, <1>2 DEF SourceType
  <2>4. ListType'
    BY <1>1, <1>2 DEF ListType, Codes
  <2>5. FileType'
    <3>1. CASE UNCHANGED file
        BY <1>1, <3>1 DEF FileType
    <3>2. CASE file' = [is |-> "truncated", parts |-> << >>]
        BY <3>2, NoParts DEF FileType, Parts
    <3>3. CASE Written /\ MayWrite
      <4>1. Linked = [i \in DOMAIN programs |-> "complete"]
          BY <1>0, <1>1, <1>2, <3>3, LinkedIsComplete
      <4>2. DOMAIN programs \in SUBSET (1 .. MaxPrograms)
          BY <1>1, <1>2, SourceIsSeq, DriverAssumption DEF SourceType
      <4>3. [i \in DOMAIN programs |-> "complete"] \in [DOMAIN programs -> Codes]
          BY DEF Codes
      <4>4. Linked \in Parts
          BY <4>1, <4>2, <4>3 DEF Parts
      <4> HIDE DEF Linked
      <4> QED BY <3>3, <4>4 DEF FileType
    <3> QED BY <3>1, <3>2, <3>3
  <2> QED BY <2>1, <2>2, <2>3, <2>4, <2>5 DEF TypeOK, FlagType, CountType, SourceType, ListType, FileType, Parts
<1>4. ProgressInv'
    BY <1>0, <1>1, <1>2, DriverAssumption DEF FlagType, CountType, SourceType, ListType, ProgressInv, Early, Late
<1>5. GateInv'
    BY <1>0, <1>1, <1>2 DEF FlagType, CountType, SourceType, ListType, ProgressInv, GateInv, BlameIsLocal, Early, Late
<1>6. FileInv'
  <2>1. file.is = "before" /\ exit = "none" /\ stage' = "report" /\ errors \in Nat
      BY <1>0, <1>1 DEF FileInv, CountType
  <2>2. CASE UNCHANGED file
      BY <1>0, <2>1, <2>2 DEF FileInv, AllOrNothing
  <2>3. CASE file' = [is |-> "truncated", parts |-> << >>] /\ wanted
      BY <1>0, <2>1, <2>3 DEF FileInv, AllOrNothing
  <2>4. CASE Written /\ MayWrite
    <3>1. Linked = [i \in DOMAIN programs |-> "complete"]
        BY <1>0, <1>1, <1>2, <2>4, LinkedIsComplete
    <3> HIDE DEF Linked
    <3> QED BY <1>0, <2>1, <2>4, <3>1 DEF FileInv, AllOrNothing
  <2> QED BY <2>2, <2>3, <2>4
<1> QED BY <1>3, <1>4, <1>5, <1>6 DEF DriverInv

LEMMA ReportAndExitStep == ASSUME DriverInv, ReportAndExit PROVE DriverInv'
<1> USE DEF ReportAndExit, Stop, options, frontEnd, checks, outputs
<1>0. TypeOK /\ ProgressInv /\ GateInv /\ FileInv
    BY DEF DriverInv
<1>1. FlagType /\ CountType /\ SourceType /\ ListType /\ FileType
    BY DriverFacts
<1>2. programs \in Seq(Natures) /\ Len(programs) \in Nat /\ DOMAIN programs = 1 .. Len(programs)
    BY DriverFacts
<1>3. TypeOK'
  <2>1. FlagType'
    BY <1>1 DEF FlagType, Stages
  <2>2. CountType'
    BY <1>0, <1>1, DriverAssumption DEF CountType, ProgressInv
  <2>3. SourceType'
    BY <1>1, <1>2 DEF SourceType
  <2>4. ListType'
    BY <1>1, <1>2 DEF ListType, Codes
  <2>5. FileType'
    BY <1>1 DEF FileType
  <2> QED BY <2>1, <2>2, <2>3, <2>4, <2>5 DEF TypeOK, FlagType, CountType, SourceType, ListType, FileType, Parts
<1>4. ProgressInv'
    BY <1>0, <1>1, <1>2, DriverAssumption DEF FlagType, CountType, SourceType, ListType, ProgressInv, Early, Late
<1>5. GateInv'
    BY <1>0, <1>1, <1>2 DEF FlagType, CountType, SourceType, ListType, ProgressInv, GateInv, BlameIsLocal, Early, Late
<1>6. FileInv'
    BY <1>0, <1>1, <1>2 DEF FlagType, CountType, FileInv, AllOrNothing
<1> QED BY <1>3, <1>4, <1>5, <1>6 DEF DriverInv

LEMMA DriverStep == DriverInv /\ [Next]_vars => DriverInv'
<1> SUFFICES ASSUME DriverInv, [Next]_vars PROVE DriverInv'
    OBVIOUS
<1>1. CASE Next
    BY <1>1, OpenSourceStep, LexStep, GiveUpStep, AfterLexStep, ParseStep, AfterParseStep,
       CheckScopesStep, EndScopesStep, CheckTypesStep, EndTypesStep, OptimizeAndHintStep,
       Generate6502Step, End6502Step, EmitTextStep, WriteOutputStep, ReportAndExitStep DEF Next
<1>2. CASE UNCHANGED vars
  <2> USE <1>2 DEF vars, options, frontEnd, checks, outputs
  <2>1. TypeOK'
      BY DEF DriverInv, TypeOK
  <2>2. ProgressInv'
      BY DEF DriverInv, ProgressInv
  <2>3. GateInv'
      BY DEF DriverInv, GateInv, BlameIsLocal
  <2>4. FileInv'
      BY DEF DriverInv, FileInv, AllOrNothing
  <2> QED BY <2>1, <2>2, <2>3, <2>4 DEF DriverInv
<1> QED BY <1>1, <1>2

LEMMA DriverCorrect == Spec => []DriverInv
<1>1. Init => DriverInv
    BY DriverInit
<1>2. DriverInv /\ [Next]_vars => DriverInv'
    BY DriverStep
<1> QED BY <1>1, <1>2, PTL DEF Spec

-----------------------------------------------------------------------------
(***************************************************************************)
(* The theorems.                                                           *)
(***************************************************************************)
\* The state of a run has its type: lists per program are no longer than the
\* source has programs, and the fix loop makes at most MaxFixPasses turns.
THEOREM DriverTypes == Spec => []TypeOK
<1>1. DriverInv => TypeOK
    BY DEF DriverInv
<1> QED BY <1>1, DriverCorrect, PTL

\* Every program gets the verdict it deserves, whatever was wrong with others,
\* although main only compares counts of one bag (src/main.cpp, 428-462).
THEOREM LocalBlame == Spec => []BlameIsLocal
<1>1. DriverInv => BlameIsLocal
    BY DEF DriverInv, GateInv
<1> QED BY <1>1, DriverCorrect, PTL

\* A file that is written holds every program, complete: stubs and broken
\* objects that the back end leaves behind never get past the gate.
THEOREM CompleteOutput == Spec => []AllOrNothing
<1>1. DriverInv => AllOrNothing
    BY DEF DriverInv, FileInv
<1> QED BY <1>1, DriverCorrect, PTL

LEMMA OnlyWriteOutput ==
    ASSUME [Next]_vars, file' # file
    PROVE  WriteOutput /\ MayWrite
<1> USE DEF options, frontEnd, checks, outputs, Semantic
<1>1. ~UNCHANGED vars
    BY DEF vars
<1>2. UNCHANGED file \/ WriteOutput
    BY <1>1 DEF Next, OpenSource, Lex, GiveUp, AfterLex, Parse, AfterParse, CheckScopes,
       EndScopes, CheckTypes, EndTypes, OptimizeAndHint, Generate6502, End6502, EmitText,
       ReportAndExit
<1> QED BY <1>2 DEF WriteOutput, NoOutput

LEMMA GateIsSound ==
    ASSUME DriverInv, stage = "output", MayWrite
    PROVE  wanted /\ \A i \in DOMAIN programs : programs[i] \in Takes
<1>1. errors = 0 /\ canRun /\ wanted
    BY DEF MayWrite
<1>2. TypeOK /\ ProgressInv /\ GateInv
    BY DEF DriverInv
<1>3. programs \in Seq(Natures) /\ DOMAIN programs = 1 .. Len(programs)
    BY <1>2, SourceIsSeq DEF TypeOK
<1>4. CASE target \in {"6502", "llvm"}
  <2>1. Len(objects) = Len(programs)
      BY <1>1, <1>2, <1>4 DEF ProgressInv
  <2>2. \A i \in DOMAIN programs : programs[i] = "fine"
      BY <1>1, <1>2, <1>3, <2>1 DEF GateInv, Late
  <2> QED BY <1>1, <1>4, <2>2 DEF Takes, Sound6502
<1>5. CASE target \notin {"6502", "llvm"}
  <2>1. typeOk \in Seq(BOOLEAN) /\ Len(typeOk) = Len(programs)
      BY <1>2 DEF ProgressInv, TypeOK, Late
  <2>2. DOMAIN typeOk = DOMAIN programs
      BY <1>3, <2>1
  <2>3. \A i \in DOMAIN programs : typeOk[i]
      BY <1>1, <1>2, <1>3 DEF GateInv, Late
  <2>4. \A i \in DOMAIN programs : programs[i] \in Natures \ {"undeclared", "mistyped"}
      BY <1>2, <1>3, <2>2, <2>3 DEF GateInv, BlameIsLocal
  <2> QED BY <1>1, <1>5, <2>4 DEF Takes, SoundText, Natures
<1> QED BY <1>4, <1>5

\* What is at the output path is touched only for a source all of whose programs
\* the target can take: a refused source leaves the product of an earlier run.
THEOREM OutputUntouched == Spec => UntouchedUnlessSound
<1>1. DriverInv /\ [Next]_vars =>
          [file' # file => wanted /\ \A i \in DOMAIN programs : programs[i] \in Takes]_vars
  <2> SUFFICES ASSUME DriverInv, [Next]_vars, file' # file
               PROVE  wanted /\ \A i \in DOMAIN programs : programs[i] \in Takes
      OBVIOUS
  <2>1. stage = "output" /\ MayWrite
      BY OnlyWriteOutput DEF WriteOutput
  <2> QED BY <2>1, GateIsSound
<1> QED BY <1>1, DriverCorrect, PTL DEF Spec, UntouchedUnlessSound

-----------------------------------------------------------------------------
(***************************************************************************)
(* With a disk that loses nothing, success means that the file is there.   *)
(***************************************************************************)
HonestInv ==
    /\ stage = "report" /\ errors = 0 /\ wanted => file.is = "whole"
    /\ ExitHonest

LEMMA HonestInit == Init => HonestInv
    BY DEF Init, HonestInv, ExitHonest

LEMMA HonestStep == ASSUME ~LateLoss, DriverInv, HonestInv, [Next]_vars PROVE HonestInv'
<1> USE DEF options, frontEnd, checks, outputs, Semantic, Stop
<1>1. stage # "exit" => exit = "none"
    BY DEF DriverInv, FileInv
<1>2. errors \in Nat
    BY DEF DriverInv, TypeOK
<1>3. CASE WriteOutput
  <2>1. errors' = 0 /\ wanted => file'.is = "whole"
    <3>1. errors = 0 => canRun
        BY <1>3 DEF WriteOutput, DriverInv, GateInv, Late
    <3> SUFFICES ASSUME errors' = 0, wanted PROVE file'.is = "whole"
        OBVIOUS
    <3>2. ~OpenFails /\ ~WriteFails
        BY <1>2, DriverAssumption DEF OpenFails, WriteFails, ErrorCounts
    <3>3. MayWrite
        BY <1>3, <3>1 DEF WriteOutput, NoOutput, MayWrite
    <3> QED BY <1>3, <3>2, <3>3 DEF WriteOutput, CloseFails, Written
  <2> QED BY <1>1, <1>3, <2>1 DEF WriteOutput, HonestInv, ExitHonest
<1>4. CASE ReportAndExit
    BY <1>2, <1>4 DEF ReportAndExit, HonestInv, ExitHonest
<1>5. CASE OpenSource \/ Lex \/ GiveUp \/ AfterLex \/ Parse \/ AfterParse
    BY <1>1, <1>5 DEF OpenSource, Lex, GiveUp, AfterLex, Restart, Refuse, Parse, AfterParse,
       HonestInv, ExitHonest
<1>6. CASE CheckScopes \/ EndScopes \/ CheckTypes \/ EndTypes \/ OptimizeAndHint
    BY <1>1, <1>6 DEF CheckScopes, EndScopes, CheckTypes, EndTypes, OptimizeAndHint, Phase,
       PhaseEnd, HonestInv, ExitHonest
<1>7. CASE Generate6502 \/ End6502 \/ EmitText
    BY <1>1, <1>7 DEF Generate6502, End6502, EmitText, Phase, PhaseEnd, HonestInv, ExitHonest
<1>8. CASE UNCHANGED vars
    BY <1>8 DEF vars, HonestInv, ExitHonest
<1> QED BY <1>3, <1>4, <1>5, <1>6, <1>7, <1>8 DEF Next

LEMMA HonestCorrect == ASSUME ~LateLoss PROVE Spec => [](DriverInv /\ HonestInv)
<1>1. Init => HonestInv
    BY HonestInit
<1>2. DriverInv /\ HonestInv /\ [Next]_vars => HonestInv'
    BY HonestStep
<1> QED BY <1>1, <1>2, DriverCorrect, PTL DEF Spec

\* The exit status tells the truth: success means that no error was reported and
\* that a requested file is there and whole.  DriverFullDisk.cfg shows that the
\* assumption is needed: the writers do not look at the stream after closing it.
THEOREM HonestExit == ASSUME ~LateLoss PROVE Spec => []ExitHonest
<1>1. HonestInv => ExitHonest
    BY DEF HonestInv
<1> QED BY <1>1, HonestCorrect, PTL

-----------------------------------------------------------------------------
(***************************************************************************)
(* The fix loop and the promise to the caller.                             *)
(***************************************************************************)
FreshInv == stage \notin {"read", "lex", "exit"} => fresh

\* After a rewrite of the text main always lexes again (src/main.cpp, 309-396),
\* so that no span in a tree or a diagnostic is one of an older text.
THEOREM CurrentTokens == Spec => []TokensCurrent
<1>1. Init => FreshInv
    BY DEF Init, FreshInv
<1>2. FreshInv /\ [Next]_vars => FreshInv'
  <2> SUFFICES ASSUME FreshInv, [Next]_vars PROVE FreshInv'
      OBVIOUS
  <2> USE DEF FreshInv, options, frontEnd, checks, outputs, Semantic, Stop
  <2>1. CASE OpenSource \/ Lex \/ GiveUp \/ AfterLex \/ Parse \/ AfterParse
      BY <2>1 DEF OpenSource, Lex, GiveUp, AfterLex, Restart, Refuse, Parse, AfterParse
  <2>2. CASE CheckScopes \/ EndScopes \/ CheckTypes \/ EndTypes \/ OptimizeAndHint
      BY <2>2 DEF CheckScopes, EndScopes, CheckTypes, EndTypes, OptimizeAndHint, Phase, PhaseEnd
  <2>3. CASE Generate6502 \/ End6502 \/ EmitText \/ WriteOutput \/ ReportAndExit
      BY <2>3 DEF Generate6502, End6502, EmitText, WriteOutput, ReportAndExit, Phase, PhaseEnd
  <2>4. CASE UNCHANGED vars
      BY <2>4 DEF vars
  <2> QED BY <2>1, <2>2, <2>3, <2>4 DEF Next
<1>3. FreshInv => TokensCurrent
    BY DEF FreshInv, TokensCurrent
<1> QED BY <1>1, <1>2, <1>3, PTL DEF Spec

\* As main has only written files that hold every program, a whole file is a
\* delivered one.
LEMMA ProductOf ==
    DriverInv => /\ Product = IF file.is = "whole" THEN "delivered" ELSE file.is
                 /\ file.is \in {"before", "truncated", "whole"}
<1> SUFFICES ASSUME DriverInv
             PROVE  /\ Product = IF file.is = "whole" THEN "delivered" ELSE file.is
                    /\ file.is \in {"before", "truncated", "whole"}
    OBVIOUS
<1>1. AllOrNothing
    BY DEF DriverInv, FileInv
<1>2. FileType
    BY DriverFacts
<1> QED BY <1>1, <1>2 DEF Product, FileType

LEMMA PromiseStep ==
    ASSUME ~LateLoss, DriverInv, DriverInv', HonestInv, HonestInv', [Next]_vars
    PROVE  [Promise!Next]_(Promise!vars)
<1>0. /\ AllOrNothing' /\ file'.is \in {"before", "truncated", "whole"}
      /\ file'.is = "whole" => errors' = 0
    BY DEF DriverInv, FileInv, TypeOK
<1>1. Product = IF file.is = "whole" THEN "delivered" ELSE file.is
    BY ProductOf
<1>2. Product' = IF file'.is = "whole" THEN "delivered" ELSE file'.is
    BY <1>0 DEF Product
<1>3. file.is \in {"before", "truncated", "whole"} /\ file'.is \in {"before", "truncated", "whole"}
    BY <1>0, ProductOf
<1>4. wanted' = wanted
    BY DEF Next, vars, options, frontEnd, checks, outputs, Semantic, OpenSource, Lex, GiveUp,
       AfterLex, Parse, AfterParse, CheckScopes, EndScopes, CheckTypes, EndTypes,
       OptimizeAndHint, Generate6502, End6502, EmitText, WriteOutput, ReportAndExit
<1>5. /\ stage # "exit" <=> exit = "none"
      /\ stage \notin {"report", "exit"} \/ ~wanted => file.is = "before"
      /\ file.is = "whole" => errors = 0
    BY DEF DriverInv, FileInv
<1>6. CASE file' # file
  <2>1. stage = "output" /\ wanted /\ stage' = "report" /\ exit' = exit
      BY <1>6, OnlyWriteOutput DEF WriteOutput, MayWrite
  <2>2. Verdict = "pending" /\ Verdict' = "pending" /\ Product = "before"
      BY <1>1, <1>5, <2>1 DEF Verdict
  <2>3. CASE Product' = "before"
      BY <1>4, <2>2, <2>3 DEF Promise!vars
  <2>4. CASE Product' # "before"
      BY <1>2, <1>3, <1>4, <2>1, <2>2, <2>4 DEF Promise!Next, Promise!Deliver
  <2> QED BY <2>3, <2>4
<1>7. CASE file' = file /\ exit' = exit
    BY <1>1, <1>2, <1>4, <1>7 DEF Promise!vars, Verdict
<1>8. CASE file' = file /\ exit' # exit
  <2>1. /\ stage # "exit" /\ exit = "none" /\ exit' \in {"success", "failure"}
        /\ stage' = "exit" /\ (exit' = "failure" => errors' > 0 \/ stage # "report")
      BY <1>5, <1>8 DEF Next, vars, options, frontEnd, checks, outputs, Semantic, Stop, OpenSource,
         Lex, GiveUp, AfterLex, Restart, Refuse, Parse, AfterParse, CheckScopes, EndScopes,
         CheckTypes, EndTypes, OptimizeAndHint, Generate6502, End6502, EmitText, WriteOutput,
         ReportAndExit
  <2>2. Verdict = "pending" /\ Verdict' = exit' /\ Product' = Product
      BY <1>1, <1>2, <1>8, <2>1 DEF Verdict
  <2>3. CASE exit' = "success"
    <3>1. wanted => file.is = "whole"
        BY <1>4, <1>8, <2>3 DEF HonestInv, ExitHonest
    <3> QED BY <1>1, <1>4, <1>5, <2>2, <2>3, <3>1 DEF Promise!Next, Promise!Accept
  <2>4. CASE exit' = "failure"
    <3>1. file.is # "whole"
        BY <1>0, <1>5, <1>8, <2>1, <2>4
    <3> QED BY <1>1, <1>3, <1>4, <2>2, <2>4, <3>1 DEF Promise!Next, Promise!Reject
  <2> QED BY <2>1, <2>3, <2>4
<1> QED BY <1>6, <1>7, <1>8

\* One run of the compiler implements what Build promises its caller, if the
\* disk loses nothing after the last check of the stream.
THEOREM Implements == ASSUME ~LateLoss PROVE Spec => KeepsPromise
<1>1. Init => Promise!Init
    BY DEF Init, Promise!Init, Product, Verdict
<1>2. DriverInv /\ HonestInv /\ DriverInv' /\ HonestInv' /\ [Next]_vars
          => [Promise!Next]_(Promise!vars)
    BY PromiseStep
<1> QED BY <1>1, <1>2, HonestCorrect, PTL DEF Spec, KeepsPromise, Promise!Spec

=============================================================================
