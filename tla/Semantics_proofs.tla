-------------------------- MODULE Semantics_proofs --------------------------
(***************************************************************************)
(* Theorems of the semantic passes and their proofs.                       *)
(*                                                                         *)
(* What the passes have in common is the stack of blocks at each visit of  *)
(* the program.  The invariant says there is a history of that stack, one  *)
(* per visit, that the program and the annotations follow; the stack of    *)
(* the pass at work is then the one of the history at its cursor.  The     *)
(* scope pass adds to the history, the other two read it.                  *)
(***************************************************************************)
EXTENDS Semantics, WellFoundedInduction, FiniteSetTheorems, TLAPS

-----------------------------------------------------------------------------
(***************************************************************************)
(* Stacks, and the innermost frame.                                        *)
(***************************************************************************)
LEMMA Emptiness == ASSUME NEW S PROVE << >> \in Seq(S) /\ Len(<< >>) = 0
OBVIOUS

LEMMA Pushing ==
    ASSUME NEW S, NEW s \in Seq(S), NEW x \in S
    PROVE  /\ Append(s, x) \in Seq(S) /\ Append(s, x) # << >>
           /\ Len(Append(s, x)) = Len(s) + 1
           /\ DOMAIN Append(s, x) = 1 .. Len(s) + 1
           /\ \A i \in 1 .. Len(s) : Append(s, x)[i] = s[i]
           /\ Append(s, x)[Len(s) + 1] = x
OBVIOUS

LEMMA Popping ==
    ASSUME NEW S, NEW s \in Seq(S)
    PROVE  /\ Pop(s) \in Seq(S)
           /\ s # << >> => /\ Len(Pop(s)) = Len(s) - 1
                           /\ DOMAIN Pop(s) = 1 .. Len(s) - 1
                           /\ \A i \in 1 .. Len(s) - 1 : Pop(s)[i] = s[i]
BY DEF Pop

LEMMA Topping ==
    ASSUME NEW S, NEW s \in Seq(S), NEW x \in S, s # << >>
    PROVE  /\ SetTop(s, x) \in Seq(S) /\ Len(SetTop(s, x)) = Len(s)
           /\ DOMAIN SetTop(s, x) = 1 .. Len(s)
           /\ \A i \in 1 .. Len(s) - 1 : SetTop(s, x)[i] = s[i]
           /\ SetTop(s, x)[Len(s)] = x
           /\ Top(s) \in S /\ Len(s) \in 1 .. Len(s)
BY DEF SetTop, Top

LEMMA SameLength ==
    ASSUME NEW S, NEW s \in Seq(S), Len(s) = 0
    PROVE  s = << >>
OBVIOUS

LEMMA MinimalIsLeast ==
    ASSUME NEW T, T \subseteq Nat, NEW Below,
           \A x, y \in Nat : y < x => << y, x >> \in Below,
           \E x \in T : \A y \in T : ~ (<< y, x >> \in Below)
    PROVE  \E x \in T : \A y \in T : x <= y
<1>1. PICK x \in T : \A y \in T : ~ (<< y, x >> \in Below)
  OBVIOUS
<1>2. \A y \in T : x <= y
  <2> TAKE y \in T
  <2>1. x \in Nat /\ y \in Nat /\ ~(y < x)
    BY <1>1
  <2> QED
    BY <2>1, SMT
<1> QED
  BY <1>2

LEMMA LeastElement ==
    ASSUME NEW T, T \subseteq Nat, T # {}
    PROVE  \E x \in T : \A y \in T : x <= y
<1>1. \E x \in T : \A y \in T : ~ (<< y, x >> \in OpToRel(<, Nat))
  BY WFMin, NatLessThanWellFounded
<1>2. \A x, y \in Nat : y < x => << y, x >> \in OpToRel(<, Nat)
  BY DEF OpToRel
<1> QED
  BY <1>1, <1>2, MinimalIsLeast, Zenon

LEMMA GreatestElement ==
    ASSUME NEW n \in Nat, NEW T, T \subseteq 1 .. n, T # {}
    PROVE  \E x \in T : \A y \in T : y <= x
<1> DEFINE Bounds == {k \in Nat : \A y \in T : y <= k}
<1>1. n \in Bounds
  OBVIOUS
<1>2. PICK m \in Bounds : \A k \in Bounds : m <= k
  BY <1>1, LeastElement
<1>3. m \in T
  <2> SUFFICES ASSUME m \notin T PROVE FALSE
    OBVIOUS
  <2>1. PICK t \in T : TRUE
    OBVIOUS
  <2>2. m > 0 /\ m - 1 \in Nat
    BY <2>1
  <2>3. \A y \in T : y <= m - 1
    OBVIOUS
  <2> QED
    BY <2>2, <2>3, <1>2
<1> QED
  BY <1>3

\* The innermost of some frames is one of them, and it is inside the others.
LEMMA InnermostIsOne ==
    ASSUME NEW n \in Nat, NEW T, T \subseteq 1 .. n, T # {}
    PROVE  Innermost(T) \in T /\ \A j \in T : j <= Innermost(T)
<1>1. \E x \in T : \A y \in T : y <= x
  BY GreatestElement
<1> QED
  BY <1>1 DEF Innermost

-----------------------------------------------------------------------------
(***************************************************************************)
(* The invariant.                                                          *)
(***************************************************************************)
\* The scopes, their numbers and the keys of the symbols.
ScopesInv ==
    /\ program = << >> => allScopes = << >> /\ symbols = << >> /\ scopes = << >>
    /\ pass = "scope" /\ scopes = << >> => program = << >>
    /\ pass # "scope" => scopes = << >>
    /\ \A i \in DOMAIN scopes :
          scopes[i].id < Len(allScopes) /\ allScopes[scopes[i].id + 1].depth = i - 1
    /\ \A i \in DOMAIN allScopes :
          LET p == allScopes[i].parent IN
          IF i = 1 THEN p = None
          ELSE p \in Nat /\ p + 1 < i /\ allScopes[p + 1].depth + 1 = allScopes[i].depth
SymbolsInv ==
    /\ \A k \in DOMAIN symbols :
          /\ symbols[k].scope < Len(allScopes)
          /\ allScopes[symbols[k].scope + 1].depth = symbols[k].depth
          /\ symbols[k].at \in DOMAIN program
          /\ program[symbols[k].at].kind = "decl"
          /\ program[symbols[k].at].name = symbols[k].name
          /\ program[symbols[k].at].type = symbols[k].type
    /\ \A k \in DOMAIN symbols : \A i \in DOMAIN scopes :
          symbols[k].scope = scopes[i].id => symbols[k].name \in scopes[i].names
    /\ \A k, l \in DOMAIN symbols :
          symbols[k].name = symbols[l].name /\ symbols[k].scope = symbols[l].scope => k = l

\* A history frame binds a name to the position of its declaration, 0 if to none.
Frame == [id : Nat, binds : [Names -> Nat]]
Stack == Seq(Frame)
Unbound == [n \in Names |-> 0]

Bound(s, n) == {f \in DOMAIN s : s[f].binds[n] # 0}
IdIn(s, n)  == IF Bound(s, n) = {} THEN None ELSE s[Innermost(Bound(s, n))].id

\* Visit i takes the stack s to the stack t.
Follows(s, i, t) ==
    LET v == program[i] IN
    /\ v.kind \in {"open", "guard"} =>
          \E id \in Nat : t = Append(s, [id |-> id, binds |-> Unbound])
    /\ v.kind \notin {"open", "guard"} => s # << >>
    /\ v.kind = "decl" =>
          t = IF Top(s).binds[v.name] # 0 THEN s
              ELSE SetTop(s, [id |-> Top(s).id,
                              binds |-> [Top(s).binds EXCEPT ![v.name] = i]])
    /\ v.kind \in {"assign", "print"} => t = s
    /\ v.kind = "close" => t = Pop(s)

\* The nodes of visit i are annotated by the stack s.
Annotated(s, i) ==
    /\ HasExpr(i) =>
          LET args == program[i].expr.args IN
          \A k \in DOMAIN args : args[k] \in Names => resolved[i].args[k] = IdIn(s, args[k])
    /\ program[i].kind = "assign" => resolved[i].lhs = IdIn(s, program[i].name)

\* Visit i gives the scope pass nothing to report.
Clean(s, i) ==
    /\ HasExpr(i) => \A n \in NamesOf(program[i].expr) : Bound(s, n) # {}
    /\ program[i].kind = "assign" => Bound(s, program[i].name) # {}
    /\ program[i].kind = "decl" => Top(s).binds[program[i].name] = 0

\* Every binding of the stack is a symbol.
Recorded(s) ==
    \A f \in DOMAIN s : \A n \in Names :
        s[f].binds[n] # 0 =>
            \E k \in DOMAIN symbols :
                symbols[k].name = n /\ symbols[k].scope = s[f].id /\ symbols[k].at = s[f].binds[n]

History(H) ==
    /\ H \in Seq(Stack) /\ Len(H) = Len(program) + 1 /\ H[1] = << >>
    /\ \A i \in 1 .. Len(program) :
          /\ Follows(H[i], i, H[i + 1])
          /\ Annotated(H[i], i)
          /\ errors.scope = 0 => Clean(H[i], i)
    /\ \A i \in 1 .. Len(program) + 1 : Recorded(H[i])
    /\ \A i \in 2 .. Len(program) : H[i] # << >>

\* The stacks of the passes are the ones of the history.
SameScopes(s) ==
    /\ Len(scopes) = Len(s)
    /\ \A f \in DOMAIN s :
          scopes[f].id = s[f].id /\ scopes[f].names = {n \in Names : s[f].binds[n] # 0}
SameTypes(s) ==
    /\ Len(types) = Len(s)
    /\ \A f \in DOMAIN s : \A n \in Names :
          types[f][n] = IF s[f].binds[n] = 0 THEN None ELSE program[s[f].binds[n]].type
SameUsages(s) ==
    /\ Len(usages) = Len(s)
    /\ \A f \in DOMAIN s : \A n \in Names :
          usages[f][n] = None <=> s[f].binds[n] = 0
InStep(H) ==
    /\ pass = "scope" => SameScopes(H[Len(program) + 1])
    /\ pass # "scope" => program # << >> /\ H[Len(program) + 1] = << >>
    /\ pass = "type" => cursor < Len(program) /\ SameTypes(H[cursor + 1])
    /\ pass = "usage" => cursor < Len(program) /\ SameUsages(H[cursor + 1])

HistoryInv == \E H : History(H) /\ InStep(H)

\* What the passes have already rejected.
ErrorsInv ==
    /\ pass = "scope" => errors.type = 0 /\ cursor = 0
    /\ pass \in {"type", "usage"} => errors.scope = 0
    /\ pass = "usage" => errors.type = 0
    /\ errors.internal = 0

\* What the type pass has accepted, in terms of the keys of the scope pass.
WellTyped(i) ==
    HasExpr(i) =>
        LET op == program[i].expr.op
            ts == ArgTypes(i)
        IN /\ op = "add" => ts[1] = "int" /\ ts[2] = "int"
           /\ op = "compare" => ts[1] = ts[2]
           /\ program[i].kind = "assign" =>
                 DeclType(<< program[i].name, resolved[i].lhs >>) =
                     CASE op = "atom" -> ts[1] [] op = "add" -> "int" [] op = "compare" -> "boolean"
CheckedInv ==
    /\ pass = "type" /\ errors.type = 0 => \A i \in 1 .. cursor : WellTyped(i)
    /\ pass \in {"usage", "done"} /\ errors.scope = 0 /\ errors.type = 0 =>
          \A i \in 1 .. Len(program) : WellTyped(i)

SemanticsInv == TypeOK /\ ScopesInv /\ SymbolsInv /\ HistoryInv /\ ErrorsInv

-----------------------------------------------------------------------------
(***************************************************************************)
(* Types, scope pass.                                                      *)
(***************************************************************************)
ScopeFrame == [id : Nat, names : SUBSET Names]
ScopeEntry == [id : Nat, parent : ScopeId, depth : Nat]
Expr == {e \in words.exprs \cup words.conditions : IsExpr(e)}

\* What the vocabulary of the program may be made of.
LEMMA WordsType ==
    ASSUME words \in Vocabularies
    PROVE  /\ words.names \subseteq Names /\ words.types \subseteq Types
           /\ words.exprs \subseteq Expr /\ words.conditions \subseteq Expr
BY SemanticsAssumption DEF IsVocabulary, Expr

LEMMA ArgsType ==
    ASSUME NEW e \in Expr
    PROVE  /\ e.args \in Seq(Names \cup Types)
           /\ DOMAIN e.args = 1 .. Len(e.args) /\ Len(e.args) \in {1, 2}
           /\ \A k \in DOMAIN e.args : e.args[k] \in Names \cup Types
           /\ NamesOf(e) \subseteq Names
           /\ \A k \in DOMAIN e.args : e.args[k] \in Names => e.args[k] \in NamesOf(e)
<1>1. IsExpr(e)
  BY DEF Expr
<1> QED
  BY <1>1 DEF IsExpr, NamesOf

\* A set of operand positions can be counted, and is empty when it counts 0.
LEMMA Countable ==
    ASSUME NEW e \in Expr, NEW P \in SUBSET DOMAIN e.args
    PROVE  Cardinality(P) \in Nat /\ (Cardinality(P) = 0 <=> P = {})
<1>1. IsFiniteSet(1 .. Len(e.args))
  <2>1. Len(e.args) \in Nat
    BY ArgsType
  <2> QED
    BY <2>1, FS_Interval
<1>2. IsFiniteSet(P)
  BY <1>1, ArgsType, FS_Subset
<1> QED
  BY <1>2, FS_CardinalityType, FS_EmptySet

LEMMA ScopeOfType ==
    ASSUME scopes \in Seq(ScopeFrame), NEW n \in Names
    PROVE  ScopeOf(n) \in ScopeId
<1> DEFINE holding == {i \in DOMAIN scopes : n \in scopes[i].names}
<1>1. Len(scopes) \in Nat /\ holding \subseteq 1 .. Len(scopes)
  OBVIOUS
<1>2. CASE holding = {}
  BY <1>2 DEF ScopeOf, ScopeId
<1>3. CASE holding # {}
  <2>1. \A i \in holding : scopes[i].id \in Nat
    <3>1. \A i \in DOMAIN scopes : scopes[i] \in ScopeFrame
      OBVIOUS
    <3> QED
      BY <3>1 DEF ScopeFrame
  <2>2. scopes[Innermost(holding)].id \in Nat
    <3> HIDE DEF holding
    <3>1. Innermost(holding) \in holding
      BY <1>1, <1>3, InnermostIsOne
    <3> QED
      BY <2>1, <3>1
  <2> QED
    BY <1>3, <2>2 DEF ScopeOf, ScopeId
<1> QED
  BY <1>2, <1>3

LEMMA NoteType ==
    ASSUME scopes \in Seq(ScopeFrame)
    PROVE  /\ NoNotes \in Note
           /\ \A e \in Expr :
                 /\ [lhs |-> None, args |-> Annotate(e)] \in Note
                 /\ \A n \in Names : [lhs |-> ScopeOf(n), args |-> Annotate(e)] \in Note
<1>1. NoNotes \in Note
  BY Emptiness DEF NoNotes, Note, ScopeId
<1>2. ASSUME NEW e \in Expr PROVE Annotate(e) \in Seq(ScopeId)
  <2>1. \A k \in DOMAIN e.args : (IF e.args[k] \in Names THEN ScopeOf(e.args[k]) ELSE None) \in ScopeId
    BY ScopeOfType DEF ScopeId
  <2>2. DOMAIN e.args = 1 .. Len(e.args) /\ Len(e.args) \in Nat
    BY ArgsType
  <2> QED
    BY <2>1, <2>2 DEF Annotate
<1> QED
  BY <1>1, <1>2, ScopeOfType DEF Note, ScopeId

\* What every step of the scope pass keeps typed, whatever it does to the scopes.
TypedAround ==
    /\ words \in Vocabularies
    /\ pass \in {"scope", "type", "usage", "done"}
    /\ program \in Seq(Visit)
    /\ resolved \in Seq(Note) /\ Len(resolved) = Len(program)
    /\ cursor \in 0 .. Len(program)
    /\ errors \in [scope : Nat, type : Nat, internal : Nat]
    /\ types \in Seq(Frames(Types)) /\ (pass # "type" => types = << >>)
    /\ usages \in Seq(Frames(Usage)) /\ (pass # "usage" => usages = << >>)
    /\ reports \subseteq Report

LEMMA ReachTypes ==
    ASSUME TypeOK, NEW v \in Visit, NEW r \in Note, NEW k \in Nat, Reach(v, r, k)
    PROVE  /\ TypedAround'
           /\ Len(program') = Len(program) + 1 /\ program'[Len(program) + 1] = v
           /\ \A i \in 1 .. Len(program) : program'[i] = program[i]
           /\ resolved'[Len(program) + 1] = r
           /\ \A i \in 1 .. Len(program) : resolved'[i] = resolved[i]
           /\ errors'.scope = errors.scope + k
           /\ errors'.type = errors.type /\ errors'.internal = errors.internal
           /\ pass = "scope" /\ pass' = "scope" /\ words' = words
<1> USE DEF Reach
<1>1. Visit' = Visit
  BY DEF Visit
<1>2. program' \in Seq(Visit)' /\ Len(program') = Len(program) + 1
      /\ program'[Len(program) + 1] = v /\ \A i \in 1 .. Len(program) : program'[i] = program[i]
  <2>1. program \in Seq(Visit)
    BY DEF TypeOK
  <2> QED
    BY <1>1, <2>1, Pushing
<1>3. resolved' \in Seq(Note) /\ Len(resolved') = Len(program) + 1
      /\ resolved'[Len(program) + 1] = r /\ \A i \in 1 .. Len(program) : resolved'[i] = resolved[i]
  <2>1. resolved \in Seq(Note) /\ Len(resolved) = Len(program)
    BY DEF TypeOK
  <2> QED
    BY <2>1, Pushing
<1>4. /\ errors'.scope = errors.scope + k
      /\ errors'.type = errors.type /\ errors'.internal = errors.internal
      /\ errors' \in [scope : Nat, type : Nat, internal : Nat]
  <2>1. errors \in [scope : Nat, type : Nat, internal : Nat]
    BY DEF TypeOK
  <2>2. errors' = [errors EXCEPT !.scope = errors.scope + k]
    OBVIOUS
  <2> QED
    BY <2>1, <2>2
<1>5. cursor' \in 0 .. Len(program')
  <2>1. cursor \in 0 .. Len(program) /\ cursor' = cursor /\ Len(program) \in Nat
    BY DEF TypeOK
  <2> QED
    BY <1>2, <2>1
<1>6. TypedAround'
  BY <1>2, <1>3, <1>4, <1>5 DEF TypedAround, TypeOK
<1> QED
  BY <1>2, <1>3, <1>4, <1>6

LEMMA ReachedVisits ==
    ASSUME words \in Vocabularies
    PROVE  /\ [kind |-> "open"] \in Visit /\ [kind |-> "close"] \in Visit
           /\ \A e \in words.conditions : [kind |-> "guard", expr |-> e] \in Visit
           /\ \A e \in words.exprs : [kind |-> "print", expr |-> e] \in Visit
           /\ \A n \in words.names, t \in words.types : [kind |-> "decl", name |-> n, type |-> t] \in Visit
           /\ \A n \in words.names, e \in words.exprs :
                 [kind |-> "assign", name |-> n, expr |-> e] \in Visit
BY DEF Visit

-----------------------------------------------------------------------------
(***************************************************************************)
(* Scopes and keys, scope pass.                                            *)
(***************************************************************************)
\* The program has one visit more.
Longer ==
    /\ program' # << >> /\ Len(program') = Len(program) + 1
    /\ DOMAIN program' = 1 .. Len(program) + 1
    /\ \A i \in 1 .. Len(program) : program'[i] = program[i]

LEMMA TypedParts ==
    ASSUME TypeOK
    PROVE  /\ scopes \in Seq(ScopeFrame) /\ Len(scopes) \in Nat /\ DOMAIN scopes = 1 .. Len(scopes)
           /\ \A i \in 1 .. Len(scopes) : scopes[i].id \in Nat /\ scopes[i].names \subseteq Names
           /\ symbols \in Seq(Symbol) /\ Len(symbols) \in Nat /\ DOMAIN symbols = 1 .. Len(symbols)
           /\ \A k \in 1 .. Len(symbols) :
                 /\ symbols[k].name \in Names /\ symbols[k].type \in Types /\ symbols[k].at \in Nat
                 /\ symbols[k].scope \in Nat /\ symbols[k].depth \in Nat
           /\ allScopes \in Seq(ScopeEntry) /\ Len(allScopes) \in Nat
           /\ DOMAIN allScopes = 1 .. Len(allScopes)
           /\ \A i \in 1 .. Len(allScopes) : allScopes[i].parent \in ScopeId /\ allScopes[i].depth \in Nat
           /\ program \in Seq(Visit) /\ Len(program) \in Nat /\ DOMAIN program = 1 .. Len(program)
           /\ resolved \in Seq(Note) /\ Len(resolved) = Len(program)
<1>1. /\ scopes \in Seq(ScopeFrame) /\ symbols \in Seq(Symbol) /\ allScopes \in Seq(ScopeEntry)
      /\ program \in Seq(Visit) /\ resolved \in Seq(Note) /\ Len(resolved) = Len(program)
  BY DEF TypeOK, ScopeFrame, ScopeEntry
<1>2. \A i \in 1 .. Len(scopes) : scopes[i] \in ScopeFrame
  BY <1>1
<1>3. \A k \in 1 .. Len(symbols) : symbols[k] \in Symbol
  BY <1>1
<1>4. \A i \in 1 .. Len(allScopes) : allScopes[i] \in ScopeEntry
  BY <1>1
<1> QED
  BY <1>1, <1>2, <1>3, <1>4 DEF ScopeFrame, Symbol, ScopeEntry

\* An entry of the symbol table keeps its scope and its declaration.
LEMMA EntryStays ==
    ASSUME TypeOK, SymbolsInv, Longer, NEW k \in DOMAIN symbols,
           Len(allScopes') \in Nat, Len(allScopes) <= Len(allScopes'),
           \A i \in 1 .. Len(allScopes) : allScopes'[i] = allScopes[i]
    PROVE  /\ symbols[k].scope < Len(allScopes')
           /\ allScopes'[symbols[k].scope + 1].depth = symbols[k].depth
           /\ symbols[k].at \in DOMAIN program'
           /\ program'[symbols[k].at].kind = "decl"
           /\ program'[symbols[k].at].name = symbols[k].name
           /\ program'[symbols[k].at].type = symbols[k].type
<1> USE TypedParts
<1>1. /\ symbols[k].scope < Len(allScopes) /\ symbols[k].scope \in Nat
      /\ allScopes[symbols[k].scope + 1].depth = symbols[k].depth
      /\ symbols[k].at \in 1 .. Len(program)
      /\ program[symbols[k].at].kind = "decl"
      /\ program[symbols[k].at].name = symbols[k].name
      /\ program[symbols[k].at].type = symbols[k].type
  BY DEF SymbolsInv
<1>2. symbols[k].scope < Len(allScopes')
  BY <1>1
<1>3. allScopes'[symbols[k].scope + 1] = allScopes[symbols[k].scope + 1]
  <2>1. symbols[k].scope + 1 \in 1 .. Len(allScopes)
    BY <1>1
  <2> QED
    BY <2>1
<1>4. symbols[k].at \in DOMAIN program' /\ program'[symbols[k].at] = program[symbols[k].at]
  <2>1. symbols[k].at \in 1 .. Len(program) + 1
    BY <1>1
  <2> QED
    BY <2>1, <1>1 DEF Longer
<1> QED
  BY <1>1, <1>2, <1>3, <1>4

\* A new block has an entry and an id of its own.
LEMMA PushKeeps ==
    ASSUME TypeOK, ScopesInv, SymbolsInv, pass = "scope", pass' = "scope", Longer,
           PushScope, UNCHANGED symbols
    PROVE  /\ scopes' \in Seq(ScopeFrame) /\ allScopes' \in Seq(ScopeEntry)
           /\ ScopesInv' /\ SymbolsInv'
<1> DEFINE n == Len(scopes)
           m == Len(allScopes)
           frame == [id |-> m, names |-> {}]
           entry == [id |-> m, parent |-> IF scopes = << >> THEN None ELSE Top(scopes).id, depth |-> n]
<1> USE TypedParts
<1>1. n \in Nat /\ m \in Nat
  OBVIOUS
<1>2. scopes # << >> =>
         /\ n \in 1 .. n /\ Top(scopes) = scopes[n] /\ scopes[n].id \in Nat
         /\ scopes[n].id < m /\ allScopes[scopes[n].id + 1].depth = n - 1
  <2>1. scopes # << >> => n \in 1 .. n
    BY SameLength
  <2> QED
    BY <2>1 DEF ScopesInv, Top
<1>3. frame \in ScopeFrame /\ entry \in ScopeEntry
  BY <1>1, <1>2 DEF ScopeFrame, ScopeEntry, ScopeId
<1>4. /\ scopes' = Append(scopes, frame) /\ allScopes' = Append(allScopes, entry)
  BY DEF PushScope, NextScopeId
<1>5. /\ scopes' \in Seq(ScopeFrame) /\ Len(scopes') = n + 1 /\ DOMAIN scopes' = 1 .. n + 1
      /\ \A i \in 1 .. n : scopes'[i] = scopes[i]
      /\ scopes'[n + 1] = frame
  BY <1>3, <1>4, Pushing
<1>6. /\ allScopes' \in Seq(ScopeEntry) /\ Len(allScopes') = m + 1 /\ DOMAIN allScopes' = 1 .. m + 1
      /\ \A i \in 1 .. m : allScopes'[i] = allScopes[i]
      /\ allScopes'[m + 1] = entry
  BY <1>3, <1>4, Pushing
<1>7. ScopesInv'
  <2>1. program' # << >> /\ scopes' # << >> /\ pass' = "scope"
    BY <1>4, Pushing, <1>3 DEF Longer
  <2>2. ASSUME NEW i \in DOMAIN scopes'
        PROVE  scopes'[i].id < Len(allScopes') /\ allScopes'[scopes'[i].id + 1].depth = i - 1
    <3>1. CASE i = n + 1
      BY <3>1, <1>1, <1>5, <1>6
    <3>2. CASE i # n + 1
      <4>1. i \in 1 .. n /\ scopes'[i] = scopes[i]
        BY <3>2, <1>1, <1>5
      <4>2. scopes[i].id \in Nat /\ scopes[i].id < m /\ allScopes[scopes[i].id + 1].depth = i - 1
        BY <4>1 DEF ScopesInv
      <4>3. scopes[i].id + 1 \in 1 .. m
        BY <4>2, <1>1
      <4> QED
        BY <4>1, <4>2, <4>3, <1>6
    <3> QED
      BY <3>1, <3>2
  <2>3. ASSUME NEW i \in DOMAIN allScopes'
        PROVE  LET p == allScopes'[i].parent IN
               IF i = 1 THEN p = None
               ELSE p \in Nat /\ p + 1 < i /\ allScopes'[p + 1].depth + 1 = allScopes'[i].depth
    <3>1. CASE i = m + 1
      <4>1. CASE scopes = << >>
        <5>1. m = 0
          BY <4>1, Emptiness DEF ScopesInv
        <5> QED
          BY <3>1, <4>1, <5>1, <1>6
      <4>2. CASE scopes # << >>
        <5>1. /\ scopes[n].id \in Nat /\ scopes[n].id + 1 \in 1 .. m
              /\ allScopes[scopes[n].id + 1].depth = n - 1
          BY <4>2, <1>1, <1>2
        <5>2. i # 1 /\ allScopes'[i].parent = scopes[n].id /\ allScopes'[i].depth = n
          BY <3>1, <4>2, <5>1, <1>1, <1>2, <1>6
        <5> QED
          BY <3>1, <5>1, <5>2, <1>1, <1>6
      <4> QED
        BY <4>1, <4>2
    <3>2. CASE i # m + 1
      <4>1. i \in 1 .. m /\ allScopes'[i] = allScopes[i]
        BY <3>2, <1>1, <1>6
      <4>2. CASE i = 1
        BY <4>1, <4>2 DEF ScopesInv
      <4>3. CASE i # 1
        <5>1. /\ allScopes[i].parent \in Nat /\ allScopes[i].parent + 1 < i
              /\ allScopes[allScopes[i].parent + 1].depth + 1 = allScopes[i].depth
          BY <4>1, <4>3 DEF ScopesInv
        <5>2. allScopes[i].parent + 1 \in 1 .. m
          BY <4>1, <5>1
        <5> QED
          BY <4>1, <4>3, <5>1, <5>2, <1>6
      <4> QED
        BY <4>2, <4>3
    <3> QED
      BY <3>1, <3>2
  <2> QED
    BY <2>1, <2>2, <2>3 DEF ScopesInv
<1>8. SymbolsInv'
  <2>1. ASSUME NEW k \in DOMAIN symbols
        PROVE  /\ symbols[k].scope < Len(allScopes')
               /\ allScopes'[symbols[k].scope + 1].depth = symbols[k].depth
               /\ symbols[k].at \in DOMAIN program'
               /\ program'[symbols[k].at].kind = "decl"
               /\ program'[symbols[k].at].name = symbols[k].name
               /\ program'[symbols[k].at].type = symbols[k].type
    BY <1>1, <1>6, EntryStays
  <2>2. ASSUME NEW k \in DOMAIN symbols, NEW i \in DOMAIN scopes', symbols[k].scope = scopes'[i].id
        PROVE  symbols[k].name \in scopes'[i].names
    <3>1. symbols[k].scope < m /\ symbols[k].scope \in Nat
      BY DEF SymbolsInv
    <3>2. i \in 1 .. n /\ scopes'[i] = scopes[i]
      BY <2>2, <3>1, <1>1, <1>5
    <3> QED
      BY <2>2, <3>2 DEF SymbolsInv
  <2> QED
    BY <2>1, <2>2 DEF SymbolsInv
<1> QED
  BY <1>5, <1>6, <1>7, <1>8

\* A visit that leaves the scopes alone.
LEMMA StayKeeps ==
    ASSUME TypeOK, ScopesInv, SymbolsInv, pass = "scope", pass' = "scope", Longer,
           scopes # << >>, UNCHANGED scopeVars
    PROVE  ScopesInv' /\ SymbolsInv'
<1> USE TypedParts DEF scopeVars
<1>1. ScopesInv'
  BY DEF ScopesInv, Longer
<1>2. SymbolsInv'
  <2>1. \A k \in DOMAIN symbols :
          /\ symbols[k].scope < Len(allScopes')
          /\ allScopes'[symbols[k].scope + 1].depth = symbols[k].depth
          /\ symbols[k].at \in DOMAIN program'
          /\ program'[symbols[k].at].kind = "decl"
          /\ program'[symbols[k].at].name = symbols[k].name
          /\ program'[symbols[k].at].type = symbols[k].type
    BY EntryStays
  <2> QED
    BY <2>1 DEF SymbolsInv
<1> QED
  BY <1>1, <1>2

\* The key of a new symbol is new: its name was not in the block, and only an
\* open block has the id of the block.
LEMMA DeclareKeeps ==
    ASSUME TypeOK, ScopesInv, SymbolsInv, pass = "scope", pass' = "scope", Longer,
           scopes # << >>, NEW n \in Names, NEW t \in Types, n \notin Top(scopes).names,
           program'[Len(program) + 1] = [kind |-> "decl", name |-> n, type |-> t],
           scopes' = SetTop(scopes, [Top(scopes) EXCEPT !.names = @ \cup {n}]),
           symbols' = Append(symbols, [name |-> n, type |-> t, scope |-> Top(scopes).id,
                                       depth |-> Len(scopes) - 1, at |-> Len(program) + 1]),
           allScopes' = allScopes
    PROVE  /\ scopes' \in Seq(ScopeFrame) /\ symbols' \in Seq(Symbol)
           /\ ScopesInv' /\ SymbolsInv'
<1> DEFINE top == Top(scopes)
           d == Len(scopes)
           new == [top EXCEPT !.names = @ \cup {n}]
           sym == [name |-> n, type |-> t, scope |-> top.id, depth |-> d - 1, at |-> Len(program) + 1]
           k1 == Len(symbols) + 1
<1> USE TypedParts
<1>1. d \in 1 .. d /\ top = scopes[d] /\ top \in ScopeFrame /\ d \in Nat
  BY Topping DEF Top
<1>2. /\ top.id \in Nat /\ top.id < Len(allScopes) /\ allScopes[top.id + 1].depth = d - 1
      /\ top.names \subseteq Names
  BY <1>1 DEF ScopesInv
<1>3. new \in ScopeFrame /\ new.id = top.id /\ new.names = top.names \cup {n}
  <2>1. top \in ScopeFrame
    BY <1>1
  <2> QED
    BY <2>1 DEF ScopeFrame
<1>4. sym \in Symbol
  BY <1>1, <1>2 DEF Symbol
<1>5. /\ scopes' \in Seq(ScopeFrame) /\ Len(scopes') = d /\ DOMAIN scopes' = 1 .. d
      /\ \A i \in 1 .. d - 1 : scopes'[i] = scopes[i]
      /\ scopes'[d] = new
  <2>1. scopes' = SetTop(scopes, new)
    OBVIOUS
  <2>2. scopes \in Seq(ScopeFrame) /\ scopes # << >> /\ new \in ScopeFrame
    BY <1>3
  <2> HIDE DEF new
  <2>3. /\ SetTop(scopes, new) \in Seq(ScopeFrame) /\ Len(SetTop(scopes, new)) = Len(scopes)
        /\ DOMAIN SetTop(scopes, new) = 1 .. Len(scopes)
        /\ \A i \in 1 .. Len(scopes) - 1 : SetTop(scopes, new)[i] = scopes[i]
        /\ SetTop(scopes, new)[Len(scopes)] = new
    BY ONLY <2>2 DEF SetTop
  <2> QED
    BY ONLY <2>1, <2>3, Zenon
<1>6. /\ symbols' \in Seq(Symbol) /\ Len(symbols') = k1 /\ DOMAIN symbols' = 1 .. k1
      /\ \A k \in 1 .. Len(symbols) : symbols'[k] = symbols[k]
      /\ symbols'[k1] = sym
  <2>1. symbols' = Append(symbols, sym)
    OBVIOUS
  <2> HIDE DEF sym
  <2> QED
    BY <2>1, <1>4, Pushing
<1>7. \A i \in 1 .. d : scopes'[i].id = scopes[i].id
  <2> TAKE i \in 1 .. d
  <2>1. CASE i = d
    BY <2>1, <1>1, <1>3, <1>5
  <2>2. CASE i # d
    <3>1. i \in 1 .. d - 1
      BY <2>2, <1>1
    <3> HIDE DEF new, d
    <3> QED
      BY <3>1, <1>5
  <2> QED
    BY <2>1, <2>2
<1>8. ScopesInv'
  <2>1. program' # << >> /\ scopes' # << >> /\ pass' = "scope"
    BY <1>1, <1>5, Emptiness DEF Longer
  <2>2. \A i \in DOMAIN scopes' :
           scopes'[i].id < Len(allScopes) /\ allScopes[scopes'[i].id + 1].depth = i - 1
    BY <1>5, <1>7 DEF ScopesInv
  <2> QED
    BY <2>1, <2>2 DEF ScopesInv
<1>9. SymbolsInv'
  <2>1. ASSUME NEW k \in DOMAIN symbols'
        PROVE  /\ symbols'[k].scope < Len(allScopes)
               /\ allScopes[symbols'[k].scope + 1].depth = symbols'[k].depth
               /\ symbols'[k].at \in DOMAIN program'
               /\ program'[symbols'[k].at].kind = "decl"
               /\ program'[symbols'[k].at].name = symbols'[k].name
               /\ program'[symbols'[k].at].type = symbols'[k].type
    <3>1. CASE k = k1
      <4>1. Len(program) + 1 \in DOMAIN program'
        BY DEF Longer
      <4> QED
        BY <3>1, <4>1, <1>2, <1>6
    <3>2. CASE k # k1
      <4>1. k \in DOMAIN symbols /\ symbols'[k] = symbols[k]
        BY <3>2, <1>6
      <4> QED
        BY <4>1, EntryStays
    <3> QED
      BY <3>1, <3>2
  <2>2. ASSUME NEW k \in DOMAIN symbols', NEW i \in DOMAIN scopes',
               symbols'[k].scope = scopes'[i].id
        PROVE  symbols'[k].name \in scopes'[i].names
    <3>1. i \in 1 .. d /\ scopes'[i].id = scopes[i].id
      BY <1>5, <1>7
    <3>2. CASE k = k1
      <4>1. scopes[i].id = scopes[d].id
        BY <2>2, <3>1, <3>2, <1>1, <1>6
      <4>2. i - 1 = d - 1
        BY <3>1, <4>1, <1>1 DEF ScopesInv
      <4>3. i = d /\ scopes'[i] = new /\ n \in new.names
        BY <3>1, <4>2, <1>1, <1>3, <1>5
      <4>4. symbols'[k].name = n
        BY <3>2, <1>6
      <4> QED
        BY <4>3, <4>4
    <3>3. CASE k # k1
      <4>1. k \in DOMAIN symbols /\ symbols'[k] = symbols[k]
        BY <3>3, <1>6
      <4>2. symbols[k].name \in scopes[i].names
        BY <2>2, <3>1, <4>1 DEF SymbolsInv
      <4>3. scopes[i].names \subseteq scopes'[i].names
        <5>1. CASE i = d
          BY <5>1, <1>1, <1>3, <1>5
        <5>2. CASE i # d
          <6>1. i \in 1 .. d - 1
            BY <5>2, <3>1, <1>1
          <6> HIDE DEF new, d
          <6> QED
            BY <6>1, <1>5
        <5> QED
          BY <5>1, <5>2
      <4> QED
        BY <4>1, <4>2, <4>3
    <3> QED
      BY <3>2, <3>3
  <2>3. ASSUME NEW k \in DOMAIN symbols, symbols[k].name = n, symbols[k].scope = top.id
        PROVE  FALSE
    BY <2>3, <1>1 DEF SymbolsInv
  <2>4. ASSUME NEW k \in DOMAIN symbols', NEW l \in DOMAIN symbols',
               symbols'[k].name = symbols'[l].name, symbols'[k].scope = symbols'[l].scope
        PROVE  k = l
    <3>1. CASE k # k1 /\ l # k1
      <4>1. k \in DOMAIN symbols /\ l \in DOMAIN symbols
            /\ symbols'[k] = symbols[k] /\ symbols'[l] = symbols[l]
        BY <3>1, <1>6
      <4> QED
        BY <2>4, <4>1 DEF SymbolsInv
    <3>2. CASE k = k1 /\ l # k1
      BY <2>3, <2>4, <3>2, <1>6
    <3>3. CASE k # k1 /\ l = k1
      BY <2>3, <2>4, <3>3, <1>6
    <3> QED
      BY <3>1, <3>2, <3>3
  <2> QED
    BY <2>1, <2>2, <2>4 DEF SymbolsInv
<1> QED
  BY <1>5, <1>6, <1>8, <1>9

LEMMA LeaveKeeps ==
    ASSUME TypeOK, ScopesInv, SymbolsInv, pass = "scope", Longer, scopes # << >>,
           scopes' = Pop(scopes), UNCHANGED << symbols, allScopes >>,
           pass' = "scope" <=> Len(scopes) > 1
    PROVE  scopes' \in Seq(ScopeFrame) /\ ScopesInv' /\ SymbolsInv'
<1> USE TypedParts
<1>1. /\ scopes' \in Seq(ScopeFrame) /\ Len(scopes') = Len(scopes) - 1
      /\ DOMAIN scopes' = 1 .. Len(scopes) - 1
      /\ \A i \in 1 .. Len(scopes) - 1 : scopes'[i] = scopes[i]
  BY Popping
<1>2. scopes' = << >> <=> Len(scopes) = 1
  BY <1>1, SameLength, Emptiness
<1>3. pass' = "scope" <=> scopes' # << >>
  <2>1. Len(scopes) \in Nat
    OBVIOUS
  <2>2. Len(scopes) # 0
    BY SameLength
  <2>3. CASE Len(scopes) = 1
    BY <2>3, <1>2
  <2>4. CASE Len(scopes) # 1
    <3>1. Len(scopes) > 1
      BY <2>1, <2>2, <2>4
    <3> QED
      BY <3>1, <2>4, <1>2
  <2> QED
    BY <2>3, <2>4
<1>4. \A i \in DOMAIN scopes' : i \in DOMAIN scopes /\ scopes'[i] = scopes[i]
  BY <1>1
<1>5. ScopesInv'
  BY <1>3, <1>4 DEF ScopesInv, Longer
<1>6. SymbolsInv'
  <2>1. \A k \in DOMAIN symbols :
          /\ symbols[k].scope < Len(allScopes')
          /\ allScopes'[symbols[k].scope + 1].depth = symbols[k].depth
          /\ symbols[k].at \in DOMAIN program'
          /\ program'[symbols[k].at].kind = "decl"
          /\ program'[symbols[k].at].name = symbols[k].name
          /\ program'[symbols[k].at].type = symbols[k].type
    BY EntryStays
  <2>2. \A k \in DOMAIN symbols : \A i \in DOMAIN scopes' :
          symbols[k].scope = scopes'[i].id => symbols[k].name \in scopes'[i].names
    BY <1>4 DEF SymbolsInv
  <2> QED
    BY <2>1, <2>2 DEF SymbolsInv
<1> QED
  BY <1>1, <1>5, <1>6

LEMMA TypeOKIs ==
    TypeOK <=> /\ TypedAround /\ scopes \in Seq(ScopeFrame) /\ symbols \in Seq(Symbol)
               /\ allScopes \in Seq(ScopeEntry)
BY DEF TypeOK, TypedAround, ScopeFrame, ScopeEntry

LEMMA ReachGrows ==
    ASSUME TypeOK, NEW v \in Visit, NEW r \in Note, NEW k \in Nat, Reach(v, r, k)
    PROVE  Longer
<1>1. /\ Len(program') = Len(program) + 1
      /\ \A i \in 1 .. Len(program) : program'[i] = program[i]
  BY ReachTypes
<1>2. program' \in Seq(Visit') /\ Len(program) \in Nat
  BY ReachTypes, TypedParts DEF TypedAround
<1>3. program' # << >> /\ DOMAIN program' = 1 .. Len(program')
  BY <1>1, <1>2, Emptiness
<1> QED
  BY <1>1, <1>3 DEF Longer

LEMMA UndeclaredType ==
    ASSUME NEW e \in Expr
    PROVE  Undeclared(e) \in Nat
           /\ (Undeclared(e) = 0 =>
                 \A k \in DOMAIN e.args : e.args[k] \in Names => ScopeOf(e.args[k]) # None)
<1> DEFINE P == {i \in DOMAIN e.args : e.args[i] \in Names /\ ScopeOf(e.args[i]) = None}
<1>1. P \in SUBSET DOMAIN e.args
  OBVIOUS
<1>2. Cardinality(P) \in Nat /\ (Cardinality(P) = 0 <=> P = {})
  <2> HIDE DEF P
  <2> QED
    BY <1>1, Countable
<1> QED
  BY <1>2, Zenon DEF Undeclared

\* The end of a block lengthens the program as the other visits do.
LEMMA LeaveTypes ==
    ASSUME TypeOK, ScopeLeave
    PROVE  /\ TypedAround' /\ Longer
           /\ program'[Len(program) + 1] = [kind |-> "close"]
           /\ resolved'[Len(program) + 1] = NoNotes
           /\ \A i \in 1 .. Len(program) : resolved'[i] = resolved[i]
<1> USE DEF ScopeLeave
<1>1. Visit' = Visit
  BY DEF Visit
<1>2. words \in Vocabularies
  BY DEF TypeOK
<1>3. program' \in Seq(Visit)' /\ Len(program') = Len(program) + 1 /\ program' # << >>
      /\ DOMAIN program' = 1 .. Len(program) + 1
      /\ program'[Len(program) + 1] = [kind |-> "close"]
      /\ \A i \in 1 .. Len(program) : program'[i] = program[i]
  <2>1. program \in Seq(Visit) /\ [kind |-> "close"] \in Visit
    BY <1>2, ReachedVisits DEF TypeOK
  <2> QED
    BY <1>1, <2>1, Pushing
<1>4. resolved' \in Seq(Note) /\ Len(resolved') = Len(program) + 1
      /\ resolved'[Len(program) + 1] = NoNotes
      /\ \A i \in 1 .. Len(program) : resolved'[i] = resolved[i]
  <2>1. resolved \in Seq(Note) /\ Len(resolved) = Len(program) /\ NoNotes \in Note
    BY TypedParts, NoteType
  <2> QED
    BY <2>1, Pushing
<1>5. cursor' \in 0 .. Len(program')
  <2>1. cursor \in 0 .. Len(program) /\ cursor' = cursor /\ Len(program) \in Nat
    BY DEF TypeOK
  <2> QED
    BY <1>3, <2>1
<1>6. pass' \in {"scope", "type", "usage", "done"} /\ types' = << >> /\ usages' = << >>
  BY DEF TypeOK
<1>7. TypedAround'
  BY <1>3, <1>4, <1>5, <1>6, Emptiness DEF TypedAround, TypeOK
<1> QED
  BY <1>3, <1>4, <1>7 DEF Longer

LEMMA ScopePassKeeps ==
    ASSUME TypeOK, ScopesInv, SymbolsInv, ScopePass
    PROVE  TypeOK' /\ ScopesInv' /\ SymbolsInv'
<1> USE TypedParts
<1>1. words \in Vocabularies
  BY DEF TypeOK
<1>2. NoNotes \in Note /\ 0 \in Nat /\ 1 \in Nat
  BY NoteType
<1>3. SUFFICES /\ TypedAround' /\ scopes' \in Seq(ScopeFrame) /\ symbols' \in Seq(Symbol)
               /\ allScopes' \in Seq(ScopeEntry) /\ ScopesInv' /\ SymbolsInv'
  BY DEF TypeOK, TypedAround, ScopeFrame, ScopeEntry
<1>4. CASE ScopeBlock
  <2>1. Reach([kind |-> "open"], NoNotes, 0) /\ PushScope /\ UNCHANGED symbols
    BY <1>4 DEF ScopeBlock
  <2>2. TypedAround' /\ Longer /\ pass = "scope" /\ pass' = "scope"
    BY <2>1, <1>1, <1>2, ReachedVisits, ReachTypes, ReachGrows
  <2> QED
    BY <2>1, <2>2, PushKeeps
<1>5. ASSUME NEW e \in words.conditions, ScopeGuard(e)
      PROVE  /\ TypedAround' /\ scopes' \in Seq(ScopeFrame) /\ symbols' \in Seq(Symbol)
             /\ allScopes' \in Seq(ScopeEntry) /\ ScopesInv' /\ SymbolsInv'
  <2>1. /\ Reach([kind |-> "guard", expr |-> e], [lhs |-> None, args |-> Annotate(e)], Undeclared(e))
        /\ PushScope /\ UNCHANGED symbols
    BY <1>5 DEF ScopeGuard
  <2>2. e \in Expr
    BY <1>1, WordsType
  <2>3. /\ [kind |-> "guard", expr |-> e] \in Visit
        /\ [lhs |-> None, args |-> Annotate(e)] \in Note /\ Undeclared(e) \in Nat
    BY <1>1, <2>2, ReachedVisits, NoteType, UndeclaredType
  <2>4. TypedAround' /\ Longer /\ pass = "scope" /\ pass' = "scope"
    BY <2>1, <2>3, ReachTypes, ReachGrows
  <2> QED
    BY <2>1, <2>4, PushKeeps
<1>6. ASSUME NEW n \in words.names, NEW t \in words.types, ScopeDeclare(n, t)
      PROVE  /\ TypedAround' /\ scopes' \in Seq(ScopeFrame) /\ symbols' \in Seq(Symbol)
             /\ allScopes' \in Seq(ScopeEntry) /\ ScopesInv' /\ SymbolsInv'
  <2> DEFINE v == [kind |-> "decl", name |-> n, type |-> t]
  <2>1. v \in Visit /\ n \in Names /\ t \in Types
    BY <1>1, WordsType, ReachedVisits
  <2>2. CASE n \in Top(scopes).names
    <3>1. Reach(v, NoNotes, 1) /\ UNCHANGED scopeVars /\ scopes # << >>
      BY <1>6, <2>2 DEF ScopeDeclare, scopeVars
    <3>2. TypedAround' /\ Longer /\ pass = "scope" /\ pass' = "scope"
      <4> HIDE DEF v
      <4> QED
        BY <3>1, <2>1, <1>2, ReachTypes, ReachGrows
    <3> QED
      BY <3>1, <3>2, StayKeeps DEF scopeVars
  <2>3. CASE n \notin Top(scopes).names
    <3>1. /\ Reach(v, NoNotes, 0) /\ scopes # << >>
          /\ scopes' = SetTop(scopes, [Top(scopes) EXCEPT !.names = @ \cup {n}])
          /\ symbols' = Append(symbols, [name |-> n, type |-> t, scope |-> Top(scopes).id,
                                         depth |-> Len(scopes) - 1, at |-> Len(program) + 1])
          /\ allScopes' = allScopes
      BY <1>6, <2>3 DEF ScopeDeclare
    <3>2. /\ TypedAround' /\ Longer /\ pass = "scope" /\ pass' = "scope"
          /\ program'[Len(program) + 1] = v
      <4> HIDE DEF v
      <4> QED
        BY <3>1, <2>1, <1>2, ReachTypes, ReachGrows
    <3>3. /\ scopes' \in Seq(ScopeFrame) /\ symbols' \in Seq(Symbol)
          /\ ScopesInv' /\ SymbolsInv'
      BY <2>1, <2>3, <3>1, <3>2, DeclareKeeps
    <3> QED
      BY <3>1, <3>2, <3>3
  <2> QED
    BY <2>2, <2>3
<1>7. ASSUME NEW n \in words.names, NEW e \in words.exprs, ScopeAssign(n, e)
      PROVE  /\ TypedAround' /\ scopes' \in Seq(ScopeFrame) /\ symbols' \in Seq(Symbol)
             /\ allScopes' \in Seq(ScopeEntry) /\ ScopesInv' /\ SymbolsInv'
  <2> DEFINE k == Undeclared(e) + IF ScopeOf(n) = None THEN 1 ELSE 0
             r == [lhs |-> ScopeOf(n), args |-> Annotate(e)]
             v == [kind |-> "assign", name |-> n, expr |-> e]
  <2>1. Reach(v, r, k) /\ UNCHANGED scopeVars /\ scopes # << >>
    BY <1>7 DEF ScopeAssign
  <2>2. v \in Visit /\ n \in Names /\ e \in Expr
    BY <1>1, WordsType, ReachedVisits
  <2>3. r \in Note /\ k \in Nat
    <3>1. r \in Note
      BY <2>2, NoteType
    <3>2. Undeclared(e) \in Nat
      BY <2>2, UndeclaredType
    <3> QED
      BY <3>1, <3>2
  <2>4. TypedAround' /\ Longer /\ pass = "scope" /\ pass' = "scope"
    <3> HIDE DEF v, r, k
    <3> QED
      BY <2>1, <2>2, <2>3, ReachTypes, ReachGrows
  <2> QED
    BY <2>1, <2>4, StayKeeps DEF scopeVars
<1>8. ASSUME NEW e \in words.exprs, ScopePrint(e)
      PROVE  /\ TypedAround' /\ scopes' \in Seq(ScopeFrame) /\ symbols' \in Seq(Symbol)
             /\ allScopes' \in Seq(ScopeEntry) /\ ScopesInv' /\ SymbolsInv'
  <2>1. /\ Reach([kind |-> "print", expr |-> e], [lhs |-> None, args |-> Annotate(e)], Undeclared(e))
        /\ UNCHANGED scopeVars /\ scopes # << >>
    BY <1>8 DEF ScopePrint
  <2>2. e \in Expr
    BY <1>1, WordsType
  <2>3. /\ [kind |-> "print", expr |-> e] \in Visit
        /\ [lhs |-> None, args |-> Annotate(e)] \in Note /\ Undeclared(e) \in Nat
    BY <1>1, <2>2, ReachedVisits, NoteType, UndeclaredType
  <2>4. TypedAround' /\ Longer /\ pass = "scope" /\ pass' = "scope"
    BY <2>1, <2>3, ReachTypes, ReachGrows
  <2> QED
    BY <2>1, <2>4, StayKeeps DEF scopeVars
<1>9. CASE ScopeLeave
  <2>1. TypedAround' /\ Longer
    BY <1>9, LeaveTypes
  <2>2. /\ pass = "scope" /\ scopes # << >> /\ scopes' = Pop(scopes)
        /\ UNCHANGED << symbols, allScopes >>
        /\ pass' = IF Len(scopes) > 1 THEN "scope" ELSE IF errors.scope = 0 THEN "type" ELSE "done"
    BY <1>9 DEF ScopeLeave
  <2>3. pass' = "scope" <=> Len(scopes) > 1
    <3>1. CASE Len(scopes) > 1
      BY <2>2, <3>1
    <3>2. CASE ~(Len(scopes) > 1)
      BY <2>2, <3>2
    <3> QED
      BY <3>1, <3>2
  <2>4. scopes' \in Seq(ScopeFrame) /\ ScopesInv' /\ SymbolsInv'
    BY <2>1, <2>2, <2>3, LeaveKeeps
  <2> QED
    BY <2>1, <2>2, <2>4
<1> QED
  BY <1>4, <1>5, <1>6, <1>7, <1>8, <1>9 DEF ScopePass

-----------------------------------------------------------------------------
(***************************************************************************)
(* The history, scope pass.                                                *)
(***************************************************************************)
LEMMA StackParts ==
    ASSUME NEW s \in Stack
    PROVE  /\ Len(s) \in Nat /\ DOMAIN s = 1 .. Len(s)
           /\ \A f \in 1 .. Len(s) :
                 /\ s[f] \in Frame /\ s[f].id \in Nat /\ s[f].binds \in [Names -> Nat]
                 /\ \A n \in Names : s[f].binds[n] \in Nat
           /\ \A n : Bound(s, n) \subseteq 1 .. Len(s)
<1>1. Len(s) \in Nat /\ DOMAIN s = 1 .. Len(s) /\ \A f \in 1 .. Len(s) : s[f] \in Frame
  BY DEF Stack
<1> QED
  BY <1>1 DEF Frame, Bound

\* A name is bound to what its innermost frame says.
LEMMA IdInIs ==
    ASSUME NEW s \in Stack, NEW n \in Names, Bound(s, n) # {}
    PROVE  /\ Innermost(Bound(s, n)) \in 1 .. Len(s) /\ Innermost(Bound(s, n)) \in Bound(s, n)
           /\ IdIn(s, n) = s[Innermost(Bound(s, n))].id /\ IdIn(s, n) \in Nat /\ IdIn(s, n) # None
           /\ s[Innermost(Bound(s, n))].binds[n] # 0
<1>1. Len(s) \in Nat /\ Bound(s, n) \subseteq 1 .. Len(s)
  BY StackParts
<1>2. Innermost(Bound(s, n)) \in Bound(s, n)
  BY <1>1, InnermostIsOne
<1>3. IdIn(s, n) = s[Innermost(Bound(s, n))].id
  BY DEF IdIn
<1>4. Innermost(Bound(s, n)) \in 1 .. Len(s)
  BY <1>1, <1>2
<1>5. s[Innermost(Bound(s, n))].id \in Nat
  BY <1>4, StackParts
<1>6. \A f \in Bound(s, n) : s[f].binds[n] # 0
  BY DEF Bound
<1> QED
  BY <1>2, <1>3, <1>4, <1>5, <1>6, SemanticsAssumption

\* The lookup of the scope pass is the one of the history.
LEMMA ScopeOfIs ==
    ASSUME NEW s \in Stack, SameScopes(s), scopes \in Seq(ScopeFrame), NEW n \in Names
    PROVE  ScopeOf(n) = IdIn(s, n) /\ (ScopeOf(n) = None <=> Bound(s, n) = {})
<1>1. DOMAIN scopes = 1 .. Len(s) /\ DOMAIN s = 1 .. Len(s)
  BY StackParts DEF SameScopes
<1>2. \A f \in 1 .. Len(s) : scopes[f].id = s[f].id /\ (n \in scopes[f].names <=> s[f].binds[n] # 0)
  BY <1>1 DEF SameScopes
<1>3. {i \in DOMAIN scopes : n \in scopes[i].names} = Bound(s, n)
  BY <1>1, <1>2 DEF Bound
<1>4. CASE Bound(s, n) = {}
  BY <1>3, <1>4 DEF ScopeOf, IdIn
<1>5. CASE Bound(s, n) # {}
  <2>1. ScopeOf(n) = scopes[Innermost(Bound(s, n))].id
    BY <1>3, <1>5, Zenon DEF ScopeOf
  <2>2. Innermost(Bound(s, n)) \in 1 .. Len(s) /\ IdIn(s, n) = s[Innermost(Bound(s, n))].id
        /\ IdIn(s, n) # None
    BY <1>5, IdInIs
  <2> QED
    BY <2>1, <2>2, <1>2, <1>5
<1> QED
  BY <1>4, <1>5

LEMMA HistoryParts ==
    ASSUME TypeOK, NEW H, History(H)
    PROVE  /\ H \in Seq(Stack) /\ Len(H) = Len(program) + 1 /\ H[1] = << >>
           /\ DOMAIN H = 1 .. Len(program) + 1
           /\ \A i \in 1 .. Len(program) + 1 : H[i] \in Stack /\ Recorded(H[i])
<1>1. H \in Seq(Stack) /\ Len(H) = Len(program) + 1 /\ H[1] = << >>
  BY DEF History
<1>2. DOMAIN H = 1 .. Len(program) + 1 /\ \A i \in 1 .. Len(program) + 1 : H[i] \in Stack
  BY <1>1
<1> QED
  BY <1>1, <1>2 DEF History

\* The symbol table only grows.
SymbolsGrow == \A k \in DOMAIN symbols : k \in DOMAIN symbols' /\ symbols'[k] = symbols[k]

LEMMA HistoryGrows ==
    ASSUME TypeOK, Longer, SymbolsGrow, NEW H, History(H), NEW t \in Stack,
           NEW n, n = Len(program) + 1, n # 1 => H[n] # << >>,
           \A i \in 1 .. Len(program) : resolved'[i] = resolved[i],
           errors'.scope = 0 => errors.scope = 0,
           Follows(H[n], n, t)', Annotated(H[n], n)',
           errors'.scope = 0 => Clean(H[n], n)',
           Recorded(t)'
    PROVE  History(Append(H, t))' /\ Append(H, t)[n + 1] = t
<1> DEFINE G == Append(H, t)
<1>1. /\ H \in Seq(Stack) /\ Len(H) = n /\ H[1] = << >> /\ n \in Nat /\ n >= 1
      /\ Len(program) \in Nat /\ Len(program') = n /\ Len(program) = n - 1
  BY HistoryParts, TypedParts DEF Longer
<1>2. /\ G \in Seq(Stack) /\ Len(G) = n + 1
      /\ \A i \in 1 .. n : G[i] = H[i]
      /\ G[n + 1] = t
  BY <1>1, Pushing
<1> HIDE DEF G
<1>3. ASSUME NEW i \in 1 .. n
      PROVE  /\ Follows(G[i], i, G[i + 1])' /\ Annotated(G[i], i)'
             /\ errors'.scope = 0 => Clean(G[i], i)'
  <2>1. CASE i = n
    <3>1. G[i] = H[n] /\ G[i + 1] = t
      BY <2>1, <1>1, <1>2
    <3> QED
      BY <2>1, <3>1
  <2>2. CASE i # n
    <3>1. i \in 1 .. Len(program) /\ i + 1 \in 1 .. n
      BY <2>2, <1>1
    <3>2. G[i] = H[i] /\ G[i + 1] = H[i + 1]
      BY <3>1, <1>1, <1>2
    <3>3. program'[i] = program[i] /\ resolved'[i] = resolved[i]
      BY <3>1 DEF Longer
    <3>4. /\ Follows(H[i], i, H[i + 1]) /\ Annotated(H[i], i)
          /\ errors.scope = 0 => Clean(H[i], i)
      BY <3>1 DEF History
    <3>5. Follows(H[i], i, H[i + 1])'
      BY <3>3, <3>4 DEF Follows
    <3>6. Annotated(H[i], i)'
      BY <3>3, <3>4 DEF Annotated, HasExpr
    <3>7. errors'.scope = 0 => Clean(H[i], i)'
      BY <3>3, <3>4 DEF Clean, HasExpr
    <3> QED
      BY <3>2, <3>5, <3>6, <3>7
  <2> QED
    BY <2>1, <2>2
<1>4. ASSUME NEW i \in 1 .. n + 1
      PROVE  Recorded(G[i])'
  <2>1. CASE i = n + 1
    BY <2>1, <1>2
  <2>2. CASE i # n + 1
    <3>1. i \in 1 .. Len(program) + 1 /\ i \in 1 .. n
      BY <2>2, <1>1
    <3>2. Recorded(H[i]) /\ G[i] = H[i]
      BY <3>1, <1>2, HistoryParts
    <3>3. Recorded(H[i])'
      BY <3>2 DEF Recorded, SymbolsGrow
    <3> QED
      BY <3>2, <3>3
  <2> QED
    BY <2>1, <2>2
<1>5. ASSUME NEW i \in 2 .. n
      PROVE  G[i] # << >>
  <2>1. CASE i = n
    BY <2>1, <1>1, <1>2
  <2>2. CASE i # n
    <3>1. i \in 2 .. Len(program) /\ i \in 1 .. n
      BY <2>2, <1>1
    <3> QED
      BY <3>1, <1>2 DEF History
  <2> QED
    BY <2>1, <2>2
<1>6. G[1] = << >>
  BY <1>1, <1>2
<1>7. History(G)'
  BY <1>1, <1>2, <1>3, <1>4, <1>5, <1>6 DEF History
<1> QED
  BY <1>2, <1>7 DEF G

\* The scope pass is at the end of the history.
LEMMA ScopesNow ==
    ASSUME SemanticsInv, pass = "scope", NEW H, History(H), InStep(H), NEW n, n = Len(program) + 1
    PROVE  /\ n \in Nat /\ n >= 1 /\ H[n] \in Stack /\ Recorded(H[n]) /\ SameScopes(H[n])
           /\ DOMAIN H[n] = 1 .. Len(scopes) /\ Len(H[n]) = Len(scopes)
           /\ H[n] = << >> <=> scopes = << >>
           /\ n # 1 => H[n] # << >>
<1> USE DEF SemanticsInv
<1>1. n \in Nat /\ n >= 1 /\ H[n] \in Stack /\ Recorded(H[n])
  BY TypedParts, HistoryParts
<1>2. SameScopes(H[n])
  BY DEF InStep
<1>3. Len(H[n]) = Len(scopes) /\ DOMAIN H[n] = 1 .. Len(scopes)
  BY <1>1, <1>2, StackParts DEF SameScopes
<1>4. H[n] = << >> <=> scopes = << >>
  BY <1>1, <1>3, TypedParts, SameLength, Emptiness DEF Stack
<1>5. ASSUME n # 1 PROVE H[n] # << >>
  <2>1. program # << >>
    BY <1>5, Emptiness
  <2> QED
    BY <2>1, <1>4 DEF ScopesInv
<1> QED
  BY <1>1, <1>2, <1>3, <1>4, <1>5

LEMMA ReachHistory ==
    ASSUME SemanticsInv, NEW H, History(H), InStep(H), NEW n, n = Len(program) + 1,
           NEW v \in Visit, NEW r \in Note, NEW k \in Nat, Reach(v, r, k), SymbolsGrow,
           NEW t \in Stack, Follows(H[n], n, t)', Annotated(H[n], n)',
           k = 0 => Clean(H[n], n)', Recorded(t)', SameScopes(t)'
    PROVE  HistoryInv' /\ ErrorsInv'
<1> USE DEF SemanticsInv
<1>1. /\ pass = "scope" /\ pass' = "scope" /\ Longer
      /\ \A i \in 1 .. Len(program) : resolved'[i] = resolved[i]
      /\ errors'.scope = errors.scope + k /\ errors.scope \in Nat
      /\ errors'.type = errors.type /\ errors'.internal = errors.internal /\ cursor' = cursor
  BY ReachTypes, ReachGrows DEF Reach, TypeOK
<1>2. n # 1 => H[n] # << >>
  BY <1>1, ScopesNow
<1>3. errors'.scope = 0 => errors.scope = 0 /\ k = 0
  BY <1>1
<1>4. History(Append(H, t))' /\ Append(H, t)[n + 1] = t
  <2>1. errors'.scope = 0 => errors.scope = 0
    BY <1>3
  <2>2. errors'.scope = 0 => Clean(H[n], n)'
    BY <1>3
  <2>3. TypeOK
    OBVIOUS
  <2> QED
    <3>1. Longer /\ SymbolsGrow /\ History(H) /\ t \in Stack /\ n = Len(program) + 1
      BY <1>1
    <3>2. \A i \in 1 .. Len(program) : resolved'[i] = resolved[i]
      BY <1>1
    <3>3. Follows(H[n], n, t)' /\ Annotated(H[n], n)' /\ Recorded(t)'
      OBVIOUS
    <3> QED
      BY ONLY <1>2, <2>1, <2>2, <2>3, <3>1, <3>2, <3>3, HistoryGrows
<1>5. InStep(Append(H, t))'
  BY <1>1, <1>4 DEF InStep, Longer
<1>6. ErrorsInv'
  BY <1>1 DEF ErrorsInv
<1> QED
  BY <1>4, <1>5, <1>6 DEF HistoryInv

\* The annotations of an expression are the history's.
LEMMA AnnotateIs ==
    ASSUME SemanticsInv, pass = "scope", NEW H, History(H), InStep(H),
           NEW n, n = Len(program) + 1, NEW e \in Expr
    PROVE  /\ \A k \in DOMAIN e.args : e.args[k] \in Names => Annotate(e)[k] = IdIn(H[n], e.args[k])
           /\ Undeclared(e) = 0 => \A m \in NamesOf(e) : Bound(H[n], m) # {}
<1>1. H[n] \in Stack /\ SameScopes(H[n]) /\ scopes \in Seq(ScopeFrame)
  BY ScopesNow, TypedParts DEF SemanticsInv
<1>2. \A m \in Names : ScopeOf(m) = IdIn(H[n], m) /\ (ScopeOf(m) = None <=> Bound(H[n], m) = {})
  BY <1>1, ScopeOfIs
<1>3. \A k \in DOMAIN e.args : e.args[k] \in Names => Annotate(e)[k] = IdIn(H[n], e.args[k])
  BY <1>2 DEF Annotate
<1>4. ASSUME Undeclared(e) = 0, NEW m \in NamesOf(e) PROVE Bound(H[n], m) # {}
  <2>1. PICK k \in DOMAIN e.args : m = e.args[k] /\ m \in Names
    BY DEF NamesOf
  <2>2. ScopeOf(m) # None
    BY <1>4, <2>1, UndeclaredType
  <2> QED
    BY <2>1, <2>2, <1>2
<1> QED
  BY <1>3, <1>4

\* A block is entered.
LEMMA PushHistory ==
    ASSUME SemanticsInv, NEW H, History(H), InStep(H), NEW n, n = Len(program) + 1,
           NEW v \in Visit, NEW r \in Note, NEW k \in Nat, Reach(v, r, k), PushScope,
           UNCHANGED symbols, v.kind \in {"open", "guard"},
           Annotated(H[n], n)', k = 0 => Clean(H[n], n)'
    PROVE  HistoryInv' /\ ErrorsInv'
<1> DEFINE s == H[n]
           frame == [id |-> Len(allScopes), binds |-> Unbound]
           t == Append(s, frame)
<1> USE DEF SemanticsInv
<1>1. pass = "scope" /\ program'[n] = v
  BY ReachTypes DEF Reach
<1>2. s \in Stack /\ Recorded(s) /\ SameScopes(s) /\ Len(s) = Len(scopes) /\ Len(scopes) \in Nat
      /\ DOMAIN s = 1 .. Len(scopes)
  BY <1>1, ScopesNow, TypedParts
<1>3. frame \in Frame /\ frame.id = Len(allScopes) /\ Len(allScopes) \in Nat
      /\ \A m \in Names : frame.binds[m] = 0
  BY TypedParts DEF Frame, Unbound
<1>4. PICK g : g = frame
  OBVIOUS
<1>5. PICK u : u = Append(s, g)
  OBVIOUS
<1>6. /\ u \in Stack /\ Len(u) = Len(s) + 1 /\ DOMAIN u = 1 .. Len(s) + 1
      /\ \A i \in 1 .. Len(s) : u[i] = s[i]
      /\ u[Len(s) + 1] = g
  <2>1. s \in Seq(Frame) /\ g \in Frame
    BY <1>2, <1>3, <1>4 DEF Stack
  <2> QED
    BY <2>1, <1>5, Pushing DEF Stack
<1> HIDE DEF frame
<1>7. Follows(H[n], n, u)'
  <2>1. \E id \in Nat : u = Append(s, [id |-> id, binds |-> Unbound])
    BY <1>3, <1>4, <1>5 DEF frame
  <2> QED
    BY <2>1, <1>1 DEF Follows
<1>8. ASSUME NEW f \in DOMAIN u, NEW m \in Names, u[f].binds[m] # 0
      PROVE  \E j \in DOMAIN symbols : symbols[j].name = m /\ symbols[j].scope = u[f].id
                                        /\ symbols[j].at = u[f].binds[m]
  <2>1. f \in DOMAIN s /\ u[f] = s[f]
    BY <1>2, <1>3, <1>4, <1>6, <1>8
  <2> QED
    BY <1>2, <1>8, <2>1 DEF Recorded
<1>9. Recorded(u)'
  BY <1>8 DEF Recorded
<1>10. SameScopes(u)'
  <2>1. /\ Len(scopes') = Len(s) + 1
        /\ \A i \in 1 .. Len(s) : scopes'[i] = scopes[i]
        /\ scopes'[Len(s) + 1].id = Len(allScopes) /\ scopes'[Len(s) + 1].names = {}
    <3>1. scopes' = Append(scopes, [id |-> Len(allScopes), names |-> {}])
      BY DEF PushScope, NextScopeId
    <3>2. [id |-> Len(allScopes), names |-> {}] \in ScopeFrame
      BY <1>3 DEF ScopeFrame
    <3> QED
      BY <3>1, <3>2, <1>2, TypedParts, Pushing
  <2>2. ASSUME NEW f \in DOMAIN u
        PROVE  scopes'[f].id = u[f].id /\ scopes'[f].names = {m \in Names : u[f].binds[m] # 0}
    <3>1. CASE f = Len(s) + 1
      BY <3>1, <2>1, <1>3, <1>4, <1>6
    <3>2. CASE f # Len(s) + 1
      <4>1. f \in 1 .. Len(s)
        BY <3>2, <1>2, <1>6
      <4>2. scopes[f].id = s[f].id /\ scopes[f].names = {m \in Names : s[f].binds[m] # 0}
        BY <4>1, <1>2 DEF SameScopes
      <4> QED
        BY <4>1, <4>2, <2>1, <1>6
    <3> QED
      BY <3>1, <3>2
  <2> QED
    BY <2>1, <2>2, <1>6 DEF SameScopes
<1>11. SymbolsGrow
  BY DEF SymbolsGrow
<1> QED
  BY <1>6, <1>7, <1>9, <1>10, <1>11, ReachHistory

\* A visit that leaves the scopes alone.
LEMMA StayHistory ==
    ASSUME SemanticsInv, NEW H, History(H), InStep(H), NEW n, n = Len(program) + 1,
           NEW v \in Visit, NEW r \in Note, NEW k \in Nat, Reach(v, r, k),
           UNCHANGED scopeVars, Follows(H[n], n, H[n])',
           Annotated(H[n], n)', k = 0 => Clean(H[n], n)'
    PROVE  HistoryInv' /\ ErrorsInv'
<1> USE DEF SemanticsInv, scopeVars
<1>1. pass = "scope"
  BY DEF Reach
<1>2. H[n] \in Stack /\ Recorded(H[n]) /\ SameScopes(H[n])
  BY <1>1, ScopesNow
<1>3. Recorded(H[n])' /\ SameScopes(H[n])' /\ SymbolsGrow
  BY <1>2 DEF Recorded, SameScopes, SymbolsGrow
<1> QED
  BY <1>2, <1>3, ReachHistory

\* A name is declared in the block at hand.
LEMMA DeclareHistory ==
    ASSUME SemanticsInv, NEW H, History(H), InStep(H), NEW n, n = Len(program) + 1,
           scopes # << >>, NEW x \in Names, NEW y \in Types, x \notin Top(scopes).names,
           NEW v \in Visit, v = [kind |-> "decl", name |-> x, type |-> y], Reach(v, NoNotes, 0),
           scopes' = SetTop(scopes, [Top(scopes) EXCEPT !.names = @ \cup {x}]),
           symbols' = Append(symbols, [name |-> x, type |-> y, scope |-> Top(scopes).id,
                                       depth |-> Len(scopes) - 1, at |-> n])
    PROVE  HistoryInv' /\ ErrorsInv'
<1> DEFINE s == H[n]
           d == Len(scopes)
<1> USE DEF SemanticsInv
<1>1. pass = "scope" /\ program'[n] = v /\ NoNotes \in Note /\ 0 \in Nat
  BY ReachTypes, NoteType, TypedParts DEF Reach
<1>2. /\ s \in Stack /\ Recorded(s) /\ SameScopes(s) /\ Len(s) = d /\ d \in Nat /\ d \in 1 .. d
      /\ DOMAIN s = 1 .. d /\ DOMAIN scopes = 1 .. d /\ n \in Nat /\ n >= 1 /\ s # << >>
  <2>1. d \in Nat /\ DOMAIN scopes = 1 .. d
    BY TypedParts
  <2>2. d # 0
    BY TypedParts, SameLength
  <2>3. d \in 1 .. d
    BY <2>1, <2>2
  <2> QED
    BY <2>1, <2>3, <1>1, ScopesNow
<1>3. /\ s[d] \in Frame /\ s[d].id = scopes[d].id /\ s[d].binds[x] = 0 /\ Top(s) = s[d]
      /\ Top(scopes) = scopes[d] /\ s[d].binds \in [Names -> Nat] /\ s[d].id \in Nat
      /\ scopes[d].names = {m \in Names : s[d].binds[m] # 0}
      /\ scopes[d] \in ScopeFrame
  <2>1. /\ s[d] \in Frame /\ s[d].id \in Nat /\ s[d].binds \in [Names -> Nat]
        /\ s[d].binds[x] \in Nat /\ scopes[d] \in ScopeFrame
    <3>1. s[d] \in Frame /\ s[d].id \in Nat /\ s[d].binds \in [Names -> Nat]
      BY <1>2, StackParts
    <3>2. scopes \in Seq(ScopeFrame)
      BY TypedParts
    <3> QED
      BY <3>1, <3>2, <1>2
  <2>2. s[d].id = scopes[d].id /\ scopes[d].names = {m \in Names : s[d].binds[m] # 0}
    BY <1>2 DEF SameScopes
  <2>3. Top(s) = s[d] /\ Top(scopes) = scopes[d]
    BY <1>2 DEF Top
  <2> QED
    BY <2>1, <2>2, <2>3
<1>4. PICK g : g = [id |-> s[d].id, binds |-> [s[d].binds EXCEPT ![x] = n]]
  OBVIOUS
<1>5. /\ g \in Frame /\ g.id = s[d].id /\ g.binds[x] = n
      /\ \A m \in Names : m # x => g.binds[m] = s[d].binds[m]
  BY <1>2, <1>3, <1>4 DEF Frame
<1>6. PICK u : u = SetTop(s, g)
  OBVIOUS
<1>7. /\ u \in Stack /\ Len(u) = d /\ DOMAIN u = 1 .. d
      /\ \A i \in 1 .. d - 1 : u[i] = s[i]
      /\ u[d] = g
  <2>1. s \in Seq(Frame) /\ g \in Frame /\ s # << >> /\ Len(s) = d
    BY <1>2, <1>5 DEF Stack
  <2> HIDE DEF s, d
  <2> QED
    BY ONLY <2>1, <1>6 DEF SetTop, Stack
<1>8. \A i \in 1 .. d : i # d => i \in 1 .. d - 1
  BY <1>2
<1>9. Follows(s, n, u)'
  <2>1. program'[n].kind = "decl" /\ program'[n].name = x
    BY <1>1
  <2>2. u = SetTop(s, [id |-> Top(s).id, binds |-> [Top(s).binds EXCEPT ![x] = n]])
    BY <1>3, <1>4, <1>6
  <2>3. Top(s).binds[x] = 0
    BY <1>3
  <2>4. s # << >>
    BY <1>2
  <2> HIDE DEF s
  <2> QED
    BY ONLY <2>1, <2>2, <2>3, <2>4 DEF Follows
<1>10. Annotated(s, n)'
  BY <1>1 DEF Annotated, HasExpr
<1>11. Clean(s, n)'
  BY <1>1, <1>3 DEF Clean, HasExpr
<1>12. /\ SymbolsGrow /\ Len(symbols) + 1 \in DOMAIN symbols'
       /\ symbols'[Len(symbols) + 1] =
             [name |-> x, type |-> y, scope |-> Top(scopes).id, depth |-> d - 1, at |-> n]
  <2>1. [name |-> x, type |-> y, scope |-> Top(scopes).id, depth |-> d - 1, at |-> n] \in Symbol
    BY <1>2, <1>3 DEF Symbol
  <2>2. symbols \in Seq(Symbol) /\ Len(symbols) \in Nat /\ DOMAIN symbols = 1 .. Len(symbols)
    BY TypedParts
  <2> QED
    BY <2>1, <2>2, Pushing DEF SymbolsGrow
<1>13. ASSUME NEW f \in DOMAIN u, NEW m \in Names, u[f].binds[m] # 0
       PROVE  \E j \in DOMAIN symbols' : symbols'[j].name = m /\ symbols'[j].scope = u[f].id
                                          /\ symbols'[j].at = u[f].binds[m]
  <2>1. CASE f = d /\ m = x
    BY <2>1, <1>3, <1>5, <1>7, <1>12
  <2>2. CASE ~(f = d /\ m = x)
    <3>1. f \in DOMAIN s /\ u[f].id = s[f].id /\ u[f].binds[m] = s[f].binds[m]
      <4>1. CASE f = d
        BY <2>2, <4>1, <1>2, <1>5, <1>7
      <4>2. CASE f # d
        BY <4>2, <1>2, <1>7, <1>8
      <4> QED
        BY <4>1, <4>2
    <3>2. PICK j \in DOMAIN symbols : symbols[j].name = m /\ symbols[j].scope = s[f].id
                                       /\ symbols[j].at = s[f].binds[m]
      BY <3>1, <1>2, <1>13 DEF Recorded
    <3> QED
      BY <3>1, <3>2, <1>12 DEF SymbolsGrow
  <2> QED
    BY <2>1, <2>2
<1>14. Recorded(u)'
  BY <1>13 DEF Recorded
<1>15. SameScopes(u)'
  <2> DEFINE top == [Top(scopes) EXCEPT !.names = @ \cup {x}]
  <2>1. top \in ScopeFrame /\ top.id = scopes[d].id /\ top.names = scopes[d].names \cup {x}
    BY <1>3 DEF ScopeFrame
  <2>2. /\ Len(scopes') = d /\ scopes'[d] = top
        /\ \A i \in 1 .. d - 1 : scopes'[i] = scopes[i]
    <3>1. scopes' = SetTop(scopes, top) /\ scopes \in Seq(ScopeFrame)
      BY TypedParts
    <3> HIDE DEF top, s
    <3> QED
      BY ONLY <2>1, <3>1, scopes # << >> DEF SetTop
  <2> HIDE DEF top
  <2>3. ASSUME NEW f \in DOMAIN u
        PROVE  scopes'[f].id = u[f].id /\ scopes'[f].names = {m \in Names : u[f].binds[m] # 0}
    <3>1. CASE f = d
      <4>1. \A m \in Names : g.binds[m] # 0 <=> m \in scopes[d].names \cup {x}
        BY <1>2, <1>3, <1>5
      <4>2. {m \in Names : g.binds[m] # 0} = scopes[d].names \cup {x}
        BY <4>1, <1>3
      <4> QED
        BY <3>1, <4>2, <2>1, <2>2, <1>3, <1>5, <1>7
    <3>2. CASE f # d
      <4>1. f \in 1 .. d - 1 /\ f \in DOMAIN s
        BY <3>2, <1>2, <1>7, <1>8
      <4>2. scopes[f].id = s[f].id /\ scopes[f].names = {m \in Names : s[f].binds[m] # 0}
        BY <4>1, <1>2 DEF SameScopes
      <4> QED
        BY <4>1, <4>2, <2>2, <1>7
    <3> QED
      BY <3>1, <3>2
  <2> QED
    BY <2>2, <2>3, <1>7 DEF SameScopes
<1> HIDE DEF s, d
<1>16. 0 = 0 => Clean(H[n], n)'
  BY <1>11 DEF s
<1>17. Follows(H[n], n, u)' /\ Annotated(H[n], n)'
  BY <1>9, <1>10 DEF s
<1> QED
  BY <1>1, <1>7, <1>12, <1>14, <1>15, <1>16, <1>17, ReachHistory

\* A block is left; when it is the root, the next pass starts from the empty stack.
LEMMA LeaveHistory ==
    ASSUME SemanticsInv, ScopeLeave, NEW H, History(H), InStep(H)
    PROVE  HistoryInv' /\ ErrorsInv'
<1> USE DEF SemanticsInv
<1>1. PICK n : n = Len(program) + 1
  OBVIOUS
<1>2. PICK s : s = H[n]
  OBVIOUS
<1>3. PICK t : t = Pop(s)
  OBVIOUS
<1>4. /\ pass = "scope" /\ scopes # << >> /\ scopes' = Pop(scopes)
      /\ pass' = IF Len(scopes) > 1 THEN "scope" ELSE IF errors.scope = 0 THEN "type" ELSE "done"
      /\ UNCHANGED << cursor, errors, symbols, types >>
  BY DEF ScopeLeave
<1>5. /\ TypedAround' /\ Longer
      /\ program'[n] = [kind |-> "close"]
      /\ \A i \in 1 .. Len(program) : resolved'[i] = resolved[i]
  BY <1>1, LeaveTypes
<1>6. /\ s \in Stack /\ Recorded(s) /\ SameScopes(s) /\ Len(s) = Len(scopes) /\ s # << >>
      /\ DOMAIN s = 1 .. Len(s) /\ n # 1 => s # << >> /\ n \in Nat /\ n >= 1
  BY <1>1, <1>2, <1>4, ScopesNow
<1>7. /\ t \in Stack /\ Len(t) = Len(s) - 1 /\ DOMAIN t = 1 .. Len(s) - 1
      /\ \A f \in 1 .. Len(s) - 1 : t[f] = s[f]
  <2>1. s \in Seq(Frame) /\ s # << >>
    BY <1>6 DEF Stack
  <2> QED
    BY ONLY <2>1, <1>3, Popping DEF Stack
<1>8. Len(s) \in Nat /\ Len(s) # 0 /\ \A f \in 1 .. Len(s) - 1 : f \in DOMAIN s
  <2>1. s \in Seq(Frame) /\ s # << >>
    BY <1>6 DEF Stack
  <2> QED
    BY ONLY <2>1
<1>9. Follows(s, n, t)' /\ Annotated(s, n)' /\ Clean(s, n)'
  BY <1>3, <1>5, <1>6 DEF Follows, Annotated, Clean, HasExpr
<1>10. Recorded(t)' /\ SymbolsGrow
  BY <1>4, <1>6, <1>7, <1>8 DEF Recorded, SymbolsGrow
<1>11. History(Append(H, t))' /\ Append(H, t)[n + 1] = t
  <2>1. TypeOK /\ H[n] = s /\ (errors'.scope = 0 => errors.scope = 0) /\ (n # 1 => H[n] # << >>)
    BY <1>2, <1>4, <1>6
  <2>2. Follows(H[n], n, t)' /\ Annotated(H[n], n)' /\ (errors'.scope = 0 => Clean(H[n], n)')
    BY <1>2, <1>9
  <2>3. Longer /\ SymbolsGrow /\ History(H) /\ t \in Stack /\ Recorded(t)' /\ n = Len(program) + 1
        /\ \A i \in 1 .. Len(program) : resolved'[i] = resolved[i]
    BY <1>1, <1>5, <1>7, <1>10
  <2> QED
    BY ONLY <2>1, <2>2, <2>3, HistoryGrows
<1>12. Len(program') + 1 = n + 1 /\ program' # << >>
  BY <1>1, <1>5 DEF Longer
<1>13. CASE Len(scopes) > 1
  <2>1. Len(scopes') = Len(t) /\ \A f \in 1 .. Len(s) - 1 : scopes'[f] = scopes[f]
    BY <1>4, <1>6, <1>7, TypedParts, Popping
  <2>2. SameScopes(t)'
    BY <2>1, <1>6, <1>7, <1>8 DEF SameScopes
  <2>3. pass' = "scope"
    BY <1>4, <1>13
  <2>4. InStep(Append(H, t))'
    BY <2>2, <2>3, <1>11, <1>12 DEF InStep
  <2>5. ErrorsInv'
    BY <2>3, <1>4 DEF ErrorsInv
  <2> QED
    BY <2>4, <2>5, <1>11 DEF HistoryInv
<1>14. CASE ~(Len(scopes) > 1)
  <2>1. t = << >>
    <3>1. Len(t) = 0 /\ t \in Seq(Frame)
      BY <1>6, <1>7, <1>8, <1>14 DEF Stack
    <3> QED
      BY <3>1, SameLength
  <2>2. pass' = IF errors.scope = 0 THEN "type" ELSE "done"
    BY <1>4, <1>14
  <2>3. cursor' = 0 /\ types' = << >>
    BY <1>4 DEF ErrorsInv, TypeOK
  <2>4. Append(H, t)[1] = << >> /\ 0 < Len(program')
    BY <1>5, <1>6, <1>11, <1>12, <1>1, TypedParts DEF History, Longer
  <2>5. SameTypes(<< >>)'
    BY <2>3, Emptiness DEF SameTypes
  <2>6. InStep(Append(H, t))'
    <3>1. Append(H, t)[Len(program') + 1] = << >>
      BY <1>11, <1>12, <2>1
    <3> HIDE DEF SemanticsInv
    <3> QED
      BY ONLY <3>1, <1>12, <2>2, <2>3, <2>4, <2>5 DEF InStep
  <2>7. ErrorsInv'
    BY <2>2, <1>4 DEF ErrorsInv
  <2> QED
    BY <2>6, <2>7, <1>11 DEF HistoryInv
<1> QED
  BY <1>13, <1>14

LEMMA ScopePassHistory ==
    ASSUME SemanticsInv, ScopePass
    PROVE  HistoryInv' /\ ErrorsInv'
<1> USE DEF SemanticsInv
<1>1. PICK H : History(H) /\ InStep(H)
  BY DEF HistoryInv
<1>2. PICK n : n = Len(program) + 1
  OBVIOUS
<1>3. words \in Vocabularies /\ NoNotes \in Note /\ 0 \in Nat /\ 1 \in Nat
  BY NoteType, TypedParts DEF TypeOK
<1>4. CASE ScopeBlock
  <2>1. Reach([kind |-> "open"], NoNotes, 0) /\ PushScope /\ UNCHANGED symbols
    BY <1>4 DEF ScopeBlock
  <2>2. [kind |-> "open"] \in Visit
    BY <1>3, ReachedVisits
  <2>3. program'[n] = [kind |-> "open"]
    BY <1>2, <1>3, <2>1, <2>2, ReachTypes
  <2>4. Annotated(H[n], n)' /\ Clean(H[n], n)'
    BY <2>3 DEF Annotated, Clean, HasExpr
  <2> QED
    BY <1>1, <1>2, <1>3, <2>1, <2>2, <2>4, PushHistory
<1>5. ASSUME NEW e \in words.conditions, ScopeGuard(e)
      PROVE  HistoryInv' /\ ErrorsInv'
  <2>1. PICK v, r, k : v = [kind |-> "guard", expr |-> e] /\ k = Undeclared(e)
                       /\ r = [lhs |-> None, args |-> Annotate(e)]
    OBVIOUS
  <2>2. Reach(v, r, k) /\ PushScope /\ UNCHANGED symbols /\ pass = "scope"
    BY <1>5, <2>1 DEF ScopeGuard, Reach
  <2>3. e \in Expr /\ v \in Visit /\ r \in Note /\ k \in Nat /\ v.kind = "guard" /\ v.expr = e
    BY <1>3, <2>1, WordsType, ReachedVisits, NoteType, UndeclaredType, TypedParts
  <2>4. program'[n] = v /\ resolved'[n] = r
    BY <1>2, <2>2, <2>3, ReachTypes
  <2>5. /\ \A j \in DOMAIN e.args : e.args[j] \in Names => Annotate(e)[j] = IdIn(H[n], e.args[j])
        /\ k = 0 => \A m \in NamesOf(e) : Bound(H[n], m) # {}
    BY <1>1, <1>2, <2>1, <2>2, <2>3, AnnotateIs
  <2>6. Annotated(H[n], n)' /\ (k = 0 => Clean(H[n], n)')
    BY <2>1, <2>3, <2>4, <2>5 DEF Annotated, Clean, HasExpr
  <2> QED
    BY <1>1, <1>2, <2>2, <2>3, <2>6, PushHistory
<1>6. ASSUME NEW x \in words.names, NEW y \in words.types, ScopeDeclare(x, y)
      PROVE  HistoryInv' /\ ErrorsInv'
  <2>1. PICK v : v = [kind |-> "decl", name |-> x, type |-> y]
    OBVIOUS
  <2>2. v \in Visit /\ x \in Names /\ y \in Types
    BY <1>3, <2>1, WordsType, ReachedVisits
  <2>3. CASE x \in Top(scopes).names
    <3>1. Reach(v, NoNotes, 1) /\ UNCHANGED scopeVars /\ scopes # << >> /\ pass = "scope"
      BY <1>6, <2>1, <2>3 DEF ScopeDeclare, scopeVars, Reach
    <3>2. program'[n] = v
      BY <1>2, <1>3, <2>2, <3>1, ReachTypes
    <3>3. H[n] \in Stack /\ SameScopes(H[n]) /\ Len(H[n]) = Len(scopes) /\ H[n] # << >>
      BY <1>1, <1>2, <3>1, ScopesNow
    <3>4. Top(H[n]).binds[x] # 0
      <4>1. Len(scopes) \in DOMAIN H[n]
        <5>1. Len(H[n]) \in Nat /\ Len(H[n]) # 0 /\ DOMAIN H[n] = 1 .. Len(H[n])
          BY <3>3, StackParts, SameLength DEF Stack
        <5> QED
          BY <5>1, <3>3
      <4>2. scopes[Len(scopes)].names = {m \in Names : H[n][Len(scopes)].binds[m] # 0}
        BY <3>3, <4>1 DEF SameScopes
      <4> QED
        BY <2>3, <3>3, <4>2 DEF Top
    <3>5. Follows(H[n], n, H[n])' /\ Annotated(H[n], n)'
      BY <2>1, <3>2, <3>3, <3>4 DEF Follows, Annotated, HasExpr
    <3>6. 1 = 0 => Clean(H[n], n)'
      OBVIOUS
    <3> QED
      BY <1>1, <1>2, <1>3, <2>2, <3>1, <3>5, <3>6, StayHistory
  <2>4. CASE x \notin Top(scopes).names
    <3>1. /\ Reach(v, NoNotes, 0) /\ scopes # << >>
          /\ scopes' = SetTop(scopes, [Top(scopes) EXCEPT !.names = @ \cup {x}])
          /\ symbols' = Append(symbols, [name |-> x, type |-> y, scope |-> Top(scopes).id,
                                         depth |-> Len(scopes) - 1, at |-> n])
      BY <1>2, <1>6, <2>1, <2>4 DEF ScopeDeclare
    <3> QED
      BY <1>1, <1>2, <2>1, <2>2, <2>4, <3>1, DeclareHistory
  <2> QED
    BY <2>3, <2>4
<1>7. ASSUME NEW x \in words.names, NEW e \in words.exprs, ScopeAssign(x, e)
      PROVE  HistoryInv' /\ ErrorsInv'
  <2>1. PICK v, r, k : /\ v = [kind |-> "assign", name |-> x, expr |-> e]
                       /\ k = Undeclared(e) + IF ScopeOf(x) = None THEN 1 ELSE 0
                       /\ r = [lhs |-> ScopeOf(x), args |-> Annotate(e)]
    OBVIOUS
  <2>2. Reach(v, r, k) /\ UNCHANGED scopeVars /\ scopes # << >> /\ pass = "scope"
    BY <1>7, <2>1 DEF ScopeAssign, Reach
  <2>3. /\ e \in Expr /\ x \in Names /\ v \in Visit /\ r \in Note
        /\ v.kind = "assign" /\ v.expr = e /\ v.name = x
    BY <1>3, <2>1, WordsType, ReachedVisits, NoteType, TypedParts
  <2>4. Undeclared(e) \in Nat
    BY <2>3, UndeclaredType
  <2>5. k \in Nat /\ (k = 0 => Undeclared(e) = 0 /\ ScopeOf(x) # None)
    BY <2>1, <2>4
  <2>6. program'[n] = v /\ resolved'[n] = r
    BY <1>2, <2>2, <2>3, <2>5, ReachTypes
  <2>7. /\ \A j \in DOMAIN e.args : e.args[j] \in Names => Annotate(e)[j] = IdIn(H[n], e.args[j])
        /\ k = 0 => \A m \in NamesOf(e) : Bound(H[n], m) # {}
    BY <1>1, <1>2, <2>2, <2>3, <2>5, AnnotateIs
  <2>8. /\ H[n] # << >> /\ ScopeOf(x) = IdIn(H[n], x)
        /\ ScopeOf(x) = None <=> Bound(H[n], x) = {}
    <3>1. H[n] \in Stack /\ SameScopes(H[n]) /\ H[n] # << >> /\ scopes \in Seq(ScopeFrame)
      BY <1>1, <1>2, <2>2, ScopesNow, TypedParts
    <3> QED
      BY <3>1, <2>3, ScopeOfIs
  <2>9. Follows(H[n], n, H[n])'
    BY <2>3, <2>6, <2>8 DEF Follows
  <2>10. Annotated(H[n], n)'
    BY <2>1, <2>3, <2>6, <2>7, <2>8 DEF Annotated, HasExpr
  <2>11. k = 0 => Clean(H[n], n)'
    BY <2>3, <2>5, <2>6, <2>7, <2>8 DEF Clean, HasExpr
  <2> QED
    BY <1>1, <1>2, <2>2, <2>3, <2>5, <2>9, <2>10, <2>11, StayHistory
<1>8. ASSUME NEW e \in words.exprs, ScopePrint(e)
      PROVE  HistoryInv' /\ ErrorsInv'
  <2>1. PICK v, r, k : v = [kind |-> "print", expr |-> e] /\ k = Undeclared(e)
                       /\ r = [lhs |-> None, args |-> Annotate(e)]
    OBVIOUS
  <2>2. Reach(v, r, k) /\ UNCHANGED scopeVars /\ scopes # << >> /\ pass = "scope"
    BY <1>8, <2>1 DEF ScopePrint, Reach
  <2>3. e \in Expr /\ v \in Visit /\ r \in Note /\ k \in Nat /\ v.kind = "print" /\ v.expr = e
    BY <1>3, <2>1, WordsType, ReachedVisits, NoteType, UndeclaredType, TypedParts
  <2>4. program'[n] = v /\ resolved'[n] = r
    BY <1>2, <2>2, <2>3, ReachTypes
  <2>5. /\ \A j \in DOMAIN e.args : e.args[j] \in Names => Annotate(e)[j] = IdIn(H[n], e.args[j])
        /\ k = 0 => \A m \in NamesOf(e) : Bound(H[n], m) # {}
    BY <1>1, <1>2, <2>1, <2>2, <2>3, AnnotateIs
  <2>6. Annotated(H[n], n)' /\ (k = 0 => Clean(H[n], n)')
    BY <2>1, <2>3, <2>4, <2>5 DEF Annotated, Clean, HasExpr
  <2>7. Follows(H[n], n, H[n])'
    <3>1. H[n] # << >>
      BY <1>1, <1>2, <2>2, ScopesNow
    <3> QED
      BY <3>1, <2>3, <2>4 DEF Follows
  <2> QED
    BY <1>1, <1>2, <2>2, <2>3, <2>6, <2>7, StayHistory
<1>9. CASE ScopeLeave
  BY <1>1, <1>9, LeaveHistory
<1> QED
  BY <1>4, <1>5, <1>6, <1>7, <1>8, <1>9 DEF ScopePass

-----------------------------------------------------------------------------
(***************************************************************************)
(* What the later passes find.                                             *)
(***************************************************************************)
LEMMA VisitParts ==
    ASSUME TypeOK, NEW i \in 1 .. Len(program)
    PROVE  /\ program[i].kind \in {"open", "close", "guard", "print", "decl", "assign"}
           /\ HasExpr(i) => program[i].expr \in Expr
           /\ program[i].kind = "decl" => program[i].name \in Names /\ program[i].type \in Types
           /\ program[i].kind = "assign" => program[i].name \in Names
<1>1. program[i] \in Visit
  BY TypedParts
<1>2. /\ words.names \subseteq Names /\ words.types \subseteq Types
      /\ words.exprs \subseteq Expr /\ words.conditions \subseteq Expr
  BY WordsType DEF TypeOK
<1> QED
  BY <1>1, <1>2 DEF Visit, HasExpr

\* A later pass walks what the scope pass left.
Rereads ==
    /\ pass \in {"type", "usage"} /\ pass' # "scope"
    /\ UNCHANGED << words, program, resolved, scopeVars >>
    /\ errors'.scope = errors.scope

LEMMA RereadKeeps ==
    ASSUME ScopesInv, SymbolsInv, Rereads
    PROVE  ScopesInv' /\ SymbolsInv' /\ \A H : History(H) => History(H)'
<1> USE DEF Rereads, scopeVars
<1>1. ScopesInv'
  BY DEF ScopesInv
<1>2. SymbolsInv'
  BY DEF SymbolsInv
<1>3. ASSUME NEW H, History(H) PROVE History(H)'
  <2>1. /\ H \in Seq(Stack) /\ Len(H) = Len(program') + 1 /\ H[1] = << >>
        /\ \A i \in 2 .. Len(program') : H[i] # << >>
    BY <1>3 DEF History
  <2>2. ASSUME NEW i \in 1 .. Len(program)
        PROVE  /\ Follows(H[i], i, H[i + 1])' /\ Annotated(H[i], i)'
               /\ errors'.scope = 0 => Clean(H[i], i)'
    <3>1. /\ Follows(H[i], i, H[i + 1]) /\ Annotated(H[i], i)
          /\ errors.scope = 0 => Clean(H[i], i)
      BY <1>3 DEF History
    <3>2. Follows(H[i], i, H[i + 1])'
      BY <3>1 DEF Follows
    <3>3. Annotated(H[i], i)'
      BY <3>1 DEF Annotated, HasExpr
    <3>4. errors'.scope = 0 => Clean(H[i], i)'
      BY <3>1 DEF Clean, HasExpr
    <3> QED
      BY <3>2, <3>3, <3>4
  <2>3. ASSUME NEW i \in 1 .. Len(program) + 1 PROVE Recorded(H[i])'
    <3>1. Recorded(H[i])
      BY <1>3 DEF History
    <3> QED
      BY <3>1 DEF Recorded
  <2> QED
    BY <2>1, <2>2, <2>3 DEF History
<1> QED
  BY <1>1, <1>2, <1>3

\* Each visit of an accepted walk, with the stack it finds and the one it leaves.
LEMMA VisitNow ==
    ASSUME SemanticsInv, errors.scope = 0, NEW H, History(H), NEW i \in 1 .. Len(program)
    PROVE  /\ H[i] \in Stack /\ Recorded(H[i])
           /\ H[i + 1] \in Stack
           /\ Follows(H[i], i, H[i + 1]) /\ Annotated(H[i], i) /\ Clean(H[i], i)
<1>1. i \in 1 .. Len(program) + 1 /\ i + 1 \in 1 .. Len(program) + 1 /\ TypeOK
  BY TypedParts DEF SemanticsInv
<1>2. H[i] \in Stack /\ Recorded(H[i]) /\ H[i + 1] \in Stack
  BY <1>1, HistoryParts
<1> QED
  BY <1>2 DEF History

\* Only the last visit leaves no block open, and it closes the root.
LEMMA OnlyTheLastCloses ==
    ASSUME SemanticsInv, pass # "scope", errors.scope = 0, NEW H, History(H), InStep(H),
           NEW i \in 1 .. Len(program)
    PROVE  /\ i < Len(program) <=> H[i + 1] # << >>
           /\ i = Len(program) => program[i].kind = "close" /\ Len(H[i]) = 1
<1> USE DEF SemanticsInv
<1>1. Len(program) \in Nat /\ i \in Nat
  BY TypedParts
<1>2. i < Len(program) => H[i + 1] # << >>
  <2>1. i < Len(program) => i + 1 \in 2 .. Len(program)
    BY <1>1
  <2> QED
    BY <2>1 DEF History
<1>3. i = Len(program) => H[i + 1] = << >>
  BY DEF InStep
<1>4. /\ H[i] \in Stack /\ Follows(H[i], i, H[i + 1])
  BY VisitNow
<1>5. ASSUME i = Len(program) PROVE program[i].kind = "close" /\ Len(H[i]) = 1
  <2>1. H[i + 1] = << >> /\ H[i] \in Seq(Frame)
    BY <1>3, <1>4, <1>5 DEF Stack
  <2>2. program[i].kind \notin {"open", "guard"}
    <3>1. ASSUME NEW id \in Nat PROVE Append(H[i], [id |-> id, binds |-> Unbound]) # << >>
      <4>1. [id |-> id, binds |-> Unbound] \in Frame
        BY DEF Frame, Unbound
      <4> QED
        BY ONLY <4>1, <2>1, Pushing
    <3> QED
      BY <3>1, <2>1, <1>4 DEF Follows
  <2>3. H[i] # << >>
    BY <2>2, <1>4 DEF Follows
  <2>4. program[i].kind # "decl"
    <3> SUFFICES ASSUME program[i].kind = "decl" PROVE FALSE
      OBVIOUS
    <3>1. PICK g : H[i + 1] = H[i] \/ H[i + 1] = SetTop(H[i], g)
      BY <1>4 DEF Follows
    <3>2. Len(SetTop(H[i], g)) = Len(H[i]) /\ Len(H[i]) # 0
      <4>1. Len(H[i]) # 0
        BY <2>1, <2>3, SameLength
      <4>2. Len([H[i] EXCEPT ![Len(H[i])] = g]) = Len(H[i])
        BY <2>1
      <4> QED
        BY <4>1, <4>2 DEF SetTop
    <3> QED
      BY <3>1, <3>2, <2>1, <2>3, Emptiness
  <2>5. program[i].kind = "close"
    <3>1. program[i].kind \in {"open", "close", "guard", "print", "decl", "assign"}
      BY VisitParts
    <3>2. program[i].kind \in {"assign", "print"} => H[i + 1] = H[i]
      BY <1>4 DEF Follows
    <3> QED
      BY <3>1, <3>2, <2>1, <2>2, <2>3, <2>4
  <2>6. Pop(H[i]) = << >>
    BY <2>1, <2>5, <1>4 DEF Follows
  <2>7. Len(H[i]) - 1 = 0 /\ Len(H[i]) \in Nat
    <3>1. Len(H[i]) \in Nat
      BY <2>1
    <3>2. Len(Pop(H[i])) = Len(H[i]) - 1
      BY ONLY <2>1, <2>3, Popping
    <3> QED
      BY ONLY <3>1, <3>2, <2>6, Emptiness
  <2> QED
    BY <2>5, <2>7
<1> QED
  BY <1>1, <1>2, <1>3, <1>5

\* The key of a binding is the key of its symbol and of no other.
LEMMA BindingIs ==
    ASSUME SemanticsInv, NEW s \in Stack, Recorded(s), NEW f \in DOMAIN s, NEW n \in Names,
           s[f].binds[n] # 0
    PROVE  /\ SymbolsOf(<< n, s[f].id >>) # {}
           /\ \A k \in SymbolsOf(<< n, s[f].id >>) :
                 k \in DOMAIN symbols /\ symbols[k].at = s[f].binds[n]
           /\ s[f].binds[n] \in DOMAIN program
           /\ DeclType(<< n, s[f].id >>) = program[s[f].binds[n]].type
           /\ DeclType(<< n, s[f].id >>) \in Types
           /\ \A k \in SymbolsOf(<< n, s[f].id >>) : symbols[k].type = DeclType(<< n, s[f].id >>)
<1>1. PICK k \in DOMAIN symbols :
         symbols[k].name = n /\ symbols[k].scope = s[f].id /\ symbols[k].at = s[f].binds[n]
  BY DEF Recorded
<1>2. /\ symbols[k].at \in DOMAIN program /\ program[symbols[k].at].type = symbols[k].type
      /\ symbols[k].type \in Types
  BY <1>1, TypedParts DEF SemanticsInv, SymbolsInv
<1>3. SymbolsOf(<< n, s[f].id >>) = {k}
  <2>1. k \in SymbolsOf(<< n, s[f].id >>)
    BY <1>1 DEF SymbolsOf
  <2>2. ASSUME NEW l \in SymbolsOf(<< n, s[f].id >>) PROVE l = k
    <3>1. l \in DOMAIN symbols /\ symbols[l].name = n /\ symbols[l].scope = s[f].id
      BY DEF SymbolsOf
    <3> QED
      BY <3>1, <1>1 DEF SemanticsInv, SymbolsInv
  <2> QED
    BY <2>1, <2>2
<1>4. DeclType(<< n, s[f].id >>) = symbols[k].type
  BY <1>3 DEF DeclType
<1> QED
  BY <1>1, <1>2, <1>3, <1>4

\* The type pass finds the type of the symbol whose key the scope pass stored.
LEMMA TypeLookupIs ==
    ASSUME SemanticsInv, NEW s \in Stack, Recorded(s), SameTypes(s), types \in Seq(Frames(Types)),
           NEW n \in Names, Bound(s, n) # {}
    PROVE  /\ TypeLookup(n) = DeclType(<< n, IdIn(s, n) >>)
           /\ TypeLookup(n) \in Types /\ TypeLookup(n) # None
           /\ SymbolsOf(<< n, IdIn(s, n) >>) # {}
           /\ \A k \in SymbolsOf(<< n, IdIn(s, n) >>) : symbols[k].type = TypeLookup(n)
<1>1. DOMAIN types = 1 .. Len(s) /\ DOMAIN s = 1 .. Len(s)
  BY StackParts DEF SameTypes
<1>2. \A t \in Types : t # None
  BY SemanticsAssumption
<1>3. ASSUME NEW f \in DOMAIN s PROVE types[f][n] # None <=> s[f].binds[n] # 0
  <2>1. types[f][n] = IF s[f].binds[n] = 0 THEN None ELSE program[s[f].binds[n]].type
    BY DEF SameTypes
  <2>2. CASE s[f].binds[n] = 0
    BY <2>1, <2>2
  <2>3. CASE s[f].binds[n] # 0
    <3>1. DeclType(<< n, s[f].id >>) = program[s[f].binds[n]].type
      BY ONLY SemanticsInv, s \in Stack, Recorded(s), f \in DOMAIN s, n \in Names, <2>3, BindingIs
    <3>2. DeclType(<< n, s[f].id >>) \in Types
      BY ONLY SemanticsInv, s \in Stack, Recorded(s), f \in DOMAIN s, n \in Names, <2>3, BindingIs
    <3> QED
      BY <2>1, <2>3, <3>1, <3>2, <1>2
  <2> QED
    BY <2>2, <2>3
<1>4. Holding(types, n) = Bound(s, n)
  BY <1>1, <1>3 DEF Holding, Bound
<1>5. PICK m : m = Innermost(Bound(s, n))
  OBVIOUS
<1>6. /\ m \in DOMAIN s /\ s[m].binds[n] # 0 /\ IdIn(s, n) = s[m].id
  BY <1>1, <1>5, IdInIs
<1>7. TypeLookup(n) = types[m][n]
  BY <1>4, <1>5, Zenon DEF TypeLookup
<1>8. types[m][n] = program[s[m].binds[n]].type
  BY <1>6 DEF SameTypes
<1>9. /\ SymbolsOf(<< n, s[m].id >>) # {}
      /\ DeclType(<< n, s[m].id >>) = program[s[m].binds[n]].type
      /\ DeclType(<< n, s[m].id >>) \in Types
      /\ \A k \in SymbolsOf(<< n, s[m].id >>) : symbols[k].type = DeclType(<< n, s[m].id >>)
  BY <1>6, BindingIs
<1> QED
  BY <1>2, <1>6, <1>7, <1>8, <1>9

\* What the type pass finds at its cursor.
LEMMA TypesNow ==
    ASSUME SemanticsInv, pass = "type", NEW H, History(H), InStep(H)
    PROVE  /\ cursor + 1 \in 1 .. Len(program) /\ cursor \in Nat /\ errors.scope = 0
           /\ H[cursor + 1] \in Stack /\ Recorded(H[cursor + 1]) /\ SameTypes(H[cursor + 1])
           /\ Annotated(H[cursor + 1], cursor + 1) /\ Clean(H[cursor + 1], cursor + 1)
           /\ Follows(H[cursor + 1], cursor + 1, H[cursor + 2])
           /\ types \in Seq(Frames(Types))
<1> USE DEF SemanticsInv
<1>1. /\ cursor \in 0 .. Len(program) /\ Len(program) \in Nat /\ types \in Seq(Frames(Types))
      /\ errors.scope = 0
  BY TypedParts DEF TypeOK, ErrorsInv
<1>2. cursor < Len(program) /\ SameTypes(H[cursor + 1])
  BY DEF InStep
<1>3. PICK i \in 1 .. Len(program) : i = cursor + 1
  BY <1>1, <1>2
<1>4. /\ H[i] \in Stack /\ Recorded(H[i]) /\ Annotated(H[i], i) /\ Clean(H[i], i)
      /\ Follows(H[i], i, H[i + 1])
  BY <1>1, VisitNow
<1>5. i + 1 = cursor + 2
  BY <1>1, <1>3
<1> QED
  BY <1>1, <1>2, <1>3, <1>4, <1>5

\* Every name has a type when the type pass meets it.
LEMMA NamesHaveTypes ==
    ASSUME SemanticsInv, pass = "type", HasExpr(cursor + 1)
    PROVE  /\ Here.expr \in Expr
           /\ \A k \in DOMAIN Here.expr.args : AtomType(Here.expr.args[k]) \in Types
           /\ Known(Here.expr) /\ Internal(Here.expr) = 0
<1> USE DEF SemanticsInv
<1>1. PICK H : History(H) /\ InStep(H)
  BY DEF HistoryInv
<1>2. PICK s \in Stack : /\ Recorded(s) /\ SameTypes(s) /\ Clean(s, cursor + 1)
                         /\ types \in Seq(Frames(Types)) /\ cursor + 1 \in 1 .. Len(program)
  BY <1>1, TypesNow
<1>3. Here.expr \in Expr
  BY <1>2, VisitParts DEF Here
<1>4. ASSUME NEW k \in DOMAIN Here.expr.args PROVE AtomType(Here.expr.args[k]) \in Types
  <2>1. CASE Here.expr.args[k] \in Names
    <3>1. Here.expr.args[k] \in NamesOf(Here.expr)
      BY <1>3, <2>1, ArgsType
    <3>2. Bound(s, Here.expr.args[k]) # {}
      BY <3>1, <1>2 DEF Clean, Here
    <3> QED
      BY <2>1, <3>2, <1>2, TypeLookupIs DEF AtomType
  <2>2. CASE Here.expr.args[k] \notin Names
    BY <1>3, <2>2, ArgsType DEF AtomType
  <2> QED
    BY <2>1, <2>2
<1>5. \A t \in Types : t # None
  BY SemanticsAssumption
<1>6. Known(Here.expr)
  BY <1>4, <1>5 DEF Known
<1>7. Internal(Here.expr) = 0
  <2>1. {i \in DOMAIN Here.expr.args : AtomType(Here.expr.args[i]) = None} = {}
    BY <1>4, <1>5
  <2> QED
    BY <2>1, FS_EmptySet DEF Internal
<1> QED
  BY <1>3, <1>4, <1>6, <1>7

-----------------------------------------------------------------------------
(***************************************************************************)
(* The type pass.                                                          *)
(***************************************************************************)
\* What a visit that opens a block, declares a name or closes a block does to
\* the stack of the history.
LEMMA FollowsOpen ==
    ASSUME NEW s \in Stack, NEW i, NEW t, Follows(s, i, t), program[i].kind \in {"open", "guard"}
    PROVE  /\ t \in Stack /\ Len(t) = Len(s) + 1 /\ DOMAIN t = 1 .. Len(s) + 1
           /\ \A f \in 1 .. Len(s) : t[f] = s[f]
           /\ \A n \in Names : t[Len(s) + 1].binds[n] = 0
<1>1. PICK id \in Nat : t = Append(s, [id |-> id, binds |-> Unbound])
  BY DEF Follows
<1>2. PICK g : g = [id |-> id, binds |-> Unbound]
  OBVIOUS
<1>3. g \in Frame /\ \A n \in Names : g.binds[n] = 0
  BY <1>2 DEF Frame, Unbound
<1>4. s \in Seq(Frame)
  BY DEF Stack
<1> QED
  BY ONLY <1>1, <1>2, <1>3, <1>4, Pushing DEF Stack

LEMMA FollowsDeclare ==
    ASSUME NEW s \in Stack, NEW i \in Nat, NEW t, Follows(s, i, t), program[i].kind = "decl",
           program[i].name \in Names, Clean(s, i)
    PROVE  /\ t \in Stack /\ Len(t) = Len(s) /\ DOMAIN t = 1 .. Len(s) /\ Len(s) \in 1 .. Len(s)
           /\ \A f \in 1 .. Len(s) - 1 : t[f] = s[f]
           /\ t[Len(s)].binds[program[i].name] = i /\ t[Len(s)].id = s[Len(s)].id
           /\ \A n \in Names : n # program[i].name => t[Len(s)].binds[n] = s[Len(s)].binds[n]
<1>1. PICK x \in Names : x = program[i].name
  OBVIOUS
<1>2. PICK top : top = s[Len(s)]
  OBVIOUS
<1>3. PICK g : g = [id |-> top.id, binds |-> [top.binds EXCEPT ![x] = i]]
  OBVIOUS
<1>4. s # << >> /\ t = SetTop(s, g)
  BY <1>1, <1>2, <1>3 DEF Follows, Clean, Top
<1>5. s \in Seq(Frame) /\ Len(s) \in Nat /\ Len(s) # 0
  BY <1>4, SameLength DEF Stack
<1>6. top \in Frame /\ Len(s) \in 1 .. Len(s)
  BY <1>2, <1>5
<1>7. /\ g \in Frame /\ g.id = top.id /\ g.binds[x] = i
      /\ \A n \in Names : n # x => g.binds[n] = top.binds[n]
  BY <1>3, <1>6 DEF Frame
<1>8. /\ t \in Stack /\ Len(t) = Len(s) /\ DOMAIN t = 1 .. Len(s)
      /\ \A f \in 1 .. Len(s) - 1 : t[f] = s[f]
      /\ t[Len(s)] = g
  BY ONLY <1>4, <1>5, <1>7 DEF SetTop, Stack
<1> QED
  BY <1>1, <1>2, <1>6, <1>7, <1>8

LEMMA FollowsClose ==
    ASSUME NEW s \in Stack, NEW i, NEW t, Follows(s, i, t), program[i].kind = "close"
    PROVE  /\ t \in Stack /\ Len(t) = Len(s) - 1 /\ DOMAIN t = 1 .. Len(s) - 1 /\ Len(s) \in Nat \ {0}
           /\ \A f \in 1 .. Len(s) - 1 : t[f] = s[f]
<1>1. s # << >> /\ t = Pop(s) /\ s \in Seq(Frame)
  BY DEF Follows, Stack
<1>2. Len(s) \in Nat /\ Len(s) # 0
  BY <1>1, SameLength
<1> QED
  BY ONLY <1>1, <1>2, Popping DEF Stack

LEMMA SameTypesOpen ==
    ASSUME NEW s \in Stack, NEW i, NEW t, Follows(s, i, t), program[i].kind \in {"open", "guard"},
           SameTypes(s), types \in Seq(Frames(Types)), types' = Append(types, Empty),
           program' = program
    PROVE  types' \in Seq(Frames(Types)) /\ SameTypes(t)'
<1>1. Len(types) = Len(s) /\ Len(s) \in Nat
  BY StackParts DEF SameTypes
<1>2. Empty \in Frames(Types) /\ \A n \in Names : Empty[n] = None
  BY DEF Empty, Frames
<1>3. /\ types' \in Seq(Frames(Types)) /\ Len(types') = Len(s) + 1
      /\ \A f \in 1 .. Len(s) : types'[f] = types[f]
      /\ types'[Len(s) + 1] = Empty
  BY <1>1, <1>2, Pushing
<1>4. /\ t \in Stack /\ Len(t) = Len(s) + 1 /\ DOMAIN t = 1 .. Len(s) + 1
      /\ \A f \in 1 .. Len(s) : t[f] = s[f]
      /\ \A n \in Names : t[Len(s) + 1].binds[n] = 0
  BY FollowsOpen
<1>5. ASSUME NEW f \in DOMAIN t, NEW n \in Names
      PROVE  types'[f][n] = IF t[f].binds[n] = 0 THEN None ELSE program[t[f].binds[n]].type
  <2>1. CASE f = Len(s) + 1
    BY <2>1, <1>2, <1>3, <1>4
  <2>2. CASE f # Len(s) + 1
    <3>1. f \in 1 .. Len(s) /\ f \in DOMAIN s
      BY <2>2, <1>1, <1>4, StackParts
    <3> QED
      BY <3>1, <1>3, <1>4 DEF SameTypes
  <2> QED
    BY <2>1, <2>2
<1> QED
  BY <1>3, <1>4, <1>5 DEF SameTypes

LEMMA SameTypesDeclare ==
    ASSUME NEW s \in Stack, NEW i \in Nat \ {0}, NEW t, Follows(s, i, t), program[i].kind = "decl",
           program[i].name \in Names, program[i].type \in Types, Clean(s, i),
           SameTypes(s), types \in Seq(Frames(Types)),
           types' = SetTop(types, [Top(types) EXCEPT ![program[i].name] = program[i].type]),
           program' = program
    PROVE  types' \in Seq(Frames(Types)) /\ SameTypes(t)'
<1>1. PICK x \in Names : x = program[i].name
  OBVIOUS
<1>2. PICK d : d = Len(s)
  OBVIOUS
<1>3. /\ t \in Stack /\ Len(t) = d /\ DOMAIN t = 1 .. d /\ d \in 1 .. d /\ d \in Nat
      /\ \A f \in 1 .. d - 1 : t[f] = s[f]
      /\ t[d].binds[x] = i
      /\ \A n \in Names : n # x => t[d].binds[n] = s[d].binds[n]
  BY <1>1, <1>2, FollowsDeclare, StackParts
<1>4. PICK g : g = [types[d] EXCEPT ![x] = program[i].type]
  OBVIOUS
<1>5. Len(types) = d /\ types[d] \in Frames(Types)
  BY <1>2, <1>3 DEF SameTypes
<1>6. /\ g \in Frames(Types) /\ g[x] = program[i].type
      /\ \A n \in Names : n # x => g[n] = types[d][n]
  BY <1>4, <1>5 DEF Frames
<1>7. types' = SetTop(types, g)
  BY <1>1, <1>4, <1>5 DEF Top
<1>8. /\ types' \in Seq(Frames(Types)) /\ Len(types') = d
      /\ \A f \in 1 .. d - 1 : types'[f] = types[f]
      /\ types'[d] = g
  BY ONLY types \in Seq(Frames(Types)), <1>3, <1>5, <1>6, <1>7 DEF SetTop
<1>9. ASSUME NEW f \in DOMAIN t, NEW n \in Names
      PROVE  types'[f][n] = IF t[f].binds[n] = 0 THEN None ELSE program[t[f].binds[n]].type
  <2>1. CASE f = d /\ n = x
    BY <2>1, <1>3, <1>6, <1>8
  <2>2. CASE f = d /\ n # x
    <3>1. d \in DOMAIN s
      BY <1>2, <1>3, StackParts
    <3>2. types[d][n] = IF s[d].binds[n] = 0 THEN None ELSE program[s[d].binds[n]].type
      BY <3>1 DEF SameTypes
    <3>3. types'[f][n] = types[d][n] /\ t[f].binds[n] = s[d].binds[n]
      BY <2>2, <1>3, <1>6, <1>8
    <3> QED
      BY <3>2, <3>3, Zenon
  <2>3. CASE f # d
    <3>1. f \in 1 .. d - 1 /\ f \in DOMAIN s
      BY <2>3, <1>2, <1>3, StackParts
    <3>2. types[f][n] = IF s[f].binds[n] = 0 THEN None ELSE program[s[f].binds[n]].type
      BY <3>1 DEF SameTypes
    <3>3. types'[f] = types[f] /\ t[f] = s[f]
      BY <3>1, <1>3, <1>8
    <3> QED
      BY <3>2, <3>3, Zenon
  <2> QED
    BY <2>1, <2>2, <2>3
<1> QED
  BY <1>3, <1>8, <1>9 DEF SameTypes

LEMMA SameTypesClose ==
    ASSUME NEW s \in Stack, NEW i, NEW t, Follows(s, i, t), program[i].kind = "close",
           SameTypes(s), types \in Seq(Frames(Types)), types' = Pop(types), program' = program
    PROVE  types' \in Seq(Frames(Types)) /\ Len(types') = Len(s) - 1 /\ SameTypes(t)'
<1>1. /\ t \in Stack /\ Len(t) = Len(s) - 1 /\ DOMAIN t = 1 .. Len(s) - 1 /\ Len(s) \in Nat \ {0}
      /\ \A f \in 1 .. Len(s) - 1 : t[f] = s[f]
  BY FollowsClose
<1>2. Len(types) = Len(s) /\ types # << >>
  BY <1>1, Emptiness DEF SameTypes
<1>3. /\ types' \in Seq(Frames(Types)) /\ Len(types') = Len(types) - 1
      /\ \A f \in 1 .. Len(types) - 1 : types'[f] = types[f]
  BY ONLY types \in Seq(Frames(Types)), types' = Pop(types), <1>2, Popping
<1>4. ASSUME NEW f \in DOMAIN t, NEW n \in Names
      PROVE  types'[f][n] = IF t[f].binds[n] = 0 THEN None ELSE program[t[f].binds[n]].type
  <2>1. f \in 1 .. Len(s) - 1 /\ f \in DOMAIN s
    BY <1>1, StackParts
  <2> QED
    BY <2>1, <1>1, <1>2, <1>3 DEF SameTypes
<1> QED
  BY <1>1, <1>2, <1>3, <1>4 DEF SameTypes

\* What all steps of the later passes have in common.
LEMMA RereadTypes ==
    ASSUME TypeOK, Rereads, pass' \in {"type", "usage", "done"}, cursor' \in 0 .. Len(program),
           errors' \in [scope : Nat, type : Nat, internal : Nat],
           types' \in Seq(Frames(Types)), pass' # "type" => types' = << >>,
           usages' \in Seq(Frames(Usage)), pass' # "usage" => usages' = << >>,
           reports' \subseteq Report
    PROVE  TypeOK'
<1> USE DEF Rereads, scopeVars
<1>1. Visit' = Visit
  BY DEF Visit
<1>2. TypedAround'
  BY <1>1 DEF TypedAround, TypeOK
<1> QED
  BY <1>2 DEF TypedAround, TypeOK

\* A visit of the type pass that is not the last.
LEMMA TypeMoves ==
    ASSUME SemanticsInv, pass = "type", pass' = "type", Walk, TypeUnchanged,
           NEW H, History(H), InStep(H), NEW i, i = cursor + 1, i < Len(program),
           NEW t, t = H[i + 1], SameTypes(t)', types' \in Seq(Frames(Types)),
           errors' = [errors EXCEPT !.type = errors'.type], errors'.type \in Nat
    PROVE  SemanticsInv'
<1> USE DEF SemanticsInv
<1>1. errors \in [scope : Nat, type : Nat, internal : Nat]
  BY DEF TypeOK
<1>2. /\ errors' \in [scope : Nat, type : Nat, internal : Nat]
      /\ errors'.scope = errors.scope /\ errors'.internal = errors.internal
  BY <1>1
<1>3. Rereads
  BY <1>2 DEF Rereads, TypeUnchanged
<1>4. cursor' = cursor + 1 /\ cursor' \in 0 .. Len(program) /\ cursor' < Len(program)
      /\ program' = program /\ cursor \in Nat
  BY TypedParts DEF Walk, TypeUnchanged, TypeOK
<1>5. usages' \in Seq(Frames(Usage)) /\ usages' = << >> /\ reports' \subseteq Report
  BY DEF TypeUnchanged, TypeOK
<1>6. TypeOK'
  BY <1>2, <1>3, <1>4, <1>5, RereadTypes
<1>7. ScopesInv' /\ SymbolsInv' /\ History(H)'
  BY <1>3, RereadKeeps
<1>8. InStep(H)'
  <2>1. H[cursor' + 1] = t /\ pass' = "type"
    BY <1>4
  <2>2. cursor' < Len(program')
    BY <1>4
  <2>3. program # << >>
    BY DEF InStep
  <2>4. H[Len(program') + 1] = << >>
    BY <1>4 DEF InStep
  <2>5. program' # << >> /\ SameTypes(t)'
    BY <1>4, <2>3
  <2> QED
    BY ONLY <2>1, <2>2, <2>4, <2>5 DEF InStep
<1>9. ErrorsInv'
  BY <1>2 DEF ErrorsInv
<1> QED
  BY <1>6, <1>7, <1>8, <1>9 DEF HistoryInv

LEMMA MisfitsType == ASSUME NEW e PROVE Misfits(e) \in Nat
BY DEF Misfits

LEMMA TypeErrorIs ==
    ASSUME errors \in [scope : Nat, type : Nat, internal : Nat], NEW i, i = 0, NEW m \in Nat,
           TypeError(i, m)
    PROVE  /\ errors' = [errors EXCEPT !.type = errors'.type] /\ errors'.type \in Nat
           /\ errors'.type = errors.type + m
<1>1. errors' = [scope |-> errors.scope, type |-> errors.type + m, internal |-> errors.internal + 0]
  BY DEF TypeError
<1>2. /\ errors.type \in Nat /\ errors.internal \in Nat
      /\ errors = [scope |-> errors.scope, type |-> errors.type, internal |-> errors.internal]
  OBVIOUS
<1>3. errors.internal + 0 = errors.internal
  BY <1>2
<1>4. errors'.type = errors.type + m
  BY <1>1
<1>5. errors' = [scope |-> errors.scope, type |-> errors'.type, internal |-> errors.internal]
  BY <1>1, <1>3, <1>4
<1>6. [errors EXCEPT !.type = errors'.type] =
         [scope |-> errors.scope, type |-> errors'.type, internal |-> errors.internal]
  BY <1>2
<1> QED
  BY <1>2, <1>4, <1>5, <1>6

LEMMA TypePassKeeps ==
    ASSUME SemanticsInv, TypePass
    PROVE  SemanticsInv'
<1> USE DEF SemanticsInv
<1>1. pass = "type"
  BY DEF TypePass, TypeOpen, TypeGuard, TypeDeclare, TypeAssign, TypePrint, TypeClose, TypeEnd, TypeVisit
<1>2. PICK H : History(H) /\ InStep(H)
  BY DEF HistoryInv
<1>3. PICK i : i = cursor + 1
  OBVIOUS
<1>4. PICK s : s = H[i]
  OBVIOUS
<1>5. PICK t : t = H[i + 1]
  OBVIOUS
<1>6. i \in 1 .. Len(program) /\ cursor \in Nat /\ errors.scope = 0 /\ i \in Nat \ {0} /\ cursor + 2 = i + 1
  BY <1>1, <1>2, <1>3, TypesNow
<1>7. /\ s \in Stack /\ SameTypes(s) /\ types \in Seq(Frames(Types)) /\ Follows(s, i, t)
      /\ Clean(s, i)
  BY <1>1, <1>2, <1>3, <1>4, <1>5, <1>6, TypesNow
<1>8. errors.type \in Nat /\ errors.internal = 0
      /\ errors \in [scope : Nat, type : Nat, internal : Nat]
  BY DEF TypeOK, ErrorsInv
<1>9. program[i].kind # "close" => i < Len(program)
  <2>1. i = Len(program) => program[i].kind = "close"
    BY <1>1, <1>2, <1>6, OnlyTheLastCloses
  <2>2. i <= Len(program) /\ Len(program) \in Nat
    BY <1>6, TypedParts
  <2> QED
    BY ONLY <2>1, <2>2, <1>6
<1>10. CASE TypeOpen
  <2>1. /\ Walk /\ program[i].kind = "open" /\ TypeUnchanged /\ types' = Append(types, Empty)
        /\ pass' = pass /\ errors' = errors /\ program' = program
    BY <1>3, <1>10 DEF TypeOpen, TypeVisit, Here, TypeUnchanged
  <2>2. types' \in Seq(Frames(Types)) /\ SameTypes(t)'
    BY <1>7, <2>1, SameTypesOpen
  <2> QED
    BY <1>1, <1>2, <1>3, <1>5, <1>6, <1>8, <1>9, <2>1, <2>2, TypeMoves
<1>11. CASE TypeGuard
  <2>1. /\ Walk /\ program[i].kind = "guard" /\ TypeUnchanged /\ types' = Append(types, Empty)
        /\ pass' = pass /\ program' = program
        /\ TypeError(Internal(Here.expr), Misfits(Here.expr))
    BY <1>3, <1>11 DEF TypeGuard, TypeVisit, Here, TypeUnchanged
  <2>2. types' \in Seq(Frames(Types)) /\ SameTypes(t)'
    BY <1>7, <2>1, SameTypesOpen
  <2>3. Internal(Here.expr) = 0
    <3>1. HasExpr(cursor + 1)
      BY <1>3, <2>1 DEF HasExpr
    <3> QED
      BY <1>1, <3>1, NamesHaveTypes
  <2>4. errors' = [errors EXCEPT !.type = errors'.type] /\ errors'.type \in Nat
    BY <1>8, <2>1, <2>3, MisfitsType, TypeErrorIs
  <2> QED
    BY <1>1, <1>2, <1>3, <1>5, <1>6, <1>9, <2>1, <2>2, <2>4, TypeMoves
<1>12. CASE TypeDeclare
  <2>1. /\ Walk /\ program[i].kind = "decl" /\ TypeUnchanged
        /\ types' = SetTop(types, [Top(types) EXCEPT ![program[i].name] = program[i].type])
        /\ pass' = pass /\ errors' = errors /\ program' = program
    BY <1>3, <1>12 DEF TypeDeclare, TypeVisit, Here, TypeUnchanged
  <2>2. program[i].name \in Names /\ program[i].type \in Types
    BY <1>6, <2>1, VisitParts
  <2>3. types' \in Seq(Frames(Types)) /\ SameTypes(t)'
    BY <1>6, <1>7, <2>1, <2>2, SameTypesDeclare
  <2> QED
    BY <1>1, <1>2, <1>3, <1>5, <1>6, <1>8, <1>9, <2>1, <2>3, TypeMoves
<1>13. ASSUME NEW m \in Nat, Walk, TypeUnchanged, pass' = pass, types' = types,
              program[i].kind \in {"assign", "print"}, TypeError(Internal(Here.expr), m)
       PROVE  SemanticsInv'
  <2>1. t = s
    BY <1>7, <1>13 DEF Follows
  <2>2. types' \in Seq(Frames(Types)) /\ SameTypes(t)'
    BY <1>7, <1>13, <2>1 DEF SameTypes, TypeUnchanged
  <2>3. Internal(Here.expr) = 0
    <3>1. HasExpr(cursor + 1)
      BY <1>3, <1>13 DEF HasExpr
    <3> QED
      BY <1>1, <3>1, NamesHaveTypes
  <2>4. errors' = [errors EXCEPT !.type = errors'.type] /\ errors'.type \in Nat
    BY <1>8, <1>13, <2>3, TypeErrorIs
  <2>5. i < Len(program)
    BY <1>9, <1>13
  <2> QED
    BY <1>1, <1>2, <1>3, <1>5, <1>6, <1>13, <2>2, <2>4, <2>5, TypeMoves
<1>14. CASE TypeAssign
  <2>1. PICK m : m = Misfits(Here.expr) +
                       IF TypeLookup(Here.name) # None /\ Infer(Here.expr) # None
                          /\ TypeLookup(Here.name) # Infer(Here.expr) THEN 1 ELSE 0
    OBVIOUS
  <2>2. m \in Nat
    BY <2>1, MisfitsType
  <2>3. TypeError(Internal(Here.expr), m)
    BY <1>14, <2>1 DEF TypeAssign
  <2> QED
    BY <1>3, <1>13, <1>14, <2>2, <2>3 DEF TypeAssign, TypeVisit, Here
<1>15. CASE TypePrint
  <2>1. Misfits(Here.expr) \in Nat
    BY MisfitsType
  <2> QED
    BY <1>3, <1>13, <1>15, <2>1 DEF TypePrint, TypeVisit, Here
<1>16. CASE TypeClose
  <2>1. /\ Walk /\ program[i].kind = "close" /\ TypeUnchanged /\ types' = Pop(types)
        /\ pass' = pass /\ errors' = errors /\ program' = program /\ i < Len(program)
    BY <1>3, <1>16 DEF TypeClose, TypeVisit, Here, TypeUnchanged, Walk
  <2>2. types' \in Seq(Frames(Types)) /\ SameTypes(t)'
    BY <1>7, <2>1, SameTypesClose
  <2> QED
    BY <1>1, <1>2, <1>5, <1>6, <1>8, <2>1, <2>2, TypeMoves
<1>17. CASE TypeEnd
  <2>1. /\ i = Len(program) /\ types' = Pop(types) /\ cursor' = 0 /\ errors' = errors
        /\ pass' = IF errors.type + errors.internal = 0 THEN "usage" ELSE "done"
        /\ TypeUnchanged /\ program' = program
    BY <1>3, <1>17 DEF TypeEnd, TypeUnchanged
  <2>2. program[i].kind = "close" /\ Len(s) = 1
    BY <1>1, <1>2, <1>4, <1>6, <2>1, OnlyTheLastCloses
  <2>3. types' = << >>
    <3>1. types' \in Seq(Frames(Types)) /\ Len(types') = Len(s) - 1
      BY ONLY <1>7, <2>1, <2>2, SameTypesClose
    <3>2. Len(types') = 0
      BY <3>1, <2>2
    <3> QED
      BY <3>1, <3>2, SameLength
  <2>4. Rereads /\ usages' = << >> /\ reports' \subseteq Report /\ usages' \in Seq(Frames(Usage))
    BY <1>1, <2>1 DEF Rereads, TypeUnchanged, TypeOK
  <2>5. TypeOK'
    <3>1. pass' \in {"type", "usage", "done"} /\ cursor' \in 0 .. Len(program)
      BY <2>1, TypedParts
    <3> QED
      BY <1>8, <2>1, <2>3, <2>4, <3>1, RereadTypes, Emptiness
  <2>6. ScopesInv' /\ SymbolsInv' /\ History(H)'
    BY <1>2, <2>4, RereadKeeps
  <2>7. InStep(H)'
    <3>1. H[1] = << >> /\ SameUsages(<< >>)'
      BY <1>2, <2>4, Emptiness DEF History, SameUsages
    <3>2. program # << >> /\ H[Len(program) + 1] = << >> /\ 0 < Len(program)
      BY <1>1, <1>2, <1>6 DEF InStep
    <3>3. pass' \in {"usage", "done"}
      BY <2>1
    <3> HIDE DEF SemanticsInv
    <3> QED
      BY ONLY <3>1, <3>2, <3>3, <2>1 DEF InStep
  <2>8. ErrorsInv'
    <3>1. pass' = "usage" => errors.type = 0
      BY <1>8, <2>1
    <3>2. pass' # "scope" /\ pass' # "type"
      BY <2>1
    <3> QED
      BY <1>6, <1>8, <2>1, <3>1, <3>2 DEF ErrorsInv
  <2> QED
    BY <2>5, <2>6, <2>7, <2>8 DEF HistoryInv
<1> QED
  BY <1>10, <1>11, <1>12, <1>14, <1>15, <1>16, <1>17 DEF TypePass

-----------------------------------------------------------------------------
(***************************************************************************)
(* The usage pass.                                                         *)
(***************************************************************************)
Alike(us, s) ==
    /\ us \in Seq(Frames(Usage)) /\ Len(us) = Len(s)
    /\ \A f \in DOMAIN s : \A n \in Names : us[f][n] = None <=> s[f].binds[n] = 0

LEMMA UsageIsNotNone == ASSUME NEW u \in Usage PROVE u # None
BY SemanticsAssumption

LEMMA SlotType == ASSUME NEW at \in Nat PROVE Slot(at) \in Usage
BY DEF Slot, Usage

\* A lookup finds a frame that holds the name.
LEMMA UsageFrameIs ==
    ASSUME usages \in Seq(Frames(Usage)), NEW n \in Names
    PROVE  /\ UsageFrame(n) \in 0 .. Len(usages)
           /\ UsageFrame(n) # 0 => usages[UsageFrame(n)][n] \in Usage
<1>1. Len(usages) \in Nat /\ DOMAIN usages = 1 .. Len(usages)
      /\ \A i \in DOMAIN usages : usages[i] \in Frames(Usage)
  OBVIOUS
<1>2. CASE Holding(usages, n) = {}
  BY <1>1, <1>2 DEF UsageFrame
<1>3. CASE Holding(usages, n) # {}
  <2>1. Holding(usages, n) \subseteq 1 .. Len(usages)
    BY <1>1 DEF Holding
  <2>2. Innermost(Holding(usages, n)) \in Holding(usages, n)
    BY <1>1, <1>3, <2>1, InnermostIsOne
  <2>3. \A i \in Holding(usages, n) : i \in 1 .. Len(usages) /\ usages[i][n] \in Usage
    BY <1>1 DEF Holding, Frames
  <2>4. UsageFrame(n) = Innermost(Holding(usages, n))
    BY <1>3 DEF UsageFrame
  <2> QED
    BY <1>1, <2>2, <2>3, <2>4
<1> QED
  BY <1>2, <1>3

LEMMA ReadingAlike ==
    ASSUME NEW s \in Stack, Alike(usages, s), NEW e \in Expr, NEW us, us = Reading(usages, e)
    PROVE  Alike(us, s)
<1>1. /\ usages \in Seq(Frames(Usage)) /\ Len(usages) = Len(s) /\ Len(s) \in Nat
      /\ DOMAIN usages = 1 .. Len(s) /\ DOMAIN s = 1 .. Len(s)
      /\ \A i \in 1 .. Len(s) : usages[i] \in Frames(Usage)
  BY StackParts DEF Alike
<1> DEFINE U(i, n) == IF n \in NamesOf(e) /\ UsageFrame(n) = i
                      THEN [usages[i][n] EXCEPT !.read = TRUE] ELSE usages[i][n]
<1>2. ASSUME NEW i \in 1 .. Len(s), NEW n \in Names
      PROVE  U(i, n) \in Usage \cup {None} /\ (U(i, n) = None <=> usages[i][n] = None)
  <2>1. CASE n \in NamesOf(e) /\ UsageFrame(n) = i
    <3>1. usages[i][n] \in Usage
      BY <2>1, <1>1, UsageFrameIs
    <3>2. [usages[i][n] EXCEPT !.read = TRUE] \in Usage
      BY <3>1 DEF Usage
    <3> QED
      BY <2>1, <3>1, <3>2, UsageIsNotNone
  <2>2. CASE ~(n \in NamesOf(e) /\ UsageFrame(n) = i)
    BY <2>2, <1>1 DEF Frames
  <2> QED
    BY <2>1, <2>2
<1>3. /\ DOMAIN us = 1 .. Len(s)
      /\ \A i \in 1 .. Len(s) : us[i] = [n \in Names |-> U(i, n)]
  BY <1>1 DEF Reading
<1> HIDE DEF U
<1>4. \A i \in 1 .. Len(s) : us[i] \in Frames(Usage)
  BY <1>2, <1>3 DEF Frames
<1>5. us \in Seq(Frames(Usage)) /\ Len(us) = Len(s)
  <2>1. us = [i \in 1 .. Len(s) |-> us[i]]
    BY <1>1, <1>3 DEF Reading
  <2> QED
    BY <1>1, <1>4, <2>1
<1>6. \A i \in 1 .. Len(s) : \A n \in Names : us[i][n] = None <=> usages[i][n] = None
  BY <1>2, <1>3
<1> QED
  BY <1>1, <1>5, <1>6 DEF Alike

LEMMA AssigningAlike ==
    ASSUME NEW s \in Stack, Alike(usages, s), NEW rs, Alike(rs, s), NEW n \in Names,
           NEW us, us = Assigning(rs, n)
    PROVE  Alike(us, s)
<1>1. /\ rs \in Seq(Frames(Usage)) /\ Len(rs) = Len(s) /\ Len(s) \in Nat
      /\ DOMAIN rs = 1 .. Len(s) /\ DOMAIN s = 1 .. Len(s)
      /\ \A i \in 1 .. Len(s) : rs[i] \in Frames(Usage)
      /\ usages \in Seq(Frames(Usage)) /\ Len(usages) = Len(s)
  BY StackParts DEF Alike
<1>2. PICK f : f = UsageFrame(n)
  OBVIOUS
<1>3. CASE f = 0
  BY <1>2, <1>3 DEF Assigning
<1>4. CASE f # 0
  <2>1. f \in 1 .. Len(s) /\ usages[f][n] \in Usage
    BY <1>1, <1>2, <1>4, UsageFrameIs
  <2>2. rs[f][n] \in Usage
    <3>1. usages[f][n] # None
      BY <2>1, UsageIsNotNone
    <3>2. rs[f][n] # None
      BY <1>1, <2>1, <3>1 DEF Alike
    <3> QED
      BY <1>1, <2>1, <3>2 DEF Frames
  <2>3. PICK u : u = [rs[f][n] EXCEPT !.assigned = TRUE]
    OBVIOUS
  <2>4. u \in Usage /\ u # None
    BY <2>2, <2>3, UsageIsNotNone DEF Usage
  <2>5. PICK g : g = [rs[f] EXCEPT ![n] = u]
    OBVIOUS
  <2>6. /\ g \in Frames(Usage) /\ g[n] = u
        /\ \A m \in Names : m # n => g[m] = rs[f][m]
    BY <1>1, <2>1, <2>4, <2>5 DEF Frames
  <2>7. us = [rs EXCEPT ![f] = g]
    BY <1>2, <1>4, <2>3, <2>5 DEF Assigning
  <2>8. /\ us \in Seq(Frames(Usage)) /\ Len(us) = Len(s)
        /\ us[f] = g /\ \A i \in 1 .. Len(s) : i # f => us[i] = rs[i]
    BY ONLY <1>1, <2>1, <2>6, <2>7
  <2>9. ASSUME NEW i \in DOMAIN s, NEW m \in Names
        PROVE  us[i][m] = None <=> s[i].binds[m] = 0
    <3>1. rs[i][m] = None <=> s[i].binds[m] = 0
      BY DEF Alike
    <3>2. CASE i = f /\ m = n
      BY <3>1, <3>2, <2>2, <2>4, <2>6, <2>8, UsageIsNotNone
    <3>3. CASE i = f /\ m # n
      BY <3>1, <3>3, <2>6, <2>8
    <3>4. CASE i # f
      BY <3>1, <3>4, <1>1, <2>8
    <3> QED
      BY <3>2, <3>3, <3>4
  <2> QED
    BY <2>8, <2>9 DEF Alike
<1> QED
  BY <1>3, <1>4

LEMMA AlikeOpen ==
    ASSUME NEW s \in Stack, NEW i, NEW t, Follows(s, i, t), program[i].kind \in {"open", "guard"},
           NEW rs, Alike(rs, s), NEW us, us = Append(rs, Empty)
    PROVE  Alike(us, t)
<1>1. rs \in Seq(Frames(Usage)) /\ Len(rs) = Len(s) /\ Len(s) \in Nat
  BY StackParts DEF Alike
<1>2. Empty \in Frames(Usage) /\ \A n \in Names : Empty[n] = None
  BY DEF Empty, Frames
<1>3. /\ us \in Seq(Frames(Usage)) /\ Len(us) = Len(s) + 1
      /\ \A f \in 1 .. Len(s) : us[f] = rs[f]
      /\ us[Len(s) + 1] = Empty
  BY <1>1, <1>2, Pushing
<1>4. /\ t \in Stack /\ Len(t) = Len(s) + 1 /\ DOMAIN t = 1 .. Len(s) + 1
      /\ \A f \in 1 .. Len(s) : t[f] = s[f]
      /\ \A n \in Names : t[Len(s) + 1].binds[n] = 0
  BY FollowsOpen
<1>5. ASSUME NEW f \in DOMAIN t, NEW n \in Names
      PROVE  us[f][n] = None <=> t[f].binds[n] = 0
  <2>1. CASE f = Len(s) + 1
    BY <2>1, <1>2, <1>3, <1>4
  <2>2. CASE f # Len(s) + 1
    <3>1. f \in 1 .. Len(s) /\ f \in DOMAIN s
      BY <2>2, <1>1, <1>4, StackParts
    <3> QED
      BY <3>1, <1>3, <1>4 DEF Alike
  <2> QED
    BY <2>1, <2>2
<1> QED
  BY <1>3, <1>4, <1>5 DEF Alike

LEMMA AlikeDeclare ==
    ASSUME NEW s \in Stack, NEW i \in Nat \ {0}, NEW t, Follows(s, i, t), program[i].kind = "decl",
           program[i].name \in Names, Clean(s, i), NEW rs, Alike(rs, s),
           NEW us, us = SetTop(rs, [Top(rs) EXCEPT ![program[i].name] = Slot(i)])
    PROVE  Alike(us, t)
<1>1. PICK x \in Names : x = program[i].name
  OBVIOUS
<1>2. PICK d : d = Len(s)
  OBVIOUS
<1>3. /\ t \in Stack /\ Len(t) = d /\ DOMAIN t = 1 .. d /\ d \in 1 .. d /\ d \in Nat /\ DOMAIN s = 1 .. d
      /\ \A f \in 1 .. d - 1 : t[f] = s[f]
      /\ t[d].binds[x] = i
      /\ \A n \in Names : n # x => t[d].binds[n] = s[d].binds[n]
  BY <1>1, <1>2, FollowsDeclare, StackParts
<1>4. PICK g : g = [rs[d] EXCEPT ![x] = Slot(i)]
  OBVIOUS
<1>5. rs \in Seq(Frames(Usage)) /\ Len(rs) = d /\ rs[d] \in Frames(Usage)
  BY <1>2, <1>3 DEF Alike
<1>6. /\ g \in Frames(Usage) /\ g[x] # None
      /\ \A n \in Names : n # x => g[n] = rs[d][n]
  BY <1>4, <1>5, SlotType, UsageIsNotNone DEF Frames
<1>7. us = SetTop(rs, g)
  BY <1>1, <1>4, <1>5 DEF Top
<1>8. /\ us \in Seq(Frames(Usage)) /\ Len(us) = d
      /\ \A f \in 1 .. d - 1 : us[f] = rs[f]
      /\ us[d] = g
  BY ONLY <1>3, <1>5, <1>6, <1>7 DEF SetTop
<1>9. ASSUME NEW f \in DOMAIN t, NEW n \in Names
      PROVE  us[f][n] = None <=> t[f].binds[n] = 0
  <2>1. rs[f][n] = None <=> s[f].binds[n] = 0
    BY <1>3 DEF Alike
  <2>2. CASE f = d /\ n = x
    BY <2>2, <1>3, <1>6, <1>8
  <2>3. CASE f = d /\ n # x
    BY <2>1, <2>3, <1>3, <1>6, <1>8
  <2>4. CASE f # d
    <3>1. f \in 1 .. d - 1
      BY <2>4, <1>3
    <3> QED
      BY <3>1, <2>1, <1>3, <1>8
  <2> QED
    BY <2>2, <2>3, <2>4
<1> QED
  BY <1>3, <1>8, <1>9 DEF Alike

LEMMA AlikeClose ==
    ASSUME NEW s \in Stack, NEW i, NEW t, Follows(s, i, t), program[i].kind = "close",
           NEW rs, Alike(rs, s), NEW us, us = Pop(rs)
    PROVE  Alike(us, t) /\ Top(rs) \in Frames(Usage)
<1>1. /\ t \in Stack /\ Len(t) = Len(s) - 1 /\ DOMAIN t = 1 .. Len(s) - 1 /\ Len(s) \in Nat \ {0}
      /\ \A f \in 1 .. Len(s) - 1 : t[f] = s[f]
  BY FollowsClose
<1>2. rs \in Seq(Frames(Usage)) /\ Len(rs) = Len(s) /\ rs # << >>
  BY <1>1, Emptiness DEF Alike
<1>3. /\ us \in Seq(Frames(Usage)) /\ Len(us) = Len(rs) - 1
      /\ \A f \in 1 .. Len(rs) - 1 : us[f] = rs[f]
  BY ONLY us = Pop(rs), <1>2, Popping
<1>4. ASSUME NEW f \in DOMAIN t, NEW n \in Names
      PROVE  us[f][n] = None <=> t[f].binds[n] = 0
  <2>1. f \in 1 .. Len(s) - 1 /\ f \in DOMAIN s
    BY <1>1, StackParts
  <2>2. rs[f][n] = None <=> s[f].binds[n] = 0
    BY <2>1 DEF Alike
  <2> QED
    BY <2>1, <2>2, <1>1, <1>2, <1>3
<1>5. Top(rs) \in Frames(Usage)
  BY <1>1, <1>2 DEF Top
<1> QED
  BY <1>1, <1>2, <1>3, <1>4, <1>5 DEF Alike

LEMMA ReportTypes ==
    ASSUME cursor \in Nat
    PROVE  /\ \A e \in Expr : Uninitialized(e) \subseteq Report
           /\ \A frame \in Frames(Usage) : Leaving(frame) \subseteq Report
<1>1. ASSUME NEW e \in Expr PROVE Uninitialized(e) \subseteq Report
  BY ArgsType DEF Uninitialized, Report
<1>2. ASSUME NEW frame \in Frames(Usage) PROVE Leaving(frame) \subseteq Report
  <2>1. \A n \in Names : frame[n] # None => frame[n].at \in Nat
    BY DEF Frames, Usage
  <2> QED
    BY <2>1 DEF Leaving, Report
<1> QED
  BY <1>1, <1>2

LEMMA UsagesNow ==
    ASSUME SemanticsInv, pass = "usage", NEW H, History(H), InStep(H), NEW i, i = cursor + 1
    PROVE  /\ i \in 1 .. Len(program) /\ i \in Nat \ {0} /\ cursor \in Nat /\ errors.scope = 0
           /\ H[i] \in Stack /\ Alike(usages, H[i])
           /\ Clean(H[i], i) /\ Follows(H[i], i, H[i + 1])
           /\ program[i].kind # "close" => i < Len(program)
<1> USE DEF SemanticsInv
<1>1. /\ cursor \in 0 .. Len(program) /\ Len(program) \in Nat /\ usages \in Seq(Frames(Usage))
      /\ errors.scope = 0
  BY TypedParts DEF TypeOK, ErrorsInv
<1>2. cursor < Len(program) /\ SameUsages(H[i])
  BY DEF InStep
<1>3. i \in 1 .. Len(program) /\ i \in Nat \ {0} /\ cursor \in Nat
  BY <1>1, <1>2
<1>4. /\ H[i] \in Stack /\ Clean(H[i], i) /\ Follows(H[i], i, H[i + 1])
  BY <1>1, <1>3, VisitNow
<1>5. Alike(usages, H[i])
  BY <1>1, <1>2 DEF Alike, SameUsages
<1>6. program[i].kind # "close" => i < Len(program)
  <2>1. i = Len(program) => program[i].kind = "close"
    BY <1>1, <1>3, OnlyTheLastCloses
  <2> QED
    BY ONLY <2>1, <1>1, <1>3
<1> QED
  BY <1>1, <1>3, <1>4, <1>5, <1>6

\* A visit of the usage pass that is not the last.
LEMMA UsageMoves ==
    ASSUME SemanticsInv, pass = "usage", pass' = "usage", Walk,
           UNCHANGED << words, program, resolved, errors, scopeVars, types >>,
           NEW H, History(H), InStep(H), NEW i, i = cursor + 1, i < Len(program),
           NEW t, t = H[i + 1], Alike(usages', t), reports' \subseteq Report
    PROVE  SemanticsInv'
<1> USE DEF SemanticsInv
<1>1. Rereads
  BY DEF Rereads, scopeVars
<1>2. cursor' = i /\ cursor' \in 0 .. Len(program) /\ cursor' < Len(program)
  BY TypedParts DEF Walk, TypeOK
<1>3. usages' \in Seq(Frames(Usage)) /\ SameUsages(t)'
  BY DEF Alike, SameUsages
<1>4. TypeOK'
  <2>1. /\ errors' \in [scope : Nat, type : Nat, internal : Nat]
        /\ types' \in Seq(Frames(Types)) /\ types' = << >>
    BY DEF TypeOK
  <2> QED
    BY <1>1, <1>2, <1>3, <2>1, RereadTypes
<1>5. ScopesInv' /\ SymbolsInv' /\ History(H)'
  BY <1>1, RereadKeeps
<1>6. InStep(H)'
  <2>1. H[cursor' + 1] = t /\ cursor' < Len(program')
    BY <1>2
  <2>2. program' # << >> /\ H[Len(program') + 1] = << >>
    BY DEF InStep
  <2>3. pass' = "usage" /\ SameUsages(t)'
    BY <1>3
  <2> QED
    BY ONLY <2>1, <2>2, <2>3 DEF InStep
<1>7. ErrorsInv'
  BY DEF ErrorsInv
<1> QED
  BY <1>4, <1>5, <1>6, <1>7 DEF HistoryInv

LEMMA UsagePassKeeps ==
    ASSUME SemanticsInv, UsagePass
    PROVE  SemanticsInv'
<1> USE DEF SemanticsInv
<1>1. pass = "usage"
  BY DEF UsagePass, UsageOpen, UsageGuard, UsageDeclare, UsageAssign, UsagePrint, UsageClose, UsageVisit
<1>2. PICK H : History(H) /\ InStep(H)
  BY DEF HistoryInv
<1>3. PICK i : i = cursor + 1
  OBVIOUS
<1>4. PICK s : s = H[i]
  OBVIOUS
<1>5. PICK t : t = H[i + 1]
  OBVIOUS
<1>6. /\ i \in 1 .. Len(program) /\ i \in Nat \ {0} /\ cursor \in Nat /\ errors.scope = 0
      /\ s \in Stack /\ Alike(usages, s)
      /\ Clean(s, i) /\ Follows(s, i, t)
      /\ program[i].kind # "close" => i < Len(program)
  BY <1>1, <1>2, <1>3, <1>4, <1>5, UsagesNow
<1>7. reports \subseteq Report
  BY DEF TypeOK
<1>8. \A f : /\ Walk /\ UNCHANGED << words, program, resolved, errors, scopeVars, types >>
             /\ pass' = pass /\ i < Len(program)
             /\ usages' = f /\ Alike(f, t) /\ reports' \subseteq Report
             => SemanticsInv'
  BY <1>1, <1>2, <1>3, <1>5, UsageMoves
<1>9. ASSUME NEW k \in {"guard", "assign", "print"}, UsageVisit(k)
      PROVE  /\ Here = program[i] /\ program[i].kind = k /\ Here.expr \in Expr
             /\ Alike(Reading(usages, Here.expr), s)
             /\ Uninitialized(Here.expr) \subseteq Report
             /\ k = "assign" => Here.name \in Names
  <2>1. Here = program[i] /\ program[i].kind = k
    BY <1>3, <1>9 DEF UsageVisit, Here
  <2>2. HasExpr(i)
    BY <2>1 DEF HasExpr
  <2>3. Here.expr \in Expr /\ (k = "assign" => Here.name \in Names)
    BY <1>6, <2>1, <2>2, VisitParts
  <2> QED
    BY <1>6, <2>1, <2>3, ReadingAlike, ReportTypes
<1>10. CASE UsageOpen
  <2>1. UsageVisit("open") /\ usages' = Append(usages, Empty) /\ pass' = pass /\ reports' = reports
    BY <1>10 DEF UsageOpen
  <2>2. program[i].kind = "open"
    BY <1>3, <2>1 DEF UsageVisit, Here
  <2>3. Alike(usages', t)
    BY <1>6, <2>1, <2>2, AlikeOpen
  <2> QED
    BY <1>6, <1>7, <1>8, <2>1, <2>2, <2>3 DEF UsageVisit
<1>11. CASE UsageGuard
  <2>1. /\ UsageVisit("guard") /\ usages' = Append(Reading(usages, Here.expr), Empty)
        /\ pass' = pass /\ reports' = reports \cup Uninitialized(Here.expr)
    BY <1>11 DEF UsageGuard
  <2>2. /\ program[i].kind = "guard" /\ Alike(Reading(usages, Here.expr), s)
        /\ reports' \subseteq Report
    BY <1>7, <1>9, <2>1
  <2>3. Alike(usages', t)
    BY <1>6, <2>1, <2>2, AlikeOpen
  <2> QED
    BY <1>6, <1>8, <2>1, <2>2, <2>3 DEF UsageVisit
<1>12. CASE UsageDeclare
  <2>1. /\ UsageVisit("decl") /\ pass' = pass /\ reports' = reports
        /\ usages' = SetTop(usages, [Top(usages) EXCEPT ![Here.name] = Slot(cursor + 1)])
    BY <1>12 DEF UsageDeclare
  <2>2. Here = program[i] /\ program[i].kind = "decl"
    BY <1>3, <2>1 DEF UsageVisit, Here
  <2>3. program[i].name \in Names
    BY <1>6, <2>2, VisitParts
  <2>4. Alike(usages', t)
    BY <1>3, <1>6, <2>1, <2>2, <2>3, AlikeDeclare
  <2> QED
    BY <1>6, <1>7, <1>8, <2>1, <2>2, <2>4 DEF UsageVisit
<1>13. CASE UsageAssign
  <2>1. /\ UsageVisit("assign") /\ usages' = Assigning(Reading(usages, Here.expr), Here.name)
        /\ pass' = pass /\ reports' = reports \cup Uninitialized(Here.expr)
    BY <1>13 DEF UsageAssign
  <2>2. /\ program[i].kind = "assign" /\ Alike(Reading(usages, Here.expr), s)
        /\ reports' \subseteq Report /\ Here.name \in Names
    BY <1>7, <1>9, <2>1
  <2>3. Alike(usages', s)
    BY <1>6, <2>1, <2>2, AssigningAlike
  <2>4. t = s
    BY <1>6, <2>2 DEF Follows
  <2> QED
    BY <1>6, <1>8, <2>1, <2>2, <2>3, <2>4 DEF UsageVisit
<1>14. CASE UsagePrint
  <2>1. /\ UsageVisit("print") /\ usages' = Reading(usages, Here.expr)
        /\ pass' = pass /\ reports' = reports \cup Uninitialized(Here.expr)
    BY <1>14 DEF UsagePrint
  <2>2. /\ program[i].kind = "print" /\ Alike(usages', s) /\ reports' \subseteq Report
    BY <1>7, <1>9, <2>1
  <2>3. t = s
    BY <1>6, <2>2 DEF Follows
  <2> QED
    BY <1>6, <1>8, <2>1, <2>2, <2>3 DEF UsageVisit
<1>15. CASE UsageClose
  <2>1. /\ UsageVisit("close") /\ usages' = Pop(usages)
        /\ reports' = reports \cup Leaving(Top(usages))
        /\ pass' = IF cursor' = Len(program) THEN "done" ELSE pass
    BY <1>15 DEF UsageClose
  <2>2. program[i].kind = "close" /\ cursor' = i
    BY <1>3, <2>1 DEF UsageVisit, Walk, Here
  <2>3. Alike(usages', t) /\ Top(usages) \in Frames(Usage)
    BY <1>6, <2>1, <2>2, AlikeClose
  <2>4. reports' \subseteq Report
    BY <1>6, <1>7, <2>1, <2>3, ReportTypes
  <2>5. CASE i < Len(program)
    <3>1. pass' = pass
      BY <2>1, <2>2, <2>5
    <3> QED
      BY <1>8, <2>1, <2>3, <2>4, <2>5, <3>1 DEF UsageVisit
  <2>6. CASE ~(i < Len(program))
    <3>1. i = Len(program)
      <4>1. Len(program) \in Nat
        BY TypedParts
      <4> QED
        BY ONLY <4>1, <1>6, <2>6
    <3>2. pass' = "done"
      BY <2>1, <2>2, <3>1
    <3>3. usages' = << >>
      <4>1. t = << >>
        BY <1>2, <1>5, <1>1, <3>1 DEF InStep
      <4>2. usages' \in Seq(Frames(Usage)) /\ Len(usages') = 0
        BY <2>3, <4>1, Emptiness DEF Alike
      <4> QED
        BY <4>2, SameLength
    <3>4. Rereads
      BY <1>1, <2>1, <3>2 DEF Rereads, UsageVisit, scopeVars
    <3>5. TypeOK'
      <4>1. /\ errors' \in [scope : Nat, type : Nat, internal : Nat]
            /\ types' \in Seq(Frames(Types)) /\ types' = << >>
        BY <1>1, <2>1 DEF TypeOK, UsageVisit
      <4>2. cursor' \in 0 .. Len(program) /\ pass' \in {"type", "usage", "done"}
        BY <1>6, <2>2, <3>2
      <4>3. usages' \in Seq(Frames(Usage))
        BY <2>3 DEF Alike
      <4> QED
        BY <2>4, <3>3, <3>4, <4>1, <4>2, <4>3, RereadTypes
    <3>6. ScopesInv' /\ SymbolsInv' /\ History(H)'
      BY <1>2, <3>4, RereadKeeps
    <3>7. InStep(H)'
      <4>1. program' = program
        BY <2>1 DEF UsageVisit
      <4> QED
        BY <1>1, <1>2, <3>2, <4>1 DEF InStep
    <3>8. ErrorsInv'
      BY <2>1, <3>2 DEF ErrorsInv, UsageVisit
    <3> QED
      BY <3>5, <3>6, <3>7, <3>8 DEF HistoryInv
  <2> QED
    BY <2>5, <2>6
<1> QED
  BY <1>10, <1>11, <1>12, <1>13, <1>14, <1>15 DEF UsagePass

-----------------------------------------------------------------------------
(***************************************************************************)
(* The theorems.                                                           *)
(***************************************************************************)
LEMMA SemanticsInit == ASSUME Init PROVE SemanticsInv
<1> USE DEF Init
<1>1. TypeOK
  BY Emptiness DEF TypeOK
<1>2. ScopesInv /\ SymbolsInv /\ ErrorsInv
  BY Emptiness DEF ScopesInv, SymbolsInv, ErrorsInv
<1>3. PICK H : H = << << >> >>
  OBVIOUS
<1>4. << >> \in Stack
  BY Emptiness DEF Stack
<1>5. H \in Seq(Stack) /\ Len(H) = 1 /\ H[1] = << >>
  BY <1>3, <1>4
<1>6. Recorded(<< >>) /\ SameScopes(<< >>)
  BY Emptiness DEF Recorded, SameScopes
<1>7. History(H) /\ InStep(H)
  BY <1>5, <1>6, Emptiness DEF History, InStep
<1> QED
  BY <1>1, <1>2, <1>7 DEF SemanticsInv, HistoryInv

LEMMA SemanticsStutter == ASSUME SemanticsInv, UNCHANGED vars PROVE SemanticsInv'
<1> USE DEF vars, scopeVars, SemanticsInv
<1>1. TypeOK'
  <2>1. Visit' = Visit
    BY DEF Visit
  <2> QED
    BY <2>1 DEF TypeOK
<1>2. ScopesInv' /\ SymbolsInv' /\ ErrorsInv'
  BY DEF ScopesInv, SymbolsInv, ErrorsInv
<1>3. PICK H : History(H) /\ InStep(H)
  BY DEF HistoryInv
<1>4. ASSUME NEW s, NEW i, NEW t
      PROVE  /\ Follows(s, i, t) => Follows(s, i, t)'
             /\ Annotated(s, i) => Annotated(s, i)'
             /\ Clean(s, i) => Clean(s, i)'
             /\ Recorded(s) => Recorded(s)'
  BY DEF Follows, Annotated, Clean, Recorded, HasExpr
<1>5. History(H)'
  BY <1>3, <1>4 DEF History
<1>6. InStep(H)'
  BY <1>3 DEF InStep, SameScopes, SameTypes, SameUsages
<1> QED
  BY <1>1, <1>2, <1>5, <1>6 DEF HistoryInv

LEMMA SemanticsStep == ASSUME SemanticsInv, [Next]_vars PROVE SemanticsInv'
<1>1. CASE ScopePass
  <2>1. TypeOK /\ ScopesInv /\ SymbolsInv
    BY DEF SemanticsInv
  <2> QED
    BY <1>1, <2>1, ScopePassKeeps, ScopePassHistory DEF SemanticsInv
<1>2. CASE TypePass
  BY <1>2, TypePassKeeps
<1>3. CASE UsagePass
  BY <1>3, UsagePassKeeps
<1>4. CASE UNCHANGED vars
  BY <1>4, SemanticsStutter
<1> QED
  BY <1>1, <1>2, <1>3, <1>4 DEF Next

LEMMA SemanticsInvariant == Spec => []SemanticsInv
<1>1. Init => SemanticsInv
  BY SemanticsInit
<1>2. SemanticsInv /\ [Next]_vars => SemanticsInv'
  BY SemanticsStep
<1> QED
  BY <1>1, <1>2, PTL DEF Spec

\* Every variable of the passes has its type; in particular the stacks of the
\* type and usage passes are empty when the pass ends (semantic_type.cpp,
\* semantic_usage.cpp: pushScope and popScope balance).
THEOREM TypeCorrect == Spec => []TypeOK
<1>1. SemanticsInv => TypeOK
  BY DEF SemanticsInv
<1> QED
  BY <1>1, SemanticsInvariant, PTL

\* The key (name, scope id) by which the code generator distinguishes variables
\* belongs to one entry of the symbol table, for every program
\* (ScopeStack::tryDeclare, symbol_table.cpp).
THEOREM UniqueKeys == Spec => []KeysUnique
<1>1. SemanticsInv => KeysUnique
  <2> SUFFICES ASSUME SemanticsInv PROVE KeysUnique
    OBVIOUS
  <2> USE TypedParts DEF SemanticsInv
  <2>1. ASSUME NEW k \in DOMAIN symbols
        PROVE  symbols[k].scope + 1 \in DOMAIN allScopes
               /\ allScopes[symbols[k].scope + 1].depth = symbols[k].depth
    <3>1. symbols[k].scope < Len(allScopes) /\ symbols[k].scope \in Nat
          /\ allScopes[symbols[k].scope + 1].depth = symbols[k].depth
      BY DEF SymbolsInv
    <3> QED
      BY <3>1
  <2>2. ASSUME NEW i \in DOMAIN allScopes
        PROVE  LET p == allScopes[i].parent IN
               IF i = 1 THEN p = None ELSE p + 1 < i /\ allScopes[p + 1].depth + 1 = allScopes[i].depth
    BY DEF ScopesInv
  <2>3. \A k, l \in DOMAIN symbols :
           symbols[k].name = symbols[l].name /\ symbols[k].scope = symbols[l].scope => k = l
    BY DEF SymbolsInv
  <2> QED
    BY <2>1, <2>2, <2>3 DEF KeysUnique
<1> QED
  BY <1>1, SemanticsInvariant, PTL

\* The type checker finds a type for every name once the scope pass has
\* succeeded, so its "internal error" cannot be reported (semantic_type.cpp).
THEOREM NoNameWithoutType == Spec => []NoInternalError
<1>1. SemanticsInv => NoInternalError
  BY DEF SemanticsInv, ErrorsInv, NoInternalError
<1> QED
  BY <1>1, SemanticsInvariant, PTL

\* A name of a visit, with the key in its node, is bound by the history.
LEMMA KeyIs ==
    ASSUME SemanticsInv, errors.scope = 0, NEW i \in 1 .. Len(program),
           NEW s \in Stack, Annotated(s, i), Clean(s, i), NEW key \in Reads(i) \cup Writes(i)
    PROVE  /\ key[1] \in Names /\ Bound(s, key[1]) # {}
           /\ key = << key[1], IdIn(s, key[1]) >>
<1> USE DEF SemanticsInv
<1>1. CASE key \in Reads(i)
  <2>1. HasExpr(i)
    BY <1>1 DEF Reads
  <2>2. program[i].expr \in Expr
    BY <2>1, VisitParts
  <2>3. PICK k \in DOMAIN program[i].expr.args :
           /\ program[i].expr.args[k] \in Names
           /\ key = << program[i].expr.args[k], resolved[i].args[k] >>
    BY <1>1, <2>1 DEF Reads
  <2>4. resolved[i].args[k] = IdIn(s, program[i].expr.args[k])
    BY <2>1, <2>3 DEF Annotated
  <2>5. program[i].expr.args[k] \in NamesOf(program[i].expr)
    BY <2>2, <2>3, ArgsType
  <2>6. Bound(s, program[i].expr.args[k]) # {}
    BY <2>1, <2>5 DEF Clean
  <2> QED
    BY <2>3, <2>4, <2>6
<1>2. CASE key \in Writes(i)
  <2>1. program[i].kind = "assign" /\ key = << program[i].name, resolved[i].lhs >>
    BY <1>2 DEF Writes
  <2> QED
    BY <2>1, VisitParts DEF Annotated, Clean
<1> QED
  BY <1>1, <1>2

\* The type pass and the symbol table agree on every name, for every program:
\* the two stacks of scopes never get out of step (semantic_scope.cpp,
\* semantic_type.cpp).
THEOREM TypesAgreeAlways == Spec => []TypesAgree
<1>1. SemanticsInv => TypesAgree
  <2> SUFFICES ASSUME SemanticsInv, pass = "type", cursor < Len(program),
                      NEW key \in Reads(cursor + 1) \cup Writes(cursor + 1),
                      NEW k \in SymbolsOf(key)
               PROVE  TypeLookup(key[1]) = symbols[k].type
    BY DEF TypesAgree
  <2>1. PICK H : History(H) /\ InStep(H)
    BY DEF SemanticsInv, HistoryInv
  <2>2. PICK i \in 1 .. Len(program), s \in Stack :
           /\ i = cursor + 1 /\ errors.scope = 0 /\ Recorded(s) /\ SameTypes(s)
           /\ Annotated(s, i) /\ Clean(s, i) /\ types \in Seq(Frames(Types))
    BY <2>1, TypesNow
  <2>3. /\ key[1] \in Names /\ Bound(s, key[1]) # {}
        /\ key = << key[1], IdIn(s, key[1]) >>
    BY <2>2, KeyIs
  <2>4. \A l \in SymbolsOf(<< key[1], IdIn(s, key[1]) >>) : symbols[l].type = TypeLookup(key[1])
    BY <2>2, <2>3, TypeLookupIs
  <2> QED
    BY <2>3, <2>4
<1> QED
  BY <1>1, SemanticsInvariant, PTL

-----------------------------------------------------------------------------
(***************************************************************************)
(* What the code generator assumes.                                        *)
(***************************************************************************)
\* A visit for which the type pass reports nothing is well typed by the keys.
LEMMA FittingIsWellTyped ==
    ASSUME SemanticsInv, pass = "type", HasExpr(cursor + 1),
           Misfits(Here.expr) = 0,
           Here.kind = "assign" /\ TypeLookup(Here.name) # None /\ Infer(Here.expr) # None =>
               TypeLookup(Here.name) = Infer(Here.expr)
    PROVE  WellTyped(cursor + 1)
<1> USE DEF SemanticsInv
<1>1. PICK H : History(H) /\ InStep(H)
  BY DEF HistoryInv
<1>2. PICK i \in 1 .. Len(program), s \in Stack :
         /\ i = cursor + 1 /\ errors.scope = 0 /\ Recorded(s) /\ SameTypes(s)
         /\ Annotated(s, i) /\ Clean(s, i) /\ types \in Seq(Frames(Types))
  BY <1>1, TypesNow
<1>3. PICK e \in Expr : e = Here.expr
  BY NamesHaveTypes
<1>4. Here = program[i] /\ program[i].expr = e /\ HasExpr(i)
  BY <1>2, <1>3 DEF Here
<1>5. Known(e) /\ (\A k \in DOMAIN e.args : AtomType(e.args[k]) \in Types)
  BY <1>3, NamesHaveTypes
<1>6. ASSUME NEW n \in Names, Bound(s, n) # {}
      PROVE  TypeLookup(n) = DeclType(<< n, IdIn(s, n) >>) /\ TypeLookup(n) # None
  BY <1>2, <1>6, TypeLookupIs
<1>7. ArgTypes(i) = Operands(e)
  <2>1. ASSUME NEW k \in DOMAIN e.args, e.args[k] \in Names
        PROVE  DeclType(<< e.args[k], resolved[i].args[k] >>) = TypeLookup(e.args[k])
    <3>1. e.args[k] \in NamesOf(e)
      BY <2>1, ArgsType
    <3>2. Bound(s, e.args[k]) # {}
      BY <3>1, <1>2, <1>4 DEF Clean
    <3>3. resolved[i].args[k] = IdIn(s, e.args[k])
      BY <2>1, <1>2, <1>4 DEF Annotated
    <3> QED
      BY <2>1, <3>2, <3>3, <1>6
  <2>2. ArgTypes(i) = [k \in DOMAIN e.args |-> IF e.args[k] \in Names
                         THEN DeclType(<< e.args[k], resolved[i].args[k] >>) ELSE e.args[k]]
    BY <1>4 DEF ArgTypes
  <2>3. \A k \in DOMAIN e.args :
           (IF e.args[k] \in Names
            THEN DeclType(<< e.args[k], resolved[i].args[k] >>) ELSE e.args[k]) = AtomType(e.args[k])
    BY <2>1 DEF AtomType
  <2> QED
    BY <2>2, <2>3 DEF Operands
<1>8. Fits(e)
  BY <1>3, <1>5 DEF Misfits
<1>9. /\ e.op \in {"atom", "add", "compare"} /\ DOMAIN e.args = 1 .. Len(e.args)
      /\ Len(e.args) = IF e.op = "atom" THEN 1 ELSE 2
  <2>1. IsExpr(e) /\ DOMAIN e.args = 1 .. Len(e.args)
    BY ArgsType DEF Expr
  <2> QED
    BY <2>1 DEF IsExpr
<1>10. ASSUME e.op = "add" PROVE Operands(e)[1] = "int" /\ Operands(e)[2] = "int"
  <2>1. 1 \in DOMAIN e.args /\ 2 \in DOMAIN e.args
    BY <1>9, <1>10
  <2> QED
    BY <2>1, <1>8, <1>10 DEF Fits
<1>11. ASSUME e.op = "compare" PROVE Operands(e)[1] = Operands(e)[2]
  <2>1. 1 \in DOMAIN e.args /\ 2 \in DOMAIN e.args
    BY <1>9, <1>11
  <2> QED
    BY <2>1, <1>8, <1>11 DEF Fits
<1>12. ASSUME program[i].kind = "assign"
       PROVE  DeclType(<< program[i].name, resolved[i].lhs >>) =
                 CASE e.op = "atom" -> Operands(e)[1] [] e.op = "add" -> "int" [] e.op = "compare" -> "boolean"
  <2>1. program[i].name \in Names /\ Bound(s, program[i].name) # {}
        /\ resolved[i].lhs = IdIn(s, program[i].name)
    BY <1>2, <1>12, VisitParts DEF Clean, Annotated
  <2>2. /\ TypeLookup(program[i].name) = DeclType(<< program[i].name, resolved[i].lhs >>)
        /\ TypeLookup(program[i].name) # None
    BY <2>1, <1>6
  <2>3. Infer(e) = CASE e.op = "atom" -> Operands(e)[1] [] e.op = "add" -> "int" [] e.op = "compare" -> "boolean"
    BY <1>5, <1>8, <1>9 DEF Infer
  <2>4. Infer(e) \in Types
    <3>1. CASE e.op = "atom"
      <4>1. 1 \in DOMAIN e.args
        BY <1>9, <3>1
      <4>2. Operands(e)[1] \in Types
        BY <4>1, <1>5 DEF Operands
      <4> QED
        BY <3>1, <4>2, <2>3
    <3>2. CASE e.op # "atom"
      BY <3>2, <2>3, <1>9 DEF Types
    <3> QED
      BY <3>1, <3>2
  <2>5. Infer(e) # None
    BY <2>4, SemanticsAssumption
  <2> QED
    BY <2>2, <2>3, <2>5, <1>3, <1>4, <1>12
<1> QED
  BY <1>2, <1>4, <1>7, <1>10, <1>11, <1>12 DEF WellTyped

LEMMA WellTypedStays ==
    ASSUME UNCHANGED << program, resolved, symbols >>, NEW i, WellTyped(i)
    PROVE  WellTyped(i)'
<1>1. \A key : DeclType(key)' = DeclType(key)
  BY DEF DeclType, SymbolsOf
<1>2. ArgTypes(i)' = ArgTypes(i)
  BY <1>1 DEF ArgTypes
<1> QED
  BY <1>1, <1>2 DEF WellTyped, HasExpr

LEMMA CheckedStep ==
    ASSUME SemanticsInv, SemanticsInv', CheckedInv, [Next]_vars
    PROVE  CheckedInv'
<1> USE DEF SemanticsInv
<1>1. CASE ScopePass
  <2>1. pass = "scope" /\ cursor' = cursor
    BY <1>1 DEF ScopePass, ScopeBlock, ScopeGuard, ScopeDeclare, ScopeAssign, ScopePrint, ScopeLeave, Reach
  <2>2. CASE pass' = "scope"
    BY <2>2 DEF CheckedInv
  <2>3. CASE pass' = "type"
    <3>1. cursor' = 0
      BY <2>1 DEF ErrorsInv
    <3> QED
      BY <2>3, <3>1 DEF CheckedInv
  <2>4. CASE pass' \notin {"scope", "type"}
    <3>1. ScopeLeave
      BY <1>1, <2>1, <2>4 DEF ScopePass, ScopeBlock, ScopeGuard, ScopeDeclare, ScopeAssign, ScopePrint, Reach
    <3>2. pass' = "done" /\ errors'.scope # 0
      BY <2>4, <3>1 DEF ScopeLeave
    <3> QED
      BY <3>2 DEF CheckedInv
  <2> QED
    BY <2>2, <2>3, <2>4
<1>2. CASE TypePass
  <2>1. pass = "type" /\ UNCHANGED << program, resolved, symbols >>
    BY <1>2 DEF TypePass, TypeOpen, TypeGuard, TypeDeclare, TypeAssign, TypePrint, TypeClose, TypeEnd,
                TypeVisit, TypeUnchanged, scopeVars
  <2>2. \A i : WellTyped(i) => WellTyped(i)'
    BY <2>1, WellTypedStays
  <2>3. cursor \in Nat /\ Len(program) \in Nat /\ cursor \in 0 .. Len(program)
        /\ errors \in [scope : Nat, type : Nat, internal : Nat] /\ errors.type \in Nat
        /\ errors.internal = 0
    BY TypedParts DEF TypeOK, ErrorsInv
  <2>4. errors.type = 0 => \A i \in 1 .. cursor : WellTyped(i)
    BY <2>1 DEF CheckedInv
  <2>5. CASE TypeEnd
    <3>1. PICK H : History(H) /\ InStep(H)
      BY DEF HistoryInv
    <3>2. cursor + 1 = Len(program) /\ errors' = errors /\ pass' # "type"
      BY <2>5 DEF TypeEnd
    <3>3. program[cursor + 1].kind = "close"
      <4>1. PICK i \in 1 .. Len(program) : i = cursor + 1
        BY <2>3, <3>2
      <4>2. errors.scope = 0
        BY <2>1 DEF ErrorsInv
      <4> QED
        BY <2>1, <3>1, <3>2, <4>1, <4>2, OnlyTheLastCloses
    <3>4. WellTyped(cursor + 1)
      BY <3>3 DEF WellTyped, HasExpr
    <3>5. errors.type = 0 => \A i \in 1 .. Len(program) : WellTyped(i)
      <4>1. \A i \in 1 .. Len(program) : i \in 1 .. cursor \/ i = cursor + 1
        BY <2>3, <3>2
      <4> QED
        BY <4>1, <2>4, <3>4
    <3>6. program' = program
      BY <2>1
    <3> QED
      BY <2>2, <3>2, <3>5, <3>6 DEF CheckedInv
  <2>6. CASE ~TypeEnd
    <3>1. pass' = "type" /\ cursor' = cursor + 1
      BY <1>2, <2>1, <2>6 DEF TypePass, TypeOpen, TypeGuard, TypeDeclare, TypeAssign, TypePrint,
                              TypeClose, TypeVisit, Walk
    <3>2. ASSUME errors'.type = 0 PROVE errors.type = 0 /\ WellTyped(cursor + 1)
      <4>1. CASE TypeOpen \/ TypeDeclare \/ TypeClose
        <5>1. errors' = errors /\ ~HasExpr(cursor + 1)
          BY <4>1 DEF TypeOpen, TypeDeclare, TypeClose, TypeVisit, Here, HasExpr
        <5> QED
          BY <3>2, <5>1 DEF WellTyped
      <4>2. ASSUME NEW m \in Nat, TypeError(Internal(Here.expr), m), HasExpr(cursor + 1)
            PROVE  m = 0 /\ errors.type = 0
        <5>1. Internal(Here.expr) = 0
          BY <2>1, <4>2, NamesHaveTypes
        <5>2. errors'.type = errors.type + m
          BY <2>3, <4>2, <5>1, TypeErrorIs
        <5> QED
          BY <2>3, <3>2, <5>2
      <4>3. CASE TypeGuard \/ TypePrint
        <5>1. TypeError(Internal(Here.expr), Misfits(Here.expr)) /\ HasExpr(cursor + 1)
              /\ Here.kind # "assign"
          BY <4>3 DEF TypeGuard, TypePrint, TypeVisit, Here, HasExpr
        <5>2. Misfits(Here.expr) = 0 /\ errors.type = 0
          BY <4>2, <5>1, MisfitsType
        <5> QED
          BY <2>1, <5>1, <5>2, FittingIsWellTyped
      <4>4. CASE TypeAssign
        <5>1. PICK c : c = IF TypeLookup(Here.name) # None /\ Infer(Here.expr) # None
                              /\ TypeLookup(Here.name) # Infer(Here.expr) THEN 1 ELSE 0
          OBVIOUS
        <5>2. PICK d \in Nat : d = Misfits(Here.expr)
          BY MisfitsType
        <5>3. TypeError(Internal(Here.expr), d + c) /\ HasExpr(cursor + 1)
          BY <4>4, <5>1, <5>2 DEF TypeAssign, TypeVisit, Here, HasExpr
        <5>4. c \in {0, 1} /\ d + c \in Nat
          BY <5>1, <5>2
        <5>5. d + c = 0 /\ errors.type = 0
          BY <4>2, <5>3, <5>4
        <5>6. d = 0 /\ c = 0
          BY <5>2, <5>4, <5>5
        <5> QED
          BY <2>1, <5>1, <5>2, <5>3, <5>5, <5>6, FittingIsWellTyped
      <4> QED
        BY <1>2, <2>6, <4>1, <4>3, <4>4 DEF TypePass
    <3>3. \A i \in 1 .. cursor + 1 : i \in 1 .. cursor \/ i = cursor + 1
      BY <2>3
    <3>4. errors'.type = 0 => \A i \in 1 .. cursor' : WellTyped(i)'
      BY <2>2, <2>4, <3>1, <3>2, <3>3
    <3> QED
      BY <3>1, <3>4 DEF CheckedInv
  <2> QED
    BY <2>5, <2>6
<1>3. CASE UsagePass \/ UNCHANGED vars
  <2>1. CASE UsagePass
    <3>1. pass = "usage" /\ pass' \in {"usage", "done"} /\ UNCHANGED << program, resolved, symbols, errors >>
      BY <2>1 DEF UsagePass, UsageOpen, UsageGuard, UsageDeclare, UsageAssign, UsagePrint, UsageClose,
                  UsageVisit, scopeVars
    <3>2. \A i : WellTyped(i) => WellTyped(i)'
      BY <3>1, WellTypedStays
    <3> QED
      BY <3>1, <3>2 DEF CheckedInv
  <2>2. CASE UNCHANGED vars
    <3>1. UNCHANGED << program, resolved, symbols, errors, pass, cursor >>
      BY <2>2 DEF vars, scopeVars
    <3>2. \A i : WellTyped(i) => WellTyped(i)'
      BY <3>1, WellTypedStays
    <3> QED
      BY <3>1, <3>2 DEF CheckedInv
  <2> QED
    BY <1>3, <2>1, <2>2
<1> QED
  BY <1>1, <1>2, <1>3 DEF Next

\* What the code generator takes for granted holds of every program the passes
\* accept (codegen.cpp: lookups by key, additions of ints, comparisons of one type).
THEOREM CodegenMayAssume == Spec => []CodegenAssumptions
<1>1. Init => CheckedInv
  BY DEF Init, CheckedInv
<1>2. SemanticsInv /\ SemanticsInv' /\ CheckedInv /\ [Next]_vars => CheckedInv'
  BY CheckedStep
<1>3. SemanticsInv /\ CheckedInv => CodegenAssumptions
  <2> SUFFICES ASSUME SemanticsInv, CheckedInv, Accepted, NEW i \in DOMAIN program
               PROVE  (\A key \in Reads(i) \cup Writes(i) : SymbolsOf(key) # {}) /\ WellTyped(i)
    BY DEF CodegenAssumptions, WellTyped
  <2>1. pass = "done" /\ errors.scope = 0 /\ errors.type = 0
    BY DEF Accepted
  <2>2. i \in 1 .. Len(program)
    BY TypedParts DEF SemanticsInv
  <2>3. WellTyped(i)
    BY <2>1, <2>2 DEF CheckedInv
  <2>4. ASSUME NEW key \in Reads(i) \cup Writes(i) PROVE SymbolsOf(key) # {}
    <3>1. PICK H : History(H)
      BY DEF SemanticsInv, HistoryInv
    <3>2. PICK s \in Stack : Recorded(s) /\ Annotated(s, i) /\ Clean(s, i)
      BY <2>1, <2>2, <3>1, VisitNow
    <3>3. /\ key[1] \in Names /\ Bound(s, key[1]) # {}
          /\ key = << key[1], IdIn(s, key[1]) >>
      BY <2>1, <2>2, <3>2, KeyIs
    <3>4. PICK f \in DOMAIN s : s[f].binds[key[1]] # 0 /\ IdIn(s, key[1]) = s[f].id
      BY <3>3, IdInIs, StackParts
    <3> QED
      BY <3>2, <3>3, <3>4, BindingIs
  <2> QED
    BY <2>3, <2>4
<1> QED
  BY <1>1, <1>2, <1>3, SemanticsInvariant, PTL DEF Spec


-----------------------------------------------------------------------------
(***************************************************************************)
(* Lexical scoping: what the ids in the nodes mean, in terms of positions  *)
(* in the program alone.                                                   *)
(*                                                                         *)
(* The history of Semantics_proofs is a stack for each visit; its length   *)
(* is the Depth at that visit, and a frame binds a name to the first of    *)
(* the declarations of that depth which are still visible.                 *)
(***************************************************************************)
(***************************************************************************)
(* Depth counts blocks.                                                    *)
(***************************************************************************)
\* The visits up to i of some kinds.
OfKind(K, i) == {j \in 1 .. i : program[j].kind \in K}

LEMMA Counting ==
    ASSUME NEW K, NEW i \in Nat, i # 0
    PROVE  /\ Cardinality(OfKind(K, i - 1)) \in Nat
           /\ Cardinality(OfKind(K, i)) =
                 Cardinality(OfKind(K, i - 1)) + IF program[i].kind \in K THEN 1 ELSE 0
<1>1. PICK h \in Nat : h = i - 1 /\ i = h + 1
  OBVIOUS
<1>2. IsFiniteSet(1 .. h)
  BY FS_Interval
<1>3. IsFiniteSet(OfKind(K, h)) /\ i \notin OfKind(K, h)
  <2>1. OfKind(K, h) \in SUBSET (1 .. h) /\ i \notin OfKind(K, h)
    BY <1>1 DEF OfKind
  <2> QED
    BY <2>1, <1>2, FS_Subset
<1>4. Cardinality(OfKind(K, h)) \in Nat
  BY <1>3, FS_CardinalityType
<1>5. CASE program[i].kind \in K
  <2>1. OfKind(K, i) = OfKind(K, h) \cup {i}
    BY <1>1, <1>5 DEF OfKind
  <2> QED
    BY <1>1, <1>3, <1>4, <1>5, <2>1, FS_AddElement
<1>6. CASE program[i].kind \notin K
  <2>1. OfKind(K, i) = OfKind(K, h)
    BY <1>1, <1>6 DEF OfKind
  <2> QED
    BY <1>1, <1>4, <1>6, <2>1
<1> QED
  BY <1>5, <1>6

LEMMA DepthStep ==
    ASSUME NEW i \in Nat, i # 0
    PROVE  /\ program[i].kind \in {"open", "guard"} => Depth(i) = Depth(i - 1) + 1
           /\ program[i].kind = "close" => Depth(i) = Depth(i - 1) - 1
           /\ program[i].kind \notin {"open", "guard", "close"} => Depth(i) = Depth(i - 1)
<1>1. \A h : Depth(h) = Cardinality(OfKind({"open", "guard"}, h)) - Cardinality(OfKind({"close"}, h))
  <2> TAKE h
  <2>1. OfKind({"close"}, h) = {j \in 1 .. h : program[j].kind = "close"}
    BY DEF OfKind
  <2> QED
    BY <2>1 DEF Depth, OfKind
<1>2. PICK a, b, c, d :
         /\ a = Cardinality(OfKind({"open", "guard"}, i - 1)) /\ b = Cardinality(OfKind({"open", "guard"}, i))
         /\ c = Cardinality(OfKind({"close"}, i - 1)) /\ d = Cardinality(OfKind({"close"}, i))
  OBVIOUS
<1>3. a \in Nat /\ b = a + IF program[i].kind \in {"open", "guard"} THEN 1 ELSE 0
  BY <1>2, Counting
<1>4. c \in Nat /\ d = c + IF program[i].kind \in {"close"} THEN 1 ELSE 0
  BY <1>2, Counting
<1>5. Depth(i - 1) = a - c /\ Depth(i) = b - d
  BY <1>1, <1>2
<1> QED
  BY <1>3, <1>4, <1>5

-----------------------------------------------------------------------------
(***************************************************************************)
(* A step of the history, frame by frame.                                  *)
(***************************************************************************)
StepsTo(s, i, t) ==
    LET kind == program[i].kind IN
    /\ kind \in {"open", "guard"} =>
          /\ Len(t) = Len(s) + 1
          /\ \A f \in 1 .. Len(s) : t[f] = s[f]
          /\ \A n \in Names : t[Len(s) + 1].binds[n] = 0
    /\ kind = "decl" =>
          /\ Len(s) # 0 /\ Len(t) = Len(s)
          /\ \A f \in 1 .. Len(s) : \A n \in Names :
                t[f].binds[n] = IF f = Len(s) /\ n = program[i].name /\ s[f].binds[n] = 0
                                THEN i ELSE s[f].binds[n]
    /\ kind \in {"assign", "print"} => Len(s) # 0 /\ t = s
    /\ kind = "close" =>
          /\ Len(s) # 0 /\ Len(t) = Len(s) - 1
          /\ \A f \in 1 .. Len(t) : t[f] = s[f]

LEMMA HistorySteps ==
    ASSUME SemanticsInv, NEW H, History(H), NEW i \in 1 .. Len(program)
    PROVE  H[i] \in Stack /\ H[i + 1] \in Stack /\ StepsTo(H[i], i, H[i + 1])
<1> USE DEF SemanticsInv
<1>1. i \in 1 .. Len(program) + 1 /\ i + 1 \in 1 .. Len(program) + 1
  BY TypedParts
<1>2. PICK s \in Stack, t \in Stack : s = H[i] /\ t = H[i + 1]
  BY <1>1, HistoryParts
<1>3. Follows(s, i, t)
  BY <1>2 DEF History
<1>4. /\ Len(s) \in Nat /\ DOMAIN s = 1 .. Len(s) /\ s \in Seq(Frame)
      /\ \A f \in 1 .. Len(s) : s[f] \in Frame /\ s[f].id \in Nat /\ s[f].binds \in [Names -> Nat]
  BY StackParts DEF Stack
<1>5. ASSUME s # << >> PROVE Len(s) # 0
  BY <1>4, <1>5, SameLength
<1>6. CASE program[i].kind \in {"open", "guard"}
  <2>1. PICK id \in Nat : t = Append(s, [id |-> id, binds |-> Unbound])
    BY <1>3, <1>6 DEF Follows
  <2>2. PICK x : x = [id |-> id, binds |-> Unbound]
    OBVIOUS
  <2>3. x \in Frame /\ x.binds = Unbound
    BY <2>2 DEF Frame, Unbound
  <2>4. /\ Len(t) = Len(s) + 1 /\ t[Len(s) + 1] = x
        /\ \A f \in 1 .. Len(s) : t[f] = s[f]
    BY ONLY <2>1, <2>2, <2>3, <1>4, Pushing
  <2> QED
    BY <1>2, <1>6, <2>3, <2>4 DEF StepsTo, Unbound
<1>7. CASE program[i].kind = "decl"
  <2>1. PICK v \in Names : v = program[i].name
    BY <1>7, VisitParts
  <2>2. Len(s) # 0
    BY <1>3, <1>5, <1>7 DEF Follows
  <2>3. PICK y \in Frame : y = s[Len(s)] /\ y = Top(s) /\ y.binds \in [Names -> Nat]
    BY <1>4, <2>2 DEF Top
  <2>4. CASE y.binds[v] # 0
    <3>1. t = s
      BY <1>3, <1>7, <2>1, <2>3, <2>4 DEF Follows
    <3> QED
      BY <1>2, <1>7, <2>1, <2>2, <2>3, <2>4, <3>1 DEF StepsTo
  <2>5. CASE y.binds[v] = 0
    <3>1. PICK x : x = [id |-> y.id, binds |-> [y.binds EXCEPT ![v] = i]]
      OBVIOUS
    <3>2. t = SetTop(s, x)
      BY <1>3, <1>7, <2>1, <2>3, <2>5, <3>1 DEF Follows
    <3>3. \A n \in Names : x.binds[n] = IF n = v THEN i ELSE y.binds[n]
      BY <2>3, <3>1
    <3>4. Len(t) = Len(s) /\ \A f \in 1 .. Len(s) : t[f] = IF f = Len(s) THEN x ELSE s[f]
      BY ONLY <3>2, <1>4, <2>2 DEF SetTop
    <3>5. ASSUME NEW f \in 1 .. Len(s), NEW n \in Names
          PROVE  t[f].binds[n] = IF f = Len(s) /\ n = v /\ s[f].binds[n] = 0
                                 THEN i ELSE s[f].binds[n]
      BY <2>3, <2>5, <3>3, <3>4
    <3> QED
      BY <1>2, <1>7, <2>1, <2>2, <3>4, <3>5 DEF StepsTo
  <2> QED
    BY <2>4, <2>5
<1>8. CASE program[i].kind \in {"assign", "print"}
  BY <1>2, <1>3, <1>5, <1>8 DEF Follows, StepsTo
<1>9. CASE program[i].kind = "close"
  <2>1. Len(s) # 0 /\ s # << >> /\ t = Pop(s)
    BY <1>3, <1>5, <1>9 DEF Follows
  <2>2. Len(t) = Len(s) - 1 /\ \A f \in 1 .. Len(s) - 1 : t[f] = s[f]
    BY ONLY <2>1, <1>4, Popping
  <2> QED
    BY <1>2, <1>9, <2>1, <2>2 DEF StepsTo
<1> QED
  BY <1>2, <1>6, <1>7, <1>8, <1>9, VisitParts

\* As many frames as blocks are open.
LEMMA DepthIs ==
    ASSUME SemanticsInv, NEW H, History(H), NEW i \in 0 .. Len(program)
    PROVE  Depth(i) = Len(H[i + 1]) /\ Depth(i) \in Nat
<1> USE DEF SemanticsInv
<1>1. Len(program) \in Nat
  BY TypedParts
<1>2. \A h \in 0 .. Len(program) : Len(H[h + 1]) \in Nat
  <2> TAKE h \in 0 .. Len(program)
  <2>1. h + 1 \in 1 .. Len(program) + 1
    BY <1>1
  <2> QED
    BY <2>1, HistoryParts, StackParts
<1> DEFINE Bad == {h \in 0 .. Len(program) : Depth(h) # Len(H[h + 1])}
<1>3. SUFFICES ASSUME Bad # {} PROVE FALSE
  BY <1>2
<1>4. PICK m \in Bad : \A h \in Bad : m <= h
  <2>1. Bad \subseteq Nat
    BY <1>1
  <2> QED
    BY <1>3, <2>1, LeastElement
<1>5. m \in Nat /\ m \in 0 .. Len(program) /\ Depth(m) # Len(H[m + 1])
  OBVIOUS
<1>6. m # 0
  <2>1. 1 .. 0 = {}
    OBVIOUS
  <2>2. Depth(0) = 0
    BY <2>1, FS_EmptySet DEF Depth
  <2>3. Len(H[0 + 1]) = 0
    BY HistoryParts, Emptiness
  <2> QED
    BY <1>5, <2>2, <2>3
<1>7. PICK h \in 0 .. Len(program) : h = m - 1 /\ h + 1 = m /\ h \in Nat /\ h < m
  BY <1>1, <1>5, <1>6
<1>8. h \notin Bad
  BY <1>4, <1>7
<1>9. m \in 1 .. Len(program)
  BY <1>1, <1>5, <1>6
<1>10. PICK a, b, s, t : a = Depth(h) /\ b = Depth(m) /\ s = H[m] /\ t = H[m + 1]
  OBVIOUS
<1>11. /\ program[m].kind \in {"open", "guard"} => b = a + 1
       /\ program[m].kind = "close" => b = a - 1
       /\ program[m].kind \notin {"open", "guard", "close"} => b = a
  BY <1>5, <1>6, <1>7, <1>10, DepthStep
<1>12. /\ program[m].kind \in {"open", "guard"} => Len(t) = Len(s) + 1
       /\ program[m].kind = "close" => Len(t) = Len(s) - 1
       /\ program[m].kind \notin {"open", "guard", "close"} => Len(t) = Len(s)
  BY <1>9, <1>10, HistorySteps, VisitParts DEF StepsTo
<1>13. a = Len(s)
  BY <1>7, <1>8, <1>10
<1>14. b # Len(t)
  BY <1>5, <1>10
<1> QED
  BY <1>11, <1>12, <1>13, <1>14

-----------------------------------------------------------------------------
(***************************************************************************)
(* What a frame binds, by position.                                        *)
(***************************************************************************)
\* The declarations of a name at one depth that a visit can see.
Declares(d, n) == program[d].kind = "decl" /\ program[d].name = n
OpenDecls(i, n, f) == {d \in 1 .. i - 1 : Declares(d, n) /\ Visible(d, i) /\ Depth(d) = f}

FirstOf(d, D) == IF D = {} THEN d = 0 ELSE d \in D /\ \A c \in D : d <= c

\* The stack s is what visit i can see.
Explained(s, i) ==
    /\ \A d \in 1 .. i - 1 : program[d].kind = "decl" /\ Visible(d, i) => Depth(d) \in 1 .. Len(s)
    /\ \A f \in 1 .. Len(s) : \A n \in Names : FirstOf(s[f].binds[n], OpenDecls(i, n, f))

LEMMA VisibleStep ==
    ASSUME NEW i \in Nat, i # 0, NEW d \in 1 .. i, \A h \in 1 .. i : Depth(h) \in Nat
    PROVE  Visible(d, i + 1) <=> d = i \/ (d < i /\ Visible(d, i) /\ Depth(d) <= Depth(i))
<1>1. (i + 1) - 1 = i
  OBVIOUS
<1>2. CASE d = i
  <2>1. \A k \in d .. i : k = d
    BY <1>2
  <2>2. Depth(d) >= Depth(d)
    OBVIOUS
  <2> QED
    BY <1>1, <1>2, <2>1, <2>2 DEF Visible
<1>3. CASE d # i
  <2>1. d < i /\ i - 1 \in Nat
    BY <1>3
  <2>2. \A k \in d .. i : k \in d .. i - 1 \/ k = i
    OBVIOUS
  <2>3. (\A k \in d .. i - 1 : k \in d .. i) /\ i \in d .. i
    OBVIOUS
  <2>4. (\A k \in d .. i : Depth(k) >= Depth(d))
        <=> (\A k \in d .. i - 1 : Depth(k) >= Depth(d)) /\ Depth(i) >= Depth(d)
    BY <2>2, <2>3, Zenon
  <2>5. Depth(i) >= Depth(d) <=> Depth(d) <= Depth(i)
    OBVIOUS
  <2> QED
    BY <1>1, <1>3, <2>1, <2>4, <2>5 DEF Visible
<1> QED
  BY <1>2, <1>3

LEMMA OpenDeclsStep ==
    ASSUME NEW i \in Nat, i # 0, \A h \in 1 .. i : Depth(h) \in Nat, NEW n,
           NEW f \in Nat, f <= Depth(i)
    PROVE  OpenDecls(i + 1, n, f) =
              OpenDecls(i, n, f) \cup (IF Declares(i, n) /\ Depth(i) = f THEN {i} ELSE {})
<1>1. ASSUME NEW d \in 1 .. i
      PROVE  d \in OpenDecls(i + 1, n, f)
                <=> d \in OpenDecls(i, n, f) \/ (d = i /\ Declares(i, n) /\ Depth(i) = f)
  <2>1. d \in OpenDecls(i + 1, n, f) <=> Declares(d, n) /\ Visible(d, i + 1) /\ Depth(d) = f
    BY DEF OpenDecls
  <2>2. d \in OpenDecls(i, n, f) <=> d < i /\ Declares(d, n) /\ Visible(d, i) /\ Depth(d) = f
    BY DEF OpenDecls
  <2>3. Visible(d, i + 1) <=> d = i \/ (d < i /\ Visible(d, i) /\ Depth(d) <= Depth(i))
    BY VisibleStep
  <2>4. d = i => ~(d < i)
    OBVIOUS
  <2> QED
    BY <2>1, <2>2, <2>3, <2>4
<1>2. OpenDecls(i + 1, n, f) \subseteq 1 .. i /\ OpenDecls(i, n, f) \subseteq 1 .. i
  BY DEF OpenDecls
<1>3. i \in 1 .. i
  OBVIOUS
<1> QED
  BY <1>1, <1>2, <1>3

LEMMA ExplainedStep ==
    ASSUME NEW i \in Nat, i # 0, \A h \in 1 .. i : Depth(h) \in Nat,
           NEW s \in Stack, NEW t \in Stack, StepsTo(s, i, t), Explained(s, i),
           Depth(i) = Len(t),
           program[i].kind \in {"open", "close", "guard", "print", "decl", "assign"}
    PROVE  Explained(t, i + 1)
<1>1. Len(s) \in Nat /\ Len(t) \in Nat
  BY StackParts
<1>2. (i + 1) - 1 = i
  OBVIOUS
<1>3. \A f \in 1 .. Len(t) : \A n :
         OpenDecls(i + 1, n, f) =
            OpenDecls(i, n, f) \cup (IF Declares(i, n) /\ Len(t) = f THEN {i} ELSE {})
  BY <1>1, OpenDeclsStep
<1>4. ASSUME NEW d \in 1 .. i, program[d].kind = "decl", Visible(d, i + 1)
      PROVE  Depth(d) \in 1 .. Len(t)
  <2>1. d = i \/ (d < i /\ Visible(d, i) /\ Depth(d) <= Depth(i))
    BY <1>4, VisibleStep
  <2>2. CASE d = i
    <3>1. Len(s) # 0 /\ Len(t) = Len(s)
      BY <1>4, <2>2 DEF StepsTo
    <3> QED
      BY <1>1, <2>2, <3>1
  <2>3. CASE d < i /\ Visible(d, i) /\ Depth(d) <= Depth(i)
    <3>1. d \in 1 .. i - 1
      BY <2>3
    <3>2. Depth(d) \in 1 .. Len(s)
      BY <1>4, <2>3, <3>1 DEF Explained
    <3> QED
      BY <1>1, <2>3, <3>2
  <2> QED
    BY <2>1, <2>2, <2>3
<1>5. ASSUME NEW f \in 1 .. Len(t), NEW n \in Names
      PROVE  FirstOf(t[f].binds[n], OpenDecls(i + 1, n, f))
  <2>1. PICK D, E : /\ D = OpenDecls(i, n, f) /\ E = OpenDecls(i + 1, n, f)
                    /\ E = D \cup (IF Declares(i, n) /\ Len(t) = f THEN {i} ELSE {})
    BY <1>3
  <2>2. f \in 1 .. Len(s) => FirstOf(s[f].binds[n], D)
    BY <2>1 DEF Explained
  <2>3. CASE program[i].kind \in {"open", "guard"}
    <3>1. /\ Len(t) = Len(s) + 1
          /\ \A g \in 1 .. Len(s) : t[g] = s[g]
          /\ t[Len(s) + 1].binds[n] = 0
      BY <2>3 DEF StepsTo
    <3>2. E = D
      BY <2>1, <2>3 DEF Declares
    <3>3. CASE f \in 1 .. Len(s)
      BY <2>1, <2>2, <3>1, <3>2, <3>3
    <3>4. CASE f = Len(s) + 1
      <4>1. D = {}
        <5>1. ASSUME NEW d \in D PROVE FALSE
          <6>1. d \in 1 .. i - 1 /\ program[d].kind = "decl" /\ Visible(d, i) /\ Depth(d) = f
            BY <2>1 DEF OpenDecls, Declares
          <6>2. Depth(d) \in 1 .. Len(s)
            BY <6>1 DEF Explained
          <6> QED
            BY <1>1, <3>4, <6>1, <6>2
        <5> QED
          BY <5>1
      <4> QED
        BY <2>1, <3>1, <3>2, <3>4, <4>1 DEF FirstOf
    <3> QED
      BY <1>1, <3>1, <3>3, <3>4
  <2>4. CASE program[i].kind = "decl"
    <3>1. /\ Len(s) # 0 /\ Len(t) = Len(s)
          /\ t[f].binds[n] = IF f = Len(s) /\ n = program[i].name /\ s[f].binds[n] = 0
                             THEN i ELSE s[f].binds[n]
      BY <2>4 DEF StepsTo
    <3>2. FirstOf(s[f].binds[n], D)
      BY <2>2, <3>1
    <3>3. D \subseteq 1 .. i - 1
      BY <2>1 DEF OpenDecls
    <3>4. CASE f = Len(s) /\ n = program[i].name
      <4>1. E = D \cup {i}
        BY <2>1, <2>4, <3>1, <3>4 DEF Declares
      <4>2. CASE D = {}
        <5>1. s[f].binds[n] = 0 /\ t[f].binds[n] = i /\ E = {i}
          BY <3>1, <3>2, <3>4, <4>1, <4>2 DEF FirstOf
        <5> QED
          BY <2>1, <5>1 DEF FirstOf
      <4>3. CASE D # {}
        <5>1. /\ s[f].binds[n] \in D /\ \A c \in D : s[f].binds[n] <= c
          BY <3>2, <4>3 DEF FirstOf
        <5>2. s[f].binds[n] \in 1 .. i - 1
          BY <5>1, <3>3
        <5>3. t[f].binds[n] = s[f].binds[n] /\ s[f].binds[n] <= i
          BY <3>1, <5>2
        <5> QED
          BY <2>1, <4>1, <5>1, <5>3 DEF FirstOf
      <4> QED
        BY <4>2, <4>3
    <3>5. CASE ~(f = Len(s) /\ n = program[i].name)
      <4>1. E = D
        BY <2>1, <3>1, <3>5 DEF Declares
      <4> QED
        BY <2>1, <3>1, <3>2, <3>5, <4>1
    <3> QED
      BY <3>4, <3>5
  <2>5. CASE program[i].kind \in {"assign", "print", "close"}
    <3>1. /\ Len(t) <= Len(s)
          /\ t[f] = s[f]
      BY <1>1, <2>5 DEF StepsTo
    <3>2. E = D
      BY <2>1, <2>5 DEF Declares
    <3>3. f \in 1 .. Len(s)
      BY <1>1, <3>1
    <3> QED
      BY <2>1, <2>2, <3>1, <3>2, <3>3
  <2> QED
    BY <2>3, <2>4, <2>5
<1> QED
  BY <1>2, <1>4, <1>5 DEF Explained

\* Every stack of the history is explained by the program before it.
LEMMA HistoryIsExplained ==
    ASSUME SemanticsInv, NEW H, History(H), NEW i \in 1 .. Len(program) + 1
    PROVE  Explained(H[i], i)
<1> USE DEF SemanticsInv
<1>1. Len(program) \in Nat
  BY TypedParts
<1> DEFINE Bad == {h \in 1 .. Len(program) + 1 : ~Explained(H[h], h)}
<1>2. SUFFICES ASSUME Bad # {} PROVE FALSE
  OBVIOUS
<1>3. PICK m \in Bad : \A h \in Bad : m <= h
  <2>1. Bad \subseteq Nat
    BY <1>1
  <2> QED
    BY <1>2, <2>1, LeastElement
<1>4. m \in Nat /\ m \in 1 .. Len(program) + 1 /\ ~Explained(H[m], m)
  BY <1>1
<1>5. m # 1
  <2>1. Len(H[1]) = 0 /\ 1 .. 0 = {} /\ 1 .. 1 - 1 = {}
    BY HistoryParts, Emptiness
  <2>2. Explained(H[1], 1)
    BY <2>1 DEF Explained
  <2> QED
    BY <1>4, <2>2
<1>6. PICK h \in 1 .. Len(program) : h = m - 1 /\ h + 1 = m /\ h \in Nat /\ h # 0 /\ h < m
  BY <1>1, <1>4, <1>5
<1>7. h \in 1 .. Len(program) + 1 /\ h \notin Bad
  BY <1>1, <1>3, <1>6
<1>8. Explained(H[h], h)
  BY <1>7
<1>9. PICK s \in Stack, t \in Stack : s = H[h] /\ t = H[m] /\ StepsTo(s, h, t)
  BY <1>6, HistorySteps
<1>10. \A k \in 1 .. h : Depth(k) \in Nat
  <2> TAKE k \in 1 .. h
  <2>1. k \in 0 .. Len(program)
    BY <1>1, <1>6
  <2> QED
    BY <2>1, DepthIs
<1>11. Depth(h) = Len(t)
  <2>1. h \in 0 .. Len(program)
    BY <1>1, <1>6
  <2> QED
    BY <2>1, <1>6, <1>9, DepthIs
<1>12. program[h].kind \in {"open", "close", "guard", "print", "decl", "assign"}
  BY <1>6, VisitParts
<1>13. Explained(t, h + 1)
  BY <1>6, <1>8, <1>9, <1>10, <1>11, <1>12, ExplainedStep
<1> QED
  BY <1>4, <1>6, <1>9, <1>13

-----------------------------------------------------------------------------
(***************************************************************************)
(* The theorem.                                                            *)
(***************************************************************************)
\* The name bound in the innermost frame is the declaration lexical scoping means.
LEMMA InnermostIsMeant ==
    ASSUME NEW i \in Nat, NEW s \in Stack, NEW n \in Names, Explained(s, i)
    PROVE  /\ Bound(s, n) = {} => DeclarationOf(n, i) = 0
           /\ Bound(s, n) # {} =>
                 DeclarationOf(n, i) = s[Innermost(Bound(s, n))].binds[n]
<1> DEFINE seen == {d \in 1 .. i - 1 : program[d].kind = "decl" /\ program[d].name = n /\ Visible(d, i)}
           inner == {d \in seen : \A c \in seen : Depth(c) <= Depth(d)}
<1>1. DeclarationOf(n, i) = IF seen = {} THEN 0 ELSE CHOOSE d \in inner : \A c \in inner : d <= c
  BY DEF DeclarationOf
<1>2. Len(s) \in Nat /\ DOMAIN s = 1 .. Len(s) /\ Bound(s, n) \subseteq 1 .. Len(s)
  BY StackParts
<1>3. \A d \in seen : Depth(d) \in 1 .. Len(s) /\ d \in OpenDecls(i, n, Depth(d))
  BY DEF Explained, OpenDecls, Declares
<1>4. \A f \in 1 .. Len(s) : OpenDecls(i, n, f) \subseteq seen /\ FirstOf(s[f].binds[n], OpenDecls(i, n, f))
  BY DEF Explained, OpenDecls, Declares
<1>5. \A f \in 1 .. Len(s) : f \in Bound(s, n) <=> OpenDecls(i, n, f) # {}
  <2> TAKE f \in 1 .. Len(s)
  <2>1. f \in Bound(s, n) <=> s[f].binds[n] # 0
    BY <1>2 DEF Bound
  <2>2. 0 \notin OpenDecls(i, n, f)
    BY DEF OpenDecls
  <2>3. FirstOf(s[f].binds[n], OpenDecls(i, n, f))
    BY <1>4
  <2> QED
    BY <2>1, <2>2, <2>3 DEF FirstOf
<1>6. \A d \in seen : Depth(d) \in Bound(s, n)
  BY <1>3, <1>5
<1>7. CASE Bound(s, n) = {}
  BY <1>1, <1>6, <1>7
<1>8. CASE Bound(s, n) # {}
  <2>1. PICK f \in 1 .. Len(s) : f = Innermost(Bound(s, n)) /\ f \in Bound(s, n)
                                 /\ \A g \in Bound(s, n) : g <= f
    BY <1>2, <1>8, InnermostIsOne
  <2>2. OpenDecls(i, n, f) # {} /\ OpenDecls(i, n, f) \subseteq seen
        /\ FirstOf(s[f].binds[n], OpenDecls(i, n, f))
    BY <1>4, <1>5, <2>1
  <2>3. \A d \in OpenDecls(i, n, f) : Depth(d) = f
    BY DEF OpenDecls
  <2>4. \A d \in seen : Depth(d) = f <=> d \in OpenDecls(i, n, f)
    BY <1>3, <2>3
  <2>5. \A d \in seen : Depth(d) <= f
    BY <1>6, <2>1
  <2>6. inner = OpenDecls(i, n, f)
    <3>1. ASSUME NEW d \in OpenDecls(i, n, f) PROVE d \in inner
      BY <2>2, <2>3, <2>5
    <3>2. ASSUME NEW d \in inner PROVE d \in OpenDecls(i, n, f)
      <4>1. PICK c \in seen : Depth(c) = f
        BY <2>2, <2>3
      <4>2. d \in seen /\ f <= Depth(d) /\ Depth(d) <= f /\ Depth(d) \in 1 .. Len(s)
        BY <1>3, <2>5, <4>1
      <4>3. Depth(d) = f
        BY <4>2, <1>2
      <4> QED
        BY <4>2, <4>3, <2>4
    <3> QED
      BY <3>1, <3>2
  <2>7. PICK a : a = s[f].binds[n] /\ a \in inner /\ \A c \in inner : a <= c
    BY <2>2, <2>6 DEF FirstOf
  <2>8. inner \subseteq Nat
    OBVIOUS
  <2>9. \A d \in inner : (\A c \in inner : d <= c) => d = a
    <3> TAKE d \in inner
    <3>1. ASSUME \A c \in inner : d <= c PROVE d = a
      <4>1. d <= a /\ a <= d /\ d \in Nat /\ a \in Nat
        BY <2>7, <2>8, <3>1
      <4> QED
        BY ONLY <4>1
    <3> QED
      BY <3>1
  <2>10. (CHOOSE d \in inner : \A c \in inner : d <= c) = a
    <3> HIDE DEF inner
    <3> QED
      BY <2>7, <2>9
  <2>11. seen # {}
    BY <2>2
  <2> QED
    BY <1>1, <1>8, <2>1, <2>7, <2>10, <2>11
<1> QED
  BY <1>7, <1>8

\* A key in the node of a visit, whether the scope pass found the name or not.
LEMMA NoteIs ==
    ASSUME SemanticsInv, NEW i \in 1 .. Len(program), NEW s \in Stack, Annotated(s, i),
           NEW key \in Reads(i) \cup Writes(i)
    PROVE  key[1] \in Names /\ key = << key[1], IdIn(s, key[1]) >>
<1> USE DEF SemanticsInv
<1>1. CASE key \in Reads(i)
  <2>1. HasExpr(i)
    BY <1>1 DEF Reads
  <2>2. PICK k \in DOMAIN program[i].expr.args :
           /\ program[i].expr.args[k] \in Names
           /\ key = << program[i].expr.args[k], resolved[i].args[k] >>
    BY <1>1, <2>1 DEF Reads
  <2>3. resolved[i].args[k] = IdIn(s, program[i].expr.args[k])
    BY <2>1, <2>2 DEF Annotated
  <2> QED
    BY <2>2, <2>3
<1>2. CASE key \in Writes(i)
  <2>1. program[i].kind = "assign" /\ key = << program[i].name, resolved[i].lhs >>
    BY <1>2 DEF Writes
  <2> QED
    BY <2>1, VisitParts DEF Annotated
<1> QED
  BY <1>1, <1>2

\* The scope pass resolves every name as lexical scoping says, in every program,
\* and leaves it without an id only if nothing declares it (ScopeStack::lookup
\* in symbol_table.cpp, visitExpr and visitAssign in semantic_scope.cpp).
THEOREM LexicalScoping == Spec => []ResolvesLexically
<1>1. SemanticsInv => ResolvesLexically
  <2> SUFFICES ASSUME SemanticsInv, NEW i \in DOMAIN program, NEW key \in Reads(i) \cup Writes(i)
               PROVE  LET d == DeclarationOf(key[1], i) IN
                      IF d = 0 THEN key[2] = None
                      ELSE \E k \in SymbolsOf(key) : symbols[k].at = d
    BY DEF ResolvesLexically
  <2> USE DEF SemanticsInv
  <2>1. Len(program) \in Nat /\ i \in 1 .. Len(program) /\ i \in Nat /\ i \in 1 .. Len(program) + 1
    BY TypedParts
  <2>2. PICK H : History(H)
    BY DEF HistoryInv
  <2>3. PICK s \in Stack : s = H[i] /\ Recorded(s) /\ Annotated(s, i) /\ Explained(s, i)
    <3>1. H[i] \in Stack /\ Recorded(H[i]) /\ Explained(H[i], i)
      BY <2>1, <2>2, HistoryParts, HistoryIsExplained
    <3>2. Annotated(H[i], i)
      BY <2>1, <2>2 DEF History
    <3> QED
      BY <3>1, <3>2
  <2>4. PICK n \in Names : key = << n, IdIn(s, n) >>
    BY <2>1, <2>3, NoteIs
  <2>5. CASE Bound(s, n) = {}
    <3>1. DeclarationOf(n, i) = 0 /\ IdIn(s, n) = None
      BY <2>1, <2>3, <2>5, InnermostIsMeant DEF IdIn
    <3> QED
      BY <2>4, <3>1
  <2>6. CASE Bound(s, n) # {}
    <3>1. PICK f \in 1 .. Len(s) :
             f = Innermost(Bound(s, n)) /\ IdIn(s, n) = s[f].id /\ s[f].binds[n] # 0
      BY <2>6, IdInIs
    <3>2. DeclarationOf(n, i) = s[f].binds[n]
      BY <2>1, <2>3, <2>6, <3>1, InnermostIsMeant
    <3>3. PICK k \in DOMAIN symbols :
             symbols[k].name = n /\ symbols[k].scope = s[f].id /\ symbols[k].at = s[f].binds[n]
      BY <2>3, <3>1, StackParts DEF Recorded
    <3>4. k \in SymbolsOf(key)
      BY <2>4, <3>1, <3>3 DEF SymbolsOf
    <3> QED
      BY <2>4, <3>1, <3>2, <3>3, <3>4
  <2> QED
    BY <2>5, <2>6
<1> QED
  BY <1>1, SemanticsInvariant, PTL

-----------------------------------------------------------------------------
(***************************************************************************)
(* The usage pass reports what is true.                                    *)
(*                                                                         *)
(* The pass keeps a slot for each declaration in an open block.  A symbol  *)
(* is Live at a visit that sees its declaration; its slot has then seen    *)
(* the reads and writes of its key, and no later visit can add to them     *)
(* once the symbol is no longer Live.                                      *)
(***************************************************************************)

-----------------------------------------------------------------------------
(***************************************************************************)
(* One symbol for each declaration.                                        *)
(***************************************************************************)
DeclaredOnce == \A k, l \in DOMAIN symbols : symbols[k].at = symbols[l].at => k = l

LEMMA DeclaredOnceStep ==
    ASSUME SemanticsInv, DeclaredOnce, [Next]_vars
    PROVE  DeclaredOnce'
<1> USE DEF SemanticsInv
<1>1. CASE symbols' = symbols
  BY <1>1 DEF DeclaredOnce
<1>2. ASSUME NEW n, NEW t, ScopeDeclare(n, t), symbols' # symbols
      PROVE  DeclaredOnce'
  <2>1. PICK x : symbols' = Append(symbols, x) /\ x.at = Len(program) + 1
    BY <1>2 DEF ScopeDeclare
  <2>2. symbols \in Seq(Symbol) /\ Len(symbols) \in Nat /\ DOMAIN symbols = 1 .. Len(symbols)
    BY TypedParts
  <2>3. /\ DOMAIN symbols' = 1 .. Len(symbols) + 1
        /\ \A k \in 1 .. Len(symbols) : symbols'[k] = symbols[k]
        /\ symbols'[Len(symbols) + 1] = x
    BY ONLY <2>1, <2>2
  <2>4. \A k \in 1 .. Len(symbols) : symbols[k].at \in 1 .. Len(program) /\ symbols[k].at \in Nat
    BY TypedParts DEF SymbolsInv
  <2>5. Len(program) \in Nat
    BY TypedParts
  <2>6. \A k \in 1 .. Len(symbols) : symbols[k].at # x.at
    BY <2>1, <2>4, <2>5
  <2>7. ASSUME NEW k \in 1 .. Len(symbols) + 1, NEW l \in 1 .. Len(symbols) + 1,
               symbols'[k].at = symbols'[l].at
        PROVE  k = l
    BY <2>2, <2>3, <2>6, <2>7 DEF DeclaredOnce
  <2> QED
    BY <2>3, <2>7 DEF DeclaredOnce
<1>3. symbols' = symbols \/ \E n, t : ScopeDeclare(n, t)
  BY DEF Next, vars, scopeVars, ScopePass, ScopeBlock, ScopeGuard, ScopeAssign, ScopePrint, ScopeLeave,
         TypePass, TypeOpen, TypeGuard, TypeDeclare, TypeAssign, TypePrint, TypeClose, TypeEnd,
         TypeVisit, TypeUnchanged,
         UsagePass, UsageOpen, UsageGuard, UsageDeclare, UsageAssign, UsagePrint, UsageClose, UsageVisit
<1> QED
  BY <1>1, <1>2, <1>3

-----------------------------------------------------------------------------
(***************************************************************************)
(* Symbols and frames.                                                     *)
(***************************************************************************)
Key(k)  == << symbols[k].name, symbols[k].scope >>
Live(k, i) == symbols[k].at < i /\ Visible(symbols[k].at, i)
Level(k) == Depth(symbols[k].at)

\* The program passed the scope pass.
Resolved == SemanticsInv /\ DeclaredOnce /\ errors.scope = 0

LEMMA SymbolParts ==
    ASSUME SemanticsInv, NEW k \in DOMAIN symbols
    PROVE  /\ symbols[k].name \in Names /\ symbols[k].at \in Nat
           /\ symbols[k].at \in 1 .. Len(program) /\ Len(program) \in Nat
           /\ Declares(symbols[k].at, symbols[k].name)
           /\ program[symbols[k].at].kind = "decl"
           /\ Level(k) \in Nat
<1>1. /\ symbols[k].name \in Names /\ symbols[k].at \in Nat
      /\ symbols[k].at \in 1 .. Len(program) /\ Len(program) \in Nat
      /\ Declares(symbols[k].at, symbols[k].name)
      /\ program[symbols[k].at].kind = "decl"
  BY TypedParts DEF SemanticsInv, SymbolsInv, Declares
<1>2. PICK H : History(H)
  BY DEF SemanticsInv, HistoryInv
<1>3. symbols[k].at \in 0 .. Len(program)
  BY <1>1
<1> QED
  BY <1>1, <1>2, <1>3, DepthIs DEF Level

\* What a visit can see, an earlier visit behind the declaration could see.
LEMMA SeenBefore ==
    ASSUME NEW d \in Nat, NEW i \in Nat, NEW j \in Nat, d < j, j <= i, Visible(d, i)
    PROVE  Visible(d, j)
<1>1. \A k \in d .. j - 1 : k \in d .. i - 1
  OBVIOUS
<1> QED
  BY <1>1 DEF Visible

\* A live symbol is bound in the frame of its level.
LEMMA LiveIsBound ==
    ASSUME Resolved, NEW H, History(H), NEW i \in 1 .. Len(program) + 1,
           NEW k \in DOMAIN symbols, Live(k, i)
    PROVE  /\ Level(k) \in 1 .. Len(H[i])
           /\ H[i][Level(k)].binds[symbols[k].name] = symbols[k].at
           /\ H[i][Level(k)].id = symbols[k].scope
<1> USE DEF Resolved
<1>1. PICK d \in 1 .. Len(program), n \in Names :
         /\ d = symbols[k].at /\ n = symbols[k].name /\ Declares(d, n) /\ Len(program) \in Nat
         /\ program[d].kind = "decl" /\ program[d].name = n
  BY SymbolParts DEF Declares
<1>2. d < i /\ Visible(d, i) /\ d \in Nat /\ i \in Nat
  BY ONLY <1>1, Live(k, i), i \in 1 .. Len(program) + 1 DEF Live
<1>3. PICK s \in Stack : s = H[i] /\ Recorded(s) /\ Explained(s, i)
  BY HistoryParts, HistoryIsExplained DEF SemanticsInv
<1>4. PICK f : f = Depth(d) /\ f = Level(k) /\ f \in Nat
  BY <1>1, SymbolParts DEF Level
<1>5. f \in 1 .. Len(s) /\ d \in OpenDecls(i, n, f)
  <2>1. d \in 1 .. i - 1
    BY ONLY <1>2
  <2>2. d \in OpenDecls(i, n, f)
    BY ONLY <2>1, <1>1, <1>2, <1>4 DEF OpenDecls
  <2>3. Depth(d) \in 1 .. Len(s)
    BY ONLY <2>1, <1>1, <1>2, <1>3 DEF Explained
  <2> QED
    BY ONLY <2>2, <2>3, <1>4
<1>6. PICK c : /\ c = s[f].binds[n] /\ c \in OpenDecls(i, n, f)
               /\ \A e \in OpenDecls(i, n, f) : c <= e
  BY <1>3, <1>5 DEF Explained, FirstOf
<1>7. /\ c \in 1 .. i - 1 /\ c \in Nat /\ c <= d /\ Declares(c, n) /\ Visible(c, i) /\ Depth(c) = f
  BY <1>5, <1>6 DEF OpenDecls
<1>8. c = d
  <2> SUFFICES ASSUME c < d PROVE FALSE
    BY <1>1, <1>7
  <2>1. Visible(c, d)
    BY <1>2, <1>7, SeenBefore
  <2>2. c \in OpenDecls(d, n, f)
    BY <1>7, <1>1, <2>1 DEF OpenDecls
  <2>3. PICK q \in Stack : q = H[d] /\ Clean(q, d) /\ Explained(q, d) /\ StepsTo(q, d, H[d + 1])
    <3>1. d \in 1 .. Len(program) + 1
      BY ONLY <1>1
    <3> QED
      BY <1>1, <3>1, VisitNow, HistorySteps, HistoryIsExplained
  <2>4. f = Len(q) /\ Len(q) # 0 /\ Len(q) \in Nat
    <3>1. d \in 0 .. Len(program)
      BY ONLY <1>1
    <3>2. f = Len(H[d + 1])
      BY <1>4, <3>1, DepthIs
    <3> QED
      BY <1>1, <2>3, <3>2, StackParts DEF StepsTo
  <2>5. q[f].binds[n] # 0
    <3>1. FirstOf(q[f].binds[n], OpenDecls(d, n, f)) /\ 0 \notin OpenDecls(d, n, f)
      <4>1. 0 \notin OpenDecls(d, n, f)
        BY ONLY <1>2 DEF OpenDecls
      <4>2. f \in 1 .. Len(q)
        BY ONLY <2>4
      <4> QED
        BY ONLY <4>1, <4>2, <2>3, <1>1 DEF Explained
    <3> QED
      BY <3>1, <2>2 DEF FirstOf
  <2>6. q[f].binds[n] = 0
    BY <1>1, <2>3, <2>4 DEF Clean, Top
  <2> QED
    BY <2>5, <2>6
<1>9. PICK l \in DOMAIN symbols : symbols[l].scope = s[f].id /\ symbols[l].at = d
  <2>1. f \in DOMAIN s /\ s[f].binds[n] # 0
    BY <1>1, <1>5, <1>6, <1>8, StackParts
  <2> QED
    <3>1. s[f].binds[n] = d
      BY ONLY <1>6, <1>8
    <3>2. \E l \in DOMAIN symbols :
             symbols[l].name = n /\ symbols[l].scope = s[f].id /\ symbols[l].at = s[f].binds[n]
      BY <1>3, <2>1 DEF Recorded
    <3> QED
      BY ONLY <3>1, <3>2
<1>10. l = k
  BY <1>1, <1>9 DEF DeclaredOnce
<1> QED
  BY <1>1, <1>3, <1>4, <1>5, <1>6, <1>8, <1>9, <1>10

\* A binding is a live symbol.
LEMMA BoundIsLive ==
    ASSUME Resolved, NEW H, History(H), NEW i \in 1 .. Len(program) + 1,
           NEW f \in 1 .. Len(H[i]), NEW n \in Names, H[i][f].binds[n] # 0
    PROVE  \E k \in DOMAIN symbols :
              /\ Live(k, i) /\ symbols[k].name = n /\ symbols[k].scope = H[i][f].id
              /\ symbols[k].at = H[i][f].binds[n] /\ Level(k) = f
<1> USE DEF Resolved
<1>1. PICK s \in Stack : s = H[i] /\ Recorded(s) /\ Explained(s, i) /\ f \in DOMAIN s
  BY HistoryParts, HistoryIsExplained, StackParts DEF SemanticsInv
<1>2. PICK k \in DOMAIN symbols :
         symbols[k].name = n /\ symbols[k].scope = s[f].id /\ symbols[k].at = s[f].binds[n]
  BY <1>1 DEF Recorded
<1>3. s[f].binds[n] \in OpenDecls(i, n, f)
  BY <1>1 DEF Explained, FirstOf
<1>4. Live(k, i) /\ Level(k) = f
  BY <1>2, <1>3 DEF OpenDecls, Live, Level, Visible
<1> QED
  BY <1>1, <1>2, <1>4

-----------------------------------------------------------------------------
(***************************************************************************)
(* Uses of a symbol.                                                       *)
(***************************************************************************)
\* The symbol a name means at a visit.
Meant(k, n, s) == symbols[k].name = n /\ Level(k) = Innermost(Bound(s, n))

LEMMA MeaningOfKey ==
    ASSUME Resolved, NEW H, History(H), NEW i \in 1 .. Len(program) + 1, NEW s \in Stack, s = H[i],
           NEW n \in Names, Bound(s, n) # {}, NEW k \in DOMAIN symbols
    PROVE  Key(k) = << n, IdIn(s, n) >> <=> Live(k, i) /\ Meant(k, n, s)
<1> USE DEF Resolved
<1>1. PICK f \in 1 .. Len(s) :
         f = Innermost(Bound(s, n)) /\ IdIn(s, n) = s[f].id /\ s[f].binds[n] # 0
  BY IdInIs
<1>2. PICK l \in DOMAIN symbols :
         Live(l, i) /\ symbols[l].name = n /\ symbols[l].scope = s[f].id /\ Level(l) = f
  BY <1>1, BoundIsLive
<1>3. ASSUME Key(k) = << n, IdIn(s, n) >> PROVE Live(k, i) /\ Meant(k, n, s)
  <2>1. symbols[k].name = n /\ symbols[k].scope = s[f].id
    BY <1>1, <1>3 DEF Key
  <2>2. k = l
    BY <1>2, <2>1 DEF SemanticsInv, SymbolsInv
  <2> QED
    BY <1>1, <1>2, <2>2 DEF Meant
<1>4. ASSUME Live(k, i), Meant(k, n, s) PROVE Key(k) = << n, IdIn(s, n) >>
  <2>1. H[i][Level(k)].id = symbols[k].scope
    BY <1>4, LiveIsBound
  <2> QED
    BY <1>1, <1>4, <2>1 DEF Key, Meant
<1> QED
  BY <1>3, <1>4

LEMMA UsesAre ==
    ASSUME Resolved, NEW H, History(H), NEW i \in 1 .. Len(program), NEW s \in Stack, s = H[i],
           NEW k \in DOMAIN symbols
    PROVE  /\ Key(k) \in Reads(i) <=>
                 /\ HasExpr(i) /\ \E n \in NamesOf(program[i].expr) : Meant(k, n, s)
                 /\ Live(k, i)
           /\ Key(k) \in Writes(i) <=>
                 /\ program[i].kind = "assign" /\ Meant(k, program[i].name, s)
                 /\ Live(k, i)
<1> USE DEF Resolved
<1>1. i \in 1 .. Len(program) + 1 /\ Annotated(s, i) /\ Clean(s, i)
  <2>1. Len(program) \in Nat
    BY TypedParts DEF SemanticsInv
  <2>2. i \in 1 .. Len(program) + 1
    BY ONLY <2>1, i \in 1 .. Len(program)
  <2> QED
    BY <2>2, VisitNow
<1>2. \A n \in Names : Bound(s, n) # {} =>
         (Key(k) = << n, IdIn(s, n) >> <=> Live(k, i) /\ Meant(k, n, s))
  <2> SUFFICES ASSUME NEW n \in Names, Bound(s, n) # {}
               PROVE  Key(k) = << n, IdIn(s, n) >> <=> Live(k, i) /\ Meant(k, n, s)
    OBVIOUS
  <2> HIDE DEF Resolved
  <2>1. Resolved
    OBVIOUS
  <2> QED
    BY ONLY <1>1, <2>1, MeaningOfKey, History(H), s = H[i], s \in Stack, k \in DOMAIN symbols,
            n \in Names, Bound(s, n) # {}, Zenon
<1>3. ASSUME HasExpr(i)
      PROVE  Key(k) \in Reads(i) <=>
                (\E n \in NamesOf(program[i].expr) : Meant(k, n, s)) /\ Live(k, i)
  <2>1. PICK e \in Expr : e = program[i].expr
    BY <1>3, VisitParts DEF SemanticsInv
  <2>2. NamesOf(e) = {e.args[j] : j \in {j \in DOMAIN e.args : e.args[j] \in Names}}
    BY DEF NamesOf
  <2>3. \A j \in DOMAIN e.args : e.args[j] \in Names => resolved[i].args[j] = IdIn(s, e.args[j])
    BY <1>1, <1>3, <2>1 DEF Annotated
  <2>4. Reads(i) = {<< e.args[j], resolved[i].args[j] >> : j \in {j \in DOMAIN e.args : e.args[j] \in Names}}
    BY <1>3, <2>1 DEF Reads
  <2>5. Key(k) \in Reads(i) <=> \E n \in NamesOf(e) : Key(k) = << n, IdIn(s, n) >>
    BY <2>2, <2>3, <2>4
  <2>6. \A n \in NamesOf(e) : n \in Names /\ Bound(s, n) # {}
    BY <1>1, <1>3, <2>1, <2>2 DEF Clean
  <2>7. (\E n \in NamesOf(e) : Key(k) = << n, IdIn(s, n) >>)
           <=> (\E n \in NamesOf(e) : Live(k, i) /\ Meant(k, n, s))
    BY <1>2, <2>6
  <2> QED
    BY <2>1, <2>5, <2>7
<1>4. ~HasExpr(i) => Reads(i) = {}
  BY DEF Reads
<1>5. ASSUME program[i].kind = "assign"
      PROVE  Key(k) \in Writes(i) <=> Meant(k, program[i].name, s) /\ Live(k, i)
  <2>1. program[i].name \in Names
    BY <1>5, VisitParts DEF SemanticsInv
  <2>2. Bound(s, program[i].name) # {} /\ resolved[i].lhs = IdIn(s, program[i].name)
    BY <1>1, <1>5 DEF Clean, Annotated
  <2>3. Key(k) \in Writes(i) <=> Key(k) = << program[i].name, IdIn(s, program[i].name) >>
    BY <1>5, <2>2 DEF Writes
  <2> QED
    BY <1>2, <2>1, <2>2, <2>3
<1>6. program[i].kind # "assign" => Writes(i) = {}
  BY DEF Writes
<1> QED
  BY <1>3, <1>4, <1>5, <1>6

\* A key is used only while its symbol is live.
LEMMA UsedWhileLive ==
    ASSUME Resolved, NEW i \in 1 .. Len(program), NEW k \in DOMAIN symbols,
           Key(k) \in Reads(i) \cup Writes(i)
    PROVE  Live(k, i)
<1>1. PICK H : History(H)
  BY DEF Resolved, SemanticsInv, HistoryInv
<1>2. H[i] \in Stack
  BY <1>1, VisitNow DEF Resolved
<1> QED
  BY <1>1, <1>2, UsesAre

\* How a visit changes which symbols are live.
LEMMA LiveStep ==
    ASSUME SemanticsInv, NEW i \in 1 .. Len(program), NEW k \in DOMAIN symbols
    PROVE  /\ Live(k, i + 1) <=> symbols[k].at = i \/ (Live(k, i) /\ Level(k) <= Depth(i))
           /\ Live(k, i) => symbols[k].at # i
<1>1. PICK d \in Nat : d = symbols[k].at /\ d # 0 /\ Len(program) \in Nat /\ i \in Nat /\ i # 0
  BY SymbolParts
<1>2. PICK H : History(H)
  BY DEF SemanticsInv, HistoryInv
<1>3. \A h \in 1 .. i : Depth(h) \in Nat
  <2> TAKE h \in 1 .. i
  <2>1. h \in 0 .. Len(program)
    BY ONLY <1>1, i \in 1 .. Len(program)
  <2> QED
    BY <1>2, <2>1, DepthIs
<1>4. d \in 1 .. i => (Visible(d, i + 1) <=> d = i \/ (d < i /\ Visible(d, i) /\ Depth(d) <= Depth(i)))
  BY <1>1, <1>3, VisibleStep
<1>5. d < i + 1 <=> d \in 1 .. i
  BY <1>1
<1>6. Live(k, i) <=> d < i /\ Visible(d, i)
  BY <1>1 DEF Live
<1>7. Live(k, i + 1) <=> d < i + 1 /\ Visible(d, i + 1)
  BY <1>1 DEF Live
<1>8. Level(k) = Depth(d)
  BY <1>1 DEF Level
<1>9. (d = i => d \in 1 .. i) /\ (d < i => d \in 1 .. i /\ d # i)
  BY ONLY <1>1
<1> QED
  BY ONLY <1>1, <1>4, <1>5, <1>6, <1>7, <1>8, <1>9

-----------------------------------------------------------------------------
(***************************************************************************)
(* What slots and reports say of the visits up to a cursor.                *)
(***************************************************************************)
SlotIn(us, k) == us[Level(k)][symbols[k].name]
ReadsOf(k)  == {i \in DOMAIN program : Key(k) \in Reads(i)}
WritesOf(k) == {i \in DOMAIN program : Key(k) \in Writes(i)}

Tracks(u, k, c) ==
    /\ u \in Usage /\ u.at = symbols[k].at
    /\ u.read <=> \E j \in ReadsOf(k) : j <= c
    /\ u.assigned <=> \E j \in WritesOf(k) : j <= c

Unread(k, w) == [kind |-> IF w THEN "unread" ELSE "unused", at |-> symbols[k].at, name |-> symbols[k].name]
Early(k, i)  == [kind |-> "uninitialized", at |-> i, name |-> symbols[k].name]

\* The report r is about symbol k and due by cursor c.
TellsUnread(k, r, c) ==
    symbols[k].at <= c /\ ~Live(k, c + 1) /\ ReadsOf(k) = {} /\ r = Unread(k, WritesOf(k) # {})
TellsEarly(k, r, c) ==
    \E i \in ReadsOf(k) : i <= c /\ (\A w \in WritesOf(k) : w >= i) /\ r = Early(k, i)

Good(us, rs, c) ==
    /\ \A k \in DOMAIN symbols : Live(k, c + 1) => Tracks(SlotIn(us, k), k, c)
    /\ \A r : r \in rs <=> \E k \in DOMAIN symbols : TellsUnread(k, r, c) \/ TellsEarly(k, r, c)

\* What visit i makes of the slots, and what it adds to the reports.
SlotStep(v, u, k, i) ==
    /\ u \in Usage
    /\ symbols[k].at = i => u = Slot(i)
    /\ symbols[k].at # i =>
          /\ u.at = v.at
          /\ u.read <=> v.read \/ Key(k) \in Reads(i)
          /\ u.assigned <=> v.assigned \/ Key(k) \in Writes(i)
NewEarly(us, k, r, i)  == Live(k, i) /\ Key(k) \in Reads(i) /\ ~SlotIn(us, k).assigned /\ r = Early(k, i)
NewUnread(us, k, r, i) ==
    Live(k, i) /\ ~Live(k, i + 1) /\ ~SlotIn(us, k).read /\ r = Unread(k, SlotIn(us, k).assigned)

\* A symbol stops being live at the end of a block, which uses nothing.
LEMMA ClosingUsesNothing ==
    ASSUME Resolved, NEW i \in 1 .. Len(program), NEW k \in DOMAIN symbols,
           Live(k, i), ~Live(k, i + 1)
    PROVE  /\ program[i].kind = "close" /\ Key(k) \notin Reads(i) \cup Writes(i)
<1> USE DEF Resolved
<1>1. PICK H : History(H)
  BY DEF SemanticsInv, HistoryInv
<1>2. Len(program) \in Nat /\ Level(k) \in Nat
  BY SymbolParts
<1>3. i \in 1 .. Len(program) + 1 /\ i \in 0 .. Len(program)
  BY ONLY <1>2, i \in 1 .. Len(program)
<1>4. PICK s \in Stack, t \in Stack : s = H[i] /\ t = H[i + 1] /\ StepsTo(s, i, t)
  BY <1>1, HistorySteps
<1>5. Depth(i) = Len(t) /\ Len(t) \in Nat /\ Len(s) \in Nat
  BY <1>1, <1>3, <1>4, DepthIs, StackParts
<1>6. Level(k) \in 1 .. Len(s)
  BY <1>1, <1>3, <1>4, LiveIsBound
<1>7. ~(Level(k) <= Len(t))
  BY <1>5, LiveStep
<1>8. ~(Len(s) <= Len(t))
  BY ONLY <1>2, <1>5, <1>6, <1>7
<1>9. program[i].kind \in {"open", "close", "guard", "print", "decl", "assign"}
  BY VisitParts DEF SemanticsInv
<1>10. program[i].kind = "close"
  BY ONLY <1>4, <1>5, <1>8, <1>9 DEF StepsTo
<1> QED
  BY <1>10 DEF Reads, Writes, HasExpr

LEMMA GoodStep ==
    ASSUME Resolved, NEW i \in 1 .. Len(program), NEW c \in Nat, i = c + 1,
           NEW us, NEW rs, NEW vs, NEW ps, Good(us, rs, c),
           \A k \in DOMAIN symbols : Live(k, i + 1) => SlotStep(SlotIn(us, k), SlotIn(vs, k), k, i),
           \A r : r \in ps <=>
              \/ r \in rs
              \/ \E k \in DOMAIN symbols : NewEarly(us, k, r, i) \/ NewUnread(us, k, r, i)
    PROVE  Good(vs, ps, i)
<1>1. Len(program) \in Nat /\ DOMAIN program = 1 .. Len(program)
  BY TypedParts DEF Resolved, SemanticsInv
<1>2. \A j \in 1 .. Len(program) : j <= i <=> j <= c \/ j = i
  BY <1>1
<1>3. \A k \in DOMAIN symbols :
         /\ \A j \in ReadsOf(k) \cup WritesOf(k) : j \in 1 .. Len(program) /\ Live(k, j)
         /\ (\E j \in ReadsOf(k) : j <= i)
               <=> (\E j \in ReadsOf(k) : j <= c) \/ Key(k) \in Reads(i)
         /\ (\E j \in WritesOf(k) : j <= i)
               <=> (\E j \in WritesOf(k) : j <= c) \/ Key(k) \in Writes(i)
  <2> TAKE k \in DOMAIN symbols
  <2>1. \A j \in ReadsOf(k) \cup WritesOf(k) : j \in 1 .. Len(program) /\ Live(k, j)
    BY <1>1, UsedWhileLive DEF ReadsOf, WritesOf
  <2>2. (i \in ReadsOf(k) <=> Key(k) \in Reads(i)) /\ (i \in WritesOf(k) <=> Key(k) \in Writes(i))
    BY <1>1 DEF ReadsOf, WritesOf
  <2>3. i <= i
    BY <1>1
  <2> QED
    BY ONLY <1>2, <2>1, <2>2, <2>3
<1>4. \A k \in DOMAIN symbols :
         /\ symbols[k].at \in Nat /\ symbols[k].at \in 1 .. Len(program)
         /\ Live(k, i + 1) <=> symbols[k].at = i \/ (Live(k, i) /\ Level(k) <= Depth(i))
         /\ Live(k, i) => symbols[k].at # i
  BY SymbolParts, LiveStep DEF Resolved
<1>5. \A k \in DOMAIN symbols : Live(k, i) => Tracks(SlotIn(us, k), k, c)
  BY DEF Good
<1>6. ASSUME NEW k \in DOMAIN symbols, Live(k, i + 1)
      PROVE  Tracks(SlotIn(vs, k), k, i)
  <2>1. PICK u, v : u = SlotIn(vs, k) /\ v = SlotIn(us, k) /\ SlotStep(v, u, k, i)
    BY <1>6
  <2>2. CASE symbols[k].at = i
    <3>1. u = Slot(i) /\ u \in Usage
      BY <2>1, <2>2 DEF SlotStep
    <3>2. \A j \in ReadsOf(k) \cup WritesOf(k) : ~(j <= i)
      <4> TAKE j \in ReadsOf(k) \cup WritesOf(k)
      <4>1. j \in 1 .. Len(program) /\ i < j
        BY <1>3, <2>2 DEF Live
      <4> QED
        BY ONLY <4>1, <1>1, i \in 1 .. Len(program)
    <3>3. u.at = i /\ ~u.read /\ ~u.assigned
      BY <3>1 DEF Slot
    <3> QED
      BY ONLY <2>1, <2>2, <3>1, <3>2, <3>3 DEF Tracks
  <2>3. CASE symbols[k].at # i
    <3>1. Tracks(v, k, c)
      BY <1>4, <1>5, <1>6, <2>1, <2>3
    <3>2. /\ u \in Usage /\ u.at = v.at
          /\ u.read <=> v.read \/ Key(k) \in Reads(i)
          /\ u.assigned <=> v.assigned \/ Key(k) \in Writes(i)
      BY <2>1, <2>3 DEF SlotStep
    <3> QED
      BY ONLY <1>3, <1>6, <2>1, <3>1, <3>2 DEF Tracks
  <2> QED
    BY <2>2, <2>3
<1>7. ASSUME NEW k \in DOMAIN symbols, NEW r
      PROVE  TellsEarly(k, r, i) <=> TellsEarly(k, r, c) \/ NewEarly(us, k, r, i)
  <2>1. i \in ReadsOf(k) <=> Key(k) \in Reads(i)
    BY <1>1 DEF ReadsOf
  <2>2. Key(k) \in Reads(i) => Live(k, i)
    BY UsedWhileLive
  <2>3. Live(k, i) => (SlotIn(us, k).assigned <=> \E j \in WritesOf(k) : j <= c)
    BY <1>5 DEF Tracks
  <2>4. (\A w \in WritesOf(k) : w >= i) <=> ~\E j \in WritesOf(k) : j <= c
    <3>1. \A w \in WritesOf(k) : w \in Nat
      BY <1>3
    <3>2. \A w \in WritesOf(k) : w >= i <=> ~(w <= c)
      BY ONLY <3>1, c \in Nat, i = c + 1
    <3> QED
      BY ONLY <3>2
  <2>5. \A j \in ReadsOf(k) : j <= i <=> j <= c \/ j = i
    BY <1>2, <1>3
  <2>6. i <= i
    BY <1>1
  <2> QED
    BY ONLY <2>1, <2>2, <2>3, <2>4, <2>5, <2>6 DEF TellsEarly, NewEarly
<1>8. ASSUME NEW k \in DOMAIN symbols, NEW r
      PROVE  TellsUnread(k, r, i) <=> TellsUnread(k, r, c) \/ NewUnread(us, k, r, i)
  <2>1. /\ symbols[k].at <= i /\ ~Live(k, i + 1) <=>
              (symbols[k].at <= c /\ ~Live(k, i)) \/ (Live(k, i) /\ ~Live(k, i + 1))
        /\ ~(symbols[k].at <= c /\ ~Live(k, i) /\ Live(k, i))
    <3>1. symbols[k].at <= i <=> symbols[k].at <= c \/ symbols[k].at = i
      BY <1>4
    <3>2. Live(k, i) => symbols[k].at <= c
      BY <1>4 DEF Live
    <3> QED
      BY <1>4, <3>1, <3>2
  <2>2. ASSUME Live(k, i), ~Live(k, i + 1)
        PROVE  /\ SlotIn(us, k).read <=> ReadsOf(k) # {}
               /\ SlotIn(us, k).assigned <=> WritesOf(k) # {}
    <3>1. Key(k) \notin Reads(i) \cup Writes(i)
      BY <2>2, ClosingUsesNothing
    <3>2. \A j \in ReadsOf(k) \cup WritesOf(k) : j <= c
      <4> TAKE j \in ReadsOf(k) \cup WritesOf(k)
      <4>1. j \in 1 .. Len(program) /\ Live(k, j)
        BY <1>3
      <4>2. j # i
        BY <3>1 DEF ReadsOf, WritesOf
      <4>3. ~(i < j)
        <5> SUFFICES ASSUME i < j PROVE FALSE
          OBVIOUS
        <5>1. PICK d \in Nat : d = symbols[k].at
          BY <1>4
        <5>2. d < j /\ Visible(d, j) /\ d < i
          BY <2>2, <4>1, <5>1 DEF Live
        <5>3. j \in Nat /\ i + 1 \in Nat /\ d < i + 1 /\ i + 1 <= j
          BY ONLY <4>1, <5>1, <5>2, <1>1, i < j, c \in Nat, i = c + 1
        <5>4. Visible(d, i + 1)
          BY ONLY <5>1, <5>2, <5>3, SeenBefore
        <5> QED
          BY <2>2, <5>1, <5>3, <5>4 DEF Live
      <4> QED
        BY ONLY <4>1, <4>2, <4>3, <1>1, c \in Nat, i = c + 1
    <3>3. Tracks(SlotIn(us, k), k, c)
      BY <1>5, <2>2
    <3>4. /\ SlotIn(us, k).read <=> \E j \in ReadsOf(k) : j <= c
          /\ SlotIn(us, k).assigned <=> \E j \in WritesOf(k) : j <= c
      BY <3>3 DEF Tracks
    <3> QED
      BY ONLY <3>2, <3>4
  <2>3. ASSUME Live(k, i), ~Live(k, i + 1)
        PROVE  NewUnread(us, k, r, i) <=> ReadsOf(k) = {} /\ r = Unread(k, WritesOf(k) # {})
    <3>1. Unread(k, SlotIn(us, k).assigned) = Unread(k, WritesOf(k) # {})
      BY <2>2, <2>3 DEF Unread
    <3> QED
      BY <2>2, <2>3, <3>1 DEF NewUnread
  <2>4. TellsUnread(k, r, i) <=>
           symbols[k].at <= i /\ ~Live(k, i + 1) /\ ReadsOf(k) = {} /\ r = Unread(k, WritesOf(k) # {})
    BY DEF TellsUnread
  <2>5. TellsUnread(k, r, c) <=>
           symbols[k].at <= c /\ ~Live(k, i) /\ ReadsOf(k) = {} /\ r = Unread(k, WritesOf(k) # {})
    BY DEF TellsUnread
  <2>6. NewUnread(us, k, r, i) => Live(k, i) /\ ~Live(k, i + 1)
    BY DEF NewUnread
  <2> QED
    BY ONLY <2>1, <2>3, <2>4, <2>5, <2>6
<1>9. \A r : r \in ps <=> \E k \in DOMAIN symbols : TellsUnread(k, r, i) \/ TellsEarly(k, r, i)
  <2> TAKE r
  <2>1. r \in rs <=> \E k \in DOMAIN symbols : TellsUnread(k, r, c) \/ TellsEarly(k, r, c)
    BY DEF Good
  <2> QED
    BY <1>7, <1>8, <2>1
<1> QED
  BY <1>6, <1>9 DEF Good

-----------------------------------------------------------------------------
(***************************************************************************)
(* The visits of the usage pass.                                           *)
(***************************************************************************)
\* The usage pass at visit i, whose stack is s.
At(i, s) ==
    /\ Resolved /\ pass = "usage" /\ i \in 1 .. Len(program) /\ i = cursor + 1
    /\ s \in Stack /\ Alike(usages, s)
    /\ \E H : History(H) /\ s = H[i]

LEMMA AtParts ==
    ASSUME NEW i, NEW s, At(i, s)
    PROVE  /\ i \in 1 .. Len(program) /\ cursor \in Nat /\ Len(program) \in Nat
           /\ usages \in Seq(Frames(Usage)) /\ Len(usages) = Len(s) /\ Len(s) \in Nat
           /\ \A f \in 1 .. Len(s) : usages[f] \in Frames(Usage)
           /\ \A f \in 1 .. Len(s) : \A n \in Names : usages[f][n] = None <=> s[f].binds[n] = 0
           /\ Clean(s, i)
           /\ \A k \in DOMAIN symbols : Live(k, i) =>
                 /\ Level(k) \in 1 .. Len(s) /\ symbols[k].name \in Names
                 /\ s[Level(k)].binds[symbols[k].name] = symbols[k].at
                 /\ SlotIn(usages, k) \in Usage
<1>1. cursor \in Nat /\ Len(program) \in Nat
  BY TypedParts DEF At, Resolved, SemanticsInv, TypeOK
<1>2. PICK H : History(H) /\ s = H[i]
  BY DEF At
<1>3. /\ usages \in Seq(Frames(Usage)) /\ Len(usages) = Len(s) /\ Len(s) \in Nat
      /\ \A f \in 1 .. Len(s) : usages[f] \in Frames(Usage)
      /\ \A f \in 1 .. Len(s) : \A n \in Names : usages[f][n] = None <=> s[f].binds[n] = 0
  BY StackParts DEF At, Alike
<1>4. i \in 1 .. Len(program) /\ i \in 1 .. Len(program) + 1 /\ Clean(s, i)
  <2>1. i \in 1 .. Len(program)
    BY DEF At
  <2>2. i \in 1 .. Len(program) + 1
    BY ONLY <2>1, <1>1
  <2> QED
    BY <1>2, <2>1, <2>2, VisitNow DEF At, Resolved
<1>5. ASSUME NEW k \in DOMAIN symbols, Live(k, i)
      PROVE  /\ Level(k) \in 1 .. Len(s) /\ symbols[k].name \in Names
             /\ s[Level(k)].binds[symbols[k].name] = symbols[k].at
             /\ SlotIn(usages, k) \in Usage
  <2>1. /\ Level(k) \in 1 .. Len(s)
        /\ s[Level(k)].binds[symbols[k].name] = symbols[k].at
    BY <1>2, <1>4, <1>5, LiveIsBound DEF At
  <2>2. symbols[k].name \in Names /\ symbols[k].at \in 1 .. Len(program) /\ symbols[k].at # 0
    <3>1. SemanticsInv
      BY DEF At, Resolved
    <3> QED
      BY <3>1, SymbolParts
  <2>3. usages[Level(k)][symbols[k].name] # None
    BY <1>3, <2>1, <2>2
  <2>4. usages[Level(k)][symbols[k].name] \in Usage \cup {None}
    BY <1>3, <2>1, <2>2 DEF Frames
  <2> QED
    BY ONLY <2>1, <2>2, <2>3, <2>4 DEF SlotIn
<1> QED
  BY ONLY <1>1, <1>3, <1>4, <1>5

\* The lookup of the usage pass finds the innermost binding of the history.
LEMMA UsageFrameMeant ==
    ASSUME NEW i, NEW s, At(i, s), NEW n \in Names, Bound(s, n) # {}
    PROVE  /\ UsageFrame(n) = Innermost(Bound(s, n))
           /\ UsageFrame(n) \in 1 .. Len(s) /\ UsageFrame(n) # 0
           /\ \A k \in DOMAIN symbols : Live(k, i) =>
                 (Meant(k, n, s) <=> symbols[k].name = n /\ UsageFrame(n) = Level(k))
           /\ \E k \in DOMAIN symbols : Live(k, i) /\ Meant(k, n, s)
<1>1. /\ Len(usages) = Len(s) /\ Len(s) \in Nat /\ usages \in Seq(Frames(Usage))
      /\ \A f \in 1 .. Len(s) : usages[f][n] = None <=> s[f].binds[n] = 0
      /\ Len(program) \in Nat /\ i \in 1 .. Len(program)
  BY AtParts
<1>2. s \in Stack /\ DOMAIN s = 1 .. Len(s) /\ DOMAIN usages = 1 .. Len(s)
  BY <1>1, StackParts DEF At
<1>3. Holding(usages, n) = Bound(s, n)
  BY ONLY <1>1, <1>2 DEF Holding, Bound
<1>4. PICK f \in 1 .. Len(s) : f = Innermost(Bound(s, n)) /\ s[f].binds[n] # 0
  BY <1>2, IdInIs
<1>5. UsageFrame(n) = f
  BY <1>3, <1>4 DEF UsageFrame
<1>6. PICK k \in DOMAIN symbols : Live(k, i) /\ symbols[k].name = n /\ Level(k) = f
  <2>1. PICK H : History(H) /\ s = H[i]
    BY DEF At
  <2>2. i \in 1 .. Len(program) + 1
    BY ONLY <1>1
  <2> QED
    BY <1>4, <2>1, <2>2, BoundIsLive DEF At
<1>7. f # 0
  BY ONLY <1>1, <1>4
<1> QED
  BY <1>4, <1>5, <1>6, <1>7 DEF Meant

\* markRead on the identifiers of an expression, and the reports it makes.
LEMMA ReadingSlots ==
    ASSUME NEW i, NEW s, At(i, s), HasExpr(i), NEW e \in Expr, e = program[i].expr
    PROVE  /\ \A k \in DOMAIN symbols : Live(k, i) =>
                 /\ SlotIn(Reading(usages, e), k) \in Usage
                 /\ SlotIn(Reading(usages, e), k).at = SlotIn(usages, k).at
                 /\ SlotIn(Reading(usages, e), k).assigned <=> SlotIn(usages, k).assigned
                 /\ SlotIn(Reading(usages, e), k).read <=>
                       SlotIn(usages, k).read \/ Key(k) \in Reads(i)
           /\ \A r : r \in Uninitialized(e) <=> \E k \in DOMAIN symbols : NewEarly(usages, k, r, i)
<1>1. /\ usages \in Seq(Frames(Usage)) /\ Len(usages) = Len(s) /\ Len(s) \in Nat
      /\ i = cursor + 1 /\ i \in 1 .. Len(program) /\ Clean(s, i) /\ s \in Stack
      /\ \A k \in DOMAIN symbols : Live(k, i) =>
            Level(k) \in 1 .. Len(s) /\ symbols[k].name \in Names /\ SlotIn(usages, k) \in Usage
  BY AtParts DEF At
<1>2. \A n \in NamesOf(e) : n \in Names /\ Bound(s, n) # {}
  BY <1>1 DEF Clean, NamesOf
<1>3. \A k \in DOMAIN symbols :
         Key(k) \in Reads(i) <=> (\E n \in NamesOf(e) : Meant(k, n, s)) /\ Live(k, i)
  <2>1. PICK H : History(H) /\ s = H[i]
    BY DEF At
  <2> QED
    BY <1>1, <2>1, UsesAre DEF At
<1>4. \A n \in NamesOf(e) :
         /\ UsageFrame(n) # 0
         /\ \A k \in DOMAIN symbols : Live(k, i) =>
               (Meant(k, n, s) <=> symbols[k].name = n /\ UsageFrame(n) = Level(k))
         /\ \E k \in DOMAIN symbols : Live(k, i) /\ Meant(k, n, s)
  BY <1>2, UsageFrameMeant
<1>5. ASSUME NEW k \in DOMAIN symbols, Live(k, i)
      PROVE  /\ SlotIn(Reading(usages, e), k) \in Usage
             /\ SlotIn(Reading(usages, e), k).at = SlotIn(usages, k).at
             /\ SlotIn(Reading(usages, e), k).assigned <=> SlotIn(usages, k).assigned
             /\ SlotIn(Reading(usages, e), k).read <=>
                   SlotIn(usages, k).read \/ Key(k) \in Reads(i)
  <2>1. PICK n \in Names, f \in 1 .. Len(s) : n = symbols[k].name /\ f = Level(k)
    BY <1>1, <1>5
  <2>2. PICK v \in Usage : v = SlotIn(usages, k) /\ v = usages[f][n]
    BY <1>1, <1>5, <2>1 DEF SlotIn
  <2>3. PICK u : u = SlotIn(Reading(usages, e), k)
    OBVIOUS
  <2>4. u = IF n \in NamesOf(e) /\ UsageFrame(n) = f THEN [v EXCEPT !.read = TRUE] ELSE v
    <3>1. DOMAIN usages = 1 .. Len(s)
      BY <1>1
    <3>2. u = Reading(usages, e)[f][n]
      BY <2>1, <2>3 DEF SlotIn
    <3> QED
      BY ONLY <2>1, <2>2, <3>1, <3>2 DEF Reading
  <2>5. n \in NamesOf(e) /\ UsageFrame(n) = f <=> Key(k) \in Reads(i)
    <3>1. (\E m \in NamesOf(e) : Meant(k, m, s)) <=> n \in NamesOf(e) /\ Meant(k, n, s)
      BY <2>1 DEF Meant
    <3> QED
      BY <1>3, <1>4, <1>5, <2>1, <3>1
  <2>6. PICK w : w = [v EXCEPT !.read = TRUE]
    OBVIOUS
  <2>7. w \in Usage /\ w.at = v.at /\ w.read /\ w.assigned = v.assigned
    BY ONLY <2>2, <2>6, v \in Usage DEF Usage
  <2> QED
    BY ONLY <2>2, <2>3, <2>4, <2>5, <2>6, <2>7, v \in Usage
<1>6. ASSUME NEW r
      PROVE  r \in Uninitialized(e) <=> \E k \in DOMAIN symbols : NewEarly(usages, k, r, i)
  <2>1. r \in Uninitialized(e) <=>
           \E n \in NamesOf(e) :
              /\ UsageFrame(n) # 0 /\ ~usages[UsageFrame(n)][n].assigned
              /\ r = [kind |-> "uninitialized", at |-> i, name |-> n]
    BY <1>1 DEF Uninitialized
  <2>2. ASSUME NEW n \in NamesOf(e), ~usages[UsageFrame(n)][n].assigned,
               r = [kind |-> "uninitialized", at |-> i, name |-> n]
        PROVE  \E k \in DOMAIN symbols : NewEarly(usages, k, r, i)
    <3>1. PICK k \in DOMAIN symbols : Live(k, i) /\ Meant(k, n, s)
      BY <1>4
    <3>2. symbols[k].name = n /\ UsageFrame(n) = Level(k) /\ Key(k) \in Reads(i)
      BY <1>3, <1>4, <3>1
    <3>3. SlotIn(usages, k) = usages[UsageFrame(n)][n]
      BY <3>2 DEF SlotIn
    <3> QED
      BY <2>2, <3>1, <3>2, <3>3 DEF NewEarly, Early
  <2>3. ASSUME NEW k \in DOMAIN symbols, NewEarly(usages, k, r, i)
        PROVE  \E n \in NamesOf(e) :
                  /\ UsageFrame(n) # 0 /\ ~usages[UsageFrame(n)][n].assigned
                  /\ r = [kind |-> "uninitialized", at |-> i, name |-> n]
    <3>1. Live(k, i) /\ Key(k) \in Reads(i) /\ ~SlotIn(usages, k).assigned /\ r = Early(k, i)
      BY <2>3 DEF NewEarly
    <3>2. PICK n \in NamesOf(e) : Meant(k, n, s)
      BY <1>3, <3>1
    <3>3. symbols[k].name = n /\ UsageFrame(n) = Level(k) /\ UsageFrame(n) # 0
      BY <1>4, <3>1, <3>2
    <3> QED
      BY <3>1, <3>3 DEF SlotIn, Early
  <2> QED
    BY <2>1, <2>2, <2>3
<1> QED
  BY <1>5, <1>6

\* A visit that neither declares a name nor leaves a block.
LEMMA PlainVisit ==
    ASSUME NEW i, NEW s, At(i, s), Good(usages, reports, cursor), NEW vs, NEW ps,
           program[i].kind \notin {"decl", "close"},
           \A k \in DOMAIN symbols : Live(k, i) =>
              /\ SlotIn(vs, k) \in Usage /\ SlotIn(vs, k).at = SlotIn(usages, k).at
              /\ SlotIn(vs, k).read <=> SlotIn(usages, k).read \/ Key(k) \in Reads(i)
              /\ SlotIn(vs, k).assigned <=> SlotIn(usages, k).assigned \/ Key(k) \in Writes(i),
           \A r : r \in ps <=> r \in reports \/ \E k \in DOMAIN symbols : NewEarly(usages, k, r, i)
    PROVE  Good(vs, ps, i)
<1>1. i \in 1 .. Len(program) /\ cursor \in Nat /\ i = cursor + 1 /\ Resolved
  BY AtParts DEF At
<1>2. \A k \in DOMAIN symbols :
         /\ symbols[k].at # i
         /\ Live(k, i + 1) => Live(k, i)
         /\ Live(k, i) => Live(k, i + 1)
  <2> TAKE k \in DOMAIN symbols
  <2>1. symbols[k].at # i
    BY <1>1, SymbolParts DEF Resolved
  <2>2. Live(k, i + 1) => Live(k, i)
    BY <1>1, <2>1, LiveStep DEF Resolved
  <2>3. Live(k, i) => Live(k, i + 1)
    BY <1>1, ClosingUsesNothing
  <2> QED
    BY <2>1, <2>2, <2>3
<1>3. \A k \in DOMAIN symbols : Live(k, i + 1) => SlotStep(SlotIn(usages, k), SlotIn(vs, k), k, i)
  BY <1>2 DEF SlotStep
<1>4. \A r : \A k \in DOMAIN symbols : ~NewUnread(usages, k, r, i)
  BY <1>2 DEF NewUnread
<1>5. \A r : r \in ps <=>
         \/ r \in reports
         \/ \E k \in DOMAIN symbols : NewEarly(usages, k, r, i) \/ NewUnread(usages, k, r, i)
  BY <1>4
<1> QED
  BY ONLY <1>1, <1>3, <1>5, Good(usages, reports, cursor), GoodStep

\* Entering a block leaves the slots of the others.
LEMMA EnteringSlots ==
    ASSUME NEW i, NEW s, At(i, s), NEW us \in Seq(Frames(Usage)), Len(us) = Len(s)
    PROVE  \A k \in DOMAIN symbols : Live(k, i) => SlotIn(Append(us, Empty), k) = SlotIn(us, k)
<1> SUFFICES ASSUME NEW k \in DOMAIN symbols, Live(k, i)
             PROVE  SlotIn(Append(us, Empty), k) = SlotIn(us, k)
  OBVIOUS
<1>1. PICK f \in 1 .. Len(s) : f = Level(k)
  BY AtParts
<1>2. Append(us, Empty)[f] = us[f]
  OBVIOUS
<1> QED
  BY ONLY <1>1, <1>2 DEF SlotIn

LEMMA GoodOpen ==
    ASSUME NEW i, NEW s, At(i, s), Good(usages, reports, cursor), program[i].kind = "open",
           NEW vs, vs = Append(usages, Empty)
    PROVE  Good(vs, reports, i)
<1>1. Reads(i) = {} /\ Writes(i) = {}
  BY DEF Reads, Writes, HasExpr
<1>2. \A k \in DOMAIN symbols : Live(k, i) => SlotIn(vs, k) = SlotIn(usages, k) /\ SlotIn(usages, k) \in Usage
  BY AtParts, EnteringSlots
<1>3. \A r : \A k \in DOMAIN symbols : ~NewEarly(usages, k, r, i)
  BY <1>1 DEF NewEarly
<1>4. program[i].kind \notin {"decl", "close"}
  OBVIOUS
<1> QED
  BY ONLY <1>1, <1>2, <1>3, <1>4, At(i, s), Good(usages, reports, cursor), PlainVisit

LEMMA GoodGuard ==
    ASSUME NEW i, NEW s, At(i, s), Good(usages, reports, cursor), program[i].kind = "guard",
           NEW vs, vs = Append(Reading(usages, program[i].expr), Empty)
    PROVE  Good(vs, reports \cup Uninitialized(program[i].expr), i)
<1>1. PICK e \in Expr : e = program[i].expr /\ HasExpr(i)
  BY VisitParts, AtParts DEF At, Resolved, SemanticsInv, HasExpr
<1>2. PICK us : us = Reading(usages, e)
  OBVIOUS
<1>3. us \in Seq(Frames(Usage)) /\ Len(us) = Len(s)
  BY <1>2, ReadingAlike DEF At, Alike
<1>4. \A k \in DOMAIN symbols : Live(k, i) => SlotIn(vs, k) = SlotIn(us, k)
  BY <1>1, <1>2, <1>3, EnteringSlots
<1>5. Writes(i) = {}
  BY DEF Writes
<1>6. /\ \A k \in DOMAIN symbols : Live(k, i) =>
            /\ SlotIn(us, k) \in Usage /\ SlotIn(us, k).at = SlotIn(usages, k).at
            /\ SlotIn(us, k).assigned <=> SlotIn(usages, k).assigned
            /\ SlotIn(us, k).read <=> SlotIn(usages, k).read \/ Key(k) \in Reads(i)
      /\ \A r : r \in Uninitialized(e) <=> \E k \in DOMAIN symbols : NewEarly(usages, k, r, i)
  BY <1>1, <1>2, ReadingSlots
<1>7. \A k \in DOMAIN symbols : Live(k, i) =>
         /\ SlotIn(vs, k) \in Usage /\ SlotIn(vs, k).at = SlotIn(usages, k).at
         /\ SlotIn(vs, k).read <=> SlotIn(usages, k).read \/ Key(k) \in Reads(i)
         /\ SlotIn(vs, k).assigned <=> SlotIn(usages, k).assigned \/ Key(k) \in Writes(i)
  BY ONLY <1>4, <1>5, <1>6
<1>8. program[i].kind \notin {"decl", "close"}
  OBVIOUS
<1>9. PICK ps : ps = reports \cup Uninitialized(program[i].expr)
  OBVIOUS
<1>10. \A r : r \in ps <=> r \in reports \/ \E k \in DOMAIN symbols : NewEarly(usages, k, r, i)
  BY ONLY <1>1, <1>6, <1>9
<1>11. Good(vs, ps, i)
  BY ONLY <1>7, <1>8, <1>10, At(i, s), Good(usages, reports, cursor), PlainVisit
<1> QED
  BY ONLY <1>9, <1>11

LEMMA GoodPrint ==
    ASSUME NEW i, NEW s, At(i, s), Good(usages, reports, cursor), program[i].kind = "print",
           NEW vs, vs = Reading(usages, program[i].expr)
    PROVE  Good(vs, reports \cup Uninitialized(program[i].expr), i)
<1>1. PICK e \in Expr : e = program[i].expr /\ HasExpr(i)
  BY VisitParts, AtParts DEF At, Resolved, SemanticsInv, HasExpr
<1>2. vs = Reading(usages, e)
  BY <1>1
<1>3. Writes(i) = {}
  BY DEF Writes
<1>4. /\ \A k \in DOMAIN symbols : Live(k, i) =>
            /\ SlotIn(vs, k) \in Usage /\ SlotIn(vs, k).at = SlotIn(usages, k).at
            /\ SlotIn(vs, k).assigned <=> SlotIn(usages, k).assigned
            /\ SlotIn(vs, k).read <=> SlotIn(usages, k).read \/ Key(k) \in Reads(i)
      /\ \A r : r \in Uninitialized(e) <=> \E k \in DOMAIN symbols : NewEarly(usages, k, r, i)
  BY <1>1, <1>2, ReadingSlots
<1>5. \A k \in DOMAIN symbols : Live(k, i) =>
         /\ SlotIn(vs, k) \in Usage /\ SlotIn(vs, k).at = SlotIn(usages, k).at
         /\ SlotIn(vs, k).read <=> SlotIn(usages, k).read \/ Key(k) \in Reads(i)
         /\ SlotIn(vs, k).assigned <=> SlotIn(usages, k).assigned \/ Key(k) \in Writes(i)
  BY ONLY <1>3, <1>4
<1>6. program[i].kind \notin {"decl", "close"}
  OBVIOUS
<1>7. PICK ps : ps = reports \cup Uninitialized(program[i].expr)
  OBVIOUS
<1>8. \A r : r \in ps <=> r \in reports \/ \E k \in DOMAIN symbols : NewEarly(usages, k, r, i)
  BY ONLY <1>1, <1>4, <1>7
<1>9. Good(vs, ps, i)
  BY ONLY <1>5, <1>6, <1>8, At(i, s), Good(usages, reports, cursor), PlainVisit
<1> QED
  BY ONLY <1>7, <1>9

\* markAssigned on the target, after the expression was read.
LEMMA GoodAssign ==
    ASSUME NEW i, NEW s, At(i, s), Good(usages, reports, cursor), program[i].kind = "assign",
           NEW vs, vs = Assigning(Reading(usages, program[i].expr), program[i].name)
    PROVE  Good(vs, reports \cup Uninitialized(program[i].expr), i)
<1>1. PICK e \in Expr, n \in Names : e = program[i].expr /\ n = program[i].name /\ HasExpr(i)
  BY VisitParts, AtParts DEF At, Resolved, SemanticsInv, HasExpr
<1>2. PICK us : us = Reading(usages, e)
  OBVIOUS
<1>3. /\ us \in Seq(Frames(Usage)) /\ Len(us) = Len(s) /\ Len(s) \in Nat
      /\ \A f \in 1 .. Len(s) : us[f] \in Frames(Usage)
  <2>1. us \in Seq(Frames(Usage)) /\ Len(us) = Len(s)
    BY <1>2, ReadingAlike DEF At, Alike
  <2>2. Len(s) \in Nat
    BY AtParts
  <2> QED
    BY ONLY <2>1, <2>2
<1>4. Bound(s, n) # {}
  BY <1>1, AtParts DEF Clean
<1>5. PICK f \in 1 .. Len(s) : f = UsageFrame(n) /\ f # 0
  BY <1>4, UsageFrameMeant
<1>6. \A k \in DOMAIN symbols : Live(k, i) =>
         (Key(k) \in Writes(i) <=> symbols[k].name = n /\ f = Level(k))
  <2>1. PICK H : History(H) /\ s = H[i] /\ s \in Stack
    BY DEF At
  <2>2. i \in 1 .. Len(program) /\ Resolved
    BY DEF At
  <2>3. \A k \in DOMAIN symbols : Live(k, i) => (Key(k) \in Writes(i) <=> Meant(k, n, s))
    BY ONLY <2>1, <2>2, <1>1, program[i].kind = "assign", UsesAre
  <2>4. \A k \in DOMAIN symbols : Live(k, i) =>
           (Meant(k, n, s) <=> symbols[k].name = n /\ f = Level(k))
    BY <1>4, <1>5, UsageFrameMeant
  <2> QED
    BY ONLY <2>3, <2>4
<1>7. /\ \A k \in DOMAIN symbols : Live(k, i) =>
            /\ SlotIn(us, k) \in Usage /\ SlotIn(us, k).at = SlotIn(usages, k).at
            /\ SlotIn(us, k).assigned <=> SlotIn(usages, k).assigned
            /\ SlotIn(us, k).read <=> SlotIn(usages, k).read \/ Key(k) \in Reads(i)
      /\ \A r : r \in Uninitialized(e) <=> \E k \in DOMAIN symbols : NewEarly(usages, k, r, i)
  BY <1>1, <1>2, ReadingSlots
<1>8. vs = [us EXCEPT ![f][n].assigned = TRUE]
  BY <1>1, <1>2, <1>5 DEF Assigning
<1>9. ASSUME NEW k \in DOMAIN symbols, Live(k, i)
      PROVE  /\ SlotIn(vs, k) \in Usage /\ SlotIn(vs, k).at = SlotIn(us, k).at
             /\ SlotIn(vs, k).read <=> SlotIn(us, k).read
             /\ SlotIn(vs, k).assigned <=> SlotIn(us, k).assigned \/ Key(k) \in Writes(i)
  <2>1. PICK g \in 1 .. Len(s), m \in Names : g = Level(k) /\ m = symbols[k].name
    BY <1>9, AtParts
  <2>2. PICK v \in Usage : v = SlotIn(us, k) /\ v = us[g][m]
    BY <1>7, <1>9, <2>1 DEF SlotIn
  <2>3. PICK u : u = SlotIn(vs, k) /\ u = vs[g][m]
    BY <2>1 DEF SlotIn
  <2>4. PICK w : w = [v EXCEPT !.assigned = TRUE]
    OBVIOUS
  <2>5. w \in Usage /\ w.at = v.at /\ w.assigned /\ w.read = v.read
    BY ONLY <2>4, v \in Usage DEF Usage
  <2>6. u = IF g = f /\ m = n THEN w ELSE v
    <3>1. DOMAIN us = 1 .. Len(s) /\ DOMAIN us[f] = Names
      BY ONLY <1>3, <1>5 DEF Frames
    <3>2. PICK x, y : /\ x = [us[f][n] EXCEPT !.assigned = TRUE]
                      /\ y = [us[f] EXCEPT ![n] = x]
      OBVIOUS
    <3>3. vs = [us EXCEPT ![f] = y]
      BY ONLY <1>8, <3>2
    <3>4. vs[g] = IF g = f THEN y ELSE us[g]
      BY ONLY <3>1, <3>3, g \in 1 .. Len(s)
    <3>5. y[m] = IF m = n THEN x ELSE us[f][m]
      BY ONLY <3>1, <3>2, m \in Names
    <3> QED
      BY ONLY <2>2, <2>3, <2>4, <3>2, <3>4, <3>5
  <2>7. Key(k) \in Writes(i) <=> g = f /\ m = n
    BY ONLY <1>6, <1>9, <2>1
  <2> QED
    BY ONLY <2>2, <2>3, <2>5, <2>6, <2>7, v \in Usage
<1>10. \A k \in DOMAIN symbols : Live(k, i) =>
         /\ SlotIn(vs, k) \in Usage /\ SlotIn(vs, k).at = SlotIn(usages, k).at
         /\ SlotIn(vs, k).read <=> SlotIn(usages, k).read \/ Key(k) \in Reads(i)
         /\ SlotIn(vs, k).assigned <=> SlotIn(usages, k).assigned \/ Key(k) \in Writes(i)
  BY ONLY <1>7, <1>9
<1>11. program[i].kind \notin {"decl", "close"}
  OBVIOUS
<1>12. PICK ps : ps = reports \cup Uninitialized(program[i].expr)
  OBVIOUS
<1>13. \A r : r \in ps <=> r \in reports \/ \E k \in DOMAIN symbols : NewEarly(usages, k, r, i)
  BY ONLY <1>1, <1>7, <1>12
<1>14. Good(vs, ps, i)
  BY ONLY <1>10, <1>11, <1>13, At(i, s), Good(usages, reports, cursor), PlainVisit
<1> QED
  BY ONLY <1>12, <1>14

\* declare makes a new slot in the block at hand, which has none for the name.
LEMMA GoodDeclare ==
    ASSUME NEW i, NEW s, At(i, s), Good(usages, reports, cursor), program[i].kind = "decl",
           NEW vs, vs = SetTop(usages, [Top(usages) EXCEPT ![program[i].name] = Slot(i)])
    PROVE  Good(vs, reports, i)
<1>1. /\ i \in 1 .. Len(program) /\ cursor \in Nat /\ i = cursor + 1 /\ Resolved
      /\ Len(program) \in Nat /\ s \in Stack /\ Len(s) \in Nat
      /\ usages \in Seq(Frames(Usage)) /\ Len(usages) = Len(s)
      /\ \A f \in 1 .. Len(s) : usages[f] \in Frames(Usage)
  BY AtParts DEF At
<1>2. PICK n \in Names : n = program[i].name
  BY <1>1, VisitParts DEF Resolved, SemanticsInv
<1>3. PICK H : History(H) /\ s = H[i]
  BY DEF At
<1>4. PICK d \in 1 .. Len(s) : d = Len(s) /\ d = Depth(i) /\ d \in Nat
  <2>1. StepsTo(s, i, H[i + 1])
    BY <1>1, <1>3, HistorySteps DEF Resolved
  <2>2. Len(s) # 0 /\ Len(H[i + 1]) = Len(s)
    BY <2>1 DEF StepsTo
  <2>3. i \in 0 .. Len(program)
    BY ONLY <1>1
  <2>4. Depth(i) = Len(H[i + 1])
    BY <1>1, <1>3, <2>3, DepthIs DEF Resolved
  <2> QED
    BY ONLY <1>1, <2>2, <2>4
<1>5. s[d].binds[n] = 0
  <2>1. Clean(s, i)
    BY AtParts
  <2> QED
    BY ONLY <1>2, <1>4, <2>1, program[i].kind = "decl" DEF Clean, Top
<1>6. PICK g : g = [usages[d] EXCEPT ![n] = Slot(i)]
  OBVIOUS
<1>7. \A m \in Names : g[m] = IF m = n THEN Slot(i) ELSE usages[d][m]
  <2>1. DOMAIN usages[d] = Names
    BY ONLY <1>1, <1>4 DEF Frames
  <2> QED
    BY ONLY <1>6, <2>1
<1>8. \A f \in 1 .. Len(s) : vs[f] = IF f = d THEN g ELSE usages[f]
  <2>1. vs = [usages EXCEPT ![d] = g]
    BY <1>1, <1>2, <1>4, <1>6 DEF SetTop, Top
  <2> QED
    BY ONLY <1>1, <2>1
<1>9. Reads(i) = {} /\ Writes(i) = {}
  BY DEF Reads, Writes, HasExpr
<1>10. ASSUME NEW k \in DOMAIN symbols, Live(k, i + 1)
       PROVE  SlotStep(SlotIn(usages, k), SlotIn(vs, k), k, i)
  <2>1. symbols[k].at = i \/ (symbols[k].at # i /\ Live(k, i))
    BY <1>1, <1>10, LiveStep DEF Resolved
  <2>2. CASE symbols[k].at = i
    <3>1. Level(k) = d /\ symbols[k].name = n
      BY <1>1, <1>2, <1>4, <2>2, SymbolParts DEF Level, Resolved, Declares
    <3>2. SlotIn(vs, k) = Slot(i)
      BY ONLY <1>4, <1>7, <1>8, <3>1, n \in Names DEF SlotIn
    <3>3. Slot(i) \in Usage
      BY <1>1, SlotType
    <3> QED
      BY ONLY <2>2, <3>2, <3>3 DEF SlotStep
  <2>3. CASE symbols[k].at # i /\ Live(k, i)
    <3>1. PICK f \in 1 .. Len(s), m \in Names :
             /\ f = Level(k) /\ m = symbols[k].name /\ s[f].binds[m] = symbols[k].at
             /\ SlotIn(usages, k) \in Usage
      BY <2>3, AtParts
    <3>2. symbols[k].at # 0
      BY <1>1, SymbolParts DEF Resolved
    <3>3. ~(f = d /\ m = n)
      BY ONLY <1>5, <3>1, <3>2
    <3>4. SlotIn(vs, k) = SlotIn(usages, k)
      BY ONLY <1>7, <1>8, <3>1, <3>3 DEF SlotIn
    <3> QED
      BY ONLY <1>9, <2>3, <3>1, <3>4 DEF SlotStep
  <2> QED
    BY <2>1, <2>2, <2>3
<1>11. \A r : \A k \in DOMAIN symbols : ~NewEarly(usages, k, r, i) /\ ~NewUnread(usages, k, r, i)
  <2> TAKE r
  <2> TAKE k \in DOMAIN symbols
  <2>1. ~NewEarly(usages, k, r, i)
    BY <1>9 DEF NewEarly
  <2>2. ~NewUnread(usages, k, r, i)
    BY <1>1, ClosingUsesNothing DEF NewUnread
  <2> QED
    BY <2>1, <2>2
<1>12. \A r : r \in reports <=>
          \/ r \in reports
          \/ \E k \in DOMAIN symbols : NewEarly(usages, k, r, i) \/ NewUnread(usages, k, r, i)
  BY ONLY <1>11
<1> QED
  BY ONLY <1>1, <1>10, <1>12, Good(usages, reports, cursor), GoodStep

\* popScope reports on the symbols that are no longer live.
LEMMA GoodClose ==
    ASSUME NEW i, NEW s, At(i, s), Good(usages, reports, cursor), program[i].kind = "close",
           NEW vs, vs = Pop(usages)
    PROVE  Good(vs, reports \cup Leaving(Top(usages)), i)
<1>1. /\ i \in 1 .. Len(program) /\ cursor \in Nat /\ i = cursor + 1 /\ Resolved
      /\ Len(program) \in Nat /\ s \in Stack /\ Len(s) \in Nat
      /\ usages \in Seq(Frames(Usage)) /\ Len(usages) = Len(s)
      /\ \A f \in 1 .. Len(s) : usages[f] \in Frames(Usage)
      /\ \A f \in 1 .. Len(s) : \A n \in Names : usages[f][n] = None <=> s[f].binds[n] = 0
  BY AtParts DEF At
<1>2. PICK H : History(H) /\ s = H[i]
  BY DEF At
<1>3. PICK d \in 1 .. Len(s) : d = Len(s) /\ Depth(i) = d - 1 /\ d \in Nat /\ d # 0
  <2>1. StepsTo(s, i, H[i + 1])
    BY <1>1, <1>2, HistorySteps DEF Resolved
  <2>2. Len(s) # 0 /\ Len(H[i + 1]) = Len(s) - 1
    BY <2>1 DEF StepsTo
  <2>3. i \in 0 .. Len(program)
    BY ONLY <1>1
  <2>4. Depth(i) = Len(H[i + 1])
    BY <1>1, <1>2, <2>3, DepthIs DEF Resolved
  <2> QED
    BY ONLY <1>1, <2>2, <2>4
<1>4. \A f \in 1 .. d - 1 : vs[f] = usages[f]
  <2>1. usages # << >>
    BY ONLY <1>1, <1>3, Emptiness
  <2> QED
    BY ONLY <1>1, <1>3, <2>1, vs = Pop(usages), Popping
<1>5. Reads(i) = {} /\ Writes(i) = {}
  BY DEF Reads, Writes, HasExpr
<1>6. \A k \in DOMAIN symbols :
         /\ Live(k, i) => /\ Level(k) \in 1 .. d /\ symbols[k].name \in Names
                          /\ s[Level(k)].binds[symbols[k].name] = symbols[k].at
                          /\ SlotIn(usages, k) \in Usage
         /\ Live(k, i) => Tracks(SlotIn(usages, k), k, cursor)
         /\ Live(k, i + 1) <=> Live(k, i) /\ Level(k) <= d - 1
         /\ Live(k, i) => symbols[k].at # i
  <2> TAKE k \in DOMAIN symbols
  <2>1. symbols[k].at # i
    BY <1>1, SymbolParts DEF Resolved
  <2>2. Live(k, i + 1) <=> Live(k, i) /\ Level(k) <= d - 1
    BY <1>1, <1>3, <2>1, LiveStep DEF Resolved
  <2>3. Live(k, i) => Tracks(SlotIn(usages, k), k, cursor)
    BY <1>1 DEF Good
  <2>4. Live(k, i) => /\ Level(k) \in 1 .. d /\ symbols[k].name \in Names
                      /\ s[Level(k)].binds[symbols[k].name] = symbols[k].at
                      /\ SlotIn(usages, k) \in Usage
    BY <1>3, AtParts
  <2> QED
    BY ONLY <2>1, <2>2, <2>3, <2>4
<1>7. ASSUME NEW k \in DOMAIN symbols, Live(k, i + 1)
      PROVE  SlotStep(SlotIn(usages, k), SlotIn(vs, k), k, i)
  <2>1. Level(k) \in 1 .. d - 1 /\ symbols[k].at # i /\ SlotIn(usages, k) \in Usage
    BY ONLY <1>3, <1>6, <1>7
  <2>2. SlotIn(vs, k) = SlotIn(usages, k)
    BY ONLY <1>4, <2>1 DEF SlotIn
  <2> QED
    BY ONLY <1>5, <2>1, <2>2 DEF SlotStep
<1>8. PICK g : g = Top(usages) /\ g = usages[d] /\ g \in Frames(Usage)
  BY <1>1, <1>3 DEF Top
<1>9. ASSUME NEW r
      PROVE  r \in Leaving(g) <=>
                \E m \in Names :
                   /\ g[m] # None /\ ~g[m].read
                   /\ r = [kind |-> IF g[m].assigned THEN "unread" ELSE "unused", at |-> g[m].at, name |-> m]
  <2>1. r \in Leaving(g) <=>
           \/ \E m \in Names : /\ g[m] # None /\ ~g[m].read /\ ~g[m].assigned
                               /\ r = [kind |-> "unused", at |-> g[m].at, name |-> m]
           \/ \E m \in Names : /\ g[m] # None /\ ~g[m].read /\ g[m].assigned
                               /\ r = [kind |-> "unread", at |-> g[m].at, name |-> m]
    BY Zenon DEF Leaving
  <2>2. \A m \in Names :
           [kind |-> IF g[m].assigned THEN "unread" ELSE "unused", at |-> g[m].at, name |-> m]
              = IF g[m].assigned THEN [kind |-> "unread", at |-> g[m].at, name |-> m]
                ELSE [kind |-> "unused", at |-> g[m].at, name |-> m]
    OBVIOUS
  <2> QED
    BY ONLY <2>1, <2>2
<1>10. ASSUME NEW k \in DOMAIN symbols, NEW m \in Names, Live(k, i), Level(k) = d, symbols[k].name = m
       PROVE  /\ g[m] # None /\ SlotIn(usages, k) = g[m]
              /\ ~Live(k, i + 1)
              /\ Unread(k, SlotIn(usages, k).assigned)
                    = [kind |-> IF g[m].assigned THEN "unread" ELSE "unused", at |-> g[m].at, name |-> m]
  <2>1. SlotIn(usages, k) = g[m]
    BY ONLY <1>8, <1>10 DEF SlotIn
  <2>2. g[m].at = symbols[k].at
    BY ONLY <1>6, <1>10, <2>1 DEF Tracks
  <2>3. g[m] # None
    BY <1>6, <1>10, <2>1, UsageIsNotNone
  <2>4. ~(d <= d - 1)
    BY ONLY <1>3
  <2>5. ~Live(k, i + 1)
    BY ONLY <1>6, <1>10, <2>4
  <2> QED
    BY ONLY <1>10, <2>1, <2>2, <2>3, <2>5 DEF Unread
<1>11. ASSUME NEW r
       PROVE  r \in Leaving(g) <=> \E k \in DOMAIN symbols : NewUnread(usages, k, r, i)
  <2>1. ASSUME NEW m \in Names, g[m] # None, ~g[m].read,
               r = [kind |-> IF g[m].assigned THEN "unread" ELSE "unused", at |-> g[m].at, name |-> m]
        PROVE  \E k \in DOMAIN symbols : NewUnread(usages, k, r, i)
    <3>1. s[d].binds[m] # 0
      BY ONLY <1>1, <1>3, <1>8, <2>1
    <3>2. i \in 1 .. Len(program) + 1
      BY ONLY <1>1
    <3>3. PICK k \in DOMAIN symbols : Live(k, i) /\ symbols[k].name = m /\ Level(k) = d
      BY <1>1, <1>2, <1>3, <3>1, <3>2, BoundIsLive
    <3>4. /\ SlotIn(usages, k) = g[m] /\ ~Live(k, i + 1)
          /\ Unread(k, SlotIn(usages, k).assigned) = r
      BY ONLY <1>10, <2>1, <3>3, m \in Names
    <3> QED
      BY ONLY <2>1, <3>3, <3>4 DEF NewUnread
  <2>2. ASSUME NEW k \in DOMAIN symbols, NewUnread(usages, k, r, i)
        PROVE  \E m \in Names :
                  /\ g[m] # None /\ ~g[m].read
                  /\ r = [kind |-> IF g[m].assigned THEN "unread" ELSE "unused", at |-> g[m].at, name |-> m]
    <3>1. /\ Live(k, i) /\ ~Live(k, i + 1) /\ ~SlotIn(usages, k).read
          /\ r = Unread(k, SlotIn(usages, k).assigned)
      BY <2>2 DEF NewUnread
    <3>2. PICK m \in Names : m = symbols[k].name
      BY <1>6, <3>1
    <3>3. Level(k) \in 1 .. d /\ ~(Level(k) <= d - 1)
      BY ONLY <1>6, <3>1
    <3>4. Level(k) = d
      BY ONLY <1>3, <3>3
    <3>5. /\ g[m] # None /\ SlotIn(usages, k) = g[m]
          /\ r = [kind |-> IF g[m].assigned THEN "unread" ELSE "unused", at |-> g[m].at, name |-> m]
      BY ONLY <1>10, <3>1, <3>2, <3>4
    <3> QED
      BY ONLY <3>1, <3>5
  <2> QED
    BY <1>9, <2>1, <2>2
<1>12. \A r : \A k \in DOMAIN symbols : ~NewEarly(usages, k, r, i)
  BY <1>5 DEF NewEarly
<1>13. PICK ps : ps = reports \cup Leaving(Top(usages))
  OBVIOUS
<1>14. \A r : r \in ps <=>
          \/ r \in reports
          \/ \E k \in DOMAIN symbols : NewEarly(usages, k, r, i) \/ NewUnread(usages, k, r, i)
  BY ONLY <1>8, <1>11, <1>12, <1>13
<1>15. Good(vs, ps, i)
  BY ONLY <1>1, <1>7, <1>14, Good(usages, reports, cursor), GoodStep
<1> QED
  BY ONLY <1>13, <1>15

-----------------------------------------------------------------------------
(***************************************************************************)
(* The invariant and the theorem.                                          *)
(***************************************************************************)
\* The visits the usage pass has made.
Walked == IF pass = "done" THEN Len(program) ELSE cursor

UsageInv ==
    /\ pass \in {"scope", "type"} => reports = {}
    /\ pass = "usage" \/ (pass = "done" /\ errors.scope = 0 /\ errors.type = 0) =>
          \E us, rs, c : us = usages /\ rs = reports /\ c = Walked /\ Good(us, rs, c)

LEMMA GoodStays ==
    ASSUME UNCHANGED << program, resolved, symbols >>, NEW us, NEW rs, NEW c, Good(us, rs, c)
    PROVE  Good(us, rs, c)'
<1>1. \A d : Depth(d)' = Depth(d)
  BY DEF Depth
<1>2. \A d, i : Visible(d, i)' <=> Visible(d, i)
  BY <1>1 DEF Visible
<1>3. \A k : Key(k)' = Key(k) /\ Level(k)' = Level(k)
  BY <1>1 DEF Key, Level
<1>4. \A k, i : Live(k, i)' <=> Live(k, i)
  BY <1>2 DEF Live
<1>5. \A i : Reads(i)' = Reads(i) /\ Writes(i)' = Writes(i)
  BY DEF Reads, Writes, HasExpr
<1>6. \A k : ReadsOf(k)' = ReadsOf(k) /\ WritesOf(k)' = WritesOf(k)
  BY <1>3, <1>5 DEF ReadsOf, WritesOf
<1>7. \A k : SlotIn(us, k)' = SlotIn(us, k)
  BY <1>3 DEF SlotIn
<1>8. \A k, u : Tracks(u, k, c) => Tracks(u, k, c)'
  BY <1>6 DEF Tracks
<1>9. \A k, w, i : Unread(k, w)' = Unread(k, w) /\ Early(k, i)' = Early(k, i)
  BY DEF Unread, Early
<1>10. \A k, r : TellsUnread(k, r, c)' <=> TellsUnread(k, r, c)
  BY <1>4, <1>6, <1>9 DEF TellsUnread
<1>11. \A k, r : TellsEarly(k, r, c)' <=> TellsEarly(k, r, c)
  BY <1>6, <1>9 DEF TellsEarly
<1> QED
  BY <1>4, <1>7, <1>8, <1>10, <1>11 DEF Good

\* Before the first visit there is nothing to report.
LEMMA GoodFirst ==
    ASSUME SemanticsInv, NEW us
    PROVE  Good(us, {}, 0)
<1>1. ASSUME NEW k \in DOMAIN symbols PROVE ~Live(k, 0 + 1) /\ ~(symbols[k].at <= 0)
  <2>1. symbols[k].at \in Nat /\ symbols[k].at \in 1 .. Len(program)
    BY SymbolParts
  <2> QED
    BY ONLY <2>1 DEF Live
<1>2. ASSUME NEW k \in DOMAIN symbols, NEW j \in ReadsOf(k) PROVE ~(j <= 0)
  <2>1. j \in 1 .. Len(program) /\ Len(program) \in Nat
    BY TypedParts DEF ReadsOf, SemanticsInv
  <2> QED
    BY ONLY <2>1
<1>3. \A k \in DOMAIN symbols : \A r : ~TellsUnread(k, r, 0) /\ ~TellsEarly(k, r, 0)
  BY <1>1, <1>2 DEF TellsUnread, TellsEarly
<1> QED
  BY <1>1, <1>3 DEF Good

LEMMA UsageStep ==
    ASSUME SemanticsInv, DeclaredOnce, UsageInv, UsagePass
    PROVE  UsageInv'
<1>1. /\ pass = "usage" /\ cursor' = cursor + 1
      /\ UNCHANGED << program, resolved, symbols >> /\ pass' \in {"usage", "done"}
  BY DEF UsagePass, UsageOpen, UsageGuard, UsageDeclare, UsageAssign, UsagePrint, UsageClose, UsageVisit,
         Walk, scopeVars
<1>2. PICK H : History(H) /\ InStep(H)
  BY DEF SemanticsInv, HistoryInv
<1>3. PICK i, s : i = cursor + 1 /\ s = H[i]
  OBVIOUS
<1>4. At(i, s)
  <2>1. /\ i \in 1 .. Len(program) /\ errors.scope = 0 /\ s \in Stack /\ Alike(usages, s)
    BY <1>1, <1>2, <1>3, UsagesNow
  <2> QED
    BY <1>1, <1>2, <1>3, <2>1 DEF At, Resolved
<1>5. Good(usages, reports, cursor)
  BY <1>1 DEF UsageInv, Walked
<1>6. Here = program[i]
  BY <1>3 DEF Here
<1>7. Good(usages', reports', i)
  <2>1. CASE UsageOpen
    <3>1. program[i].kind = "open" /\ usages' = Append(usages, Empty) /\ reports' = reports
      BY <1>6, <2>1 DEF UsageOpen, UsageVisit
    <3> QED
      BY <1>4, <1>5, <3>1, GoodOpen
  <2>2. CASE UsageGuard
    <3>1. /\ program[i].kind = "guard" /\ usages' = Append(Reading(usages, program[i].expr), Empty)
          /\ reports' = reports \cup Uninitialized(program[i].expr)
      BY <1>6, <2>2 DEF UsageGuard, UsageVisit
    <3> QED
      BY <1>4, <1>5, <3>1, GoodGuard
  <2>3. CASE UsageDeclare
    <3>1. /\ program[i].kind = "decl" /\ reports' = reports
          /\ usages' = SetTop(usages, [Top(usages) EXCEPT ![program[i].name] = Slot(i)])
      BY <1>3, <1>6, <2>3 DEF UsageDeclare, UsageVisit
    <3> QED
      BY <1>4, <1>5, <3>1, GoodDeclare
  <2>4. CASE UsageAssign
    <3>1. /\ program[i].kind = "assign"
          /\ usages' = Assigning(Reading(usages, program[i].expr), program[i].name)
          /\ reports' = reports \cup Uninitialized(program[i].expr)
      BY <1>6, <2>4 DEF UsageAssign, UsageVisit
    <3> QED
      BY <1>4, <1>5, <3>1, GoodAssign
  <2>5. CASE UsagePrint
    <3>1. /\ program[i].kind = "print" /\ usages' = Reading(usages, program[i].expr)
          /\ reports' = reports \cup Uninitialized(program[i].expr)
      BY <1>6, <2>5 DEF UsagePrint, UsageVisit
    <3> QED
      BY <1>4, <1>5, <3>1, GoodPrint
  <2>6. CASE UsageClose
    <3>1. /\ program[i].kind = "close" /\ usages' = Pop(usages)
          /\ reports' = reports \cup Leaving(Top(usages))
      BY <1>6, <2>6 DEF UsageClose, UsageVisit
    <3> QED
      BY <1>4, <1>5, <3>1, GoodClose
  <2> QED
    BY <2>1, <2>2, <2>3, <2>4, <2>5, <2>6 DEF UsagePass
<1>8. PICK us, rs : us = usages' /\ rs = reports'
  OBVIOUS
<1>9. Good(us, rs, i)'
  BY <1>1, <1>7, <1>8, GoodStays
<1>10. pass' = "done" => cursor' = Len(program')
  BY <1>1 DEF UsagePass, UsageOpen, UsageGuard, UsageDeclare, UsageAssign, UsagePrint, UsageClose
<1>11. i = Walked'
  BY <1>1, <1>3, <1>10 DEF Walked
<1> QED
  BY <1>1, <1>8, <1>9, <1>11 DEF UsageInv

LEMMA UsageInvStep ==
    ASSUME SemanticsInv, SemanticsInv', DeclaredOnce, UsageInv, [Next]_vars
    PROVE  UsageInv'
<1>1. CASE ScopePass
  <2>1. reports' = reports /\ pass = "scope"
    BY <1>1 DEF ScopePass, ScopeBlock, ScopeGuard, ScopeDeclare, ScopeAssign, ScopePrint, ScopeLeave, Reach
  <2>2. pass' \in {"scope", "type"} \/ (pass' = "done" /\ errors'.scope # 0)
    BY <1>1, <2>1 DEF ScopePass, ScopeBlock, ScopeGuard, ScopeDeclare, ScopeAssign, ScopePrint, ScopeLeave, Reach
  <2> QED
    BY <2>1, <2>2 DEF UsageInv
<1>2. CASE TypePass
  <2>1. /\ reports' = reports /\ pass = "type" /\ pass' \in {"type", "usage", "done"}
        /\ pass' = "usage" => cursor' = 0
        /\ pass' = "done" => errors' = errors /\ errors.type + errors.internal # 0
        /\ UNCHANGED << program, resolved, symbols >>
    BY <1>2 DEF TypePass, TypeOpen, TypeGuard, TypeDeclare, TypeAssign, TypePrint, TypeClose, TypeEnd,
                TypeVisit, TypeUnchanged, scopeVars
  <2>2. reports' = {}
    BY <2>1 DEF UsageInv
  <2>3. pass' = "done" => errors'.type # 0
    <3>1. errors.internal = 0 /\ errors.type \in Nat
      BY DEF SemanticsInv, ErrorsInv, TypeOK
    <3> QED
      BY ONLY <2>1, <3>1
  <2>4. PICK us, rs, c : us = usages' /\ rs = {} /\ c = 0
    OBVIOUS
  <2>5. Good(us, rs, c)
    BY <2>4, GoodFirst
  <2>6. Good(us, rs, c)'
    BY <2>1, <2>5, GoodStays
  <2>7. pass' = "usage" => c = Walked'
    BY <2>1, <2>4 DEF Walked
  <2> QED
    BY <2>1, <2>2, <2>3, <2>4, <2>6, <2>7 DEF UsageInv
<1>3. CASE UsagePass
  BY <1>3, UsageStep
<1>4. CASE UNCHANGED vars
  <2>1. /\ UNCHANGED << program, resolved, symbols >>
        /\ pass' = pass /\ errors' = errors /\ usages' = usages /\ reports' = reports /\ cursor' = cursor
    BY <1>4 DEF vars, scopeVars
  <2>2. \A us, rs, c : Good(us, rs, c) => Good(us, rs, c)'
    BY <2>1, GoodStays
  <2>3. Walked' = Walked
    BY <2>1 DEF Walked
  <2> QED
    BY <2>1, <2>2, <2>3 DEF UsageInv
<1> QED
  BY <1>1, <1>2, <1>3, <1>4 DEF Next

LEMMA UsageInvariant == Spec => [](SemanticsInv /\ DeclaredOnce /\ UsageInv)
<1>1. Init => DeclaredOnce /\ UsageInv
  BY DEF Init, DeclaredOnce, UsageInv
<1>2. SemanticsInv /\ DeclaredOnce /\ [Next]_vars => DeclaredOnce'
  BY DeclaredOnceStep
<1>3. SemanticsInv /\ SemanticsInv' /\ DeclaredOnce /\ UsageInv /\ [Next]_vars => UsageInv'
  BY UsageInvStep
<1> QED
  BY <1>1, <1>2, <1>3, SemanticsInvariant, PTL DEF Spec

\* When the last block is closed no symbol is live.
LEMMA NoneLiveAtTheEnd ==
    ASSUME Resolved, pass = "done", NEW k \in DOMAIN symbols
    PROVE  ~Live(k, Len(program) + 1)
<1> SUFFICES ASSUME Live(k, Len(program) + 1) PROVE FALSE
  OBVIOUS
<1>1. PICK H : History(H) /\ InStep(H)
  BY DEF Resolved, SemanticsInv, HistoryInv
<1>2. Len(program) \in Nat
  BY SymbolParts DEF Resolved
<1>3. PICK n \in 1 .. Len(program) + 1 : n = Len(program) + 1
  BY ONLY <1>2
<1>4. Len(H[n]) = 0
  BY <1>1, <1>3, Emptiness DEF InStep
<1>5. Live(k, n)
  BY <1>3
<1>6. Level(k) \in 1 .. Len(H[n])
  BY <1>1, <1>5, LiveIsBound
<1> QED
  BY ONLY <1>4, <1>6

\* The usage pass reports exactly what is true by the keys of the scope pass, for
\* every accepted program: no hint is missing, doubled or about another variable of
\* the same name (UsageChecker, semantic_usage.cpp).
THEOREM ExactReports == Spec => []ReportsExact
<1>1. SemanticsInv /\ DeclaredOnce /\ UsageInv => ReportsExact
  <2> SUFFICES ASSUME SemanticsInv, DeclaredOnce, UsageInv, Accepted PROVE ReportsExact
    BY DEF ReportsExact
  <2>1. pass = "done" /\ errors.scope = 0 /\ errors.type = 0
    BY DEF Accepted
  <2>2. Resolved
    BY <2>1 DEF Resolved
  <2>3. PICK n : n = Len(program) /\ n \in Nat /\ DOMAIN program = 1 .. n
    BY TypedParts DEF SemanticsInv
  <2>4. PICK us : Good(us, reports, n)
    BY <2>1, <2>3 DEF UsageInv, Walked
  <2> DEFINE About(k) ==
        LET s == symbols[k] IN
        (IF ReadAt(s) # {} THEN {}
         ELSE {[kind |-> IF WrittenAt(s) = {} THEN "unused" ELSE "unread",
                at |-> s.at, name |-> s.name]})
        \cup {[kind |-> "uninitialized", at |-> i, name |-> s.name] :
                i \in {r \in ReadAt(s) : \A w \in WrittenAt(s) : w >= r}}
  <2>5. ASSUME NEW k \in DOMAIN symbols, NEW r
        PROVE  r \in About(k) <=> TellsUnread(k, r, n) \/ TellsEarly(k, r, n)
    <3>1. ReadAt(symbols[k]) = ReadsOf(k) /\ WrittenAt(symbols[k]) = WritesOf(k)
      BY DEF ReadAt, WrittenAt, ReadsOf, WritesOf, Key
    <3>2. symbols[k].at <= n /\ ~Live(k, n + 1)
      BY <2>1, <2>2, <2>3, SymbolParts, NoneLiveAtTheEnd
    <3>3. \A j \in ReadsOf(k) : j <= n
      <4>1. \A j \in ReadsOf(k) : j \in 1 .. n
        BY <2>3 DEF ReadsOf
      <4> QED
        BY ONLY <2>3, <4>1
    <3>4. TellsUnread(k, r, n) <=>
             ReadsOf(k) = {}
             /\ r = [kind |-> IF WritesOf(k) = {} THEN "unused" ELSE "unread",
                     at |-> symbols[k].at, name |-> symbols[k].name]
      BY ONLY <3>2 DEF TellsUnread, Unread
    <3>5. TellsEarly(k, r, n) <=>
             \E i \in ReadsOf(k) :
                (\A w \in WritesOf(k) : w >= i)
                /\ r = [kind |-> "uninitialized", at |-> i, name |-> symbols[k].name]
      BY ONLY <3>3 DEF TellsEarly, Early
    <3> QED
      BY ONLY <3>1, <3>4, <3>5
  <2>6. \A r : r \in reports <=> \E k \in DOMAIN symbols : TellsUnread(k, r, n) \/ TellsEarly(k, r, n)
    BY <2>4 DEF Good
  <2> HIDE DEF About
  <2>7. reports = UNION {About(k) : k \in DOMAIN symbols}
    BY <2>5, <2>6
  <2> QED
    BY <2>7 DEF About, ReportsExact
<1> QED
  BY <1>1, UsageInvariant, PTL
=============================================================================
