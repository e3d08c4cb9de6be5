------------------------------ MODULE Semantics ------------------------------
(***************************************************************************)
(* The three semantic passes over one program (src/semantic_scope.cpp,     *)
(* semantic_type.cpp, semantic_usage.cpp, symbol_table.cpp), in the order  *)
(* main runs them.                                                         *)
(*                                                                         *)
(* Each pass walks the tree in the same order and keeps a stack of scopes  *)
(* of its own: the passes agree on what a name means only because the      *)
(* three stacks evolve alike.  The code generator relies on that: it finds *)
(* the type of a variable by the key (name, scope id) the scope pass left  *)
(* in the tree, not by a stack.                                            *)
(*                                                                         *)
(* The program is the sequence of its visits.  The scope pass chooses them *)
(* freely; the other two walk the same sequence.  An expression is an atom *)
(* or one operator over atoms; an atom is a name, or a literal, written as *)
(* its type.  The positions of visits stand for source locations.          *)
(***************************************************************************)
EXTENDS Naturals, Sequences, FiniteSets

CONSTANTS
    Names,        \* identifiers
    Vocabularies, \* what a program may be made of, and how long it may be
    None          \* "not found": no scope, no type

Types == {"int", "string", "boolean"}

\* A vocabulary has the names and types of its declarations, the expressions
\* of its statements, those a while or an if may test, and a bound: the visits
\* after which only blocks are closed.
IsExpr(e) ==
    /\ e.op \in {"atom", "add", "compare"}
    /\ e.args \in Seq(Names \cup Types)
    /\ Len(e.args) = IF e.op = "atom" THEN 1 ELSE 2
IsVocabulary(v) ==
    /\ v.names \subseteq Names /\ v.types \subseteq Types
    /\ \A e \in v.exprs \cup v.conditions : IsExpr(e)
    /\ v.visits \in Nat

\* What the usage pass keeps of a name.
Usage == [at : Nat, read : BOOLEAN, assigned : BOOLEAN]

ASSUME SemanticsAssumption ==
    /\ None \notin Names \cup Types \cup Nat \cup Usage
    /\ Names \cap Types = {}
    /\ \A v \in Vocabularies : IsVocabulary(v)

VARIABLES
    words,     \* the vocabulary of the program (an input)
    pass,      \* "scope", "type", "usage", "done"
    program,   \* the visits, in the order of the walk
    resolved,  \* for each visit, the scope ids the scope pass stored in its nodes
    cursor,    \* visits the current pass has made
    errors,    \* errors reported, by the pass that reports them
    scopes,    \* ScopeStack::scopes_ and scopeIds_
    symbols,   \* ScopeStack::ordered_: the symbol table
    allScopes, \* ScopeStack::allScopes_
    types,     \* TypeEnvStack::scopes_
    usages,    \* UsageChecker::scopes_
    reports    \* warnings and hints of the usage pass

scopeVars == << scopes, symbols, allScopes >>
vars == << words, pass, program, resolved, cursor, errors, scopeVars, types, usages, reports >>

Top(stack) == stack[Len(stack)]
Pop(stack) == SubSeq(stack, 1, Len(stack) - 1)
SetTop(stack, frame) == [stack EXCEPT ![Len(stack)] = frame]

\* The map of a block: what each name is bound to there, None if to nothing.
Empty == [n \in Names |-> None]
Holding(stack, n) == {i \in DOMAIN stack : stack[i][n] # None}

\* The innermost of the frames that satisfy a condition, given by their indices.
Innermost(frames) == CHOOSE i \in frames : \A j \in frames : j <= i

NamesOf(e) == {e.args[i] : i \in DOMAIN e.args} \cap Names

-----------------------------------------------------------------------------
(***************************************************************************)
(* Scope pass: ScopeStack and ScopeChecker.                                *)
(***************************************************************************)
\* Mutant of NextScopeId: the depth of a scope instead of a number of its own.
DepthAsId == Len(scopes)
NextScopeId == Len(allScopes)

PushScope ==
    /\ scopes' = Append(scopes, [id |-> NextScopeId, names |-> {}])
    /\ allScopes' = Append(allScopes,
                      [id |-> NextScopeId,
                       parent |-> IF scopes = << >> THEN None ELSE Top(scopes).id,
                       depth |-> Len(scopes)])

\* Mutant of ScopeOf: outermost first.
ScopeOfOutermost(n) ==
    LET holding == {i \in DOMAIN scopes : n \in scopes[i].names}
    IN IF holding = {} THEN None
       ELSE scopes[CHOOSE i \in holding : \A j \in holding : i <= j].id

\* lookup: the id of the scope that declares n, innermost first.
ScopeOf(n) ==
    LET holding == {i \in DOMAIN scopes : n \in scopes[i].names}
    IN IF holding = {} THEN None ELSE scopes[Innermost(holding)].id

\* visitExpr annotates every identifier it can resolve and reports the others.
\* Mutant of Undeclared: an identifier that is not found is not reported.
UndeclaredSilent(e) == 0
Undeclared(e) == Cardinality({i \in DOMAIN e.args : e.args[i] \in Names /\ ScopeOf(e.args[i]) = None})
Annotate(e)   == [i \in DOMAIN e.args |-> IF e.args[i] \in Names THEN ScopeOf(e.args[i]) ELSE None]

\* The walk reaches a node: it becomes the next visit of the program.
Reach(visit, notes, errs) ==
    /\ pass = "scope" /\ Len(program) < words.visits
    /\ program' = Append(program, visit)
    /\ resolved' = Append(resolved, notes)
    /\ errors' = [errors EXCEPT !.scope = @ + errs]
    /\ UNCHANGED << words, pass, cursor, types, usages, reports >>

NoNotes == [lhs |-> None, args |-> << >>]

\* The root block, and BlockStatement.
ScopeBlock ==
    /\ scopes = << >> => program = << >>
    /\ Reach([kind |-> "open"], NoNotes, 0)
    /\ PushScope
    /\ UNCHANGED symbols

\* WhileStatement and IfStatement: the condition belongs to the outer scope.
ScopeGuard(e) ==
    /\ scopes # << >>
    /\ Reach([kind |-> "guard", expr |-> e],
             [lhs |-> None, args |-> Annotate(e)], Undeclared(e))
    /\ PushScope
    /\ UNCHANGED symbols

\* visitVarDecl, tryDeclare: the first declaration of a name in a scope stays.
ScopeDeclare(n, t) ==
    /\ scopes # << >>
    /\ LET top == Top(scopes)
           at  == Len(program) + 1
       IN IF n \in top.names
          THEN /\ Reach([kind |-> "decl", name |-> n, type |-> t], NoNotes, 1)
               /\ UNCHANGED << scopes, symbols >>
          ELSE /\ Reach([kind |-> "decl", name |-> n, type |-> t], NoNotes, 0)
               /\ scopes' = SetTop(scopes, [top EXCEPT !.names = @ \cup {n}])
               /\ symbols' = Append(symbols,
                               [name |-> n, type |-> t, scope |-> top.id,
                                depth |-> Len(scopes) - 1, at |-> at])
    /\ UNCHANGED allScopes

\* visitAssign: the target first, then the expression.
ScopeAssign(n, e) ==
    /\ scopes # << >>
    /\ Reach([kind |-> "assign", name |-> n, expr |-> e],
             [lhs |-> ScopeOf(n), args |-> Annotate(e)],
             Undeclared(e) + IF ScopeOf(n) = None THEN 1 ELSE 0)
    /\ UNCHANGED scopeVars

ScopePrint(e) ==
    /\ scopes # << >>
    /\ Reach([kind |-> "print", expr |-> e],
             [lhs |-> None, args |-> Annotate(e)], Undeclared(e))
    /\ UNCHANGED scopeVars

\* The end of a block; with the root block the pass ends, and main type checks
\* the program only if the scope pass added no error.
ScopeLeave ==
    /\ pass = "scope" /\ scopes # << >>
    /\ program' = Append(program, [kind |-> "close"])
    /\ resolved' = Append(resolved, NoNotes)
    /\ scopes' = Pop(scopes)
    /\ pass' = IF Len(scopes) > 1 THEN "scope"
               ELSE IF errors.scope = 0 THEN "type" ELSE "done"
    /\ UNCHANGED << words, cursor, errors, symbols, allScopes, types, usages, reports >>

ScopePass ==
    \/ ScopeBlock
    \/ \E e \in words.conditions : ScopeGuard(e)
    \/ \E n \in words.names, t \in words.types : ScopeDeclare(n, t)
    \/ \E n \in words.names, e \in words.exprs : ScopeAssign(n, e)
    \/ \E e \in words.exprs : ScopePrint(e)
    \/ ScopeLeave

-----------------------------------------------------------------------------
(***************************************************************************)
(* Type pass: TypeEnvStack and TypeChecker.                                *)
(***************************************************************************)
Here == program[cursor + 1]

\* Mutant of TypeLookup: only the block at hand is searched.
TypeLookupHere(n) == Top(types)[n]
TypeLookup(n) ==
    IF Holding(types, n) = {} THEN None ELSE types[Innermost(Holding(types, n))][n]

AtomType(a) == IF a \in Names THEN TypeLookup(a) ELSE a

\* inferExprType and inferBooleanExprType.
Operands(e) == [i \in DOMAIN e.args |-> AtomType(e.args[i])]
Known(e) == \A i \in DOMAIN e.args : AtomType(e.args[i]) # None
\* Mutant of Fits: comparisons are not checked.
FitsAddOnly(e) == e.op = "add" => \A i \in DOMAIN e.args : Operands(e)[i] = "int"
Fits(e) ==
    CASE e.op = "atom"    -> TRUE
      [] e.op = "add"     -> \A i \in DOMAIN e.args : Operands(e)[i] = "int"
      [] e.op = "compare" -> \A i, j \in DOMAIN e.args : Operands(e)[i] = Operands(e)[j]
Infer(e) ==
    IF ~Known(e) \/ ~Fits(e) THEN None
    ELSE IF e.op = "atom" THEN Operands(e)[1]
    ELSE IF e.op = "add" THEN "int" ELSE "boolean"

\* An identifier without a type is an "internal error"; operands that are all
\* known but do not fit are the user's error.
Internal(e) == Cardinality({i \in DOMAIN e.args : AtomType(e.args[i]) = None})
Misfits(e)  == IF Known(e) /\ ~Fits(e) THEN 1 ELSE 0

TypeError(internal, type) ==
    errors' = [errors EXCEPT !.internal = @ + internal, !.type = @ + type]

Walk == cursor < Len(program) /\ cursor' = cursor + 1
TypeUnchanged == UNCHANGED << words, program, resolved, scopeVars, usages, reports >>
TypeVisit(kind) == pass = "type" /\ Walk /\ Here.kind = kind /\ TypeUnchanged

TypeOpen ==
    /\ TypeVisit("open")
    /\ types' = Append(types, Empty)
    /\ UNCHANGED << pass, errors >>

TypeGuard ==
    /\ TypeVisit("guard")
    /\ TypeError(Internal(Here.expr), Misfits(Here.expr))
    /\ types' = Append(types, Empty)
    /\ UNCHANGED pass

TypeDeclare ==
    /\ TypeVisit("decl")
    /\ types' = SetTop(types, [Top(types) EXCEPT ![Here.name] = Here.type])
    /\ UNCHANGED << pass, errors >>

\* Nothing is said of a target or an expression without a type: the errors
\* that left them without one are already reported.
TypeAssign ==
    /\ TypeVisit("assign")
    /\ LET lhs == TypeLookup(Here.name)
           rhs == Infer(Here.expr)
       IN TypeError(Internal(Here.expr),
                    Misfits(Here.expr) +
                    IF lhs # None /\ rhs # None /\ lhs # rhs THEN 1 ELSE 0)
    /\ UNCHANGED << pass, types >>

TypePrint ==
    /\ TypeVisit("print")
    /\ TypeError(Internal(Here.expr), Misfits(Here.expr))
    /\ UNCHANGED << pass, types >>

\* Mutant of TypeClose: the declarations of the block stay visible.
TypeCloseKeeps ==
    /\ TypeVisit("close") /\ cursor' < Len(program)
    /\ UNCHANGED << pass, errors, types >>
TypeClose ==
    /\ TypeVisit("close") /\ cursor' < Len(program)
    /\ types' = Pop(types)
    /\ UNCHANGED << pass, errors >>

\* The end of the root block; the usage pass runs only without errors.
TypeEnd ==
    /\ pass = "type" /\ cursor + 1 = Len(program)
    /\ types' = Pop(types)
    /\ cursor' = 0
    /\ pass' = IF errors.type + errors.internal = 0 THEN "usage" ELSE "done"
    /\ UNCHANGED errors /\ TypeUnchanged

TypePass == TypeOpen \/ TypeGuard \/ TypeDeclare \/ TypeAssign \/ TypePrint \/ TypeClose \/ TypeEnd

-----------------------------------------------------------------------------
(***************************************************************************)
(* Usage pass: UsageChecker.                                               *)
(***************************************************************************)
Slot(at) == [at |-> at, read |-> FALSE, assigned |-> FALSE]

\* lookupMutable: the frame that holds the slot of n, 0 if there is none.
UsageFrame(n) ==
    IF Holding(usages, n) = {} THEN 0 ELSE Innermost(Holding(usages, n))

\* markRead, for the identifiers of an expression.
Reading(us, e) ==
    [i \in DOMAIN us |-> [n \in Names |->
        IF n \in NamesOf(e) /\ UsageFrame(n) = i THEN [us[i][n] EXCEPT !.read = TRUE] ELSE us[i][n]]]
Uninitialized(e) ==
    {[kind |-> "uninitialized", at |-> cursor + 1, name |-> n] :
        n \in {m \in NamesOf(e) : UsageFrame(m) # 0 /\ ~usages[UsageFrame(m)][m].assigned}}

\* Mutant of Assigning: the name counts as assigned in every open block.
AssigningAll(us, n) ==
    [i \in DOMAIN us |-> [m \in Names |->
        IF m = n /\ us[i][m] # None THEN [us[i][m] EXCEPT !.assigned = TRUE] ELSE us[i][m]]]

\* markAssigned.
Assigning(us, n) ==
    IF UsageFrame(n) = 0 THEN us
    ELSE [us EXCEPT ![UsageFrame(n)][n].assigned = TRUE]

\* popScope reports on the slots of the block it leaves.
Leaving(frame) ==
    {[kind |-> "unused", at |-> frame[n].at, name |-> n] :
        n \in {m \in Names : frame[m] # None /\ ~frame[m].read /\ ~frame[m].assigned}}
    \cup
    {[kind |-> "unread", at |-> frame[n].at, name |-> n] :
        n \in {m \in Names : frame[m] # None /\ ~frame[m].read /\ frame[m].assigned}}

UsageVisit(kind) ==
    /\ pass = "usage" /\ Walk /\ Here.kind = kind
    /\ UNCHANGED << words, program, resolved, errors, scopeVars, types >>

UsageOpen ==
    /\ UsageVisit("open")
    /\ usages' = Append(usages, Empty)
    /\ UNCHANGED << pass, reports >>

UsageGuard ==
    /\ UsageVisit("guard")
    /\ usages' = Append(Reading(usages, Here.expr), Empty)
    /\ reports' = reports \cup Uninitialized(Here.expr)
    /\ UNCHANGED pass

UsageDeclare ==
    /\ UsageVisit("decl")
    /\ usages' = SetTop(usages, [Top(usages) EXCEPT ![Here.name] = Slot(cursor + 1)])
    /\ UNCHANGED << pass, reports >>

\* The expression is read before the target counts as assigned.
UsageAssign ==
    /\ UsageVisit("assign")
    /\ usages' = Assigning(Reading(usages, Here.expr), Here.name)
    /\ reports' = reports \cup Uninitialized(Here.expr)
    /\ UNCHANGED pass

UsagePrint ==
    /\ UsageVisit("print")
    /\ usages' = Reading(usages, Here.expr)
    /\ reports' = reports \cup Uninitialized(Here.expr)
    /\ UNCHANGED pass

UsageClose ==
    /\ UsageVisit("close")
    /\ usages' = Pop(usages)
    /\ reports' = reports \cup Leaving(Top(usages))
    /\ pass' = IF cursor' = Len(program) THEN "done" ELSE pass

UsagePass == UsageOpen \/ UsageGuard \/ UsageDeclare \/ UsageAssign \/ UsagePrint \/ UsageClose

-----------------------------------------------------------------------------
Init ==
    /\ words \in Vocabularies
    /\ pass = "scope" /\ program = << >> /\ resolved = << >> /\ cursor = 0
    /\ errors = [scope |-> 0, type |-> 0, internal |-> 0]
    /\ scopes = << >> /\ symbols = << >> /\ allScopes = << >>
    /\ types = << >> /\ usages = << >> /\ reports = {}

Next == ScopePass \/ TypePass \/ UsagePass

Spec == Init /\ [][Next]_vars

-----------------------------------------------------------------------------
(***************************************************************************)
(* Properties.                                                             *)
(***************************************************************************)
Visit ==
    [kind : {"open", "close"}]
        \cup [kind : {"guard"}, expr : words.conditions]
        \cup [kind : {"print"}, expr : words.exprs]
        \cup [kind : {"decl"}, name : words.names, type : words.types]
        \cup [kind : {"assign"}, name : words.names, expr : words.exprs]
ScopeId == Nat \cup {None}
Note    == [lhs : ScopeId, args : Seq(ScopeId)]
Symbol  == [name : Names, type : Types, scope : Nat, depth : Nat, at : Nat]
Report  == [kind : {"uninitialized", "unused", "unread"}, at : Nat, name : Names]

Frames(S) == [Names -> S \cup {None}]

TypeOK ==
    /\ words \in Vocabularies
    /\ pass \in {"scope", "type", "usage", "done"}
    /\ program \in Seq(Visit)
    /\ resolved \in Seq(Note) /\ Len(resolved) = Len(program)
    /\ cursor \in 0 .. Len(program)
    /\ errors \in [scope : Nat, type : Nat, internal : Nat]
    /\ scopes \in Seq([id : Nat, names : SUBSET Names])
    /\ symbols \in Seq(Symbol)
    /\ allScopes \in Seq([id : Nat, parent : ScopeId, depth : Nat])
    /\ types \in Seq(Frames(Types)) /\ (pass # "type" => types = << >>)
    /\ usages \in Seq(Frames(Usage)) /\ (pass # "usage" => usages = << >>)
    /\ reports \subseteq Report

\* The program passed every check.
Accepted == pass = "done" /\ errors = [scope |-> 0, type |-> 0, internal |-> 0]

\* Reference definitions, by position in the program alone.  Depth(i): the
\* blocks open after visit i.
Depth(i) == Cardinality({j \in 1 .. i : program[j].kind \in {"open", "guard"}})
            - Cardinality({j \in 1 .. i : program[j].kind = "close"})
Visible(d, i) == d < i /\ \A k \in d .. i - 1 : Depth(k) >= Depth(d)

\* The declaration a name at visit i means: of those in blocks still open, the
\* first in the innermost block; 0 when there is none.
DeclarationOf(n, i) ==
    LET visible == {d \in 1 .. i - 1 :
                       program[d].kind = "decl" /\ program[d].name = n /\ Visible(d, i)}
        inner == {d \in visible : \A c \in visible : Depth(c) <= Depth(d)}
    IN IF visible = {} THEN 0 ELSE CHOOSE d \in inner : \A c \in inner : d <= c

HasExpr(i) == program[i].kind \in {"guard", "print", "assign"}
\* The identifiers of visit i, with the scope ids stored in their nodes.
Reads(i) ==
    IF ~HasExpr(i) THEN {}
    ELSE LET args == program[i].expr.args
         IN {<< args[k], resolved[i].args[k] >> : k \in {k \in DOMAIN args : args[k] \in Names}}
Writes(i) ==
    IF program[i].kind = "assign" THEN {<< program[i].name, resolved[i].lhs >>} ELSE {}

SymbolsOf(key) == {k \in DOMAIN symbols : << symbols[k].name, symbols[k].scope >> = key}

\* No two entries of the symbol table have the same key (name, scope id), which
\* is all the code generator distinguishes variables by; the depth of an entry
\* is the one of its scope, and every scope but the first lies in an earlier one.
KeysUnique ==
    /\ \A k, l \in DOMAIN symbols :
          symbols[k].name = symbols[l].name /\ symbols[k].scope = symbols[l].scope => k = l
    /\ \A k \in DOMAIN symbols :
          LET s == symbols[k].scope IN
          s + 1 \in DOMAIN allScopes /\ allScopes[s + 1].depth = symbols[k].depth
    /\ \A i \in DOMAIN allScopes :
          LET p == allScopes[i].parent IN
          IF i = 1 THEN p = None ELSE p + 1 < i /\ allScopes[p + 1].depth + 1 = allScopes[i].depth

\* The scope id stored in a node leads to the declaration lexical scoping
\* means, and an identifier is left without one only if there is none: a use
\* before the declaration in the same block means the outer variable.
ResolvesLexically ==
    \A i \in DOMAIN program : \A key \in Reads(i) \cup Writes(i) :
        LET d == DeclarationOf(key[1], i) IN
        IF d = 0 THEN key[2] = None
        ELSE \E k \in SymbolsOf(key) : symbols[k].at = d

\* The type the type checker finds for a name, on its own stack, is the type
\* the symbol table has under the key the scope pass stored for it.
TypesAgree ==
    pass = "type" /\ cursor < Len(program) =>
        \A key \in Reads(cursor + 1) \cup Writes(cursor + 1) :
            \A k \in SymbolsOf(key) : TypeLookup(key[1]) = symbols[k].type

\* The type checker never meets a name without a type: what its message calls
\* an internal error cannot happen once the scope pass has succeeded.
NoInternalError == errors.internal = 0

\* What the code generator may assume of an accepted program, in its own terms
\* (types by key): every name is in the symbol table, both sides of an
\* assignment and of a comparison have one type, and only ints are added.
DeclType(key) == symbols[CHOOSE k \in SymbolsOf(key) : TRUE].type
ArgTypes(i) ==
    LET args == program[i].expr.args
    IN [k \in DOMAIN args |-> IF args[k] \in Names
                              THEN DeclType(<< args[k], resolved[i].args[k] >>) ELSE args[k]]
CodegenAssumptions ==
    Accepted => \A i \in DOMAIN program :
        /\ \A key \in Reads(i) \cup Writes(i) : SymbolsOf(key) # {}
        /\ HasExpr(i) =>
              LET op == program[i].expr.op
                  ts == ArgTypes(i)
              IN /\ op = "add" => ts[1] = "int" /\ ts[2] = "int"
                 /\ op = "compare" => ts[1] = ts[2]
                 /\ program[i].kind = "assign" =>
                       DeclType(<< program[i].name, resolved[i].lhs >>) =
                           CASE op = "atom" -> ts[1] [] op = "add" -> "int" [] op = "compare" -> "boolean"

\* The usage pass reports, for every declaration of an accepted program, exactly
\* what the keys of the scope pass say: never used, assigned but never read,
\* and reads with no assignment before them in the walk.
ReadAt(s)    == {i \in DOMAIN program : << s.name, s.scope >> \in Reads(i)}
WrittenAt(s) == {i \in DOMAIN program : << s.name, s.scope >> \in Writes(i)}
ReportsExact ==
    Accepted => reports =
        UNION {LET s == symbols[k] IN
               (IF ReadAt(s) # {} THEN {}
                ELSE {[kind |-> IF WrittenAt(s) = {} THEN "unused" ELSE "unread",
                       at |-> s.at, name |-> s.name]})
               \cup {[kind |-> "uninitialized", at |-> i, name |-> s.name] :
                       i \in {r \in ReadAt(s) : \A w \in WrittenAt(s) : w >= r}}
               : k \in DOMAIN symbols}
=============================================================================
