------------------------------ MODULE TextRules ------------------------------
(***************************************************************************)
(* The rules javac and LLVM have for what is emitted, for a node given     *)
(* that its parts obey them.                                               *)
(***************************************************************************)
EXTENDS Emitters

\* javac: no variable is declared where one of that name is visible, and only
\* visible ones are used.  vars are the identifiers in the expression of the first
\* statement, and body and rest say whether its body and the statements after it
\* obey.
SeenAfter(st, seen) == IF st.k = "decl" THEN seen \cup {st.name} ELSE seen
NoClashOf(vars, body, rest, stmts, seen) ==
    \/ stmts = << >>
    \/ LET st == Head(stmts)
       IN /\ OwnExprs(st) # {} => {x.name : x \in vars} \subseteq seen
          /\ st.k = "assign" => st.name \in seen
          /\ st.k = "decl" => st.name \notin seen
          /\ HasBody(st) => body
          /\ rest

\* LLVM: a register and a label are defined once, a branch leads to a label that
\* exists, and a label comes after a branch.
DefinedAt(text) == {i \in DOMAIN text : text[i].dst # None}
LabelAt(text) == {i \in DOMAIN text : text[i].op = "label"}
BranchAt(text) == {i \in DOMAIN text : text[i].op \in {"jmp", "br"}}
Targets(line) == IF line.op = "jmp" THEN {line.l} ELSE {line.r[1], line.r[2]}
WellFormed(text) ==
    /\ \A i, j \in DefinedAt(text) : text[i].dst = text[j].dst => i = j
    /\ \A i, j \in LabelAt(text) : text[i].l = text[j].l => i = j
    /\ \A i \in BranchAt(text) : Targets(text[i]) \subseteq {text[j].l : j \in LabelAt(text)}
    /\ \A i \in LabelAt(text) : i - 1 \in BranchAt(text)
    /\ \A i \in BranchAt(text) : i + 1 \in LabelAt(text)
=============================================================================
