------------------------------ MODULE FrontEnd ------------------------------
(***************************************************************************)
(* The loop that lexes and parses a text, and with --fix rewrites it and   *)
(* starts again (src/main.cpp, the passes of compileFile).                 *)
(***************************************************************************)
EXTENDS Parser, FiniteSets

CONSTANTS
    Texts,        \* source texts
    MaxFixPasses  \* kMaxFixPasses

VARIABLES
    stage,    \* "lex", then "lexed", at last "accepted", "failed" or "exceeded"
    fixing,   \* --fix
    pass,     \* fixPass
    programs, \* the concrete trees of an accepted text
    written,  \* what the tokens of the text that was given say
    wrong     \* the token at which the last parse failed, 0 before

vars == << lexVars, stage, fixing, pass, programs, written, wrong >>

Init ==
    /\ text \in Texts
    /\ pos = 0 /\ tokens = << >> /\ hasErrors = FALSE /\ fixes = << >> /\ content = FALSE
    /\ stage = "lex" /\ fixing \in BOOLEAN /\ pass = 0
    /\ programs = << >> /\ written = << >> /\ wrong = 0

\* What tokens say: a word that has errors in it says nothing, a text is a text
\* wherever it ends.
Says(toks, of) ==
    LET right == SelectSeq(toks, LAMBDA t : t.kind # "eof" /\ (t.kind = "id" => t.last = t.first + 1))
    IN [i \in DOMAIN right |->
           IF right[i].kind = "text" THEN << Quote >> ELSE SubSeq(of, right[i].first + 1, right[i].last)]

Lex ==
    /\ stage = "lex" /\ LexStep
    /\ stage' = IF Lexed' THEN "lexed" ELSE "lex"
    /\ written' = IF Lexed' /\ pass = 0 THEN Says(tokens', text) ELSE written
    /\ UNCHANGED << fixing, pass, programs, wrong >>

MayRewrite(suggested) == fixing /\ suggested # << >> /\ Compatible(suggested, Len(text))
Restart(suggested) ==
    /\ text' = Applied(text, suggested)
    /\ StartLexing
    /\ pass' = pass + 1
    /\ stage' = IF pass + 1 = MaxFixPasses THEN "exceeded" ELSE "lex"
    /\ UNCHANGED << fixing, programs, written >>
GiveUp == stage' = "failed" /\ UNCHANGED << lexVars, fixing, pass, programs, written >>

FixAfterLex == stage = "lexed" /\ MayRewrite(fixes) /\ Restart(fixes) /\ UNCHANGED wrong
LexFails    == stage = "lexed" /\ hasErrors /\ ~MayRewrite(fixes) /\ GiveUp /\ UNCHANGED wrong

\* The parser runs; its fixes come after those of the lexer's warnings.
CanParse == stage = "lexed" /\ ~hasErrors /\ ~MayRewrite(fixes)
ParseAccepts ==
    /\ CanParse /\ ~TranslationUnit.failed
    /\ stage' = "accepted"
    /\ programs' = TranslationUnit.node
    /\ UNCHANGED << lexVars, fixing, pass, written, wrong >>
ParseFails ==
    /\ CanParse /\ TranslationUnit.failed
    /\ LET all == fixes \o TranslationUnit.fixes
       IN IF MayRewrite(all) THEN Restart(all) ELSE GiveUp
    /\ wrong' = TranslationUnit.at

Next == Lex \/ FixAfterLex \/ LexFails \/ ParseAccepts \/ ParseFails

\* The loop goes on.  The last conjunct is weak fairness of a parse, which can
\* happen where CanParse holds and always changes the state.
Fairness ==
    /\ WF_vars(Lex) /\ WF_vars(FixAfterLex) /\ WF_vars(LexFails)
    /\ []<>~CanParse \/ []<><<ParseAccepts \/ ParseFails>>_vars
Spec == Init /\ [][Next]_vars /\ Fairness

-----------------------------------------------------------------------------
(***************************************************************************)
(* The grammar over tokens, by the productions of Program to BooleanExpr   *)
(* (README.md:36-71): whether the tokens first to last - 1 are what a      *)
(* symbol stands for.  What is inside a token is the lexer's: `digits` and *)
(* `text` stand for the digit and for the string in quotes, whatever they  *)
(* are made of.                                                            *)
(***************************************************************************)
Is(kind, first, last) == last = first + 1 /\ Kind(first) = kind
Splits(first, last) == first + 1 .. last - 1

RECURSIVE IsExpr(_, _), IsBlock(_, _), IsStatements(_, _)
IsBoolean(i, j) ==
    \/ Is("true", i, j) \/ Is("false", i, j)
    \/ /\ j > i + 2 /\ Kind(i) = "(" /\ Kind(j - 1) = ")"
       /\ \E m \in i + 2 .. j - 3 : /\ Kind(m) \in {"==", "!="}
                                    /\ IsExpr(i + 1, m) /\ IsExpr(m + 1, j - 1)
IsExpr(i, j) ==
    \/ Is("digits", i, j) \/ Is("text", i, j) \/ Is("id", i, j)
    \/ IsBoolean(i, j)
    \/ j > i + 2 /\ Kind(i) = "digits" /\ Kind(i + 1) = "+" /\ IsExpr(i + 2, j)
IsStatement(i, j) ==
    \/ j > i + 3 /\ Kind(i) = "print" /\ Kind(i + 1) = "(" /\ Kind(j - 1) = ")" /\ IsExpr(i + 2, j - 1)
    \/ j > i + 2 /\ Kind(i) = "id" /\ Kind(i + 1) = "=" /\ IsExpr(i + 2, j)
    \/ j = i + 2 /\ Kind(i) \in Types /\ Kind(i + 1) = "id"
    \/ Kind(i) \in {"while", "if"} /\ \E m \in Splits(i, j) : IsBoolean(i + 1, m) /\ IsBlock(m, j)
    \/ IsBlock(i, j)
IsStatements(i, j) == i = j \/ \E m \in i + 1 .. j : IsStatement(i, m) /\ IsStatements(m, j)
IsBlock(i, j) == j > i + 1 /\ Kind(i) = "{" /\ Kind(j - 1) = "}" /\ IsStatements(i + 1, j - 1)

RECURSIVE IsUnit(_, _)
IsUnit(i, j) == i = j \/ \E m \in i + 2 .. j : /\ Kind(m - 1) = "$" /\ IsBlock(i, m - 1)
                                               /\ IsUnit(m, j)

\* The text of a tree, as its tokens are said.
RECURSIVE ExprText(_), StatementText(_)
ExprText(e) ==
    CASE e.k = "add" -> ExprText(e.l) \o << << "+" >> >> \o ExprText(e.r)
      [] e.k = "cmp" -> << << "(" >> >> \o ExprText(e.l) \o << e.op >> \o ExprText(e.r) \o << << ")" >> >>
      [] OTHER       -> << e.v >>
BodyText(stmts) ==
    << << "{" >> >> \o FlattenSeq([i \in DOMAIN stmts |-> StatementText(stmts[i])]) \o << << "}" >> >>
StatementText(st) ==
    CASE st.k = "print"  -> << << "print" >>, << "(" >> >> \o ExprText(st.e) \o << << ")" >> >>
      [] st.k = "assign" -> << st.name, << "=" >> >> \o ExprText(st.e)
      [] st.k = "decl"   -> << st.type, st.name >>
      [] st.k = "block"  -> BodyText(st.body)
      [] OTHER           -> << << st.k >> >> \o ExprText(st.cond) \o BodyText(st.body)

\* The span of a node, and of every node in it, is what it was made of.
TextOf(n) == [i \in 1 .. n.last - n.first |-> Said(n.first + i - 1)]
RECURSIVE SpansRight(_)
SpansRight(n) ==
    /\ \A i \in DOMAIN n.kids : SpansRight(n.kids[i])
    /\ CASE n.rule = "program"    -> TextOf(n) = BodyText(LowerProgram(n)) \o << << "$" >> >>
         [] n.rule = "statements" -> n.kids = << >> => n.first = n.last
         [] n.rule \in {"leaf", "sum", "comparison"} -> TextOf(n) = ExprText(LowerExpr(n))
         [] OTHER                 -> TextOf(n) = StatementText(LowerStatement(n))

RECURSIVE IsSubsequence(_, _)
IsSubsequence(s, t) ==
    \/ s = << >>
    \/ t # << >> /\ IsSubsequence(IF Head(s) = Head(t) THEN Tail(s) ELSE s, Tail(t))

-----------------------------------------------------------------------------
TypeOK ==
    /\ pos \in 0 .. Len(text)
    /\ \A i \in DOMAIN text : text[i] \in Pieces
    /\ \A i \in DOMAIN tokens : tokens[i].kind \in Kinds /\ tokens[i].last <= Len(text)
    /\ stage \in {"lex", "lexed", "accepted", "failed", "exceeded"}
    /\ pass \in 0 .. MaxFixPasses /\ wrong \in Nat

Final == stage \in {"accepted", "failed", "exceeded"}

\* The parser accepts the sequences of tokens that the productions derive, and no
\* others (README.md:36-66, parser.hpp: recursive descent without backtracking).  A
\* number and a string are one token each: the productions for what is in them
\* (README.md:65-66, 68, 75-77, 83-85) are narrower than lexNumber and lexString,
\* which take any digits and whatever is on the line.
AcceptsGrammar ==
    CanParse => (TranslationUnit.failed # IsUnit(1, Len(tokens)))

\* "recover from common mistakes without changing intended program meaning"
\* (README.md:284): all that was written is still there, in its order, when a
\* text is accepted.
NothingLost == stage = "accepted" => IsSubsequence(written, Says(tokens, text))

\* The trees have the program's tokens at their leaves, and every node the span
\* that errors in the later passes are reported at.
TreesMatchText ==
    stage = "accepted" =>
        /\ \A i \in DOMAIN programs : SpansRight(programs[i])
        /\ \A i \in DOMAIN programs :
              programs[i].first = IF i = 1 THEN 1 ELSE programs[i - 1].last
        /\ programs # << >> => programs[Len(programs)].last = Len(tokens)

\* With --fix, a parse gets past the token that was fixed for the last one: no
\* fix is made twice (main.cpp:360-375).
GetsFurther == [][ParseFails /\ wrong > 0 => wrong' > wrong]_vars

\* Whether a text, read from piece p on, has a `/` that begins no comment.  A
\* string reaches to the next quote, or to the end of its line or of the text; a
\* comment reaches to the first star and slash behind its own, or to the end.
RECURSIVE StrayFrom(_, _)
StrayFrom(t, p) ==
    LET Stops == {q \in p + 1 .. Len(t) : t[q] \in {Quote, Newline}}
        Ended == {q \in p + 3 .. Len(t) : t[q - 1] = "*" /\ t[q] = "/"}
        stop  == Min(Stops)
    IN p <= Len(t) /\
       CASE t[p] = Quote -> Stops # {} /\ StrayFrom(t, IF t[stop] = Quote THEN stop + 1 ELSE stop)
         [] t[p] = "/"   -> \/ p = Len(t) \/ t[p + 1] # "*"
                            \/ Ended # {} /\ StrayFrom(t, Min(Ended) + 1)
         [] OTHER        -> StrayFrom(t, p + 1)

\* The passes are used up only where a `/` that begins no comment is rewritten
\* over and over (main.cpp:399).  A slash in a string or a comment is no reason.
HasStraySlash(t) == StrayFrom(t, 1)
ExceedsOnlyBySlash == stage = "exceeded" => HasStraySlash(text)

\* Every text is accepted or refused.
Settles == <>Final

\* "stray `/` -> start `/*`" (README.md:281): the star goes after the slash.
StarFollowsSlash ==
    \A i \in DOMAIN fixes :
        fixes[i].new = << "*" >> => fixes[i].first > 0 /\ text[fixes[i].first] = "/"
=============================================================================
