-------------------------------- MODULE Lexer --------------------------------
(***************************************************************************)
(* The lexer (src/lexer.cpp), one action for each branch of its scan loop. *)
(*                                                                         *)
(* A piece of text is a character, or the letters of a reserved word.      *)
(* Words that touch are one word, as lexWord takes all the letters there   *)
(* are.                                                                    *)
(***************************************************************************)
EXTENDS SourceText

CONSTANTS
    Letters,  \* a to z; no run of them spells a reserved word
    Digits,
    Others    \* characters the language does not have

Types    == {"int", "string", "boolean"}
Reserved == Types \cup {"print", "while", "if", "true", "false"}
Words    == Reserved \cup Letters
Symbols  == {"(", ")", "{", "}", "+", "$"}
Quote    == "quote"
Newline  == "newline"
Blank    == {" ", Newline}
Pieces   == Words \cup Digits \cup Symbols \cup Blank \cup Others \cup {Quote, "=", "!", "/", "*"}

ASSUME PiecesApart ==
    /\ Letters \cap (Reserved \cup Digits \cup Symbols \cup Blank \cup {Quote, "=", "!", "/", "*"}) = {}
    /\ Digits \cap (Reserved \cup Symbols \cup Blank \cup {Quote, "=", "!", "/", "*"}) = {}
    /\ Others \cap (Words \cup Digits \cup Symbols \cup Blank \cup {Quote, "=", "!", "/", "*"}) = {}

VARIABLES
    text,
    pos,       \* pos_
    tokens,
    hasErrors, \* diagnostics.hasErrors()
    fixes,     \* suggested fixes of the errors and warnings, in their order
    content    \* currentProgramHasContent_

lexVars == << text, pos, tokens, hasErrors, fixes, content >>

Kinds == Reserved \cup Symbols \cup {"=", "==", "!=", "id", "digits", "text", "eof"}
Token(kind, first, last) == [kind |-> kind, first |-> first, last |-> last]
Lexeme(t) == SubSeq(text, t.first + 1, t.last)
Lexed == tokens # << >> /\ tokens[Len(tokens)].kind = "eof"

At(p, pieces) == p < Len(text) /\ text[p + 1] \in pieces
\* From pos to last there are such pieces, and no more follow.
IsRun(last, pieces) ==
    /\ \A p \in pos .. last - 1 : text[p + 1] \in pieces
    /\ ~At(last, pieces)
Ends == pos + 1 .. Len(text)

\* emitToken, and the step past the token.
EmitToken(kind, last) ==
    /\ tokens' = Append(tokens, Token(kind, pos, last))
    /\ content' = (kind # "$")
    /\ pos' = last
    /\ UNCHANGED text
Skip(last) == pos' = last /\ UNCHANGED << text, tokens, content >>

\* addError, with a suggested fix or without one.
NoError == UNCHANGED << hasErrors, fixes >>
Error(fix) == hasErrors' = TRUE /\ fixes' = fixes \o fix

SkipWhitespace ==
    /\ At(pos, Blank)
    /\ \E last \in Ends : IsRun(last, Blank) /\ Skip(last)
    /\ NoError

\* trySkipBlockComment.
Closes(last) == last >= pos + 4 /\ last <= Len(text) /\ text[last - 1] = "*" /\ text[last] = "/"
SkipBlockComment ==
    /\ At(pos, {"/"}) /\ At(pos + 1, {"*"})
    /\ \/ \E last \in Ends :
             /\ Closes(last)
             /\ \A e \in pos + 1 .. last - 1 : ~Closes(e)
             /\ Skip(last) /\ NoError
       \/ /\ \A e \in Ends : ~Closes(e)
          /\ Skip(Len(text)) /\ Error(<< Insert(Len(text), << "*", "/" >>) >>)

\* Mutant of AddQuote: the quote goes after the newline.
AddQuoteLate(at) == Insert(at + 1, << Quote >>)
AddQuote(at) == Insert(at, << Quote >>)
\* lexString; last is where the first quote, newline or end after the opening is.
LexString ==
    /\ At(pos, {Quote})
    /\ \E last \in Ends :
          /\ \A p \in pos + 1 .. last - 1 : ~At(p, {Quote, Newline})
          /\ \/ At(last, {Quote}) /\ EmitToken("text", last + 1) /\ NoError
             \/ /\ last = Len(text) \/ At(last, {Newline})
                /\ EmitToken("text", last) /\ Error(<< AddQuote(last) >>)

LexNumber ==
    /\ At(pos, Digits)
    /\ \E last \in Ends : IsRun(last, Digits) /\ EmitToken("digits", last)
    /\ NoError

\* A type and one more letter are to be separated.
IsGlued(last)   == last = pos + 2 /\ text[pos + 1] \in Types /\ text[pos + 2] \in Letters
Separated(last) == Rewrite(pos, last, << text[pos + 1], " ", text[last] >>)
LexWord ==
    /\ At(pos, Words)
    /\ \E last \in Ends :
          /\ IsRun(last, Words)
          /\ IF last = pos + 1
             THEN EmitToken(IF text[last] \in Reserved THEN text[last] ELSE "id", last) /\ NoError
             ELSE EmitToken("id", last) /\ Error(IF IsGlued(last) THEN << Separated(last) >> ELSE << >>)

LexSymbol == At(pos, Symbols) /\ EmitToken(text[pos + 1], pos + 1) /\ NoError
LexEqual ==
    /\ At(pos, {"="})
    /\ IF At(pos + 1, {"="}) THEN EmitToken("==", pos + 2) ELSE EmitToken("=", pos + 1)
    /\ NoError

\* Mutant of Inequality: the piece after the `!` goes too.
InequalityWide(at) == Rewrite(at, at + 2, << "!", "=" >>)
Inequality(at) == Rewrite(at, at + 1, << "!", "=" >>)
\* Mutant of LexBang: the scan goes on one piece too far.
LexBangFar ==
    /\ At(pos, {"!"})
    /\ IF At(pos + 1, {"="})
       THEN EmitToken("!=", pos + 2) /\ NoError
       ELSE Skip(pos + 2) /\ Error(<< Inequality(pos) >>)
LexBang ==
    /\ At(pos, {"!"})
    /\ IF At(pos + 1, {"="})
       THEN EmitToken("!=", pos + 2) /\ NoError
       ELSE Skip(pos + 1) /\ Error(<< Inequality(pos) >>)

StraySlash ==
    /\ At(pos, {"/"}) /\ ~At(pos + 1, {"*"})
    /\ Skip(pos + 1) /\ Error(<< Insert(pos, << "*" >>) >>)
\* Mutant of UnexpectedCharacter: the scan does not go on.
UnexpectedCharacterStuck == At(pos, Others \cup {"*"}) /\ Skip(pos) /\ Error(<< >>)
UnexpectedCharacter == At(pos, Others \cup {"*"}) /\ Skip(pos + 1) /\ Error(<< >>)

\* The end of lexAll, with warnTrailingEop.
EndOfText ==
    /\ pos = Len(text)
    /\ tokens' = Append(tokens, Token("eof", pos, pos))
    /\ fixes' = IF ~hasErrors /\ content THEN Append(fixes, Insert(Len(text), << "$" >>)) ELSE fixes
    /\ UNCHANGED << text, pos, hasErrors, content >>

\* The beginning of lexAll, diagnostics being cleared.
StartLexing ==
    /\ pos' = 0 /\ tokens' = << >> /\ hasErrors' = FALSE /\ fixes' = << >> /\ content' = FALSE

LexStep ==
    /\ ~Lexed
    /\ \/ SkipWhitespace \/ SkipBlockComment \/ LexString \/ LexNumber \/ LexWord
       \/ LexSymbol \/ LexEqual \/ LexBang \/ StraySlash \/ UnexpectedCharacter \/ EndOfText

LexInit ==
    /\ text \in Seq(Pieces)
    /\ pos = 0 /\ tokens = << >> /\ hasErrors = FALSE /\ fixes = << >> /\ content = FALSE
LexSpec == LexInit /\ [][LexStep]_lexVars

-----------------------------------------------------------------------------
LexTypeOK ==
    /\ text \in Seq(Pieces)
    /\ pos \in 0 .. Len(text)
    /\ tokens \in Seq([kind : Kinds, first : Nat, last : Nat])
    /\ hasErrors \in BOOLEAN /\ content \in BOOLEAN
    /\ fixes \in Seq([first : Nat, last : Nat, new : Seq(Pieces)])

\* The fixes that one scan suggests can always be applied together: what
\* applySourceRewritesToString refuses (diagnostic.cpp:213-229) is never asked of it.
FixesApply == Compatible(fixes, Len(text))
=============================================================================
