---------------------------- MODULE Lexer_proofs ----------------------------
(***************************************************************************)
(* Theorems of the lexer and their proofs.                                 *)
(*                                                                         *)
(* That the fixes of a scan apply together is not inductive: a fix has to  *)
(* be behind the scan, so that the next one comes after it.  The one       *)
(* exception is a quote that was added where the scan is, before a newline *)
(* or at the end, and nothing is suggested there before the scan goes on.  *)
(***************************************************************************)
EXTENDS Lexer, TLAPS

Fix == [first : Nat, last : Nat, new : Seq(Pieces)]

\* The fixes are in the text, in its order, each after the last one's guard.
Ordered(fs) ==
    /\ \A i \in DOMAIN fs : InBounds(fs[i], Len(text))
    /\ \A i, j \in DOMAIN fs : i < j => Guard(fs[i]) <= fs[j].first

\* The scan is at a newline or at the end.
AtLineEnd(p) == p = Len(text) \/ text[p + 1] = Newline
Behind(f, p) ==
    \/ Guard(f) <= p
    \/ f.first = p /\ f.last = p /\ AtLineEnd(p)
AllBehind(fs, p) == \A i \in DOMAIN fs : Behind(fs[i], p)

LexInv ==
    /\ LexTypeOK
    /\ Ordered(fixes)
    /\ ~Lexed => AllBehind(fixes, pos) /\ (fixes # << >> => hasErrors)

\* A scan step: the scan moves on in the text, with a fix or without one.
Moves(fs) ==
    /\ pos' \in pos + 1 .. Len(text) /\ text' = text
    /\ fixes' = fixes \o fs

-----------------------------------------------------------------------------
\* Short sequences.
LEMMA ShortSeqs ==
    ASSUME NEW S, NEW a \in S, NEW b \in S, NEW c \in S
    PROVE  << a >> \in Seq(S) /\ << a, b >> \in Seq(S) /\ << a, b, c >> \in Seq(S)
OBVIOUS

LEMMA EmptySeq == ASSUME NEW S PROVE << >> \in Seq(S)
OBVIOUS

\* What appending nothing or one thing to a sequence gives.
LEMMA ConcatNone == ASSUME NEW S, NEW s \in Seq(S) PROVE s \o << >> = s
OBVIOUS
LEMMA ConcatOne ==
    ASSUME NEW S, NEW s \in Seq(S), NEW x \in S
    PROVE  /\ s \o << x >> \in Seq(S)
           /\ Len(s \o << x >>) = Len(s) + 1
           /\ DOMAIN (s \o << x >>) = 1 .. Len(s) + 1
           /\ \A i \in 1 .. Len(s) : (s \o << x >>)[i] = s[i]
           /\ (s \o << x >>)[Len(s) + 1] = x
OBVIOUS

\* A step that suggests nothing leaves the fixes ordered and behind the scan.
LEMMA MoveKeeps ==
    ASSUME LexInv, ~Lexed, Moves(<< >>)
    PROVE  fixes' = fixes /\ Ordered(fixes)' /\ AllBehind(fixes, pos)'
<1>1. fixes' = fixes
  BY ConcatNone DEF LexInv, LexTypeOK, Moves
<1>2. Ordered(fixes)'
  BY <1>1 DEF LexInv, Moves, Ordered, InBounds, Guard
<1>3. ASSUME NEW i \in DOMAIN fixes PROVE Behind(fixes[i], pos)'
  <2>1. fixes[i] \in Fix
    <3>1. fixes \in Seq(Fix)
      BY DEF LexInv, LexTypeOK, Fix
    <3> QED
      BY <3>1
  <2>2. Behind(fixes[i], pos)
    BY DEF LexInv, AllBehind
  <2>3. pos \in Nat /\ pos' \in Nat /\ pos < pos'
    BY DEF LexInv, LexTypeOK, Moves
  <2>4. Guard(fixes[i]) <= pos'
    BY <2>1, <2>2, <2>3 DEF Behind, Guard, Fix
  <2> QED
    BY <1>1, <2>4 DEF Behind
<1> QED
  BY <1>1, <1>2, <1>3 DEF AllBehind

\* A step that suggests a fix not before the scan, and leaves it behind.
LEMMA MoveAdds ==
    ASSUME LexInv, ~Lexed, ~AtLineEnd(pos), NEW f \in Fix, Moves(<< f >>),
           pos <= f.first, InBounds(f, Len(text)), Behind(f, pos')
    PROVE  fixes' \in Seq(Fix) /\ Ordered(fixes)' /\ AllBehind(fixes, pos)'
<1> DEFINE n == Len(fixes)
<1>1. fixes \in Seq(Fix) /\ n \in Nat /\ DOMAIN fixes = 1 .. n
  BY DEF LexInv, LexTypeOK, Fix
<1>2. /\ fixes' \in Seq(Fix) /\ DOMAIN fixes' = 1 .. n + 1
      /\ \A i \in 1 .. n : fixes'[i] = fixes[i]
      /\ fixes'[n + 1] = f
  BY <1>1, ConcatOne DEF Moves
<1>3. \A i \in 1 .. n : fixes[i] \in Fix /\ Guard(fixes[i]) <= pos
  BY <1>1 DEF LexInv, AllBehind, Behind
<1>4. ASSUME NEW i \in DOMAIN fixes' PROVE InBounds(fixes'[i], Len(text'))
  <2>1. CASE i = n + 1
    BY <1>2, <2>1 DEF Moves
  <2>2. CASE i \in 1 .. n
    BY <1>1, <1>2, <2>2 DEF LexInv, Ordered, Moves
  <2> QED
    BY <1>1, <1>2, <2>1, <2>2
<1>5. ASSUME NEW i \in DOMAIN fixes', NEW j \in DOMAIN fixes', i < j
      PROVE  Guard(fixes'[i]) <= fixes'[j].first
  <2>1. i \in 1 .. n
    BY <1>1, <1>2, <1>5
  <2>2. CASE j = n + 1
    <3>1. fixes'[i] = fixes[i] /\ fixes'[j] = f /\ Guard(fixes[i]) <= pos
      BY <1>2, <1>3, <2>1, <2>2
    <3>2. fixes[i].first \in Nat /\ fixes[i].last \in Nat /\ pos \in Nat /\ f.first \in Nat
      BY <1>3, <2>1 DEF Fix, LexInv, LexTypeOK
    <3> QED
      BY <3>1, <3>2 DEF Guard
  <2>3. CASE j \in 1 .. n
    BY <1>1, <1>2, <1>5, <2>1, <2>3 DEF LexInv, Ordered
  <2> QED
    BY <1>1, <1>2, <2>2, <2>3
<1>6. ASSUME NEW i \in DOMAIN fixes' PROVE Behind(fixes[i], pos)'
  <2>1. CASE i = n + 1
    BY <1>2, <2>1 DEF Moves, Behind, AtLineEnd
  <2>2. CASE i \in 1 .. n
    <3>1. fixes'[i] = fixes[i] /\ Guard(fixes[i]) <= pos /\ fixes[i] \in Fix
      BY <1>2, <1>3, <2>2
    <3>2. pos \in Nat /\ pos' \in Nat /\ pos < pos'
      BY DEF LexInv, LexTypeOK, Moves
    <3>3. Guard(fixes'[i]) <= pos'
      BY <3>1, <3>2 DEF Guard, Fix
    <3> QED
      BY <3>3 DEF Behind
  <2> QED
    BY <1>1, <1>2, <2>1, <2>2
<1> QED
  BY <1>2, <1>4, <1>5, <1>6 DEF Ordered, AllBehind

(***************************************************************************)
(* The steps.                                                              *)
(***************************************************************************)
TokenType == [kind : Kinds, first : Nat, last : Nat]

LEMMA PieceTypes ==
    /\ Quote \in Pieces /\ " " \in Pieces
    /\ {"*", "/", "!", "=", "$"} \subseteq Pieces
    /\ Reserved \subseteq Kinds /\ Symbols \subseteq Kinds
    /\ {"=", "==", "!=", "id", "digits", "text", "eof"} \subseteq Kinds
BY DEF Pieces, Words, Symbols, Blank, Kinds

LEMMA RewriteType ==
    ASSUME NEW first \in Nat, NEW last \in Nat, NEW new \in Seq(Pieces)
    PROVE  /\ Rewrite(first, last, new) \in Fix
           /\ Rewrite(first, last, new).first = first /\ Rewrite(first, last, new).last = last
BY DEF Rewrite, Fix

LEMMA EmitType ==
    ASSUME LexTypeOK, NEW kind \in Kinds, NEW last \in pos .. Len(text), EmitToken(kind, last)
    PROVE  /\ tokens' \in Seq(TokenType) /\ content' \in BOOLEAN
           /\ text' = text /\ pos' = last
<1>1. Token(kind, pos, last) \in TokenType
  BY DEF LexTypeOK, Token, TokenType
<1>2. tokens \in Seq(TokenType)
  BY DEF LexTypeOK, TokenType
<1> QED
  BY <1>1, <1>2 DEF EmitToken

\* A step of the scan that moves on without a fix keeps the invariant.
LEMMA QuietStep ==
    ASSUME LexInv, ~Lexed,
           pos' \in pos + 1 .. Len(text), text' = text,
           tokens' \in Seq(TokenType), content' \in BOOLEAN,
           fixes' = fixes, hasErrors' = hasErrors \/ hasErrors' = TRUE
    PROVE  LexInv'
<1>1. Moves(<< >>)
  <2>1. fixes \in Seq(Fix)
    BY DEF LexInv, LexTypeOK, Fix
  <2> QED
    BY <2>1, ConcatNone DEF Moves
<1>2. Ordered(fixes)' /\ AllBehind(fixes, pos)'
  BY <1>1, MoveKeeps
<1>3. LexTypeOK'
  <2>1. pos' \in 0 .. Len(text')
    BY DEF LexInv, LexTypeOK
  <2> QED
    BY <2>1 DEF LexInv, LexTypeOK, TokenType
<1>4. fixes' # << >> => hasErrors'
  BY DEF LexInv
<1> QED
  BY <1>2, <1>3, <1>4 DEF LexInv

\* And one that moves on with a fix.
LEMMA FixStep ==
    ASSUME LexInv, ~Lexed, ~AtLineEnd(pos), NEW f \in Fix,
           pos' \in pos + 1 .. Len(text), text' = text,
           tokens' \in Seq(TokenType), content' \in BOOLEAN,
           fixes' = fixes \o << f >>, hasErrors' = TRUE,
           pos <= f.first, InBounds(f, Len(text)), Behind(f, pos')
    PROVE  LexInv'
<1>1. Moves(<< f >>)
  BY DEF Moves
<1>2. fixes' \in Seq(Fix) /\ Ordered(fixes)' /\ AllBehind(fixes, pos)'
  BY <1>1, MoveAdds
<1>3. LexTypeOK'
  <2>1. pos' \in 0 .. Len(text')
    BY DEF LexInv, LexTypeOK
  <2> QED
    BY <1>2, <2>1 DEF LexInv, LexTypeOK, TokenType, Fix
<1> QED
  BY <1>2, <1>3 DEF LexInv

\* Where the scan is at a piece that is no newline, it is at no line's end.
LEMMA NotLineEnd ==
    ASSUME LexTypeOK, NEW pieces, At(pos, pieces), Newline \notin pieces
    PROVE  ~AtLineEnd(pos) /\ pos + 1 \in pos + 1 .. Len(text)
BY DEF LexTypeOK, At, AtLineEnd

LEMMA NewlineApart ==
    /\ Newline \notin Words /\ Newline \notin Digits /\ Newline \notin Symbols
    /\ Newline \notin Others \cup {"*"}
    /\ Newline \notin {Quote} /\ Newline \notin {"/"} /\ Newline \notin {"="} /\ Newline \notin {"!"}
BY PiecesApart DEF Words, Reserved, Types, Symbols, Blank, Quote, Newline

\* Skip moves the scan and leaves the tokens alone.
LEMMA SkipType ==
    ASSUME LexTypeOK, NEW last, Skip(last)
    PROVE  /\ tokens' \in Seq(TokenType) /\ content' \in BOOLEAN
           /\ text' = text /\ pos' = last
BY DEF LexTypeOK, Skip, TokenType

LEMMA WhitespaceStep == ASSUME LexInv, ~Lexed, SkipWhitespace PROVE LexInv'
<1>1. PICK last \in Ends : Skip(last)
  BY DEF SkipWhitespace
<1>2. LexTypeOK
  BY DEF LexInv
<1> QED
  BY <1>1, <1>2, SkipType, QuietStep DEF SkipWhitespace, NoError, Ends

LEMMA CommentStep == ASSUME LexInv, ~Lexed, SkipBlockComment PROVE LexInv'
<1>1. LexTypeOK /\ ~AtLineEnd(pos)
  BY NotLineEnd, NewlineApart DEF LexInv, SkipBlockComment
<1>2. pos + 2 \in Ends
  BY <1>1 DEF SkipBlockComment, At, Ends, LexTypeOK
<1>3. CASE \E last \in Ends : Skip(last) /\ NoError
  BY <1>1, <1>3, SkipType, QuietStep DEF NoError, Ends
<1>4. CASE Skip(Len(text)) /\ Error(<< Insert(Len(text), << "*", "/" >>) >>)
  <2> DEFINE f == Insert(Len(text), << "*", "/" >>)
  <2>1. Len(text) \in Nat /\ Len(text) \in Ends /\ pos <= Len(text)
    BY <1>1, <1>2 DEF LexTypeOK, Ends
  <2>2. f \in Fix /\ f.first = Len(text) /\ f.last = Len(text)
    <3>1. << "*", "/" >> \in Seq(Pieces)
      BY PieceTypes, ShortSeqs
    <3> QED
      BY <2>1, <3>1, RewriteType DEF Insert
  <2>3. /\ tokens' \in Seq(TokenType) /\ content' \in BOOLEAN
        /\ text' = text /\ pos' = Len(text)
    BY <1>1, <1>4, SkipType
  <2>4. Behind(f, pos') /\ InBounds(f, Len(text))
    BY <2>1, <2>2, <2>3 DEF Behind, AtLineEnd, InBounds
  <2> QED
    BY <1>1, <1>4, <2>1, <2>2, <2>3, <2>4, FixStep DEF Error, Ends
<1> QED
  BY <1>3, <1>4 DEF SkipBlockComment

LEMMA StringStep == ASSUME LexInv, ~Lexed, LexString PROVE LexInv'
<1>1. LexTypeOK /\ ~AtLineEnd(pos)
  BY NotLineEnd, NewlineApart DEF LexInv, LexString
<1>2. PICK last \in Ends :
         \/ At(last, {Quote}) /\ EmitToken("text", last + 1) /\ NoError
         \/ /\ last = Len(text) \/ At(last, {Newline})
            /\ EmitToken("text", last) /\ Error(<< AddQuote(last) >>)
  BY DEF LexString
<1>3. /\ last \in Nat /\ Len(text) \in Nat /\ pos \in Nat /\ pos < last /\ last <= Len(text)
      /\ last \in pos .. Len(text)
  BY <1>1 DEF LexTypeOK, Ends
<1>4. CASE At(last, {Quote}) /\ EmitToken("text", last + 1) /\ NoError
  <2>1. last + 1 \in pos + 1 .. Len(text) /\ last + 1 \in pos .. Len(text)
    BY <1>3, <1>4 DEF At
  <2>2. /\ tokens' \in Seq(TokenType) /\ content' \in BOOLEAN
        /\ text' = text /\ pos' = last + 1
    BY <1>1, <1>3, <1>4, <2>1, EmitType, PieceTypes
  <2> QED
    BY <1>4, <2>1, <2>2, QuietStep DEF NoError
<1>5. CASE /\ last = Len(text) \/ At(last, {Newline})
           /\ EmitToken("text", last) /\ Error(<< AddQuote(last) >>)
  <2> DEFINE f == AddQuote(last)
  <2>1. f \in Fix /\ f.first = last /\ f.last = last
    <3>1. << Quote >> \in Seq(Pieces)
      BY PieceTypes, ShortSeqs
    <3> QED
      BY <1>3, <3>1, RewriteType DEF AddQuote, Insert
  <2>2. /\ tokens' \in Seq(TokenType) /\ content' \in BOOLEAN
        /\ text' = text /\ pos' = last
    BY <1>1, <1>3, <1>5, EmitType, PieceTypes
  <2>3. Behind(f, pos')
    BY <1>5, <2>1, <2>2 DEF Behind, AtLineEnd, At
  <2>4. InBounds(f, Len(text)) /\ pos <= f.first /\ last \in pos + 1 .. Len(text)
    BY <1>3, <2>1 DEF InBounds
  <2> QED
    BY <1>1, <1>5, <2>1, <2>2, <2>3, <2>4, FixStep DEF Error
<1> QED
  BY <1>2, <1>4, <1>5

LEMMA NumberStep == ASSUME LexInv, ~Lexed, LexNumber PROVE LexInv'
<1>1. LexTypeOK
  BY DEF LexInv
<1>2. PICK last \in Ends : EmitToken("digits", last)
  BY DEF LexNumber
<1>3. last \in pos .. Len(text) /\ last \in pos + 1 .. Len(text)
  BY <1>1 DEF LexTypeOK, Ends
<1> QED
  BY <1>1, <1>2, <1>3, EmitType, PieceTypes, QuietStep DEF LexNumber, NoError

LEMMA WordStep == ASSUME LexInv, ~Lexed, LexWord PROVE LexInv'
<1>1. LexTypeOK /\ ~AtLineEnd(pos)
  BY NotLineEnd, NewlineApart DEF LexInv, LexWord
<1>2. PICK last \in Ends :
         IF last = pos + 1
         THEN EmitToken(IF text[last] \in Reserved THEN text[last] ELSE "id", last) /\ NoError
         ELSE EmitToken("id", last) /\ Error(IF IsGlued(last) THEN << Separated(last) >> ELSE << >>)
  BY DEF LexWord
<1>3. /\ last \in pos .. Len(text) /\ last \in pos + 1 .. Len(text)
      /\ last \in Nat /\ pos \in Nat /\ Len(text) \in Nat /\ pos < last
  BY <1>1 DEF LexTypeOK, Ends
<1>4. CASE last = pos + 1
  <2> DEFINE kind == IF text[last] \in Reserved THEN text[last] ELSE "id"
  <2>1. kind \in Kinds
    BY PieceTypes
  <2>2. EmitToken(kind, last) /\ NoError
    BY <1>2, <1>4
  <2> QED
    BY <1>1, <1>3, <2>1, <2>2, EmitType, QuietStep DEF NoError
<1>5. CASE last # pos + 1 /\ IsGlued(last)
  <2> DEFINE f == Separated(last)
  <2>1. EmitToken("id", last) /\ Error(<< f >>)
    BY <1>2, <1>5
  <2>2. text[pos + 1] \in Pieces /\ text[last] \in Pieces
    BY <1>3, <1>5 DEF IsGlued, Pieces, Words, Reserved
  <2>3. f \in Fix /\ f.first = pos /\ f.last = last
    <3>1. << text[pos + 1], " ", text[last] >> \in Seq(Pieces)
      BY <2>2, PieceTypes, ShortSeqs
    <3> QED
      BY <1>3, <3>1, RewriteType DEF Separated
  <2>4. /\ tokens' \in Seq(TokenType) /\ content' \in BOOLEAN
        /\ text' = text /\ pos' = last
    BY <1>1, <1>3, <2>1, EmitType, PieceTypes
  <2>5. Behind(f, pos') /\ InBounds(f, Len(text)) /\ pos <= f.first
    BY <1>3, <2>3, <2>4 DEF Behind, Guard, InBounds
  <2> QED
    BY <1>1, <1>3, <2>1, <2>3, <2>4, <2>5, FixStep DEF Error
<1>6. CASE last # pos + 1 /\ ~IsGlued(last)
  <2>1. EmitToken("id", last) /\ Error(<< >>)
    BY <1>2, <1>6
  <2>2. fixes' = fixes
    <3>1. fixes \in Seq(Fix)
      BY <1>1 DEF LexTypeOK, Fix
    <3> QED
      BY <2>1, <3>1, ConcatNone DEF Error
  <2> QED
    BY <1>1, <1>3, <2>1, <2>2, EmitType, PieceTypes, QuietStep DEF Error
<1> QED
  BY <1>4, <1>5, <1>6

LEMMA SymbolStep == ASSUME LexInv, ~Lexed, LexSymbol PROVE LexInv'
<1>1. LexTypeOK /\ pos + 1 \in pos + 1 .. Len(text) /\ pos + 1 \in pos .. Len(text)
  BY DEF LexInv, LexTypeOK, LexSymbol, At
<1>2. text[pos + 1] \in Kinds /\ EmitToken(text[pos + 1], pos + 1)
  BY PieceTypes DEF LexSymbol, At
<1> QED
  BY <1>1, <1>2, EmitType, QuietStep DEF LexSymbol, NoError

LEMMA EqualStep == ASSUME LexInv, ~Lexed, LexEqual PROVE LexInv'
<1>1. LexTypeOK
  BY DEF LexInv
<1>2. PICK kind \in Kinds, last \in pos + 1 .. Len(text) : last \in pos .. Len(text) /\ EmitToken(kind, last)
  <2>1. CASE At(pos + 1, {"="})
    <3>1. pos + 2 \in pos + 1 .. Len(text) /\ pos + 2 \in pos .. Len(text)
      BY <1>1, <2>1 DEF LexTypeOK, At
    <3> QED
      BY <2>1, <3>1, PieceTypes DEF LexEqual
  <2>2. CASE ~At(pos + 1, {"="})
    <3>1. pos + 1 \in pos + 1 .. Len(text) /\ pos + 1 \in pos .. Len(text)
      BY <1>1 DEF LexTypeOK, At, LexEqual
    <3> QED
      BY <2>2, <3>1, PieceTypes DEF LexEqual
  <2> QED
    BY <2>1, <2>2
<1> QED
  BY <1>1, <1>2, EmitType, QuietStep DEF LexEqual, NoError

LEMMA BangStep == ASSUME LexInv, ~Lexed, LexBang PROVE LexInv'
<1>1. LexTypeOK /\ ~AtLineEnd(pos) /\ pos + 1 \in pos + 1 .. Len(text)
  BY NotLineEnd, NewlineApart DEF LexInv, LexBang
<1>2. CASE At(pos + 1, {"="})
  <2>1. pos + 2 \in pos + 1 .. Len(text) /\ pos + 2 \in pos .. Len(text)
    BY <1>1, <1>2 DEF LexTypeOK, At
  <2>2. EmitToken("!=", pos + 2) /\ NoError
    BY <1>2 DEF LexBang
  <2> QED
    BY <1>1, <2>1, <2>2, PieceTypes, EmitType, QuietStep DEF NoError
<1>3. CASE ~At(pos + 1, {"="})
  <2> DEFINE f == Inequality(pos)
  <2>1. Skip(pos + 1) /\ Error(<< f >>)
    BY <1>3 DEF LexBang
  <2>2. pos \in Nat /\ pos + 1 \in Nat /\ Len(text) \in Nat /\ pos + 1 <= Len(text)
    BY <1>1 DEF LexTypeOK
  <2>3. f \in Fix /\ f.first = pos /\ f.last = pos + 1
    <3>1. << "!", "=" >> \in Seq(Pieces)
      BY PieceTypes, ShortSeqs
    <3> QED
      BY <2>2, <3>1, RewriteType DEF Inequality
  <2>4. /\ tokens' \in Seq(TokenType) /\ content' \in BOOLEAN
        /\ text' = text /\ pos' = pos + 1
    BY <1>1, <2>1, SkipType
  <2>5. Behind(f, pos') /\ InBounds(f, Len(text)) /\ pos <= f.first
    BY <2>2, <2>3, <2>4 DEF Behind, Guard, InBounds
  <2> QED
    BY <1>1, <2>1, <2>3, <2>4, <2>5, FixStep DEF Error
<1> QED
  BY <1>2, <1>3

LEMMA SlashStep == ASSUME LexInv, ~Lexed, StraySlash PROVE LexInv'
<1> DEFINE f == Insert(pos, << "*" >>)
<1>1. LexTypeOK /\ ~AtLineEnd(pos) /\ pos + 1 \in pos + 1 .. Len(text)
  BY NotLineEnd, NewlineApart DEF LexInv, StraySlash
<1>2. pos \in Nat /\ Len(text) \in Nat /\ pos + 1 <= Len(text)
  BY <1>1 DEF LexTypeOK
<1>3. f \in Fix /\ f.first = pos /\ f.last = pos
  <2>1. << "*" >> \in Seq(Pieces)
    BY PieceTypes, ShortSeqs
  <2> QED
    BY <1>2, <2>1, RewriteType DEF Insert
<1>4. /\ tokens' \in Seq(TokenType) /\ content' \in BOOLEAN
      /\ text' = text /\ pos' = pos + 1
  BY <1>1, SkipType DEF StraySlash
<1>5. Behind(f, pos') /\ InBounds(f, Len(text)) /\ pos <= f.first
  BY <1>2, <1>3, <1>4 DEF Behind, Guard, InBounds
<1> QED
  BY <1>1, <1>3, <1>4, <1>5, FixStep DEF StraySlash, Error

LEMMA UnexpectedStep == ASSUME LexInv, ~Lexed, UnexpectedCharacter PROVE LexInv'
<1>1. LexTypeOK /\ pos + 1 \in pos + 1 .. Len(text)
  BY DEF LexInv, LexTypeOK, UnexpectedCharacter, At
<1>2. fixes' = fixes
  <2>1. fixes \in Seq(Fix)
    BY <1>1 DEF LexTypeOK, Fix
  <2> QED
    BY <2>1, ConcatNone DEF UnexpectedCharacter, Error
<1> QED
  BY <1>1, <1>2, SkipType, QuietStep DEF UnexpectedCharacter, Error

LEMMA EndStep == ASSUME LexInv, ~Lexed, EndOfText PROVE LexInv'
<1>1. /\ LexTypeOK /\ tokens \in Seq(TokenType) /\ fixes \in Seq(Fix)
      /\ pos \in Nat /\ Len(text) \in Nat /\ pos = Len(text) /\ text' = text
  BY DEF LexInv, LexTypeOK, TokenType, Fix, EndOfText
<1>2. Token("eof", pos, pos) \in TokenType
  BY <1>1, PieceTypes DEF Token, TokenType
<1>3. tokens' \in Seq(TokenType) /\ Lexed'
  <2>1. /\ tokens' \in Seq(TokenType) /\ Len(tokens') = Len(tokens) + 1
        /\ tokens'[Len(tokens) + 1] = Token("eof", pos, pos)
    BY <1>1, <1>2 DEF EndOfText
  <2>2. Len(tokens) + 1 # 0 /\ Token("eof", pos, pos).kind = "eof"
    BY <1>1 DEF Token
  <2> QED
    BY <2>1, <2>2 DEF Lexed
<1>4. fixes' \in Seq(Fix) /\ Ordered(fixes)'
  <2>1. CASE ~hasErrors /\ content
    <3> DEFINE f == Insert(Len(text), << "$" >>)
    <3>1. fixes = << >>
      BY <2>1 DEF LexInv
    <3>2. fixes' = << f >>
      BY <2>1, <3>1 DEF EndOfText
    <3>3. f \in Fix /\ f.first = Len(text) /\ f.last = Len(text)
      <4>1. << "$" >> \in Seq(Pieces)
        BY PieceTypes, ShortSeqs
      <4> QED
        BY <1>1, <4>1, RewriteType DEF Insert
    <3>4. fixes' \in Seq(Fix) /\ DOMAIN fixes' = {1} /\ fixes'[1] = f
      BY <3>2, <3>3
    <3> QED
      BY <1>1, <3>3, <3>4 DEF Ordered, InBounds
  <2>2. CASE ~(~hasErrors /\ content)
    BY <1>1, <2>2 DEF EndOfText, LexInv, Ordered
  <2> QED
    BY <2>1, <2>2
<1>5. LexTypeOK'
  BY <1>1, <1>3, <1>4 DEF LexTypeOK, EndOfText, TokenType, Fix
<1> QED
  BY <1>3, <1>4, <1>5 DEF LexInv

-----------------------------------------------------------------------------
LEMMA LexInvInit == LexInit => LexInv
<1> SUFFICES ASSUME LexInit PROVE LexInv
  OBVIOUS
<1>1. text \in Seq(Pieces) /\ Len(text) \in Nat
  BY DEF LexInit
<1>2. LexTypeOK
  <2>1. tokens = << >> /\ fixes = << >>
    BY DEF LexInit
  <2>2. tokens \in Seq(TokenType)
    BY <2>1, EmptySeq
  <2>3. fixes \in Seq(Fix)
    BY <2>1, EmptySeq
  <2>4. pos = 0 /\ hasErrors \in BOOLEAN /\ content \in BOOLEAN
    BY DEF LexInit
  <2>5. pos \in 0 .. Len(text)
    BY <1>1, <2>4
  <2> QED
    BY <1>1, <2>2, <2>3, <2>4, <2>5 DEF LexTypeOK, TokenType, Fix
<1>3. Ordered(fixes) /\ AllBehind(fixes, pos)
  BY DEF LexInit, Ordered, AllBehind
<1> QED
  BY <1>2, <1>3 DEF LexInit, LexInv

LEMMA LexInvNext == LexInv /\ [LexStep]_lexVars => LexInv'
<1> SUFFICES ASSUME LexInv, [LexStep]_lexVars PROVE LexInv'
  OBVIOUS
<1>1. CASE ~Lexed /\ SkipWhitespace
  BY <1>1, WhitespaceStep
<1>2. CASE ~Lexed /\ SkipBlockComment
  BY <1>2, CommentStep
<1>3. CASE ~Lexed /\ LexString
  BY <1>3, StringStep
<1>4. CASE ~Lexed /\ LexNumber
  BY <1>4, NumberStep
<1>5. CASE ~Lexed /\ LexWord
  BY <1>5, WordStep
<1>6. CASE ~Lexed /\ LexSymbol
  BY <1>6, SymbolStep
<1>7. CASE ~Lexed /\ LexEqual
  BY <1>7, EqualStep
<1>8. CASE ~Lexed /\ LexBang
  BY <1>8, BangStep
<1>9. CASE ~Lexed /\ StraySlash
  BY <1>9, SlashStep
<1>10. CASE ~Lexed /\ UnexpectedCharacter
  BY <1>10, UnexpectedStep
<1>11. CASE ~Lexed /\ EndOfText
  BY <1>11, EndStep
<1>12. CASE UNCHANGED lexVars
  BY <1>12 DEF lexVars, LexInv, LexTypeOK, Ordered, InBounds, AllBehind, Behind, AtLineEnd, Lexed
<1> QED
  BY <1>1, <1>2, <1>3, <1>4, <1>5, <1>6, <1>7, <1>8, <1>9, <1>10, <1>11, <1>12 DEF LexStep

LEMMA OrderedApply == LexInv => FixesApply
<1> SUFFICES ASSUME LexInv PROVE FixesApply
  OBVIOUS
<1> QED
  BY DEF LexInv, Ordered, FixesApply, Compatible

\* The lexer's variables keep their types for every text: the scan never leaves
\* it, and every token and fix is made of what it has (lexer.cpp:228-396).
THEOREM LexTypeCorrect == LexSpec => []LexTypeOK
<1>1. LexInv => LexTypeOK
  BY DEF LexInv
<1> QED
  BY <1>1, LexInvInit, LexInvNext, PTL DEF LexSpec

\* For every text, the fixes suggested by a scan, up to any point of it, can be
\* applied together: --fix never stops because of overlapping rewrites
\* (diagnostic.cpp:213-229).
THEOREM LexFixesApply == LexSpec => []FixesApply
  BY LexInvInit, LexInvNext, OrderedApply, PTL DEF LexSpec
=============================================================================
