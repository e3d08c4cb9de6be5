----------------------------- MODULE SourceText -----------------------------
(***************************************************************************)
(* Source text and its rewrites (src/diagnostic.cpp).  A text is a sequence *)
(* of pieces, an offset the number of pieces before it.                    *)
(***************************************************************************)
EXTENDS Integers, SequencesExt

\* SourceRewrite: what is between the offsets first and last becomes new.
Rewrite(first, last, new) == [first |-> first, last |-> last, new |-> new]
Insert(at, new) == Rewrite(at, at, new)

\* Where the next rewrite may start: an insertion reserves its position.
Guard(f) == IF f.first = f.last THEN f.first + 1 ELSE f.last
InBounds(f, n) == f.first <= f.last /\ f.last <= n
SameInsertion(f, g) == f.first = f.last /\ g.first = f.first /\ g.last = f.last

\* applySourceRewritesToString takes all rewrites or none: they are in the text
\* and, but for insertions at one offset, which it merges, do not overlap.
Compatible(fixes, n) ==
    /\ \A i \in DOMAIN fixes : InBounds(fixes[i], n)
    /\ \A i, j \in DOMAIN fixes : i < j =>
          \/ SameInsertion(fixes[i], fixes[j])
          \/ Guard(fixes[i]) <= fixes[j].first
          \/ Guard(fixes[j]) <= fixes[i].first

\* The new text; what is inserted comes before the piece at its offset.  The code
\* puts insertions at one offset in the order of their texts; the lexer and the
\* parser never suggest two that differ.
Applied(text, fixes) ==
    LET New(p)  == FlattenSeq([i \in DOMAIN fixes |-> IF fixes[i].first = p THEN fixes[i].new ELSE << >>])
        Gone(p) == \E i \in DOMAIN fixes : fixes[i].first <= p /\ p < fixes[i].last
        Old(p)  == IF p = Len(text) \/ Gone(p) THEN << >> ELSE << text[p + 1] >>
    IN FlattenSeq([p \in 1 .. Len(text) + 1 |-> New(p - 1) \o Old(p - 1)])
=============================================================================
