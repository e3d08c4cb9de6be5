---------------------------- MODULE MCFrontEnd ----------------------------
(* Instances of FrontEnd for TLC. *)
EXTENDS FrontEnd

\* { int x x = 1 + 1 print(x) } $
Sum == << "{", "int", " ", "x", " ", "x", "=", "1", "+", "1", "print", "(", "x", ")", "}", "$" >>
\* { while (x != true) { if true { } } }
Loop == << "{", "while", "(", "x", "!", "=", "true", ")", "{", "if", " ", "true", "{", "}", "}", "}" >>
\* { if (x == (1 == x)) { { print("x") } } } $
Nested == << "{", "if", "(", "x", "=", "=", "(", "1", "=", "=", "x", ")", ")",
             "{", "print", "(", Quote, "x", Quote, ")", "}", "}", "$" >>
\* { } $ /* x */ { x = "x" } $
Two == << "{", "}", "$", "/", "*", "x", "*", "/", "{", "x", "=", Quote, "x", Quote, "}", "$" >>
\* { while x == 1 { } boolean x }
Bare == << "{", "while", " ", "x", "=", "=", "1", "{", "}", "boolean", " ", "x", "}" >>
Whole == {Sum, Loop, Nested, Two, Bare}

\* One piece is left out, replaced or put in; or two are left out.
Edited(p) ==
    {RemoveAt(p, i) : i \in DOMAIN p}
    \cup {[p EXCEPT ![i] = x] : i \in DOMAIN p, x \in Pieces}
    \cup {InsertAt(p, i, x) : i \in DOMAIN p, x \in Pieces}
    \cup {RemoveAt(RemoveAt(p, i), j) : i \in DOMAIN p, j \in 1 .. Len(p) - 1}

\* Everything of four pieces that strings, comments, words and operators are made of.
Short == [1 .. 4 -> {Quote, Newline, "/", "*", "!", "int", "x"}]

SomeTexts == {<< >>} \cup Whole \cup Short \cup UNION {Edited(p) : p \in Whole}
SlashTexts == {<< "{", "/", "x", "*", "/", "}", "$" >>}
=============================================================================
