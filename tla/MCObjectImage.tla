--------------------------- MODULE MCObjectImage ---------------------------
(***************************************************************************)
(* Instances of ObjectImage for TLC.                                       *)
(***************************************************************************)
EXTENDS ObjectImage

CONSTANTS x, y, s   \* two int variables and a string variable

\* ObjectImage.cfg: every statement and every limit of a scaled-down target.
\* The two constants and two variables leave 20 bytes for the heap: payloads
\* of 0, 2 and 16 bytes fill it and are one byte too many with a temporary,
\* 0, 2 and 16 with one variable leave nothing; 47 fills the whole image.
SmallTables == { << >>, << x >>, << s, x >>, << x, y >> }
SmallPayloads == { << >>, << 98, 99 >> } \cup { [i \in 1 .. n |-> 97] : n \in {16, 47} }

\* ObjectImageWrap.cfg: declarations without statements, a slot each and no
\* code; the address counter of this instance wraps at 64.
DeclaredNames == 1 .. 66
DeclarationTables == { [i \in 1 .. n |-> i] : n \in 0 .. 66 }
=============================================================================
