-------------------------------- MODULE Parser --------------------------------
(***************************************************************************)
(* The parser (src/parser.cpp), the concrete tree it builds (src/cst.hpp)  *)
(* and the abstract one that becomes of it (src/ast_lower.cpp).            *)
(*                                                                         *)
(* A function of the parser takes the index of the next token and returns  *)
(* what it made of the tokens from there: a node and the index after it,   *)
(* or no node, the index of the token that is wrong and the suggested      *)
(* fixes.  The first error ends the parse.                                 *)
(***************************************************************************)
EXTENDS Lexer

\* peek: the end of the text is what comes after the last token.
Kind(i) == IF i <= Len(tokens) THEN tokens[i].kind ELSE "eof"
Offset(i) == IF i <= Len(tokens) THEN tokens[i].first ELSE Len(text)

\* A node spans the tokens first to last - 1.
Node(rule, first, last, kids) == [rule |-> rule, first |-> first, last |-> last, kids |-> kids]
NoNode == << >>
Parsed(node) == [at |-> node.last, node |-> node, fixes |-> << >>]
Failed(at, suggested) == [at |-> at, node |-> NoNode, fixes |-> suggested]
IsFailed(r) == r.node = NoNode

\* The node over the parts, those that are only a token left out, or the
\* failure of the last.
Assembled(rule, first, parts) ==
    IF IsFailed(Last(parts)) THEN Last(parts)
    ELSE Parsed(Node(rule, first, Last(parts).at,
                     SelectSeq([i \in DOMAIN parts |-> parts[i].node], LAMBDA n : n.rule # "token")))

\* Mutant of MissingFix: the missing parenthesis goes after the token found.
MissingFixAfter(kind, at) ==
    IF kind = ")" /\ Kind(at) # "eof" THEN << Insert(tokens[at].last, << ")" >>) >> ELSE << >>
\* The fix expect suggests where a token of this kind is missing.
MissingFix(kind, at) ==
    IF \/ kind = ")"
       \/ kind = "}" /\ Kind(at) \in {"eof", "$"}
       \/ kind = "$" /\ Kind(at) = "eof"
    THEN << Insert(Offset(at), << kind >>) >>
    ELSE << >>
Expect(kind, at) ==
    IF Kind(at) = kind THEN Parsed(Node("token", at, at + 1, << >>)) ELSE Failed(at, MissingFix(kind, at))

\* Mutant of Operator: an assignment will do.
OperatorLoose(at) ==
    IF Kind(at) \in {"==", "!=", "="} THEN Parsed(Node("token", at, at + 1, << >>)) ELSE Failed(at, << >>)
\* Of a parenthesized comparison; `(x)` is taken to mean `(x == true)`.
Operator(at) ==
    IF Kind(at) \in {"==", "!="} THEN Parsed(Node("token", at, at + 1, << >>))
    ELSE Failed(at, IF Kind(at) = ")" THEN << Insert(Offset(at), << "=", "=", "true" >>) >> ELSE << >>)

RECURSIVE Parse(_, _), ParseAll(_, _, _)
\* What is parsed one after the other, up to the first failure.
ParseAll(symbols, at, done) ==
    IF Len(done) = Len(symbols) \/ (done # << >> /\ IsFailed(Last(done))) THEN done
    ELSE ParseAll(symbols, at, Append(done, Parse(symbols[Len(done) + 1],
                                                  IF done = << >> THEN at ELSE Last(done).at)))
Sequence(rule, at, symbols) == Assembled(rule, at, ParseAll(symbols, at, << >>))

\* parseBooleanParenExpr.
ParseComparison(at) == Sequence("comparison", at, << "(", "Expr", "Operator", "Expr", ")" >>)

ParseExpr(at) ==
    CASE Kind(at) = "digits" /\ Kind(at + 1) = "+" -> Sequence("sum", at, << "Leaf", "+", "Expr" >>)
      [] Kind(at) = "digits" /\ Kind(at + 1) # "+" -> Parsed(Node("leaf", at, at + 1, << >>))
      [] Kind(at) \in {"text", "true", "false", "id"} -> Parsed(Node("leaf", at, at + 1, << >>))
      [] Kind(at) = "(" -> ParseComparison(at)
      [] OTHER -> Failed(at, << >>)

ParseBoolean(at) ==
    CASE Kind(at) \in {"true", "false"} -> Parsed(Node("leaf", at, at + 1, << >>))
      [] Kind(at) = "(" -> ParseComparison(at)
      [] OTHER -> Failed(at, << >>)

\* The condition of if and while: parentheses are put around one that has none.
ParseCondition(at) ==
    LET end == CHOOSE i \in at .. Len(tokens) + 1 :
                  /\ Kind(i) \in {"{", "$", "eof"}
                  /\ \A j \in at .. i - 1 : Kind(j) \notin {"{", "$", "eof"}
    IN IF Kind(at) \in {"(", "true", "false", "{", "$", "eof"} THEN ParseBoolean(at)
       ELSE Failed(at, << Insert(Offset(at), << "(" >>), Insert(Offset(end), << ")" >>) >>)

ParsePrint(at) == Sequence("print", at, << "print", "(", "Expr", ")" >>)
ParseAssign(at) == Sequence("assign", at, << "id", "=", "Expr" >>)
ParseVarDecl(at) ==
    IF Kind(at + 1) = "id" THEN Parsed(Node("decl", at, at + 2, << >>)) ELSE Failed(at + 1, << >>)
\* if and while.
ParseGuarded(at) == Sequence(Kind(at), at, << Kind(at), "Condition", "Block" >>)
ParseBlock(at) == Sequence("block", at, << "{", "StatementList", "}" >>)

ParseStatement(at) ==
    CASE Kind(at) = "print"            -> ParsePrint(at)
      [] Kind(at) \in {"while", "if"} -> ParseGuarded(at)
      [] Kind(at) \in Types            -> ParseVarDecl(at)
      [] Kind(at) = "id"               -> ParseAssign(at)
      [] OTHER                         -> ParseBlock(at)

StatementStartsHere(at) == Kind(at) \in {"print", "while", "if", "id", "{"} \cup Types
RECURSIVE ParseStatementList(_, _)
\* The statements from `at`, after those that begin at first.
ParseStatementList(first, done) ==
    LET at == IF done = << >> THEN first ELSE Last(done).at
    IN IF done # << >> /\ IsFailed(Last(done)) THEN Last(done)
       ELSE IF StatementStartsHere(at)
       THEN ParseStatementList(first, Append(done, ParseStatement(at)))
       ELSE Parsed(Node("statements", first, at, [i \in DOMAIN done |-> done[i].node]))

Parse(symbol, at) ==
    CASE symbol = "Expr"          -> ParseExpr(at)
      [] symbol = "Leaf"          -> Parsed(Node("leaf", at, at + 1, << >>))
      [] symbol = "Operator"      -> Operator(at)
      [] symbol = "Condition"     -> ParseCondition(at)
      [] symbol = "Block"         -> ParseBlock(at)
      [] symbol = "StatementList" -> ParseStatementList(at, << >>)
      [] OTHER                    -> Expect(symbol, at)

ParseProgram(at) == Sequence("program", at, << "Block", "$" >>)

RECURSIVE ParsePrograms(_, _)
\* parseTranslationUnit: programs up to the end, or a failure.
ParsePrograms(at, programs) ==
    LET p == ParseProgram(at)
    IN IF Kind(at) = "eof" THEN [at |-> at, node |-> programs, failed |-> FALSE, fixes |-> << >>]
       ELSE IF IsFailed(p) THEN [at |-> p.at, node |-> programs, failed |-> TRUE, fixes |-> p.fixes]
       ELSE ParsePrograms(p.at, Append(programs, p.node))
TranslationUnit == ParsePrograms(1, << >>)

-----------------------------------------------------------------------------
(***************************************************************************)
(* The abstract tree.  Its leaves hold what the tokens said.               *)
(***************************************************************************)
Said(i) == Lexeme(tokens[i])

\* Mutant of LowerSum: the operands change places.
LowerSumSwapped(l, r) == [k |-> "add", l |-> r, r |-> l]
LowerSum(l, r) == [k |-> "add", l |-> l, r |-> r]

RECURSIVE LowerExpr(_), LowerStatement(_)
\* lowerExpr and lowerBooleanExpr.
LowerExpr(n) ==
    CASE n.rule = "leaf" -> [k |-> Kind(n.first), v |-> Said(n.first)]
      [] n.rule = "sum"  -> LowerSum(LowerExpr(n.kids[1]), LowerExpr(n.kids[2]))
      [] OTHER -> [k |-> "cmp", op |-> Said(n.kids[1].last),
                   l |-> LowerExpr(n.kids[1]), r |-> LowerExpr(n.kids[2])]
LowerBlock(n) ==
    LET list == n.kids[1] IN [i \in DOMAIN list.kids |-> LowerStatement(list.kids[i])]
LowerStatement(n) ==
    CASE n.rule = "print"  -> [k |-> "print", e |-> LowerExpr(n.kids[1])]
      [] n.rule = "assign" -> [k |-> "assign", name |-> Said(n.first), e |-> LowerExpr(n.kids[1])]
      [] n.rule = "decl"   -> [k |-> "decl", type |-> Said(n.first), name |-> Said(n.first + 1)]
      [] n.rule = "block"  -> [k |-> "block", body |-> LowerBlock(n)]
      [] OTHER -> [k |-> n.rule, cond |-> LowerExpr(n.kids[1]), body |-> LowerBlock(n.kids[2])]
\* lowerCstToAst.
LowerProgram(n) == LowerBlock(n.kids[1])
=============================================================================
