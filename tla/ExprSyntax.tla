----------------------------- MODULE ExprSyntax -----------------------------
(***************************************************************************)
(* Expressions handed to the parser.  Write writes one more token of a     *)
(* text whose brackets nest, Submit parses what is written.                *)
(***************************************************************************)
EXTENDS Syntax, FiniteSets, SequencesExt

CONSTANTS Operators,    \* the binary operators of the texts
          Unary,        \* the unary ones
          Primaries,    \* other tokens an operand may start with
          MaxTokens     \* the longest text
ASSUME OperatorsAssumption ==
    /\ Operators \subseteq BinaryOperators /\ Unary \subseteq UnaryOperators
    /\ Primaries \subseteq {"a", "1", "{", "sizeof", "cast"} /\ MaxTokens \in Nat

VARIABLES tokens,       \* the text so far
          open,         \* the brackets that it has still to close
          result        \* Null, or the parser after parse(parser, lxr, true)
vars == <<tokens, open, result>>

Openers == {"(", "[", "{"}
Closers == {")", "]", "}"}
Closer(t) == CASE t = "(" -> ")" [] t = "[" -> "]" [] t = "{" -> "}"
Ends == {"a", "1", ".m", "T"} \cup Closers      \* tokens an operand may end with

Places(ts, S, l, r) == {k \in l .. r : ts[k] \in S}
Count(ts, S, l, r)  == Cardinality(Places(ts, S, l, r))

-----------------------------------------------------------------------------
(* The machine *)

\* The tokens that can come next: an operand is followed by an operator, an
\* operator by an operand, and a bracket closes the innermost open one.
Following ==
    LET after == tokens # <<>> /\ Last(tokens) \in Ends
        inner == IF open = <<>> THEN "" ELSE Last(open)
    IN (IF after THEN Operators \cup {"(", "[", ".m"} ELSE Primaries \cup Unary \cup {"("})
       \cup (IF open # <<>> THEN {Closer(inner)} ELSE {})
       \cup (IF after /\ inner \in {"(", "{"} THEN {","} ELSE {})
       \cup (IF tokens # <<>> /\ Last(tokens) \in {"sizeof", ","} THEN {"T"} ELSE {})

Init == tokens = <<>> /\ open = <<>> /\ result = [done |-> FALSE, p |-> NewParser]

Write(t) ==
    /\ ~result.done
    /\ tokens' = Append(tokens, t)
    /\ open' = IF t \in Openers THEN Append(open, t)
               ELSE IF t \in Closers THEN Front(open) ELSE open
    /\ Len(tokens') + Len(open') <= MaxTokens
    /\ UNCHANGED result

Submit ==
    /\ ~result.done /\ tokens # <<>> /\ open = <<>>
    /\ result' = [done |-> TRUE, p |-> Parsed(tokens, NewParser, "expression")]
    /\ UNCHANGED <<tokens, open>>

Next == (\E t \in Following : Write(t)) \/ Submit
Spec == Init /\ [][Next]_vars

-----------------------------------------------------------------------------
(* Properties *)

Accepted == result.done /\ ~Failed(result.p) /\ result.p.i = Len(tokens) + 1

\* When the text ends the one counter of open parentheses is back at zero: each
\* was charged to a call of parse() that had opened one (parser/begin.cpp:97).
ParenthesesAreReturned == Accepted => result.p.paren = 0

\* The subtrees of a tree, from left to right.
Subtrees(t) ==
    CASE t.node = "unaryexpr" -> <<t.operand>>
      [] t.node = "binexpr"   -> <<t.left, t.right>>
      [] t.node = "subscript" -> <<t.operand, t.value>>
      [] t.node = "call"      -> <<t.target>> \o t.arguments
      [] t.node = "braced"    -> t.members
      [] t.node = "sizeof"    -> t.target
      [] t.node \in {"member", "cast"} -> <<t.target>>

\* The operands of a tree in this order: one visit takes the next of the trees
\* that are to do.  A tree has no more nodes than its text has tokens.
Visit(v) ==
    LET t == Head(v.todo)
    IN IF v.todo = <<>> THEN v
       ELSE IF t.node \in {"ident", "lit"}
       THEN [todo |-> Tail(v.todo), found |-> Append(v.found, t.at)]
       ELSE [todo |-> Subtrees(t) \o Tail(v.todo), found |-> v.found]
Operands(t) ==
    LET visit[k \in 0 .. Len(tokens)] ==
            IF k = 0 THEN [todo |-> <<t>>, found |-> <<>>] ELSE Visit(visit[k - 1])
    IN visit[Len(tokens)].found

\* What is accepted, outside the grammar too, has every operand of the text in
\* its tree, once and in the order of the text: no subtree is dropped when
\* parse_binary_expression hands its left operand over.
NoOperandIsLost ==
    Accepted =>
        LET found == Operands(result.p.n)
        IN /\ {found[j] : j \in DOMAIN found} = Places(tokens, {"a", "1"}, 1, Len(tokens))
           /\ \A j, k \in DOMAIN found : j < k => found[j] < found[k]
=============================================================================
