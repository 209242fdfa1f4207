----------------------------- MODULE ExprTrees -----------------------------
(***************************************************************************)
(* What an expression means: Tree is the tree of a text by the places of   *)
(* its operators and brackets; it does not read left to right and counts   *)
(* no parentheses.                                                         *)
(***************************************************************************)
EXTENDS ExprSyntax

\* The places of l .. r outside every bracket, the outermost brackets among them.
Top(ts, l, r) ==
    {k \in l .. r : Count(ts, Openers, l, k - 1) = Count(ts, Closers, l, k)}

\* The bracket that the one at r closes.
Opener(ts, l, r) == CHOOSE o \in Top(ts, l, r) \cap Places(ts, Openers, l, r) :
                        Top(ts, o, r) = {o, r}

-----------------------------------------------------------------------------
(* What a text says                                                        *)

\* sizeof takes everything after it unless a type follows.
Takes(ts, k) == ts[k] = "sizeof" /\ (k = Len(ts) \/ ts[k + 1] # "T")

\* The operators that may be the root: binary, outside brackets, not taken.
Roots(ts, l, r) ==
    {k \in Top(ts, l, r) \cap Places(ts, BinaryOperators, l, r) :
        /\ k > l /\ ts[k - 1] \in Ends
        /\ \A j \in Top(ts, l, k) : ~Takes(ts, j)}
\* The loosest of them is the root, and of equals the first.
Root(ts, S) ==
    CHOOSE k \in S : \A j \in S \ {k} :
        \/ precedence_of(ts[j]) < precedence_of(ts[k])
        \/ precedence_of(ts[j]) = precedence_of(ts[k]) /\ k < j

RECURSIVE Tree(_, _, _)
Items(ts, l, r) ==
    LET commas == Top(ts, l, r) \cap Places(ts, {","}, l, r)
        last(k) == CHOOSE e \in k .. r + 1 :
                        e \in commas \cup {r + 1} /\ \A j \in k .. e - 1 : j \notin commas
        starts == ({l} \cup {k + 1 : k \in commas}) \ {r + 1}
    IN [j \in 1 .. Cardinality(starts) |->
            LET k == SetToSortSeq(starts, <)[j] IN Tree(ts, k, last(k) - 1)]
Whole(t, parts) == IF \E x \in parts : x = Null THEN Null ELSE t

Primary(ts, l, r) ==
    IF l = r THEN
        IF ts[l] = "a" THEN [node |-> "ident", at |-> l]
        ELSE IF ts[l] = "1" THEN [node |-> "lit", at |-> l] ELSE Null
    ELSE IF ts[l] = "sizeof" THEN
        IF r = l + 1 /\ ts[r] = "T" THEN [node |-> "sizeof", target |-> <<>>] ELSE Null
    ELSE IF ts[r] = ".m" THEN
        LET o == CHOOSE k \in l .. r - 1 : ts[k] # ".m" /\ \A j \in k + 1 .. r : ts[j] = ".m"
            t == Tree(ts, l, o)
        IN Whole([node |-> "member", target |-> t, path |-> r - o], {t})
    ELSE IF ts[r] \notin Closers THEN Null
    ELSE LET o     == Opener(ts, l, r)
             items == Items(ts, o + 1, r - 1)
             left  == Tree(ts, l, o - 1)
             inner == Tree(ts, o + 1, r - 1)
        cast  == ts[l] = "cast" /\ o = l + 1
    IN CASE o = l /\ ts[r] = ")" -> inner
         [] o = l /\ ts[r] = "}" -> Whole([node |-> "braced", members |-> items], Range(items))
         [] cast /\ ts[r] = ")" /\ r - 3 > o /\ ts[r - 2] = "," /\ ts[r - 1] = "T" ->
                LET t == Tree(ts, o + 1, r - 3)
                IN Whole([node |-> "cast", target |-> t], {t})
         [] o > l /\ ~cast /\ ts[r] = "]" ->
                Whole([node |-> "subscript", operand |-> left, value |-> inner], {left, inner})
         [] o > l /\ ~cast /\ ts[r] = ")" ->
                Whole([node |-> "call", target |-> left, arguments |-> items],
                      {left} \cup Range(items))
         [] OTHER -> Null

Tree(ts, l, r) ==
    LET roots == Roots(ts, l, r)
        k == Root(ts, roots)
        left == Tree(ts, l, k - 1)
        right == Tree(ts, k + 1, r)
        operand == Tree(ts, l + 1, r)
    IN IF l > r THEN Null
       ELSE IF roots # {}
       THEN Whole([node |-> "binexpr", op |-> ts[k], left |-> left, right |-> right], {left, right})
       ELSE IF ts[l] \in UnaryOperators
       THEN Whole([node |-> "unaryexpr", op |-> ts[l], operand |-> operand], {operand})
       ELSE IF Takes(ts, l)
       THEN Whole([node |-> "sizeof", target |-> <<operand>>], {operand})
       ELSE Primary(ts, l, r)

-----------------------------------------------------------------------------
(* Properties                                                              *)

\* A sizeof whose operand ends at a closing parenthesis of the text around it:
\* the parser takes that parenthesis as the end of the operand, and goes on.
SizeofInParentheses ==
    \E k \in DOMAIN tokens, o \in Places(tokens, {"("}, 1, Len(tokens)) :
        /\ k > o /\ Takes(tokens, k)
        /\ \A j \in o .. k : Count(tokens, Openers, o, j) > Count(tokens, Closers, o, j)

\* Every text of the grammar is accepted to its last token and gives the tree
\* the places of its operators and brackets say, whatever brackets it nests in
\* whatever others (parse, parse_binary_expression, parse_call).
TextsAreParsed ==
    result.done /\ ~SizeofInParentheses /\ Tree(tokens, 1, Len(tokens)) # Null =>
        Accepted /\ result.p.n = Tree(tokens, 1, Len(tokens))
=============================================================================
