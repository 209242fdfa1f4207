------------------------------- MODULE Syntax -------------------------------
(***************************************************************************)
(* The recursive-descent parser of expressions and statements              *)
(* (parser/begin.cpp, parser/expressions.cpp, parser/controlflow.cpp) on   *)
(* sequences of tokens.  parse takes and leaves a parser state:            *)
(*   i       the current token                                             *)
(*   paren   inside_parenthesized_expression_                              *)
(*   scopes  the scope stack of the entity table, fresh numbers the scopes *)
(*   decls   which scopes were open when a declaration was entered         *)
(*   n       the node returned, Null for nullptr                           *)
(* A token is a string.  "a" stands for any identifier, "d" for a name and *)
(* its type up to the initializer, ".m" for a dot and the identifier after *)
(* it, "T" for a type name; "1" and "2" are literals with two values.      *)
(*                                                                         *)
(* The routines take a context cx: the tokens ts and, in call, what the    *)
(* calls of parse that they make return.  A call goes one level deeper     *)
(* and, as it comes behind a token that was taken, there are no more       *)
(* levels than tokens.                                                     *)
(***************************************************************************)
EXTENDS Integers, Sequences

Null == [node |-> "null"]
NewParser == [i |-> 1, paren |-> 0, scopes |-> <<>>, fresh |-> 1, decls |-> {}, n |-> Null]

Peek(cx, p, k)  == IF p.i + k \in DOMAIN cx.ts THEN cx.ts[p.i + k] ELSE "eof"
Current(cx, p)  == Peek(cx, p, 0)
Advance(p, k)   == [p EXCEPT !.i = @ + k]
Return(p, node) == [p EXCEPT !.n = node]
Fail(p)         == Return(p, Null)
Failed(p)       == p.n = Null
Ensure(p, ok)   == IF ok THEN p ELSE Fail(p)

Behind(p)       == IF Failed(p) THEN p ELSE Advance(p, 1)

push_scope(p) == [p EXCEPT !.scopes = Append(@, p.fresh), !.fresh = @ + 1]
pop_scope(p)  == [p EXCEPT !.scopes = SubSeq(@, 1, Len(@) - 1)]

-----------------------------------------------------------------------------
(* Tokens *)

\* The lower number binds tighter; what is equal groups to the right.
precedence_of(op) ==
    CASE op \in {"=", "+="} -> 12
      [] op = "&&" -> 11  [] op = "||" -> 10
      [] op = "*"  -> 8   [] op \in {"+", "-"} -> 7  [] op = "<<" -> 6
      [] op = "<"  -> 5   [] op = "==" -> 4
      [] op = "&"  -> 3   [] op = "^" -> 2           [] op = "|" -> 1

BinaryOperators == {"=", "+=", "&&", "||", "*", "+", "-", "<<", "<", "==", "&", "^", "|"}
ComparisonOperators == {"<", "=="}
UnaryOperators  == {"!", "++", "-", "+", "^", "&"}
Literals        == {"1", "2"}
Keywords == {"ret", "if", "switch", "while", "for", "cont", "brk", "do", "block", "cast",
             "defer", "defer_if", "sizeof"}
Separators == {";", ","}

SubexpressionNodes == {"call", "ident", "binexpr", "lit", "unaryexpr", "braced", "cast",
                       "subscript", "member", "sizeof"}
NeverNeedsTerminal == {"branch", "for", "while", "switch", "block"}
Subexpression(p) == p.n.node \in SubexpressionNodes

-----------------------------------------------------------------------------
(* Calls and loops                                                         *)

\* What a call gets of the parser, and which parse it is: parse(parser, lxr),
\* parse(parser, lxr, true), parse(parser, lxr, true, true), or the part of
\* parse_binary_expression from the operator on.
Calls == [i : Nat, paren : Int, scopes : Seq(Nat), fresh : Nat,
          decls : SUBSET (Nat \X Seq(Nat)),
          of : {"statement", "expression", "operand", "right"}]
AsCall(p, of) == [i |-> p.i, paren |-> p.paren, scopes |-> p.scopes, fresh |-> p.fresh,
                  decls |-> p.decls, of |-> of]
Callee(c) == [i |-> c.i, paren |-> c.paren, scopes |-> c.scopes, fresh |-> c.fresh,
              decls |-> c.decls, n |-> Null]

Statement(cx, p)  == cx.call[AsCall(p, "statement")]
Expression(cx, p) == cx.call[AsCall(p, "expression")]
Operand(cx, p)    == cx.call[AsCall(p, "operand")]
Right(cx, p)      == cx.call[AsCall(p, "right")]

\* The state of a loop after its last turn; a turn changes nothing when the loop
\* has ended.  No loop takes more turns: each takes a token at least.
Loop(Turn(_), cx, p) ==
    LET turn[k \in 0 .. Len(cx.ts) + 1] == IF k = 0 THEN p ELSE Turn(turn[k - 1])
    IN turn[Len(cx.ts) + 1]

-----------------------------------------------------------------------------
(* Bodies                                                                  *)

\* while(lxr.current() != TOKEN_RBRACE) { ... parse(parser, lxr, false) ... },
\* with the statements parsed so far; the closing brace is taken.
BodyTurn(cx, p) ==
    LET s == Statement(cx, p)
    IN IF Failed(p) \/ Current(cx, p) = "}" THEN p
       ELSE IF Failed(s) THEN s
       ELSE Return(s, [node |-> "body", body |-> Append(p.n.body, s.n)])
Body(cx, p) ==
    Behind(Loop(LAMBDA q : BodyTurn(cx, q), cx, Return(p, [node |-> "body", body |-> <<>>])))

BracedBody(cx, p) ==
    IF Current(cx, p) = "{" THEN Body(cx, Advance(p, 1)) ELSE Fail(p)

BodyOrStatement(cx, p) ==
    LET s == Statement(cx, p)
    IN IF Current(cx, p) = "{" THEN BracedBody(cx, p)
       ELSE IF Failed(s) THEN s ELSE Return(s, [node |-> "body", body |-> <<s.n>>])

-----------------------------------------------------------------------------
(* Expressions *)

parse_parenthesized_expression(cx, p) ==
    LET e == Expression(cx, [Advance(p, 1) EXCEPT !.paren = @ + 1])
    IN Ensure(e, Subexpression(e))

parse_cast(cx, p) ==
    LET e == Expression(cx, Advance(p, 2))
    IN IF Peek(cx, p, 1) # "(" THEN Fail(p)
       ELSE IF ~Subexpression(e) THEN Fail(e)
       ELSE IF Current(cx, e) \in Separators /\ Peek(cx, e, 1) = "T" /\ Peek(cx, e, 2) = ")"
       THEN Return(Advance(e, 3), [node |-> "cast", target |-> e.n])
       ELSE Fail(e)

\* The operand is a whole expression, with its binary operators.
parse_sizeof(cx, p) ==
    LET e == Expression(cx, Advance(p, 1))
    IN IF Peek(cx, p, 1) = "T" THEN Return(Advance(p, 2), [node |-> "sizeof", target |-> <<>>])
       ELSE IF ~Subexpression(e) THEN Fail(e)
       ELSE Return(e, [node |-> "sizeof", target |-> <<e.n>>])

parse_singleton_literal(cx, p) ==
    Return(Advance(p, 1), [node |-> "lit", at |-> p.i])

\* The comma between two members is taken when it is there.
MembersTurn(cx, p) ==
    LET m == Expression(cx, p)
    IN IF Failed(p) \/ Current(cx, p) = "}" THEN p
       ELSE IF ~Subexpression(m) THEN Fail(m)
       ELSE Return(IF Current(cx, m) = "," THEN Advance(m, 1) ELSE m,
                   [node |-> "braced", members |-> Append(p.n.members, m.n)])

parse_braced_expression(cx, p) ==
    LET b == Loop(LAMBDA q : MembersTurn(cx, q), cx,
                  Return(Advance(p, 1), [node |-> "braced", members |-> <<>>]))
    IN IF Failed(b) \/ Current(cx, b) # "}" THEN Fail(b) ELSE Advance(b, 1)

parse_unary_expression(cx, p) ==
    LET e == Operand(cx, Advance(p, 1))
    IN IF ~Subexpression(e) THEN Fail(e)
       ELSE Return(e, [node |-> "unaryexpr", op |-> Current(cx, p), operand |-> e.n])

parse_member_access(cx, p) ==
    LET path == CHOOSE k \in 1 .. Len(cx.ts) :
                    /\ \A j \in 0 .. k - 1 : Peek(cx, p, j) = ".m"
                    /\ Peek(cx, p, k) # ".m"
    IN Return(Advance(p, path), [node |-> "member", target |-> p.n, path |-> path])

\* An argument list ends when the count of open parentheses is back at what it
\* was, whichever call of parse() took the closing one.
ArgumentsTurn(cx, p, old) ==
    LET e == Expression(cx, p)
        next == IF old < e.paren /\ Current(cx, e) \in Separators
                THEN IF Peek(cx, e, 1) = ")" THEN [Advance(e, 2) EXCEPT !.paren = @ - 1]
                     ELSE Advance(e, 1)
                ELSE e
    IN IF Failed(p) \/ old >= p.paren THEN p
       ELSE IF ~Subexpression(e) THEN Fail(e)
       ELSE Return(next, [node |-> "arguments", arguments |-> Append(p.n.arguments, e.n)])

Closed(q, old) == IF old >= q.paren THEN q ELSE Fail(q)
Arguments(cx, p, old) ==
    Closed(Loop(LAMBDA q : ArgumentsTurn(cx, q, old), cx,
                Return(p, [node |-> "arguments", arguments |-> <<>>])), old)

CallOf(target, q) ==
    IF Failed(q) THEN q
    ELSE Return(q, [node |-> "call", target |-> target, arguments |-> q.n.arguments])
\* Mutant: the parenthesis is counted before it is known to be closed.
parse_call_counts_empty(cx, p) ==
    LET q == [Advance(p, 1) EXCEPT !.paren = @ + 1]
    IN CallOf(p.n, IF Peek(cx, p, 1) = ")"
                   THEN Return(Advance(q, 1), [node |-> "arguments", arguments |-> <<>>])
                   ELSE Arguments(cx, q, p.paren))
parse_call(cx, p) ==
    LET q == [Advance(p, 1) EXCEPT !.paren = @ + 1]
    IN CallOf(p.n, IF Peek(cx, p, 1) = ")"
                   THEN Return(Advance(p, 2), [node |-> "arguments", arguments |-> <<>>])
                   ELSE Arguments(cx, q, p.paren))

parse_subscript(cx, p) ==
    LET e == Expression(cx, Advance(p, 1))
    IN IF ~Subexpression(e) \/ Current(cx, e) # "]" THEN Fail(e)
       ELSE Return(Advance(e, 1), [node |-> "subscript", operand |-> p.n, value |-> e.n])

parse_binary_expression(cx, p) ==
    LET r == Right(cx, p)
    IN IF Failed(r) THEN r
       ELSE Return(r, [node |-> "binexpr", op |-> Current(cx, p), left |-> p.n, right |-> r.n])

\* Operators that bind at least as tight as op take the right operand over.
\* Mutant: what is equal groups to the left.
Climb_left(cx, p, op) ==
    IF /\ ~Failed(p) /\ Current(cx, p) \in BinaryOperators
       /\ precedence_of(Current(cx, p)) < precedence_of(op)
    THEN parse_binary_expression(cx, p) ELSE p
Climb(cx, p, op) ==
    IF /\ ~Failed(p) /\ Current(cx, p) \in BinaryOperators
       /\ precedence_of(Current(cx, p)) <= precedence_of(op)
    THEN parse_binary_expression(cx, p) ELSE p

\* The right operand, from the operator on.
\* Mutant: the operator keeps the operand it read first.
RightOperand_keeps_first(cx, p) ==
    LET op == Current(cx, p)
        r == Operand(cx, Advance(p, 1))
        right == Loop(LAMBDA q : Climb(cx, q, op), cx, r)
    IN IF ~Subexpression(r) THEN Fail(r)
       ELSE IF Failed(right) THEN right ELSE Return(right, r.n)
RightOperand(cx, p) ==
    LET op == Current(cx, p)
        r == Operand(cx, Advance(p, 1))
    IN IF Subexpression(r) THEN Loop(LAMBDA q : Climb(cx, q, op), cx, r) ELSE Fail(r)

-----------------------------------------------------------------------------
(* Statements *)

\* A declaration is entered in the innermost scope before its initializer is
\* parsed.
parse_vardecl(cx, p) ==
    LET q == [Advance(p, 1) EXCEPT !.decls = @ \cup {<<p.i, p.scopes>>}]
        e == Expression(cx, Advance(q, 1))
        decl(x, init) == Return(x, [node |-> "vardecl", at |-> p.i, init |-> init])
    IN IF Current(cx, q) # "=" THEN decl(q, <<>>)
       ELSE IF ~Subexpression(e) THEN Fail(e) ELSE decl(e, <<e.n>>)

\* Mutant: the scope of the body is left behind the else.
parse_branch_one_scope(cx, p) ==
    LET c == Expression(cx, push_scope(Advance(p, 1)))
        b == BodyOrStatement(cx, c)
        e == BodyOrStatement(cx, push_scope(Advance(b, 1)))
        branch(x, else) == Return(x, [node |-> "branch", cond |-> c.n, body |-> b.n.body,
                                      else |-> else])
    IN IF ~Subexpression(c) /\ c.n.node # "vardecl" THEN Fail(c)
       ELSE IF Failed(b) THEN b
       ELSE IF Current(cx, b) # "else" THEN branch(pop_scope(b), <<>>)
       ELSE IF Failed(e) THEN e ELSE branch(pop_scope(pop_scope(e)), <<e.n.body>>)
parse_branch(cx, p) ==
    LET c == Expression(cx, push_scope(Advance(p, 1)))
        b == BodyOrStatement(cx, c)
        q == pop_scope(b)
        e == BodyOrStatement(cx, push_scope(Advance(q, 1)))
        branch(x, else) == Return(x, [node |-> "branch", cond |-> c.n, body |-> b.n.body,
                                      else |-> else])
    IN IF ~Subexpression(c) /\ c.n.node # "vardecl" THEN Fail(c)
       ELSE IF Failed(b) THEN b
       ELSE IF Current(cx, q) # "else" THEN branch(q, <<>>)
       ELSE IF Failed(e) THEN e ELSE branch(pop_scope(e), <<e.n.body>>)

parse_while(cx, p) ==
    LET c == Expression(cx, push_scope(Advance(p, 1)))
        b == BracedBody(cx, c)
    IN IF ~Subexpression(c) THEN Fail(pop_scope(c))
       ELSE IF Failed(b) THEN pop_scope(b)
       ELSE Return(pop_scope(b), [node |-> "while", cond |-> c.n, body |-> b.n.body])

parse_block(cx, p) ==
    LET b == Body(cx, push_scope(Advance(p, 2)))
    IN IF Peek(cx, p, 1) # "{" THEN Fail(p)
       ELSE IF Failed(b) THEN pop_scope(b)
       ELSE Return(pop_scope(b), [node |-> "block", body |-> b.n.body])

\* The condition is parsed in the scope of the body.
parse_dowhile(cx, p) ==
    LET b == Body(cx, push_scope(Advance(p, 2)))
        c == Expression(cx, Advance(b, 1))
    IN IF Peek(cx, p, 1) # "{" THEN Fail(p)
       ELSE IF Failed(b) \/ Current(cx, b) # "while" THEN Fail(pop_scope(b))
       ELSE IF ~Subexpression(c) THEN Fail(pop_scope(c))
       ELSE Return(pop_scope(c), [node |-> "dowhile", body |-> b.n.body, cond |-> c.n])

\* An optional clause of a for, up to its separator.
\* Mutant: the separator of an empty clause is left to the next.
Clause_empty_stays(cx, p, kinds) ==
    LET e == Expression(cx, p)
    IN IF Current(cx, p) \in Separators THEN Return(p, [node |-> "body", body |-> <<>>])
       ELSE IF e.n.node \notin kinds \/ Current(cx, e) \notin Separators THEN Fail(e)
       ELSE Return(Advance(e, 1), [node |-> "body", body |-> <<e.n>>])
Clause(cx, p, kinds) ==
    LET e == Expression(cx, p)
    IN IF Current(cx, p) \in Separators THEN Return(Advance(p, 1), [node |-> "body", body |-> <<>>])
       ELSE IF e.n.node \notin kinds \/ Current(cx, e) \notin Separators THEN Fail(e)
       ELSE Return(Advance(e, 1), [node |-> "body", body |-> <<e.n>>])

Copy == [node |-> "copy"]       \* the loop variable, in nodes no token stands for

parse_forward_range_loop(cx, p) ==
    LET compares == Peek(cx, p, 1) \in ComparisonOperators
        e == Expression(cx, Advance(p, IF compares THEN 2 ELSE 1))
        b == BracedBody(cx, e)
    IN IF p.n.init = <<>> \/ Failed(e) THEN Fail(e)
       ELSE IF Failed(b) THEN b
       ELSE Return(b, [node |-> "for", init |-> <<p.n>>, body |-> b.n.body,
                       update |-> <<Copy>>,
                       cond |-> <<[node |-> "binexpr", left |-> Copy, right |-> e.n,
                                   op |-> IF compares THEN Peek(cx, p, 1) ELSE "<"]>>])

parse_for(cx, p) ==
    LET q == push_scope(Advance(p, 1))
        first == Expression(cx, q)
        range == parse_forward_range_loop(cx, first)
        i == Clause(cx, q, SubexpressionNodes \cup {"vardecl"})
        c == Clause(cx, i, SubexpressionNodes)
        u == Expression(cx, c)
        b == BracedBody(cx, IF Current(cx, c) = "{" THEN c ELSE u)
    IN IF first.n.node = "vardecl" /\ Current(cx, first) = "..." THEN pop_scope(range)
       ELSE IF Failed(i) THEN pop_scope(i)
       ELSE IF Failed(c) THEN pop_scope(c)
       ELSE IF Current(cx, c) # "{" /\ ~Subexpression(u) THEN Fail(pop_scope(u))
       ELSE IF Failed(b) THEN pop_scope(b)
       ELSE Return(pop_scope(b), [node |-> "for", init |-> i.n.body, cond |-> c.n.body,
                                  update |-> IF Current(cx, c) = "{" THEN <<>> ELSE <<u.n>>,
                                  body |-> b.n.body])

parse_ret(cx, p) ==
    LET e == Expression(cx, Advance(p, 1))
    IN IF Peek(cx, p, 1) \in Separators
       THEN Return(Advance(p, 1), [node |-> "ret", value |-> <<>>])
       ELSE IF ~Subexpression(e) THEN Fail(e)
       ELSE Return(e, [node |-> "ret", value |-> <<e.n>>])

parse_defer(cx, p) ==
    LET e == Expression(cx, Advance(p, 1))
    IN IF e.n.node # "call" THEN Fail(e)
       ELSE Return(e, [node |-> "defer", cond |-> <<>>, call |-> e.n])

parse_defer_if(cx, p) ==
    LET c == Expression(cx, Advance(p, 1))
        e == Expression(cx, Advance(c, 1))
    IN IF ~Subexpression(c) \/ Current(cx, c) \notin Separators THEN Fail(c)
       ELSE IF e.n.node # "call" THEN Fail(e)
       ELSE Return(e, [node |-> "defer", cond |-> <<c.n>>, call |-> e.n])

\* A case or the default is a separator or a body, in a scope of its own.
CaseBody(cx, p) ==
    IF Current(cx, p) \in Separators
    THEN Return(Advance(p, 1), [node |-> "body", body |-> <<>>]) ELSE BracedBody(cx, p)

parse_case(cx, p) ==
    LET v == Expression(cx, push_scope(Advance(p, 1)))
        b == CaseBody(cx, v)
    IN IF v.n.node # "lit" THEN Fail(pop_scope(v))
       ELSE IF Failed(b) THEN pop_scope(b)
       ELSE Return(pop_scope(b), [node |-> "case", value |-> v.n, body |-> b.n.body,
                                       fallthrough |-> Current(cx, p) = "fallthrough"])

parse_default(cx, p) ==
    pop_scope(CaseBody(cx, push_scope(Advance(p, 1))))

\* The value of a case must be that of no case before it.
NextCase(cx, cases, k) ==
    LET value(n) == cx.ts[n.value.at]
    IN IF Failed(k) THEN k
       ELSE IF \E j \in DOMAIN cases : value(cases[j]) = value(k.n) THEN Fail(k)
       ELSE Return(k, [node |-> "cases", cases |-> Append(cases, k.n)])
CasesTurn(cx, p) ==
    IF Failed(p) \/ Current(cx, p) \notin {"case", "fallthrough"} THEN p
    ELSE NextCase(cx, p.n.cases, parse_case(cx, p))

\* A switch ends behind its default.
Default(cx, target, c, d) ==
    IF Failed(c) \/ Current(cx, c) # "default" THEN Fail(c)
    ELSE IF Failed(d) \/ Current(cx, d) # "}" THEN Fail(d)
    ELSE Return(Advance(d, 1), [node |-> "switch", target |-> target, cases |-> c.n.cases,
                                default |-> d.n.body])
parse_switch(cx, p) ==
    LET e == Expression(cx, Advance(p, 1))
        c == Loop(LAMBDA q : CasesTurn(cx, q), cx,
                  Return(Advance(e, 1), [node |-> "cases", cases |-> <<>>]))
    IN IF ~Subexpression(e) \/ Current(cx, e) # "{" THEN Fail(e)
       ELSE Default(cx, e.n, c, parse_default(cx, c))

parse_keyword(cx, p) ==
    LET c == Current(cx, p)
    IN CASE c = "ret"    -> parse_ret(cx, p)     [] c = "if"       -> parse_branch(cx, p)
         [] c = "switch" -> parse_switch(cx, p)  [] c = "while"    -> parse_while(cx, p)
         [] c = "for"    -> parse_for(cx, p)     [] c = "do"       -> parse_dowhile(cx, p)
         [] c = "block"  -> parse_block(cx, p)   [] c = "cast"     -> parse_cast(cx, p)
         [] c = "defer"  -> parse_defer(cx, p)   [] c = "defer_if" -> parse_defer_if(cx, p)
         [] c = "sizeof" -> parse_sizeof(cx, p)
         [] c \in {"brk", "cont"} -> Return(Advance(p, 1), [node |-> c])

-----------------------------------------------------------------------------
(* The entry point of the recursion *)

Postfix(cx, p, parse_single) ==
    LET c == Current(cx, p)
    IN IF Failed(p) THEN p
       ELSE IF c = "[" THEN parse_subscript(cx, p)
       ELSE IF c = "(" THEN parse_call(cx, p)
       ELSE IF c = ".m" THEN parse_member_access(cx, p)
       ELSE IF c \in BinaryOperators /\ ~parse_single THEN parse_binary_expression(cx, p)
       ELSE p

\* A closing parenthesis belongs to the innermost call of parse() that is not
\* parsing a single operand.
Close(cx, p, parse_single) ==
    IF Failed(p) \/ Current(cx, p) # ")" THEN p
    ELSE IF p.paren = 0 THEN Fail(p)
    ELSE IF parse_single THEN p ELSE [Advance(p, 1) EXCEPT !.paren = @ - 1]

Prefix(cx, p) ==
    LET c == Current(cx, p)
    IN IF c = "(" THEN parse_parenthesized_expression(cx, p)
       ELSE IF c = "{" THEN parse_braced_expression(cx, p)
       ELSE IF c \in Literals THEN parse_singleton_literal(cx, p)
       ELSE IF c \in Keywords THEN parse_keyword(cx, p)
       ELSE IF c = "a" THEN Return(Advance(p, 1), [node |-> "ident", at |-> p.i])
       ELSE IF c = "d" THEN parse_vardecl(cx, p)
       ELSE IF c \in UnaryOperators THEN parse_unary_expression(cx, p)
       ELSE Fail(p)

\* What comes behind it: postfix forms and operators, a parenthesis, the end.
Terminal(cx, q, nocheck) ==
    IF Failed(q) \/ nocheck THEN q
    ELSE IF Current(cx, q) \in Separators /\ q.paren = 0 THEN Advance(q, 1)
    ELSE Fail(q)
Suffix(cx, e, nocheck_term, parse_single) ==
    LET o == Loop(LAMBDA x : Postfix(cx, x, parse_single), cx, e)
    IN IF Failed(e) \/ e.n.node \in NeverNeedsTerminal THEN e
       ELSE Terminal(cx, Close(cx, o, parse_single), nocheck_term \/ parse_single)

parse(cx, p, nocheck_term, parse_single) ==
    Suffix(cx, Prefix(cx, p), nocheck_term, parse_single)

Routine(cx, c) ==
    CASE c.of = "statement"  -> parse(cx, Callee(c), FALSE, FALSE)
      [] c.of = "expression" -> parse(cx, Callee(c), TRUE, FALSE)
      [] c.of = "operand"    -> parse(cx, Callee(c), TRUE, TRUE)
      [] c.of = "right"      -> RightOperand(cx, Callee(c))

\* parse on the tokens ts.
Parsed(ts, p, of) ==
    LET level[d \in 0 .. Len(ts) + 2] ==
            IF d = 0 THEN [c \in Calls |-> Callee(c)]
            ELSE [c \in Calls |-> Routine([ts |-> ts, call |-> level[d - 1]], c)]
    IN level[Len(ts) + 2][AsCall(p, of)]
=============================================================================
