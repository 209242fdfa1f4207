-------------------------- MODULE StatementSyntax --------------------------
(***************************************************************************)
(* Programs written statement by statement and handed to the parser.  The  *)
(* writer keeps the blocks it has open; Submit parses the text once they   *)
(* are closed.  What the parser returns is compared with what was written: *)
(* the statements, and the block that each declaration was written in.     *)
(***************************************************************************)
EXTENDS Syntax, FiniteSets, SequencesExt

CONSTANTS Simple,           \* the statements without a body, written in turn
          Heads,            \* the statements with one
          MaxStatements     \* how many are written

VARIABLES text,     \* the tokens written
          open,     \* the open blocks, the outermost is the program itself
          blocks,   \* how many scopes were opened
          names,    \* where each declaration stands, with the blocks around it
          size,     \* how many statements were written
          turn,     \* the next of Simple
          result    \* the parser after the program, once it is submitted
vars == <<text, open, blocks, names, size, turn, result>>

-----------------------------------------------------------------------------
(* Statements as written: their tokens t, their node n and the places d of  *)
(* their declarations, after k tokens                                       *)

Ident(k)   == [node |-> "ident", at |-> k]
Call(k)    == [node |-> "call", target |-> Ident(k), arguments |-> <<>>]
Decl(k, x) == [node |-> "vardecl", at |-> k, init |-> x]
Less(k)    == [node |-> "binexpr", op |-> "<", left |-> Copy, right |-> Ident(k)]

Written(s, k) ==
    CASE s = "decl"  -> [t |-> <<"d", ";">>, n |-> Decl(k + 1, <<>>), d |-> {k + 1}]
      [] s = "init"  -> [t |-> <<"d", "=", "a", ";">>, n |-> Decl(k + 1, <<Ident(k + 3)>>),
                         d |-> {k + 1}]
      [] s = "expr"  -> [t |-> <<"a", ";">>, n |-> Ident(k + 1), d |-> {}]
      [] s = "ret"   -> [t |-> <<"ret", "a", ";">>, d |-> {},
                         n |-> [node |-> "ret", value |-> <<Ident(k + 2)>>]]
      [] s = "void"  -> [t |-> <<"ret", ";">>, n |-> [node |-> "ret", value |-> <<>>], d |-> {}]
      [] s = "brk"   -> [t |-> <<"brk", ";">>, n |-> [node |-> "brk"], d |-> {}]
      [] s = "defer" -> [t |-> <<"defer", "a", "(", ")", ";">>, d |-> {},
                         n |-> [node |-> "defer", cond |-> <<>>, call |-> Call(k + 2)]]
      [] s = "defer_if" ->
            [t |-> <<"defer_if", "a", ",", "a", "(", ")", ";">>, d |-> {},
             n |-> [node |-> "defer", cond |-> <<Ident(k + 2)>>, call |-> Call(k + 4)]]

\* The same for what stands before a body; the node has its body added later.
Before(h, k) ==
    CASE h = "if" ->
            [t |-> <<"if", "a">>, d |-> {},
             n |-> [node |-> "branch", cond |-> Ident(k + 2), else |-> <<>>]]
      [] h = "if decl" ->
            [t |-> <<"if", "d", "=", "a">>, d |-> {k + 2},
             n |-> [node |-> "branch", cond |-> Decl(k + 2, <<Ident(k + 4)>>), else |-> <<>>]]
      [] h = "while" ->
            [t |-> <<"while", "a">>, d |-> {}, n |-> [node |-> "while", cond |-> Ident(k + 2)]]
      [] h = "do" ->
            [t |-> <<"do">>, d |-> {}, n |-> [node |-> "dowhile"]]
      [] h = "block" ->
            [t |-> <<"block">>, d |-> {}, n |-> [node |-> "block"]]
      [] h = "for" ->
            [t |-> <<"for", "d", ";", "a", ";", "a">>, d |-> {k + 2},
             n |-> [node |-> "for", init |-> <<Decl(k + 2, <<>>)>>, cond |-> <<Ident(k + 4)>>,
                    update |-> <<Ident(k + 6)>>]]
      [] h = "for ever" ->
            [t |-> <<"for", ";", ",">>, d |-> {},
             n |-> [node |-> "for", init |-> <<>>, cond |-> <<>>, update |-> <<>>]]
      [] h = "range" ->
            [t |-> <<"for", "d", "=", "a", "...", "a">>, d |-> {k + 2},
             n |-> [node |-> "for", init |-> <<Decl(k + 2, <<Ident(k + 4)>>)>>,
                    cond |-> <<Less(k + 6)>>, update |-> <<Copy>>]]
      [] h = "switch" ->
            [t |-> <<"switch", "a">>, d |-> {},
             n |-> [node |-> "switch", target |-> Ident(k + 2), cases |-> <<>>]]
      [] h \in {"1", "2"} ->
            [t |-> <<IF h = "1" THEN "case" ELSE "fallthrough", h>>, d |-> {},
             n |-> [node |-> "case", fallthrough |-> h = "2",
                    value |-> [node |-> "lit", at |-> k + 2]]]
      [] h = "default" -> [t |-> <<"default">>, d |-> {}, n |-> [node |-> "default"]]
      [] h = "else"    -> [t |-> <<"else">>, d |-> {}, n |-> [node |-> "else"]]

-----------------------------------------------------------------------------
(* The writer *)

Block(n, scope) == [n |-> n, body |-> <<>>, scope |-> scope]
Top == Last(open)
InSwitch == Top.n.node = "switch"
With(stack, statement) == [stack EXCEPT ![Len(stack)].body = Append(@, statement)]
Around(stack) == SelectSeq([j \in DOMAIN stack |-> stack[j].scope], LAMBDA s : s # 0)
Named(places, stack) == names' = names \cup {<<x, Around(stack)>> : x \in places}

\* The statement n with its body; an else becomes part of the branch before it.
Complete(stack, n, body) ==
    LET of == Last(Last(stack).body)
    IN CASE n.node = "else" ->
                [stack EXCEPT ![Len(stack)].body[Len(Last(stack).body)] =
                    [of EXCEPT !.else = <<body>>]]
         [] n.node = "default" -> With(stack, [node |-> "default", body |-> body])
         [] n.node = "switch" ->
                With(stack, [n EXCEPT !.cases = Front(body)]
                            @@ [default |-> Last(body).body])
         [] n.node = "dowhile" ->
                With(stack, n @@ [body |-> body, cond |-> Ident(Len(text) + 3)])
         [] OTHER -> With(stack, n @@ [body |-> body])

\* What may be written here: cases that are not there yet and then a default in
\* a switch, an else behind a branch without one, other statements elsewhere.
MayOpen(h) ==
    IF InSwitch
    THEN /\ h \in {"1", "2", "default"}
         /\ \A j \in DOMAIN Top.body :
                /\ Top.body[j].node = "case"
                /\ h # text[Top.body[j].value.at]
    ELSE IF h = "else"
    THEN Top.body # <<>> /\ Last(Top.body).node = "branch" /\ Last(Top.body).else = <<>>
    ELSE h \notin {"1", "2", "default"}

MayWrite == result = Null /\ size < MaxStatements
NextTurn == turn' = (turn % Len(Simple)) + 1
\* An else and a default do not count.
Grow(h) == size' = IF h \in {"else", "default"} THEN size ELSE size + 1

OpenBlock(h) ==
    LET head == Before(h, Len(text))
        scope == IF h = "switch" THEN 0 ELSE blocks + 1
        stack == Append(open, Block(head.n, scope))
    IN /\ MayWrite /\ MayOpen(h)
       /\ text' = text \o head.t \o <<"{">>
       /\ open' = stack
       /\ blocks' = IF h = "switch" THEN blocks ELSE blocks + 1
       /\ Named(head.d, stack) /\ Grow(h)
       /\ UNCHANGED <<turn, result>>

CloseBlock ==
    /\ Len(open) > 1
    /\ InSwitch => Top.body # <<>> /\ Last(Top.body).node = "default"
    /\ text' = text \o IF Top.n.node = "dowhile" THEN <<"}", "while", "a", ";">> ELSE <<"}">>
    /\ open' = Complete(Front(open), Top.n, Top.body)
    /\ UNCHANGED <<blocks, names, size, turn, result>>

Write ==
    LET w == Written(Simple[turn], Len(text))
    IN /\ MayWrite /\ ~InSwitch
       /\ text' = text \o w.t /\ open' = With(open, w.n) /\ Named(w.d, open)
       /\ size' = size + 1 /\ NextTurn
       /\ UNCHANGED <<blocks, result>>

\* One statement for a body, without braces.
WriteUnder(h) ==
    LET head == Before(h, Len(text))
        w == Written(Simple[turn], Len(text) + Len(head.t))
        stack == Append(open, Block(head.n, blocks + 1))
    IN /\ MayWrite /\ MayOpen(h) /\ h \in {"if", "if decl", "else"}
       /\ text' = text \o head.t \o w.t
       /\ open' = Complete(open, head.n, <<w.n>>)
       /\ blocks' = blocks + 1
       /\ Named(head.d \cup w.d, stack) /\ Grow(h) /\ NextTurn
       /\ UNCHANGED result

\* A case or a default without a body.
WriteEmpty(h) ==
    LET head == Before(h, Len(text))
    IN /\ MayWrite /\ InSwitch /\ MayOpen(h)
       /\ text' = text \o head.t \o <<";">>
       /\ open' = Complete(open, head.n, <<>>)
       /\ blocks' = blocks + 1 /\ Grow(h)
       /\ UNCHANGED <<names, turn, result>>

\* The statements of a text up to its end.
RECURSIVE Program(_, _, _)
Others(ts, s, done) == IF Failed(s) THEN s ELSE Program(ts, s, Append(done, s.n))
Program(ts, p, done) ==
    IF p.i > Len(ts) THEN Return(p, [node |-> "body", body |-> done])
    ELSE Others(ts, Parsed(ts, p, "statement"), done)

Submit ==
    /\ result = Null /\ Len(open) = 1
    /\ result' = [node |-> "parser", p |-> Program(text, NewParser, <<>>)]
    /\ UNCHANGED <<text, open, blocks, names, size, turn>>

Init ==
    /\ text = <<>> /\ open = <<Block(Null, 0)>> /\ blocks = 0
    /\ names = {} /\ size = 0 /\ turn \in DOMAIN Simple /\ result = Null

Next == \/ \E h \in Heads : OpenBlock(h) \/ WriteUnder(h) \/ WriteEmpty(h)
        \/ Write \/ CloseBlock \/ Submit

Spec == Init /\ [][Next]_vars

-----------------------------------------------------------------------------
(* Properties *)

Submitted == result # Null

\* The parser gives the program back as it was written: no statement ends early,
\* none takes what follows it, and each body, else and case is where it was
\* written (parse and the functions of parser/controlflow.cpp).
ProgramsAreParsed ==
    Submitted => ~Failed(result.p) /\ result.p.n.body = open[1].body

\* Each name is entered in the scopes of the blocks it was written in, with the
\* conditions and loop variables inside the scope of their statement; an else,
\* a case and a default each have a scope of their own, and no scope outlives
\* its block (the push_scope and pop_scope of parser/controlflow.cpp).
NamesAreInTheirBlocks ==
    Submitted => result.p.decls = names /\ result.p.scopes = <<>>
=============================================================================
