------------------------------- MODULE Lexer -------------------------------
(***************************************************************************)
(* The lexer (tak/src/lexer): a cursor on the characters of one file, with *)
(* the token before it.  The parser moves it by advance, looks ahead by    *)
(* peek, and the postparser sets it back to parse a procedure again.       *)
(*                                                                         *)
(* Words are not told apart by their letters (identifiers, keywords, names *)
(* of types, boolean literals), and the type of a punctuator or operator   *)
(* is its text.                                                            *)
(***************************************************************************)
EXTENDS Integers, FiniteSets, SequencesExt

CONSTANTS
    Alphabets,   \* sets of characters; a source is made of one of them
    MaxLength    \* bound: characters of a source

VARIABLES
    src_,     \* the characters of the file
    lx,       \* src_index_, curr_line_ and current_; exit: the process ended
    tokens    \* the tokens in front of the cursor, current_ included

vars == <<src_, lx, tokens>>

\* The characters that have a name here; both kinds of quote are one.
NUL == "\\0"
Space == "\\s"
Newline == "\n"
Quote == "\\q"
Backslash == "\\"
Blanks == {Space, Newline}
Digits == {"0", "1"}
HexDigits == Digits \cup {"a", "e"}
Lead == "lead"
Continuation == "continuation"

\* The characters that two-character operators begin with, and what follows.
Second ==
    [c \in {"-", "+", "*", "/", "%", "=", "<", ">", "&", "|", "!", "^", ":"} |->
        CASE c = "-"             -> {"=", ">", "-"}
          [] c \in {"+", "&", "|"} -> {"=", c}
          [] c \in {"<", ">"}      -> {"=", c}
          [] c = ":"             -> {":"}
          [] OTHER               -> {"="}]
Single == {";", "(", ")", "{", "}", ",", "~", "[", "]", "?", "@", "$", Backslash}

is_char_reserved(c) ==
    \/ c \in Blanks \cup Single \cup DOMAIN Second
    \/ c \in {NUL, "#", ".", "'", Quote}

-----------------------------------------------------------------------------
(* The cursor.                                                             *)

LexemeTypes == {"integer", "float", "hex", "word", "string", "character", "operator"}
TokenTypes == LexemeTypes \cup {"none", "illegal", "eof"}

\* The cursor with the token before it, "none" if there is none yet.
Cursor == [src_index_ : Nat, curr_line_ : Nat, exit : BOOLEAN,
           current_ : [type : TokenTypes, from : Nat, to : Nat, line : Nat]]

\* A loop of the lexer: its body, which leaves alone what the loop's condition
\* ends.  No loop takes more turns: each moves on by a character at least.
Loop(body, start) ==
    LET turn[n \in 0..(Len(src_) + 1)] ==
            IF n = 0 THEN start ELSE body[turn[n - 1]]
    IN turn[Len(src_) + 1]

CharAt(i) == IF i >= Len(src_) THEN NUL ELSE src_[i + 1]
current_char(l) == CharAt(l.src_index_)
peek_char(l, n) == CharAt(l.src_index_ + n)

advance_char(l, n) ==
    IF l.current_.type # "eof" /\ l.src_index_ < Len(src_)
    THEN [l EXCEPT !.src_index_ = @ + n] ELSE l
advance_line(l) == [l EXCEPT !.curr_line_ = @ + 1]

is_current_utf8_begin(l) == current_char(l) \in {Lead, Continuation}
\* The process ends at a sequence that is not valid or not complete.
skip_utf8_sequence(l) ==
    LET Checked(next) ==
            [next EXCEPT !.exit = \/ current_char(l) = Continuation
                                  \/ next.src_index_ > Len(src_)]
    IN Checked(IF current_char(l) = Lead THEN advance_char(l, 2) ELSE l)
skip_char(l) == IF is_current_utf8_begin(l) THEN skip_utf8_sequence(l)
                ELSE advance_char(l, 1)

\* The token from a position to the cursor.
Token(type, from, l) ==
    [l EXCEPT !.current_ = [type |-> type, from |-> from, to |-> l.src_index_,
                            line |-> @.line]]
EndOfFile(l) ==
    [l EXCEPT !.current_ = [type |-> "eof", from |-> l.src_index_,
                            to |-> l.src_index_, line |-> 1]]
NoToken(l) == [l EXCEPT !.current_.type = "none"]

-----------------------------------------------------------------------------
(* One function per kind of token.                                         *)

HexEnd(l) ==
    Loop([c \in Cursor |-> IF current_char(c) \in HexDigits THEN advance_char(c, 1)
                           ELSE c], l)
token_hex_literal(l) ==
    LET Literal(end) ==
            Token(IF end.src_index_ = l.src_index_ + 2 THEN "illegal" ELSE "hex",
                  l.src_index_, end)
    IN Literal(HexEnd(advance_char(l, 2)))

\* The loop over a number: the cursor and its three flags.
Number == [at : Cursor, passed_dot : BOOLEAN, within_exponent : BOOLEAN,
           ended : BOOLEAN, legal : BOOLEAN]
Ends(n, legal) == [n EXCEPT !.ended = TRUE, !.legal = legal]
Moves(n, amnt) == [n EXCEPT !.at = advance_char(@, amnt)]
NumberDot(n) ==
    IF peek_char(n.at, 1) = "." /\ peek_char(n.at, 2) = "." THEN Ends(n, TRUE)
    ELSE IF n.passed_dot \/ n.within_exponent THEN Ends(n, FALSE)
    ELSE [Moves(n, 1) EXCEPT !.passed_dot = TRUE]
NumberExponent(n) ==
    LET signed == peek_char(n.at, 1) \in {"+", "-"}
    IN IF n.within_exponent THEN Ends(n, FALSE)
       ELSE IF signed /\ peek_char(n.at, 2) \notin Digits
       THEN Ends(Moves(n, 1), FALSE)
       ELSE [Moves(n, IF signed THEN 2 ELSE 1) EXCEPT !.within_exponent = TRUE]
NumberTurn(n) ==
    IF n.ended THEN n
    ELSE CASE current_char(n.at) \in Digits -> Moves(n, 1)
           [] current_char(n.at) = "." -> NumberDot(n)
           [] current_char(n.at) = "e" -> NumberExponent(n)
           [] OTHER -> Ends(n, TRUE)
NumberEnd(l) ==
    Loop([n \in Number |-> NumberTurn(n)],
         [at |-> l, passed_dot |-> FALSE, within_exponent |-> FALSE,
          ended |-> FALSE, legal |-> TRUE])
token_numeric_literal(l) ==
    LET Type(n) ==
            CASE ~n.legal -> "illegal"
              [] CharAt(n.at.src_index_ - 1) \notin Digits -> "illegal"
              [] OTHER -> IF \A i \in l.src_index_..(n.at.src_index_ - 1) :
                                CharAt(i) \in Digits
                          THEN "integer" ELSE "float"
        Literal(n) == Token(Type(n), l.src_index_, n.at)
    IN Literal(NumberEnd(l))

WordEnd(l) ==
    Loop([c \in Cursor |-> IF c.exit \/ is_char_reserved(current_char(c)) THEN c
                           ELSE skip_char(c)], l)
\* A word that ends in a reserved character swallowed it as the second byte.
token_word(l) ==
    LET Word(end) ==
            IF end.exit THEN end
            ELSE Token(IF is_char_reserved(CharAt(end.src_index_ - 1))
                       THEN "illegal" ELSE "word", l.src_index_, end)
    IN Word(WordEnd(l))
infer_ambiguous_token(l) ==
    IF current_char(l) \notin Digits THEN token_word(l)
    ELSE IF current_char(l) = "0" /\ peek_char(l, 1) = "x" THEN token_hex_literal(l)
    ELSE token_numeric_literal(l)

\* Mutant: the character that doubles an operator is not compared.
token_operator_any_second(l) ==
    LET c    == current_char(l)
        next == peek_char(l, 1)
        size == IF c \in DOMAIN Second /\ next \in UNION {Second[d] : d \in DOMAIN Second}
                THEN 2 ELSE 1
    IN Token("operator", l.src_index_, advance_char(l, size))
\* The longest operator that begins with this character.
token_operator(l) ==
    LET c     == current_char(l)
        next  == peek_char(l, 1)
        two   == c \in DOMAIN Second /\ next \in Second[c]
        three == c \in {"<", ">"} /\ next = c /\ peek_char(l, 2) = "="
    IN Token("operator", l.src_index_,
             advance_char(l, IF three THEN 3 ELSE IF two THEN 2 ELSE 1))

token_dot(l) ==
    Token("operator", l.src_index_,
          advance_char(l, IF peek_char(l, 1) = "." /\ peek_char(l, 2) = "."
                          THEN 3 ELSE 1))

LineCommentEnd(l) ==
    Loop([c \in Cursor |-> IF c.exit \/ current_char(c) \in {NUL, Newline} THEN c
                           ELSE skip_char(c)], l)

\* Mutant: the end is looked for behind a star only.
AtBlockEnd_at_star(l) == current_char(l) = "*"
AtBlockEnd(l) == current_char(l) = "*" /\ peek_char(l, 1) = "/"
BlockCommentEnd(l) ==
    Loop([c \in Cursor |->
             IF c.exit \/ current_char(c) = NUL \/ AtBlockEnd(c) THEN c
             ELSE skip_char(IF current_char(c) = Newline THEN advance_line(c) ELSE c)],
         l)
token_fwdslash(l) ==
    LET Behind(end) == IF current_char(end) = NUL THEN end ELSE advance_char(end, 2)
        Block(end) == IF current_char(end) = NUL THEN EndOfFile(end) ELSE NoToken(end)
    IN CASE peek_char(l, 1) = "/" -> NoToken(LineCommentEnd(l))
         [] peek_char(l, 1) = "*" -> Block(Behind(BlockCommentEnd(l)))
         [] OTHER                 -> token_operator(l)

StringEnd(l) ==
    Loop([c \in Cursor |->
             IF c.exit \/ current_char(c) \in {NUL, Quote} THEN c
             ELSE IF current_char(c) = Backslash /\ peek_char(c, 1) = Quote
             THEN advance_char(c, 2) ELSE skip_char(c)], l)
token_quote(l) ==
    LET Closed(end) == IF current_char(end) = Quote
                       THEN Token("string", l.src_index_, advance_char(end, 1))
                       ELSE Token("illegal", l.src_index_, end)
    IN Closed(StringEnd(advance_char(l, 1)))

token_singlequote(l) ==
    LET from == l.src_index_
        Closed(end) ==
            IF current_char(end) = "'"
            THEN Token("character", from, advance_char(end, 1))
            ELSE Token("illegal", from, end)
        Escaped(s) == IF is_current_utf8_begin(s) THEN Token("illegal", from, s)
                      ELSE Closed(advance_char(s, 1))
        Char(s) ==
            CASE current_char(s) = Backslash -> Escaped(advance_char(s, 1))
              [] current_char(s) = "'" ->
                     Token("character", from, advance_char(s, 1))
              [] is_current_utf8_begin(s) -> Token("illegal", from, s)
              [] OTHER -> Closed(advance_char(s, 1))
    IN Char(advance_char(l, 1))

advance_impl(l) ==
    LET c == current_char(l)
    IN CASE c = Newline -> NoToken(advance_char(advance_line(l), 1))
         [] c \in Blanks \ {Newline} -> NoToken(advance_char(l, 1))
         [] c = "/" -> token_fwdslash(l)
         [] c = "'" -> token_singlequote(l)
         [] c = Quote -> token_quote(l)
         [] c = "." -> token_dot(l)
         [] c = NUL -> EndOfFile(l)
         [] c = "#" -> Token("illegal", l.src_index_, advance_char(l, 1))
         [] c \in Single \cup (DOMAIN Second \ {"/"}) -> token_operator(l)
         [] OTHER -> infer_ambiguous_token(l)

NextToken(l) ==
    LET Lined(next) == [next EXCEPT !.current_.line = next.curr_line_]
    IN Lined(Loop([c \in Cursor |-> IF c.current_.type = "none" /\ ~c.exit
                                    THEN advance_impl(c) ELSE c], advance_impl(l)))
advance1(l) == IF l.src_index_ >= Len(src_) THEN EndOfFile(l) ELSE NextToken(l)
\* The loop of advance does not test for the end again, _advance_impl does.
advance(l, amnt) ==
    IF amnt = 1 \/ l.src_index_ >= Len(src_) THEN advance1(l)
    ELSE LET Twice(next) == IF next.exit THEN next ELSE NextToken(next)
         IN Twice(advance1(l))

current(l) == IF l.current_.type = "none" THEN advance(l, 1) ELSE l

\* Mutant: the line is not put back.
peek_moves_line(l, amnt) ==
    LET start  == current(l)
        peeked == IF start.exit THEN start ELSE advance(start, amnt)
    IN [peeked EXCEPT !.src_index_ = start.src_index_,
                      !.current_ = start.current_]
\* The cursor moves on to the token it shows and is put back.
peek(l, amnt) ==
    LET start  == current(l)
        peeked == IF start.exit THEN start ELSE advance(start, amnt)
    IN [peeked EXCEPT !.curr_line_ = start.curr_line_,
                      !.src_index_ = start.src_index_,
                      !.current_ = start.current_]

-----------------------------------------------------------------------------
Init ==
    /\ \E a \in Alphabets : src_ \in BoundedSeq(a, MaxLength) \ {<<>>}
    /\ lx = [src_index_ |-> 0, curr_line_ |-> 1, exit |-> FALSE,
             current_ |-> [type |-> "none", from |-> 0, to |-> 0, line |-> 1]]
    /\ tokens = <<>>

\* The token at the cursor is one more, unless the file has ended before it.
MoveTo(l) ==
    /\ lx' = l
    /\ tokens' = IF l.exit \/ (tokens # <<>> /\ l.current_.type = "eof"
                                            /\ Last(tokens).type = "eof")
                 THEN tokens ELSE Append(tokens, l.current_)

Advance == ~lx.exit /\ MoveTo(advance(lx, 1))

Peek(amnt) ==
    /\ ~lx.exit
    /\ IF lx.current_.type = "none" THEN MoveTo(peek(lx, amnt))
       ELSE lx' = peek(lx, amnt) /\ UNCHANGED tokens
    /\ UNCHANGED src_

\* The postparser sets the cursor back to the name of a generic procedure.
Reparse ==
    /\ ~lx.exit
    /\ \E i \in DOMAIN tokens :
           /\ tokens[i].type = "word"
           /\ lx' = [lx EXCEPT !.src_index_ = tokens[i].from,
                               !.curr_line_ = tokens[i].line,
                               !.current_ = [type |-> "none", from |-> tokens[i].from,
                                             to |-> tokens[i].from,
                                             line |-> tokens[i].line]]
           /\ tokens' = SubSeq(tokens, 1, i - 1)
    /\ UNCHANGED src_

Exited == lx.exit /\ UNCHANGED vars

Next ==
    \/ Advance /\ UNCHANGED src_
    \/ \E amnt \in 1..2 : Peek(amnt)
    \/ Reparse
    \/ Exited

Spec == Init /\ [][Next]_vars

-----------------------------------------------------------------------------
(* What a token is, without a cursor: what there is from one position up   *)
(* to another.                                                             *)

\* A first byte has its second byte behind it.  Behind any other first byte the
\* lexer overlooks a character, whatever it is.
WellEncoded ==
    \A p \in 0..(Len(src_) - 2) : CharAt(p) = Lead => CharAt(p + 1) = Continuation

Chars(from, to) == {CharAt(p) : p \in from..(to - 1)}

Numeral(from, to) == from < to /\ Chars(from, to) \subseteq Digits
Mantissa(from, to) ==
    \/ Numeral(from, to)
    \/ \E d \in from..(to - 1) : /\ CharAt(d) = "."
                                 /\ Numeral(from, d)
                                 /\ Chars(d + 1, to) \subseteq Digits
Float(from, to) ==
    \/ Mantissa(from, to)
    \/ \E e \in from..(to - 1) :
           /\ CharAt(e) = "e"
           /\ Mantissa(from, e)
           /\ \/ Numeral(e + 1, to)
              \/ CharAt(e + 1) \in {"+", "-"} /\ Numeral(e + 2, to)
Hex(from, to) ==
    /\ from + 2 < to
    /\ CharAt(from) = "0" /\ CharAt(from + 1) = "x"
    /\ Chars(from + 2, to) \subseteq HexDigits

Word(from, to) ==
    /\ from < to /\ CharAt(from) \notin Digits
    /\ \A p \in from..(to - 1) :
           /\ ~is_char_reserved(CharAt(p))
           /\ CharAt(p) = Lead => p + 1 < to
           /\ CharAt(p) = Continuation => p > from /\ CharAt(p - 1) = Lead

\* Each quote inside has a backslash before it.
String(from, to) ==
    /\ from + 2 <= to
    /\ CharAt(from) = Quote /\ CharAt(to - 1) = Quote
    /\ CharAt(to - 2) # Backslash
    /\ \A p \in (from + 1)..(to - 2) :
           CharAt(p) # NUL /\ (CharAt(p) = Quote => CharAt(p - 1) = Backslash)
Character(from, to) ==
    /\ to \in (from + 2)..(from + 4)
    /\ CharAt(from) = "'" /\ CharAt(to - 1) = "'"
    /\ to = from + 3 => CharAt(from + 1) \notin {"'", Backslash}
    /\ to = from + 4 => CharAt(from + 1) = Backslash
    /\ Chars(from, to) \cap {Lead, Continuation} = {}

Operators ==
    {<<c>> : c \in Single \cup DOMAIN Second \cup {"."}}
        \cup {<<c, "=">> : c \in DOMAIN Second \ {":"}}
        \cup {<<c, c>> : c \in {"-", "+", "<", ">", "&", "|", "=", ":"}}
        \cup {<<"-", ">">>, <<"<", "<", "=">>, <<">", ">", "=">>, <<".", ".", ".">>}
Operator(from, to) ==
    /\ to \in (from + 1)..(from + 3)
    /\ [i \in 1..(to - from) |-> CharAt(from + i - 1)] \in Operators

Lexeme(type, from, to) ==
    CASE type = "integer"   -> Numeral(from, to)
      [] type = "float"     -> /\ Float(from, to) /\ ~Numeral(from, to)
                               /\ CharAt(to - 1) \in Digits
      [] type = "hex"       -> Hex(from, to)
      [] type = "word"      -> Word(from, to)
      [] type = "string"    -> String(from, to)
      [] type = "character" -> Character(from, to)
      [] type = "operator"  -> Operator(from, to)

\* The ends of the tokens that could begin at a position, and the last of them.
LexemeEnds(from) ==
    {to \in (from + 1)..Len(src_) : \E type \in LexemeTypes : Lexeme(type, from, to)}
LongestEnd(from, to) ==
    to \in LexemeEnds(from) /\ \A end \in LexemeEnds(from) : end <= to

LineComment(from, to) ==
    /\ from + 2 <= to
    /\ CharAt(from) = "/" /\ CharAt(from + 1) = "/"
    /\ Newline \notin Chars(from, to)
    /\ CharAt(to) \in {NUL, Newline}
OpenComment(from, to) ==
    /\ from + 2 <= to
    /\ CharAt(from) = "/" /\ CharAt(from + 1) = "*"
    /\ \A p \in (from + 1)..(to - 2) : ~(CharAt(p) = "*" /\ CharAt(p + 1) = "/")
BlockComment(from, to) ==
    /\ from + 3 <= to
    /\ OpenComment(from, to - 1)
    /\ CharAt(to - 2) = "*" /\ CharAt(to - 1) = "/"
Piece(from, to) ==
    \/ to = from + 1 /\ CharAt(from) \in Blanks
    \/ LineComment(from, to)
    \/ BlockComment(from, to)

\* Blanks and comments lead from one position to another: the second is in every
\* set that has the first and the end of each blank and comment that begins in it.
Blank(from, to) ==
    /\ from <= to
    /\ \A S \in SUBSET (from..to) :
           /\ from \in S
           /\ \A a \in S, b \in from..to : Piece(a, b) => b \in S
           => to \in S

-----------------------------------------------------------------------------
(* Properties.                                                             *)

\* A token is the longest that begins where it does, and has its type.  A character
\* or number is only illegal where no token begins, or where a number goes on in a
\* way that no number does.
LongestToken(t) ==
    CASE t.type = "eof" -> TRUE
      [] t.type = "illegal" ->
             \/ LexemeEnds(t.from) = {}
             \/ /\ CharAt(t.from) \in Digits
                /\ \E to \in LexemeEnds(t.from) :
                       LongestEnd(t.from, to) /\ CharAt(to) \in {".", "e", "x"}
      [] OTHER -> Lexeme(t.type, t.from, t.to) /\ LongestEnd(t.from, t.to)

\* Each token is the longest of the text, no matter how the cursor came there, by
\* looking ahead or by being set back.
TokensAreLongest ==
    WellEncoded => \A i \in DOMAIN tokens : LongestToken(tokens[i])

\* Between two tokens there are only blanks and comments, also when the cursor
\* was set back to the first: nothing of the source is lost, and the file ends
\* at its end, at a NUL or in a comment that is not closed.
NothingIsSkipped ==
    WellEncoded =>
        \A i \in DOMAIN tokens :
            LET before == IF i = 1 THEN 0 ELSE tokens[i - 1].to
                from   == tokens[i].from
            IN IF tokens[i].type # "eof" THEN Blank(before, from)
               ELSE /\ CharAt(from) = NUL
                    /\ \E b \in before..from :
                           Blank(before, b) /\ (b = from \/ OpenComment(b, from))

\* The line of a token is the number of line breaks before it, those in literals
\* not counted, which the lexer does not look for.  (A file that was at its end
\* before gives an end of file in line 1.)
LineBreaks(from, to) == {p \in from..(to - 1) : CharAt(p) = Newline}
InToken(p, i) == p \in tokens[i].from..(tokens[i].to - 1)
LinesAreCounted ==
    WellEncoded =>
        \A i \in DOMAIN tokens :
            LET before == {p \in LineBreaks(0, tokens[i].from) :
                              \A k \in 1..(i - 1) : ~InToken(p, k)}
            IN tokens[i].type = "eof" \/ tokens[i].line = 1 + Cardinality(before)
=============================================================================
