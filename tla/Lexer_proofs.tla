---------------------------- MODULE Lexer_proofs ----------------------------
(***************************************************************************)
(* Proofs about the lexer, for texts of any length over any characters.    *)
(*                                                                         *)
(* Each loop of a token function is shown to end and to keep what has been *)
(* read to one shape; so each turn of advance finds a blank, a comment or  *)
(* a token, and the tokens in front of the cursor are those of the text.   *)
(***************************************************************************)
EXTENDS Lexer, FiniteSetTheorems, SequenceTheorems, WellFoundedInduction, TLAPS

-----------------------------------------------------------------------------
(* Loops *)

LEMMA Smallest ==
    ASSUME NEW S \in SUBSET Nat, S # {}
    PROVE  \E i \in S : \A j \in S : i <= j
<1> DEFINE R == {p \in Nat \X Nat : p[1] < p[2]}
<1>1. OpToRel(<, Nat) = R
  BY DEF OpToRel
<1>2. IsWellFoundedOn(R, Nat)
  BY <1>1, NatLessThanWellFounded, Zenon
<1> HIDE DEF R
<1>3. PICK i \in S : \A j \in S : <<j, i>> \notin R
  BY <1>2, WFMin, Zenon
<1>4. \A j \in S : i <= j
  <2> TAKE j \in S
  <2>1. i \in Nat /\ j \in Nat /\ <<j, i>> \notin R
    BY <1>3
  <2> QED
    BY <2>1 DEF R
<1> QED
  BY <1>4

\* f is where a loop is after each of n turns.
IsAfter(f, body, a, n) ==
    f = [k \in 0..n |-> IF k = 0 THEN a ELSE body[f[k - 1]]]

LEMMA OneMoreStep ==
    ASSUME NEW m \in Nat \ {0}, NEW a, NEW body, NEW g, IsAfter(g, body, a, m - 1)
    PROVE  \E h : IsAfter(h, body, a, m)
<1> DEFINE h == [k \in 0..m |-> IF k = m THEN body[g[m - 1]] ELSE g[k]]
<1>1. \A k \in 0..m : h[k] = IF k = 0 THEN a ELSE body[h[k - 1]]
  <2> TAKE k \in 0..m
  <2>1. CASE k = m
    BY <2>1
  <2>2. CASE k # m
    <3>1. k \in 0..(m - 1) /\ h[k] = g[k]
      BY <2>2
    <3>2. g[k] = IF k = 0 THEN a ELSE body[g[k - 1]]
      BY <3>1 DEF IsAfter
    <3>3. k # 0 => h[k - 1] = g[k - 1]
      BY <3>1
    <3> QED
      BY <3>1, <3>2, <3>3
  <2> QED
    BY <2>1, <2>2
<1>2. h = [k \in 0..m |-> h[k]]
  OBVIOUS
<1> HIDE DEF h
<1>3. IsAfter(h, body, a, m)
  BY <1>1, <1>2 DEF IsAfter
<1> QED
  BY <1>3

LEMMA StepsExist ==
    ASSUME NEW n \in Nat, NEW a, NEW body
    PROVE  \E f : IsAfter(f, body, a, n)
<1> DEFINE Missing == {m \in Nat : \A f : ~IsAfter(f, body, a, m)}
<1>1. SUFFICES ASSUME Missing # {} PROVE FALSE
  OBVIOUS
<1>2. PICK m \in Missing : \A j \in Missing : m <= j
  BY <1>1, Smallest
<1>3. m # 0
  <2>1. IsAfter([k \in 0..0 |-> a], body, a, 0)
    BY DEF IsAfter
  <2> QED
    BY <2>1
<1>4. m \in Nat \ {0} /\ m - 1 \in Nat /\ m - 1 \notin Missing
  <2>1. m \in Nat
    BY <1>2
  <2> HIDE DEF Missing
  <2> QED
    BY <2>1, <1>2, <1>3
<1>5. PICK g : IsAfter(g, body, a, m - 1)
  BY <1>4
<1>6. \E h : IsAfter(h, body, a, m)
  BY <1>4, <1>5, OneMoreStep, Zenon
<1> QED
  BY <1>2, <1>6

\* What holds at first and is kept by each turn holds after all of them.
LEMMA StepsKeep ==
    ASSUME NEW n \in Nat, NEW Holds \in SUBSET (0..n), 0 \in Holds,
           \A k \in 1..n : k - 1 \in Holds => k \in Holds
    PROVE  Holds = 0..n
<1> DEFINE Left == (0..n) \ Holds
<1>1. SUFFICES ASSUME Left # {} PROVE FALSE
  OBVIOUS
<1>2. Left \in SUBSET Nat
  OBVIOUS
<1>3. PICK m \in Left : \A j \in Left : m <= j
  BY <1>1, <1>2, Smallest
<1>4. m \in 1..n /\ m - 1 \in 0..n
  BY <1>3
<1>5. m - 1 \in Holds
  BY <1>3, <1>4
<1> QED
  BY <1>3, <1>4, <1>5

\* A turn of the loop stays in S.
Keeps(body, S) == \A x \in S : body[x] \in S

\* Each turn has reached the end, reaches it, or leads on in a text of n.
LeadsOn(body, S, size, n) ==
    \A x \in S :
        /\ body[x] = x \/ body[body[x]] = body[x] \/ size[body[x]] > size[x]
        /\ body[x] # x => size[x] <= n

LEMMA LoopKeeps ==
    ASSUME Len(src_) \in Nat, NEW body, NEW S, NEW start \in S, Keeps(body, S)
    PROVE  Loop(body, start) \in S
<1> DEFINE n == Len(src_) + 1
           turn == CHOOSE f : IsAfter(f, body, start, n)
<1>1. n \in Nat
  OBVIOUS
<1>2. \E f : IsAfter(f, body, start, n)
  BY <1>1, StepsExist
<1>3. IsAfter(turn, body, start, n)
  BY <1>2
<1>4. Loop(body, start) = turn[n]
  BY DEF Loop, IsAfter
<1> HIDE DEF turn, n
<1>5. /\ turn[0] \in S
      /\ \A k \in 1..n : turn[k - 1] \in S => turn[k] \in S
  BY <1>1, <1>3 DEF IsAfter, Keeps
<1> DEFINE In == {k \in 0..n : turn[k] \in S}
<1>6. In = 0..n
  <2>1. In \in SUBSET (0..n) /\ 0 \in In
    BY <1>1, <1>5
  <2>2. \A k \in 1..n : k - 1 \in In => k \in In
    BY <1>1, <1>5
  <2> HIDE DEF In
  <2> QED
    BY <1>1, <2>1, <2>2, StepsKeep
<1> QED
  BY <1>1, <1>4, <1>6

LEMMA LoopEnds ==
    ASSUME Len(src_) \in Nat, NEW body, NEW S, NEW start \in S, Keeps(body, S),
           NEW size \in [S -> Nat], LeadsOn(body, S, size, Len(src_))
    PROVE  /\ Loop(body, start) \in S
           /\ body[Loop(body, start)] = Loop(body, start)
<1> DEFINE n == Len(src_) + 1
           turn == CHOOSE f : IsAfter(f, body, start, n)
<1>1. n \in Nat
  OBVIOUS
<1>2. \E f : IsAfter(f, body, start, n)
  BY <1>1, StepsExist
<1>3. IsAfter(turn, body, start, n)
  BY <1>2
<1>4. Loop(body, start) = turn[n]
  BY DEF Loop, IsAfter
<1> HIDE DEF turn
<1> DEFINE Over(x) == body[x] = x
           In == {k \in 0..n : /\ turn[k] \in S
                               /\ Over(turn[k]) \/ size[turn[k]] >= k}
<1>5. /\ turn[0] = start
      /\ \A k \in 1..n : turn[k] = body[turn[k - 1]]
  <2> HIDE DEF n
  <2> QED
    BY <1>1, <1>3 DEF IsAfter
<1>6. In = 0..n
  <2>1. In \in SUBSET (0..n) /\ 0 \in In
    BY <1>1, <1>5
  <2>2. ASSUME NEW k \in 1..n, k - 1 \in In PROVE k \in In
    <3>1. turn[k - 1] \in S /\ turn[k] = body[turn[k - 1]] /\ k \in 0..n
      BY <1>5, <2>2
    <3>2. turn[k] \in S
      BY <3>1 DEF Keeps
    <3>3. CASE Over(turn[k - 1])
      BY <3>1, <3>2, <3>3
    <3>4. CASE body[turn[k]] = turn[k]
      BY <3>1, <3>2, <3>4
    <3>5. CASE size[turn[k]] > size[turn[k - 1]] /\ ~Over(turn[k - 1])
      <4>1. size[turn[k - 1]] >= k - 1
        BY <2>2, <3>5
      <4>2. size[turn[k - 1]] \in Nat /\ size[turn[k]] \in Nat
        BY <3>1, <3>2
      <4>3. size[turn[k]] >= k
        BY <3>5, <4>1, <4>2
      <4> QED
        BY <3>1, <3>2, <4>3
    <3> QED
      BY <3>1, <3>3, <3>4, <3>5 DEF LeadsOn
  <2> HIDE DEF In
  <2> QED
    BY <1>1, <2>1, <2>2, StepsKeep
<1>7. turn[n] \in S /\ (Over(turn[n]) \/ size[turn[n]] >= n)
  BY <1>1, <1>6
<1>8. ~Over(turn[n]) => size[turn[n]] <= Len(src_)
  BY <1>7 DEF LeadsOn
<1>9. size[turn[n]] \in Nat
  BY <1>7
<1> QED
  BY <1>4, <1>7, <1>8, <1>9

-----------------------------------------------------------------------------
(* The cursor *)

\* The texts the theorems are about.
Readable == Len(src_) \in Nat /\ WellEncoded

LEMMA EndOfText ==
    ASSUME Len(src_) \in Nat
    PROVE  /\ \A p \in Nat : p >= Len(src_) => CharAt(p) = NUL
           /\ \A p \in Nat : CharAt(p) # NUL => p < Len(src_)
  BY DEF CharAt

\* Places in a cursor that a move of it keeps.
SameButPlace(c, l) ==
    /\ c \in Cursor
    /\ c.curr_line_ = l.curr_line_
    /\ c.current_ = l.current_
    /\ c.src_index_ >= l.src_index_

LEMMA AdvanceChar ==
    ASSUME Len(src_) \in Nat, NEW l \in Cursor, NEW k \in Nat
    PROVE  /\ SameButPlace(advance_char(l, k), l)
           /\ advance_char(l, k).exit = l.exit
           /\ l.current_.type # "eof" /\ l.src_index_ < Len(src_) =>
                  advance_char(l, k).src_index_ = l.src_index_ + k
           /\ l.src_index_ >= Len(src_) => advance_char(l, k) = l
<1>1. l.src_index_ \in Nat
  BY DEF Cursor
<1>2. CASE l.current_.type # "eof" /\ l.src_index_ < Len(src_)
  <2>1. advance_char(l, k) = [l EXCEPT !.src_index_ = @ + k]
    BY <1>2 DEF advance_char
  <2>2. /\ [l EXCEPT !.src_index_ = @ + k] \in Cursor
        /\ [l EXCEPT !.src_index_ = @ + k].src_index_ = l.src_index_ + k
        /\ [l EXCEPT !.src_index_ = @ + k].curr_line_ = l.curr_line_
        /\ [l EXCEPT !.src_index_ = @ + k].current_ = l.current_
        /\ [l EXCEPT !.src_index_ = @ + k].exit = l.exit
    BY DEF Cursor
  <2>3. l.src_index_ + k >= l.src_index_
    BY <1>1
  <2>4. ~(l.src_index_ >= Len(src_))
    BY <1>1, <1>2
  <2> QED
    BY <2>1, <2>2, <2>3, <2>4 DEF SameButPlace
<1>3. CASE ~(l.current_.type # "eof" /\ l.src_index_ < Len(src_))
  <2>1. advance_char(l, k) = l
    BY <1>3 DEF advance_char
  <2>2. l.src_index_ >= l.src_index_
    BY <1>1
  <2> QED
    BY <1>3, <2>1, <2>2 DEF SameButPlace
<1> QED
  BY <1>2, <1>3

\* What a character is skipped as: one byte, or a first byte and its second.
LEMMA SkipChar ==
    ASSUME Readable, NEW c \in Cursor, ~c.exit, c.src_index_ < Len(src_),
           c.current_.type # "eof"
    PROVE  LET s == skip_char(c)
               p == c.src_index_
           IN /\ SameButPlace(s, c)
              /\ ~s.exit =>
                   \/ /\ CharAt(p) \notin {Lead, Continuation}
                      /\ s.src_index_ = p + 1
                   \/ /\ CharAt(p) = Lead /\ CharAt(p + 1) = Continuation
                      /\ s.src_index_ = p + 2 /\ p + 2 <= Len(src_)
<1> DEFINE p == c.src_index_
<1>1. p \in Nat /\ Len(src_) \in Nat
  BY DEF Cursor, Readable
<1>2. CASE CharAt(p) \notin {Lead, Continuation}
  <2>1. skip_char(c) = advance_char(c, 1)
    BY <1>2 DEF skip_char, is_current_utf8_begin, current_char
  <2> QED
    BY <1>1, <1>2, <2>1, AdvanceChar
<1>3. CASE CharAt(p) \in {Lead, Continuation}
  <2> DEFINE next == IF CharAt(p) = Lead THEN advance_char(c, 2) ELSE c
             out  == CharAt(p) = Continuation \/ next.src_index_ > Len(src_)
  <2>1. skip_char(c) = [next EXCEPT !.exit = out]
    BY <1>3 DEF skip_char, is_current_utf8_begin, current_char, skip_utf8_sequence
  <2>2. /\ SameButPlace(next, c)
        /\ CharAt(p) = Lead => next.src_index_ = p + 2
    <3>1. /\ SameButPlace(advance_char(c, 2), c)
          /\ advance_char(c, 2).src_index_ = p + 2
      <4>1. 2 \in Nat
        OBVIOUS
      <4> QED
        BY <1>1, <4>1, AdvanceChar
    <3>2. SameButPlace(c, c)
      BY <1>1 DEF SameButPlace
    <3> QED
      BY <3>1, <3>2
  <2>3. CharAt(p) = Lead /\ ~out => p + 2 <= Len(src_)
    <3> HIDE DEF next
    <3> QED
      BY <1>1, <2>2
  <2>4. CharAt(p) = Lead /\ ~out => CharAt(p + 1) = Continuation
    <3>1. CharAt(p) = Lead /\ ~out => p \in 0..(Len(src_) - 2)
      BY <1>1, <2>3
    <3> HIDE DEF p, out
    <3> QED
      BY <3>1 DEF Readable, WellEncoded
  <2>5. out \in BOOLEAN
    OBVIOUS
  <2> HIDE DEF next, out
  <2>6. /\ [next EXCEPT !.exit = out] \in Cursor
        /\ [next EXCEPT !.exit = out].exit = out
        /\ [next EXCEPT !.exit = out].src_index_ = next.src_index_
        /\ [next EXCEPT !.exit = out].current_ = next.current_
        /\ [next EXCEPT !.exit = out].curr_line_ = next.curr_line_
    BY <2>2, <2>5 DEF Cursor, SameButPlace
  <2>7. SameButPlace(skip_char(c), c)
    BY <2>1, <2>2, <2>6 DEF SameButPlace
  <2>8. CharAt(p) = Continuation => out
    BY DEF out
  <2> QED
    BY <1>3, <2>1, <2>2, <2>3, <2>4, <2>6, <2>7, <2>8
<1> QED
  BY <1>2, <1>3

\* The loops on the cursor: each turn moves it on or ends the process.
MovesOn(body, S) ==
    /\ S \subseteq Cursor
    /\ \A c \in S :
           /\ c.exit => body[c] = c
           /\ c.exit \/ c.src_index_ <= Len(src_)
           /\ body[c] = c \/ body[c].exit \/ body[c].src_index_ > c.src_index_

LEMMA CursorLoop ==
    ASSUME Len(src_) \in Nat, NEW body, NEW S, NEW start \in S, Keeps(body, S),
           MovesOn(body, S)
    PROVE  /\ Loop(body, start) \in S
           /\ body[Loop(body, start)] = Loop(body, start)
<1> DEFINE size == [c \in S |-> c.src_index_]
<1>1. \A c \in S : c.src_index_ \in Nat
  BY DEF MovesOn, Cursor
<1>2. size \in [S -> Nat]
  BY <1>1
<1>3. \A c \in S : body[c] \in S
  BY DEF Keeps
<1>4. LeadsOn(body, S, size, Len(src_))
  <2> SUFFICES ASSUME NEW c \in S
               PROVE  /\ body[c] = c \/ body[body[c]] = body[c]
                             \/ size[body[c]] > size[c]
                      /\ body[c] # c => size[c] <= Len(src_)
    BY Zenon DEF LeadsOn
  <2>1. body[c] \in S /\ size[c] = c.src_index_ /\ size[body[c]] = body[c].src_index_
    BY <1>3
  <2>2. body[c].exit => body[body[c]] = body[c]
    BY <2>1 DEF MovesOn
  <2>3. body[c] # c => c.src_index_ <= Len(src_)
    BY DEF MovesOn
  <2> HIDE DEF size
  <2> QED
    BY <2>1, <2>2, <2>3 DEF MovesOn
<1> HIDE DEF size
<1> QED
  BY <1>2, <1>4, LoopEnds

\* A loop that looks for an end: each turn moves the cursor on, to the end of the
\* text at most, or ends the process.
Scans(body, S, Done) ==
    /\ S \subseteq Cursor
    /\ \A c \in S :
           IF c.exit \/ c \in Done THEN body[c] = c
           ELSE /\ c.src_index_ <= Len(src_)
                /\ body[c] \in S
                /\ \/ body[c].exit \/ body[c] \in Done
                   \/ body[c].src_index_ > c.src_index_

LEMMA ScanEnds ==
    ASSUME Len(src_) \in Nat, NEW body, NEW S, NEW start \in S, NEW Done,
           Scans(body, S, Done)
    PROVE  /\ Loop(body, start) \in S
           /\ Loop(body, start).exit \/ Loop(body, start) \in Done
<1>1. Keeps(body, S)
  BY DEF Keeps, Scans
<1> DEFINE size == [c \in S |-> c.src_index_]
<1>2. \A c \in S : c.src_index_ \in Nat
  BY DEF Scans, Cursor
<1>3. size \in [S -> Nat]
  BY <1>2
<1>4. LeadsOn(body, S, size, Len(src_))
  <2> SUFFICES ASSUME NEW c \in S
               PROVE  /\ body[c] = c \/ body[body[c]] = body[c]
                             \/ size[body[c]] > size[c]
                      /\ body[c] # c => size[c] <= Len(src_)
    BY Zenon DEF LeadsOn
  <2>1. body[c] \in S /\ size[c] = c.src_index_ /\ size[body[c]] = body[c].src_index_
    BY <1>1 DEF Keeps
  <2>2. body[c].exit \/ body[c] \in Done => body[body[c]] = body[c]
    BY <2>1 DEF Scans
  <2> HIDE DEF size
  <2> QED
    BY <2>1, <2>2 DEF Scans
<1> HIDE DEF size
<1> DEFINE c == Loop(body, start)
<1>5. c \in S /\ body[c] = c
  BY <1>1, <1>3, <1>4, LoopEnds
<1> HIDE DEF c
<1>6. c.exit \/ c \in Done
  BY <1>2, <1>5 DEF Scans
<1> QED
  BY <1>5, <1>6 DEF c

-----------------------------------------------------------------------------
(* What one turn of advance finds *)

Ready(l) ==
    /\ l \in Cursor /\ ~l.exit /\ l.src_index_ <= Len(src_)
    /\ l.current_.type = "eof" => CharAt(l.src_index_) = NUL

Lines(from, to) == Cardinality(LineBreaks(from, to))

PassesOver(l, r) ==
    /\ r.current_.type = "none"
    /\ l.src_index_ < r.src_index_
    /\ Piece(l.src_index_, r.src_index_)
    /\ r.curr_line_ = l.curr_line_ + Lines(l.src_index_, r.src_index_)
EndsAt(l, r) ==
    /\ r.current_.type = "eof"
    /\ r.current_.from = r.src_index_ /\ r.current_.to = r.src_index_
    /\ CharAt(r.src_index_) = NUL
    /\ l.src_index_ <= r.src_index_
    /\ \/ r.src_index_ = l.src_index_
       \/ OpenComment(l.src_index_, r.src_index_)
       \/ l.src_index_ < r.src_index_ /\ Piece(l.src_index_, r.src_index_)
Reads(l, r) ==
    /\ r.current_.type \notin {"none", "eof"}
    /\ r.current_.from = l.src_index_ /\ r.current_.to = r.src_index_
    /\ l.src_index_ < r.src_index_
    /\ r.curr_line_ = l.curr_line_
    /\ LongestToken(r.current_)
Found(l, r) ==
    /\ r \in Cursor
    /\ r.exit \/ /\ r.src_index_ <= Len(src_)
                 /\ PassesOver(l, r) \/ EndsAt(l, r) \/ Reads(l, r)

LEMMA LinesAreFinite ==
    ASSUME NEW from \in Nat, NEW to \in Nat
    PROVE  /\ IsFiniteSet(LineBreaks(from, to))
           /\ Lines(from, to) \in Nat
<1>1. IsFiniteSet(from..(to - 1))
  BY FS_Interval
<1>2. LineBreaks(from, to) \subseteq from..(to - 1)
  BY DEF LineBreaks
<1>3. IsFiniteSet(LineBreaks(from, to))
  BY <1>1, <1>2, FS_Subset
<1> QED
  BY <1>3, FS_CardinalityType DEF Lines

LEMMA LinesAddUp ==
    ASSUME NEW a \in Nat, NEW b \in Nat, NEW c \in Nat, a <= b, b <= c
    PROVE  Lines(a, c) = Lines(a, b) + Lines(b, c)
<1>1. /\ LineBreaks(a, c) = LineBreaks(a, b) \cup LineBreaks(b, c)
      /\ LineBreaks(a, b) \cap LineBreaks(b, c) = {}
  BY DEF LineBreaks
<1>2. IsFiniteSet(LineBreaks(a, b)) /\ IsFiniteSet(LineBreaks(b, c))
  BY LinesAreFinite
<1>3. Cardinality(LineBreaks(a, b) \cup LineBreaks(b, c)) =
          Cardinality(LineBreaks(a, b)) + Cardinality(LineBreaks(b, c))
             - Cardinality(LineBreaks(a, b) \cap LineBreaks(b, c))
  BY <1>2, FS_Union
<1>4. /\ Cardinality(LineBreaks(a, b)) \in Nat
      /\ Cardinality(LineBreaks(b, c)) \in Nat
  BY <1>2, FS_CardinalityType
<1>5. Cardinality(LineBreaks(a, b) \cap LineBreaks(b, c)) = 0
  BY <1>1, FS_EmptySet
<1> QED
  BY <1>1, <1>3, <1>4, <1>5 DEF Lines

LEMMA LinesOfNone ==
    ASSUME NEW a \in Nat, NEW b \in Nat, Newline \notin Chars(a, b)
    PROVE  Lines(a, b) = 0
<1>1. LineBreaks(a, b) = {}
  BY DEF LineBreaks, Chars
<1> QED
  BY <1>1, FS_EmptySet DEF Lines

LEMMA LinesOfOne ==
    ASSUME NEW a \in Nat
    PROVE  Lines(a, a + 1) = IF CharAt(a) = Newline THEN 1 ELSE 0
<1>1. LineBreaks(a, a + 1) = IF CharAt(a) = Newline THEN {a} ELSE {}
  BY DEF LineBreaks
<1>2. Cardinality({a}) = 1 /\ Cardinality({}) = 0
  BY FS_Singleton, FS_EmptySet
<1> QED
  BY <1>1, <1>2 DEF Lines

\* The fields of a cursor with a new token.
LEMMA TokenFields ==
    ASSUME NEW l \in Cursor, NEW from \in Nat, NEW type \in TokenTypes
    PROVE  LET r == Token(type, from, l)
           IN /\ r \in Cursor
              /\ r.src_index_ = l.src_index_ /\ r.curr_line_ = l.curr_line_
              /\ r.exit = l.exit
              /\ r.current_.type = type
              /\ r.current_.from = from /\ r.current_.to = l.src_index_
  BY DEF Token, Cursor

LEMMA EndFields ==
    ASSUME NEW l \in Cursor
    PROVE  LET r == EndOfFile(l)
           IN /\ r \in Cursor
              /\ r.src_index_ = l.src_index_ /\ r.curr_line_ = l.curr_line_
              /\ r.exit = l.exit
              /\ r.current_.type = "eof"
              /\ r.current_.from = l.src_index_ /\ r.current_.to = l.src_index_
<1> DEFINE t == [type |-> "eof", from |-> l.src_index_, to |-> l.src_index_,
                 line |-> 1]
<1>1. /\ t \in [type : TokenTypes, from : Nat, to : Nat, line : Nat]
      /\ t.type = "eof" /\ t.from = l.src_index_ /\ t.to = l.src_index_
  BY DEF Cursor, TokenTypes
<1>2. EndOfFile(l) = [l EXCEPT !.current_ = t]
  BY DEF EndOfFile
<1> HIDE DEF t
<1> QED
  BY <1>1, <1>2 DEF Cursor

LEMMA NoTokenFields ==
    ASSUME NEW l \in Cursor
    PROVE  LET r == NoToken(l)
           IN /\ r \in Cursor
              /\ r.src_index_ = l.src_index_ /\ r.curr_line_ = l.curr_line_
              /\ r.exit = l.exit
              /\ r.current_.type = "none"
<1> DEFINE t == [l.current_ EXCEPT !.type = "none"]
<1>1. l.current_ \in [type : TokenTypes, from : Nat, to : Nat, line : Nat]
  BY DEF Cursor
<1>2. /\ t \in [type : TokenTypes, from : Nat, to : Nat, line : Nat]
      /\ t.type = "none"
  BY <1>1 DEF TokenTypes
<1>3. NoToken(l) = [l EXCEPT !.current_ = t]
  BY DEF NoToken
<1> HIDE DEF t
<1> QED
  BY <1>2, <1>3 DEF Cursor

\* A character is read: nothing else is passed over with it.
LEMMA SkipTurn ==
    ASSUME Readable, NEW c \in Cursor, ~c.exit, CharAt(c.src_index_) # NUL,
           c.current_.type # "eof"
    PROVE  LET s == skip_char(c)
               p == c.src_index_
           IN /\ p \in Nat /\ p < Len(src_)
              /\ SameButPlace(s, c) /\ s.src_index_ \in Nat
              /\ ~s.exit =>
                     /\ s.src_index_ > p /\ s.src_index_ <= Len(src_)
                     /\ CharAt(p) # Continuation
                     /\ CharAt(p) # Lead => s.src_index_ = p + 1
                     /\ CharAt(p) = Lead =>
                            CharAt(p + 1) = Continuation /\ s.src_index_ = p + 2
<1>1. c.src_index_ \in Nat /\ Len(src_) \in Nat
  BY DEF Cursor, Readable
<1>2. c.src_index_ < Len(src_)
  BY <1>1, EndOfText
<1>3. SameButPlace(skip_char(c), c)
  BY <1>2, SkipChar
<1>4. skip_char(c).src_index_ \in Nat
  BY <1>3 DEF SameButPlace, Cursor
<1> QED
  BY <1>1, <1>2, <1>3, <1>4, SkipChar DEF Lead, Continuation

LineCommentPart(l) ==
    {c \in Cursor : /\ SameButPlace(c, l)
                    /\ c.exit \/ /\ c.src_index_ <= Len(src_)
                                 /\ Newline \notin Chars(l.src_index_, c.src_index_)}

LEMMA LineCommentRead ==
    ASSUME Readable, NEW l, Ready(l), l.current_.type # "eof"
    PROVE  LET c == LineCommentEnd(l)
           IN /\ c \in LineCommentPart(l)
              /\ c.exit \/ CharAt(c.src_index_) \in {NUL, Newline}
<1> DEFINE S == LineCommentPart(l)
           body == [c \in Cursor |->
                       IF c.exit \/ current_char(c) \in {NUL, Newline} THEN c
                       ELSE skip_char(c)]
<1>1. l \in Cursor /\ l.src_index_ \in Nat /\ Len(src_) \in Nat
  BY DEF Ready, Cursor, Readable
<1>2. l \in S
  <2>1. Newline \notin Chars(l.src_index_, l.src_index_)
    BY <1>1 DEF Chars
  <2> QED
    BY <1>1, <2>1 DEF LineCommentPart, SameButPlace, Ready
<1>3. ASSUME NEW c \in S, ~c.exit, CharAt(c.src_index_) \notin {NUL, Newline}
      PROVE  /\ skip_char(c) \in S
             /\ skip_char(c).exit \/ skip_char(c).src_index_ > c.src_index_
  <2>1. /\ c \in Cursor /\ SameButPlace(c, l) /\ c.current_.type # "eof"
        /\ Newline \notin Chars(l.src_index_, c.src_index_)
    BY <1>3 DEF LineCommentPart, SameButPlace
  <2> DEFINE s == skip_char(c)
  <2>2. /\ SameButPlace(s, c) /\ s.src_index_ \in Nat /\ c.src_index_ \in Nat
        /\ ~s.exit =>
               /\ s.src_index_ > c.src_index_ /\ s.src_index_ <= Len(src_)
               /\ CharAt(c.src_index_) # Lead => s.src_index_ = c.src_index_ + 1
               /\ CharAt(c.src_index_) = Lead =>
                      /\ CharAt(c.src_index_ + 1) = Continuation
                      /\ s.src_index_ = c.src_index_ + 2
    BY <1>3, <2>1, SkipTurn
  <2> HIDE DEF s
  <2>3. SameButPlace(s, l)
    BY <1>1, <2>1, <2>2 DEF SameButPlace
  <2>4. ~s.exit => Newline \notin Chars(l.src_index_, s.src_index_)
    BY <1>1, <1>3, <2>1, <2>2 DEF Chars, Newline, Continuation
  <2>5. s \in S
    BY <2>2, <2>3, <2>4 DEF LineCommentPart, SameButPlace
  <2> QED
    BY <2>2, <2>5 DEF s
<1>4. \A c \in S : /\ c \in Cursor
                   /\ c.exit \/ c.src_index_ <= Len(src_)
                   /\ body[c] = IF c.exit \/ CharAt(c.src_index_) \in {NUL, Newline}
                                THEN c ELSE skip_char(c)
  BY DEF LineCommentPart, current_char
<1>5. LineCommentEnd(l) = Loop(body, l)
  BY DEF LineCommentEnd
<1> HIDE DEF body, S
<1>6. Keeps(body, S)
  BY <1>3, <1>4 DEF Keeps
<1>7. MovesOn(body, S)
  BY <1>3, <1>4 DEF MovesOn
<1>8. Loop(body, l) \in S /\ body[Loop(body, l)] = Loop(body, l)
  BY <1>1, <1>2, <1>6, <1>7, CursorLoop
<1> DEFINE c == Loop(body, l)
<1>9. c \in S /\ body[c] = c
  BY <1>8
<1> HIDE DEF c
<1>10. c.exit \/ CharAt(c.src_index_) \in {NUL, Newline}
  <2> SUFFICES ASSUME ~c.exit, CharAt(c.src_index_) \notin {NUL, Newline} PROVE FALSE
    OBVIOUS
  <2>1. c = skip_char(c)
    BY <1>4, <1>9
  <2>2. c.exit \/ c.src_index_ > c.src_index_
    BY <1>3, <1>9, <2>1
  <2>3. c.src_index_ \in Nat
    BY <1>4, <1>9 DEF Cursor
  <2> QED
    BY <2>2, <2>3
<1> QED
  BY <1>5, <1>9, <1>10 DEF S, c

\* The two characters at the end of a block comment begin at p.
ClosesAt(p) == CharAt(p) = "*" /\ CharAt(p + 1) = "/"

BlockCommentPart(l) ==
    {c \in Cursor :
        /\ c.current_ = l.current_
        /\ c.src_index_ >= l.src_index_
        /\ c.exit \/
              /\ c.src_index_ <= Len(src_)
              /\ c.curr_line_ = l.curr_line_ + Lines(l.src_index_, c.src_index_)
              /\ \A p \in l.src_index_..(c.src_index_ - 1) : ~ClosesAt(p)}

LEMMA BlockCommentTurn ==
    ASSUME Readable, NEW l, Ready(l), l.current_.type # "eof",
           NEW c \in BlockCommentPart(l), ~c.exit, CharAt(c.src_index_) # NUL,
           ~ClosesAt(c.src_index_),
           NEW s, s = skip_char(IF current_char(c) = Newline THEN advance_line(c) ELSE c)
    PROVE  s \in BlockCommentPart(l) /\ (s.exit \/ s.src_index_ > c.src_index_)
<1> DEFINE a == IF CharAt(c.src_index_) = Newline THEN advance_line(c) ELSE c
<1>1. /\ l \in Cursor /\ l.src_index_ \in Nat /\ Len(src_) \in Nat
      /\ c \in Cursor /\ c.src_index_ \in Nat /\ c.curr_line_ \in Nat
      /\ c.current_ = l.current_ /\ c.src_index_ >= l.src_index_
      /\ c.src_index_ <= Len(src_) /\ l.curr_line_ \in Nat
      /\ c.curr_line_ = l.curr_line_ + Lines(l.src_index_, c.src_index_)
      /\ \A p \in l.src_index_..(c.src_index_ - 1) : ~ClosesAt(p)
  BY DEF Ready, Cursor, Readable, BlockCommentPart
<1>2. /\ a \in Cursor /\ a.src_index_ = c.src_index_ /\ a.current_ = l.current_
      /\ ~a.exit
      /\ a.curr_line_ = c.curr_line_ + Lines(c.src_index_, c.src_index_ + 1)
  <2>1. Lines(c.src_index_, c.src_index_ + 1) =
            IF CharAt(c.src_index_) = Newline THEN 1 ELSE 0
    BY <1>1, LinesOfOne
  <2>2. /\ advance_line(c) \in Cursor /\ advance_line(c).src_index_ = c.src_index_
        /\ advance_line(c).current_ = c.current_
        /\ advance_line(c).exit = c.exit
        /\ advance_line(c).curr_line_ = c.curr_line_ + 1
    BY <1>1 DEF advance_line, Cursor
  <2> QED
    BY <1>1, <2>1, <2>2
<1>3. s = skip_char(a)
  BY DEF current_char
<1> HIDE DEF a
<1> DEFINE p == c.src_index_
<1>4. /\ SameButPlace(s, a) /\ s.src_index_ \in Nat
      /\ ~s.exit =>
             /\ s.src_index_ > p /\ s.src_index_ <= Len(src_)
             /\ CharAt(p) # Lead => s.src_index_ = p + 1
             /\ CharAt(p) = Lead =>
                    CharAt(p + 1) = Continuation /\ s.src_index_ = p + 2
  BY <1>2, <1>3, SkipTurn
<1>5. s \in Cursor /\ s.current_ = l.current_ /\ s.src_index_ >= l.src_index_
  BY <1>1, <1>2, <1>4 DEF SameButPlace
<1>6. ASSUME ~s.exit
      PROVE  s.curr_line_ = l.curr_line_ + Lines(l.src_index_, s.src_index_)
  <2>1. s.curr_line_ = c.curr_line_ + Lines(p, p + 1)
    BY <1>2, <1>4 DEF SameButPlace
  <2>2. p + 1 \in Nat /\ p + 1 <= s.src_index_
    BY <1>1, <1>4, <1>6
  <2>3. Lines(p + 1, s.src_index_) = 0
    <3>1. Newline \notin Chars(p + 1, s.src_index_)
      BY <1>1, <1>4, <1>6 DEF Chars, Newline, Continuation
    <3> QED
      BY <1>4, <2>2, <3>1, LinesOfNone
  <2>4. Lines(p, s.src_index_) = Lines(p, p + 1) + Lines(p + 1, s.src_index_)
    BY <1>1, <1>4, <2>2, LinesAddUp
  <2>5. Lines(l.src_index_, s.src_index_) =
            Lines(l.src_index_, p) + Lines(p, s.src_index_)
    BY <1>1, <1>4, <1>6, LinesAddUp
  <2>6. /\ Lines(l.src_index_, p) \in Nat /\ Lines(p, p + 1) \in Nat
    BY <1>1, <2>2, LinesAreFinite
  <2> HIDE DEF p
  <2> QED
    BY <1>1, <2>1, <2>3, <2>4, <2>5, <2>6 DEF p
<1>7. ASSUME ~s.exit, NEW q \in l.src_index_..(s.src_index_ - 1)
      PROVE  ~ClosesAt(q)
  <2>1. CASE q < p
    BY <1>1, <2>1
  <2>2. CASE q = p
    BY <2>2
  <2>3. CASE q > p
    <3>1. q = p + 1 /\ CharAt(p + 1) = Continuation
      BY <1>1, <1>4, <1>7, <2>3
    <3> QED
      BY <3>1 DEF ClosesAt, Continuation
  <2> QED
    BY <1>1, <2>1, <2>2, <2>3
<1> QED
  BY <1>4, <1>5, <1>6, <1>7 DEF BlockCommentPart

LEMMA BlockCommentRead ==
    ASSUME Readable, NEW l, Ready(l), l.current_.type # "eof"
    PROVE  LET c == BlockCommentEnd(l)
           IN /\ c \in BlockCommentPart(l)
              /\ c.exit \/ CharAt(c.src_index_) = NUL \/ ClosesAt(c.src_index_)
<1> DEFINE S == BlockCommentPart(l)
           step(c) == skip_char(IF current_char(c) = Newline THEN advance_line(c)
                                ELSE c)
           body == [c \in Cursor |->
                       IF c.exit \/ current_char(c) = NUL \/ AtBlockEnd(c) THEN c
                       ELSE step(c)]
           Done(c) == c.exit \/ CharAt(c.src_index_) = NUL \/ ClosesAt(c.src_index_)
<1>1. l \in Cursor /\ l.src_index_ \in Nat /\ l.curr_line_ \in Nat /\ Len(src_) \in Nat
  BY DEF Ready, Cursor, Readable
<1>2. l \in S
  <2>1. Lines(l.src_index_, l.src_index_) = 0
    <3>1. Newline \notin Chars(l.src_index_, l.src_index_)
      BY <1>1 DEF Chars
    <3> QED
      BY <1>1, <3>1, LinesOfNone
  <2> QED
    BY <1>1, <2>1 DEF BlockCommentPart, Ready
<1>3. ASSUME NEW c \in S, ~Done(c)
      PROVE  step(c) \in S /\ (step(c).exit \/ step(c).src_index_ > c.src_index_)
  BY <1>3, BlockCommentTurn
<1>4. \A c \in S : /\ c \in Cursor
                   /\ c.exit \/ c.src_index_ <= Len(src_)
                   /\ body[c] = IF Done(c) THEN c ELSE step(c)
  BY DEF BlockCommentPart, current_char, peek_char, AtBlockEnd, ClosesAt
<1>5. BlockCommentEnd(l) = Loop(body, l)
  BY DEF BlockCommentEnd
<1>6. \A c \in S : c.exit => Done(c)
  OBVIOUS
<1> HIDE DEF body, S, step, Done
<1>7. Keeps(body, S)
  BY <1>3, <1>4 DEF Keeps
<1>8. MovesOn(body, S)
  BY <1>3, <1>4, <1>6 DEF MovesOn
<1>9. Loop(body, l) \in S /\ body[Loop(body, l)] = Loop(body, l)
  BY <1>1, <1>2, <1>7, <1>8, CursorLoop
<1> DEFINE c == Loop(body, l)
<1>10. c \in S /\ body[c] = c /\ c.src_index_ \in Nat
  BY <1>4, <1>9 DEF Cursor
<1> HIDE DEF c
<1>11. Done(c)
  <2> SUFFICES ASSUME ~Done(c) PROVE FALSE
    OBVIOUS
  <2>1. c = step(c)
    BY <1>4, <1>10
  <2> QED
    BY <1>3, <1>6, <1>10, <2>1
<1> QED
  BY <1>5, <1>10, <1>11 DEF S, c, Done

LEMMA LineCommentFound ==
    ASSUME Readable, NEW l, Ready(l), CharAt(l.src_index_) = "/",
           CharAt(l.src_index_ + 1) = "/"
    PROVE  Found(l, token_fwdslash(l))
<1> DEFINE c == LineCommentEnd(l)
           r == NoToken(c)
           p == l.src_index_
<1>1. /\ l \in Cursor /\ p \in Nat /\ l.curr_line_ \in Nat /\ Len(src_) \in Nat
      /\ l.current_.type # "eof"
  BY DEF Ready, Cursor, Readable, NUL
<1>2. token_fwdslash(l) = r
  BY DEF token_fwdslash, peek_char
<1>3. c \in LineCommentPart(l) /\ (c.exit \/ CharAt(c.src_index_) \in {NUL, Newline})
  BY <1>1, LineCommentRead
<1> HIDE DEF c
<1>4. /\ c \in Cursor /\ c.src_index_ \in Nat /\ c.src_index_ >= p
      /\ c.curr_line_ = l.curr_line_
      /\ \/ c.exit
         \/ c.src_index_ <= Len(src_) /\ Newline \notin Chars(p, c.src_index_)
  BY <1>3 DEF LineCommentPart, SameButPlace, Cursor
<1>5. /\ r \in Cursor /\ r.src_index_ = c.src_index_ /\ r.curr_line_ = c.curr_line_
      /\ r.exit = c.exit /\ r.current_.type = "none"
  BY <1>4, NoTokenFields
<1> HIDE DEF r
<1>6. ASSUME ~c.exit PROVE PassesOver(l, r)
  <2>1. c.src_index_ # p /\ c.src_index_ # p + 1
    BY <1>3, <1>6 DEF NUL, Newline
  <2>2. p + 2 <= c.src_index_
    BY <1>1, <1>4, <2>1
  <2>3. LineComment(p, c.src_index_)
    BY <1>3, <1>4, <1>6, <2>2 DEF LineComment
  <2>4. Lines(p, c.src_index_) = 0
    BY <1>1, <1>4, <1>6, LinesOfNone
  <2>5. p < r.src_index_
    BY <1>1, <1>4, <1>5, <2>2
  <2> HIDE DEF p
  <2> QED
    BY <1>1, <1>4, <1>5, <2>3, <2>4, <2>5 DEF PassesOver, Piece, p
<1> QED
  BY <1>2, <1>4, <1>5, <1>6 DEF Found

LEMMA BlockCommentFound ==
    ASSUME Readable, NEW l, Ready(l), CharAt(l.src_index_) = "/",
           CharAt(l.src_index_ + 1) = "*"
    PROVE  Found(l, token_fwdslash(l))
<1> DEFINE c == BlockCommentEnd(l)
           b == IF CharAt(c.src_index_) = NUL THEN c ELSE advance_char(c, 2)
           r == IF CharAt(b.src_index_) = NUL THEN EndOfFile(b) ELSE NoToken(b)
           p == l.src_index_
<1>1. /\ l \in Cursor /\ p \in Nat /\ l.curr_line_ \in Nat /\ Len(src_) \in Nat
      /\ l.current_.type # "eof"
  BY DEF Ready, Cursor, Readable, NUL
<1>2. token_fwdslash(l) = r
  BY DEF token_fwdslash, peek_char, current_char
<1>3. /\ c \in BlockCommentPart(l)
      /\ c.exit \/ CharAt(c.src_index_) = NUL \/ ClosesAt(c.src_index_)
  BY <1>1, BlockCommentRead
<1> HIDE DEF c
<1>4. /\ c \in Cursor /\ c.src_index_ \in Nat /\ c.src_index_ >= p
      /\ c.current_.type # "eof" /\ c.exit \in BOOLEAN
      /\ c.exit \/ /\ c.src_index_ <= Len(src_)
                   /\ c.curr_line_ = l.curr_line_ + Lines(p, c.src_index_)
                   /\ \A q \in p..(c.src_index_ - 1) : ~ClosesAt(q)
  BY <1>1, <1>3 DEF BlockCommentPart, Cursor
<1>5. /\ b \in Cursor /\ b.curr_line_ = c.curr_line_ /\ b.exit = c.exit
      /\ b.src_index_ \in Nat
  <2>1. 2 \in Nat
    OBVIOUS
  <2>2. /\ SameButPlace(advance_char(c, 2), c)
        /\ advance_char(c, 2).exit = c.exit
    BY <1>1, <1>4, <2>1, AdvanceChar
  <2> QED
    BY <1>4, <2>2 DEF SameButPlace, Cursor
<1>6. /\ r \in Cursor /\ r.src_index_ = b.src_index_ /\ r.curr_line_ = b.curr_line_
      /\ r.exit = b.exit
      /\ CharAt(b.src_index_) = NUL =>
             /\ r.current_.type = "eof"
             /\ r.current_.from = r.src_index_ /\ r.current_.to = r.src_index_
      /\ CharAt(b.src_index_) # NUL => r.current_.type = "none"
  <2> HIDE DEF b
  <2> QED
    BY <1>5, EndFields, NoTokenFields
<1>7. CASE c.exit
  BY <1>2, <1>5, <1>6, <1>7 DEF Found
<1>8. CASE ~c.exit /\ CharAt(c.src_index_) = NUL
  <2>1. c.src_index_ # p /\ c.src_index_ # p + 1
    BY <1>8 DEF NUL
  <2>2. p + 2 <= c.src_index_ /\ b = c
    BY <1>1, <1>4, <1>8, <2>1
  <2>3. OpenComment(p, c.src_index_)
    BY <1>1, <1>4, <1>8, <2>2 DEF OpenComment, ClosesAt
  <2> HIDE DEF b, r
  <2>4. EndsAt(l, r) /\ r.src_index_ <= Len(src_)
    BY <1>4, <1>6, <1>8, <2>2, <2>3 DEF EndsAt
  <2> QED
    BY <1>2, <1>6, <2>4 DEF Found
<1>9. CASE ~c.exit /\ CharAt(c.src_index_) # NUL
  <2> DEFINE e == c.src_index_
  <2>1. ClosesAt(e) /\ e < Len(src_) /\ e + 1 < Len(src_)
    <3>1. ClosesAt(e)
      BY <1>3, <1>9
    <3>2. CharAt(e + 1) # NUL /\ e + 1 \in Nat
      BY <1>4, <3>1 DEF ClosesAt, NUL
    <3> QED
      BY <1>1, <1>4, <1>9, <3>1, <3>2, EndOfText
  <2>2. b.src_index_ = e + 2
    <3>1. 2 \in Nat
      OBVIOUS
    <3>2. advance_char(c, 2).src_index_ = e + 2
      BY <1>1, <1>4, <2>1, <3>1, AdvanceChar
    <3> QED
      BY <1>9, <3>2
  <2> HIDE DEF b, r
  <2>3. e # p
    BY <2>1 DEF ClosesAt
  <2>4. BlockComment(p, e + 2)
    <3>1. OpenComment(p, e + 1)
      BY <1>1, <1>4, <1>9, <2>3 DEF OpenComment, ClosesAt
    <3>2. (e + 2) - 1 = e + 1 /\ (e + 2) - 2 = e /\ p + 3 <= e + 2
      BY <1>1, <1>4, <2>3
    <3> QED
      BY <2>1, <3>1, <3>2 DEF BlockComment, ClosesAt
  <2>5. Lines(p, e + 2) = Lines(p, e)
    <3>1. Newline \notin Chars(e, e + 2)
      BY <1>4, <2>1 DEF Chars, ClosesAt, Newline
    <3>2. Lines(e, e + 2) = 0
      BY <1>4, <3>1, LinesOfNone
    <3>3. Lines(p, e + 2) = Lines(p, e) + Lines(e, e + 2)
      BY <1>1, <1>4, LinesAddUp
    <3>4. Lines(p, e) \in Nat
      BY <1>1, <1>4, LinesAreFinite
    <3> QED
      BY <3>2, <3>3, <3>4
  <2>6. CASE CharAt(b.src_index_) = NUL
    <3>1. EndsAt(l, r)
      BY <1>1, <1>4, <1>6, <2>2, <2>4, <2>6 DEF EndsAt, Piece
    <3>2. r.src_index_ <= Len(src_)
      BY <1>1, <1>4, <1>6, <2>1, <2>2
    <3> QED
      BY <1>2, <1>6, <3>1, <3>2 DEF Found
  <2>7. CASE CharAt(b.src_index_) # NUL
    <3>1. PassesOver(l, r)
      BY <1>1, <1>4, <1>5, <1>6, <1>9, <2>2, <2>4, <2>5, <2>7 DEF PassesOver, Piece
    <3>2. r.src_index_ <= Len(src_)
      BY <1>1, <1>4, <1>6, <2>1, <2>2
    <3> QED
      BY <1>2, <1>6, <3>1, <3>2 DEF Found
  <2> QED
    BY <2>6, <2>7
<1> QED
  BY <1>4, <1>7, <1>8, <1>9

-----------------------------------------------------------------------------
(* What can begin with a character *)

LEMMA SecondCharacters ==
    /\ DOMAIN Second = {"-", "+", "*", "/", "%", "=", "<", ">", "&", "|", "!", "^", ":"}
    /\ Second["-"] = {"=", ">", "-"} /\ Second[":"] = {":"}
    /\ \A c \in {"+", "&", "|", "<", ">"} : Second[c] = {"=", c}
    /\ \A c \in {"*", "/", "%", "=", "!", "^"} : Second[c] = {"="}
<1>1. /\ DOMAIN Second = {"-", "+", "*", "/", "%", "=", "<", ">", "&", "|", "!", "^", ":"}
      /\ Second["-"] = {"=", ">", "-"} /\ Second[":"] = {":"}
  BY DEF Second
<1>2. \A c \in {"+", "&", "|", "<", ">"} : Second[c] = {"=", c}
  BY DEF Second
<1>3. \A c \in {"*", "/", "%", "=", "!", "^"} : Second[c] = {"="}
  BY DEF Second
<1> QED
  BY <1>1, <1>2, <1>3

\* The characters that an operator begins with.
Beginnings == Single \cup DOMAIN Second \cup {"."}

LEMMA OperatorsOfOne ==
    ASSUME NEW a
    PROVE  <<a>> \in Operators <=> a \in Beginnings
  BY DEF Operators, Beginnings

LEMMA OperatorsOfTwo ==
    ASSUME NEW a, NEW b
    PROVE  <<a, b>> \in Operators <=> a \in DOMAIN Second /\ b \in Second[a]
<1>1. <<a, b>> \in Operators <=>
          \/ a \in DOMAIN Second \ {":"} /\ b = "="
          \/ a \in {"-", "+", "<", ">", "&", "|", "=", ":"} /\ b = a
          \/ a = "-" /\ b = ">"
  BY DEF Operators
<1> QED
  BY <1>1, SecondCharacters

LEMMA OperatorsOfThree ==
    ASSUME NEW a, NEW b, NEW c
    PROVE  <<a, b, c>> \in Operators <=>
               \/ a \in {"<", ">"} /\ b = a /\ c = "="
               \/ a = "." /\ b = "." /\ c = "."
  BY DEF Operators

OperatorAt(from, size) ==
    \/ size = 1 /\ CharAt(from) \in Beginnings
    \/ size = 2 /\ CharAt(from) \in DOMAIN Second /\ CharAt(from + 1) \in Second[CharAt(from)]
    \/ /\ size = 3
       /\ \/ /\ CharAt(from) \in {"<", ">"} /\ CharAt(from + 1) = CharAt(from)
             /\ CharAt(from + 2) = "="
          \/ CharAt(from) = "." /\ CharAt(from + 1) = "." /\ CharAt(from + 2) = "."

LEMMA OperatorSizes ==
    ASSUME NEW from \in Nat, NEW to \in Nat
    PROVE  Operator(from, to) <=> OperatorAt(from, to - from)
<1> DEFINE text == [i \in 1..(to - from) |-> CharAt(from + i - 1)]
<1>1. CASE to = from + 1
  <2>1. text = <<CharAt(from)>>
    BY <1>1
  <2> HIDE DEF text
  <2>2. text \in Operators <=> CharAt(from) \in Beginnings
    BY <2>1, OperatorsOfOne
  <2> QED
    BY <1>1, <2>2 DEF Operator, OperatorAt, text
<1>2. CASE to = from + 2
  <2>1. text = <<CharAt(from), CharAt(from + 1)>>
    BY <1>2
  <2> HIDE DEF text
  <2>2. text \in Operators <=>
            /\ CharAt(from) \in DOMAIN Second
            /\ CharAt(from + 1) \in Second[CharAt(from)]
    BY <2>1, OperatorsOfTwo
  <2> QED
    BY <1>2, <2>2 DEF Operator, OperatorAt, text
<1>3. CASE to = from + 3
  <2>1. text = <<CharAt(from), CharAt(from + 1), CharAt(from + 2)>>
    BY <1>3
  <2> HIDE DEF text
  <2>2. text \in Operators <=> OperatorAt(from, 3)
    BY <2>1, OperatorsOfThree DEF OperatorAt
  <2> QED
    BY <1>3, <2>2 DEF Operator, OperatorAt, text
<1>4. CASE to \notin (from + 1)..(from + 3)
  BY <1>4 DEF Operator, OperatorAt
<1> QED
  BY <1>1, <1>2, <1>3, <1>4

LEMMA MantissaBegins ==
    ASSUME NEW from \in Nat, NEW to \in Nat, Mantissa(from, to)
    PROVE  from < to /\ CharAt(from) \in Digits
  BY DEF Mantissa, Numeral, Chars

\* The first character of a token tells what the token can be.
LEMMA FirstCharacter ==
    ASSUME NEW type \in LexemeTypes, NEW from \in Nat, NEW to \in Nat, from < to,
           Lexeme(type, from, to)
    PROVE  /\ type \in {"integer", "float", "hex"} => CharAt(from) \in Digits
           /\ type = "word" =>
                  CharAt(from) \notin Digits /\ ~is_char_reserved(CharAt(from))
           /\ type = "string" => CharAt(from) = Quote
           /\ type = "character" => CharAt(from) = "'"
           /\ type = "operator" => CharAt(from) \in Beginnings
<1>1. CASE type = "integer"
  BY <1>1 DEF Lexeme, Numeral, Chars
<1>2. CASE type = "float"
  <2>1. Float(from, to)
    BY <1>2 DEF Lexeme
  <2>2. CASE Mantissa(from, to)
    BY <1>2, <2>2, MantissaBegins
  <2>3. CASE \E e \in from..(to - 1) : Mantissa(from, e)
    <3>1. PICK e \in from..(to - 1) : Mantissa(from, e)
      BY <2>3
    <3>2. e \in Nat
      OBVIOUS
    <3> QED
      BY <1>2, <3>1, <3>2, MantissaBegins
  <2> QED
    BY <2>1, <2>2, <2>3 DEF Float
<1>3. CASE type = "hex"
  BY <1>3 DEF Lexeme, Hex, Digits
<1>4. CASE type = "word"
  BY <1>4 DEF Lexeme, Word
<1>5. CASE type = "string"
  BY <1>5 DEF Lexeme, String
<1>6. CASE type = "character"
  BY <1>6 DEF Lexeme, Character
<1>7. CASE type = "operator"
  <2>1. OperatorAt(from, to - from)
    BY <1>7, OperatorSizes DEF Lexeme
  <2> QED
    BY <1>7, <2>1, SecondCharacters DEF OperatorAt, Beginnings
<1> QED
  BY <1>1, <1>2, <1>3, <1>4, <1>5, <1>6, <1>7 DEF LexemeTypes

\* The lexemes of one type, where all that can begin are of that type.
LEMMA OneType ==
    ASSUME NEW from \in Nat, Len(src_) \in Nat
    PROVE  /\ CharAt(from) = Quote =>
                  LexemeEnds(from) = {to \in (from + 1)..Len(src_) : String(from, to)}
           /\ CharAt(from) = "'" =>
                  LexemeEnds(from) = {to \in (from + 1)..Len(src_) : Character(from, to)}
           /\ CharAt(from) \in Beginnings =>
                  LexemeEnds(from) = {to \in (from + 1)..Len(src_) : Operator(from, to)}
           /\ CharAt(from) \notin Digits /\ ~is_char_reserved(CharAt(from)) =>
                  LexemeEnds(from) = {to \in (from + 1)..Len(src_) : Word(from, to)}
           /\ CharAt(from) = "#" => LexemeEnds(from) = {}
<1> DEFINE Class(type) == IF type \in {"integer", "float", "hex"} THEN Digits
                          ELSE IF type = "string" THEN {Quote}
                          ELSE IF type = "character" THEN {"'"}
                          ELSE Beginnings
           Free(c) == c \notin Digits /\ ~is_char_reserved(c)
<1>1. \A to \in (from + 1)..Len(src_) : \A type \in LexemeTypes :
          Lexeme(type, from, to) =>
              IF type = "word" THEN Free(CharAt(from)) ELSE CharAt(from) \in Class(type)
  BY FirstCharacter DEF LexemeTypes
<1>2. /\ Beginnings \cap Digits = {} /\ Quote \notin Digits /\ "'" \notin Digits
      /\ Quote # "'" /\ Quote \notin Beginnings /\ "'" \notin Beginnings
      /\ "#" \notin Digits /\ "#" \notin Beginnings /\ "#" # Quote /\ "#" # "'"
  BY SecondCharacters DEF Beginnings, Digits, Quote, Single, Backslash
<1>3. \A c : c \in Beginnings \cup {Quote, "'", "#"} => ~Free(c)
  BY DEF is_char_reserved, Beginnings
<1>4. \A to \in (from + 1)..Len(src_) :
          /\ Lexeme("string", from, to) <=> String(from, to)
          /\ Lexeme("character", from, to) <=> Character(from, to)
          /\ Lexeme("operator", from, to) <=> Operator(from, to)
          /\ Lexeme("word", from, to) <=> Word(from, to)
  BY DEF Lexeme
<1>5. \A to \in (from + 1)..Len(src_) : \A type \in LexemeTypes : Lexeme(type, from, to) =>
          /\ CharAt(from) = Quote => type = "string"
          /\ CharAt(from) = "'" => type = "character"
          /\ CharAt(from) \in Beginnings => type = "operator"
          /\ Free(CharAt(from)) => type = "word"
          /\ CharAt(from) # "#"
  <2> HIDE DEF Free
  <2> SUFFICES ASSUME NEW to \in (from + 1)..Len(src_), NEW type \in LexemeTypes,
                      Lexeme(type, from, to)
               PROVE  /\ CharAt(from) = Quote => type = "string"
                      /\ CharAt(from) = "'" => type = "character"
                      /\ CharAt(from) \in Beginnings => type = "operator"
                      /\ Free(CharAt(from)) => type = "word"
                      /\ CharAt(from) # "#"
    OBVIOUS
  <2>1. IF type = "word" THEN Free(CharAt(from)) ELSE CharAt(from) \in Class(type)
    BY <1>1
  <2>2. CASE type \in {"integer", "float", "hex"}
    <3>1. CharAt(from) \in Digits
      BY <2>1, <2>2
    <3>2. ~Free(CharAt(from))
      BY <3>1 DEF Free
    <3> QED
      BY <1>2, <3>1, <3>2
  <2>3. CASE type \in {"string", "character", "operator"}
    BY <1>2, <1>3, <2>1, <2>3
  <2>4. CASE type = "word"
    BY <1>3, <2>1, <2>4
  <2> QED
    BY <2>2, <2>3, <2>4 DEF LexemeTypes
<1> HIDE DEF Free
<1>6. {"string", "character", "operator", "word"} \subseteq LexemeTypes
  BY DEF LexemeTypes
<1>7. \A to \in (from + 1)..Len(src_) :
          to \in LexemeEnds(from) <=> \E type \in LexemeTypes : Lexeme(type, from, to)
  BY DEF LexemeEnds
<1>8. LexemeEnds(from) \subseteq (from + 1)..Len(src_)
  BY DEF LexemeEnds
<1>9. CASE CharAt(from) = Quote
  BY <1>2, <1>3, <1>4, <1>5, <1>6, <1>7, <1>8, <1>9 DEF Free
<1>10. CASE CharAt(from) = "'"
  BY <1>2, <1>3, <1>4, <1>5, <1>6, <1>7, <1>8, <1>10 DEF Free
<1>11. CASE CharAt(from) \in Beginnings
  BY <1>2, <1>3, <1>4, <1>5, <1>6, <1>7, <1>8, <1>11 DEF Free
<1>12. CASE Free(CharAt(from))
  BY <1>2, <1>3, <1>4, <1>5, <1>6, <1>7, <1>8, <1>12 DEF Free
<1>13. CASE CharAt(from) = "#"
  BY <1>2, <1>3, <1>5, <1>7, <1>8, <1>13 DEF Free
<1> QED
  BY <1>9, <1>10, <1>11, <1>12, <1>13 DEF Free

-----------------------------------------------------------------------------
(* Operators and literals *)

IsLongest(type, from, to) ==
    IF type = "illegal"
    THEN \/ LexemeEnds(from) = {}
         \/ /\ CharAt(from) \in Digits
            /\ \E end \in LexemeEnds(from) :
                   LongestEnd(from, end) /\ CharAt(end) \in {".", "e", "x"}
    ELSE Lexeme(type, from, to) /\ LongestEnd(from, to)

LEMMA TokenRead ==
    ASSUME NEW l, Ready(l), NEW c \in Cursor, c.curr_line_ = l.curr_line_,
           l.src_index_ < c.src_index_, c.src_index_ <= Len(src_),
           NEW type \in LexemeTypes \cup {"illegal"},
           IsLongest(type, l.src_index_, c.src_index_)
    PROVE  Found(l, Token(type, l.src_index_, c))
<1> DEFINE r == Token(type, l.src_index_, c)
<1>1. l.src_index_ \in Nat /\ type \in TokenTypes /\ type \notin {"none", "eof"}
  BY DEF Ready, Cursor, LexemeTypes, TokenTypes
<1>2. /\ r \in Cursor
      /\ r.src_index_ = c.src_index_ /\ r.curr_line_ = c.curr_line_
      /\ r.current_.type = type
      /\ r.current_.from = l.src_index_ /\ r.current_.to = c.src_index_
  BY <1>1, TokenFields
<1> HIDE DEF r
<1>3. LongestToken(r.current_)
  BY <1>1, <1>2 DEF LongestToken, IsLongest
<1> QED
  BY <1>1, <1>2, <1>3 DEF Found, Reads, r

\* A longer operator would have been read.
LEMMA OperatorIsLongest ==
    ASSUME NEW from \in Nat, NEW size \in 1..3, Len(src_) \in Nat,
           from + size <= Len(src_),
           OperatorAt(from, size), \A k \in 1..3 : OperatorAt(from, k) => k <= size
    PROVE  IsLongest("operator", from, from + size)
<1>1. CharAt(from) \in Beginnings
  BY SecondCharacters DEF OperatorAt, Beginnings
<1>2. LexemeEnds(from) = {to \in (from + 1)..Len(src_) : Operator(from, to)}
  BY <1>1, OneType
<1>3. Operator(from, from + size)
  BY OperatorSizes
<1>4. \A to \in LexemeEnds(from) : to <= from + size
  <2> TAKE to \in LexemeEnds(from)
  <2>1. to \in Nat /\ to \in (from + 1)..Len(src_) /\ Operator(from, to)
    BY <1>2
  <2>2. to - from \in 1..3 /\ OperatorAt(from, to - from)
    BY <2>1, OperatorSizes DEF Operator
  <2>3. to - from <= size
    BY <2>2
  <2> QED
    BY <2>1, <2>3
<1>5. from + size \in LexemeEnds(from)
  BY <1>2, <1>3
<1> QED
  BY <1>3, <1>4, <1>5 DEF IsLongest, Lexeme, LongestEnd

LEMMA OperatorRead ==
    ASSUME Readable, NEW l, Ready(l), NEW size \in 1..3,
           OperatorAt(l.src_index_, size),
           \A k \in 1..3 : OperatorAt(l.src_index_, k) => k <= size
    PROVE  Found(l, Token("operator", l.src_index_, advance_char(l, size)))
<1> DEFINE p == l.src_index_
           c == advance_char(l, size)
<1>1. /\ l \in Cursor /\ p \in Nat /\ Len(src_) \in Nat /\ size \in Nat
      /\ size \in {1, 2, 3}
  BY DEF Ready, Cursor, Readable
<1>2. CharAt(p) # NUL /\ CharAt(p + (size - 1)) # NUL
  <2>1. NUL \notin Beginnings
    BY SecondCharacters DEF Beginnings, NUL, Single, Backslash
  <2>2. CharAt(p) \in Beginnings
    BY SecondCharacters DEF OperatorAt, Beginnings
  <2>3. \A d \in DOMAIN Second : NUL \notin Second[d]
    BY SecondCharacters DEF NUL
  <2>4. "=" # NUL /\ "." # NUL /\ CharAt(p + 0) = CharAt(p)
    BY <1>1 DEF NUL
  <2>5. CASE size = 1
    BY <2>1, <2>2, <2>4, <2>5
  <2>6. CASE size = 2
    BY <2>1, <2>2, <2>3, <2>6 DEF OperatorAt
  <2>7. CASE size = 3
    BY <2>1, <2>2, <2>4, <2>7 DEF OperatorAt
  <2> QED
    BY <1>1, <2>5, <2>6, <2>7
<1>3. p < Len(src_) /\ p + size <= Len(src_) /\ l.current_.type # "eof"
  <2>1. p + (size - 1) < Len(src_)
    <3>1. p + (size - 1) \in Nat
      BY <1>1
    <3> QED
      BY <1>1, <1>2, <3>1, EndOfText
  <2> QED
    BY <1>1, <1>2, <2>1 DEF Ready
<1>4. c \in Cursor /\ c.curr_line_ = l.curr_line_ /\ c.src_index_ = p + size
  BY <1>1, <1>3, AdvanceChar DEF SameButPlace
<1>5. IsLongest("operator", p, p + size)
  BY <1>1, <1>3, OperatorIsLongest
<1> HIDE DEF c
<1>6. p < c.src_index_ /\ c.src_index_ <= Len(src_)
  BY <1>1, <1>3, <1>4
<1>7. Found(l, Token("operator", p, c))
  BY <1>4, <1>5, <1>6, TokenRead DEF LexemeTypes
<1> QED
  BY <1>7 DEF c

LEMMA OperatorFound ==
    ASSUME Readable, NEW l, Ready(l), CharAt(l.src_index_) \in Single \cup DOMAIN Second
    PROVE  Found(l, token_operator(l))
<1> DEFINE p == l.src_index_
           c == CharAt(p)
           next == CharAt(p + 1)
           two == c \in DOMAIN Second /\ next \in Second[c]
           three == c \in {"<", ">"} /\ next = c /\ CharAt(p + 2) = "="
           size == IF three THEN 3 ELSE IF two THEN 2 ELSE 1
<1>1. token_operator(l) = Token("operator", p, advance_char(l, size))
  BY DEF token_operator, current_char, peek_char
<1>2. size \in 1..3
  OBVIOUS
<1>3. c # "."
  BY SecondCharacters DEF Single, Backslash
<1>4. OperatorAt(p, size)
  BY DEF OperatorAt, Beginnings
<1>5. \A k \in 1..3 : OperatorAt(p, k) => k <= size
  BY <1>3 DEF OperatorAt
<1> HIDE DEF size, p
<1>6. Found(l, Token("operator", l.src_index_, advance_char(l, size)))
  BY <1>2, <1>4, <1>5, OperatorRead DEF p
<1> QED
  BY <1>1, <1>6 DEF p

LEMMA DotFound ==
    ASSUME Readable, NEW l, Ready(l), CharAt(l.src_index_) = "."
    PROVE  Found(l, token_dot(l))
<1> DEFINE p == l.src_index_
           three == CharAt(p + 1) = "." /\ CharAt(p + 2) = "."
           size == IF three THEN 3 ELSE 1
<1>1. token_dot(l) = Token("operator", p, advance_char(l, size))
  BY DEF token_dot, peek_char
<1>2. size \in 1..3
  OBVIOUS
<1>3. CharAt(p) \notin DOMAIN Second
  BY SecondCharacters
<1>4. OperatorAt(p, size)
  BY DEF OperatorAt, Beginnings
<1>5. \A k \in 1..3 : OperatorAt(p, k) => k <= size
  BY <1>3 DEF OperatorAt
<1> HIDE DEF size, p
<1>6. Found(l, Token("operator", l.src_index_, advance_char(l, size)))
  BY <1>2, <1>4, <1>5, OperatorRead DEF p
<1> QED
  BY <1>1, <1>6 DEF p

\* A quote behind a backslash, or another character, inside of a string.
InString(p) == CharAt(p) # NUL /\ (CharAt(p) = Quote => CharAt(p - 1) = Backslash)

StringPart(l) ==
    {c \in Cursor :
        /\ SameButPlace(c, l)
        /\ \/ c.exit
           \/ /\ c.src_index_ <= Len(src_)
              /\ \A p \in l.src_index_..(c.src_index_ - 1) : InString(p)
              /\ CharAt(c.src_index_) = Quote => CharAt(c.src_index_ - 1) # Backslash}

LEMMA StringTurn ==
    ASSUME Readable, NEW l, Ready(l), l.current_.type # "eof",
           NEW c \in StringPart(l), ~c.exit, CharAt(c.src_index_) \notin {NUL, Quote},
           NEW s,
           s = IF current_char(c) = Backslash /\ peek_char(c, 1) = Quote
               THEN advance_char(c, 2) ELSE skip_char(c)
    PROVE  s \in StringPart(l) /\ (s.exit \/ s.src_index_ > c.src_index_)
<1> DEFINE p == c.src_index_
           two == CharAt(p) = Backslash /\ CharAt(p + 1) = Quote
<1>1. /\ l \in Cursor /\ l.src_index_ \in Nat /\ Len(src_) \in Nat
      /\ c \in Cursor /\ p \in Nat /\ SameButPlace(c, l)
      /\ c.current_.type # "eof" /\ l.src_index_ <= p /\ p <= Len(src_)
      /\ \A q \in l.src_index_..(p - 1) : InString(q)
  BY DEF Ready, Cursor, Readable, StringPart, SameButPlace
<1>2. p < Len(src_)
  BY <1>1, EndOfText
<1>3. CASE two
  <2>1. s = advance_char(c, 2)
    BY <1>3 DEF current_char, peek_char
  <2>2. 2 \in Nat
    OBVIOUS
  <2>3. /\ SameButPlace(s, c) /\ s.src_index_ = p + 2
    <3>1. c \in Cursor /\ c.current_.type # "eof" /\ c.src_index_ < Len(src_)
          /\ Len(src_) \in Nat
      BY <1>1, <1>2
    <3> QED
      BY <2>1, <2>2, <3>1, AdvanceChar
  <2>4. p + 1 < Len(src_)
    BY <1>1, <1>3, EndOfText DEF Quote, NUL
  <2>5. InString(p) /\ InString(p + 1)
    BY <1>1, <1>3 DEF InString, Quote, NUL, Backslash
  <2>6. \A q \in l.src_index_..(p + 1) : InString(q)
    BY <1>1, <2>5
  <2>7. CharAt((p + 2) - 1) # Backslash
    BY <1>1, <1>3 DEF Quote, Backslash
  <2>8. SameButPlace(s, l)
    BY <1>1, <2>3 DEF SameButPlace
  <2> QED
    BY <1>1, <2>3, <2>4, <2>6, <2>7, <2>8 DEF StringPart, SameButPlace
<1>4. CASE ~two
  <2>1. s = skip_char(c)
    BY <1>4 DEF current_char, peek_char
  <2>2. /\ SameButPlace(s, c) /\ s.src_index_ \in Nat
        /\ ~s.exit =>
               /\ s.src_index_ > p /\ s.src_index_ <= Len(src_)
               /\ CharAt(p) # Lead => s.src_index_ = p + 1
               /\ CharAt(p) = Lead =>
                      CharAt(p + 1) = Continuation /\ s.src_index_ = p + 2
    BY <1>1, <2>1, SkipTurn
  <2>3. SameButPlace(s, l)
    BY <1>1, <2>2 DEF SameButPlace
  <2>4. ASSUME ~s.exit, CharAt(p) # Lead
        PROVE  s \in StringPart(l)
    <3>1. s.src_index_ = p + 1 /\ InString(p)
      BY <2>2, <2>4 DEF InString
    <3>2. \A q \in l.src_index_..p : InString(q)
      BY <1>1, <3>1
    <3>3. CharAt(p + 1) = Quote => CharAt((p + 1) - 1) # Backslash
      BY <1>1, <1>4
    <3> QED
      BY <1>1, <2>2, <2>3, <2>4, <3>1, <3>2, <3>3 DEF StringPart, SameButPlace
  <2>5. ASSUME ~s.exit, CharAt(p) = Lead
        PROVE  s \in StringPart(l)
    <3>1. s.src_index_ = p + 2 /\ InString(p) /\ InString(p + 1)
      BY <2>2, <2>5 DEF InString, Continuation, Quote, NUL, Lead
    <3>2. \A q \in l.src_index_..(p + 1) : InString(q)
      BY <1>1, <3>1
    <3>3. CharAt((p + 2) - 1) # Backslash
      BY <1>1, <2>2, <2>5 DEF Continuation, Backslash
    <3> QED
      BY <1>1, <2>2, <2>3, <2>5, <3>1, <3>2, <3>3 DEF StringPart, SameButPlace
  <2>6. s.exit => s \in StringPart(l)
    BY <2>3 DEF StringPart, SameButPlace
  <2> QED
    BY <2>2, <2>4, <2>5, <2>6
<1> QED
  BY <1>3, <1>4

LEMMA StringRead ==
    ASSUME Readable, NEW l, Ready(l), l.current_.type # "eof",
           CharAt(l.src_index_ - 1) # Backslash
    PROVE  LET c == StringEnd(l)
           IN /\ c \in StringPart(l)
              /\ c.exit \/ CharAt(c.src_index_) \in {NUL, Quote}
<1> DEFINE S == StringPart(l)
           step(c) == IF current_char(c) = Backslash /\ peek_char(c, 1) = Quote
                      THEN advance_char(c, 2) ELSE skip_char(c)
           body == [c \in Cursor |->
                       IF c.exit \/ current_char(c) \in {NUL, Quote} THEN c
                       ELSE IF current_char(c) = Backslash /\ peek_char(c, 1) = Quote
                       THEN advance_char(c, 2) ELSE skip_char(c)]
           Done(c) == c.exit \/ CharAt(c.src_index_) \in {NUL, Quote}
<1>1. l \in Cursor /\ l.src_index_ \in Nat /\ Len(src_) \in Nat
  BY DEF Ready, Cursor, Readable
<1>2. l \in S
  BY <1>1 DEF StringPart, Ready, SameButPlace
<1>3. ASSUME NEW c \in S, ~Done(c)
      PROVE  step(c) \in S /\ (step(c).exit \/ step(c).src_index_ > c.src_index_)
  BY <1>3, StringTurn
<1>4. \A c \in S : /\ c \in Cursor
                   /\ c.exit \/ c.src_index_ <= Len(src_)
                   /\ body[c] = IF Done(c) THEN c ELSE step(c)
  BY DEF StringPart, current_char
<1>5. StringEnd(l) = Loop(body, l)
  BY DEF StringEnd
<1>6. \A c \in S : c.exit => Done(c)
  OBVIOUS
<1> HIDE DEF body, S, step, Done
<1>7. Keeps(body, S)
  BY <1>3, <1>4 DEF Keeps
<1>8. MovesOn(body, S)
  BY <1>3, <1>4, <1>6 DEF MovesOn
<1>9. Loop(body, l) \in S /\ body[Loop(body, l)] = Loop(body, l)
  BY <1>1, <1>2, <1>7, <1>8, CursorLoop
<1> DEFINE c == Loop(body, l)
<1>10. c \in S /\ body[c] = c /\ c.src_index_ \in Nat
  BY <1>4, <1>9 DEF Cursor
<1> HIDE DEF c
<1>11. Done(c)
  <2> SUFFICES ASSUME ~Done(c) PROVE FALSE
    OBVIOUS
  <2>1. c = step(c)
    BY <1>4, <1>10
  <2> QED
    BY <1>3, <1>6, <1>10, <2>1
<1> QED
  BY <1>5, <1>10, <1>11 DEF S, c, Done

\* Where a string ends is told by the quotes behind its first one.
LEMMA StringIsLongest ==
    ASSUME NEW from \in Nat, NEW p \in Nat, from < p, Len(src_) \in Nat,
           p <= Len(src_), CharAt(from) = Quote,
           \A q \in (from + 1)..(p - 1) : InString(q),
           CharAt(p) = Quote => CharAt(p - 1) # Backslash
    PROVE  /\ CharAt(p) = Quote => IsLongest("string", from, p + 1)
           /\ CharAt(p) = NUL => IsLongest("illegal", from, p)
<1>1. LexemeEnds(from) = {to \in (from + 1)..Len(src_) : String(from, to)}
  BY OneType
<1>2. ASSUME NEW to \in (from + 1)..Len(src_), String(from, to)
      PROVE  CharAt(p) \notin {NUL, Quote} \/ (CharAt(p) = Quote /\ to = p + 1)
  <2>1. /\ from + 2 <= to /\ to \in Nat /\ CharAt(to - 1) = Quote
        /\ CharAt(to - 2) # Backslash
        /\ \A q \in (from + 1)..(to - 2) : InString(q)
    BY <1>2 DEF String, InString
  <2>2. CASE to - 1 < p
    <3>1. InString(to - 1) /\ (to - 1) - 1 = to - 2
      BY <2>1, <2>2
    <3> QED
      BY <2>1, <3>1 DEF InString
  <2>3. CASE to - 1 = p
    BY <2>1, <2>3 DEF NUL, Quote
  <2>4. CASE to - 1 > p
    <3>1. InString(p)
      BY <2>1, <2>4
    <3> QED
      BY <3>1 DEF InString
  <2> QED
    BY <2>1, <2>2, <2>3, <2>4
<1>3. ASSUME CharAt(p) = Quote PROVE IsLongest("string", from, p + 1)
  <2>1. String(from, p + 1)
    BY <1>3 DEF String, InString
  <2>2. p + 1 \in (from + 1)..Len(src_)
    BY <1>3, EndOfText DEF Quote, NUL
  <2>3. \A to \in LexemeEnds(from) : to <= p + 1
    BY <1>1, <1>2, <1>3
  <2>4. p + 1 \in LexemeEnds(from)
    BY <1>1, <2>1, <2>2
  <2> QED
    BY <2>1, <2>3, <2>4 DEF IsLongest, Lexeme, LongestEnd
<1>4. ASSUME CharAt(p) = NUL PROVE IsLongest("illegal", from, p)
  <2>1. LexemeEnds(from) = {}
    BY <1>1, <1>2, <1>4 DEF NUL, Quote
  <2> QED
    BY <2>1 DEF IsLongest
<1> QED
  BY <1>3, <1>4

LEMMA QuoteFound ==
    ASSUME Readable, NEW l, Ready(l), CharAt(l.src_index_) = Quote
    PROVE  Found(l, token_quote(l))
<1> DEFINE from == l.src_index_
           a == advance_char(l, 1)
           c == StringEnd(a)
           p == c.src_index_
           b == advance_char(c, 1)
<1>1. /\ l \in Cursor /\ from \in Nat /\ Len(src_) \in Nat
      /\ l.current_.type # "eof" /\ from < Len(src_)
  <2>1. CharAt(from) # NUL /\ l \in Cursor /\ from \in Nat /\ Len(src_) \in Nat
    BY DEF Ready, Cursor, Readable, Quote, NUL
  <2> QED
    BY <2>1, EndOfText DEF Ready
<1>2. /\ a \in Cursor /\ a.curr_line_ = l.curr_line_ /\ a.current_ = l.current_
      /\ a.src_index_ = from + 1 /\ a.exit = l.exit
  <2>1. 1 \in Nat
    OBVIOUS
  <2> QED
    BY <1>1, <2>1, AdvanceChar DEF SameButPlace
<1>3. Ready(a) /\ a.current_.type # "eof"
  BY <1>1, <1>2 DEF Ready
<1>4. CharAt(a.src_index_ - 1) # Backslash
  <2>1. a.src_index_ - 1 = from
    BY <1>1, <1>2
  <2> QED
    BY <2>1 DEF Quote, Backslash
<1>5. c \in StringPart(a) /\ (c.exit \/ CharAt(p) \in {NUL, Quote})
  BY <1>3, <1>4, StringRead
<1>6. token_quote(l) = IF CharAt(p) = Quote THEN Token("string", from, b)
                       ELSE Token("illegal", from, c)
  BY DEF token_quote, current_char
<1> HIDE DEF a, c
<1>7. /\ c \in Cursor /\ p \in Nat /\ c.curr_line_ = l.curr_line_ /\ from + 1 <= p
      /\ c.current_.type # "eof"
  BY <1>1, <1>2, <1>3, <1>5 DEF StringPart, SameButPlace, Cursor
<1>8. b \in Cursor /\ b.exit = c.exit /\ b.curr_line_ = l.curr_line_
  <2>1. 1 \in Nat
    OBVIOUS
  <2> QED
    BY <1>1, <1>7, <2>1, AdvanceChar DEF SameButPlace
<1>9. CASE c.exit
  <2>1. /\ Token("string", from, b) \in Cursor /\ Token("string", from, b).exit
        /\ Token("illegal", from, c) \in Cursor /\ Token("illegal", from, c).exit
    <3>1. "string" \in TokenTypes /\ "illegal" \in TokenTypes
      BY DEF TokenTypes, LexemeTypes
    <3> HIDE DEF b, from
    <3> QED
      BY <1>1, <1>7, <1>8, <1>9, <3>1, TokenFields
  <2> QED
    BY <1>6, <2>1 DEF Found
<1>10. CASE ~c.exit
  <2>1. /\ p <= Len(src_)
        /\ \A q \in (from + 1)..(p - 1) : InString(q)
        /\ CharAt(p) = Quote => CharAt(p - 1) # Backslash
    BY <1>2, <1>5, <1>10 DEF StringPart
  <2>2. /\ CharAt(p) = Quote => IsLongest("string", from, p + 1)
        /\ CharAt(p) = NUL => IsLongest("illegal", from, p)
    <3> HIDE DEF p, from
    <3> QED
      BY <1>1, <1>7, <2>1, StringIsLongest DEF from
  <2>3. CASE CharAt(p) = Quote
    <3>1. p < Len(src_)
      BY <1>1, <1>7, <2>3, EndOfText DEF Quote, NUL
    <3>2. 1 \in Nat
      OBVIOUS
    <3>3. b.src_index_ = p + 1
      BY <1>1, <1>7, <3>1, <3>2, AdvanceChar
    <3>4. from < b.src_index_ /\ b.src_index_ <= Len(src_)
      BY <1>1, <1>7, <3>1, <3>3
    <3> HIDE DEF b
    <3>5. Found(l, Token("string", from, b))
      BY <1>8, <2>2, <2>3, <3>3, <3>4, TokenRead DEF LexemeTypes
    <3> QED
      BY <1>6, <2>3, <3>5
  <2>4. CASE CharAt(p) # Quote
    <3>1. CharAt(p) = NUL
      BY <1>5, <1>10, <2>4
    <3>2. from < p
      BY <1>1, <1>7
    <3>3. Found(l, Token("illegal", from, c))
      BY <1>7, <2>1, <2>2, <3>1, <3>2, TokenRead
    <3> QED
      BY <1>6, <2>4, <3>3
  <2> QED
    BY <2>3, <2>4
<1> QED
  BY <1>7, <1>9, <1>10 DEF Cursor

\* A character of a word, and no half of one.
InWord(p, from, to) ==
    /\ ~is_char_reserved(CharAt(p))
    /\ CharAt(p) = Lead => p + 1 < to
    /\ CharAt(p) = Continuation => p > from /\ CharAt(p - 1) = Lead

WordPart(l) ==
    {c \in Cursor :
        /\ SameButPlace(c, l)
        /\ \/ c.exit
           \/ /\ c.src_index_ <= Len(src_)
              /\ \A p \in l.src_index_..(c.src_index_ - 1) :
                     InWord(p, l.src_index_, c.src_index_)}

LEMMA WordTurn ==
    ASSUME Readable, NEW l, Ready(l), l.current_.type # "eof",
           NEW c \in WordPart(l), ~c.exit, ~is_char_reserved(CharAt(c.src_index_))
    PROVE  /\ skip_char(c) \in WordPart(l)
           /\ skip_char(c).exit \/ skip_char(c).src_index_ > c.src_index_
<1> DEFINE p == c.src_index_
           s == skip_char(c)
           from == l.src_index_
<1>1. /\ l \in Cursor /\ from \in Nat /\ Len(src_) \in Nat
      /\ c \in Cursor /\ p \in Nat /\ SameButPlace(c, l)
      /\ c.current_.type # "eof" /\ from <= p /\ p <= Len(src_)
      /\ \A q \in from..(p - 1) : InWord(q, from, p)
  BY DEF Ready, Cursor, Readable, WordPart, SameButPlace
<1>2. CharAt(p) # NUL
  BY DEF is_char_reserved
<1>3. /\ SameButPlace(s, c) /\ s.src_index_ \in Nat
      /\ ~s.exit =>
             /\ s.src_index_ > p /\ s.src_index_ <= Len(src_)
             /\ CharAt(p) # Continuation
             /\ CharAt(p) # Lead => s.src_index_ = p + 1
             /\ CharAt(p) = Lead =>
                    CharAt(p + 1) = Continuation /\ s.src_index_ = p + 2
  BY <1>1, <1>2, SkipTurn
<1> HIDE DEF s
<1>4. SameButPlace(s, l)
  BY <1>1, <1>3 DEF SameButPlace
<1>5. ASSUME ~s.exit PROVE \A q \in from..(s.src_index_ - 1) : InWord(q, from, s.src_index_)
  <2> SUFFICES ASSUME NEW q \in from..(s.src_index_ - 1)
               PROVE  InWord(q, from, s.src_index_)
    OBVIOUS
  <2>1. CASE q < p
    <3>1. InWord(q, from, p)
      BY <1>1, <2>1
    <3> QED
      BY <1>1, <1>3, <1>5, <3>1 DEF InWord
  <2>2. CASE q = p
    BY <1>1, <1>3, <1>5, <2>2 DEF InWord
  <2>3. CASE q > p
    <3>1. q = p + 1 /\ CharAt(p) = Lead /\ CharAt(q) = Continuation /\ q - 1 = p
      BY <1>1, <1>3, <1>5, <2>3
    <3>2. ~is_char_reserved(Continuation)
      BY SecondCharacters DEF is_char_reserved, Continuation, NUL, Quote, Blanks, Space,
         Newline, Single, Backslash
    <3> QED
      BY <1>1, <3>1, <3>2 DEF InWord, Lead, Continuation
  <2> QED
    BY <1>1, <2>1, <2>2, <2>3
<1>6. s \in WordPart(l)
  BY <1>3, <1>4, <1>5 DEF WordPart, SameButPlace
<1> QED
  BY <1>3, <1>6 DEF s

LEMMA WordRead ==
    ASSUME Readable, NEW l, Ready(l), l.current_.type # "eof"
    PROVE  LET c == WordEnd(l)
           IN c \in WordPart(l) /\ (c.exit \/ is_char_reserved(CharAt(c.src_index_)))
<1> DEFINE S == WordPart(l)
           Done == {c \in Cursor : is_char_reserved(CharAt(c.src_index_))}
           body == [c \in Cursor |->
                       IF c.exit \/ is_char_reserved(current_char(c)) THEN c
                       ELSE skip_char(c)]
<1>1. l \in Cursor /\ l.src_index_ \in Nat /\ Len(src_) \in Nat
  BY DEF Ready, Cursor, Readable
<1>2. l \in S
  BY <1>1 DEF WordPart, Ready, SameButPlace
<1>3. Scans(body, S, Done)
  <2> SUFFICES ASSUME NEW c \in S
               PROVE  IF c.exit \/ c \in Done THEN body[c] = c
                      ELSE /\ c.src_index_ <= Len(src_)
                           /\ body[c] \in S
                           /\ body[c].exit \/ body[c].src_index_ > c.src_index_
    BY DEF Scans, WordPart
  <2>1. c \in Cursor /\ (c.exit \/ c.src_index_ <= Len(src_))
    BY DEF WordPart
  <2>2. CASE c.exit \/ c \in Done
    BY <2>1, <2>2 DEF current_char
  <2>3. CASE ~c.exit /\ ~is_char_reserved(CharAt(c.src_index_))
    <3>1. skip_char(c) \in S /\ (skip_char(c).exit \/ skip_char(c).src_index_ > c.src_index_)
      BY <2>3, WordTurn
    <3>2. body[c] = skip_char(c)
      BY <2>1, <2>3 DEF current_char
    <3> QED
      BY <2>1, <2>3, <3>1, <3>2
  <2> QED
    BY <2>1, <2>2, <2>3
<1>4. WordEnd(l) = Loop(body, l)
  BY DEF WordEnd
<1> HIDE DEF body, S, Done
<1>5. Loop(body, l) \in S /\ (Loop(body, l).exit \/ Loop(body, l) \in Done)
  BY <1>1, <1>2, <1>3, ScanEnds
<1> QED
  BY <1>4, <1>5 DEF S, Done

LEMMA WordFound ==
    ASSUME Readable, NEW l, Ready(l), CharAt(l.src_index_) \notin Digits,
           ~is_char_reserved(CharAt(l.src_index_))
    PROVE  Found(l, token_word(l))
<1> DEFINE from == l.src_index_
           c == WordEnd(l)
           to == c.src_index_
           type == IF is_char_reserved(CharAt(to - 1)) THEN "illegal" ELSE "word"
<1>1. /\ l \in Cursor /\ from \in Nat /\ Len(src_) \in Nat
      /\ l.current_.type # "eof"
  BY DEF Ready, Cursor, Readable, is_char_reserved
<1>2. c \in WordPart(l) /\ (c.exit \/ is_char_reserved(CharAt(to)))
  BY <1>1, WordRead
<1>3. token_word(l) = IF c.exit THEN c ELSE Token(type, from, c)
  BY DEF token_word
<1> HIDE DEF c
<1>4. c \in Cursor /\ c.curr_line_ = l.curr_line_ /\ to \in Nat /\ from <= to
  BY <1>2 DEF WordPart, SameButPlace, Cursor
<1>5. ASSUME ~c.exit PROVE Found(l, Token(type, from, c))
  <2>1. to <= Len(src_) /\ \A p \in from..(to - 1) : InWord(p, from, to)
    BY <1>2, <1>5 DEF WordPart
  <2>2. from < to
    BY <1>1, <1>2, <1>4, <1>5
  <2>3. type = "word"
    BY <1>1, <1>4, <2>1, <2>2 DEF InWord
  <2>4. Word(from, to)
    BY <2>1, <2>2 DEF Word, InWord
  <2>5. LexemeEnds(from) = {end \in (from + 1)..Len(src_) : Word(from, end)}
    BY <1>1, OneType
  <2>6. \A end \in LexemeEnds(from) : end <= to
    BY <1>1, <1>2, <1>4, <1>5, <2>5 DEF Word
  <2>7. IsLongest("word", from, to)
    BY <1>1, <1>4, <2>1, <2>2, <2>4, <2>5, <2>6 DEF IsLongest, Lexeme, LongestEnd
  <2> HIDE DEF type
  <2>8. Found(l, Token("word", from, c))
    BY <1>4, <2>1, <2>2, <2>7, TokenRead DEF LexemeTypes
  <2> QED
    BY <2>3, <2>8
<1> QED
  BY <1>3, <1>4, <1>5 DEF Found

LEMMA CharacterIsLongest ==
    ASSUME NEW from \in Nat, Len(src_) \in Nat, CharAt(from) = "'"
    PROVE  LET a == CharAt(from + 1)
               b == CharAt(from + 2)
               c == CharAt(from + 3)
           IN /\ a = "'" => IsLongest("character", from, from + 2)
              /\ a \notin {"'", Backslash, Lead, Continuation} =>
                     IF b = "'" THEN IsLongest("character", from, from + 3)
                     ELSE LexemeEnds(from) = {}
              /\ a = Backslash =>
                     IF b \notin {Lead, Continuation} /\ c = "'"
                     THEN IsLongest("character", from, from + 4)
                     ELSE LexemeEnds(from) = {}
              /\ a \in {Lead, Continuation} => LexemeEnds(from) = {}
<1> DEFINE a == CharAt(from + 1)
           b == CharAt(from + 2)
           c == CharAt(from + 3)
           Fits(to) == \/ to = from + 2 /\ a = "'"
                       \/ /\ to = from + 3 /\ b = "'"
                          /\ a \notin {"'", Backslash, Lead, Continuation}
                       \/ /\ to = from + 4 /\ c = "'" /\ a = Backslash
                          /\ b \notin {Lead, Continuation}
<1>1. LexemeEnds(from) = {to \in (from + 1)..Len(src_) : Character(from, to)}
  BY OneType
<1>2. /\ "'" \notin {Lead, Continuation, NUL, Backslash}
      /\ Backslash \notin {Lead, Continuation}
  BY DEF Lead, Continuation, NUL, Backslash
<1>3. ASSUME NEW to \in Nat PROVE Character(from, to) <=> Fits(to)
  <2>1. CASE to = from + 2
    <3>1. Chars(from, to) = {CharAt(from), a} /\ to - 1 = from + 1
      BY <2>1 DEF Chars
    <3> QED
      BY <1>2, <2>1, <3>1 DEF Character
  <2>2. CASE to = from + 3
    <3>1. Chars(from, to) = {CharAt(from), a, b} /\ to - 1 = from + 2
      BY <2>2 DEF Chars
    <3>2. Character(from, to) <=> /\ b = "'" /\ a \notin {"'", Backslash}
                                  /\ {CharAt(from), a, b} \cap {Lead, Continuation} = {}
      <4>1. /\ to \in (from + 2)..(from + 4)
            /\ to = from + 3 /\ to # from + 4
        BY <2>2
      <4> QED
        BY <3>1, <4>1 DEF Character
    <3>3. Fits(to) <=> b = "'" /\ a \notin {"'", Backslash, Lead, Continuation}
      BY <2>2
    <3> QED
      BY <1>2, <3>2, <3>3
  <2>3. CASE to = from + 4
    <3>1. Chars(from, to) = {CharAt(from), a, b, c} /\ to - 1 = from + 3
      BY <2>3 DEF Chars
    <3> QED
      BY <1>2, <2>3, <3>1 DEF Character
  <2>4. CASE to \notin {from + 2, from + 3, from + 4}
    BY <2>4 DEF Character
  <2> QED
    BY <2>1, <2>2, <2>3, <2>4
<1>4. /\ a = "'" => from + 2 <= Len(src_)
      /\ b = "'" => from + 3 <= Len(src_)
      /\ c = "'" => from + 4 <= Len(src_)
  BY <1>2, EndOfText
<1>5. \A to \in LexemeEnds(from) : Fits(to)
  BY <1>1, <1>3
<1>6. ASSUME NEW to \in Nat, Fits(to) PROVE IsLongest("character", from, to)
  <2>1. Character(from, to)
    BY <1>3, <1>6
  <2>2. to \in (from + 1)..Len(src_)
    BY <1>4, <1>6
  <2>3. to \in LexemeEnds(from)
    BY <1>1, <2>1, <2>2
  <2>4. \A end \in LexemeEnds(from) : end <= to
    BY <1>2, <1>5, <1>6
  <2> QED
    BY <2>1, <2>3, <2>4 DEF IsLongest, Lexeme, LongestEnd
<1>7. (\A to \in Nat : ~Fits(to)) => LexemeEnds(from) = {}
  <2> HIDE DEF Fits
  <2>1. \A to \in LexemeEnds(from) : to \in Nat /\ Fits(to)
    BY <1>1, <1>5
  <2> QED
    BY <2>1
<1>8. a = "'" => IsLongest("character", from, from + 2)
  BY <1>6
<1>9. a \notin {"'", Backslash, Lead, Continuation} =>
          IF b = "'" THEN IsLongest("character", from, from + 3)
          ELSE LexemeEnds(from) = {}
  BY <1>6, <1>7
<1>10. a = Backslash =>
           IF b \notin {Lead, Continuation} /\ c = "'"
           THEN IsLongest("character", from, from + 4)
           ELSE LexemeEnds(from) = {}
  BY <1>2, <1>6, <1>7
<1>11. a \in {Lead, Continuation} => LexemeEnds(from) = {}
  BY <1>2, <1>7
<1> HIDE DEF Fits
<1> QED
  BY <1>8, <1>9, <1>10, <1>11

\* The cursor on a character further, unless it is at the end.
LEMMA OneFurther ==
    ASSUME Len(src_) \in Nat, NEW c \in Cursor, c.current_.type # "eof"
    PROVE  LET d == advance_char(c, 1)
           IN /\ d \in Cursor /\ d.curr_line_ = c.curr_line_
              /\ d.current_ = c.current_ /\ d.exit = c.exit
              /\ d.src_index_ = IF c.src_index_ < Len(src_) THEN c.src_index_ + 1
                                ELSE c.src_index_
<1>1. 1 \in Nat /\ c.src_index_ \in Nat
  BY DEF Cursor
<1>2. ~(c.src_index_ < Len(src_)) => advance_char(c, 1) = c
  BY DEF advance_char
<1> QED
  BY <1>1, <1>2, AdvanceChar DEF SameButPlace

LEMMA SingleQuoteFound ==
    ASSUME Readable, NEW l, Ready(l), CharAt(l.src_index_) = "'"
    PROVE  Found(l, token_singlequote(l))
<1> DEFINE from == l.src_index_
           s == advance_char(l, 1)
           t == advance_char(s, 1)
           u == advance_char(t, 1)
           v == advance_char(u, 1)
           a == CharAt(from + 1)
           b == CharAt(from + 2)
           c == CharAt(from + 3)
           Closed(end) == IF CharAt(end.src_index_) = "'"
                          THEN Token("character", from, advance_char(end, 1))
                          ELSE Token("illegal", from, end)
<1>1. /\ l \in Cursor /\ from \in Nat /\ Len(src_) \in Nat
      /\ l.current_.type # "eof" /\ from < Len(src_)
  <2>1. CharAt(from) # NUL /\ l \in Cursor /\ from \in Nat /\ Len(src_) \in Nat
    BY DEF Ready, Cursor, Readable, NUL
  <2> QED
    BY <2>1, EndOfText DEF Ready
<1>2. /\ s \in Cursor /\ s.curr_line_ = l.curr_line_ /\ s.current_ = l.current_
      /\ s.src_index_ = from + 1
  BY <1>1, OneFurther
<1>3. /\ a = Backslash /\ CharAt(t.src_index_) \in {Lead, Continuation} =>
             token_singlequote(l) = Token("illegal", from, t)
      /\ a = Backslash /\ CharAt(t.src_index_) \notin {Lead, Continuation} =>
             token_singlequote(l) = Closed(u)
      /\ a = "'" => token_singlequote(l) = Token("character", from, t)
      /\ a \in {Lead, Continuation} => token_singlequote(l) = Token("illegal", from, s)
      /\ a \notin {"'", Backslash, Lead, Continuation} =>
             token_singlequote(l) = Closed(t)
  <2>1. token_singlequote(l) =
          CASE a = Backslash -> IF CharAt(t.src_index_) \in {Lead, Continuation}
                                THEN Token("illegal", from, t) ELSE Closed(u)
            [] a = "'" -> Token("character", from, t)
            [] a \in {Lead, Continuation} -> Token("illegal", from, s)
            [] OTHER -> Closed(t)
    BY <1>2 DEF token_singlequote, current_char, is_current_utf8_begin
  <2>2. Backslash # "'" /\ {Lead, Continuation} \cap {"'", Backslash} = {}
    BY DEF Lead, Continuation, Backslash
  <2> HIDE DEF a, s, t, u, Closed
  <2> QED
    BY <2>1, <2>2
<1> HIDE DEF s
<1>4. /\ t \in Cursor /\ t.curr_line_ = l.curr_line_ /\ t.current_ = l.current_
      /\ t.src_index_ = IF from + 1 < Len(src_) THEN from + 2 ELSE from + 1
  <2>1. s.current_.type # "eof"
    BY <1>1, <1>2
  <2>2. (from + 1) + 1 = from + 2
    BY <1>1
  <2> QED
    BY <1>1, <1>2, <2>1, <2>2, OneFurther
<1> HIDE DEF t
<1>5. /\ u \in Cursor /\ u.curr_line_ = l.curr_line_ /\ u.current_ = l.current_
      /\ u.src_index_ = IF t.src_index_ < Len(src_) THEN t.src_index_ + 1
                        ELSE t.src_index_
  BY <1>1, <1>4, OneFurther
<1> HIDE DEF u
<1>6. /\ v \in Cursor /\ v.curr_line_ = l.curr_line_
      /\ v.src_index_ = IF u.src_index_ < Len(src_) THEN u.src_index_ + 1
                        ELSE u.src_index_
  BY <1>1, <1>5, OneFurther
<1> HIDE DEF v
<1>7. /\ a = "'" => IsLongest("character", from, from + 2)
      /\ a \notin {"'", Backslash, Lead, Continuation} =>
             IF b = "'" THEN IsLongest("character", from, from + 3)
             ELSE LexemeEnds(from) = {}
      /\ a = Backslash =>
             IF b \notin {Lead, Continuation} /\ c = "'"
             THEN IsLongest("character", from, from + 4)
             ELSE LexemeEnds(from) = {}
      /\ a \in {Lead, Continuation} => LexemeEnds(from) = {}
  BY <1>1, CharacterIsLongest
<1>8. /\ a # NUL => from + 1 < Len(src_)
      /\ b # NUL => from + 2 < Len(src_)
      /\ c # NUL => from + 3 < Len(src_)
      /\ CharAt(Len(src_)) = NUL
      /\ NUL \notin {"'", Backslash, Lead, Continuation}
  BY <1>1, EndOfText DEF NUL, Backslash, Lead, Continuation
<1>9. LexemeEnds(from) = {} => \A to : IsLongest("illegal", from, to)
  BY DEF IsLongest
<1>10. CASE a = Backslash
  <2>1. t.src_index_ = from + 2 /\ from + 1 < Len(src_)
    BY <1>4, <1>8, <1>10
  <2>2. CASE b \in {Lead, Continuation}
    <3>1. IsLongest("illegal", from, from + 2)
      BY <1>7, <1>9, <1>10, <2>2
    <3>2. from < t.src_index_ /\ t.src_index_ <= Len(src_)
      BY <1>1, <2>1
    <3>3. Found(l, Token("illegal", from, t))
      BY <1>4, <2>1, <3>1, <3>2, TokenRead
    <3> QED
      BY <1>3, <1>10, <2>1, <2>2, <3>3
  <2>3. CASE b \notin {Lead, Continuation} /\ c = "'"
    <3>1. from + 3 < Len(src_) /\ from + 2 < Len(src_)
      BY <1>1, <1>8, <2>3
    <3>2. u.src_index_ = from + 3
      BY <1>1, <1>5, <2>1, <3>1
    <3>3. v.src_index_ = from + 4
      BY <1>1, <1>6, <3>1, <3>2
    <3>4. IsLongest("character", from, v.src_index_)
      BY <1>7, <1>10, <2>3, <3>3
    <3>5. from < v.src_index_ /\ v.src_index_ <= Len(src_)
      BY <1>1, <3>1, <3>3
    <3>6. Found(l, Token("character", from, v))
      BY <1>6, <3>4, <3>5, TokenRead DEF LexemeTypes
    <3> QED
      BY <1>3, <1>10, <2>1, <2>3, <3>2, <3>6 DEF v
  <2>4. CASE b \notin {Lead, Continuation} /\ c # "'"
    <3>1. /\ u.src_index_ = IF from + 2 < Len(src_) THEN from + 3 ELSE from + 2
          /\ from < u.src_index_ /\ u.src_index_ <= Len(src_)
      BY <1>1, <1>5, <2>1
    <3>2. CharAt(u.src_index_) # "'"
      <4>1. CASE from + 2 < Len(src_)
        BY <2>4, <3>1, <4>1
      <4>2. CASE ~(from + 2 < Len(src_))
        BY <1>1, <1>8, <2>1, <3>1, <4>2
      <4> QED
        BY <4>1, <4>2
    <3>3. IsLongest("illegal", from, u.src_index_)
      BY <1>7, <1>9, <1>10, <2>4
    <3>4. Found(l, Token("illegal", from, u))
      BY <1>5, <3>1, <3>3, TokenRead
    <3> QED
      BY <1>3, <1>10, <2>1, <2>4, <3>2, <3>4
  <2> QED
    BY <2>2, <2>3, <2>4
<1>11. CASE a = "'"
  <2>1. t.src_index_ = from + 2 /\ from + 1 < Len(src_)
    BY <1>4, <1>8, <1>11
  <2>2. from < t.src_index_ /\ t.src_index_ <= Len(src_)
    BY <1>1, <2>1
  <2>3. Found(l, Token("character", from, t))
    BY <1>4, <1>7, <1>11, <2>1, <2>2, TokenRead DEF LexemeTypes
  <2>4. a # Backslash
    BY <1>11 DEF Backslash
  <2> QED
    BY <1>3, <1>11, <2>3, <2>4
<1>12. CASE a \in {Lead, Continuation}
  <2>1. from < s.src_index_ /\ s.src_index_ <= Len(src_)
    BY <1>1, <1>2
  <2>2. Found(l, Token("illegal", from, s))
    BY <1>2, <1>7, <1>9, <1>12, <2>1, TokenRead
  <2>3. a # Backslash /\ a # "'"
    BY <1>12 DEF Backslash, Lead, Continuation
  <2> QED
    BY <1>3, <1>12, <2>2, <2>3
<1>13. CASE a \notin {"'", Backslash, Lead, Continuation}
  <2>1. token_singlequote(l) = Closed(t)
    BY <1>3, <1>13
  <2>2. CASE b = "'"
    <3>1. from + 2 < Len(src_) /\ from + 1 < Len(src_)
      BY <1>1, <1>8, <2>2
    <3>2. t.src_index_ = from + 2
      BY <1>4, <3>1
    <3>3. u.src_index_ = from + 3
      BY <1>1, <1>5, <3>1, <3>2
    <3>4. IsLongest("character", from, u.src_index_)
      BY <1>7, <1>13, <2>2, <3>3
    <3>5. from < u.src_index_ /\ u.src_index_ <= Len(src_)
      BY <1>1, <3>1, <3>3
    <3>6. Found(l, Token("character", from, u))
      BY <1>5, <3>4, <3>5, TokenRead DEF LexemeTypes
    <3> QED
      BY <2>1, <2>2, <3>2, <3>6 DEF u
  <2>3. CASE b # "'"
    <3>1. from < t.src_index_ /\ t.src_index_ <= Len(src_)
      BY <1>1, <1>4
    <3>2. CharAt(t.src_index_) # "'"
      <4>1. CASE from + 1 < Len(src_)
        BY <1>4, <2>3, <4>1
      <4>2. CASE ~(from + 1 < Len(src_))
        BY <1>1, <1>4, <1>8, <4>2
      <4> QED
        BY <4>1, <4>2
    <3>3. Found(l, Token("illegal", from, t))
      BY <1>4, <1>7, <1>9, <1>13, <2>3, <3>1, TokenRead
    <3> QED
      BY <2>1, <3>2, <3>3
  <2> QED
    BY <2>2, <2>3
<1> QED
  BY <1>10, <1>11, <1>12, <1>13

-----------------------------------------------------------------------------
(* Numbers *)

LEMMA NumeralIsFloat ==
    ASSUME NEW from \in Nat, NEW to \in Nat, Numeral(from, to)
    PROVE  Float(from, to) /\ CharAt(to - 1) \in Digits
<1>1. Float(from, to)
  BY DEF Float, Mantissa
<1>2. to - 1 \in from..(to - 1)
  BY DEF Numeral
<1>3. CharAt(to - 1) \in Digits
  BY <1>2 DEF Numeral, Chars
<1> QED
  BY <1>1, <1>3

LEMMA NumberLexemes ==
    ASSUME NEW from \in Nat, Len(src_) \in Nat, CharAt(from) \in Digits
    PROVE  LexemeEnds(from) =
               {to \in (from + 1)..Len(src_) :
                   (Float(from, to) /\ CharAt(to - 1) \in Digits) \/ Hex(from, to)}
<1> DEFINE Fits(to) == (Float(from, to) /\ CharAt(to - 1) \in Digits) \/ Hex(from, to)
<1>1. /\ CharAt(from) # Quote /\ CharAt(from) # "'"
      /\ CharAt(from) \notin Beginnings
  BY SecondCharacters DEF Beginnings, Digits, Quote, Single, Backslash
<1>2. \A to \in (from + 1)..Len(src_) : \A type \in LexemeTypes :
          Lexeme(type, from, to) => type \in {"integer", "float", "hex"}
  <2> SUFFICES ASSUME NEW to \in (from + 1)..Len(src_), NEW type \in LexemeTypes,
                      Lexeme(type, from, to)
               PROVE  type \in {"integer", "float", "hex"}
    OBVIOUS
  <2>1. to \in Nat /\ from < to
    OBVIOUS
  <2>2. /\ type = "word" => CharAt(from) \notin Digits
        /\ type = "string" => CharAt(from) = Quote
        /\ type = "character" => CharAt(from) = "'"
        /\ type = "operator" => CharAt(from) \in Beginnings
    BY <2>1, FirstCharacter
  <2> QED
    BY <1>1, <2>2 DEF LexemeTypes
<1>3. \A to \in (from + 1)..Len(src_) :
          Fits(to) <=> \E type \in LexemeTypes : Lexeme(type, from, to)
  <2> SUFFICES ASSUME NEW to \in (from + 1)..Len(src_)
               PROVE  Fits(to) <=> \E type \in LexemeTypes : Lexeme(type, from, to)
    OBVIOUS
  <2>1. to \in Nat
    OBVIOUS
  <2>2. /\ Lexeme("integer", from, to) <=> Numeral(from, to)
        /\ Lexeme("float", from, to) <=> /\ Float(from, to) /\ ~Numeral(from, to)
                                         /\ CharAt(to - 1) \in Digits
        /\ Lexeme("hex", from, to) <=> Hex(from, to)
        /\ {"integer", "float", "hex"} \subseteq LexemeTypes
    BY DEF Lexeme, LexemeTypes
  <2>3. Numeral(from, to) => Float(from, to) /\ CharAt(to - 1) \in Digits
    BY <2>1, NumeralIsFloat
  <2>4. (\E type \in LexemeTypes : Lexeme(type, from, to)) =>
            \/ Lexeme("integer", from, to) \/ Lexeme("float", from, to)
            \/ Lexeme("hex", from, to)
    BY <1>2
  <2> QED
    BY <2>2, <2>3, <2>4
<1> HIDE DEF Fits
<1>4. LexemeEnds(from) = {to \in (from + 1)..Len(src_) : Fits(to)}
  BY <1>3 DEF LexemeEnds
<1> QED
  BY <1>4 DEF Fits

DigitsIn(from, to) == \A p \in from..(to - 1) : CharAt(p) \in Digits

\* A number up to a position: its digits, those behind a dot at d, and those of an
\* exponent at e, which begin at s.
Shape(from, d, e, s, to) ==
    /\ from < d /\ d <= e /\ e <= to
    /\ DigitsIn(from, d)
    /\ d < e => CharAt(d) = "." /\ DigitsIn(d + 1, e)
    /\ e < to => /\ CharAt(e) = "e"
                 /\ s = IF CharAt(e + 1) \in {"+", "-"} THEN e + 2 ELSE e + 1
                 /\ s <= to
                 /\ DigitsIn(s, to)

LEMMA NumeralDigits ==
    ASSUME NEW from \in Nat, NEW to \in Nat
    PROVE  Numeral(from, to) <=> from < to /\ DigitsIn(from, to)
  BY DEF Numeral, DigitsIn, Chars

LEMMA MantissaShape ==
    ASSUME NEW from \in Nat, NEW to \in Nat
    PROVE  Mantissa(from, to) <=> \E d \in Nat : Shape(from, d, to, to, to)
<1>1. ASSUME Numeral(from, to) PROVE Shape(from, to, to, to, to)
  BY <1>1, NumeralDigits DEF Shape
<1>2. ASSUME NEW d \in from..(to - 1), CharAt(d) = ".", Numeral(from, d),
             Chars(d + 1, to) \subseteq Digits
      PROVE  Shape(from, d, to, to, to)
  <2>1. d \in Nat /\ d < to
    OBVIOUS
  <2>2. from < d /\ DigitsIn(from, d)
    BY <1>2, <2>1, NumeralDigits
  <2>3. DigitsIn(d + 1, to)
    BY <1>2 DEF DigitsIn, Chars
  <2> QED
    BY <1>2, <2>1, <2>2, <2>3 DEF Shape
<1>3. ASSUME NEW d \in Nat, Shape(from, d, to, to, to) PROVE Mantissa(from, to)
  <2>1. from < d /\ d <= to /\ Numeral(from, d)
    BY <1>3, NumeralDigits DEF Shape
  <2>2. CASE d = to
    BY <2>1, <2>2 DEF Mantissa
  <2>3. CASE d < to
    <3>1. CharAt(d) = "." /\ Chars(d + 1, to) \subseteq Digits
      BY <1>3, <2>3 DEF Shape, DigitsIn, Chars
    <3> QED
      BY <2>1, <2>3, <3>1 DEF Mantissa
  <2> QED
    BY <2>1, <2>2, <2>3
<1>4. Mantissa(from, to) => \E d \in Nat : Shape(from, d, to, to, to)
  <2>1. ASSUME Mantissa(from, to), ~Numeral(from, to)
        PROVE  \E d \in Nat : Shape(from, d, to, to, to)
    <3>1. PICK d \in from..(to - 1) : /\ CharAt(d) = "." /\ Numeral(from, d)
                                      /\ Chars(d + 1, to) \subseteq Digits
      BY <2>1 DEF Mantissa
    <3> QED
      BY <1>2, <3>1
  <2> QED
    BY <1>1, <2>1
<1> QED
  BY <1>3, <1>4

LEMMA FloatShape ==
    ASSUME NEW from \in Nat, NEW to \in Nat
    PROVE  Float(from, to) <=>
               \E d, e, s \in Nat : Shape(from, d, e, s, to) /\ (e < to => s < to)
<1> DEFINE Shaped == \E d, e, s \in Nat :
                         Shape(from, d, e, s, to) /\ (e < to => s < to)
<1>1. ASSUME Mantissa(from, to) PROVE Shaped
  <2>1. PICK d \in Nat : Shape(from, d, to, to, to)
    BY <1>1, MantissaShape
  <2> QED
    BY <2>1
<1>2. ASSUME NEW e \in from..(to - 1), CharAt(e) = "e", Mantissa(from, e),
             \/ Numeral(e + 1, to)
             \/ CharAt(e + 1) \in {"+", "-"} /\ Numeral(e + 2, to)
      PROVE  Shaped
  <2>1. e \in Nat /\ e < to /\ e + 1 \in Nat /\ e + 2 \in Nat
    OBVIOUS
  <2>2. PICK d \in Nat : Shape(from, d, e, e, e)
    BY <1>2, <2>1, MantissaShape
  <2> DEFINE s == IF CharAt(e + 1) \in {"+", "-"} THEN e + 2 ELSE e + 1
  <2>3. Numeral(s, to)
    <3>1. Numeral(e + 1, to) => CharAt(e + 1) \in Digits
      BY <2>1, NumeralDigits DEF DigitsIn
    <3>2. "+" \notin Digits /\ "-" \notin Digits
      BY DEF Digits
    <3> QED
      BY <1>2, <3>1, <3>2
  <2>4. s \in Nat
    BY <2>1
  <2>5. s < to /\ DigitsIn(s, to)
    BY <2>3, <2>4, NumeralDigits
  <2>6. Shape(from, d, e, s, to)
    <3>1. s <= to
      BY <2>4, <2>5
    <3> QED
      BY <1>2, <2>1, <2>2, <2>5, <3>1 DEF Shape
  <2> HIDE DEF s
  <2> QED
    BY <2>1, <2>4, <2>5, <2>6
<1>3. ASSUME NEW d \in Nat, NEW e \in Nat, NEW s \in Nat, Shape(from, d, e, s, to),
             e < to => s < to
      PROVE  Float(from, to)
  <2>1. Shape(from, d, e, e, e)
    BY <1>3 DEF Shape
  <2>2. Mantissa(from, e)
    BY <2>1, MantissaShape
  <2>3. CASE e = to
    BY <2>2, <2>3 DEF Float
  <2>4. CASE e < to
    <3>1. /\ e \in from..(to - 1) /\ CharAt(e) = "e"
          /\ s = IF CharAt(e + 1) \in {"+", "-"} THEN e + 2 ELSE e + 1
      BY <1>3, <2>4 DEF Shape
    <3>2. Numeral(s, to)
      BY <1>3, <2>4, NumeralDigits DEF Shape
    <3> QED
      BY <2>2, <3>1, <3>2 DEF Float
  <2> QED
    BY <1>3, <2>3, <2>4 DEF Shape
<1>4. ASSUME Float(from, to) PROVE Shaped
  <2>1. CASE Mantissa(from, to)
    BY <1>1, <2>1
  <2>2. CASE ~Mantissa(from, to)
    <3>1. PICK e \in from..(to - 1) :
              /\ CharAt(e) = "e"
              /\ Mantissa(from, e)
              /\ \/ Numeral(e + 1, to)
                 \/ CharAt(e + 1) \in {"+", "-"} /\ Numeral(e + 2, to)
      BY <1>4, <2>2 DEF Float
    <3> QED
      BY <1>2, <3>1
  <2> QED
    BY <2>1, <2>2
<1> HIDE DEF Shaped
<1>5. Shaped => Float(from, to)
  BY <1>3 DEF Shaped
<1> QED
  BY <1>4, <1>5 DEF Shaped

\* Digits with a dot and digits behind it or without, and no way to go on with them.
MantissaEnds(from, d, e) ==
    /\ from < d /\ d <= e
    /\ DigitsIn(from, d)
    /\ d < e => CharAt(d) = "." /\ DigitsIn(d + 1, e)
    /\ CharAt(e) \notin Digits
    /\ d = e => CharAt(e) # "."

LEMMA ReadsOn ==
    ASSUME NEW from \in Nat, NEW d \in Nat, NEW e \in Nat, MantissaEnds(from, d, e),
           NEW d2 \in Nat, NEW e2 \in Nat, NEW s2 \in Nat, NEW to \in Nat,
           Shape(from, d2, e2, s2, to)
    PROVE  to <= e \/ (e2 = e /\ e < to /\ CharAt(e) = "e")
<1>1. /\ from < d /\ d <= e /\ DigitsIn(from, d)
      /\ d < e => CharAt(d) = "." /\ DigitsIn(d + 1, e)
      /\ CharAt(e) \notin Digits /\ (d = e => CharAt(e) # ".")
  BY DEF MantissaEnds
<1>2. /\ from < d2 /\ d2 <= e2 /\ e2 <= to /\ DigitsIn(from, d2)
      /\ d2 < e2 => CharAt(d2) = "." /\ DigitsIn(d2 + 1, e2)
      /\ e2 < to => CharAt(e2) = "e"
  BY DEF Shape
<1>3. "." \notin Digits /\ "e" \notin Digits /\ "e" # "."
  BY DEF Digits
<1>4. CharAt(d) \notin Digits
  BY <1>1, <1>3
<1>5. CASE d2 < d
  <2>1. CharAt(d2) \in Digits
    BY <1>1, <1>2, <1>5 DEF DigitsIn
  <2> QED
    BY <1>1, <1>2, <1>3, <1>5, <2>1
<1>6. CASE d2 > d
  <2>1. CharAt(d) \in Digits
    BY <1>1, <1>2, <1>6 DEF DigitsIn
  <2> QED
    BY <1>4, <2>1
<1>7. CASE d2 = d /\ d = e
  BY <1>1, <1>2, <1>7
<1>8. CASE d2 = d /\ d < e
  <2>1. CASE e2 = d
    BY <1>1, <1>2, <1>3, <1>8, <2>1
  <2>2. CASE d < e2 /\ e2 < e
    <3>1. CharAt(e2) \in Digits
      BY <1>1, <1>8, <2>2 DEF DigitsIn
    <3> QED
      BY <1>2, <1>3, <2>2, <3>1
  <2>3. CASE e2 > e
    <3>1. CharAt(e) \in Digits
      BY <1>2, <1>8, <2>3 DEF DigitsIn
    <3> QED
      BY <1>1, <3>1
  <2>4. CASE e2 = e
    BY <1>2, <2>4
  <2> QED
    BY <1>2, <1>8, <2>1, <2>2, <2>3, <2>4
<1> QED
  BY <1>1, <1>5, <1>6, <1>7, <1>8

\* No hexadecimal number begins here.
Decimal(from) ==
    CharAt(from) \in Digits /\ ~(CharAt(from) = "0" /\ CharAt(from + 1) = "x")

LEMMA DecimalLexemes ==
    ASSUME NEW from \in Nat, Len(src_) \in Nat, Decimal(from)
    PROVE  \A to : to \in LexemeEnds(from) <=>
               /\ to \in (from + 1)..Len(src_)
               /\ Float(from, to) /\ CharAt(to - 1) \in Digits
<1>1. \A to : ~Hex(from, to)
  BY DEF Hex, Decimal
<1>2. LexemeEnds(from) =
          {to \in (from + 1)..Len(src_) :
              (Float(from, to) /\ CharAt(to - 1) \in Digits) \/ Hex(from, to)}
  BY NumberLexemes DEF Decimal
<1> QED
  BY <1>1, <1>2

\* The longest number is in front of the exponent if that is not one.
LEMMA MantissaIsLongest ==
    ASSUME NEW from \in Nat, NEW d \in Nat, NEW e \in Nat, Len(src_) \in Nat,
           Decimal(from), MantissaEnds(from, d, e), e <= Len(src_),
           \A to \in LexemeEnds(from) : to <= e
    PROVE  /\ CharAt(e - 1) \in Digits => LongestEnd(from, e) /\ Float(from, e)
           /\ CharAt(e - 1) \notin Digits => LongestEnd(from, d) /\ CharAt(d) = "."
<1>1. /\ from < d /\ d <= e /\ DigitsIn(from, d)
      /\ d < e => CharAt(d) = "." /\ DigitsIn(d + 1, e)
  BY DEF MantissaEnds
<1>2. Shape(from, d, e, e, e) /\ Shape(from, d, d, d, d)
  BY <1>1 DEF Shape
<1>3. Float(from, e) /\ Float(from, d)
  <2>1. e \in Nat /\ d \in Nat /\ ~(e < e) /\ ~(d < d)
    OBVIOUS
  <2> QED
    BY <1>2, <2>1, FloatShape
<1>4. d \in (from + 1)..Len(src_) /\ e \in (from + 1)..Len(src_)
  BY <1>1
<1>5. CharAt(d - 1) \in Digits
  BY <1>1 DEF DigitsIn
<1>6. d \in LexemeEnds(from)
  BY <1>3, <1>4, <1>5, DecimalLexemes
<1>7. ASSUME CharAt(e - 1) \in Digits PROVE LongestEnd(from, e)
  BY <1>3, <1>4, <1>7, DecimalLexemes DEF LongestEnd
<1>8. ASSUME CharAt(e - 1) \notin Digits PROVE LongestEnd(from, d) /\ CharAt(d) = "."
  <2>1. d < e
    BY <1>1, <1>5, <1>8
  <2>2. e = d + 1
    <3> SUFFICES ASSUME e > d + 1 PROVE FALSE
      BY <2>1
    <3>1. e - 1 \in (d + 1)..(e - 1)
      OBVIOUS
    <3> QED
      BY <1>1, <1>8, <2>1, <3>1 DEF DigitsIn
  <2>3. e \notin LexemeEnds(from)
    BY <1>8, DecimalLexemes
  <2>4. ASSUME NEW to \in LexemeEnds(from) PROVE to <= d
    <3>1. to \in Nat /\ to <= e /\ to # e
      <4>1. to \in (from + 1)..Len(src_)
        BY DecimalLexemes
      <4> QED
        BY <2>3, <4>1
    <3> QED
      BY <2>2, <3>1
  <2> QED
    BY <1>1, <1>6, <2>1, <2>4 DEF LongestEnd
<1> QED
  BY <1>3, <1>7, <1>8

\* What is read of a number up to position i, and where it may end.
NumberAt(from, passed_dot, within_exponent, i) ==
    IF within_exponent
    THEN \E d, e, s \in Nat : /\ e < i /\ Shape(from, d, e, s, i)
                              /\ s = e + 2 => CharAt(s) \in Digits
    ELSE IF passed_dot
    THEN \E d \in Nat : d < i /\ Shape(from, d, i, i, i)
    ELSE from <= i /\ DigitsIn(from, i)
\* A sign behind an exponent, and no digit.
BrokenAt(from, i) ==
    \E d, e \in Nat : /\ i = e + 1 /\ Shape(from, d, e, e, e)
                      /\ CharAt(e) = "e" /\ CharAt(i) \in {"+", "-"}
                      /\ CharAt(i + 1) \notin Digits
NumberStops(from, passed_dot, within_exponent, legal, i) ==
    IF legal
    THEN /\ NumberAt(from, passed_dot, within_exponent, i)
         /\ \/ CharAt(i) \notin Digits \cup {".", "e"}
            \/ CharAt(i) = "." /\ CharAt(i + 1) = "." /\ CharAt(i + 2) = "."
    ELSE \/ /\ NumberAt(from, passed_dot, within_exponent, i)
            /\ \/ CharAt(i) = "." /\ (passed_dot \/ within_exponent)
               \/ CharAt(i) = "e" /\ within_exponent
         \/ BrokenAt(from, i)

NumberType(from, legal, i) ==
    CASE ~legal -> "illegal"
      [] CharAt(i - 1) \notin Digits -> "illegal"
      [] OTHER -> IF \A p \in from..(i - 1) : CharAt(p) \in Digits
                  THEN "integer" ELSE "float"

\* A number that ends at e without an exponent.
LEMMA MantissaTyped ==
    ASSUME NEW from \in Nat, NEW d \in Nat, NEW e \in Nat, Len(src_) \in Nat,
           Decimal(from), MantissaEnds(from, d, e), e <= Len(src_),
           \A to \in LexemeEnds(from) : to <= e,
           NEW legal \in BOOLEAN, ~legal => CharAt(e) \in {".", "e", "x"}
    PROVE  IsLongest(NumberType(from, legal, e), from, e)
<1>1. /\ from < d /\ d <= e /\ DigitsIn(from, d)
      /\ d < e => CharAt(d) = "." /\ DigitsIn(d + 1, e)
  BY DEF MantissaEnds
<1>2. /\ CharAt(e - 1) \in Digits => LongestEnd(from, e) /\ Float(from, e)
      /\ CharAt(e - 1) \notin Digits => LongestEnd(from, d) /\ CharAt(d) = "."
  BY MantissaIsLongest
<1>3. CharAt(from) \in Digits
  BY DEF Decimal
<1>4. CASE CharAt(e - 1) \notin Digits
  <2>1. NumberType(from, legal, e) = "illegal"
    BY <1>4 DEF NumberType
  <2> QED
    BY <1>2, <1>3, <1>4, <2>1 DEF IsLongest, LongestEnd
<1>5. CASE ~legal /\ CharAt(e - 1) \in Digits
  <2>1. NumberType(from, legal, e) = "illegal"
    BY <1>5 DEF NumberType
  <2> QED
    BY <1>2, <1>3, <1>5, <2>1 DEF IsLongest, LongestEnd
<1>6. CASE legal /\ CharAt(e - 1) \in Digits
  <2>1. NumberType(from, legal, e) = IF DigitsIn(from, e) THEN "integer" ELSE "float"
    BY <1>6 DEF NumberType, DigitsIn
  <2>2. Numeral(from, e) <=> DigitsIn(from, e)
    BY <1>1, NumeralDigits
  <2> QED
    BY <1>2, <1>6, <2>1, <2>2 DEF IsLongest, Lexeme
<1> QED
  BY <1>4, <1>5, <1>6

LEMMA EndsAtMantissa ==
    ASSUME NEW from \in Nat, NEW d \in Nat, NEW e \in Nat, Len(src_) \in Nat,
           Decimal(from), MantissaEnds(from, d, e),
           \/ CharAt(e) # "e"
           \/ CharAt(e + 1) \in {"+", "-"} /\ CharAt(e + 2) \notin Digits
    PROVE  \A to \in LexemeEnds(from) : to <= e
<1> SUFFICES ASSUME NEW to \in LexemeEnds(from) PROVE to <= e
  OBVIOUS
<1>1. to \in Nat /\ Float(from, to)
  <2>1. to \in (from + 1)..Len(src_) /\ Float(from, to)
    BY DecimalLexemes
  <2> QED
    BY <2>1
<1>2. PICK d2, e2, s2 \in Nat : Shape(from, d2, e2, s2, to) /\ (e2 < to => s2 < to)
  BY <1>1, FloatShape
<1>3. to <= e \/ (e2 = e /\ e < to /\ CharAt(e) = "e")
  BY <1>1, <1>2, ReadsOn
<1>4. CASE e2 = e /\ e < to /\ CharAt(e) = "e"
  <2>1. s2 = e + 2 /\ s2 < to /\ DigitsIn(s2, to) /\ CharAt(e + 2) \notin Digits
    BY <1>2, <1>4 DEF Shape
  <2>2. CharAt(s2) \in Digits
    BY <1>1, <2>1 DEF DigitsIn
  <2> QED
    BY <2>1, <2>2
<1> QED
  BY <1>3, <1>4

\* A number with an exponent, or with what begins one.
LEMMA ExponentTyped ==
    ASSUME NEW from \in Nat, NEW d \in Nat, NEW e \in Nat, NEW s \in Nat, NEW i \in Nat,
           Len(src_) \in Nat, Decimal(from), Shape(from, d, e, s, i), e < i,
           i <= Len(src_), s = e + 2 => CharAt(s) \in Digits, CharAt(i) \notin Digits,
           NEW legal \in BOOLEAN, ~legal => CharAt(i) \in {".", "e", "x"}
    PROVE  IsLongest(NumberType(from, legal, i), from, i)
<1>1. /\ from < d /\ d <= e /\ DigitsIn(from, d)
      /\ d < e => CharAt(d) = "." /\ DigitsIn(d + 1, e)
      /\ CharAt(e) = "e" /\ s <= i /\ DigitsIn(s, i)
      /\ s = IF CharAt(e + 1) \in {"+", "-"} THEN e + 2 ELSE e + 1
  BY DEF Shape
<1>2. /\ "e" \notin Digits /\ "e" # "." /\ "." \notin Digits
      /\ "+" \notin Digits /\ "-" \notin Digits
  BY DEF Digits
<1>3. MantissaEnds(from, d, e)
  BY <1>1, <1>2 DEF MantissaEnds
<1>4. ASSUME NEW to \in LexemeEnds(from), to > e
      PROVE  s < i /\ to <= i
  <2>1. to \in Nat /\ Float(from, to)
    <3>1. to \in (from + 1)..Len(src_) /\ Float(from, to)
      BY DecimalLexemes
    <3> QED
      BY <3>1
  <2>2. PICK d2, e2, s2 \in Nat : Shape(from, d2, e2, s2, to) /\ (e2 < to => s2 < to)
    BY <2>1, FloatShape
  <2>3. e2 = e
    BY <1>3, <1>4, <2>1, <2>2, ReadsOn
  <2>4. s2 = s /\ s < to /\ DigitsIn(s, to)
    BY <1>1, <1>4, <2>2, <2>3 DEF Shape
  <2>5. to <= i
    <3> SUFFICES ASSUME to > i PROVE FALSE
      BY <2>1
    <3>1. CharAt(i) \in Digits
      BY <1>1, <2>1, <2>4 DEF DigitsIn
    <3> QED
      BY <3>1
  <2> QED
    BY <2>1, <2>4, <2>5
<1>5. CASE s < i
  <2>1. CharAt(i - 1) \in Digits
    BY <1>1, <1>5 DEF DigitsIn
  <2>2. Float(from, i)
    BY <1>5, FloatShape
  <2>3. i \in LexemeEnds(from)
    BY <1>1, <2>1, <2>2, DecimalLexemes
  <2>4. \A to \in LexemeEnds(from) : to <= i
    <3> TAKE to \in LexemeEnds(from)
    <3>1. to \in (from + 1)..Len(src_)
      BY DecimalLexemes
    <3> QED
      BY <1>4, <3>1
  <2>5. LongestEnd(from, i)
    BY <2>3, <2>4 DEF LongestEnd
  <2>6. ~DigitsIn(from, i) /\ ~Numeral(from, i)
    <3>1. ~DigitsIn(from, i)
      BY <1>1, <1>2 DEF DigitsIn
    <3> QED
      BY <3>1, NumeralDigits
  <2>7. NumberType(from, legal, i) = IF legal THEN "float" ELSE "illegal"
    BY <2>1, <2>6 DEF NumberType, DigitsIn
  <2> QED
    BY <2>1, <2>2, <2>3, <2>5, <2>6, <2>7 DEF IsLongest, Lexeme, Decimal
<1>6. CASE s = i
  <2>1. i = e + 1
    BY <1>1, <1>6
  <2>2. NumberType(from, legal, i) = "illegal"
    <3>1. CharAt(i - 1) = "e"
      BY <1>1, <2>1
    <3> QED
      BY <1>2, <3>1 DEF NumberType
  <2>3. \A to \in LexemeEnds(from) : to <= e
    <3> TAKE to \in LexemeEnds(from)
    <3>1. to \in (from + 1)..Len(src_)
      BY DecimalLexemes
    <3> QED
      BY <1>4, <1>6, <3>1
  <2>4. IsLongest(NumberType(from, FALSE, e), from, e)
    <3>1. e <= Len(src_) /\ CharAt(e) \in {".", "e", "x"} /\ FALSE \in BOOLEAN
      BY <1>1
    <3> QED
      BY <1>3, <2>3, <3>1, MantissaTyped
  <2>5. NumberType(from, FALSE, e) = "illegal"
    BY DEF NumberType
  <2> QED
    BY <2>2, <2>4, <2>5 DEF IsLongest
<1> QED
  BY <1>1, <1>5, <1>6

LEMMA NumberIsLongest ==
    ASSUME NEW from \in Nat, NEW i \in Nat, Len(src_) \in Nat, i <= Len(src_),
           Decimal(from), NEW passed_dot \in BOOLEAN, NEW within_exponent \in BOOLEAN,
           NEW legal \in BOOLEAN,
           NumberStops(from, passed_dot, within_exponent, legal, i)
    PROVE  from < i /\ IsLongest(NumberType(from, legal, i), from, i)
<1>1. /\ "e" \notin Digits /\ "e" # "." /\ "." \notin Digits
      /\ "+" \notin Digits /\ "-" \notin Digits /\ CharAt(from) \in Digits
  BY DEF Digits, Decimal
<1>2. CASE BrokenAt(from, i) /\ ~legal
  <2>1. PICK d, e \in Nat : /\ i = e + 1 /\ Shape(from, d, e, e, e)
                            /\ CharAt(e) = "e" /\ CharAt(i) \in {"+", "-"}
                            /\ CharAt(i + 1) \notin Digits
    BY <1>2 DEF BrokenAt
  <2>2. MantissaEnds(from, d, e) /\ from < e
    BY <1>1, <2>1 DEF MantissaEnds, Shape
  <2>3. CharAt(e + 1) \in {"+", "-"} /\ CharAt(e + 2) \notin Digits /\ e <= Len(src_)
    <3>1. i + 1 = e + 2
      BY <2>1
    <3> QED
      BY <2>1, <3>1
  <2>4. \A to \in LexemeEnds(from) : to <= e
    BY <2>2, <2>3, EndsAtMantissa
  <2>5. IsLongest(NumberType(from, FALSE, e), from, e)
    BY <2>1, <2>2, <2>3, <2>4, MantissaTyped
  <2>6. NumberType(from, FALSE, e) = "illegal" /\ NumberType(from, legal, i) = "illegal"
    BY <1>2 DEF NumberType
  <2> QED
    BY <2>1, <2>2, <2>5, <2>6 DEF IsLongest
<1>3. CASE ~(BrokenAt(from, i) /\ ~legal)
  <2>1. /\ NumberAt(from, passed_dot, within_exponent, i)
        /\ CharAt(i) \notin Digits
        /\ ~legal => CharAt(i) \in {".", "e"} /\ (passed_dot \/ within_exponent)
        /\ within_exponent \/ CharAt(i) # "e"
    BY <1>1, <1>3 DEF NumberStops
  <2>2. CASE within_exponent
    <3>1. PICK d, e, s \in Nat : /\ e < i /\ Shape(from, d, e, s, i)
                                 /\ s = e + 2 => CharAt(s) \in Digits
      BY <2>1, <2>2 DEF NumberAt
    <3>2. from < i
      BY <3>1 DEF Shape
    <3>3. IsLongest(NumberType(from, legal, i), from, i)
      BY <2>1, <3>1, ExponentTyped
    <3> QED
      BY <3>2, <3>3
  <2>3. CASE ~within_exponent /\ passed_dot
    <3>1. PICK d \in Nat : d < i /\ Shape(from, d, i, i, i)
      BY <2>1, <2>3 DEF NumberAt
    <3>2. MantissaEnds(from, d, i) /\ from < i
      BY <2>1, <3>1 DEF MantissaEnds, Shape
    <3>3. \A to \in LexemeEnds(from) : to <= i
      BY <2>1, <2>3, <3>2, EndsAtMantissa
    <3> QED
      BY <2>1, <3>2, <3>3, MantissaTyped
  <2>4. CASE ~within_exponent /\ ~passed_dot
    <3>1. DigitsIn(from, i) /\ from < i /\ legal
      BY <1>1, <2>1, <2>4 DEF NumberAt
    <3>2. CASE CharAt(i) # "."
      <4>1. MantissaEnds(from, i, i)
        BY <2>1, <3>1, <3>2 DEF MantissaEnds
      <4>2. \A to \in LexemeEnds(from) : to <= i
        BY <2>1, <2>4, <4>1, EndsAtMantissa
      <4> QED
        BY <3>1, <4>1, <4>2, MantissaTyped
    <3>3. CASE CharAt(i) = "."
      <4>1. CharAt(i + 1) = "."
        BY <3>1, <3>3 DEF NumberStops
      <4>2. MantissaEnds(from, i, i + 1)
        BY <1>1, <3>1, <3>3, <4>1 DEF MantissaEnds, DigitsIn
      <4>3. \A to \in LexemeEnds(from) : to <= i + 1
        <5>1. i + 1 \in Nat /\ CharAt(i + 1) # "e"
          BY <1>1, <4>1
        <5> QED
          BY <4>2, <5>1, EndsAtMantissa
      <4>4. \A to \in LexemeEnds(from) : to <= i
        <5> TAKE to \in LexemeEnds(from)
        <5>1. to \in (from + 1)..Len(src_) /\ CharAt(to - 1) \in Digits
          BY DecimalLexemes
        <5>2. to # i + 1
          BY <1>1, <3>3, <5>1
        <5> QED
          BY <4>3, <5>1, <5>2
      <4>5. Numeral(from, i) /\ CharAt(i - 1) \in Digits
        <5>1. Numeral(from, i)
          BY <3>1, NumeralDigits
        <5> QED
          BY <5>1, NumeralIsFloat
      <4>6. i \in LexemeEnds(from)
        <5>1. i \in (from + 1)..Len(src_) /\ Float(from, i)
          BY <3>1, <4>5, NumeralIsFloat
        <5> QED
          BY <4>5, <5>1, DecimalLexemes
      <4>7. NumberType(from, legal, i) = "integer"
        BY <3>1, <4>5 DEF NumberType, DigitsIn
      <4> QED
        BY <3>1, <4>4, <4>5, <4>6, <4>7 DEF IsLongest, Lexeme, LongestEnd
    <3> QED
      BY <3>2, <3>3
  <2> QED
    BY <2>2, <2>3, <2>4
<1> QED
  BY <1>2, <1>3

\* One more digit.
LEMMA DigitRead ==
    ASSUME NEW from \in Nat, NEW i \in Nat, CharAt(i) \in Digits,
           NEW passed_dot \in BOOLEAN, NEW within_exponent \in BOOLEAN,
           NumberAt(from, passed_dot, within_exponent, i)
    PROVE  NumberAt(from, passed_dot, within_exponent, i + 1)
<1>1. CASE within_exponent
  <2>1. PICK d, e, s \in Nat : /\ e < i /\ Shape(from, d, e, s, i)
                               /\ s = e + 2 => CharAt(s) \in Digits
    BY <1>1 DEF NumberAt
  <2>2. Shape(from, d, e, s, i + 1) /\ e < i + 1
    BY <2>1 DEF Shape, DigitsIn
  <2> QED
    BY <1>1, <2>1, <2>2 DEF NumberAt
<1>2. CASE ~within_exponent /\ passed_dot
  <2>1. PICK d \in Nat : d < i /\ Shape(from, d, i, i, i)
    BY <1>2 DEF NumberAt
  <2>2. Shape(from, d, i + 1, i + 1, i + 1) /\ d < i + 1
    BY <2>1 DEF Shape, DigitsIn
  <2> QED
    BY <1>2, <2>2 DEF NumberAt
<1>3. CASE ~within_exponent /\ ~passed_dot
  BY <1>3 DEF NumberAt, DigitsIn
<1> QED
  BY <1>1, <1>2, <1>3

\* What is in front of an exponent.
LEMMA MantissaRead ==
    ASSUME NEW from \in Nat, NEW i \in Nat, CharAt(from) \in Digits,
           CharAt(i) \notin Digits, NEW passed_dot \in BOOLEAN,
           NumberAt(from, passed_dot, FALSE, i)
    PROVE  \E d \in Nat : /\ Shape(from, d, i, i, i)
                          /\ ~passed_dot => d = i
<1>1. CASE passed_dot
  BY <1>1 DEF NumberAt
<1>2. CASE ~passed_dot
  <2>1. from < i /\ DigitsIn(from, i)
    BY <1>2 DEF NumberAt
  <2>2. Shape(from, i, i, i, i)
    BY <2>1 DEF Shape
  <2> QED
    BY <1>2, <2>2
<1> QED
  BY <1>1, <1>2

LEMMA DotRead ==
    ASSUME NEW from \in Nat, NEW i \in Nat, CharAt(from) \in Digits, CharAt(i) = ".",
           NumberAt(from, FALSE, FALSE, i)
    PROVE  NumberAt(from, TRUE, FALSE, i + 1)
<1>1. from < i /\ DigitsIn(from, i)
  <2>1. from <= i /\ DigitsIn(from, i)
    BY DEF NumberAt
  <2>2. from # i
    BY DEF Digits
  <2> QED
    BY <2>1, <2>2
<1>2. Shape(from, i, i, i, i)
  BY <1>1 DEF Shape
<1>3. Shape(from, i, i + 1, i + 1, i + 1) /\ i < i + 1
  BY <1>2 DEF Shape, DigitsIn
<1> QED
  BY <1>3 DEF NumberAt

LEMMA ExponentRead ==
    ASSUME NEW from \in Nat, NEW i \in Nat, CharAt(from) \in Digits, CharAt(i) = "e",
           NEW passed_dot \in BOOLEAN, NumberAt(from, passed_dot, FALSE, i)
    PROVE  IF CharAt(i + 1) \in {"+", "-"}
           THEN IF CharAt(i + 2) \in Digits THEN NumberAt(from, passed_dot, TRUE, i + 2)
                ELSE BrokenAt(from, i + 1)
           ELSE NumberAt(from, passed_dot, TRUE, i + 1)
<1>1. CharAt(i) \notin Digits
  BY DEF Digits
<1>2. PICK d \in Nat : Shape(from, d, i, i, i)
  BY <1>1, MantissaRead
<1>3. CASE CharAt(i + 1) \in {"+", "-"} /\ CharAt(i + 2) \in Digits
  <2>1. Shape(from, d, i, i + 2, i + 2) /\ i < i + 2 /\ i + 2 \in Nat
    BY <1>2, <1>3 DEF Shape, DigitsIn
  <2> QED
    BY <1>3, <2>1 DEF NumberAt
<1>4. CASE CharAt(i + 1) \in {"+", "-"} /\ CharAt(i + 2) \notin Digits
  <2>1. (i + 1) + 1 = i + 2
    OBVIOUS
  <2> QED
    BY <1>2, <1>4, <2>1 DEF BrokenAt
<1>5. CASE CharAt(i + 1) \notin {"+", "-"}
  <2>1. Shape(from, d, i, i + 1, i + 1) /\ i < i + 1 /\ i + 1 \in Nat /\ i + 1 # i + 2
    BY <1>2, <1>5 DEF Shape, DigitsIn
  <2> QED
    BY <1>5, <2>1 DEF NumberAt
<1> QED
  BY <1>3, <1>4, <1>5

NumberPart(l) ==
    {n \in Number :
        /\ SameButPlace(n.at, l)
        /\ n.at.src_index_ <= Len(src_)
        /\ IF n.ended
           THEN NumberStops(l.src_index_, n.passed_dot, n.within_exponent, n.legal,
                            n.at.src_index_)
           ELSE n.legal /\ NumberAt(l.src_index_, n.passed_dot, n.within_exponent,
                                    n.at.src_index_)}

LEMMA NumberMoves ==
    ASSUME Len(src_) \in Nat, NEW n \in Number, NEW k \in Nat,
           n.at.src_index_ < Len(src_), n.at.current_.type # "eof"
    PROVE  /\ Moves(n, k) \in Number
           /\ SameButPlace(Moves(n, k).at, n.at)
           /\ Moves(n, k).at.src_index_ = n.at.src_index_ + k
           /\ Moves(n, k).passed_dot = n.passed_dot
           /\ Moves(n, k).within_exponent = n.within_exponent
           /\ Moves(n, k).ended = n.ended /\ Moves(n, k).legal = n.legal
<1>1. n.at \in Cursor
  BY DEF Number
<1>2. /\ SameButPlace(advance_char(n.at, k), n.at)
      /\ advance_char(n.at, k).src_index_ = n.at.src_index_ + k
  BY <1>1, AdvanceChar
<1>3. advance_char(n.at, k) \in Cursor
  BY <1>2 DEF SameButPlace
<1> QED
  BY <1>2, <1>3 DEF Moves, Number

LEMMA NumberFlags ==
    ASSUME NEW n \in Number, NEW legal \in BOOLEAN
    PROVE  /\ LET r == Ends(n, legal)
              IN /\ r \in Number /\ r.at = n.at /\ r.passed_dot = n.passed_dot
                 /\ r.within_exponent = n.within_exponent
                 /\ r.ended = TRUE /\ r.legal = legal
           /\ LET r == [n EXCEPT !.passed_dot = TRUE]
              IN /\ r \in Number /\ r.at = n.at /\ r.passed_dot = TRUE
                 /\ r.within_exponent = n.within_exponent
                 /\ r.ended = n.ended /\ r.legal = n.legal
           /\ LET r == [n EXCEPT !.within_exponent = TRUE]
              IN /\ r \in Number /\ r.at = n.at /\ r.passed_dot = n.passed_dot
                 /\ r.within_exponent = TRUE
                 /\ r.ended = n.ended /\ r.legal = n.legal
<1>1. LET r == Ends(n, legal)
      IN /\ r \in Number /\ r.at = n.at /\ r.passed_dot = n.passed_dot
         /\ r.within_exponent = n.within_exponent
         /\ r.ended = TRUE /\ r.legal = legal
  BY DEF Ends, Number
<1>2. LET r == [n EXCEPT !.passed_dot = TRUE]
      IN /\ r \in Number /\ r.at = n.at /\ r.passed_dot = TRUE
         /\ r.within_exponent = n.within_exponent
         /\ r.ended = n.ended /\ r.legal = n.legal
  BY DEF Number
<1>3. LET r == [n EXCEPT !.within_exponent = TRUE]
      IN /\ r \in Number /\ r.at = n.at /\ r.passed_dot = n.passed_dot
         /\ r.within_exponent = TRUE
         /\ r.ended = n.ended /\ r.legal = n.legal
  BY DEF Number
<1> QED
  BY <1>1, <1>2, <1>3

LEMMA NumberTurnKeeps ==
    ASSUME Readable, NEW l, Ready(l), l.current_.type # "eof",
           CharAt(l.src_index_) \in Digits, NEW n \in NumberPart(l), ~n.ended
    PROVE  LET t == NumberTurn(n)
           IN t \in NumberPart(l) /\ (t.ended \/ t.at.src_index_ > n.at.src_index_)
<1> DEFINE from == l.src_index_
           i == n.at.src_index_
           dot == n.passed_dot
           exp == n.within_exponent
           t == NumberTurn(n)
           Good(r) == r \in NumberPart(l) /\ (r.ended \/ r.at.src_index_ > i)
<1>1. /\ l \in Cursor /\ from \in Nat /\ Len(src_) \in Nat
      /\ n \in Number /\ n.at \in Cursor /\ i \in Nat /\ i <= Len(src_)
      /\ SameButPlace(n.at, l) /\ n.at.current_.type # "eof"
      /\ dot \in BOOLEAN /\ exp \in BOOLEAN /\ n.legal /\ n.legal = TRUE
      /\ NumberAt(from, dot, exp, i)
  BY DEF Ready, Cursor, Readable, NumberPart, SameButPlace, Number
<1>2. /\ "." \notin Digits /\ "e" \notin Digits /\ "e" # "."
      /\ NUL \notin Digits /\ NUL # "." /\ NUL # "e" /\ NUL # "+" /\ NUL # "-"
  BY DEF Digits, NUL
<1>3. ASSUME NEW r \in Number, SameButPlace(r.at, n.at),
             r.at.src_index_ > i, r.at.src_index_ <= Len(src_), ~r.ended, r.legal,
             NumberAt(from, r.passed_dot, r.within_exponent, r.at.src_index_)
      PROVE  Good(r)
  <2>1. SameButPlace(r.at, l)
    <3>1. r.at.src_index_ \in Nat
      BY <1>3 DEF SameButPlace, Cursor
    <3> QED
      BY <1>1, <1>3, <3>1 DEF SameButPlace
  <2> QED
    BY <1>3, <2>1 DEF NumberPart
<1>4. ASSUME NEW r \in Number, SameButPlace(r.at, n.at), r.at.src_index_ <= Len(src_),
             r.ended,
             NumberStops(from, r.passed_dot, r.within_exponent, r.legal, r.at.src_index_)
      PROVE  Good(r)
  <2>1. SameButPlace(r.at, l)
    <3>1. r.at.src_index_ \in Nat
      BY <1>4 DEF SameButPlace, Cursor
    <3> QED
      BY <1>1, <1>4, <3>1 DEF SameButPlace
  <2> QED
    BY <1>4, <2>1 DEF NumberPart
<1>5. ASSUME NEW legal \in BOOLEAN, NumberStops(from, dot, exp, legal, i)
      PROVE  Good(Ends(n, legal))
  <2> DEFINE r == Ends(n, legal)
  <2>1. /\ r \in Number /\ r.at = n.at /\ r.passed_dot = dot
        /\ r.within_exponent = exp /\ r.ended = TRUE /\ r.legal = legal
    <3>1. n \in Number
      BY <1>1
    <3> QED
      BY <3>1 DEF Ends, Number
  <2> HIDE DEF r
  <2>2. SameButPlace(r.at, n.at)
    BY <1>1, <2>1 DEF SameButPlace
  <2>3. Good(r)
    BY <1>1, <1>4, <1>5, <2>1, <2>2
  <2> QED
    BY <2>3 DEF r
<1> HIDE DEF Good
<1>6. CASE CharAt(i) \in Digits
  <2>1. t = Moves(n, 1)
    BY <1>2, <1>6 DEF NumberTurn, current_char
  <2>2. i < Len(src_)
    BY <1>1, <1>2, <1>6, EndOfText
  <2>3. 1 \in Nat
    OBVIOUS
  <2> DEFINE m == Moves(n, 1)
  <2>4. /\ m \in Number /\ SameButPlace(m.at, n.at) /\ m.at.src_index_ = i + 1
        /\ m.passed_dot = dot /\ m.within_exponent = exp
        /\ m.ended = n.ended /\ m.legal = n.legal
    BY <1>1, <2>2, <2>3, NumberMoves
  <2> HIDE DEF m
  <2>5. NumberAt(from, dot, exp, i + 1)
    BY <1>1, <1>6, DigitRead
  <2>6. i + 1 > i /\ i + 1 <= Len(src_)
    BY <1>1, <2>2
  <2>7. Good(m)
    BY <1>1, <1>3, <2>4, <2>5, <2>6
  <2> QED
    BY <2>1, <2>7 DEF m, Good
<1>7. CASE CharAt(i) = "."
  <2>1. t = NumberDot(n)
    BY <1>2, <1>7 DEF NumberTurn, current_char
  <2>2. i < Len(src_)
    BY <1>1, <1>2, <1>7, EndOfText
  <2>3. CASE CharAt(i + 1) = "." /\ CharAt(i + 2) = "."
    <3>1. t = Ends(n, TRUE)
      BY <2>1, <2>3 DEF NumberDot, peek_char
    <3>2. NumberStops(from, dot, exp, TRUE, i)
      BY <1>1, <1>7, <2>3 DEF NumberStops
    <3> QED
      BY <1>5, <3>1, <3>2 DEF Good
  <2>4. CASE ~(CharAt(i + 1) = "." /\ CharAt(i + 2) = ".") /\ (dot \/ exp)
    <3>1. t = Ends(n, FALSE)
      BY <2>1, <2>4 DEF NumberDot, peek_char
    <3>2. NumberStops(from, dot, exp, FALSE, i)
      BY <1>1, <1>7, <2>4 DEF NumberStops
    <3> QED
      BY <1>5, <3>1, <3>2 DEF Good
  <2>5. CASE ~(CharAt(i + 1) = "." /\ CharAt(i + 2) = ".") /\ ~dot /\ ~exp
    <3> DEFINE m == Moves(n, 1)
               r == [m EXCEPT !.passed_dot = TRUE]
    <3>1. t = r
      BY <2>1, <2>5 DEF NumberDot, peek_char
    <3>2. 1 \in Nat
      OBVIOUS
    <3>3. /\ m \in Number /\ SameButPlace(m.at, n.at) /\ m.at.src_index_ = i + 1
          /\ m.within_exponent = exp /\ m.ended = n.ended /\ m.legal = n.legal
      BY <1>1, <2>2, <3>2, NumberMoves
    <3> HIDE DEF m
    <3>4. /\ r \in Number /\ r.at = m.at /\ r.passed_dot = TRUE
          /\ r.within_exponent = m.within_exponent
          /\ r.ended = m.ended /\ r.legal = m.legal
      BY <3>3, NumberFlags
    <3> HIDE DEF r
    <3>5. exp = FALSE /\ dot = FALSE
      BY <1>1, <2>5
    <3>6. NumberAt(from, TRUE, exp, i + 1)
      BY <1>1, <1>7, <3>5, DotRead
    <3>7. i + 1 > i /\ i + 1 <= Len(src_)
      BY <1>1, <2>2
    <3>8. Good(r)
      BY <1>1, <1>3, <3>3, <3>4, <3>6, <3>7
    <3> QED
      BY <3>1, <3>8 DEF Good
  <2> QED
    BY <2>3, <2>4, <2>5
<1>8. CASE CharAt(i) = "e"
  <2>1. t = NumberExponent(n)
    BY <1>2, <1>8 DEF NumberTurn, current_char
  <2>2. i < Len(src_) /\ 1 \in Nat /\ 2 \in Nat
    BY <1>1, <1>2, <1>8, EndOfText
  <2> DEFINE m == Moves(n, 1)
             m2 == Moves(n, 2)
             signed == CharAt(i + 1) \in {"+", "-"}
  <2>3. signed => i + 1 < Len(src_)
    BY <1>1, <1>2, EndOfText
  <2>4. /\ m \in Number /\ SameButPlace(m.at, n.at) /\ m.at.src_index_ = i + 1
        /\ m.passed_dot = dot /\ m.within_exponent = exp
        /\ m.ended = n.ended /\ m.legal = n.legal
    BY <1>1, <2>2, NumberMoves
  <2>5. /\ m2 \in Number /\ SameButPlace(m2.at, n.at) /\ m2.at.src_index_ = i + 2
        /\ m2.passed_dot = dot /\ m2.within_exponent = exp
        /\ m2.ended = n.ended /\ m2.legal = n.legal
    BY <1>1, <2>2, NumberMoves
  <2>6. CASE exp
    <3>1. t = Ends(n, FALSE)
      BY <2>1, <2>6 DEF NumberExponent
    <3>2. NumberStops(from, dot, exp, FALSE, i)
      BY <1>1, <1>8, <2>6 DEF NumberStops
    <3> QED
      BY <1>5, <3>1, <3>2 DEF Good
  <2>7. ~exp => exp = FALSE
    BY <1>1
  <2>8. ~exp => IF signed
                THEN IF CharAt(i + 2) \in Digits THEN NumberAt(from, dot, TRUE, i + 2)
                     ELSE BrokenAt(from, i + 1)
                ELSE NumberAt(from, dot, TRUE, i + 1)
    BY <1>1, <1>8, <2>7, ExponentRead
  <2>9. CASE ~exp /\ signed /\ CharAt(i + 2) \notin Digits
    <3> DEFINE r == Ends(m, FALSE)
    <3>1. t = r
      BY <2>1, <2>9 DEF NumberExponent, peek_char
    <3> HIDE DEF m
    <3>2. /\ r \in Number /\ r.at = m.at /\ r.ended = TRUE /\ r.legal = FALSE
      BY <2>4, NumberFlags
    <3> HIDE DEF r
    <3>3. NumberStops(from, r.passed_dot, r.within_exponent, r.legal, i + 1)
      BY <2>8, <2>9, <3>2 DEF NumberStops
    <3>4. i + 1 <= Len(src_)
      BY <1>1, <2>3, <2>9
    <3>5. Good(r)
      BY <1>4, <2>4, <3>2, <3>3, <3>4
    <3> QED
      BY <3>1, <3>5 DEF Good
  <2>10. CASE ~exp /\ signed /\ CharAt(i + 2) \in Digits
    <3> DEFINE r == [m2 EXCEPT !.within_exponent = TRUE]
    <3>1. t = r
      BY <2>1, <2>10 DEF NumberExponent, peek_char
    <3> HIDE DEF m2
    <3>2. /\ r \in Number /\ r.at = m2.at /\ r.passed_dot = m2.passed_dot
          /\ r.within_exponent = TRUE
          /\ r.ended = m2.ended /\ r.legal = m2.legal
      BY <2>5, NumberFlags
    <3> HIDE DEF r
    <3>3. NumberAt(from, dot, TRUE, i + 2)
      BY <2>8, <2>10
    <3>4. i + 2 > i /\ i + 2 <= Len(src_)
      BY <1>1, <2>3, <2>10
    <3>5. Good(r)
      BY <1>1, <1>3, <2>5, <3>2, <3>3, <3>4
    <3> QED
      BY <3>1, <3>5 DEF Good
  <2>11. CASE ~exp /\ ~signed
    <3> DEFINE r == [m EXCEPT !.within_exponent = TRUE]
    <3>1. t = r
      BY <2>1, <2>11 DEF NumberExponent, peek_char
    <3> HIDE DEF m
    <3>2. /\ r \in Number /\ r.at = m.at /\ r.passed_dot = m.passed_dot
          /\ r.within_exponent = TRUE
          /\ r.ended = m.ended /\ r.legal = m.legal
      BY <2>4, NumberFlags
    <3> HIDE DEF r
    <3>3. NumberAt(from, dot, TRUE, i + 1)
      BY <2>8, <2>11
    <3>4. i + 1 > i /\ i + 1 <= Len(src_)
      BY <1>1, <2>2
    <3>5. Good(r)
      BY <1>1, <1>3, <2>4, <3>2, <3>3, <3>4
    <3> QED
      BY <3>1, <3>5 DEF Good
  <2> QED
    BY <2>6, <2>9, <2>10, <2>11
<1>9. CASE CharAt(i) \notin Digits \cup {".", "e"}
  <2>1. t = Ends(n, TRUE)
    BY <1>9 DEF NumberTurn, current_char
  <2>2. NumberStops(from, dot, exp, TRUE, i)
    BY <1>1, <1>9 DEF NumberStops
  <2> QED
    BY <1>5, <2>1, <2>2 DEF Good
<1> QED
  BY <1>6, <1>7, <1>8, <1>9

LEMMA NumberRead ==
    ASSUME Readable, NEW l, Ready(l), l.current_.type # "eof",
           CharAt(l.src_index_) \in Digits
    PROVE  NumberEnd(l) \in NumberPart(l) /\ NumberEnd(l).ended
<1> DEFINE S == NumberPart(l)
           body == [n \in Number |-> NumberTurn(n)]
           start == [at |-> l, passed_dot |-> FALSE, within_exponent |-> FALSE,
                     ended |-> FALSE, legal |-> TRUE]
           size == [n \in S |-> n.at.src_index_]
<1>1. l \in Cursor /\ l.src_index_ \in Nat /\ Len(src_) \in Nat /\ l.src_index_ <= Len(src_)
  BY DEF Ready, Cursor, Readable
<1>2. start \in S
  <2>1. NumberAt(l.src_index_, FALSE, FALSE, l.src_index_)
    BY <1>1 DEF NumberAt, DigitsIn
  <2>2. /\ start \in Number /\ start.at = l /\ start.passed_dot = FALSE
        /\ start.within_exponent = FALSE /\ start.ended = FALSE /\ start.legal = TRUE
    BY <1>1 DEF Number
  <2>3. SameButPlace(l, l)
    BY <1>1 DEF SameButPlace
  <2> HIDE DEF start
  <2> QED
    BY <1>1, <2>1, <2>2, <2>3 DEF NumberPart
<1>3. \A n \in S : /\ n \in Number /\ body[n] = NumberTurn(n) /\ n.ended \in BOOLEAN
                   /\ n.at.src_index_ \in Nat /\ n.at.src_index_ <= Len(src_)
  BY DEF NumberPart, Number, Cursor
<1>4. \A n \in S : n.ended => NumberTurn(n) = n
  BY DEF NumberTurn
<1>5. ASSUME NEW n \in S, ~n.ended
      PROVE  /\ NumberTurn(n) \in S
             /\ NumberTurn(n).ended \/ NumberTurn(n).at.src_index_ > n.at.src_index_
  BY <1>5, NumberTurnKeeps
<1>6. NumberEnd(l) = Loop(body, start)
  BY DEF NumberEnd
<1>7. size \in [S -> Nat]
  BY <1>3
<1> HIDE DEF body, start, S
<1>8. Keeps(body, S)
  BY <1>3, <1>4, <1>5 DEF Keeps
<1>9. LeadsOn(body, S, size, Len(src_))
  <2> SUFFICES ASSUME NEW n \in S
               PROVE  /\ body[n] = n \/ body[body[n]] = body[n]
                             \/ size[body[n]] > size[n]
                      /\ body[n] # n => size[n] <= Len(src_)
    BY Zenon DEF LeadsOn
  <2>1. /\ body[n] \in S /\ size[n] = n.at.src_index_
        /\ size[body[n]] = body[n].at.src_index_
    BY <1>8 DEF Keeps
  <2> HIDE DEF size
  <2>2. CASE n.ended
    BY <1>3, <1>4, <2>1, <2>2
  <2>3. CASE ~n.ended
    <3>1. body[n].ended => body[body[n]] = body[n]
      BY <1>3, <1>4, <2>1
    <3>2. body[n].ended \/ body[n].at.src_index_ > n.at.src_index_
      BY <1>3, <1>5, <2>3
    <3> QED
      BY <1>3, <2>1, <3>1, <3>2
  <2> QED
    BY <2>2, <2>3
<1> HIDE DEF size
<1> DEFINE n == Loop(body, start)
<1>10. n \in S /\ body[n] = n
  BY <1>1, <1>2, <1>7, <1>8, <1>9, LoopEnds
<1> HIDE DEF n
<1>11. n.ended
  <2> SUFFICES ASSUME ~n.ended PROVE FALSE
    OBVIOUS
  <2>1. n.at.src_index_ > n.at.src_index_ /\ n.at.src_index_ \in Nat
    BY <1>3, <1>5, <1>10
  <2> QED
    BY <2>1
<1> QED
  BY <1>6, <1>10, <1>11 DEF S, n

LEMMA NumberFound ==
    ASSUME Readable, NEW l, Ready(l), Decimal(l.src_index_)
    PROVE  Found(l, token_numeric_literal(l))
<1> DEFINE from == l.src_index_
           n == NumberEnd(l)
           i == n.at.src_index_
           type == NumberType(from, n.legal, i)
<1>1. /\ l \in Cursor /\ from \in Nat /\ Len(src_) \in Nat
      /\ l.current_.type # "eof" /\ CharAt(from) \in Digits
  BY DEF Ready, Cursor, Readable, Decimal, Digits, NUL
<1>2. n \in NumberPart(l) /\ n.ended
  BY <1>1, NumberRead
<1>3. token_numeric_literal(l) = Token(type, from, n.at)
  BY DEF token_numeric_literal, NumberType
<1> HIDE DEF n
<1>4. /\ n.at \in Cursor /\ n.at.curr_line_ = l.curr_line_ /\ i \in Nat
      /\ n.passed_dot \in BOOLEAN /\ n.within_exponent \in BOOLEAN
      /\ n.legal \in BOOLEAN /\ i <= Len(src_)
      /\ NumberStops(from, n.passed_dot, n.within_exponent, n.legal, i)
  BY <1>2 DEF NumberPart, Number, SameButPlace, Cursor
<1>5. from < i /\ IsLongest(type, from, i)
  BY <1>1, <1>4, NumberIsLongest
<1>6. type \in LexemeTypes \cup {"illegal"}
  BY DEF NumberType, LexemeTypes
<1> HIDE DEF type
<1>7. Found(l, Token(type, from, n.at))
  BY <1>4, <1>5, <1>6, TokenRead
<1> QED
  BY <1>3, <1>7

HexPart(l) ==
    {c \in Cursor : /\ SameButPlace(c, l) /\ c.src_index_ <= Len(src_)
                    /\ Chars(l.src_index_, c.src_index_) \subseteq HexDigits}

LEMMA HexRead ==
    ASSUME Readable, NEW l, Ready(l), l.current_.type # "eof"
    PROVE  LET c == HexEnd(l)
           IN c \in HexPart(l) /\ (c.exit \/ CharAt(c.src_index_) \notin HexDigits)
<1> DEFINE S == {c \in HexPart(l) : ~c.exit}
           Done == {c \in Cursor : CharAt(c.src_index_) \notin HexDigits}
           body == [c \in Cursor |-> IF current_char(c) \in HexDigits
                                     THEN advance_char(c, 1) ELSE c]
<1>1. /\ l \in Cursor /\ l.src_index_ \in Nat /\ Len(src_) \in Nat
      /\ ~l.exit /\ l.src_index_ <= Len(src_)
  BY DEF Ready, Cursor, Readable
<1>2. l \in S
  BY <1>1 DEF HexPart, SameButPlace, Chars
<1>3. Scans(body, S, Done)
  <2> SUFFICES ASSUME NEW c \in S
               PROVE  IF c.exit \/ c \in Done THEN body[c] = c
                      ELSE /\ c.src_index_ <= Len(src_)
                           /\ body[c] \in S
                           /\ body[c].exit \/ body[c].src_index_ > c.src_index_
    BY DEF Scans, HexPart
  <2>1. /\ c \in Cursor /\ c.src_index_ <= Len(src_) /\ ~c.exit /\ SameButPlace(c, l)
        /\ c.src_index_ \in Nat /\ c.current_.type # "eof"
        /\ Chars(l.src_index_, c.src_index_) \subseteq HexDigits
        /\ l.src_index_ <= c.src_index_
    BY <1>1 DEF HexPart, SameButPlace, Cursor
  <2>2. CASE c \in Done
    BY <2>1, <2>2 DEF current_char
  <2>3. CASE CharAt(c.src_index_) \in HexDigits
    <3> DEFINE d == advance_char(c, 1)
    <3>1. body[c] = d
      BY <2>1, <2>3 DEF current_char
    <3>2. c.src_index_ < Len(src_)
      BY <1>1, <2>1, <2>3, EndOfText DEF HexDigits, Digits, NUL
    <3>3. /\ d \in Cursor /\ d.curr_line_ = c.curr_line_
          /\ d.current_ = c.current_ /\ d.exit = c.exit
          /\ d.src_index_ = c.src_index_ + 1
      BY <1>1, <2>1, <3>2, OneFurther
    <3> HIDE DEF d
    <3>4. Chars(l.src_index_, d.src_index_) \subseteq HexDigits
      BY <1>1, <2>1, <2>3, <3>3 DEF Chars
    <3>5. SameButPlace(d, l) /\ d.src_index_ <= Len(src_) /\ d.src_index_ > c.src_index_
      BY <1>1, <2>1, <3>2, <3>3 DEF SameButPlace
    <3>6. d \in S
      BY <2>1, <3>3, <3>4, <3>5 DEF HexPart
    <3> HIDE DEF S, body
    <3> QED
      BY <2>1, <2>3, <3>1, <3>5, <3>6
  <2> QED
    BY <2>1, <2>2, <2>3
<1>4. HexEnd(l) = Loop(body, l)
  BY DEF HexEnd
<1> HIDE DEF body, S, Done
<1>5. Loop(body, l) \in S /\ (Loop(body, l).exit \/ Loop(body, l) \in Done)
  BY <1>1, <1>2, <1>3, ScanEnds
<1> QED
  BY <1>4, <1>5 DEF S, Done

LEMMA HexIsLongest ==
    ASSUME NEW from \in Nat, NEW to \in Nat, Len(src_) \in Nat, to <= Len(src_),
           CharAt(from) = "0", CharAt(from + 1) = "x", from + 2 <= to,
           Chars(from + 2, to) \subseteq HexDigits, CharAt(to) \notin HexDigits
    PROVE  IsLongest(IF to = from + 2 THEN "illegal" ELSE "hex", from, to)
<1>1. CharAt(from) \in Digits /\ "x" \notin {".", "e"} \cup Digits
  BY DEF Digits
<1>2. \A end : end \in LexemeEnds(from) <=>
          /\ end \in (from + 1)..Len(src_)
          /\ (Float(from, end) /\ CharAt(end - 1) \in Digits) \/ Hex(from, end)
  BY <1>1, NumberLexemes
<1>3. \A end \in LexemeEnds(from) : end = from + 1 \/ Hex(from, end)
  <2> SUFFICES ASSUME NEW end \in LexemeEnds(from), end # from + 1, ~Hex(from, end)
               PROVE  FALSE
    OBVIOUS
  <2>1. end \in Nat /\ end > from + 1 /\ Float(from, end)
    BY <1>2
  <2>2. PICK d, e, s \in Nat : Shape(from, d, e, s, end) /\ (e < end => s < end)
    BY <2>1, FloatShape
  <2>3. CASE d > from + 1
    <3>1. CharAt(from + 1) \in Digits
      BY <2>2, <2>3 DEF Shape, DigitsIn
    <3> QED
      BY <1>1, <3>1
  <2>4. CASE d = from + 1
    <3>1. CharAt(from + 1) \in {".", "e"}
      BY <2>1, <2>2, <2>4 DEF Shape
    <3> QED
      BY <1>1, <3>1
  <2> QED
    BY <2>2, <2>3, <2>4 DEF Shape
<1>4. \A end \in LexemeEnds(from) : end <= to
  <2> SUFFICES ASSUME NEW end \in LexemeEnds(from), end > to PROVE FALSE
    BY <1>2
  <2>1. end \in Nat /\ Hex(from, end)
    BY <1>2, <1>3
  <2>2. CharAt(to) \in HexDigits
    BY <2>1 DEF Hex, Chars
  <2> QED
    BY <2>2
<1>5. CASE to = from + 2
  <2>1. \A end \in LexemeEnds(from) : end <= from + 1
    <3> TAKE end \in LexemeEnds(from)
    <3>1. end \in Nat /\ end <= to
      BY <1>2, <1>4
    <3> QED
      BY <1>3, <1>5, <3>1 DEF Hex
  <2>2. Numeral(from, from + 1)
    BY <1>1 DEF Numeral, Chars
  <2>3. from + 1 \in LexemeEnds(from)
    <3>1. from + 1 \in Nat /\ from + 1 \in (from + 1)..Len(src_)
      BY <1>5
    <3>2. Float(from, from + 1) /\ CharAt((from + 1) - 1) \in Digits
      BY <2>2, <3>1, NumeralIsFloat
    <3> QED
      BY <1>2, <3>1, <3>2
  <2> QED
    BY <1>1, <1>5, <2>1, <2>3 DEF IsLongest, LongestEnd
<1>6. CASE to # from + 2
  <2>1. Hex(from, to)
    BY <1>6 DEF Hex
  <2>2. to \in LexemeEnds(from)
    BY <1>2, <2>1
  <2> QED
    BY <1>4, <1>6, <2>1, <2>2 DEF IsLongest, Lexeme, LongestEnd
<1> QED
  BY <1>5, <1>6

LEMMA HexFound ==
    ASSUME Readable, NEW l, Ready(l), CharAt(l.src_index_) = "0",
           CharAt(l.src_index_ + 1) = "x"
    PROVE  Found(l, token_hex_literal(l))
<1> DEFINE from == l.src_index_
           a == advance_char(l, 2)
           c == HexEnd(a)
           to == c.src_index_
           type == IF to = from + 2 THEN "illegal" ELSE "hex"
<1>1. /\ l \in Cursor /\ from \in Nat /\ Len(src_) \in Nat
      /\ l.current_.type # "eof" /\ from < Len(src_) /\ from + 2 <= Len(src_)
  <2>1. /\ l \in Cursor /\ from \in Nat /\ Len(src_) \in Nat /\ from + 1 \in Nat
        /\ CharAt(from) # NUL /\ CharAt(from + 1) # NUL
    BY DEF Ready, Cursor, Readable, NUL
  <2>2. from < Len(src_) /\ from + 1 < Len(src_)
    BY <2>1, EndOfText
  <2> QED
    BY <2>1, <2>2 DEF Ready
<1>2. /\ a \in Cursor /\ a.curr_line_ = l.curr_line_ /\ a.current_ = l.current_
      /\ a.src_index_ = from + 2 /\ a.exit = l.exit
  <2>1. 2 \in Nat
    OBVIOUS
  <2> QED
    BY <1>1, <2>1, AdvanceChar DEF SameButPlace
<1>3. Ready(a) /\ a.current_.type # "eof"
  BY <1>1, <1>2 DEF Ready
<1>4. token_hex_literal(l) = Token(type, from, c)
  BY DEF token_hex_literal
<1> HIDE DEF a
<1>5. c \in HexPart(a) /\ (c.exit \/ CharAt(to) \notin HexDigits)
  BY <1>3, HexRead
<1> HIDE DEF c
<1>6. /\ c \in Cursor /\ to \in Nat /\ c.curr_line_ = l.curr_line_ /\ from + 2 <= to
      /\ to <= Len(src_) /\ Chars(from + 2, to) \subseteq HexDigits
  BY <1>1, <1>2, <1>5 DEF HexPart, SameButPlace, Cursor
<1>7. type \in LexemeTypes \cup {"illegal"} /\ type \in TokenTypes /\ from < to
  BY <1>1, <1>6 DEF LexemeTypes, TokenTypes
<1>8. CASE c.exit
  <2> HIDE DEF type
  <2>1. Token(type, from, c) \in Cursor /\ Token(type, from, c).exit
    BY <1>1, <1>6, <1>7, <1>8, TokenFields
  <2> QED
    BY <1>4, <2>1 DEF Found
<1>9. CASE CharAt(to) \notin HexDigits
  <2>1. IsLongest(type, from, to)
    BY <1>1, <1>6, <1>9, HexIsLongest
  <2> HIDE DEF type
  <2>2. Found(l, Token(type, from, c))
    BY <1>6, <1>7, <2>1, TokenRead
  <2> QED
    BY <1>4, <2>2
<1> QED
  BY <1>5, <1>8, <1>9

LEMMA AmbiguousFound ==
    ASSUME Readable, NEW l, Ready(l), ~is_char_reserved(CharAt(l.src_index_))
    PROVE  Found(l, infer_ambiguous_token(l))
<1> DEFINE a == CharAt(l.src_index_)
           b == CharAt(l.src_index_ + 1)
<1>1. infer_ambiguous_token(l) =
          IF a \notin Digits THEN token_word(l)
          ELSE IF a = "0" /\ b = "x" THEN token_hex_literal(l)
          ELSE token_numeric_literal(l)
  BY DEF infer_ambiguous_token, current_char, peek_char
<1>2. CASE a \notin Digits
  BY <1>1, <1>2, WordFound
<1>3. CASE a \in Digits /\ a = "0" /\ b = "x"
  BY <1>1, <1>3, HexFound
<1>4. CASE a \in Digits /\ ~(a = "0" /\ b = "x")
  <2>1. Decimal(l.src_index_)
    BY <1>4 DEF Decimal
  <2> QED
    BY <1>1, <1>4, <2>1, NumberFound
<1> QED
  BY <1>2, <1>3, <1>4

-----------------------------------------------------------------------------
(* advance_impl and the functions on top of it *)

LEMMA BlankFound ==
    ASSUME Readable, NEW l, Ready(l), CharAt(l.src_index_) \in Blanks,
           NEW r, r = NoToken(advance_char(IF CharAt(l.src_index_) = Newline
                                           THEN advance_line(l) ELSE l, 1))
    PROVE  Found(l, r)
<1> DEFINE p == l.src_index_
           a == IF CharAt(p) = Newline THEN advance_line(l) ELSE l
           b == advance_char(a, 1)
<1>1. /\ l \in Cursor /\ p \in Nat /\ l.curr_line_ \in Nat /\ Len(src_) \in Nat
      /\ l.current_.type # "eof" /\ p < Len(src_)
  <2>1. /\ l \in Cursor /\ p \in Nat /\ l.curr_line_ \in Nat /\ Len(src_) \in Nat
        /\ CharAt(p) # NUL
    BY DEF Ready, Cursor, Readable, Blanks, Space, Newline, NUL
  <2> QED
    BY <2>1, EndOfText DEF Ready
<1>2. /\ a \in Cursor /\ a.src_index_ = p /\ a.current_ = l.current_
      /\ a.curr_line_ = l.curr_line_ + Lines(p, p + 1)
  <2>1. Lines(p, p + 1) = IF CharAt(p) = Newline THEN 1 ELSE 0
    BY <1>1, LinesOfOne
  <2>2. /\ advance_line(l) \in Cursor /\ advance_line(l).src_index_ = p
        /\ advance_line(l).current_ = l.current_
        /\ advance_line(l).curr_line_ = l.curr_line_ + 1
    BY <1>1 DEF advance_line, Cursor
  <2> QED
    BY <1>1, <2>1, <2>2
<1> HIDE DEF a
<1>3. b \in Cursor /\ b.src_index_ = p + 1 /\ b.curr_line_ = a.curr_line_
  BY <1>1, <1>2, OneFurther
<1> HIDE DEF b
<1>4. /\ r \in Cursor /\ r.src_index_ = p + 1 /\ r.curr_line_ = a.curr_line_
      /\ r.current_.type = "none"
  BY <1>3, NoTokenFields DEF b, a
<1>5. Piece(p, p + 1) /\ p < p + 1 /\ p + 1 <= Len(src_)
  BY <1>1 DEF Piece
<1>6. PassesOver(l, r)
  BY <1>2, <1>4, <1>5 DEF PassesOver
<1> QED
  BY <1>4, <1>5, <1>6 DEF Found

LEMMA EndFound ==
    ASSUME NEW l, Ready(l), CharAt(l.src_index_) = NUL
    PROVE  Found(l, EndOfFile(l))
<1>1. l \in Cursor /\ l.src_index_ \in Nat /\ l.src_index_ <= Len(src_)
  BY DEF Ready, Cursor
<1> DEFINE r == EndOfFile(l)
<1>2. /\ r \in Cursor
      /\ r.src_index_ = l.src_index_ /\ r.current_.type = "eof"
      /\ r.current_.from = l.src_index_ /\ r.current_.to = l.src_index_
  BY <1>1, EndFields
<1> HIDE DEF r
<1>3. EndsAt(l, r)
  BY <1>1, <1>2 DEF EndsAt
<1> QED
  BY <1>1, <1>2, <1>3 DEF Found, r

LEMMA HashFound ==
    ASSUME Readable, NEW l, Ready(l), CharAt(l.src_index_) = "#"
    PROVE  Found(l, Token("illegal", l.src_index_, advance_char(l, 1)))
<1> DEFINE p == l.src_index_
           c == advance_char(l, 1)
<1>1. l \in Cursor /\ p \in Nat /\ Len(src_) \in Nat /\ l.current_.type # "eof"
  BY DEF Ready, Cursor, Readable, NUL
<1>2. p < Len(src_)
  BY <1>1, EndOfText DEF NUL
<1>3. c \in Cursor /\ c.curr_line_ = l.curr_line_ /\ c.src_index_ = p + 1
  BY <1>1, <1>2, OneFurther
<1>4. IsLongest("illegal", p, p + 1)
  <2>1. LexemeEnds(p) = {}
    BY <1>1, OneType
  <2> QED
    BY <2>1 DEF IsLongest
<1> HIDE DEF c
<1>5. p < c.src_index_ /\ c.src_index_ <= Len(src_)
  BY <1>1, <1>2, <1>3
<1>6. Found(l, Token("illegal", p, c))
  BY <1>3, <1>4, <1>5, TokenRead
<1> QED
  BY <1>6 DEF c

\* A turn of advance finds a blank, a comment, a token or the end of the file.
LEMMA TurnFound ==
    ASSUME Readable, NEW l, Ready(l)
    PROVE  Found(l, advance_impl(l))
<1> DEFINE c == CharAt(l.src_index_)
<1>1. /\ NUL \notin Blanks /\ Quote \notin Blanks \cup {NUL, "/", "'", ".", "#"}
      /\ "/" \notin Blanks \cup {NUL} /\ "'" \notin Blanks \cup {NUL}
      /\ "." \notin Blanks \cup {NUL} /\ "#" \notin Blanks \cup {NUL}
      /\ Newline \in Blanks
      /\ (Single \cup DOMAIN Second) \cap (Blanks \cup {NUL, Quote, "'", ".", "#"}) = {}
      /\ "/" \in DOMAIN Second /\ "/" \notin Single
  BY SecondCharacters DEF Blanks, Space, Newline, NUL, Quote, Single, Backslash
<1>2. advance_impl(l) =
          CASE c = Newline -> NoToken(advance_char(advance_line(l), 1))
            [] c \in Blanks \ {Newline} -> NoToken(advance_char(l, 1))
            [] c = "/" -> token_fwdslash(l)
            [] c = "'" -> token_singlequote(l)
            [] c = Quote -> token_quote(l)
            [] c = "." -> token_dot(l)
            [] c = NUL -> EndOfFile(l)
            [] c = "#" -> Token("illegal", l.src_index_, advance_char(l, 1))
            [] c \in Single \cup (DOMAIN Second \ {"/"}) -> token_operator(l)
            [] OTHER -> infer_ambiguous_token(l)
  BY DEF advance_impl, current_char
<1> HIDE DEF c
<1>3. CASE c = Newline
  <2>1. advance_impl(l) = NoToken(advance_char(advance_line(l), 1))
    BY <1>1, <1>2, <1>3
  <2> QED
    BY <1>1, <1>3, <2>1, BlankFound DEF c
<1>4. CASE c \in Blanks \ {Newline}
  <2>1. advance_impl(l) = NoToken(advance_char(l, 1))
    BY <1>1, <1>2, <1>4
  <2> QED
    BY <1>4, <2>1, BlankFound DEF c
<1>5. CASE c = "/"
  <2>1. advance_impl(l) = token_fwdslash(l)
    BY <1>1, <1>2, <1>5
  <2>2. CASE CharAt(l.src_index_ + 1) = "/"
    BY <1>5, <2>1, <2>2, LineCommentFound DEF c
  <2>3. CASE CharAt(l.src_index_ + 1) = "*"
    BY <1>5, <2>1, <2>3, BlockCommentFound DEF c
  <2>4. CASE CharAt(l.src_index_ + 1) \notin {"/", "*"}
    <3>1. token_fwdslash(l) = token_operator(l)
      BY <2>4 DEF token_fwdslash, peek_char
    <3> QED
      BY <1>1, <1>5, <2>1, <3>1, OperatorFound DEF c
  <2> QED
    BY <2>2, <2>3, <2>4
<1>6. CASE c = "'"
  <2>1. advance_impl(l) = token_singlequote(l)
    BY <1>1, <1>2, <1>6
  <2> QED
    BY <1>6, <2>1, SingleQuoteFound DEF c
<1>7. CASE c = Quote
  <2>1. advance_impl(l) = token_quote(l)
    BY <1>1, <1>2, <1>7
  <2> QED
    BY <1>7, <2>1, QuoteFound DEF c
<1>8. CASE c = "."
  <2>1. advance_impl(l) = token_dot(l)
    BY <1>1, <1>2, <1>8
  <2> QED
    BY <1>8, <2>1, DotFound DEF c
<1>9. CASE c = NUL
  <2>1. advance_impl(l) = EndOfFile(l)
    BY <1>1, <1>2, <1>9
  <2> QED
    BY <1>9, <2>1, EndFound DEF c
<1>10. CASE c = "#"
  <2>1. advance_impl(l) = Token("illegal", l.src_index_, advance_char(l, 1))
    BY <1>1, <1>2, <1>10
  <2> QED
    BY <1>10, <2>1, HashFound DEF c
<1>11. CASE c \in (Single \cup DOMAIN Second) \ {"/"}
  <2>1. advance_impl(l) = token_operator(l)
    BY <1>1, <1>2, <1>11
  <2> QED
    BY <1>11, <2>1, OperatorFound DEF c
<1>12. CASE ~is_char_reserved(c)
  <2>1. c \notin Blanks \cup Single \cup DOMAIN Second \cup {NUL, "#", ".", "'", Quote}
    BY <1>12 DEF is_char_reserved
  <2>2. advance_impl(l) = infer_ambiguous_token(l)
    BY <1>1, <1>2, <2>1
  <2> QED
    BY <1>12, <2>2, AmbiguousFound DEF c
<1> QED
  BY <1>3, <1>4, <1>5, <1>6, <1>7, <1>8, <1>9, <1>10, <1>11, <1>12 DEF is_char_reserved

\* Blanks and comments behind one another.
LEMMA NothingIsBlank ==
    ASSUME NEW a \in Nat
    PROVE  Blank(a, a)
  BY DEF Blank

LEMMA PieceIsBlank ==
    ASSUME NEW a \in Nat, NEW b \in Nat, a < b, Piece(a, b)
    PROVE  Blank(a, b)
<1>1. a \in a..b /\ b \in a..b
  OBVIOUS
<1> QED
  BY <1>1 DEF Blank

LEMMA BlankGoesOn ==
    ASSUME NEW a \in Nat, NEW b \in Nat, NEW c \in Nat, Blank(a, b), Blank(b, c)
    PROVE  Blank(a, c)
<1>1. a <= b /\ b <= c
  BY DEF Blank
<1>2. ASSUME NEW S \in SUBSET (a..c), a \in S,
             \A p \in S, q \in a..c : Piece(p, q) => q \in S
      PROVE  c \in S
  <2>1. b \in S
    <3> DEFINE T == S \cap (a..b)
    <3>1. /\ T \in SUBSET (a..b) /\ a \in T
          /\ \A p \in T, q \in a..b : Piece(p, q) => q \in T
      BY <1>1, <1>2
    <3> HIDE DEF T
    <3>2. b \in T
      BY <3>1 DEF Blank
    <3> QED
      BY <3>2 DEF T
  <2>2. c \in S
    <3> DEFINE T == S \cap (b..c)
    <3>1. /\ T \in SUBSET (b..c) /\ b \in T
          /\ \A p \in T, q \in b..c : Piece(p, q) => q \in T
      BY <1>1, <1>2, <2>1
    <3> HIDE DEF T
    <3>2. c \in T
      BY <3>1 DEF Blank
    <3> QED
      BY <3>2 DEF T
  <2> QED
    BY <2>2
<1> QED
  BY <1>1, <1>2 DEF Blank

\* What advance comes to: the end of the file or a token, behind blanks.
EndReached(l, r) ==
    /\ r.current_.type = "eof"
    /\ r.current_.from = r.src_index_ /\ r.current_.to = r.src_index_
    /\ CharAt(r.src_index_) = NUL
    /\ \E b \in l.src_index_..r.src_index_ :
           /\ Blank(l.src_index_, b)
           /\ b = r.src_index_ \/ OpenComment(b, r.src_index_)
TokenReached(l, r) ==
    /\ r.current_.type \notin {"none", "eof"}
    /\ Blank(l.src_index_, r.current_.from)
    /\ r.current_.from < r.current_.to /\ r.current_.to = r.src_index_
    /\ r.curr_line_ = l.curr_line_ + Lines(l.src_index_, r.current_.from)
    /\ LongestToken(r.current_)
BlankReached(l, r) ==
    /\ r.current_.type = "none"
    /\ Blank(l.src_index_, r.src_index_)
    /\ r.curr_line_ = l.curr_line_ + Lines(l.src_index_, r.src_index_)

NextPart(l) ==
    {r \in Cursor :
        r.exit \/ /\ r.src_index_ <= Len(src_)
                  /\ BlankReached(l, r) \/ EndReached(l, r) \/ TokenReached(l, r)}

\* A turn from where blanks have led to.
LEMMA TurnReaches ==
    ASSUME Readable, NEW l \in Cursor, NEW c \in Cursor, Ready(c),
           Blank(l.src_index_, c.src_index_),
           c.curr_line_ = l.curr_line_ + Lines(l.src_index_, c.src_index_)
    PROVE  LET r == advance_impl(c)
           IN /\ r \in NextPart(l)
              /\ \/ r.exit \/ r.current_.type # "none"
                 \/ r.src_index_ > c.src_index_
<1> DEFINE r == advance_impl(c)
           a == l.src_index_
           p == c.src_index_
           q == r.src_index_
<1>1. Found(c, r)
  BY TurnFound
<1> HIDE DEF r
<1>2. /\ a \in Nat /\ p \in Nat /\ q \in Nat /\ r \in Cursor /\ a <= p
      /\ l.curr_line_ \in Nat
      /\ r.exit \/ (q <= Len(src_) /\ (PassesOver(c, r) \/ EndsAt(c, r) \/ Reads(c, r)))
  BY <1>1 DEF Found, Cursor, Blank
<1>3. CASE r.exit
  BY <1>2, <1>3 DEF NextPart, r
<1>4. CASE q <= Len(src_) /\ PassesOver(c, r)
  <2>1. /\ r.current_.type = "none" /\ p < q /\ Piece(p, q)
        /\ r.curr_line_ = c.curr_line_ + Lines(p, q)
    BY <1>4 DEF PassesOver
  <2>2. Blank(a, q)
    BY <1>2, <2>1, PieceIsBlank, BlankGoesOn
  <2>3. Lines(a, q) = Lines(a, p) + Lines(p, q)
    BY <1>2, <2>1, LinesAddUp
  <2>4. Lines(a, p) \in Nat /\ Lines(p, q) \in Nat
    BY <1>2, LinesAreFinite
  <2>5. r.curr_line_ = l.curr_line_ + Lines(a, q)
    BY <1>2, <2>1, <2>3, <2>4
  <2>6. BlankReached(l, r)
    BY <2>1, <2>2, <2>5 DEF BlankReached
  <2> QED
    BY <1>2, <1>4, <2>1, <2>6 DEF NextPart, r
<1>5. CASE q <= Len(src_) /\ EndsAt(c, r)
  <2>1. /\ r.current_.type = "eof" /\ r.current_.from = q /\ r.current_.to = q
        /\ CharAt(q) = NUL /\ p <= q
        /\ q = p \/ OpenComment(p, q) \/ (p < q /\ Piece(p, q))
    BY <1>5 DEF EndsAt
  <2>2. \E b \in a..q : Blank(a, b) /\ (b = q \/ OpenComment(b, q))
    <3>1. CASE q = p \/ OpenComment(p, q)
      BY <1>2, <2>1, <3>1
    <3>2. CASE p < q /\ Piece(p, q)
      <4>1. Blank(a, q)
        BY <1>2, <3>2, PieceIsBlank, BlankGoesOn
      <4> QED
        BY <1>2, <2>1, <4>1
    <3> QED
      BY <2>1, <3>1, <3>2
  <2>3. EndReached(l, r)
    BY <2>1, <2>2 DEF EndReached
  <2> QED
    BY <1>2, <1>5, <2>1, <2>3 DEF NextPart, r
<1>6. CASE q <= Len(src_) /\ Reads(c, r)
  <2>1. TokenReached(l, r) /\ r.current_.type # "none"
    BY <1>2, <1>6 DEF Reads, TokenReached
  <2> QED
    BY <1>2, <1>6, <2>1 DEF NextPart, r
<1> QED
  BY <1>2, <1>3, <1>4, <1>5, <1>6

Reached(l, r) ==
    /\ r \in Cursor
    /\ r.exit \/ /\ r.src_index_ <= Len(src_)
                 /\ EndReached(l, r) \/ /\ TokenReached(l, r)
                                        /\ r.current_.line = r.curr_line_

LEMMA NextTokenReaches ==
    ASSUME Readable, NEW l, Ready(l)
    PROVE  Reached(l, NextToken(l))
<1> DEFINE S == NextPart(l)
           Done == {c \in Cursor : c.current_.type # "none"}
           body == [c \in Cursor |-> IF c.current_.type = "none" /\ ~c.exit
                                     THEN advance_impl(c) ELSE c]
           start == advance_impl(l)
           next == Loop(body, start)
           lined == [next EXCEPT !.current_.line = next.curr_line_]
<1>1. l \in Cursor /\ l.src_index_ \in Nat /\ l.curr_line_ \in Nat /\ Len(src_) \in Nat
  BY DEF Ready, Cursor, Readable
<1>2. start \in S
  <2>1. Blank(l.src_index_, l.src_index_)
    BY <1>1, NothingIsBlank
  <2>2. Newline \notin Chars(l.src_index_, l.src_index_)
    BY <1>1 DEF Chars
  <2>3. Lines(l.src_index_, l.src_index_) = 0
    BY <1>1, <2>2, LinesOfNone
  <2>4. l.curr_line_ = l.curr_line_ + Lines(l.src_index_, l.src_index_)
    BY <1>1, <2>3
  <2> QED
    BY <1>1, <2>1, <2>4, TurnReaches
<1>3. Scans(body, S, Done)
  <2> SUFFICES ASSUME NEW c \in S
               PROVE  IF c.exit \/ c \in Done THEN body[c] = c
                      ELSE /\ c.src_index_ <= Len(src_)
                           /\ body[c] \in S
                           /\ \/ body[c].exit \/ body[c] \in Done
                              \/ body[c].src_index_ > c.src_index_
    BY DEF Scans, NextPart
  <2>1. c \in Cursor /\ (c.exit \/ c.src_index_ <= Len(src_))
    BY DEF NextPart
  <2>2. CASE c.exit \/ c \in Done
    BY <2>1, <2>2
  <2>3. CASE ~c.exit /\ c.current_.type = "none"
    <3>1. BlankReached(l, c) /\ Ready(c)
      BY <2>1, <2>3 DEF NextPart, EndReached, TokenReached, Ready
    <3>2. /\ advance_impl(c) \in S
          /\ \/ advance_impl(c).exit \/ advance_impl(c).current_.type # "none"
             \/ advance_impl(c).src_index_ > c.src_index_
      BY <1>1, <2>1, <3>1, TurnReaches DEF BlankReached
    <3>3. body[c] = advance_impl(c)
      BY <2>1, <2>3
    <3>4. advance_impl(c) \in Cursor
      BY <3>2 DEF NextPart
    <3> HIDE DEF body, S
    <3> QED
      BY <2>1, <2>3, <3>2, <3>3, <3>4
  <2> QED
    BY <2>1, <2>2, <2>3
<1>4. NextToken(l) = lined
  BY DEF NextToken
<1> HIDE DEF body, S, Done, start
<1>5. next \in S /\ (next.exit \/ next \in Done)
  BY <1>1, <1>2, <1>3, ScanEnds
<1> HIDE DEF next
<1>6. next \in Cursor
  BY <1>5 DEF S, NextPart
<1>7. /\ lined \in Cursor /\ lined.exit = next.exit
      /\ lined.src_index_ = next.src_index_ /\ lined.curr_line_ = next.curr_line_
      /\ lined.current_.type = next.current_.type
      /\ lined.current_.from = next.current_.from
      /\ lined.current_.to = next.current_.to
      /\ lined.current_.line = lined.curr_line_
  <2> DEFINE t == [next.current_ EXCEPT !.line = next.curr_line_]
  <2>1. /\ next.current_ \in [type : TokenTypes, from : Nat, to : Nat, line : Nat]
        /\ next.curr_line_ \in Nat
    BY <1>6 DEF Cursor
  <2>2. /\ t \in [type : TokenTypes, from : Nat, to : Nat, line : Nat]
        /\ t.type = next.current_.type /\ t.from = next.current_.from
        /\ t.to = next.current_.to /\ t.line = next.curr_line_
    BY <2>1
  <2>3. lined = [next EXCEPT !.current_ = t]
    OBVIOUS
  <2> HIDE DEF t, lined
  <2> QED
    BY <1>6, <2>2, <2>3 DEF Cursor
<1> HIDE DEF lined
<1>8. CASE next.exit
  BY <1>4, <1>7, <1>8 DEF Reached
<1>9. CASE ~next.exit
  <2>1. /\ next.src_index_ <= Len(src_)
        /\ EndReached(l, next) \/ TokenReached(l, next)
    BY <1>5, <1>9 DEF S, Done, NextPart, BlankReached
  <2>2. EndReached(l, next) => EndReached(l, lined)
    BY <1>7 DEF EndReached
  <2>3. LongestToken(next.current_) => LongestToken(lined.current_)
    BY <1>7 DEF LongestToken
  <2>4. TokenReached(l, next) => TokenReached(l, lined)
    BY <1>7, <2>3 DEF TokenReached
  <2> QED
    BY <1>4, <1>7, <2>1, <2>2, <2>4 DEF Reached
<1> QED
  BY <1>8, <1>9

\* At a NUL the file ends, and ends again.
LEMMA AtTheEnd ==
    ASSUME Len(src_) \in Nat, NEW l \in Cursor, CharAt(l.src_index_) = NUL
    PROVE  LET r == NextToken(l)
           IN /\ r \in Cursor /\ r.exit = l.exit
              /\ r.src_index_ = l.src_index_ /\ r.current_.type = "eof"
<1> DEFINE end == EndOfFile(l)
           body == [c \in Cursor |-> IF c.current_.type = "none" /\ ~c.exit
                                     THEN advance_impl(c) ELSE c]
           next == Loop(body, advance_impl(l))
           lined == [next EXCEPT !.current_.line = next.curr_line_]
<1>1. advance_impl(l) = end
  <2> DEFINE c == CharAt(l.src_index_)
  <2>1. c = NUL /\ NUL \notin Blanks \cup {Newline, "/", "'", Quote, "."}
    BY DEF Blanks, Space, Newline, NUL, Quote
  <2>2. advance_impl(l) =
            CASE c = Newline -> NoToken(advance_char(advance_line(l), 1))
              [] c \in Blanks \ {Newline} -> NoToken(advance_char(l, 1))
              [] c = "/" -> token_fwdslash(l)
              [] c = "'" -> token_singlequote(l)
              [] c = Quote -> token_quote(l)
              [] c = "." -> token_dot(l)
              [] c = NUL -> EndOfFile(l)
              [] c = "#" -> Token("illegal", l.src_index_, advance_char(l, 1))
              [] c \in Single \cup (DOMAIN Second \ {"/"}) -> token_operator(l)
              [] OTHER -> infer_ambiguous_token(l)
    BY DEF advance_impl, current_char
  <2>3. c # "#" /\ c \notin Single \cup (DOMAIN Second \ {"/"})
    BY <2>1, SecondCharacters DEF NUL, Single, Backslash
  <2> HIDE DEF c
  <2> QED
    BY <2>1, <2>2, <2>3
<1>2. /\ end \in Cursor /\ end.exit = l.exit
      /\ end.src_index_ = l.src_index_ /\ end.current_.type = "eof"
  BY EndFields
<1> HIDE DEF end
<1>3. Keeps(body, {end})
  BY <1>2 DEF Keeps
<1>4. NextToken(l) = lined
  BY DEF NextToken
<1> HIDE DEF body
<1>5. next = end
  <2>1. end \in {end}
    OBVIOUS
  <2>2. Loop(body, end) \in {end}
    BY <1>3, <2>1, LoopKeeps
  <2> QED
    BY <1>1, <2>2
<1> HIDE DEF next
<1> DEFINE t == [next.current_ EXCEPT !.line = next.curr_line_]
<1>6. /\ t \in [type : TokenTypes, from : Nat, to : Nat, line : Nat]
      /\ t.type = next.current_.type
  BY <1>2, <1>5 DEF Cursor
<1>7. lined = [next EXCEPT !.current_ = t]
  OBVIOUS
<1> HIDE DEF t, lined
<1>8. /\ lined \in Cursor /\ lined.exit = next.exit
      /\ lined.src_index_ = next.src_index_ /\ lined.current_ = t
  BY <1>2, <1>5, <1>6, <1>7 DEF Cursor
<1> QED
  BY <1>2, <1>4, <1>5, <1>6, <1>8

\* advance by one token.
LEMMA AdvanceReaches ==
    ASSUME Readable, NEW l, Ready(l)
    PROVE  LET r == advance(l, 1)
           IN /\ Reached(l, r)
              /\ CharAt(l.src_index_) = NUL =>
                     /\ r.current_.type = "eof" /\ ~r.exit
                     /\ r.src_index_ = l.src_index_
<1>1. l \in Cursor /\ l.src_index_ \in Nat /\ Len(src_) \in Nat /\ ~l.exit
  BY DEF Ready, Cursor, Readable
<1>2. advance(l, 1) = advance1(l)
  BY DEF advance
<1>3. CASE l.src_index_ >= Len(src_)
  <2>1. advance1(l) = EndOfFile(l)
    BY <1>3 DEF advance1
  <2> DEFINE r == EndOfFile(l)
  <2>2. /\ r \in Cursor /\ r.exit = l.exit /\ r.src_index_ = l.src_index_
        /\ r.current_.type = "eof"
        /\ r.current_.from = l.src_index_ /\ r.current_.to = l.src_index_
    BY <1>1, EndFields
  <2> HIDE DEF r
  <2>3. CharAt(l.src_index_) = NUL /\ Blank(l.src_index_, l.src_index_)
    BY <1>1, <1>3, EndOfText, NothingIsBlank
  <2>4. l.src_index_ \in l.src_index_..r.src_index_
    BY <1>1, <2>2
  <2>5. EndReached(l, r)
    BY <2>2, <2>3, <2>4 DEF EndReached
  <2>6. Reached(l, r)
    BY <2>2, <2>5 DEF Reached, Ready
  <2> QED
    BY <1>1, <1>2, <2>1, <2>2, <2>6 DEF r
<1>4. CASE ~(l.src_index_ >= Len(src_))
  <2>1. advance1(l) = NextToken(l)
    BY <1>4 DEF advance1
  <2> QED
    BY <1>1, <1>2, <2>1, NextTokenReaches, AtTheEnd
<1> QED
  BY <1>3, <1>4

\* What advance comes to is a place to advance from.
LEMMA ReachedIsReady ==
    ASSUME NEW l, NEW r, Reached(l, r), ~r.exit
    PROVE  Ready(r)
  BY DEF Reached, Ready, EndReached, TokenReached

\* advance by one or two tokens gives a cursor.
LEMMA AdvanceIsCursor ==
    ASSUME Readable, NEW l, Ready(l), NEW amnt \in 1..2
    PROVE  advance(l, amnt) \in Cursor
<1>1. Reached(l, advance(l, 1)) /\ advance(l, 1) = advance1(l)
  BY AdvanceReaches DEF advance
<1>2. CASE amnt = 1 \/ l.src_index_ >= Len(src_)
  BY <1>1, <1>2 DEF advance, Reached
<1>3. CASE ~(amnt = 1 \/ l.src_index_ >= Len(src_))
  <2> DEFINE next == advance1(l)
  <2>1. advance(l, amnt) = IF next.exit THEN next ELSE NextToken(next)
    BY <1>3 DEF advance
  <2>2. Reached(l, next)
    BY <1>1
  <2> HIDE DEF next
  <2>3. next \in Cursor
    BY <2>2 DEF Reached
  <2>4. CASE ~next.exit
    <3>1. Ready(next)
      BY <2>2, <2>4, ReachedIsReady
    <3>2. Reached(next, NextToken(next))
      BY <3>1, NextTokenReaches
    <3> QED
      BY <2>1, <2>4, <3>2 DEF Reached
  <2> QED
    BY <2>1, <2>3, <2>4
<1> QED
  BY <1>2, <1>3

\* peek leaves the cursor where it was, or behind the next token if it had none.
LEMMA PeekComesBack ==
    ASSUME Readable, NEW l, Ready(l), NEW amnt \in 1..2
    PROVE  LET r == peek(l, amnt)
           IN /\ r \in Cursor
              /\ r.exit \/ r = IF l.current_.type = "none" THEN advance(l, 1) ELSE l
<1> DEFINE start == current(l)
           peeked == IF start.exit THEN start ELSE advance(start, amnt)
           r == [peeked EXCEPT !.curr_line_ = start.curr_line_,
                               !.src_index_ = start.src_index_,
                               !.current_ = start.current_]
<1>1. peek(l, amnt) = r
  BY DEF peek
<1>2. start = IF l.current_.type = "none" THEN advance(l, 1) ELSE l
  BY DEF current
<1>3. start \in Cursor /\ (start.exit \/ Ready(start))
  <2>1. Reached(l, advance(l, 1))
    BY AdvanceReaches
  <2>2. l \in Cursor
    BY DEF Ready
  <2> HIDE DEF start
  <2> QED
    BY <1>2, <2>1, <2>2, ReachedIsReady DEF Reached
<1> HIDE DEF start
<1>4. peeked \in Cursor
  BY <1>3, AdvanceIsCursor
<1> HIDE DEF peeked
<1>5. /\ r \in Cursor /\ r.exit = peeked.exit
      /\ r.curr_line_ = start.curr_line_ /\ r.src_index_ = start.src_index_
      /\ r.current_ = start.current_
  BY <1>3, <1>4 DEF Cursor
<1>6. ~r.exit => ~start.exit
  BY <1>5 DEF peeked
<1>7. ~r.exit => r = start
  <2>1. r \in Cursor /\ start \in Cursor
    BY <1>3, <1>5
  <2>2. ~r.exit => r.exit = start.exit
    BY <1>3, <1>5, <1>6 DEF Cursor
  <2> HIDE DEF r
  <2> QED
    BY <1>5, <2>1, <2>2 DEF Cursor
<1> HIDE DEF r
<1> QED
  BY <1>1, <1>2, <1>5, <1>7

-----------------------------------------------------------------------------
(* The inductive invariant                                                 *)

Before(ts, i) == IF i = 1 THEN 0 ELSE ts[i - 1].to

\* The line breaks before a position that are in none of the tokens before i.
Uncounted(ts, i, p) ==
    {q \in LineBreaks(0, p) : \A k \in 1..(i - 1) : q \notin ts[k].from..(ts[k].to - 1)}

EndFits(ts, i) ==
    /\ ts[i].from = ts[i].to
    /\ CharAt(ts[i].from) = NUL
    /\ \E b \in Before(ts, i)..ts[i].from :
           /\ Blank(Before(ts, i), b)
           /\ b = ts[i].from \/ OpenComment(b, ts[i].from)
LexemeFits(ts, i) ==
    /\ ts[i].from < ts[i].to
    /\ Blank(Before(ts, i), ts[i].from)
    /\ LongestToken(ts[i])
    /\ ts[i].line = 1 + Cardinality(Uncounted(ts, i, ts[i].from))

\* A token is behind the ones before it, none of which is the end of the file.
TokenFits(ts, i) ==
    /\ ts[i].type # "none" /\ ts[i].to <= Len(src_)
    /\ \A k \in 1..(i - 1) : ts[k].type # "eof" /\ ts[k].to <= ts[i].from
    /\ IF ts[i].type = "eof" THEN EndFits(ts, i) ELSE LexemeFits(ts, i)

\* The cursor is behind the tokens, at the end of the file or behind blanks in
\* which it has counted the lines.
Placed(ts, l) ==
    /\ Ready(l)
    /\ \A k \in DOMAIN ts : ts[k].to <= l.src_index_
    /\ IF ts # <<>> /\ Last(ts).type = "eof"
       THEN CharAt(l.src_index_) = NUL
       ELSE /\ Blank(Before(ts, Len(ts) + 1), l.src_index_)
            /\ l.curr_line_ = 1 + Cardinality(Uncounted(ts, Len(ts) + 1, l.src_index_))

IsLexed(ts, l) ==
    /\ ts \in Seq([type : TokenTypes, from : Nat, to : Nat, line : Nat])
    /\ l \in Cursor
    /\ \A i \in DOMAIN ts : TokenFits(ts, i)
    /\ l.exit \/ Placed(ts, l)

LEMMA UncountedIsFinite ==
    ASSUME NEW ts, NEW i, NEW p \in Nat
    PROVE  /\ IsFiniteSet(Uncounted(ts, i, p))
           /\ Cardinality(Uncounted(ts, i, p)) \in Nat
<1>1. IsFiniteSet(LineBreaks(0, p))
  BY LinesAreFinite
<1>2. Uncounted(ts, i, p) \subseteq LineBreaks(0, p)
  BY DEF Uncounted
<1> QED
  BY <1>1, <1>2, FS_Subset, FS_CardinalityType

\* The first n tokens end before a position.
AllBefore(ts, n, p) ==
    \A k \in 1..n : ts[k].from \in Nat /\ ts[k].to \in Nat /\ ts[k].to <= p

\* Lines behind the tokens are counted.
LEMMA UncountedGrows ==
    ASSUME NEW ts, NEW i \in Nat, NEW p \in Nat, NEW q \in Nat, p <= q,
           AllBefore(ts, i - 1, p)
    PROVE  Cardinality(Uncounted(ts, i, q)) =
               Cardinality(Uncounted(ts, i, p)) + Lines(p, q)
<1> DEFINE A == Uncounted(ts, i, p)
           B == LineBreaks(p, q)
<1>1. Uncounted(ts, i, q) = A \cup B
  <2>1. LineBreaks(0, q) = LineBreaks(0, p) \cup B
    BY DEF LineBreaks
  <2>2. \A x \in B : \A k \in 1..(i - 1) : x \notin ts[k].from..(ts[k].to - 1)
    BY DEF LineBreaks, AllBefore
  <2> HIDE DEF B
  <2> QED
    BY <2>1, <2>2 DEF Uncounted
<1>2. A \cap B = {}
  BY DEF Uncounted, LineBreaks
<1>3. IsFiniteSet(A) /\ Cardinality(A) \in Nat
  BY UncountedIsFinite
<1>4. IsFiniteSet(B) /\ Cardinality(B) \in Nat
  BY LinesAreFinite DEF Lines
<1> HIDE DEF A, B
<1>5. Cardinality(A \cup B) = Cardinality(A) + Cardinality(B) - Cardinality(A \cap B)
  BY <1>3, <1>4, FS_Union
<1>6. Cardinality(A \cap B) = 0
  BY <1>2, FS_EmptySet
<1> QED
  BY <1>1, <1>3, <1>4, <1>5, <1>6 DEF A, B, Lines

TokenRecord == [type : TokenTypes, from : Nat, to : Nat, line : Nat]

\* What a token needs is said of the tokens up to it only.
LEMMA FitsInPrefix ==
    ASSUME NEW ts, NEW us, NEW i \in Nat, \A k \in 1..i : us[k] = ts[k],
           i >= 1, TokenFits(ts, i)
    PROVE  TokenFits(us, i)
<1>1. us[i] = ts[i]
  OBVIOUS
<1>2. Before(us, i) = Before(ts, i)
  BY DEF Before
<1>3. \A p : Uncounted(us, i, p) = Uncounted(ts, i, p)
  BY DEF Uncounted
<1>4. EndFits(ts, i) => EndFits(us, i)
  BY <1>1, <1>2 DEF EndFits
<1>5. LexemeFits(ts, i) => LexemeFits(us, i)
  BY <1>1, <1>2, <1>3 DEF LexemeFits
<1> QED
  BY <1>1, <1>4, <1>5 DEF TokenFits

\* The tokens that MoveTo comes to.
Moved(ts, r) ==
    IF r.exit \/ (ts # <<>> /\ r.current_.type = "eof" /\ Last(ts).type = "eof")
    THEN ts ELSE Append(ts, r.current_)

\* Where the last token is not the end of the file, no token is.
LEMMA NoEndBefore ==
    ASSUME NEW ts \in Seq(TokenRecord), \A i \in DOMAIN ts : TokenFits(ts, i),
           ts = <<>> \/ Last(ts).type # "eof"
    PROVE  \A k \in 1..Len(ts) : ts[k].type # "eof"
<1> SUFFICES ASSUME NEW k \in 1..Len(ts) PROVE ts[k].type # "eof"
  OBVIOUS
<1>1. Len(ts) \in Nat /\ DOMAIN ts = 1..Len(ts) /\ ts # <<>>
  OBVIOUS
<1>2. Len(ts) \in DOMAIN ts /\ Last(ts) = ts[Len(ts)]
  BY <1>1 DEF Last
<1>3. CASE k = Len(ts)
  BY <1>1, <1>2, <1>3
<1>4. CASE k # Len(ts)
  <2>1. \A n \in Nat : \A j \in 1..n : j # n => j \in 1..(n - 1)
    OBVIOUS
  <2>2. k \in 1..(Len(ts) - 1)
    BY <1>1, <1>4, <2>1
  <2> QED
    BY <1>2, <2>2 DEF TokenFits
<1> QED
  BY <1>3, <1>4

\* The next token fits behind those there are.
LEMMA NextFits ==
    ASSUME NEW ts \in Seq(TokenRecord), NEW l, NEW r,
           \A i \in DOMAIN ts : TokenFits(ts, i),
           ts = <<>> \/ Last(ts).type # "eof",
           Len(src_) \in Nat, Placed(ts, l), Reached(l, r), ~r.exit,
           NEW us, us = Append(ts, r.current_), NEW n, n = Len(ts) + 1
    PROVE  /\ us \in Seq(TokenRecord) /\ Len(us) = n
           /\ TokenFits(us, n)
           /\ Placed(us, r)
<1> DEFINE p == l.src_index_
           q == r.src_index_
           t == r.current_
<1>1. /\ Len(ts) \in Nat /\ n \in Nat /\ n >= 1
      /\ l \in Cursor /\ r \in Cursor /\ p \in Nat /\ q \in Nat
      /\ t \in TokenRecord /\ t.from \in Nat /\ t.to \in Nat
      /\ l.curr_line_ \in Nat /\ p <= Len(src_) /\ q <= Len(src_)
  <2>1. l \in Cursor /\ p <= Len(src_)
    BY DEF Placed, Ready
  <2>2. r \in Cursor /\ q <= Len(src_)
    BY DEF Reached
  <2>3. /\ p \in Nat /\ q \in Nat /\ l.curr_line_ \in Nat
        /\ t \in TokenRecord
    BY <2>1, <2>2 DEF Cursor, TokenRecord
  <2>4. t.from \in Nat /\ t.to \in Nat
    BY <2>3 DEF TokenRecord
  <2>5. Len(ts) \in Nat /\ n \in Nat /\ n >= 1
    OBVIOUS
  <2> QED
    BY <2>1, <2>2, <2>3, <2>4, <2>5
<1>2. /\ us \in Seq(TokenRecord) /\ Len(us) = n /\ us[n] = t
      /\ \A k \in 1..(n - 1) : us[k] = ts[k]
  BY <1>1
<1>3. \A k \in 1..(n - 1) :
          /\ ts[k].from \in Nat /\ ts[k].to \in Nat /\ ts[k].to <= p
          /\ ts[k].type # "eof"
  <2>1. \A k \in 1..(n - 1) : k \in DOMAIN ts /\ k \in 1..Len(ts) /\ ts[k] \in TokenRecord
    BY <1>1
  <2>2. \A k \in 1..Len(ts) : ts[k].type # "eof"
    BY NoEndBefore
  <2> QED
    BY <2>1, <2>2 DEF Placed, TokenRecord
<1>4. /\ Before(us, n) = Before(ts, n) /\ Before(ts, n) \in Nat
      /\ Blank(Before(ts, n), p)
      /\ l.curr_line_ = 1 + Cardinality(Uncounted(ts, n, p))
  <2>1. n # 1 => n - 1 \in 1..(n - 1)
    BY <1>1
  <2>2. Before(us, n) = Before(ts, n) /\ Before(ts, n) \in Nat
    BY <1>2, <1>3, <2>1 DEF Before
  <2> QED
    BY <2>2 DEF Placed
<1>5. \A x : Uncounted(us, n, x) = Uncounted(ts, n, x)
  BY <1>2 DEF Uncounted
<1>6. Ready(r)
  BY ReachedIsReady
<1>7. Last(us) = t /\ us # <<>> /\ DOMAIN us = 1..n
  BY <1>1, <1>2 DEF Last
<1>8. CASE EndReached(l, r)
  <2>1. /\ t.type = "eof" /\ t.from = q /\ t.to = q /\ CharAt(q) = NUL
    BY <1>8 DEF EndReached
  <2>2. PICK b \in p..q : Blank(p, b) /\ (b = q \/ OpenComment(b, q))
    BY <1>8 DEF EndReached
  <2>3. Blank(Before(ts, n), b)
    BY <1>1, <1>4, <2>2, BlankGoesOn
  <2>4. b \in Before(ts, n)..q
    BY <1>1, <1>4, <2>2, <2>3 DEF Blank
  <2>5. EndFits(us, n)
    BY <1>2, <1>4, <2>1, <2>2, <2>3, <2>4 DEF EndFits
  <2>6. \A k \in 1..(n - 1) : us[k].to <= q
    BY <1>1, <1>2, <1>3, <2>2
  <2>7. TokenFits(us, n)
    <3>1. \A k \in 1..(n - 1) : us[k].type # "eof" /\ us[k].to <= us[n].from
      BY <1>2, <1>3, <2>1, <2>6
    <3> QED
      BY <1>1, <1>2, <2>1, <2>5, <3>1 DEF TokenFits
  <2>8. \A k \in DOMAIN us : us[k].to <= q
    <3> SUFFICES ASSUME NEW k \in 1..n PROVE us[k].to <= q
      BY <1>7
    <3> QED
      BY <1>1, <1>2, <2>1, <2>6
  <2>9. Placed(us, r)
    BY <1>6, <1>7, <2>1, <2>8 DEF Placed
  <2> QED
    BY <1>2, <2>7, <2>9
<1>9. CASE TokenReached(l, r)
  <2>1. /\ t.type \notin {"none", "eof"} /\ Blank(p, t.from)
        /\ t.from < t.to /\ t.to = q /\ LongestToken(t)
        /\ r.curr_line_ = l.curr_line_ + Lines(p, t.from)
        /\ t.line = r.curr_line_
    <3>1. ~EndReached(l, r)
      BY <1>9 DEF TokenReached, EndReached
    <3>2. t.line = r.curr_line_
      BY <3>1 DEF Reached
    <3> QED
      BY <1>9, <3>2 DEF TokenReached
  <2>2. Blank(Before(ts, n), t.from) /\ p <= t.from
    <3>1. Blank(Before(ts, n), t.from)
      BY <1>1, <1>4, <2>1, BlankGoesOn
    <3> QED
      BY <2>1, <3>1 DEF Blank
  <2>3. r.curr_line_ = 1 + Cardinality(Uncounted(ts, n, t.from))
    <3>1. AllBefore(ts, n - 1, p)
      BY <1>3 DEF AllBefore
    <3>2. Cardinality(Uncounted(ts, n, t.from)) =
              Cardinality(Uncounted(ts, n, p)) + Lines(p, t.from)
      <4>1. n \in Nat /\ p \in Nat /\ t.from \in Nat /\ p <= t.from
        BY <1>1, <2>2
      <4> QED
        BY <3>1, <4>1, UncountedGrows
    <3>3. Cardinality(Uncounted(ts, n, p)) \in Nat /\ Lines(p, t.from) \in Nat
      BY <1>1, UncountedIsFinite, LinesAreFinite
    <3> QED
      BY <1>1, <1>4, <2>1, <3>2, <3>3
  <2>4. LexemeFits(us, n)
    BY <1>2, <1>4, <1>5, <2>1, <2>2, <2>3 DEF LexemeFits
  <2>5. \A k \in 1..(n - 1) : us[k].to <= t.from
    BY <1>1, <1>2, <1>3, <2>2
  <2>6. TokenFits(us, n)
    <3>1. \A k \in 1..(n - 1) : us[k].type # "eof" /\ us[k].to <= us[n].from
      BY <1>2, <1>3, <2>5
    <3> QED
      BY <1>1, <1>2, <2>1, <2>4, <3>1 DEF TokenFits
  <2>7. \A k \in DOMAIN us : us[k].to <= q
    <3> SUFFICES ASSUME NEW k \in 1..n PROVE us[k].to <= q
      BY <1>7
    <3>1. k # n => us[k].to <= t.from /\ us[k].to \in Nat
      BY <1>1, <1>2, <1>3, <2>5
    <3> QED
      BY <1>1, <1>2, <2>1, <3>1
  <2>8. Uncounted(us, n + 1, q) = Uncounted(ts, n, t.from)
    <3> DEFINE Free(x, m) == \A k \in 1..m : x \notin us[k].from..(us[k].to - 1)
    <3>1. Uncounted(us, n + 1, q) = {x \in LineBreaks(0, q) : Free(x, n)}
      BY <1>1 DEF Uncounted
    <3>2. Uncounted(us, n, t.from) = {x \in LineBreaks(0, t.from) : Free(x, n - 1)}
      BY <1>1 DEF Uncounted
    <3>3. \A x : Free(x, n) <=> Free(x, n - 1) /\ x \notin t.from..(q - 1)
      BY <1>1, <1>2, <2>1
    <3>4. \A x \in LineBreaks(0, q) :
              x \notin t.from..(q - 1) <=> x \in LineBreaks(0, t.from)
      BY <1>1, <2>1 DEF LineBreaks
    <3>5. LineBreaks(0, t.from) \subseteq LineBreaks(0, q)
      BY <1>1, <2>1 DEF LineBreaks
    <3> HIDE DEF Free
    <3>6. Uncounted(us, n + 1, q) = Uncounted(us, n, t.from)
      BY <3>1, <3>2, <3>3, <3>4, <3>5
    <3> QED
      BY <1>5, <3>6
  <2>9. Before(us, n + 1) = q
    BY <1>1, <1>2, <2>1 DEF Before
  <2>10. Placed(us, r)
    <3>1. Blank(q, q)
      BY <1>1, NothingIsBlank
    <3> QED
      BY <1>2, <1>6, <1>7, <2>1, <2>3, <2>7, <2>8, <2>9, <3>1 DEF Placed
  <2> QED
    BY <1>2, <2>6, <2>10
<1> QED
  BY <1>8, <1>9 DEF Reached

\* The tokens and the cursor after MoveTo, from where the file may have ended.
LEMMA MoveKeeps ==
    ASSUME Len(src_) \in Nat, NEW ts, NEW l, NEW r, IsLexed(ts, l), ~l.exit,
           Reached(l, r),
           CharAt(l.src_index_) = NUL =>
               \/ r.exit
               \/ r.current_.type = "eof" /\ r.src_index_ = l.src_index_
    PROVE  IsLexed(Moved(ts, r), r)
<1>1. /\ ts \in Seq(TokenRecord) /\ \A i \in DOMAIN ts : TokenFits(ts, i)
      /\ l \in Cursor /\ Placed(ts, l) /\ r \in Cursor
  BY DEF IsLexed, Reached, TokenRecord
<1>2. CASE r.exit
  BY <1>1, <1>2 DEF Moved, IsLexed, TokenRecord
<1>3. CASE ~r.exit /\ ts # <<>> /\ Last(ts).type = "eof"
  <2>1. CharAt(l.src_index_) = NUL
    BY <1>1, <1>3 DEF Placed
  <2>2. r.current_.type = "eof" /\ r.src_index_ = l.src_index_
    BY <1>3, <2>1
  <2>3. Moved(ts, r) = ts
    BY <1>3, <2>2 DEF Moved
  <2>4. Ready(r)
    BY <1>3, ReachedIsReady
  <2>5. Placed(ts, r)
    BY <1>1, <1>3, <2>1, <2>2, <2>4 DEF Placed
  <2> QED
    BY <1>1, <2>3, <2>5 DEF IsLexed, TokenRecord
<1>4. CASE ~r.exit /\ (ts = <<>> \/ Last(ts).type # "eof")
  <2> DEFINE us == Append(ts, r.current_)
             n == Len(ts) + 1
  <2>1. Moved(ts, r) = us
    BY <1>4 DEF Moved
  <2>2. us \in Seq(TokenRecord) /\ Len(us) = n /\ TokenFits(us, n) /\ Placed(us, r)
    BY <1>1, <1>4, NextFits
  <2>3. \A i \in DOMAIN us : TokenFits(us, i)
    <3> SUFFICES ASSUME NEW i \in DOMAIN us PROVE TokenFits(us, i)
      OBVIOUS
    <3>1. Len(ts) \in Nat /\ i \in 1..n
      BY <1>1, <2>2
    <3>2. CASE i = n
      BY <2>2, <3>2
    <3>3. CASE i # n
      <4>1. /\ i \in DOMAIN ts /\ i \in Nat /\ i >= 1
            /\ \A k \in 1..i : us[k] = ts[k]
        BY <1>1, <3>1, <3>3
      <4> HIDE DEF us
      <4> QED
        BY <1>1, <4>1, FitsInPrefix
    <3> QED
      BY <3>2, <3>3
  <2> QED
    BY <1>1, <2>1, <2>2, <2>3 DEF IsLexed, TokenRecord
<1> QED
  BY <1>2, <1>3, <1>4

\* The cursor set back to a token.
LEMMA BackKeeps ==
    ASSUME Len(src_) \in Nat, NEW ts, NEW l, IsLexed(ts, l), ~l.exit,
           NEW i \in DOMAIN ts, ts[i].type = "word",
           NEW r, r = [l EXCEPT !.src_index_ = ts[i].from,
                                !.curr_line_ = ts[i].line,
                                !.current_ = [type |-> "none", from |-> ts[i].from,
                                              to |-> ts[i].from,
                                              line |-> ts[i].line]]
    PROVE  IsLexed(SubSeq(ts, 1, i - 1), r)
<1> DEFINE us == SubSeq(ts, 1, i - 1)
           t == [type |-> "none", from |-> ts[i].from, to |-> ts[i].from,
                 line |-> ts[i].line]
<1>1. /\ ts \in Seq(TokenRecord) /\ Len(ts) \in Nat /\ i \in 1..Len(ts)
      /\ \A k \in DOMAIN ts : TokenFits(ts, k)
      /\ l \in Cursor
  <2>1. /\ ts \in Seq(TokenRecord) /\ \A k \in DOMAIN ts : TokenFits(ts, k)
        /\ l \in Cursor
    BY DEF IsLexed, TokenRecord
  <2>2. Len(ts) \in Nat /\ DOMAIN ts = 1..Len(ts)
    BY <2>1
  <2> QED
    BY <2>1, <2>2
<1>2. ts[i] \in TokenRecord /\ ts[i].from \in Nat /\ ts[i].to \in Nat /\ ts[i].line \in Nat
  <2>1. ts[i] \in TokenRecord
    BY <1>1
  <2> QED
    BY <2>1 DEF TokenRecord
<1>3. /\ us \in Seq(TokenRecord) /\ Len(us) = i - 1 /\ DOMAIN us = 1..(i - 1)
      /\ \A k \in 1..(i - 1) : us[k] = ts[k] /\ k \in DOMAIN ts
  BY <1>1
<1>4. /\ r \in Cursor /\ r.src_index_ = ts[i].from /\ r.curr_line_ = ts[i].line
      /\ r.exit = l.exit /\ r.current_.type = "none"
  <2>1. t \in [type : TokenTypes, from : Nat, to : Nat, line : Nat] /\ t.type = "none"
    BY <1>2 DEF TokenTypes
  <2>2. r = [l EXCEPT !.src_index_ = ts[i].from, !.curr_line_ = ts[i].line,
                      !.current_ = t]
    OBVIOUS
  <2> HIDE DEF t
  <2> QED
    BY <1>1, <1>2, <2>1, <2>2 DEF Cursor
<1> HIDE DEF us
<1>5. /\ ts[i].to <= Len(src_) /\ LexemeFits(ts, i)
      /\ \A k \in 1..(i - 1) : ts[k].type # "eof" /\ ts[k].to <= ts[i].from
  BY <1>1 DEF TokenFits
<1>6. \A k \in DOMAIN us : TokenFits(us, k)
  <2> SUFFICES ASSUME NEW k \in DOMAIN us PROVE TokenFits(us, k)
    OBVIOUS
  <2>1. k \in Nat /\ k >= 1 /\ k \in DOMAIN ts /\ \A j \in 1..k : us[j] = ts[j]
    BY <1>1, <1>3
  <2> QED
    BY <1>1, <2>1, FitsInPrefix
<1>7. Ready(r)
  BY <1>2, <1>4, <1>5 DEF Ready, LexemeFits
<1>8. Before(us, i) = Before(ts, i) /\ \A p : Uncounted(us, i, p) = Uncounted(ts, i, p)
  <2>1. i # 1 => i - 1 \in 1..(i - 1)
    BY <1>1
  <2> QED
    BY <1>3, <2>1 DEF Before, Uncounted
<1>9. /\ Blank(Before(us, i), r.src_index_)
      /\ r.curr_line_ = 1 + Cardinality(Uncounted(us, i, r.src_index_))
  BY <1>4, <1>5, <1>8 DEF LexemeFits
<1>10. ~(us # <<>> /\ Last(us).type = "eof")
  <2>1. us # <<>> => Len(us) \in 1..(i - 1)
    BY <1>1, <1>3
  <2> QED
    BY <1>3, <1>5, <2>1 DEF Last
<1>11. Len(us) + 1 = i /\ \A k \in DOMAIN us : us[k].to <= r.src_index_
  BY <1>1, <1>3, <1>4, <1>5
<1>12. Placed(us, r)
  BY <1>7, <1>9, <1>10, <1>11 DEF Placed
<1> QED
  BY <1>3, <1>4, <1>6, <1>12 DEF IsLexed, TokenRecord, us

-----------------------------------------------------------------------------
(* No step changes the text, so what is said of the text stays true.       *)

LEMMA SameCharacters ==
    ASSUME src_' = src_
    PROVE  /\ \A p : CharAt(p)' = CharAt(p)
           /\ \A a, b : Chars(a, b)' = Chars(a, b)
           /\ WellEncoded' = WellEncoded
  BY DEF CharAt, Chars, WellEncoded

LEMMA SameNumbers ==
    ASSUME src_' = src_
    PROVE  /\ \A a, b : Numeral(a, b)' = Numeral(a, b)
           /\ \A a, b : Float(a, b)' = Float(a, b)
           /\ \A a, b : Hex(a, b)' = Hex(a, b)
<1>1. /\ \A p : CharAt(p)' = CharAt(p)
      /\ \A a, b : Chars(a, b)' = Chars(a, b)
  BY SameCharacters
<1>2. \A a, b : Numeral(a, b)' = Numeral(a, b)
  BY <1>1 DEF Numeral
<1>3. \A a, b : Mantissa(a, b)' = Mantissa(a, b)
  BY <1>1, <1>2 DEF Mantissa
<1>4. \A a, b : Float(a, b)' = Float(a, b)
  BY <1>1, <1>2, <1>3 DEF Float
<1>5. \A a, b : Hex(a, b)' = Hex(a, b)
  BY <1>1 DEF Hex
<1> QED
  BY <1>2, <1>4, <1>5

LEMMA SameLexemes ==
    ASSUME src_' = src_
    PROVE  \A type, a, b : Lexeme(type, a, b)' = Lexeme(type, a, b)
<1>1. /\ \A p : CharAt(p)' = CharAt(p)
      /\ \A a, b : Chars(a, b)' = Chars(a, b)
  BY SameCharacters
<1>2. \A a, b : Word(a, b)' = Word(a, b)
  BY <1>1 DEF Word
<1>3. \A a, b : String(a, b)' = String(a, b)
  BY <1>1 DEF String
<1>4. \A a, b : Character(a, b)' = Character(a, b)
  BY <1>1 DEF Character
<1>5. \A a, b : Operator(a, b)' = Operator(a, b)
  BY <1>1 DEF Operator
<1>6. /\ \A a, b : Numeral(a, b)' = Numeral(a, b)
      /\ \A a, b : Float(a, b)' = Float(a, b)
      /\ \A a, b : Hex(a, b)' = Hex(a, b)
  BY SameNumbers
<1> TAKE type, a, b
<1>7. /\ CharAt(b - 1)' = CharAt(b - 1)
      /\ Numeral(a, b)' = Numeral(a, b) /\ Float(a, b)' = Float(a, b)
      /\ Hex(a, b)' = Hex(a, b) /\ Word(a, b)' = Word(a, b)
      /\ String(a, b)' = String(a, b) /\ Character(a, b)' = Character(a, b)
      /\ Operator(a, b)' = Operator(a, b)
  BY <1>1, <1>2, <1>3, <1>4, <1>5, <1>6
<1> QED
  BY <1>7 DEF Lexeme

LEMMA SameLongest ==
    ASSUME src_' = src_
    PROVE  \A t : LongestToken(t)' = LongestToken(t)
<1>1. \A p : CharAt(p)' = CharAt(p)
  BY SameCharacters
<1>2. \A type, a, b : Lexeme(type, a, b)' = Lexeme(type, a, b)
  BY SameLexemes
<1>3. \A a : LexemeEnds(a)' = LexemeEnds(a)
  BY <1>2 DEF LexemeEnds
<1>4. \A a, b : LongestEnd(a, b)' = LongestEnd(a, b)
  BY <1>3 DEF LongestEnd
<1> QED
  BY <1>1, <1>2, <1>3, <1>4 DEF LongestToken

LEMMA SameBlanks ==
    ASSUME src_' = src_
    PROVE  /\ \A a, b : OpenComment(a, b)' = OpenComment(a, b)
           /\ \A a, b : Blank(a, b)' = Blank(a, b)
<1>1. /\ \A p : CharAt(p)' = CharAt(p)
      /\ \A a, b : Chars(a, b)' = Chars(a, b)
  BY SameCharacters
<1>2. \A a, b : LineComment(a, b)' = LineComment(a, b)
  BY <1>1 DEF LineComment
<1>3. \A a, b : OpenComment(a, b)' = OpenComment(a, b)
  BY <1>1 DEF OpenComment
<1>4. \A a, b : BlockComment(a, b)' = BlockComment(a, b)
  BY <1>1, <1>3 DEF BlockComment
<1>5. \A a, b : Piece(a, b)' = Piece(a, b)
  BY <1>1, <1>2, <1>4 DEF Piece
<1>6. \A a, b : Blank(a, b)' = Blank(a, b)
  BY <1>5 DEF Blank
<1> QED
  BY <1>3, <1>6

LEMMA SameLexed ==
    ASSUME src_' = src_
    PROVE  \A ts, l : IsLexed(ts, l) => IsLexed(ts, l)'
<1>1. \A p : CharAt(p)' = CharAt(p)
  BY SameCharacters
<1>2. \A a, b : LineBreaks(a, b)' = LineBreaks(a, b)
  BY <1>1 DEF LineBreaks
<1>3. \A ts, i, p : Uncounted(ts, i, p)' = Uncounted(ts, i, p)
  BY <1>2 DEF Uncounted
<1>4. \A ts, i : Before(ts, i)' = Before(ts, i)
  BY DEF Before
<1>5. /\ \A a, b : OpenComment(a, b)' = OpenComment(a, b)
      /\ \A a, b : Blank(a, b)' = Blank(a, b)
  BY SameBlanks
<1>6. \A ts, i : EndFits(ts, i)' = EndFits(ts, i)
  BY <1>1, <1>4, <1>5 DEF EndFits
<1>7. \A ts, i : LexemeFits(ts, i)' = LexemeFits(ts, i)
  BY <1>3, <1>4, <1>5, SameLongest DEF LexemeFits
<1>8. \A ts, i : TokenFits(ts, i)' = TokenFits(ts, i)
  BY <1>6, <1>7 DEF TokenFits
<1>9. \A l : Ready(l)' = Ready(l)
  BY <1>1 DEF Ready
<1>10. \A ts, l : Placed(ts, l)' = Placed(ts, l)
  BY <1>1, <1>3, <1>4, <1>5, <1>9 DEF Placed
<1> QED
  BY <1>8, <1>10 DEF IsLexed

-----------------------------------------------------------------------------
(* The theorems                                                            *)

LexerInv ==
    /\ Len(src_) \in Nat
    /\ WellEncoded => IsLexed(tokens, lx)

LEMMA LexerInit ==
    ASSUME Init
    PROVE  LexerInv
<1>1. Len(src_) \in Nat
  <2>1. PICK a \in Alphabets : src_ \in BoundedSeq(a, MaxLength)
    BY DEF Init
  <2>2. PICK n \in 0..MaxLength : src_ \in [1..n -> a]
    BY <2>1 DEF BoundedSeq, SeqOf
  <2>3. n \in Nat /\ Len(src_) = n
    BY <2>2
  <2> QED
    BY <2>3
<1>2. /\ tokens = <<>> /\ lx \in Cursor /\ ~lx.exit
      /\ lx.src_index_ = 0 /\ lx.curr_line_ = 1 /\ lx.current_.type = "none"
  <2> DEFINE t == [type |-> "none", from |-> 0, to |-> 0, line |-> 1]
  <2>1. t \in [type : TokenTypes, from : Nat, to : Nat, line : Nat] /\ t.type = "none"
    BY DEF TokenTypes
  <2>2. tokens = <<>> /\ lx = [src_index_ |-> 0, curr_line_ |-> 1, exit |-> FALSE,
                               current_ |-> t]
    BY DEF Init
  <2> HIDE DEF t
  <2> QED
    BY <2>1, <2>2 DEF Cursor
<1>3. Uncounted(tokens, 1, 0) = {}
  BY DEF Uncounted, LineBreaks
<1>4. Len(tokens) = 0 /\ Before(tokens, 1) = 0 /\ Blank(0, 0)
  <2>1. 0 \in Nat
    OBVIOUS
  <2> QED
    BY <1>2, <2>1, NothingIsBlank DEF Before
<1>5. lx.curr_line_ = 1 + Cardinality(Uncounted(tokens, 1, 0))
  <2>1. Cardinality(Uncounted(tokens, 1, 0)) = 0
    BY <1>3, FS_EmptySet
  <2> QED
    BY <1>2, <2>1
<1>6. Placed(tokens, lx)
  BY <1>1, <1>2, <1>4, <1>5 DEF Placed, Ready
<1>7. tokens \in Seq([type : TokenTypes, from : Nat, to : Nat, line : Nat])
  BY <1>2
<1> QED
  BY <1>1, <1>2, <1>6, <1>7 DEF LexerInv, IsLexed

LEMMA LexerNext ==
    ASSUME LexerInv, [Next]_vars
    PROVE  LexerInv'
<1>1. src_' = src_
  BY DEF Next, Peek, Reparse, Exited, vars
<1>2. Len(src_)' \in Nat /\ WellEncoded' = WellEncoded
  BY <1>1, SameCharacters DEF LexerInv
<1> SUFFICES ASSUME WellEncoded PROVE IsLexed(tokens', lx')
  <2>1. ASSUME NEW ts, NEW l, ts = tokens', l = lx', IsLexed(ts, l)
        PROVE  IsLexed(tokens, lx)'
    BY <1>1, <2>1, SameLexed
  <2> QED
    BY <1>2, <2>1 DEF LexerInv
<1>3. Readable /\ IsLexed(tokens, lx) /\ Len(src_) \in Nat
  BY DEF LexerInv, Readable
<1>4. ~lx.exit => Placed(tokens, lx) /\ Ready(lx)
  BY <1>3 DEF IsLexed, Placed
\* MoveTo by one token, with or without a look further ahead.
<1>5. ASSUME NEW r, ~lx.exit, MoveTo(r), r \in Cursor,
             r.exit \/ r = advance(lx, 1)
      PROVE  IsLexed(tokens', lx')
  <2>1. lx' = r /\ tokens' = Moved(tokens, r)
    BY <1>5 DEF MoveTo, Moved
  <2>2. /\ Reached(lx, r)
        /\ CharAt(lx.src_index_) = NUL =>
               \/ r.exit
               \/ r.current_.type = "eof" /\ r.src_index_ = lx.src_index_
    <3>1. CASE r.exit
      BY <1>5, <3>1 DEF Reached
    <3>2. CASE r = advance(lx, 1)
      BY <1>3, <1>4, <1>5, <3>2, AdvanceReaches
    <3> QED
      BY <1>5, <3>1, <3>2
  <2>3. IsLexed(Moved(tokens, r), r)
    BY <1>3, <1>5, <2>2, MoveKeeps
  <2> QED
    BY <2>1, <2>3
<1>6. CASE Advance
  <2>1. ~lx.exit /\ MoveTo(advance(lx, 1))
    BY <1>6 DEF Advance
  <2>2. advance(lx, 1) \in Cursor
    BY <1>3, <1>4, <2>1, AdvanceReaches DEF Reached
  <2> QED
    BY <1>5, <2>1, <2>2
<1>7. ASSUME NEW amnt \in 1..2, Peek(amnt) PROVE IsLexed(tokens', lx')
  <2>1. ~lx.exit
    BY <1>7 DEF Peek
  <2> DEFINE r == peek(lx, amnt)
  <2>2. /\ r \in Cursor
        /\ r.exit \/ r = IF lx.current_.type = "none" THEN advance(lx, 1) ELSE lx
    BY <1>3, <1>4, <2>1, PeekComesBack
  <2>3. IF lx.current_.type = "none" THEN MoveTo(r)
        ELSE lx' = r /\ tokens' = tokens
    BY <1>7 DEF Peek
  <2> HIDE DEF r
  <2>4. CASE lx.current_.type = "none"
    BY <1>5, <2>1, <2>2, <2>3, <2>4
  <2>5. CASE lx.current_.type # "none"
    <3>1. lx' = r /\ tokens' = tokens /\ r \in Cursor /\ (r.exit \/ r = lx)
      BY <2>2, <2>3, <2>5
    <3>2. IsLexed(tokens, r)
      BY <1>3, <3>1 DEF IsLexed
    <3> QED
      BY <3>1, <3>2
  <2> QED
    BY <2>4, <2>5
<1>8. CASE Reparse
  <2>1. PICK i \in DOMAIN tokens :
            /\ tokens[i].type = "word"
            /\ lx' = [lx EXCEPT !.src_index_ = tokens[i].from,
                                !.curr_line_ = tokens[i].line,
                                !.current_ = [type |-> "none", from |-> tokens[i].from,
                                              to |-> tokens[i].from,
                                              line |-> tokens[i].line]]
            /\ tokens' = SubSeq(tokens, 1, i - 1)
    BY <1>8 DEF Reparse
  <2>2. ~lx.exit
    BY <1>8 DEF Reparse
  <2> QED
    BY <1>3, <2>1, <2>2, BackKeeps
<1>9. CASE Exited \/ UNCHANGED vars
  BY <1>3, <1>9 DEF Exited, vars
<1> QED
  BY <1>6, <1>7, <1>8, <1>9 DEF Next

\* In every state the tokens are those that the text has, wherever the cursor
\* has been: what the theorems below follow from.
LEMMA LexerInvariant == Spec => []LexerInv
<1>1. Init => LexerInv
  BY LexerInit
<1>2. LexerInv /\ [Next]_vars => LexerInv'
  BY LexerNext
<1> QED
  BY <1>1, <1>2, PTL DEF Spec

\* In a file of any length over any characters, each token is the longest that
\* begins where it does and has the type that its text has, no matter how far
\* the parser has looked ahead and where the postparser has set the lexer back.
THEOREM LexerReadsLongestTokens == Spec => []TokensAreLongest
<1>1. LexerInv => TokensAreLongest
  <2> SUFFICES ASSUME LexerInv, WellEncoded, NEW i \in DOMAIN tokens
               PROVE  LongestToken(tokens[i])
    BY DEF TokensAreLongest
  <2>1. TokenFits(tokens, i)
    BY DEF LexerInv, IsLexed
  <2>2. CASE tokens[i].type = "eof"
    BY <2>2 DEF LongestToken
  <2>3. CASE tokens[i].type # "eof"
    BY <2>1, <2>3 DEF TokenFits, LexemeFits
  <2> QED
    BY <2>2, <2>3
<1> QED
  BY <1>1, LexerInvariant, PTL

\* Between two tokens of any file there are blanks and comments only, and the file
\* ends at a NUL or at its end, or in a comment that nothing closes.
THEOREM LexerSkipsNothing == Spec => []NothingIsSkipped
<1>1. LexerInv => NothingIsSkipped
  <2> SUFFICES ASSUME LexerInv, WellEncoded, NEW i \in DOMAIN tokens
               PROVE  IF tokens[i].type # "eof"
                      THEN Blank(Before(tokens, i), tokens[i].from)
                      ELSE /\ CharAt(tokens[i].from) = NUL
                           /\ \E b \in Before(tokens, i)..tokens[i].from :
                                  /\ Blank(Before(tokens, i), b)
                                  /\ b = tokens[i].from \/ OpenComment(b, tokens[i].from)
    BY DEF NothingIsSkipped, Before
  <2>1. TokenFits(tokens, i)
    BY DEF LexerInv, IsLexed
  <2> QED
    BY <2>1 DEF TokenFits, EndFits, LexemeFits
<1> QED
  BY <1>1, LexerInvariant, PTL

\* The line of a token of any file is one more than the line breaks before it that
\* are in no token, also after the lexer was set back or has looked ahead.
THEOREM LexerCountsLines == Spec => []LinesAreCounted
<1>1. LexerInv => LinesAreCounted
  <2> SUFFICES ASSUME LexerInv, WellEncoded, NEW i \in DOMAIN tokens,
                      tokens[i].type # "eof"
               PROVE  tokens[i].line =
                          1 + Cardinality({p \in LineBreaks(0, tokens[i].from) :
                                              \A k \in 1..(i - 1) : ~InToken(p, k)})
    BY DEF LinesAreCounted
  <2>1. TokenFits(tokens, i)
    BY DEF LexerInv, IsLexed
  <2>2. Uncounted(tokens, i, tokens[i].from) =
            {p \in LineBreaks(0, tokens[i].from) :
                \A k \in 1..(i - 1) : ~InToken(p, k)}
    BY DEF Uncounted, InToken
  <2> QED
    BY <2>1, <2>2 DEF TokenFits, LexemeFits
<1> QED
  BY <1>1, LexerInvariant, PTL
=============================================================================
