------------------------- MODULE ExprSyntax_proofs -------------------------
(***************************************************************************)
(* Proofs about the parser of expressions, for texts of any length, with   *)
(* any of the operators.                                                   *)
(*                                                                         *)
(* A stretch of a text is a run of the parser: the counter of open         *)
(* parentheses moves by what the stretch opens and closes, and the trees   *)
(* it is turned into hold its operands.  Runs compose; each routine is a   *)
(* run when the calls that it makes are.                                   *)
(***************************************************************************)
EXTENDS ExprSyntax, FiniteSetTheorems, SequenceTheorems, WellFoundedInduction, TLAPS

-----------------------------------------------------------------------------
(* Parentheses and operands of a stretch                                   *)

\* The braces, by name: a brace in a string is beyond the SMT translation.
LBrace == "{"
RBrace == "}"
LEMMA BracesAreOther ==
    \A b \in {LBrace, RBrace} :
        /\ b \notin {"eof", "(", ")", "a", "1", "d"}
        /\ b \notin Literals /\ b \notin Keywords /\ b \notin BinaryOperators
        /\ b \notin {"[", ".m"}
  BY Zenon DEF LBrace, RBrace, Literals, Keywords, BinaryOperators

\* The tokens of a text, whatever the constants.
ExprTokens == BinaryOperators \cup UnaryOperators
                \cup {"a", "1", "sizeof", "cast", "(", ")", "[", "]", ".m", ",", "T"}
                \cup {LBrace, RBrace}

\* The parentheses that the text opens and does not close from a to before b.
Unclosed(ts, a, b) == Count(ts, {"("}, a, b - 1) - Count(ts, {")"}, a, b - 1)

\* s is the places of the operands from a to before b.
Reads(ts, a, b, s) ==
    /\ s \in Seq(Nat)
    /\ \A x \in Int : (\E j \in 1..Len(s) : s[j] = x) <=> x \in Places(ts, {"a", "1"}, a, b - 1)
    /\ \A j, k \in 1..Len(s) : j < k => s[j] < s[k]

LEMMA CountIsNat ==
    ASSUME NEW ts, NEW S, NEW a \in Int, NEW b \in Int
    PROVE  IsFiniteSet(Places(ts, S, a, b)) /\ Count(ts, S, a, b) \in Nat
<1>1. IsFiniteSet(a..b)
  BY FS_Interval
<1>2. Places(ts, S, a, b) \subseteq a..b
  BY DEF Places
<1>3. IsFiniteSet(Places(ts, S, a, b))
  BY <1>1, <1>2, FS_Subset
<1> QED
  BY <1>3, FS_CardinalityType DEF Count

LEMMA CountAddsUp ==
    ASSUME NEW ts, NEW S, NEW a \in Int, NEW b \in Int, NEW c \in Int, a <= b, b <= c
    PROVE  Count(ts, S, a, c - 1) = Count(ts, S, a, b - 1) + Count(ts, S, b, c - 1)
<1> DEFINE P == Places(ts, S, a, b - 1)
           Q == Places(ts, S, b, c - 1)
<1>1. Places(ts, S, a, c - 1) = P \cup Q /\ P \cap Q = {}
  BY DEF Places
<1>2. IsFiniteSet(P) /\ IsFiniteSet(Q)
  BY CountIsNat
<1> HIDE DEF P, Q
<1>3. Cardinality(P \cup Q) = Cardinality(P) + Cardinality(Q) - Cardinality(P \cap Q)
  BY <1>2, FS_Union
<1>4. Cardinality(P) \in Nat /\ Cardinality(Q) \in Nat /\ Cardinality(P \cap Q) = 0
  BY <1>1, <1>2, FS_CardinalityType, FS_EmptySet
<1>5. /\ Count(ts, S, a, c - 1) = Cardinality(P \cup Q)
      /\ Count(ts, S, a, b - 1) = Cardinality(P)
      /\ Count(ts, S, b, c - 1) = Cardinality(Q)
  BY <1>1, Zenon DEF Count, P, Q
<1> QED
  BY <1>3, <1>4, <1>5

LEMMA UnclosedAddsUp ==
    ASSUME NEW ts, NEW a \in Int, NEW b \in Int, NEW c \in Int, a <= b, b <= c
    PROVE  /\ Unclosed(ts, a, b) \in Int
           /\ Unclosed(ts, a, c) = Unclosed(ts, a, b) + Unclosed(ts, b, c)
<1>1. \A S : /\ Count(ts, S, a, c - 1) = Count(ts, S, a, b - 1) + Count(ts, S, b, c - 1)
             /\ Count(ts, S, a, b - 1) \in Nat /\ Count(ts, S, b, c - 1) \in Nat
  BY CountAddsUp, CountIsNat
<1> QED
  BY <1>1 DEF Unclosed

LEMMA UnclosedOfNone ==
    ASSUME NEW ts, NEW a \in Int, NEW b \in Int, \A k \in a..(b - 1) : ts[k] \notin {"(", ")"}
    PROVE  Unclosed(ts, a, b) = 0
<1>1. Places(ts, {"("}, a, b - 1) = {} /\ Places(ts, {")"}, a, b - 1) = {}
  BY DEF Places
<1> QED
  BY <1>1, FS_EmptySet DEF Unclosed, Count

LEMMA UnclosedOfOne ==
    ASSUME NEW ts, NEW a \in Int
    PROVE  Unclosed(ts, a, a + 1) = IF ts[a] = "(" THEN 1 ELSE IF ts[a] = ")" THEN -1 ELSE 0
<1>1. /\ Places(ts, {"("}, a, (a + 1) - 1) = IF ts[a] = "(" THEN {a} ELSE {}
      /\ Places(ts, {")"}, a, (a + 1) - 1) = IF ts[a] = ")" THEN {a} ELSE {}
  BY DEF Places
<1>2. Cardinality({a}) = 1 /\ Cardinality({}) = 0
  BY FS_Singleton, FS_EmptySet
<1>3. /\ Count(ts, {"("}, a, (a + 1) - 1) = IF ts[a] = "(" THEN 1 ELSE 0
      /\ Count(ts, {")"}, a, (a + 1) - 1) = IF ts[a] = ")" THEN 1 ELSE 0
  BY <1>1, <1>2, Zenon DEF Count
<1> QED
  BY <1>3 DEF Unclosed

LEMMA ReadsNone ==
    ASSUME NEW ts, NEW a \in Int, NEW b \in Int, \A k \in a..(b - 1) : ts[k] \notin {"a", "1"}
    PROVE  Reads(ts, a, b, <<>>)
<1>1. <<>> \in Seq(Nat) /\ Len(<<>>) = 0
  OBVIOUS
<1> QED
  BY <1>1 DEF Reads, Places

LEMMA ReadsOne ==
    ASSUME NEW ts, NEW a \in Nat, ts[a] \in {"a", "1"}
    PROVE  Reads(ts, a, a + 1, <<a>>)
<1>1. <<a>> \in Seq(Nat) /\ Len(<<a>>) = 1 /\ <<a>>[1] = a
  OBVIOUS
<1>2. \A j \in 1..1 : j = 1
  OBVIOUS
<1>3. ASSUME NEW x \in Int
      PROVE  x = a <=> x \in Places(ts, {"a", "1"}, a, (a + 1) - 1)
  BY DEF Places
<1> DEFINE s == <<a>>
<1> HIDE DEF s
<1>4. s \in Seq(Nat) /\ Len(s) = 1 /\ s[1] = a
  BY <1>1 DEF s
<1>5. Reads(ts, a, a + 1, s)
  BY <1>2, <1>3, <1>4 DEF Reads
<1> QED
  BY <1>5 DEF s

LEMMA ReadsOn ==
    ASSUME NEW ts, NEW a \in Nat, NEW b \in Nat, NEW c \in Nat, a <= b, b <= c,
           NEW s, NEW t, Reads(ts, a, b, s), Reads(ts, b, c, t)
    PROVE  Reads(ts, a, c, s \o t)
<1> DEFINE r == s \o t
<1>1. s \in Seq(Nat) /\ t \in Seq(Nat) /\ Len(s) \in Nat /\ Len(t) \in Nat
  BY DEF Reads
<1>2. /\ r \in Seq(Nat) /\ Len(r) = Len(s) + Len(t)
      /\ \A i \in 1..(Len(s) + Len(t)) : r[i] = IF i <= Len(s) THEN s[i] ELSE t[i - Len(s)]
  BY <1>1, ConcatProperties
<1>3. /\ \A i \in 1..Len(s) : s[i] \in Nat /\ s[i] \in a..(b - 1) /\ ts[s[i]] \in {"a", "1"}
      /\ \A i \in 1..Len(t) : t[i] \in Nat /\ t[i] \in b..(c - 1) /\ ts[t[i]] \in {"a", "1"}
  <2>1. ASSUME NEW i \in 1..Len(s) PROVE s[i] \in Nat /\ s[i] \in Places(ts, {"a", "1"}, a, b - 1)
    <3>1. s[i] \in Nat
      BY <1>1
    <3> QED
      BY <3>1 DEF Reads
  <2>2. ASSUME NEW i \in 1..Len(t) PROVE t[i] \in Nat /\ t[i] \in Places(ts, {"a", "1"}, b, c - 1)
    <3>1. t[i] \in Nat
      BY <1>1
    <3> QED
      BY <3>1 DEF Reads
  <2> QED
    BY <2>1, <2>2 DEF Places
<1>6. /\ \A j, k \in 1..Len(s) : j < k => s[j] < s[k]
      /\ \A j, k \in 1..Len(t) : j < k => t[j] < t[k]
  BY DEF Reads
<1> HIDE DEF r
<1>7. Len(r) \in Nat /\ Len(r) = Len(s) + Len(t)
  BY <1>1, <1>2
<1>8. \A i \in 1..Len(s) : i \in 1..Len(r) /\ r[i] = s[i]
  BY <1>1, <1>2
<1>9. \A i \in 1..Len(t) : i + Len(s) \in 1..Len(r) /\ r[i + Len(s)] = t[i]
  <2> TAKE i \in 1..Len(t)
  <2>1. i + Len(s) \in 1..(Len(s) + Len(t)) /\ ~(i + Len(s) <= Len(s)) /\ (i + Len(s)) - Len(s) = i
    BY <1>1
  <2> QED
    BY <1>2, <2>1
<1>10. ASSUME NEW i \in 1..Len(r), ~(i <= Len(s))
       PROVE  i - Len(s) \in 1..Len(t) /\ r[i] = t[i - Len(s)]
  <2>1. i - Len(s) \in 1..Len(t) /\ (i - Len(s)) + Len(s) = i
    BY <1>1, <1>7, <1>10
  <2> QED
    BY <1>9, <2>1
<1>11. ASSUME NEW i \in 1..Len(r), i <= Len(s)
       PROVE  i \in 1..Len(s) /\ r[i] = s[i]
  <2>1. i \in 1..Len(s)
    BY <1>1, <1>7, <1>11
  <2> QED
    BY <1>8, <2>1
<1>4. \A j, k \in 1..Len(r) : j < k => r[j] < r[k]
  <2> TAKE j, k \in 1..Len(r)
  <2> HAVE j < k
  <2>0. j \in Int /\ k \in Int
    BY <1>7
  <2>1. CASE k <= Len(s)
    <3>1. j <= Len(s)
      BY <1>1, <2>0, <2>1
    <3>2. j \in 1..Len(s) /\ k \in 1..Len(s) /\ r[j] = s[j] /\ r[k] = s[k]
      BY <1>11, <2>1, <3>1
    <3> QED
      BY <1>6, <3>2
  <2>2. CASE ~(j <= Len(s))
    <3>1. ~(k <= Len(s)) /\ j - Len(s) < k - Len(s)
      BY <1>1, <2>0, <2>2
    <3>2. /\ j - Len(s) \in 1..Len(t) /\ r[j] = t[j - Len(s)]
          /\ k - Len(s) \in 1..Len(t) /\ r[k] = t[k - Len(s)]
      BY <1>10, <2>2, <3>1
    <3> QED
      BY <1>6, <3>1, <3>2
  <2>3. CASE j <= Len(s) /\ ~(k <= Len(s))
    <3>1. j \in 1..Len(s) /\ r[j] = s[j]
      BY <1>11, <2>3
    <3>2. k - Len(s) \in 1..Len(t) /\ r[k] = t[k - Len(s)]
      BY <1>10, <2>3
    <3>3. r[j] \in a..(b - 1) /\ r[k] \in b..(c - 1)
      BY <1>3, <3>1, <3>2
    <3> QED
      BY <3>3
  <2> QED
    BY <2>1, <2>2, <2>3
<1>5. ASSUME NEW x \in Int
      PROVE  (\E j \in 1..Len(r) : r[j] = x) <=> x \in Places(ts, {"a", "1"}, a, c - 1)
  <2>1. x \in Places(ts, {"a", "1"}, a, c - 1) <=>
            x \in Places(ts, {"a", "1"}, a, b - 1) \/ x \in Places(ts, {"a", "1"}, b, c - 1)
    BY DEF Places
  <2>2. ASSUME NEW j \in 1..Len(r), r[j] = x
        PROVE  x \in Places(ts, {"a", "1"}, a, c - 1)
    <3>1. CASE j <= Len(s)
      <4>1. j \in 1..Len(s) /\ x = s[j]
        BY <1>11, <2>2, <3>1
      <4>2. x \in a..(b - 1) /\ ts[x] \in {"a", "1"}
        BY <1>3, <4>1
      <4> QED
        BY <2>1, <4>2 DEF Places
    <3>2. CASE ~(j <= Len(s))
      <4>1. j - Len(s) \in 1..Len(t) /\ x = t[j - Len(s)]
        BY <1>10, <2>2, <3>2
      <4>2. x \in b..(c - 1) /\ ts[x] \in {"a", "1"}
        BY <1>3, <4>1
      <4> QED
        BY <2>1, <4>2 DEF Places
    <3> QED
      BY <3>1, <3>2
  <2>3. ASSUME x \in Places(ts, {"a", "1"}, a, b - 1)
        PROVE  \E j \in 1..Len(r) : r[j] = x
    <3>1. PICK j \in 1..Len(s) : s[j] = x
      BY <2>3 DEF Reads
    <3>2. j \in 1..Len(r) /\ r[j] = s[j]
      BY <1>8
    <3> QED
      BY <3>1, <3>2
  <2>4. ASSUME x \in Places(ts, {"a", "1"}, b, c - 1)
        PROVE  \E j \in 1..Len(r) : r[j] = x
    <3>1. PICK j \in 1..Len(t) : t[j] = x
      BY <2>4 DEF Reads
    <3>2. j + Len(s) \in 1..Len(r) /\ r[j + Len(s)] = t[j]
      BY <1>9
    <3> QED
      BY <3>1, <3>2
  <2> QED
    BY <2>1, <2>2, <2>3, <2>4
<1> QED
  BY <1>2, <1>4, <1>5 DEF Reads, r

-----------------------------------------------------------------------------
(* Lists of trees                                                          *)

IsList(T) == \E S : T \in Seq(S)

LEMMA ListsJoin ==
    ASSUME NEW T, NEW U, NEW V, IsList(T), IsList(U), IsList(V)
    PROVE  /\ IsList(T \o U) /\ IsList(<<>>)
           /\ (T \o U) \o V = T \o (U \o V)
           /\ <<>> \o T = T /\ T \o <<>> = T
<1>1. PICK A : T \in Seq(A)
  BY DEF IsList
<1>2. PICK B : U \in Seq(B)
  BY DEF IsList
<1>3. PICK C : V \in Seq(C)
  BY DEF IsList
<1> DEFINE S == A \cup B \cup C
<1>4. T \in Seq(S) /\ U \in Seq(S) /\ V \in Seq(S)
  BY <1>1, <1>2, <1>3, SeqMonotonic
<1> HIDE DEF S
<1>5. T \o U \in Seq(S) /\ (T \o U) \o V = T \o (U \o V)
  BY <1>4, ConcatProperties, ConcatAssociative
<1>6. <<>> \in Seq(S) /\ <<>> \o T = T /\ T \o <<>> = T
  BY <1>4, ConcatEmptySeq, EmptySeq
<1> QED
  BY <1>5, <1>6 DEF IsList

LEMMA ListOfOne ==
    ASSUME NEW t, NEW T, IsList(T)
    PROVE  /\ IsList(<<t>>) /\ <<t>> \o T # <<>>
           /\ Head(<<t>> \o T) = t /\ Tail(<<t>> \o T) = T
<1>1. PICK A : T \in Seq(A)
  BY DEF IsList
<1> DEFINE S == A \cup {t}
           U == <<t>> \o T
<1>2. T \in Seq(S) /\ <<t>> \in Seq(S) /\ Len(<<t>>) = 1 /\ <<t>>[1] = t
  <2>1. T \in Seq(S)
    BY <1>1, SeqMonotonic
  <2> QED
    BY <2>1
<1> HIDE DEF S
<1>3. /\ U \in Seq(S) /\ Len(U) = 1 + Len(T) /\ Len(T) \in Nat
      /\ \A i \in 1..(1 + Len(T)) : U[i] = IF i <= 1 THEN <<t>>[i] ELSE T[i - 1]
  BY <1>2, ConcatProperties, LenProperties
<1> HIDE DEF U
<1>4. U # <<>>
  BY <1>3, EmptySeq
<1>5. U[1] = t /\ \A i \in 1..Len(T) : U[i + 1] = T[i]
  BY <1>2, <1>3
<1>6. /\ Tail(U) \in Seq(S) /\ Len(Tail(U)) = Len(T)
      /\ \A i \in 1..Len(T) : Tail(U)[i] = T[i]
  BY <1>3, <1>4, <1>5, HeadTailProperties
<1>7. Tail(U) = T
  BY <1>2, <1>6, SeqEqual
<1>8. Head(U) = t
  BY <1>3, <1>4, <1>5
<1> QED
  BY <1>2, <1>4, <1>7, <1>8 DEF IsList, U

-----------------------------------------------------------------------------
(* Loops                                                                   *)

\* A turn of each loop of an expression, a level of calls, a visit of a tree.
TurnOf(of, cx, x, q) ==
    IF of = "members" THEN MembersTurn(cx, q)
    ELSE IF of = "arguments" THEN ArgumentsTurn(cx, q, x)
    ELSE IF of = "climb" THEN Climb(cx, q, x)
    ELSE IF of = "postfix" THEN Postfix(cx, q, x)
    ELSE IF of = "level" THEN [c \in Calls |-> Routine([ts |-> x, call |-> q], c)]
    ELSE Visit(q)

\* f is where the loop is after each of n turns.
IsAfter(f, of, cx, x, a, n) ==
    f = [k \in 0..n |-> IF k = 0 THEN a ELSE TurnOf(of, cx, x, f[k - 1])]

LEMMA Smallest ==
    ASSUME NEW S \in SUBSET Nat, S # {}
    PROVE  \E i \in S : \A j \in S : i <= j
<1> DEFINE R == {p \in Nat \X Nat : p[1] < p[2]}
<1>1. OpToRel(<, Nat) = R
  BY DEF OpToRel
<1>2. IsWellFoundedOn(R, Nat)
  BY <1>1, NatLessThanWellFounded, Zenon
<1> HIDE DEF R
<1>3. PICK i \in S : \A j \in S : <<j, i>> \notin R
  BY <1>2, WFMin, Zenon
<1>4. \A j \in S : i <= j
  <2> TAKE j \in S
  <2>1. i \in Nat /\ j \in Nat /\ <<j, i>> \notin R
    BY <1>3
  <2> QED
    BY <2>1 DEF R
<1> QED
  BY <1>4

\* What holds at first and is kept by each turn holds after all of them.
LEMMA StepsKeep ==
    ASSUME NEW n \in Nat, NEW Good \in SUBSET (0..n), 0 \in Good,
           \A k \in 1..n : k - 1 \in Good => k \in Good
    PROVE  Good = 0..n
<1> DEFINE Left == (0..n) \ Good
<1>1. SUFFICES ASSUME Left # {} PROVE FALSE
  OBVIOUS
<1>2. Left \in SUBSET Nat
  OBVIOUS
<1>3. PICK m \in Left : \A j \in Left : m <= j
  BY <1>1, <1>2, Smallest
<1>4. m \in 1..n /\ m - 1 \in 0..n
  BY <1>3
<1>5. m - 1 \in Good
  BY <1>3, <1>4
<1> QED
  BY <1>3, <1>4, <1>5

LEMMA OneMoreTurn ==
    ASSUME NEW m \in Nat \ {0}, NEW a, NEW of, NEW cx, NEW x, NEW g,
           IsAfter(g, of, cx, x, a, m - 1)
    PROVE  \E h : IsAfter(h, of, cx, x, a, m)
<1> DEFINE h == [k \in 0..m |-> IF k = m THEN TurnOf(of, cx, x, g[m - 1]) ELSE g[k]]
<1>1. \A k \in 0..m : h[k] = IF k = 0 THEN a ELSE TurnOf(of, cx, x, h[k - 1])
  <2> TAKE k \in 0..m
  <2>1. CASE k = m
    BY <2>1
  <2>2. CASE k # m
    <3>1. k \in 0..(m - 1) /\ h[k] = g[k]
      BY <2>2
    <3>2. g[k] = IF k = 0 THEN a ELSE TurnOf(of, cx, x, g[k - 1])
      BY <3>1 DEF IsAfter
    <3>3. k # 0 => h[k - 1] = g[k - 1]
      BY <3>1
    <3> QED
      BY <3>1, <3>2, <3>3
  <2> QED
    BY <2>1, <2>2
<1>2. h = [k \in 0..m |-> h[k]]
  OBVIOUS
<1> HIDE DEF h
<1>3. IsAfter(h, of, cx, x, a, m)
  BY <1>1, <1>2 DEF IsAfter
<1> QED
  BY <1>3

LEMMA TurnsExist ==
    ASSUME NEW n \in Nat, NEW of, NEW cx, NEW x, NEW a
    PROVE  \E f : IsAfter(f, of, cx, x, a, n)
<1> DEFINE Missing == {m \in Nat : \A f : ~IsAfter(f, of, cx, x, a, m)}
<1>1. SUFFICES ASSUME Missing # {} PROVE FALSE
  OBVIOUS
<1>2. PICK m \in Missing : \A j \in Missing : m <= j
  BY <1>1, Smallest
<1>3. m # 0
  <2>1. IsAfter([k \in 0..0 |-> a], of, cx, x, a, 0)
    BY DEF IsAfter
  <2> QED
    BY <2>1
<1>4. m \in Nat \ {0} /\ m - 1 \in Nat /\ m - 1 \notin Missing
  <2>1. m \in Nat
    BY <1>2
  <2> HIDE DEF Missing
  <2> QED
    BY <2>1, <1>2, <1>3
<1>5. PICK g : IsAfter(g, of, cx, x, a, m - 1)
  BY <1>4
<1>6. \E h : IsAfter(h, of, cx, x, a, m)
  BY <1>4, <1>5, OneMoreTurn, Zenon
<1> QED
  BY <1>2, <1>6

LEMMA OneResult ==
    ASSUME NEW n \in Nat, NEW of, NEW cx, NEW x, NEW a, NEW f, NEW g,
           IsAfter(f, of, cx, x, a, n), IsAfter(g, of, cx, x, a, n)
    PROVE  f = g
<1> DEFINE Good == {k \in 0..n : f[k] = g[k]}
<1>1. /\ \A k \in 0..n : f[k] = IF k = 0 THEN a ELSE TurnOf(of, cx, x, f[k - 1])
      /\ \A k \in 0..n : g[k] = IF k = 0 THEN a ELSE TurnOf(of, cx, x, g[k - 1])
  BY DEF IsAfter
<1>2. Good \in SUBSET (0..n) /\ 0 \in Good
  BY <1>1
<1>3. \A k \in 1..n : k - 1 \in Good => k \in Good
  BY <1>1
<1> HIDE DEF Good
<1>4. Good = 0..n
  BY <1>2, <1>3, StepsKeep
<1>5. \A k \in 0..n : f[k] = g[k]
  BY <1>4 DEF Good
<1> QED
  BY <1>5 DEF IsAfter

\* The loops of the parser.
MembersLoop(cx, p)        == Loop(LAMBDA q : MembersTurn(cx, q), cx, p)
ArgumentsLoop(cx, p, old) == Loop(LAMBDA q : ArgumentsTurn(cx, q, old), cx, p)
ClimbLoop(cx, p, op)      == Loop(LAMBDA q : Climb(cx, q, op), cx, p)
PostfixLoop(cx, p, parse_single) == Loop(LAMBDA q : Postfix(cx, q, parse_single), cx, p)

\* What a loop leaves is what its turns lead to.
LEMMA LoopTurns ==
    ASSUME NEW cx, Len(cx.ts) \in Nat, NEW x, NEW p
    PROVE  LET n == Len(cx.ts) + 1
           IN /\ \E f : IsAfter(f, "members", cx, x, p, n) /\ MembersLoop(cx, p) = f[n]
              /\ \E f : IsAfter(f, "arguments", cx, x, p, n) /\ ArgumentsLoop(cx, p, x) = f[n]
              /\ \E f : IsAfter(f, "climb", cx, x, p, n) /\ ClimbLoop(cx, p, x) = f[n]
              /\ \E f : IsAfter(f, "postfix", cx, x, p, n) /\ PostfixLoop(cx, p, x) = f[n]
<1> DEFINE n == Len(cx.ts) + 1
           turn(of) == CHOOSE f : IsAfter(f, of, cx, x, p, n)
<1>1. \A of : IsAfter(turn(of), of, cx, x, p, n)
  <2> TAKE of
  <2>1. n \in Nat
    OBVIOUS
  <2>2. \E f : IsAfter(f, of, cx, x, p, n)
    BY <2>1, TurnsExist
  <2> QED
    BY <2>2
<1>2. MembersLoop(cx, p) = turn("members")[n]
  BY DEF MembersLoop, Loop, IsAfter, TurnOf
<1>3. ArgumentsLoop(cx, p, x) = turn("arguments")[n]
  BY DEF ArgumentsLoop, Loop, IsAfter, TurnOf
<1>4. ClimbLoop(cx, p, x) = turn("climb")[n]
  BY DEF ClimbLoop, Loop, IsAfter, TurnOf
<1>5. PostfixLoop(cx, p, x) = turn("postfix")[n]
  BY DEF PostfixLoop, Loop, IsAfter, TurnOf
<1> HIDE DEF turn
<1> QED
  BY <1>1, <1>2, <1>3, <1>4, <1>5

-----------------------------------------------------------------------------
(* Operands of trees                                                       *)

\* k visits lead from v to w.
Leads(v, k, w) == \E f : IsAfter(f, "visit", 0, 0, v, k) /\ f[k] = w

\* k visits of the trees T find the operands s, whatever is to do behind them.
Yields(T, s, k) ==
    \A R, F : IsList(R) /\ F \in Seq(Nat) =>
        Leads([todo |-> T \o R, found |-> F], k, [todo |-> R, found |-> F \o s])

LEMMA VisitsBegin ==
    ASSUME NEW v
    PROVE  Leads(v, 0, v) /\ Leads(v, 1, Visit(v))
<1> DEFINE f == [k \in 0..0 |-> v]
           g == [k \in 0..1 |-> IF k = 0 THEN v ELSE Visit(v)]
<1>1. IsAfter(f, "visit", 0, 0, v, 0) /\ f[0] = v
  BY DEF IsAfter
<1>2. g[0] = v /\ g[1] = Visit(v)
  OBVIOUS
<1>3. \A k \in 0..1 : k # 0 => k = 1 /\ k - 1 = 0
  OBVIOUS
<1>4. \A k \in 0..1 : g[k] = IF k = 0 THEN v ELSE TurnOf("visit", 0, 0, g[k - 1])
  BY <1>2, <1>3 DEF TurnOf
<1>5. g = [k \in 0..1 |-> g[k]]
  OBVIOUS
<1> HIDE DEF g
<1>6. IsAfter(g, "visit", 0, 0, v, 1)
  BY <1>4, <1>5 DEF IsAfter
<1> QED
  BY <1>1, <1>2, <1>6 DEF Leads

LEMMA VisitsGoOn ==
    ASSUME NEW v, NEW w, NEW u, NEW j \in Nat, NEW k \in Nat, Leads(v, j, w), Leads(w, k, u)
    PROVE  Leads(v, j + k, u)
<1>1. PICK f : IsAfter(f, "visit", 0, 0, v, j) /\ f[j] = w
  BY DEF Leads
<1>2. PICK g : IsAfter(g, "visit", 0, 0, w, k) /\ g[k] = u
  BY DEF Leads
<1>3. /\ \A i \in 0..j : f[i] = IF i = 0 THEN v ELSE TurnOf("visit", 0, 0, f[i - 1])
      /\ \A i \in 0..k : g[i] = IF i = 0 THEN w ELSE TurnOf("visit", 0, 0, g[i - 1])
  BY <1>1, <1>2 DEF IsAfter
<1> DEFINE h == [i \in 0..(j + k) |-> IF i <= j THEN f[i] ELSE g[i - j]]
<1>4. \A i \in 0..(j + k) : h[i] = IF i = 0 THEN v ELSE TurnOf("visit", 0, 0, h[i - 1])
  <2> TAKE i \in 0..(j + k)
  <2>1. CASE i <= j
    <3>1. i \in 0..j /\ h[i] = f[i] /\ (i # 0 => h[i - 1] = f[i - 1])
      BY <2>1
    <3> QED
      BY <1>3, <3>1
  <2>2. CASE i > j
    <3>1. i - j \in 0..k /\ i - j # 0 /\ i # 0 /\ (i - j) - 1 \in 0..k
      BY <2>2
    <3>2. h[i] = g[i - j]
      BY <2>2
    <3>3. h[i - 1] = g[(i - j) - 1]
      <4>1. CASE i - 1 = j
        BY <1>1, <1>3, <4>1
      <4>2. CASE i - 1 # j
        BY <2>2, <4>2
      <4> QED
        BY <4>1, <4>2
    <3> QED
      BY <1>3, <3>1, <3>2, <3>3
  <2> QED
    BY <2>1, <2>2
<1>5. h = [i \in 0..(j + k) |-> h[i]]
  OBVIOUS
<1>6. h[j + k] = u
  BY <1>1, <1>2, <1>3
<1> HIDE DEF h
<1>7. IsAfter(h, "visit", 0, 0, v, j + k)
  BY <1>4, <1>5 DEF IsAfter
<1> QED
  BY <1>6, <1>7 DEF Leads

LEMMA VisitsStay ==
    ASSUME NEW v, NEW k \in Nat, v.todo = <<>>
    PROVE  Leads(v, k, v)
<1> DEFINE f == [i \in 0..k |-> v]
<1>1. TurnOf("visit", 0, 0, v) = v
  BY DEF TurnOf, Visit
<1>2. \A i \in 0..k : f[i] = IF i = 0 THEN v ELSE TurnOf("visit", 0, 0, f[i - 1])
  BY <1>1
<1>3. f = [i \in 0..k |-> f[i]] /\ f[k] = v
  OBVIOUS
<1> HIDE DEF f
<1>4. IsAfter(f, "visit", 0, 0, v, k)
  BY <1>2, <1>3 DEF IsAfter
<1> QED
  BY <1>3, <1>4 DEF Leads

LEMMA YieldsNone == Yields(<<>>, <<>>, 0)
<1> SUFFICES ASSUME NEW R, NEW F, IsList(R), F \in Seq(Nat)
             PROVE  Leads([todo |-> <<>> \o R, found |-> F], 0, [todo |-> R, found |-> F \o <<>>])
  BY DEF Yields
<1>1. <<>> \o R = R /\ F \o <<>> = F
  BY ListsJoin, ConcatEmptySeq
<1> QED
  BY <1>1, VisitsBegin

LEMMA NumbersAssociate ==
    ASSUME NEW a \in Seq(Nat), NEW b \in Seq(Nat), NEW c \in Seq(Nat)
    PROVE  (a \o b) \o c = a \o (b \o c)
  BY ConcatAssociative

LEMMA YieldsBoth ==
    ASSUME NEW T, NEW U, IsList(T), IsList(U), NEW s \in Seq(Nat), NEW t \in Seq(Nat),
           NEW j \in Nat, NEW k \in Nat, Yields(T, s, j), Yields(U, t, k)
    PROVE  Yields(T \o U, s \o t, j + k)
<1> SUFFICES ASSUME NEW R, NEW F, IsList(R), F \in Seq(Nat)
             PROVE  Leads([todo |-> (T \o U) \o R, found |-> F], j + k,
                          [todo |-> R, found |-> F \o (s \o t)])
  BY DEF Yields
<1>1. (T \o U) \o R = T \o (U \o R) /\ IsList(U \o R)
  BY ListsJoin
<1>2. F \o (s \o t) = (F \o s) \o t /\ F \o s \in Seq(Nat)
  <2>1. F \o s \in Seq(Nat)
    BY ConcatProperties
  <2>2. (F \o s) \o t = F \o (s \o t)
    BY NumbersAssociate
  <2> QED
    BY <2>1, <2>2
<1>3. Leads([todo |-> T \o (U \o R), found |-> F], j, [todo |-> U \o R, found |-> F \o s])
  BY <1>1 DEF Yields
<1>4. Leads([todo |-> U \o R, found |-> F \o s], k, [todo |-> R, found |-> (F \o s) \o t])
  BY <1>2 DEF Yields
<1>5. Leads([todo |-> T \o (U \o R), found |-> F], j + k, [todo |-> R, found |-> (F \o s) \o t])
  BY <1>3, <1>4, VisitsGoOn, Zenon
<1> QED
  BY <1>1, <1>2, <1>5

LEMMA YieldsNode ==
    ASSUME NEW t, t.node \notin {"ident", "lit"}, IsList(Subtrees(t)),
           NEW s \in Seq(Nat), NEW k \in Nat, Yields(Subtrees(t), s, k)
    PROVE  Yields(<<t>>, s, k + 1)
<1> SUFFICES ASSUME NEW R, NEW F, IsList(R), F \in Seq(Nat)
             PROVE  Leads([todo |-> <<t>> \o R, found |-> F], k + 1, [todo |-> R, found |-> F \o s])
  BY DEF Yields
<1> DEFINE v == [todo |-> <<t>> \o R, found |-> F]
           w == [todo |-> Subtrees(t) \o R, found |-> F]
<1>1. Visit(v) = w
  <2>1. <<t>> \o R # <<>> /\ Head(<<t>> \o R) = t /\ Tail(<<t>> \o R) = R
    BY ListOfOne
  <2>2. v.todo = <<t>> \o R /\ v.found = F
    OBVIOUS
  <2> HIDE DEF v
  <2> QED
    BY <2>1, <2>2, Zenon DEF Visit
<1>2. Leads(v, 1, w)
  BY <1>1, VisitsBegin
<1>3. Leads(w, k, [todo |-> R, found |-> F \o s])
  BY DEF Yields
<1> HIDE DEF v, w
<1>4. Leads(v, 1 + k, [todo |-> R, found |-> F \o s])
  BY <1>2, <1>3, VisitsGoOn
<1>5. 1 + k = k + 1
  OBVIOUS
<1> QED
  BY <1>4, <1>5 DEF v

LEMMA YieldsLeaf ==
    ASSUME NEW t, t.node \in {"ident", "lit"}
    PROVE  Yields(<<t>>, <<t.at>>, 1)
<1> SUFFICES ASSUME NEW R, NEW F, IsList(R), F \in Seq(Nat)
             PROVE  Leads([todo |-> <<t>> \o R, found |-> F], 1,
                          [todo |-> R, found |-> F \o <<t.at>>])
  BY DEF Yields
<1> DEFINE v == [todo |-> <<t>> \o R, found |-> F]
<1>1. Visit(v) = [todo |-> R, found |-> Append(F, t.at)]
  <2>1. <<t>> \o R # <<>> /\ Head(<<t>> \o R) = t /\ Tail(<<t>> \o R) = R
    BY ListOfOne
  <2>2. v.todo = <<t>> \o R /\ v.found = F
    OBVIOUS
  <2> HIDE DEF v
  <2> QED
    BY <2>1, <2>2, Zenon DEF Visit
<1>2. Append(F, t.at) = F \o <<t.at>>
  <2>1. F \in Seq(Nat \cup {t.at})
    BY SeqMonotonic
  <2> QED
    BY <2>1, AppendIsConcat
<1> QED
  BY <1>1, <1>2, VisitsBegin

-----------------------------------------------------------------------------
(* Runs                                                                    *)

IsParser(ts, p) ==
    p \in [i : 1..(Len(ts) + 1), paren : Int, scopes : Seq(Nat), fresh : Nat,
           decls : SUBSET (Nat \X Seq(Nat)), n : {p.n}]

\* The trees T have the operands from a to before b, found in m visits.
Holds(ts, a, b, T, m) ==
    /\ IsList(T) /\ m \in Nat
    /\ \E s, k : k \in 0..m /\ Reads(ts, a, b, s) /\ Yields(T, s, k)

\* From p to q the parser has turned the tokens into the trees T.
Run(ts, p, q, T, m) ==
    /\ IsParser(ts, p) /\ IsParser(ts, q) /\ p.i <= q.i
    /\ q.paren = p.paren + Unclosed(ts, p.i, q.i)
    /\ Holds(ts, p.i, q.i, T, m)

IsText(ts) == ts \in Seq(ExprTokens)

LEMMA ParserFields ==
    ASSUME NEW ts, NEW p, IsText(ts), IsParser(ts, p)
    PROVE  /\ Len(ts) \in Nat /\ p.i \in Nat /\ p.i >= 1 /\ p.i <= Len(ts) + 1
           /\ p.paren \in Int /\ p.scopes \in Seq(Nat) /\ p.fresh \in Nat
           /\ p.decls \in SUBSET (Nat \X Seq(Nat))
  BY DEF IsParser, IsText

LEMMA ParserReturns ==
    ASSUME NEW ts, NEW p, NEW t, IsParser(ts, p)
    PROVE  /\ IsParser(ts, Return(p, t)) /\ Return(p, t).n = t
           /\ Return(p, t).i = p.i /\ Return(p, t).paren = p.paren
           /\ IsParser(ts, Fail(p)) /\ Failed(Fail(p))
  BY DEF IsParser, Return, Fail, Failed

LEMMA ParserMoves ==
    ASSUME NEW ts, IsText(ts), NEW p, IsParser(ts, p), NEW k \in Nat, p.i + k <= Len(ts) + 1
    PROVE  LET q == Advance(p, k)
           IN IsParser(ts, q) /\ q.i = p.i + k /\ q.paren = p.paren /\ q.n = p.n
<1>1. p.i \in Nat /\ p.i >= 1 /\ Len(ts) \in Nat /\ p.i + k \in 1..(Len(ts) + 1)
  BY ParserFields
<1> QED
  BY <1>1 DEF IsParser, Advance

\* The parser with d more open parentheses.
Counted(p, d) == [p EXCEPT !.paren = @ + d]

LEMMA ParserCounts ==
    ASSUME NEW ts, IsText(ts), NEW p, IsParser(ts, p), NEW d \in Int
    PROVE  LET r == Counted(p, d)
           IN IsParser(ts, r) /\ r.i = p.i /\ r.paren = p.paren + d /\ r.n = p.n
<1>1. p.paren + d \in Int
  BY ParserFields
<1>2. LET r == Counted(p, d)
      IN r.i = p.i /\ r.paren = p.paren + d /\ r.n = p.n
  BY DEF IsParser, Counted
<1>3. IsParser(ts, Counted(p, d))
  BY <1>1 DEF IsParser, Counted
<1> QED
  BY <1>2, <1>3

LEMMA TokenPeeked ==
    ASSUME NEW cx, IsText(cx.ts), NEW p, p.i \in Nat, NEW k \in Nat, Peek(cx, p, k) # "eof"
    PROVE  /\ p.i + k >= 1 /\ p.i + k <= Len(cx.ts)
           /\ cx.ts[p.i + k] = Peek(cx, p, k) /\ cx.ts[p.i + k] \in ExprTokens
  BY DEF Peek, IsText

LEMMA RunStays ==
    ASSUME NEW ts, IsText(ts), NEW p, IsParser(ts, p)
    PROVE  Run(ts, p, p, <<>>, 0)
<1>1. p.i \in Nat /\ p.paren \in Int
  BY ParserFields
<1>2. Reads(ts, p.i, p.i, <<>>) /\ Unclosed(ts, p.i, p.i) = 0
  BY <1>1, ReadsNone, UnclosedOfNone
<1>3. IsList(<<>>) /\ Yields(<<>>, <<>>, 0)
  <2>1. <<>> \in Seq(Nat)
    OBVIOUS
  <2> QED
    BY <2>1, YieldsNone DEF IsList
<1>4. Holds(ts, p.i, p.i, <<>>, 0)
  BY <1>2, <1>3 DEF Holds
<1> QED
  BY <1>1, <1>2, <1>4 DEF Run

LEMMA RunGoesOn ==
    ASSUME NEW ts, IsText(ts), NEW p, NEW q, NEW r, NEW T, NEW U, NEW m, NEW n,
           Run(ts, p, q, T, m), Run(ts, q, r, U, n)
    PROVE  Run(ts, p, r, T \o U, m + n)
<1>1. /\ p.i \in Nat /\ q.i \in Nat /\ r.i \in Nat /\ p.i <= q.i /\ q.i <= r.i
      /\ p.paren \in Int /\ q.paren \in Int /\ r.paren \in Int
  BY ParserFields DEF Run
<1>2. r.paren = p.paren + Unclosed(ts, p.i, r.i)
  <2>1. q.paren = p.paren + Unclosed(ts, p.i, q.i) /\ r.paren = q.paren + Unclosed(ts, q.i, r.i)
    BY DEF Run
  <2>2. /\ Unclosed(ts, p.i, q.i) \in Int /\ Unclosed(ts, q.i, r.i) \in Int
        /\ Unclosed(ts, p.i, r.i) = Unclosed(ts, p.i, q.i) + Unclosed(ts, q.i, r.i)
    <3> DEFINE a == p.i
               b == q.i
               c == r.i
    <3>1. a \in Int /\ b \in Int /\ c \in Int /\ a <= b /\ b <= c /\ c <= c
      BY <1>1
    <3> HIDE DEF a, b, c
    <3>2. Unclosed(ts, b, c) \in Int
      BY <3>1, UnclosedAddsUp
    <3>3. Unclosed(ts, a, b) \in Int /\ Unclosed(ts, a, c) = Unclosed(ts, a, b) + Unclosed(ts, b, c)
      BY <3>1, UnclosedAddsUp
    <3> QED
      BY <3>2, <3>3 DEF a, b, c
  <2> QED
    BY <1>1, <2>1, <2>2
<1>3. IsList(T) /\ IsList(U) /\ m \in Nat /\ n \in Nat
  BY DEF Run, Holds
<1>4. PICK s, j : j \in 0..m /\ Reads(ts, p.i, q.i, s) /\ Yields(T, s, j)
  BY DEF Run, Holds
<1>5. PICK t, k : k \in 0..n /\ Reads(ts, q.i, r.i, t) /\ Yields(U, t, k)
  BY DEF Run, Holds
<1>6. Reads(ts, p.i, r.i, s \o t)
  BY <1>1, <1>4, <1>5, ReadsOn
<1>7. Yields(T \o U, s \o t, j + k)
  <2>1. s \in Seq(Nat) /\ t \in Seq(Nat) /\ j \in Nat /\ k \in Nat
    BY <1>4, <1>5 DEF Reads
  <2> QED
    BY <1>3, <1>4, <1>5, <2>1, YieldsBoth
<1>8. j + k \in 0..(m + n) /\ m + n \in Nat
  BY <1>3, <1>4, <1>5
<1>9. IsList(T \o U)
  BY <1>3, ListsJoin
<1>10. Holds(ts, p.i, r.i, T \o U, m + n)
  BY <1>6, <1>7, <1>8, <1>9 DEF Holds
<1>11. IsParser(ts, p) /\ IsParser(ts, r) /\ p.i <= r.i
  BY <1>1 DEF Run
<1> QED
  BY <1>2, <1>10, <1>11 DEF Run

\* A run is one from another parser at the same token too.
LEMMA RunShifts ==
    ASSUME NEW ts, IsText(ts), NEW p, NEW q, NEW v, NEW w, NEW T, NEW m, NEW n \in Nat,
           Run(ts, p, q, T, m), IsParser(ts, v), IsParser(ts, w), v.i = p.i, w.i = q.i,
           w.paren - v.paren = q.paren - p.paren, m <= n
    PROVE  Run(ts, v, w, T, n)
<1>1. /\ p.i \in Nat /\ q.i \in Nat /\ p.i <= q.i
      /\ p.paren \in Int /\ q.paren \in Int /\ v.paren \in Int /\ w.paren \in Int
      /\ q.paren = p.paren + Unclosed(ts, p.i, q.i)
  BY ParserFields DEF Run
<1>2. Unclosed(ts, p.i, q.i) \in Int
  <2>1. p.i \in Int /\ q.i \in Int /\ q.i <= q.i
    BY <1>1
  <2> QED
    BY <1>1, <2>1, UnclosedAddsUp, Zenon
<1>3. w.paren = v.paren + Unclosed(ts, v.i, w.i)
  BY <1>1, <1>2
<1>4. m \in Nat /\ IsList(T)
  BY DEF Run, Holds
<1>5. PICK s, j : j \in 0..m /\ Reads(ts, p.i, q.i, s) /\ Yields(T, s, j)
  BY DEF Run, Holds
<1>6. j \in 0..n
  BY <1>4, <1>5
<1>7. Holds(ts, v.i, w.i, T, n)
  BY <1>4, <1>5, <1>6 DEF Holds
<1> QED
  BY <1>1, <1>3, <1>7 DEF Run

LEMMA RunMakesNode ==
    ASSUME NEW ts, NEW p, NEW q, NEW m, NEW t, t.node \notin {"ident", "lit"},
           Run(ts, p, q, Subtrees(t), m)
    PROVE  Run(ts, p, q, <<t>>, m + 1)
<1>1. m \in Nat /\ IsList(Subtrees(t))
  BY DEF Run, Holds
<1>2. PICK s, j : j \in 0..m /\ Reads(ts, p.i, q.i, s) /\ Yields(Subtrees(t), s, j)
  BY DEF Run, Holds
<1>3. Yields(<<t>>, s, j + 1)
  <2>1. s \in Seq(Nat) /\ j \in Nat
    BY <1>2 DEF Reads
  <2> QED
    BY <1>1, <1>2, <2>1, YieldsNode
<1>4. IsList(<<t>>)
  BY <1>1, ListOfOne
<1>5. j + 1 \in 0..(m + 1) /\ m + 1 \in Nat
  BY <1>1, <1>2
<1>6. Holds(ts, p.i, q.i, <<t>>, m + 1)
  BY <1>2, <1>3, <1>4, <1>5 DEF Holds
<1> QED
  BY <1>6 DEF Run

LEMMA RunTakesTokens ==
    ASSUME NEW ts, IsText(ts), NEW p, IsParser(ts, p), NEW k \in Nat, p.i + k <= Len(ts) + 1,
           \A j \in 0..(k - 1) : ts[p.i + j] \notin {"(", ")", "a", "1"}
    PROVE  Run(ts, p, Advance(p, k), <<>>, 0)
<1> DEFINE q == Advance(p, k)
<1>1. p.i \in Nat /\ p.paren \in Int
  BY ParserFields
<1>2. IsParser(ts, q) /\ q.i = p.i + k /\ q.paren = p.paren
  BY ParserMoves
<1> HIDE DEF q
<1>3. \A j \in p.i..(q.i - 1) : ts[j] \notin {"(", ")", "a", "1"}
  <2> TAKE j \in p.i..(q.i - 1)
  <2>1. j - p.i \in 0..(k - 1) /\ p.i + (j - p.i) = j
    BY <1>1, <1>2
  <2> QED
    BY <2>1
<1>4. Reads(ts, p.i, q.i, <<>>) /\ Unclosed(ts, p.i, q.i) = 0
  <2>1. p.i \in Int /\ q.i \in Int
    BY <1>1, <1>2
  <2>2. Reads(ts, p.i, q.i, <<>>)
    BY <1>3, <2>1, ReadsNone
  <2>3. Unclosed(ts, p.i, q.i) = 0
    BY <1>3, <2>1, UnclosedOfNone
  <2> QED
    BY <2>2, <2>3
<1>5. IsList(<<>>) /\ Yields(<<>>, <<>>, 0)
  BY RunStays, YieldsNone DEF Run, Holds
<1>6. Holds(ts, p.i, q.i, <<>>, 0)
  BY <1>4, <1>5 DEF Holds
<1>7. Run(ts, p, q, <<>>, 0)
  BY <1>1, <1>2, <1>4, <1>6 DEF Run
<1> QED
  BY <1>7 DEF q

\* A parenthesis is taken and counted.
LEMMA RunTakesParenthesis ==
    ASSUME NEW ts, IsText(ts), NEW p, IsParser(ts, p), p.i <= Len(ts), ts[p.i] \in {"(", ")"}
    PROVE  LET d == IF ts[p.i] = "(" THEN 1 ELSE -1
           IN Run(ts, p, Counted(Advance(p, 1), d), <<>>, 0)
<1> DEFINE d == IF ts[p.i] = "(" THEN 1 ELSE -1
           q == Counted(Advance(p, 1), d)
<1>1. p.i \in Nat /\ p.paren \in Int /\ d \in Int /\ Len(ts) \in Nat
  BY ParserFields
<1>2. p.i + 1 <= Len(ts) + 1
  BY <1>1
<1>3. IsParser(ts, q) /\ q.i = p.i + 1 /\ q.paren = p.paren + d
  <2> DEFINE r == Advance(p, 1)
  <2>1. IsParser(ts, r) /\ r.i = p.i + 1 /\ r.paren = p.paren
    BY <1>2, ParserMoves
  <2> HIDE DEF r
  <2>2. LET s == Counted(r, d)
        IN IsParser(ts, s) /\ s.i = r.i /\ s.paren = r.paren + d
    BY <1>1, <2>1, ParserCounts
  <2> QED
    BY <2>1, <2>2 DEF r
<1> HIDE DEF q
<1>4. Unclosed(ts, p.i, q.i) = d
  BY <1>1, <1>3, UnclosedOfOne
<1>5. Reads(ts, p.i, q.i, <<>>)
  BY <1>1, <1>3, ReadsNone
<1>6. IsList(<<>>) /\ Yields(<<>>, <<>>, 0)
  BY RunStays, YieldsNone DEF Run, Holds
<1>7. Holds(ts, p.i, q.i, <<>>, 0)
  BY <1>5, <1>6 DEF Holds
<1>8. Run(ts, p, q, <<>>, 0)
  BY <1>1, <1>3, <1>4, <1>7 DEF Run
<1> QED
  BY <1>8 DEF q

LEMMA RunTakesOperand ==
    ASSUME NEW ts, IsText(ts), NEW p, IsParser(ts, p), p.i <= Len(ts), ts[p.i] \in {"a", "1"},
           NEW t, t.node \in {"ident", "lit"}, t.at = p.i
    PROVE  Run(ts, p, Advance(p, 1), <<t>>, 1)
<1> DEFINE q == Advance(p, 1)
<1>1. p.i \in Nat /\ p.paren \in Int /\ Len(ts) \in Nat
  BY ParserFields
<1>2. IsParser(ts, q) /\ q.i = p.i + 1 /\ q.paren = p.paren
  <2>1. p.i + 1 <= Len(ts) + 1
    BY <1>1
  <2> QED
    BY <2>1, ParserMoves
<1> HIDE DEF q
<1>3. Unclosed(ts, p.i, q.i) = 0
  BY <1>1, <1>2, UnclosedOfOne
<1>4. Reads(ts, p.i, q.i, <<p.i>>)
  BY <1>1, <1>2, ReadsOne
<1>5. Yields(<<t>>, <<p.i>>, 1)
  BY YieldsLeaf
<1>6. IsList(<<t>>)
  BY RunStays, ListOfOne DEF Run, Holds
<1>7. Holds(ts, p.i, q.i, <<t>>, 1)
  BY <1>4, <1>5, <1>6 DEF Holds
<1>8. Run(ts, p, q, <<t>>, 1)
  BY <1>1, <1>2, <1>3, <1>7 DEF Run
<1> QED
  BY <1>8 DEF q

LEMMA RunGoesBehind ==
    ASSUME NEW ts, IsText(ts), NEW p, NEW q, NEW r, NEW T, NEW m, NEW n \in Nat, m <= n,
           \/ Run(ts, p, q, <<>>, 0) /\ Run(ts, q, r, T, m)
           \/ Run(ts, p, q, T, m) /\ Run(ts, q, r, <<>>, 0)
    PROVE  Run(ts, p, r, T, n)
<1>1. IsList(T) /\ m \in Nat
  BY DEF Run, Holds
<1>2. <<>> \o T = T /\ T \o <<>> = T /\ 0 + m = m /\ m + 0 = m
  BY <1>1, ListsJoin
<1>3. Run(ts, p, r, T, m)
  <2>1. CASE Run(ts, p, q, <<>>, 0) /\ Run(ts, q, r, T, m)
    <3>1. Run(ts, p, r, <<>> \o T, 0 + m)
      BY <2>1, RunGoesOn
    <3> QED
      BY <1>2, <3>1
  <2>2. CASE Run(ts, p, q, T, m) /\ Run(ts, q, r, <<>>, 0)
    <3>1. Run(ts, p, r, T \o <<>>, m + 0)
      BY <2>2, RunGoesOn
    <3> QED
      BY <1>2, <3>1
  <2> QED
    BY <2>1, <2>2
<1>4. IsParser(ts, p) /\ IsParser(ts, r) /\ r.paren - p.paren = r.paren - p.paren
  BY <1>3 DEF Run
<1> QED
  BY <1>3, <1>4, RunShifts

-----------------------------------------------------------------------------
(* Routines                                                                *)

\* From p a routine fails or turns what it takes into one tree, found in fewer
\* visits than tokens, by less.
Succeeds(ts, p, r, less) ==
    IsParser(ts, r) /\ (~Failed(r) => Run(ts, p, r, <<r.n>>, (r.i - p.i) - less))

\* The calls that the parser of an expression makes.
ExprCalls(cx) ==
    {c \in Calls : /\ c.i \in 1..(Len(cx.ts) + 1) /\ c.of # "statement"
                   /\ c.of = "right" => Current(cx, Callee(c)) \in BinaryOperators}
CallsSucceed(cx) ==
    /\ IsText(cx.ts)
    /\ \A c \in ExprCalls(cx) :
          Succeeds(cx.ts, Callee(c), cx.call[c], IF c.of = "right" THEN 1 ELSE 0)

LEMMA SubexpressionIsNotNull ==
    ASSUME NEW p, Subexpression(p) PROVE ~Failed(p)
  BY DEF Subexpression, SubexpressionNodes, Failed, Null

LEMMA CallSucceeds ==
    ASSUME NEW cx, CallsSucceed(cx), NEW p, IsParser(cx.ts, p)
    PROVE  /\ Succeeds(cx.ts, p, Expression(cx, p), 0)
           /\ Succeeds(cx.ts, p, Operand(cx, p), 0)
           /\ Current(cx, p) \in BinaryOperators => Succeeds(cx.ts, p, Right(cx, p), 1)
<1> DEFINE ts == cx.ts
<1>1. IsText(ts) /\ IsParser(ts, p)
  BY DEF CallsSucceed
<1>2. ASSUME NEW of \in {"expression", "operand", "right"},
             of = "right" => Current(cx, p) \in BinaryOperators
      PROVE  Succeeds(ts, p, cx.call[AsCall(p, of)], IF of = "right" THEN 1 ELSE 0)
  <2> DEFINE c == AsCall(p, of)
             q == Callee(c)
             r == cx.call[c]
             less == IF of = "right" THEN 1 ELSE 0
  <2>1. c \in Calls /\ c.i = p.i /\ c.of = of
    BY <1>1, ParserFields DEF AsCall, Calls
  <2>2. q.i = p.i /\ q.paren = p.paren
    BY DEF AsCall, Callee
  <2>3. Current(cx, q) = Current(cx, p)
    BY <2>2 DEF Current, Peek
  <2> HIDE DEF c, q
  <2>4. p.i \in 1..(Len(ts) + 1) /\ p.i \in Int /\ p.paren \in Int
    BY <1>1, ParserFields
  <2>5. c \in ExprCalls(cx)
    BY <1>2, <2>1, <2>3, <2>4 DEF ExprCalls, q
  <2>6. Succeeds(ts, q, r, less)
    BY <2>1, <2>5, Zenon DEF CallsSucceed, q
  <2> HIDE DEF r
  <2>7. ASSUME ~Failed(r) PROVE Run(ts, p, r, <<r.n>>, (r.i - p.i) - less)
    <3>1. Run(ts, q, r, <<r.n>>, (r.i - q.i) - less) /\ IsParser(ts, r)
      BY <2>6, <2>7 DEF Succeeds
    <3>2. (r.i - p.i) - less \in Nat /\ (r.i - q.i) - less <= (r.i - p.i) - less
      BY <2>2, <3>1 DEF Run, Holds
    <3>3. r.paren - p.paren = r.paren - q.paren
      BY <2>2
    <3> QED
      BY <1>1, <2>2, <3>1, <3>2, <3>3, RunShifts
  <2> QED
    BY <2>6, <2>7 DEF Succeeds, r, c
<1> QED
  BY <1>2 DEF Expression, Operand, Right

\* A node over what a run has read.
LEMMA NodeReturned ==
    ASSUME NEW ts, IsText(ts), NEW p, NEW q, NEW m, NEW t, NEW less \in Nat,
           Run(ts, p, q, Subtrees(t), m), t.node \notin {"ident", "lit"},
           m + 1 <= (q.i - p.i) - less
    PROVE  Succeeds(ts, p, Return(q, t), less)
<1> DEFINE r == Return(q, t)
           n == (q.i - p.i) - less
<1>1. IsParser(ts, p) /\ IsParser(ts, q) /\ m \in Nat /\ p.i \in Nat /\ q.i \in Nat
  BY ParserFields DEF Run, Holds
<1>2. IsParser(ts, r) /\ r.n = t /\ r.i = q.i /\ r.paren = q.paren
  BY <1>1, ParserReturns
<1>3. Run(ts, p, q, <<t>>, m + 1)
  BY RunMakesNode
<1>4. n \in Nat /\ m + 1 <= n
  BY <1>1
<1> HIDE DEF r
<1>5. r.paren - p.paren = q.paren - p.paren
  BY <1>2
<1>6. Run(ts, p, r, <<t>>, n)
  BY <1>1, <1>2, <1>3, <1>4, <1>5, RunShifts
<1>7. Run(ts, p, r, <<r.n>>, (r.i - p.i) - less)
  BY <1>2, <1>6
<1> QED
  BY <1>2, <1>7 DEF Succeeds, r

LEMMA FailureSucceeds ==
    ASSUME NEW ts, NEW p, NEW r, NEW less, IsParser(ts, r)
    PROVE  Succeeds(ts, p, Fail(r), less)
  BY ParserReturns DEF Succeeds

LEMMA TokenHere ==
    ASSUME NEW cx, IsText(cx.ts), NEW p, IsParser(cx.ts, p), Current(cx, p) # "eof"
    PROVE  /\ p.i \in Nat /\ Len(cx.ts) \in Nat /\ p.i <= Len(cx.ts)
           /\ cx.ts[p.i] = Current(cx, p) /\ Current(cx, p) \in ExprTokens
<1>1. p.i \in Nat /\ Len(cx.ts) \in Nat
  BY ParserFields
<1>2. p.i + 0 = p.i /\ Peek(cx, p, 0) = Current(cx, p)
  BY <1>1 DEF Current
<1> QED
  BY <1>1, <1>2, TokenPeeked

LEMMA TakesToken ==
    ASSUME NEW cx, IsText(cx.ts), NEW p, IsParser(cx.ts, p),
           Current(cx, p) \notin {"eof", "(", ")", "a", "1"}
    PROVE  LET q == Advance(p, 1)
           IN /\ Run(cx.ts, p, q, <<>>, 0) /\ IsParser(cx.ts, q)
              /\ q.i = p.i + 1 /\ q.paren = p.paren /\ q.n = p.n
<1>1. /\ p.i \in Nat /\ Len(cx.ts) \in Nat /\ p.i + 1 <= Len(cx.ts) + 1
      /\ cx.ts[p.i] = Current(cx, p)
  BY TokenHere
<1>2. \A j \in 0..(1 - 1) : p.i + j = p.i
  BY <1>1
<1> QED
  BY <1>1, <1>2, RunTakesTokens, ParserMoves

LEMMA TakesParenthesis ==
    ASSUME NEW cx, IsText(cx.ts), NEW p, IsParser(cx.ts, p)
    PROVE  /\ Current(cx, p) = "(" =>
                LET q == [Advance(p, 1) EXCEPT !.paren = @ + 1]
                IN /\ Run(cx.ts, p, q, <<>>, 0) /\ IsParser(cx.ts, q)
                   /\ q.i = p.i + 1 /\ q.paren = p.paren + 1 /\ q.n = p.n
           /\ Current(cx, p) = ")" =>
                LET q == [Advance(p, 1) EXCEPT !.paren = @ - 1]
                IN /\ Run(cx.ts, p, q, <<>>, 0) /\ IsParser(cx.ts, q)
                   /\ q.i = p.i + 1 /\ q.paren = p.paren - 1 /\ q.n = p.n
<1> DEFINE a == Advance(p, 1)
<1>1. ASSUME Current(cx, p) \in {"(", ")"}
      PROVE  /\ p.i <= Len(cx.ts) /\ cx.ts[p.i] = Current(cx, p)
             /\ IsParser(cx.ts, a) /\ a.i = p.i + 1 /\ a.paren = p.paren /\ a.n = p.n
             /\ a.paren \in Int
  <2>1. /\ p.i \in Nat /\ Len(cx.ts) \in Nat /\ p.i <= Len(cx.ts)
        /\ cx.ts[p.i] = Current(cx, p)
    BY <1>1, TokenHere
  <2>2. p.i + 1 <= Len(cx.ts) + 1
    BY <2>1
  <2> QED
    BY <2>1, <2>2, ParserMoves, ParserFields
<1> HIDE DEF a
<1>2. ASSUME NEW d \in {1, -1}, Current(cx, p) = IF d = 1 THEN "(" ELSE ")"
      PROVE  LET q == Counted(a, d)
             IN /\ Run(cx.ts, p, q, <<>>, 0) /\ IsParser(cx.ts, q)
                /\ q.i = p.i + 1 /\ q.paren = p.paren + d /\ q.n = p.n
  <2>1. Current(cx, p) \in {"(", ")"} /\ d \in Int
    BY <1>2
  <2>2. LET q == Counted(a, d)
        IN IsParser(cx.ts, q) /\ q.i = a.i /\ q.paren = a.paren + d /\ q.n = a.n
    BY <1>1, <2>1, ParserCounts
  <2>3. Run(cx.ts, p, Counted(a, d), <<>>, 0)
    <3>1. d = IF cx.ts[p.i] = "(" THEN 1 ELSE -1
      BY <1>1, <1>2, <2>1
    <3> QED
      BY <1>1, <2>1, <3>1, RunTakesParenthesis DEF a
  <2> QED
    BY <1>1, <2>1, <2>2, <2>3
<1>3. ASSUME Current(cx, p) = "("
      PROVE  LET q == Counted(a, 1)
             IN /\ Run(cx.ts, p, q, <<>>, 0) /\ IsParser(cx.ts, q)
                /\ q.i = p.i + 1 /\ q.paren = p.paren + 1 /\ q.n = p.n
  BY <1>2, <1>3
<1>4. ASSUME Current(cx, p) = ")"
      PROVE  LET q == Counted(a, -1)
             IN /\ Run(cx.ts, p, q, <<>>, 0) /\ IsParser(cx.ts, q)
                /\ q.i = p.i + 1 /\ q.paren = p.paren - 1 /\ q.n = p.n
  <2>1. LET q == Counted(a, -1)
        IN /\ Run(cx.ts, p, q, <<>>, 0) /\ IsParser(cx.ts, q)
           /\ q.i = p.i + 1 /\ q.paren = p.paren + (-1) /\ q.n = p.n
    BY <1>2, <1>4
  <2>2. p.paren + (-1) = p.paren - 1
    BY <1>1, <1>4
  <2> QED
    BY <2>1, <2>2
<1>5. Counted(a, 1) = [a EXCEPT !.paren = @ + 1]
  BY DEF Counted
<1>6. ASSUME Current(cx, p) = ")" PROVE Counted(a, -1) = [a EXCEPT !.paren = @ - 1]
  BY <1>1, <1>6 DEF Counted
<1> QED
  BY <1>3, <1>4, <1>5, <1>6 DEF a

\* A call behind one token that is neither a parenthesis nor an operand.
LEMMA CallBehindToken ==
    ASSUME NEW cx, CallsSucceed(cx), NEW p, IsParser(cx.ts, p),
           Current(cx, p) \notin {"eof", "(", ")", "a", "1"},
           NEW e, e \in {Expression(cx, Advance(p, 1)), Operand(cx, Advance(p, 1))}
    PROVE  /\ IsParser(cx.ts, e)
           /\ ~Failed(e) => Run(cx.ts, p, e, <<e.n>>, (e.i - p.i) - 1)
<1> DEFINE q == Advance(p, 1)
<1>1. IsText(cx.ts) /\ p.i \in Nat
  BY ParserFields DEF CallsSucceed
<1>2. Run(cx.ts, p, q, <<>>, 0) /\ IsParser(cx.ts, q) /\ q.i = p.i + 1
  BY <1>1, TakesToken
<1> HIDE DEF q
<1>3. Succeeds(cx.ts, q, e, 0)
  BY <1>2, CallSucceeds DEF q
<1>4. ASSUME ~Failed(e) PROVE Run(cx.ts, p, e, <<e.n>>, (e.i - p.i) - 1)
  <2>1. Run(cx.ts, q, e, <<e.n>>, (e.i - q.i) - 0) /\ e.i \in Nat
    BY <1>1, <1>3, <1>4, ParserFields DEF Succeeds
  <2> DEFINE n == (e.i - p.i) - 1
  <2>2. n = (e.i - q.i) - 0 /\ n \in Nat /\ n <= n
    BY <1>1, <1>2, <2>1 DEF Run, Holds
  <2> HIDE DEF n
  <2>3. Run(cx.ts, q, e, <<e.n>>, n)
    BY <2>1, <2>2
  <2>4. Run(cx.ts, p, e, <<e.n>>, n)
    BY <1>1, <1>2, <2>2, <2>3, RunGoesBehind
  <2> QED
    BY <2>4 DEF n
<1> QED
  BY <1>3, <1>4 DEF Succeeds

LEMMA CurrentAhead ==
    ASSUME NEW cx, NEW p, NEW q, NEW k \in Nat, p.i \in Nat, q.i = p.i + k
    PROVE  Current(cx, q) = Peek(cx, p, k)
<1>1. q.i + 0 = p.i + k
  OBVIOUS
<1> QED
  BY <1>1 DEF Current, Peek

LEMMA ParenthesizedSucceeds ==
    ASSUME NEW cx, CallsSucceed(cx), NEW p, IsParser(cx.ts, p), Current(cx, p) = "("
    PROVE  Succeeds(cx.ts, p, parse_parenthesized_expression(cx, p), 0)
<1> DEFINE q == [Advance(p, 1) EXCEPT !.paren = @ + 1]
           e == Expression(cx, q)
<1>1. IsText(cx.ts) /\ p.i \in Nat
  BY ParserFields DEF CallsSucceed
<1>2. Run(cx.ts, p, q, <<>>, 0) /\ IsParser(cx.ts, q) /\ q.i = p.i + 1
  BY <1>1, TakesParenthesis
<1>3. parse_parenthesized_expression(cx, p) = Ensure(e, Subexpression(e))
  BY DEF parse_parenthesized_expression
<1> HIDE DEF q
<1>4. Succeeds(cx.ts, q, e, 0)
  BY <1>2, CallSucceeds
<1> HIDE DEF e
<1>5. CASE ~Subexpression(e)
  <2>1. IsParser(cx.ts, e)
    BY <1>4 DEF Succeeds
  <2> QED
    BY <1>3, <1>5, <2>1, FailureSucceeds DEF Ensure
<1>6. CASE Subexpression(e)
  <2>1. Run(cx.ts, q, e, <<e.n>>, (e.i - q.i) - 0) /\ IsParser(cx.ts, e)
    BY <1>4, <1>6, SubexpressionIsNotNull DEF Succeeds
  <2> DEFINE n == (e.i - p.i) - 0
             m == (e.i - q.i) - 0
  <2>2. n \in Nat /\ m <= n
    <3>1. e.i \in Nat /\ q.i <= e.i
      BY <1>1, <2>1, ParserFields DEF Run
    <3> QED
      BY <1>1, <1>2, <3>1
  <2> HIDE DEF n, m
  <2>3. Run(cx.ts, p, e, <<e.n>>, n)
    <3>1. Run(cx.ts, q, e, <<e.n>>, m)
      BY <2>1 DEF m
    <3> QED
      BY <1>1, <1>2, <2>2, <3>1, RunGoesBehind
  <2>4. Succeeds(cx.ts, p, e, 0)
    BY <2>1, <2>3 DEF Succeeds, n
  <2> QED
    BY <1>3, <1>6, <2>4 DEF Ensure
<1> QED
  BY <1>5, <1>6

LEMMA CastSucceeds ==
    ASSUME NEW cx, CallsSucceed(cx), NEW p, IsParser(cx.ts, p), Current(cx, p) = "cast"
    PROVE  Succeeds(cx.ts, p, parse_cast(cx, p), 0)
<1> DEFINE ts == cx.ts
           e == Expression(cx, Advance(p, 2))
           ends == /\ Current(cx, e) \in Separators
                   /\ Peek(cx, e, 1) = "T" /\ Peek(cx, e, 2) = ")"
           t == [node |-> "cast", target |-> e.n]
<1>1. IsText(ts) /\ p.i \in Nat /\ p.i >= 1 /\ Len(ts) \in Nat /\ p.paren \in Int
  BY ParserFields DEF CallsSucceed
<1>2. parse_cast(cx, p) =
          IF Peek(cx, p, 1) # "(" THEN Fail(p)
          ELSE IF ~Subexpression(e) THEN Fail(e)
          ELSE IF ends THEN Return(Advance(e, 3), t) ELSE Fail(e)
  BY DEF parse_cast
<1>3. CASE Peek(cx, p, 1) # "("
  BY <1>2, <1>3, FailureSucceeds
<1>4. CASE Peek(cx, p, 1) = "("
  <2> DEFINE a == Advance(p, 1)
             b == Advance(p, 2)
             q == [Advance(a, 1) EXCEPT !.paren = @ + 1]
  <2>1. Run(ts, p, a, <<>>, 0) /\ IsParser(ts, a) /\ a.i = p.i + 1 /\ a.paren = p.paren
    BY <1>1, TakesToken
  <2>2. Current(cx, a) = "("
    BY <1>1, <1>4, <2>1, CurrentAhead
  <2>3. /\ Run(ts, a, q, <<>>, 0) /\ IsParser(ts, q)
        /\ q.i = p.i + 2 /\ q.paren = p.paren + 1
    <3> HIDE DEF a
    <3>1. /\ Run(ts, a, q, <<>>, 0) /\ IsParser(ts, q)
          /\ q.i = a.i + 1 /\ q.paren = a.paren + 1
      BY <1>1, <2>1, <2>2, TakesParenthesis
    <3> QED
      BY <1>1, <2>1, <3>1
  <2>4. IsParser(ts, b) /\ b.i = p.i + 2 /\ b.paren = p.paren
    <3>1. p.i + 1 <= Len(ts)
      BY <1>1, <1>4, TokenPeeked
    <3>2. p.i + 2 <= Len(ts) + 1
      BY <1>1, <3>1
    <3> QED
      BY <1>1, <3>2, ParserMoves
  <2> HIDE DEF q, b
  <2>5. Run(ts, p, q, <<>>, 0)
    BY <1>1, <2>1, <2>3, RunGoesBehind
  <2>6. Succeeds(ts, b, e, 0)
    BY <2>4, CallSucceeds DEF b
  <2> HIDE DEF a, e
  <2>7. IsParser(ts, e)
    BY <2>6 DEF Succeeds
  <2>8. CASE ~(Subexpression(e) /\ ends)
    BY <1>2, <1>4, <2>7, <2>8, FailureSucceeds
  <2>9. CASE Subexpression(e) /\ ends
    <3> DEFINE f == Counted(e, 1)
               g == Advance(f, 2)
               h == [Advance(g, 1) EXCEPT !.paren = @ - 1]
               r == Advance(e, 3)
               m == (e.i - b.i) - 0
    <3>1. Run(ts, b, e, <<e.n>>, m) /\ m \in Nat
      <4>1. Run(ts, b, e, <<e.n>>, m)
        BY <2>6, <2>9, SubexpressionIsNotNull DEF Succeeds
      <4> QED
        BY <4>1 DEF Run, Holds
    <3>2. e.i \in Nat /\ e.paren \in Int
      BY <1>1, <2>7, ParserFields
    <3>3. IsParser(ts, f) /\ f.i = e.i /\ f.paren = e.paren + 1
      BY <1>1, <2>7, ParserCounts
    <3>4. Run(ts, q, f, <<e.n>>, m)
      <4>1. f.paren - q.paren = e.paren - b.paren
        BY <1>1, <2>3, <2>4, <3>2, <3>3
      <4>2. q.i = b.i /\ m <= m
        BY <2>3, <2>4, <3>1
      <4> HIDE DEF f, m
      <4> QED
        BY <1>1, <2>3, <3>1, <3>3, <4>1, <4>2, RunShifts
    <3>5. /\ e.i + 1 <= Len(ts) /\ ts[e.i + 1] = "T"
          /\ e.i + 2 <= Len(ts) /\ ts[e.i + 2] = ")"
          /\ ts[e.i] \in Separators
      <4>1. Peek(cx, e, 1) = "T" /\ Peek(cx, e, 2) = ")"
        BY <2>9
      <4>2. e.i + 1 <= Len(ts) /\ ts[e.i + 1] = "T"
        BY <1>1, <3>2, <4>1, TokenPeeked
      <4>3. e.i + 2 <= Len(ts) /\ ts[e.i + 2] = ")"
        BY <1>1, <3>2, <4>1, TokenPeeked
      <4>4. Current(cx, e) \in Separators /\ Current(cx, e) # "eof"
        BY <2>9 DEF Separators
      <4>5. ts[e.i] = Current(cx, e)
        BY <1>1, <2>7, <4>4, TokenHere
      <4> QED
        BY <4>2, <4>3, <4>4, <4>5
    <3> HIDE DEF f, ends
    <3>6. /\ Run(ts, f, g, <<>>, 0) /\ IsParser(ts, g)
          /\ g.i = e.i + 2 /\ g.paren = e.paren + 1
      <4>1. f.i + 2 <= Len(ts) + 1
        BY <1>1, <3>2, <3>3, <3>5
      <4>2. \A j \in 0..(2 - 1) : f.i + j = e.i \/ f.i + j = e.i + 1
        BY <3>2, <3>3
      <4>3. \A j \in 0..(2 - 1) : ts[f.i + j] \notin {"(", ")", "a", "1"}
        BY <3>5, <4>2 DEF Separators
      <4>4. 2 \in Nat
        OBVIOUS
      <4>5. Run(ts, f, g, <<>>, 0)
        BY <1>1, <3>3, <4>1, <4>3, <4>4, RunTakesTokens
      <4>6. IsParser(ts, g) /\ g.i = f.i + 2 /\ g.paren = f.paren
        BY <1>1, <3>3, <4>1, <4>4, ParserMoves
      <4> QED
        BY <3>3, <4>5, <4>6
    <3> HIDE DEF g
    <3>7. /\ Run(ts, g, h, <<>>, 0) /\ IsParser(ts, h)
          /\ h.i = e.i + 3 /\ h.paren = e.paren
      <4>1. Current(cx, g) = ")"
        <5>1. g.i + 0 = e.i + 2 /\ e.i + 2 \in DOMAIN ts
          BY <1>1, <3>2, <3>5, <3>6 DEF IsText
        <5> QED
          BY <3>5, <5>1 DEF Current, Peek
      <4>2. /\ Run(ts, g, h, <<>>, 0) /\ IsParser(ts, h)
            /\ h.i = g.i + 1 /\ h.paren = g.paren - 1
        BY <1>1, <3>6, <4>1, TakesParenthesis
      <4> QED
        BY <3>2, <3>6, <4>2
    <3>8. IsParser(ts, r) /\ r.i = e.i + 3 /\ r.paren = e.paren
      <4>1. e.i + 3 <= Len(ts) + 1
        BY <1>1, <3>2, <3>5
      <4> QED
        BY <1>1, <2>7, <4>1, ParserMoves
    <3> HIDE DEF h, r, m
    <3>9. m \in Nat /\ m <= m
      BY <3>1
    <3>10. Run(ts, p, f, <<e.n>>, m)
      BY <1>1, <2>5, <3>4, <3>9, RunGoesBehind
    <3>11. Run(ts, p, g, <<e.n>>, m)
      BY <1>1, <3>6, <3>9, <3>10, RunGoesBehind
    <3>12. Run(ts, p, h, <<e.n>>, m)
      BY <1>1, <3>7, <3>9, <3>11, RunGoesBehind
    <3>13. Run(ts, p, r, <<e.n>>, m)
      <4>1. r.paren - p.paren = h.paren - p.paren /\ r.i = h.i
        BY <3>7, <3>8
      <4> QED
        BY <1>1, <3>8, <3>9, <3>12, <4>1, RunShifts
    <3>14. Subtrees(t) = <<e.n>> /\ t.node \notin {"ident", "lit"}
      BY DEF Subtrees
    <3>15. m + 1 <= (r.i - p.i) - 0
      BY <1>1, <2>4, <3>2, <3>8 DEF m
    <3> HIDE DEF t
    <3>16. Succeeds(ts, p, Return(r, t), 0)
      BY <1>1, <3>13, <3>14, <3>15, NodeReturned
    <3> QED
      BY <1>2, <1>4, <2>9, <3>16 DEF ends, r
  <2> QED
    BY <2>8, <2>9
<1> QED
  BY <1>3, <1>4

\* A node over a call behind one token.
LEMMA PrefixSucceeds ==
    ASSUME NEW cx, CallsSucceed(cx), NEW p, IsParser(cx.ts, p),
           Current(cx, p) \notin {"eof", "(", ")", "a", "1"},
           NEW e, e \in {Expression(cx, Advance(p, 1)), Operand(cx, Advance(p, 1))}, ~Failed(e),
           NEW t, t.node \notin {"ident", "lit"}, Subtrees(t) = <<e.n>>
    PROVE  Succeeds(cx.ts, p, Return(e, t), 0)
<1> DEFINE m == (e.i - p.i) - 1
<1>1. IsText(cx.ts) /\ p.i \in Nat
  BY ParserFields DEF CallsSucceed
<1>2. Run(cx.ts, p, e, <<e.n>>, m) /\ IsParser(cx.ts, e)
  BY CallBehindToken
<1>3. e.i \in Nat
  BY <1>1, <1>2, ParserFields
<1>4. m + 1 <= (e.i - p.i) - 0
  BY <1>1, <1>3
<1> HIDE DEF m
<1> QED
  BY <1>1, <1>2, <1>4, NodeReturned

LEMMA SizeofSucceeds ==
    ASSUME NEW cx, CallsSucceed(cx), NEW p, IsParser(cx.ts, p), Current(cx, p) = "sizeof"
    PROVE  Succeeds(cx.ts, p, parse_sizeof(cx, p), 0)
<1> DEFINE ts == cx.ts
           e == Expression(cx, Advance(p, 1))
           t == [node |-> "sizeof", target |-> <<>>]
           u == [node |-> "sizeof", target |-> <<e.n>>]
           q == Advance(p, 2)
<1>1. IsText(ts) /\ p.i \in Nat /\ p.i >= 1 /\ Len(ts) \in Nat
  BY ParserFields DEF CallsSucceed
<1>2. parse_sizeof(cx, p) =
          IF Peek(cx, p, 1) = "T" THEN Return(q, t)
          ELSE IF ~Subexpression(e) THEN Fail(e) ELSE Return(e, u)
  BY DEF parse_sizeof
<1>3. /\ Subtrees(t) = <<>> /\ t.node \notin {"ident", "lit"}
      /\ Subtrees(u) = <<e.n>> /\ u.node \notin {"ident", "lit"}
  BY DEF Subtrees
<1>4. CASE Peek(cx, p, 1) = "T"
  <2>1. p.i + 1 <= Len(ts) /\ ts[p.i + 1] = "T"
    BY <1>1, <1>4, TokenPeeked
  <2>2. ts[p.i] = "sizeof"
    BY <1>1, TokenHere
  <2>3. \A j \in 0..(2 - 1) : p.i + j = p.i \/ p.i + j = p.i + 1
    BY <1>1
  <2>4. p.i + 2 <= Len(ts) + 1 /\ 2 \in Nat
    BY <1>1, <2>1
  <2>5. \A j \in 0..(2 - 1) : ts[p.i + j] \notin {"(", ")", "a", "1"}
    BY <2>1, <2>2, <2>3
  <2>6. Run(ts, p, q, <<>>, 0) /\ q.i = p.i + 2
    BY <1>1, <2>4, <2>5, RunTakesTokens, ParserMoves
  <2>7. 0 + 1 <= (q.i - p.i) - 0
    BY <1>1, <2>6
  <2> HIDE DEF q, t
  <2>8. Succeeds(ts, p, Return(q, t), 0)
    BY <1>1, <1>3, <2>6, <2>7, NodeReturned
  <2> QED
    BY <1>2, <1>4, <2>8
<1>5. CASE Peek(cx, p, 1) # "T" /\ ~Subexpression(e)
  <2>1. IsParser(ts, e)
    BY CallBehindToken
  <2> QED
    BY <1>2, <1>5, <2>1, FailureSucceeds
<1>6. CASE Peek(cx, p, 1) # "T" /\ Subexpression(e)
  <2>1. ~Failed(e)
    BY <1>6, SubexpressionIsNotNull
  <2>2. Succeeds(ts, p, Return(e, u), 0)
    <3> HIDE DEF u
    <3> QED
      BY <1>3, <2>1, PrefixSucceeds
  <2> QED
    BY <1>2, <1>6, <2>2
<1> QED
  BY <1>4, <1>5, <1>6

LEMMA UnarySucceeds ==
    ASSUME NEW cx, CallsSucceed(cx), NEW p, IsParser(cx.ts, p), Current(cx, p) \in UnaryOperators
    PROVE  Succeeds(cx.ts, p, parse_unary_expression(cx, p), 0)
<1> DEFINE e == Operand(cx, Advance(p, 1))
           t == [node |-> "unaryexpr", op |-> Current(cx, p), operand |-> e.n]
<1>1. Current(cx, p) \notin {"eof", "(", ")", "a", "1"}
  BY DEF UnaryOperators
<1>2. parse_unary_expression(cx, p) = IF ~Subexpression(e) THEN Fail(e) ELSE Return(e, t)
  BY DEF parse_unary_expression
<1>3. Subtrees(t) = <<e.n>> /\ t.node \notin {"ident", "lit"}
  BY DEF Subtrees
<1>4. CASE ~Subexpression(e)
  <2>1. IsParser(cx.ts, e)
    BY <1>1, CallBehindToken
  <2> QED
    BY <1>2, <1>4, <2>1, FailureSucceeds
<1>5. CASE Subexpression(e)
  <2>1. ~Failed(e)
    BY <1>5, SubexpressionIsNotNull
  <2>2. Succeeds(cx.ts, p, Return(e, t), 0)
    <3> HIDE DEF t
    <3> QED
      BY <1>1, <1>3, <2>1, PrefixSucceeds
  <2> QED
    BY <1>2, <1>5, <2>2
<1> QED
  BY <1>4, <1>5

\* A literal or an identifier.
LEMMA LeafSucceeds ==
    ASSUME NEW cx, IsText(cx.ts), NEW p, IsParser(cx.ts, p), Current(cx, p) \in {"a", "1"},
           NEW t, t.node \in {"ident", "lit"}, t.at = p.i
    PROVE  Succeeds(cx.ts, p, Return(Advance(p, 1), t), 0)
<1> DEFINE q == Advance(p, 1)
           r == Return(q, t)
<1>1. p.i \in Nat /\ Len(cx.ts) \in Nat /\ p.i <= Len(cx.ts) /\ cx.ts[p.i] = Current(cx, p)
  BY TokenHere
<1>2. Run(cx.ts, p, q, <<t>>, 1)
  BY <1>1, RunTakesOperand
<1>3. IsParser(cx.ts, q) /\ q.i = p.i + 1 /\ q.paren = p.paren
  <2>1. p.i + 1 <= Len(cx.ts) + 1
    BY <1>1
  <2> QED
    BY <2>1, ParserMoves
<1> HIDE DEF q
<1>4. IsParser(cx.ts, r) /\ r.n = t /\ r.i = q.i /\ r.paren = q.paren
  BY <1>3, ParserReturns
<1> HIDE DEF r
<1>5. 1 \in Nat /\ 1 <= 1 /\ r.paren - p.paren = q.paren - p.paren
  BY <1>4
<1>6. Run(cx.ts, p, r, <<t>>, 1)
  BY <1>2, <1>4, <1>5, RunShifts
<1>7. (r.i - p.i) - 0 = 1
  BY <1>1, <1>3, <1>4
<1> QED
  BY <1>4, <1>6, <1>7 DEF Succeeds, q, r

-----------------------------------------------------------------------------
(* Turns of the loops                                                      *)

\* The trees that a loop has so far.
TreesOf(of, n) ==
    IF of = "members" THEN n.members ELSE IF of = "arguments" THEN n.arguments ELSE <<n>>

\* From p to q a loop has failed or turned what it took into its trees.
Reaches(of, ts, p, q, less) ==
    /\ IsParser(ts, q)
    /\ ~Failed(q) => /\ Run(ts, p, q, TreesOf(of, q.n), (q.i - p.i) - less)
                     /\ of = "members" => q.n.node = "braced"

LEMMA LoopReaches ==
    ASSUME NEW cx, NEW of, NEW x, NEW p, NEW q, NEW less, NEW n \in Nat, NEW f,
           IsAfter(f, of, cx, x, q, n), Reaches(of, cx.ts, p, q, less),
           \A r : Reaches(of, cx.ts, p, r, less) =>
                      Reaches(of, cx.ts, p, TurnOf(of, cx, x, r), less)
    PROVE  Reaches(of, cx.ts, p, f[n], less)
<1> DEFINE Good == {k \in 0..n : Reaches(of, cx.ts, p, f[k], less)}
<1>1. \A k \in 0..n : f[k] = IF k = 0 THEN q ELSE TurnOf(of, cx, x, f[k - 1])
  BY DEF IsAfter
<1>2. Good \in SUBSET (0..n) /\ 0 \in Good
  BY <1>1
<1>3. ASSUME NEW k \in 1..n, k - 1 \in Good PROVE k \in Good
  <2>1. k \in 0..n /\ f[k] = TurnOf(of, cx, x, f[k - 1]) /\ Reaches(of, cx.ts, p, f[k - 1], less)
    BY <1>1, <1>3
  <2> QED
    BY <2>1
<1> HIDE DEF Good
<1>4. Good = 0..n
  BY <1>2, <1>3, StepsKeep
<1> QED
  BY <1>4 DEF Good

LEMMA SizesAddUp ==
    ASSUME NEW a \in Int, NEW b \in Int, NEW c \in Int, NEW less \in Int, NEW m \in Nat,
           (b - a) - less \in Nat, m <= c - b
    PROVE  (c - a) - less \in Nat /\ ((b - a) - less) + m <= (c - a) - less
  OBVIOUS

\* One more tree at the end of a list.
LEMMA ListGrows ==
    ASSUME NEW ts, IsText(ts), NEW of, NEW less \in Nat, NEW p, NEW q, NEW w, NEW T, NEW t, NEW m, NEW u,
           Run(ts, p, q, T, (q.i - p.i) - less), Run(ts, q, w, <<t>>, m),
           m <= w.i - q.i, TreesOf(of, u) = Append(T, t), of = "members" => u.node = "braced"
    PROVE  Reaches(of, ts, p, Return(w, u), less)
<1> DEFINE j == (q.i - p.i) - less
           r == Return(w, u)
           n == (w.i - p.i) - less
<1>1. /\ IsParser(ts, p) /\ IsParser(ts, w) /\ m \in Nat /\ j \in Nat
      /\ p.i \in Nat /\ q.i \in Nat /\ w.i \in Nat
  BY ParserFields DEF Run, Holds
<1>2. Append(T, t) = T \o <<t>>
  <2>1. PICK S : T \in Seq(S)
    BY DEF Run, Holds, IsList
  <2>2. T \in Seq(S \cup {t})
    BY <2>1, SeqMonotonic
  <2> QED
    BY <2>2, AppendIsConcat
<1>3. Run(ts, p, w, T \o <<t>>, j + m)
  BY RunGoesOn
<1>4. IsParser(ts, r) /\ r.n = u /\ r.i = w.i /\ r.paren = w.paren
  <2>1. IsParser(ts, w)
    BY <1>1
  <2> QED
    BY <2>1, ParserReturns
<1>5. n \in Nat /\ j + m <= n
  <2> DEFINE a == p.i
             b == q.i
             c == w.i
  <2>1. /\ a \in Int /\ b \in Int /\ c \in Int /\ less \in Int /\ m \in Nat
        /\ (b - a) - less \in Nat /\ m <= c - b
    BY <1>1
  <2> HIDE DEF a, b, c
  <2>2. (c - a) - less \in Nat /\ ((b - a) - less) + m <= (c - a) - less
    BY ONLY <2>1, SizesAddUp
  <2> QED
    BY <2>2 DEF a, b, c
<1> HIDE DEF j, n, r
<1>6. r.paren - p.paren = w.paren - p.paren
  BY <1>4
<1>7. Run(ts, p, r, T \o <<t>>, n)
  BY <1>1, <1>3, <1>4, <1>5, <1>6, RunShifts
<1>8. Run(ts, p, r, TreesOf(of, r.n), (r.i - p.i) - less)
  BY <1>2, <1>4, <1>7 DEF n
<1> QED
  BY <1>4, <1>8 DEF Reaches, r

LEMMA MembersReach ==
    ASSUME NEW cx, CallsSucceed(cx), NEW less \in Nat, NEW p, NEW q,
           Reaches("members", cx.ts, p, q, less)
    PROVE  Reaches("members", cx.ts, p, MembersTurn(cx, q), less)
<1> DEFINE ts == cx.ts
           e == Expression(cx, q)
           w == IF Current(cx, e) = "," THEN Advance(e, 1) ELSE e
           u == [node |-> "braced", members |-> Append(q.n.members, e.n)]
<1>1. MembersTurn(cx, q) = IF Failed(q) \/ Current(cx, q) = "}" THEN q
                           ELSE IF ~Subexpression(e) THEN Fail(e) ELSE Return(w, u)
  BY DEF MembersTurn
<1>2. IsText(ts) /\ IsParser(ts, q)
  BY DEF CallsSucceed, Reaches
<1>3. Succeeds(ts, q, e, 0) /\ IsParser(ts, e)
  BY <1>2, CallSucceeds DEF Succeeds
<1> HIDE DEF e
<1>4. CASE Failed(q) \/ Current(cx, q) = "}"
  BY <1>1, <1>4
<1>5. CASE ~(Failed(q) \/ Current(cx, q) = "}") /\ ~Subexpression(e)
  <2>1. IsParser(ts, Fail(e)) /\ Failed(Fail(e))
    BY <1>3, ParserReturns
  <2> QED
    BY <1>1, <1>5, <2>1 DEF Reaches
<1>6. CASE ~(Failed(q) \/ Current(cx, q) = "}") /\ Subexpression(e)
  <2>1. Run(ts, p, q, q.n.members, (q.i - p.i) - less)
    BY <1>6 DEF Reaches, TreesOf
  <2>2. Run(ts, q, e, <<e.n>>, (e.i - q.i) - 0)
    BY <1>3, <1>6, SubexpressionIsNotNull DEF Succeeds
  <2>3. Run(ts, e, w, <<>>, 0)
    <3>1. CASE Current(cx, e) = ","
      BY <1>2, <1>3, <3>1, TakesToken
    <3>2. CASE Current(cx, e) # ","
      BY <1>2, <1>3, <3>2, RunStays
    <3> QED
      BY <3>1, <3>2
  <2> HIDE DEF w
  <2> DEFINE m == (e.i - q.i) - 0
  <2>4. m \in Nat /\ m <= m /\ m <= w.i - q.i
    <3>1. q.i \in Nat /\ e.i \in Nat /\ w.i \in Nat /\ q.i <= e.i /\ e.i <= w.i
      BY <1>2, <2>2, <2>3, ParserFields DEF Run
    <3> QED
      BY <3>1
  <2> HIDE DEF m
  <2>5. Run(ts, q, w, <<e.n>>, m)
    <3>1. Run(ts, q, e, <<e.n>>, m)
      BY <2>2 DEF m
    <3> QED
      BY <1>2, <2>3, <2>4, <3>1, RunGoesBehind
  <2>6. TreesOf("members", u) = Append(q.n.members, e.n) /\ u.node = "braced"
    BY DEF TreesOf
  <2> HIDE DEF u
  <2>7. Reaches("members", ts, p, Return(w, u), less)
    BY <1>2, <2>1, <2>4, <2>5, <2>6, ListGrows
  <2> QED
    BY <1>1, <1>6, <2>7
<1> QED
  BY <1>4, <1>5, <1>6

\* A separator behind an argument, and the closing parenthesis behind it.
LEMMA SeparatorTaken ==
    ASSUME NEW cx, IsText(cx.ts), NEW e, IsParser(cx.ts, e), Current(cx, e) \in Separators,
           Peek(cx, e, 1) = ")"
    PROVE  Run(cx.ts, e, [Advance(e, 2) EXCEPT !.paren = @ - 1], <<>>, 0)
<1> DEFINE ts == cx.ts
           a == Advance(e, 1)
           b == [Advance(a, 1) EXCEPT !.paren = @ - 1]
           w == Advance(e, 2)
           v == [w EXCEPT !.paren = @ - 1]
<1>1. e.i \in Nat /\ e.i >= 1 /\ Len(ts) \in Nat /\ e.paren \in Int
  BY ParserFields
<1>2. Current(cx, e) \notin {"eof", "(", ")", "a", "1"}
  BY DEF Separators
<1>3. Run(ts, e, a, <<>>, 0) /\ IsParser(ts, a) /\ a.i = e.i + 1 /\ a.paren = e.paren
  BY <1>2, TakesToken
<1>4. Current(cx, a) = ")"
  BY <1>1, <1>3, CurrentAhead
<1> HIDE DEF a
<1>5. Run(ts, a, b, <<>>, 0) /\ IsParser(ts, b) /\ b.i = e.i + 2 /\ b.paren = e.paren - 1
  <2>1. Run(ts, a, b, <<>>, 0) /\ IsParser(ts, b) /\ b.i = a.i + 1 /\ b.paren = a.paren - 1
    BY <1>3, <1>4, TakesParenthesis
  <2> QED
    BY <1>1, <1>3, <2>1
<1> HIDE DEF b
<1>6. Run(ts, e, b, <<>>, 0)
  BY <1>3, <1>5, RunGoesBehind
<1>7. IsParser(ts, w) /\ w.i = e.i + 2 /\ w.paren = e.paren
  <2>1. e.i + 1 <= Len(ts)
    BY <1>1, TokenPeeked
  <2>2. e.i + 2 <= Len(ts) + 1 /\ 2 \in Nat
    BY <1>1, <2>1
  <2> QED
    BY <2>2, ParserMoves
<1>8. v = Counted(w, -1)
  BY <1>1, <1>7 DEF Counted
<1>9. IsParser(ts, v) /\ v.i = e.i + 2 /\ v.paren = e.paren - 1
  <2> HIDE DEF v, w
  <2>1. -1 \in Int
    OBVIOUS
  <2>2. IsParser(ts, v) /\ v.i = w.i /\ v.paren = w.paren + (-1)
    BY <1>7, <1>8, <2>1, ParserCounts
  <2> QED
    BY <1>1, <1>7, <2>2
<1> HIDE DEF v
<1>10. v.paren - e.paren = b.paren - e.paren /\ 0 \in Nat /\ 0 <= 0
  BY <1>5, <1>9
<1>11. Run(ts, e, v, <<>>, 0)
  BY <1>5, <1>6, <1>9, <1>10, RunShifts
<1> QED
  BY <1>11 DEF v

LEMMA ArgumentsReach ==
    ASSUME NEW cx, CallsSucceed(cx), NEW less \in Nat, NEW p, NEW q, NEW old,
           Reaches("arguments", cx.ts, p, q, less)
    PROVE  Reaches("arguments", cx.ts, p, ArgumentsTurn(cx, q, old), less)
<1> DEFINE ts == cx.ts
           e == Expression(cx, q)
           w == IF old < e.paren /\ Current(cx, e) \in Separators
                THEN IF Peek(cx, e, 1) = ")" THEN [Advance(e, 2) EXCEPT !.paren = @ - 1]
                     ELSE Advance(e, 1)
                ELSE e
           u == [node |-> "arguments", arguments |-> Append(q.n.arguments, e.n)]
<1>1. ArgumentsTurn(cx, q, old) = IF Failed(q) \/ old >= q.paren THEN q
                                  ELSE IF ~Subexpression(e) THEN Fail(e) ELSE Return(w, u)
  BY DEF ArgumentsTurn
<1>2. IsText(ts) /\ IsParser(ts, q)
  BY DEF CallsSucceed, Reaches
<1>3. Succeeds(ts, q, e, 0) /\ IsParser(ts, e)
  BY <1>2, CallSucceeds DEF Succeeds
<1> HIDE DEF e
<1>4. CASE Failed(q) \/ old >= q.paren
  BY <1>1, <1>4
<1>5. CASE ~(Failed(q) \/ old >= q.paren) /\ ~Subexpression(e)
  <2>1. IsParser(ts, Fail(e)) /\ Failed(Fail(e))
    BY <1>3, ParserReturns
  <2> QED
    BY <1>1, <1>5, <2>1 DEF Reaches
<1>6. CASE ~(Failed(q) \/ old >= q.paren) /\ Subexpression(e)
  <2>1. Run(ts, p, q, q.n.arguments, (q.i - p.i) - less)
    BY <1>6 DEF Reaches, TreesOf
  <2>2. Run(ts, q, e, <<e.n>>, (e.i - q.i) - 0)
    BY <1>3, <1>6, SubexpressionIsNotNull DEF Succeeds
  <2>3. Run(ts, e, w, <<>>, 0)
    <3>1. CASE ~(old < e.paren /\ Current(cx, e) \in Separators)
      BY <1>2, <1>3, <3>1, RunStays
    <3>2. CASE old < e.paren /\ Current(cx, e) \in Separators /\ Peek(cx, e, 1) = ")"
      BY <1>2, <1>3, <3>2, SeparatorTaken
    <3>3. CASE old < e.paren /\ Current(cx, e) \in Separators /\ Peek(cx, e, 1) # ")"
      <4>1. Current(cx, e) \notin {"eof", "(", ")", "a", "1"}
        BY <3>3 DEF Separators
      <4> QED
        BY <1>2, <1>3, <3>3, <4>1, TakesToken
    <3> QED
      BY <3>1, <3>2, <3>3
  <2> HIDE DEF w
  <2> DEFINE m == (e.i - q.i) - 0
  <2>4. m \in Nat /\ m <= m /\ m <= w.i - q.i
    <3>1. q.i \in Nat /\ e.i \in Nat /\ w.i \in Nat /\ q.i <= e.i /\ e.i <= w.i
      BY <1>2, <2>2, <2>3, ParserFields DEF Run
    <3> QED
      BY <3>1
  <2> HIDE DEF m
  <2>5. Run(ts, q, w, <<e.n>>, m)
    <3>1. Run(ts, q, e, <<e.n>>, m)
      BY <2>2 DEF m
    <3> QED
      BY <1>2, <2>3, <2>4, <3>1, RunGoesBehind
  <2>6. TreesOf("arguments", u) = Append(q.n.arguments, e.n)
    BY DEF TreesOf
  <2> HIDE DEF u
  <2>7. Reaches("arguments", ts, p, Return(w, u), less)
    BY <1>2, <2>1, <2>4, <2>5, <2>6, ListGrows
  <2> QED
    BY <1>1, <1>6, <2>7
<1> QED
  BY <1>4, <1>5, <1>6

LEMMA BracedSucceeds ==
    ASSUME NEW cx, CallsSucceed(cx), NEW p, IsParser(cx.ts, p), Current(cx, p) = LBrace
    PROVE  Succeeds(cx.ts, p, parse_braced_expression(cx, p), 0)
<1> DEFINE ts == cx.ts
           a == Advance(p, 1)
           first == [node |-> "braced", members |-> <<>>]
           q == Return(a, first)
           b == MembersLoop(cx, q)
           r == Advance(b, 1)
<1>1. IsText(ts) /\ p.i \in Nat /\ Len(ts) \in Nat
  BY ParserFields DEF CallsSucceed
<1>2. parse_braced_expression(cx, p) =
          IF Failed(b) \/ Current(cx, b) # RBrace THEN Fail(b) ELSE r
  BY Zenon DEF parse_braced_expression, MembersLoop, RBrace
<1>3. Reaches("members", ts, p, q, 1)
  <2>1. Run(ts, p, a, <<>>, 0) /\ IsParser(ts, a) /\ a.i = p.i + 1 /\ a.paren = p.paren
    BY <1>1, TakesToken, BracesAreOther
  <2> HIDE DEF a
  <2>2. IsParser(ts, q) /\ q.n = first /\ q.i = a.i /\ q.paren = a.paren
    BY <2>1, ParserReturns
  <2> HIDE DEF q
  <2>3. TreesOf("members", q.n) = <<>> /\ (q.i - p.i) - 1 = 0
    BY <1>1, <2>1, <2>2 DEF TreesOf
  <2>4. IsParser(ts, p) /\ 0 \in Nat /\ 0 <= 0 /\ q.paren - p.paren = a.paren - p.paren
    BY <2>2
  <2>5. Run(ts, p, q, <<>>, 0)
    BY <1>1, <2>1, <2>2, <2>4, RunShifts
  <2> QED
    BY <2>2, <2>3, <2>5 DEF Reaches, first
<1>4. Reaches("members", ts, p, b, 1)
  <2> DEFINE n == Len(ts) + 1
  <2>1. PICK f : IsAfter(f, "members", cx, 0, q, n) /\ b = f[n]
    BY <1>1, LoopTurns
  <2> HIDE DEF b, q
  <2>2. \A x : TurnOf("members", cx, 0, x) = MembersTurn(cx, x)
    BY DEF TurnOf
  <2>3. n \in Nat /\ 1 \in Nat
    BY <1>1
  <2>4. \A x : Reaches("members", ts, p, x, 1) => Reaches("members", ts, p, TurnOf("members", cx, 0, x), 1)
    BY <2>2, <2>3, MembersReach
  <2> QED
    BY <1>3, <2>1, <2>3, <2>4, LoopReaches
<1> HIDE DEF b
<1>5. IsParser(ts, b)
  BY <1>4 DEF Reaches
<1>6. CASE Failed(b) \/ Current(cx, b) # RBrace
  BY <1>2, <1>5, <1>6, FailureSucceeds
<1>7. CASE ~Failed(b) /\ Current(cx, b) = RBrace
  <2> DEFINE m == (b.i - p.i) - 1
             t == b.n
             T == b.n.members
  <2>1. Run(ts, p, b, T, m)
    BY <1>4, <1>7 DEF Reaches, TreesOf
  <2>2. Run(ts, b, r, <<>>, 0) /\ IsParser(ts, r) /\ r.i = b.i + 1 /\ r.n = b.n
    BY <1>1, <1>5, <1>7, TakesToken, BracesAreOther
  <2>3. m \in Nat /\ m <= m /\ b.i \in Nat
    BY <1>1, <1>5, <2>1, ParserFields DEF Run, Holds
  <2> HIDE DEF m, r
  <2>4. Run(ts, p, r, T, m)
    BY <1>1, <2>1, <2>2, <2>3, RunGoesBehind
  <2>5. t.node = "braced" /\ Subtrees(t) = T
    BY <1>4, <1>7 DEF Reaches, Subtrees
  <2>6. Return(r, t) = r
    BY <2>2 DEF IsParser, Return
  <2>7. m + 1 <= (r.i - p.i) - 0
    BY <1>1, <2>2, <2>3 DEF m
  <2> HIDE DEF t, T
  <2>8. Succeeds(ts, p, Return(r, t), 0)
    BY <1>1, <2>4, <2>5, <2>7, NodeReturned
  <2> QED
    BY <1>2, <1>7, <2>6, <2>8 DEF r
<1> QED
  BY <1>6, <1>7

LEMMA TwoTrees ==
    ASSUME NEW s, NEW t
    PROVE  IsList(<<s>>) /\ <<s>> \o <<t>> = <<s, t>> /\ <<s>> \o <<>> = <<s>>
<1>1. /\ <<s>> \in Seq({s, t}) /\ <<t>> \in Seq({s, t}) /\ <<s, t>> \in Seq({s, t})
      /\ Len(<<s>>) = 1 /\ Len(<<t>>) = 1 /\ Len(<<s, t>>) = 2
      /\ <<s>>[1] = s /\ <<t>>[1] = t /\ <<s, t>>[1] = s /\ <<s, t>>[2] = t
  OBVIOUS
<1>2. <<s>> \o <<>> = <<s>>
  BY <1>1, ConcatEmptySeq
<1>3. <<s>> \o <<t>> = <<s, t>>
  <2> DEFINE a == <<s>>
             b == <<t>>
             c == <<s, t>>
             S == {s, t}
  <2>1. /\ a \in Seq(S) /\ b \in Seq(S) /\ c \in Seq(S)
        /\ Len(a) = 1 /\ Len(b) = 1 /\ Len(c) = 2
        /\ a[1] = s /\ b[1] = t /\ c[1] = s /\ c[2] = t
    BY <1>1
  <2> HIDE DEF a, b, c, S
  <2>2. /\ a \o b \in Seq(S) /\ Len(a \o b) = Len(a) + Len(b)
        /\ \A i \in 1..(Len(a) + Len(b)) : (a \o b)[i] = IF i <= Len(a) THEN a[i] ELSE b[i - Len(a)]
    BY <2>1, ConcatProperties
  <2>3. Len(a \o b) = 2 /\ (a \o b)[1] = s /\ (a \o b)[2] = t
    BY <2>1, <2>2
  <2>4. \A i \in 1..2 : (a \o b)[i] = c[i]
    BY <2>1, <2>3
  <2>5. a \o b = c
    BY <2>1, <2>2, <2>3, <2>4, SeqEqual
  <2> QED
    BY <2>5 DEF a, b, c
<1> QED
  BY <1>1, <1>2, <1>3 DEF IsList

\* A node over the tree at the left and the trees of a run behind it.
LEMMA PostfixSucceeds ==
    ASSUME NEW ts, IsText(ts), NEW less \in Nat, NEW p, NEW q, NEW r, NEW U, NEW n, NEW t,
           Run(ts, p, q, <<q.n>>, (q.i - p.i) - less), Run(ts, q, r, U, n), n + 1 <= r.i - q.i,
           t.node \notin {"ident", "lit"}, Subtrees(t) = <<q.n>> \o U
    PROVE  Succeeds(ts, p, Return(r, t), less)
<1> DEFINE m == (q.i - p.i) - less
<1>1. m \in Nat /\ n \in Nat /\ p.i \in Nat /\ q.i \in Nat /\ r.i \in Nat
  BY ParserFields DEF Run, Holds
<1>2. (m + n) + 1 <= (r.i - p.i) - less
  <2> DEFINE a == p.i
             b == q.i
             c == r.i
             o == n + 1
  <2>1. /\ a \in Int /\ b \in Int /\ c \in Int /\ less \in Int /\ o \in Nat
        /\ (b - a) - less \in Nat /\ o <= c - b
    BY <1>1
  <2>2. (m + n) + 1 = m + o
    BY <1>1
  <2> HIDE DEF a, b, c, o
  <2>3. ((b - a) - less) + o <= (c - a) - less
    BY ONLY <2>1, SizesAddUp
  <2> QED
    BY <2>2, <2>3 DEF a, b, c
<1> HIDE DEF m
<1>3. Run(ts, p, q, <<q.n>>, m)
  BY DEF m
<1>4. Run(ts, p, r, <<q.n>> \o U, m + n)
  BY <1>3, RunGoesOn
<1> QED
  BY <1>2, <1>4, NodeReturned

LEMMA SubscriptSucceeds ==
    ASSUME NEW cx, CallsSucceed(cx), NEW less \in Nat, NEW p, NEW q, Current(cx, q) = "[",
           Run(cx.ts, p, q, <<q.n>>, (q.i - p.i) - less)
    PROVE  Succeeds(cx.ts, p, parse_subscript(cx, q), less)
<1> DEFINE ts == cx.ts
           e == Expression(cx, Advance(q, 1))
           r == Advance(e, 1)
           t == [node |-> "subscript", operand |-> q.n, value |-> e.n]
<1>1. IsText(ts) /\ IsParser(ts, q)
  BY DEF CallsSucceed, Run
<1>2. parse_subscript(cx, q) =
          IF ~Subexpression(e) \/ Current(cx, e) # "]" THEN Fail(e) ELSE Return(r, t)
  BY DEF parse_subscript
<1>3. IsParser(ts, e) /\ (~Failed(e) => Run(ts, q, e, <<e.n>>, (e.i - q.i) - 1))
  BY <1>1, CallBehindToken
<1> HIDE DEF e
<1>4. CASE ~Subexpression(e) \/ Current(cx, e) # "]"
  BY <1>2, <1>3, <1>4, FailureSucceeds
<1>5. CASE Subexpression(e) /\ Current(cx, e) = "]"
  <2> DEFINE n == (e.i - q.i) - 1
  <2>1. Run(ts, q, e, <<e.n>>, n)
    BY <1>3, <1>5, SubexpressionIsNotNull
  <2>2. Run(ts, e, r, <<>>, 0) /\ r.i = e.i + 1
    BY <1>1, <1>3, <1>5, TakesToken
  <2>3. n \in Nat /\ n <= n /\ q.i \in Nat /\ e.i \in Nat /\ r.i \in Nat
    BY <1>1, <1>3, <2>1, <2>2, ParserFields DEF Run, Holds
  <2>4. n + 1 <= r.i - q.i
    BY <2>2, <2>3
  <2> HIDE DEF n, r
  <2>5. Run(ts, q, r, <<e.n>>, n)
    BY <1>1, <2>1, <2>2, <2>3, RunGoesBehind
  <2>6. t.node \notin {"ident", "lit"} /\ Subtrees(t) = <<q.n>> \o <<e.n>>
    BY TwoTrees DEF Subtrees
  <2> HIDE DEF t
  <2>7. Succeeds(ts, p, Return(r, t), less)
    BY <1>1, <2>4, <2>5, <2>6, PostfixSucceeds
  <2> QED
    BY <1>2, <1>5, <2>7 DEF r
<1> QED
  BY <1>4, <1>5

LEMMA BinarySucceeds ==
    ASSUME NEW cx, CallsSucceed(cx), NEW less \in Nat, NEW p, NEW q,
           Current(cx, q) \in BinaryOperators, Run(cx.ts, p, q, <<q.n>>, (q.i - p.i) - less)
    PROVE  Succeeds(cx.ts, p, parse_binary_expression(cx, q), less)
<1> DEFINE ts == cx.ts
           r == Right(cx, q)
           t == [node |-> "binexpr", op |-> Current(cx, q), left |-> q.n, right |-> r.n]
<1>1. IsText(ts) /\ IsParser(ts, q)
  BY DEF CallsSucceed, Run
<1>2. parse_binary_expression(cx, q) = IF Failed(r) THEN r ELSE Return(r, t)
  BY DEF parse_binary_expression
<1>3. Succeeds(ts, q, r, 1) /\ IsParser(ts, r)
  BY <1>1, CallSucceeds DEF Succeeds
<1> HIDE DEF r
<1>4. CASE Failed(r)
  BY <1>2, <1>3, <1>4 DEF Succeeds
<1>5. CASE ~Failed(r)
  <2> DEFINE n == (r.i - q.i) - 1
  <2>1. Run(ts, q, r, <<r.n>>, n)
    BY <1>3, <1>5 DEF Succeeds
  <2>2. n + 1 <= r.i - q.i
    <3>1. q.i \in Nat /\ r.i \in Nat
      BY <1>1, <1>3, ParserFields
    <3> QED
      BY <3>1
  <2> HIDE DEF n
  <2>3. t.node \notin {"ident", "lit"} /\ Subtrees(t) = <<q.n>> \o <<r.n>>
    BY TwoTrees DEF Subtrees
  <2> HIDE DEF t
  <2>4. Succeeds(ts, p, Return(r, t), less)
    BY <1>1, <2>1, <2>2, <2>3, PostfixSucceeds
  <2> QED
    BY <1>2, <1>5, <2>4
<1> QED
  BY <1>4, <1>5

\* parse_member_access takes every dot and name that follows.
LEMMA MemberSucceeds ==
    ASSUME NEW cx, CallsSucceed(cx), NEW less \in Nat, NEW p, NEW q, Current(cx, q) = ".m",
           Run(cx.ts, p, q, <<q.n>>, (q.i - p.i) - less)
    PROVE  Succeeds(cx.ts, p, parse_member_access(cx, q), less)
<1> DEFINE ts == cx.ts
           Stops(k) == /\ \A j \in 0..(k - 1) : Peek(cx, q, j) = ".m"
                       /\ Peek(cx, q, k) # ".m"
           path == CHOOSE k \in 1..Len(ts) : Stops(k)
           r == Advance(q, path)
           t == [node |-> "member", target |-> q.n, path |-> path]
<1>1. IsText(ts) /\ IsParser(ts, q) /\ q.i \in Nat /\ q.i >= 1 /\ Len(ts) \in Nat
  BY ParserFields DEF CallsSucceed, Run
<1>2. \E k \in 1..Len(ts) : Stops(k)
  <2> DEFINE S == {j \in Nat : Peek(cx, q, j) # ".m"}
  <2>1. Len(ts) \in S
    <3>1. q.i + Len(ts) \notin DOMAIN ts
      BY <1>1 DEF IsText
    <3> QED
      BY <1>1, <3>1 DEF Peek
  <2>2. S \in SUBSET Nat /\ S # {}
    BY <2>1
  <2>3. PICK k \in S : \A j \in S : k <= j
    BY <2>2, Smallest
  <2>4. k # 0
    BY <2>3 DEF Current
  <2>5. k \in 1..Len(ts)
    BY <1>1, <2>1, <2>3, <2>4
  <2>6. \A j \in 0..(k - 1) : j \in Nat /\ j \notin S
    BY <2>3
  <2>7. Stops(k)
    BY <2>3, <2>6
  <2> QED
    BY <2>5, <2>7
<1>3. path \in 1..Len(ts) /\ Stops(path)
  BY <1>2
<1>4. parse_member_access(cx, q) = Return(r, t)
  BY DEF parse_member_access
<1> HIDE DEF path
<1>5. ASSUME NEW j \in 0..(path - 1) PROVE q.i + j <= Len(ts) /\ ts[q.i + j] = ".m"
  <2>1. Peek(cx, q, j) = ".m" /\ j \in Nat
    BY <1>3
  <2> QED
    BY <1>1, <2>1, TokenPeeked
<1>6. q.i + path <= Len(ts) + 1 /\ path \in Nat /\ path >= 1
  <2>1. path - 1 \in 0..(path - 1)
    BY <1>3
  <2>2. q.i + (path - 1) <= Len(ts)
    BY <1>5, <2>1
  <2> QED
    BY <1>1, <1>3, <2>2
<1>7. Run(ts, q, r, <<>>, 0)
  <2>1. \A j \in 0..(path - 1) : ts[q.i + j] \notin {"(", ")", "a", "1"}
    BY <1>5
  <2> QED
    BY <1>1, <1>6, <2>1, RunTakesTokens
<1>8. r.i = q.i + path
  BY <1>1, <1>6, ParserMoves
<1>9. 0 + 1 <= r.i - q.i
  BY <1>1, <1>6, <1>8
<1>10. t.node \notin {"ident", "lit"} /\ Subtrees(t) = <<q.n>> \o <<>>
  BY TwoTrees DEF Subtrees
<1> HIDE DEF r, t
<1>11. Succeeds(ts, p, Return(r, t), less)
  BY <1>1, <1>7, <1>9, <1>10, PostfixSucceeds
<1> QED
  BY <1>4, <1>11

\* An empty argument list: both parentheses are taken and neither is counted.
LEMMA EmptyListTaken ==
    ASSUME NEW cx, IsText(cx.ts), NEW q, IsParser(cx.ts, q), Current(cx, q) = "(",
           Peek(cx, q, 1) = ")"
    PROVE  LET r == Advance(q, 2)
           IN Run(cx.ts, q, r, <<>>, 0) /\ IsParser(cx.ts, r) /\ r.i = q.i + 2 /\ r.n = q.n
<1> DEFINE ts == cx.ts
           a == [Advance(q, 1) EXCEPT !.paren = @ + 1]
           b == [Advance(a, 1) EXCEPT !.paren = @ - 1]
           r == Advance(q, 2)
<1>1. q.i \in Nat /\ q.i >= 1 /\ Len(ts) \in Nat /\ q.paren \in Int
  BY ParserFields
<1>2. Run(ts, q, a, <<>>, 0) /\ IsParser(ts, a) /\ a.i = q.i + 1 /\ a.paren = q.paren + 1
  BY TakesParenthesis
<1> HIDE DEF a
<1>3. Current(cx, a) = ")"
  BY <1>1, <1>2, CurrentAhead
<1>4. Run(ts, a, b, <<>>, 0) /\ IsParser(ts, b) /\ b.i = q.i + 2 /\ b.paren = q.paren
  <2>1. Run(ts, a, b, <<>>, 0) /\ IsParser(ts, b) /\ b.i = a.i + 1 /\ b.paren = a.paren - 1
    BY <1>2, <1>3, TakesParenthesis
  <2> QED
    BY <1>1, <1>2, <2>1
<1> HIDE DEF b
<1>5. Run(ts, q, b, <<>>, 0)
  BY <1>2, <1>4, RunGoesBehind
<1>6. IsParser(ts, r) /\ r.i = q.i + 2 /\ r.paren = q.paren /\ r.n = q.n
  <2>1. q.i + 1 <= Len(ts)
    BY <1>1, TokenPeeked
  <2>2. q.i + 2 <= Len(ts) + 1 /\ 2 \in Nat
    BY <1>1, <2>1
  <2> QED
    BY <2>2, ParserMoves
<1> HIDE DEF r
<1>7. r.paren - q.paren = b.paren - q.paren /\ 0 \in Nat /\ 0 <= 0
  BY <1>4, <1>6
<1>8. Run(ts, q, r, <<>>, 0)
  BY <1>4, <1>5, <1>6, <1>7, RunShifts
<1> QED
  BY <1>6, <1>8 DEF r

LEMMA ArgumentsRead ==
    ASSUME NEW cx, CallsSucceed(cx), NEW p, IsParser(cx.ts, p), NEW old
    PROVE  LET r == Arguments(cx, p, old)
           IN /\ IsParser(cx.ts, r)
              /\ ~Failed(r) => Run(cx.ts, p, r, r.n.arguments, (r.i - p.i) - 0)
<1> DEFINE ts == cx.ts
           first == [node |-> "arguments", arguments |-> <<>>]
           q == Return(p, first)
           r == ArgumentsLoop(cx, q, old)
<1>1. IsText(ts) /\ p.i \in Nat /\ Len(ts) \in Nat
  BY ParserFields DEF CallsSucceed
<1>2. Arguments(cx, p, old) = IF old >= r.paren THEN r ELSE Fail(r)
  BY DEF Arguments, ArgumentsLoop, Closed
<1>3. Reaches("arguments", ts, p, q, 0)
  <2>1. IsParser(ts, q) /\ q.n = first /\ q.i = p.i /\ q.paren = p.paren
    BY ParserReturns
  <2> HIDE DEF q
  <2>2. TreesOf("arguments", q.n) = <<>> /\ (q.i - p.i) - 0 = 0
    BY <1>1, <2>1 DEF TreesOf
  <2>3. q.paren - p.paren = p.paren - p.paren /\ 0 \in Nat /\ 0 <= 0 /\ Run(ts, p, p, <<>>, 0)
    BY <1>1, <2>1, RunStays
  <2>4. Run(ts, p, q, <<>>, 0)
    BY <1>1, <2>1, <2>3, RunShifts
  <2> QED
    BY <2>1, <2>2, <2>4 DEF Reaches
<1>4. Reaches("arguments", ts, p, r, 0)
  <2> DEFINE n == Len(ts) + 1
  <2>1. PICK f : IsAfter(f, "arguments", cx, old, q, n) /\ r = f[n]
    BY <1>1, LoopTurns
  <2> HIDE DEF r, q
  <2>2. \A x : TurnOf("arguments", cx, old, x) = ArgumentsTurn(cx, x, old)
    BY DEF TurnOf
  <2>3. n \in Nat /\ 0 \in Nat
    BY <1>1
  <2>4. \A x : Reaches("arguments", ts, p, x, 0) =>
                   Reaches("arguments", ts, p, TurnOf("arguments", cx, old, x), 0)
    BY <2>2, <2>3, ArgumentsReach
  <2> QED
    BY <1>3, <2>1, <2>3, <2>4, LoopReaches
<1> HIDE DEF r
<1>5. /\ IsParser(ts, r) /\ IsParser(ts, Fail(r)) /\ Failed(Fail(r))
      /\ ~Failed(r) => Run(ts, p, r, r.n.arguments, (r.i - p.i) - 0)
  BY <1>4, ParserReturns DEF Reaches, TreesOf
<1> QED
  BY <1>2, <1>5

LEMMA CallIsParsed ==
    ASSUME NEW cx, CallsSucceed(cx), NEW less \in Nat, NEW p, NEW q, Current(cx, q) = "(",
           Run(cx.ts, p, q, <<q.n>>, (q.i - p.i) - less)
    PROVE  Succeeds(cx.ts, p, parse_call(cx, q), less)
<1> DEFINE ts == cx.ts
           a == [Advance(q, 1) EXCEPT !.paren = @ + 1]
           r == Arguments(cx, a, q.paren)
           b == Advance(q, 2)
           t == [node |-> "call", target |-> q.n, arguments |-> <<>>]
           u == [node |-> "call", target |-> q.n, arguments |-> r.n.arguments]
<1>1. IsText(ts) /\ IsParser(ts, q) /\ q.i \in Nat
  BY ParserFields DEF CallsSucceed, Run
<1>2. parse_call(cx, q) = IF Peek(cx, q, 1) = ")" THEN Return(b, t)
                          ELSE IF Failed(r) THEN r ELSE Return(r, u)
  <2> DEFINE none == [node |-> "arguments", arguments |-> <<>>]
             c == Return(b, none)
  <2>1. parse_call(cx, q) = CallOf(q.n, IF Peek(cx, q, 1) = ")" THEN c ELSE r)
    BY DEF parse_call
  <2>2. CallOf(q.n, r) = IF Failed(r) THEN r ELSE Return(r, u)
    BY DEF CallOf
  <2>3. CallOf(q.n, c) = Return(b, t)
    <3>1. c.n = none /\ Return(c, t) = Return(b, t)
      <4>1. IsParser(ts, q)
        BY <1>1
      <4>2. c = [q EXCEPT !.i = @ + 2, !.n = none] /\ Return(c, t) = [q EXCEPT !.i = @ + 2, !.n = t]
            /\ Return(b, t) = [q EXCEPT !.i = @ + 2, !.n = t]
        BY <4>1 DEF Return, Advance, IsParser
      <4> QED
        BY <4>1, <4>2 DEF IsParser
    <3>2. ~Failed(c)
      BY <3>1 DEF Failed, Null
    <3>3. c.n.arguments = <<>>
      BY <3>1
    <3> HIDE DEF c
    <3> QED
      BY <3>1, <3>2, <3>3 DEF CallOf
  <2> HIDE DEF c, r
  <2> QED
    BY <2>1, <2>2, <2>3
<1>3. /\ t.node \notin {"ident", "lit"} /\ Subtrees(t) = <<q.n>> \o <<>>
      /\ u.node \notin {"ident", "lit"} /\ Subtrees(u) = <<q.n>> \o r.n.arguments
  BY DEF Subtrees
<1>4. CASE Peek(cx, q, 1) = ")"
  <2>1. Run(ts, q, b, <<>>, 0) /\ b.i = q.i + 2
    BY <1>1, <1>4, EmptyListTaken
  <2>2. 0 + 1 <= b.i - q.i
    BY <1>1, <2>1
  <2> HIDE DEF b, t
  <2>3. Succeeds(ts, p, Return(b, t), less)
    BY <1>1, <1>3, <2>1, <2>2, PostfixSucceeds
  <2> QED
    BY <1>2, <1>4, <2>3
<1>5. CASE Peek(cx, q, 1) # ")"
  <2>1. Run(ts, q, a, <<>>, 0) /\ IsParser(ts, a) /\ a.i = q.i + 1
    BY <1>1, TakesParenthesis
  <2> HIDE DEF a
  <2>2. IsParser(ts, r) /\ (~Failed(r) => Run(ts, a, r, r.n.arguments, (r.i - a.i) - 0))
    BY <2>1, ArgumentsRead
  <2> HIDE DEF r, u
  <2>3. CASE Failed(r)
    BY <1>2, <1>5, <2>2, <2>3 DEF Succeeds
  <2>4. CASE ~Failed(r)
    <3> DEFINE n == (r.i - a.i) - 0
               U == r.n.arguments
    <3>1. Run(ts, a, r, U, n)
      BY <2>2, <2>4
    <3>2. n \in Nat /\ n <= n /\ r.i \in Nat
      BY <1>1, <2>2, <3>1, ParserFields DEF Run, Holds
    <3>3. n + 1 <= r.i - q.i
      BY <1>1, <2>1, <3>2
    <3> HIDE DEF n
    <3>4. Run(ts, q, r, U, n)
      BY <1>1, <2>1, <3>1, <3>2, RunGoesBehind
    <3>5. Succeeds(ts, p, Return(r, u), less)
      BY <1>1, <1>3, <3>3, <3>4, PostfixSucceeds
    <3> QED
      BY <1>2, <1>5, <2>4, <3>5
  <2> QED
    BY <2>3, <2>4
<1> QED
  BY <1>4, <1>5

-----------------------------------------------------------------------------
(* The routines that loop                                                  *)

LEMMA ReachesIsSucceeds ==
    ASSUME NEW of \in {"climb", "postfix"}, NEW ts, NEW p, NEW q, NEW less
    PROVE  Reaches(of, ts, p, q, less) <=> Succeeds(ts, p, q, less)
  BY DEF Reaches, Succeeds, TreesOf

LEMMA ClimbReaches ==
    ASSUME NEW cx, CallsSucceed(cx), NEW less \in Nat, NEW p, NEW q, NEW op,
           Succeeds(cx.ts, p, q, less)
    PROVE  Succeeds(cx.ts, p, Climb(cx, q, op), less)
<1> DEFINE climbs == /\ ~Failed(q) /\ Current(cx, q) \in BinaryOperators
                     /\ precedence_of(Current(cx, q)) <= precedence_of(op)
<1>1. Climb(cx, q, op) = IF climbs THEN parse_binary_expression(cx, q) ELSE q
  BY DEF Climb
<1>2. climbs => /\ Current(cx, q) \in BinaryOperators
                /\ Run(cx.ts, p, q, <<q.n>>, (q.i - p.i) - less)
  BY DEF Succeeds
<1> HIDE DEF climbs
<1>3. CASE climbs
  <2>1. Succeeds(cx.ts, p, parse_binary_expression(cx, q), less)
    BY <1>2, <1>3, BinarySucceeds
  <2> QED
    BY <1>1, <1>3, <2>1
<1>4. CASE ~climbs
  BY <1>1, <1>4
<1> QED
  BY <1>3, <1>4

LEMMA RightSucceeds ==
    ASSUME NEW cx, CallsSucceed(cx), NEW p, IsParser(cx.ts, p), Current(cx, p) \in BinaryOperators
    PROVE  Succeeds(cx.ts, p, RightOperand(cx, p), 1)
<1> DEFINE ts == cx.ts
           op == Current(cx, p)
           r == Operand(cx, Advance(p, 1))
           s == ClimbLoop(cx, r, op)
<1>1. RightOperand(cx, p) = IF Subexpression(r) THEN s ELSE Fail(r)
  BY DEF RightOperand, ClimbLoop
<1>2. Current(cx, p) \notin {"eof", "(", ")", "a", "1"}
  BY DEF BinaryOperators
<1>3. Succeeds(ts, p, r, 1) /\ IsParser(ts, r)
  BY <1>2, CallBehindToken DEF Succeeds
<1>4. Len(ts) \in Nat
  BY ParserFields DEF CallsSucceed
<1> HIDE DEF r
<1>5. CASE ~Subexpression(r)
  BY <1>1, <1>3, <1>5, FailureSucceeds
<1>6. CASE Subexpression(r)
  <2> DEFINE n == Len(ts) + 1
  <2>1. PICK f : IsAfter(f, "climb", cx, op, r, n) /\ s = f[n]
    BY <1>4, LoopTurns
  <2> HIDE DEF s, op
  <2>2. \A x : TurnOf("climb", cx, op, x) = Climb(cx, x, op)
    BY DEF TurnOf
  <2>3. n \in Nat /\ 1 \in Nat
    BY <1>4
  <2>4. \A x : Reaches("climb", ts, p, x, 1) => Reaches("climb", ts, p, TurnOf("climb", cx, op, x), 1)
    BY <2>2, <2>3, ClimbReaches, ReachesIsSucceeds
  <2>5. Reaches("climb", ts, p, r, 1)
    BY <1>3, ReachesIsSucceeds
  <2>6. Reaches("climb", ts, p, s, 1)
    BY <2>1, <2>3, <2>4, <2>5, LoopReaches
  <2>7. Succeeds(ts, p, s, 1)
    BY <2>6, ReachesIsSucceeds
  <2> QED
    BY <1>1, <1>6, <2>7 DEF s, op
<1> QED
  BY <1>5, <1>6

LEMMA PostfixReaches ==
    ASSUME NEW cx, CallsSucceed(cx), NEW less \in Nat, NEW p, NEW q, NEW parse_single,
           Succeeds(cx.ts, p, q, less)
    PROVE  Succeeds(cx.ts, p, Postfix(cx, q, parse_single), less)
<1> DEFINE c == Current(cx, q)
<1>1. CASE Failed(q)
  BY <1>1 DEF Postfix
<1>2. CASE ~Failed(q)
  <2>1. Run(cx.ts, p, q, <<q.n>>, (q.i - p.i) - less)
    BY <1>2 DEF Succeeds
  <2>2. Postfix(cx, q, parse_single) =
            IF c = "[" THEN parse_subscript(cx, q)
            ELSE IF c = "(" THEN parse_call(cx, q)
            ELSE IF c = ".m" THEN parse_member_access(cx, q)
            ELSE IF c \in BinaryOperators /\ ~parse_single THEN parse_binary_expression(cx, q)
            ELSE q
    BY <1>2 DEF Postfix
  <2>3. CASE c = "["
    BY <2>1, <2>2, <2>3, SubscriptSucceeds
  <2>4. CASE c = "("
    BY <2>1, <2>2, <2>4, CallIsParsed
  <2>5. CASE c = ".m"
    BY <2>1, <2>2, <2>5, MemberSucceeds
  <2>6. CASE c \notin {"[", "(", ".m"} /\ c \in BinaryOperators /\ ~parse_single
    <3>1. Succeeds(cx.ts, p, parse_binary_expression(cx, q), less)
      BY <2>1, <2>6, BinarySucceeds
    <3>2. Postfix(cx, q, parse_single) = parse_binary_expression(cx, q)
      BY <2>2, <2>6, Zenon
    <3> QED
      BY <3>1, <3>2
  <2>7. CASE c \notin {"[", "(", ".m"} /\ ~(c \in BinaryOperators /\ ~parse_single)
    <3>1. Postfix(cx, q, parse_single) = q
      BY <2>2, <2>7, Zenon
    <3> QED
      BY <3>1
  <2> QED
    BY <2>3, <2>4, <2>5, <2>6, <2>7
<1> QED
  BY <1>1, <1>2

LEMMA CloseSucceeds ==
    ASSUME NEW cx, CallsSucceed(cx), NEW p, NEW q, NEW parse_single, Succeeds(cx.ts, p, q, 0)
    PROVE  Succeeds(cx.ts, p, Close(cx, q, parse_single), 0)
<1> DEFINE ts == cx.ts
           r == [Advance(q, 1) EXCEPT !.paren = @ - 1]
<1>1. IsText(ts) /\ IsParser(ts, q)
  BY DEF CallsSucceed, Succeeds
<1>2. CASE Failed(q) \/ Current(cx, q) # ")"
  BY <1>2 DEF Close
<1>3. CASE ~Failed(q) /\ Current(cx, q) = ")" /\ q.paren = 0
  BY <1>1, <1>3, FailureSucceeds DEF Close
<1>4. CASE ~Failed(q) /\ Current(cx, q) = ")" /\ q.paren # 0
  <2>1. Close(cx, q, parse_single) = IF parse_single THEN q ELSE r
    BY <1>4 DEF Close
  <2>2. Run(ts, q, r, <<>>, 0) /\ IsParser(ts, r) /\ r.i = q.i + 1 /\ r.n = q.n
    BY <1>1, <1>4, TakesParenthesis
  <2> DEFINE m == (q.i - p.i) - 0
             n == (r.i - p.i) - 0
  <2>3. Run(ts, p, q, <<q.n>>, m)
    BY <1>4 DEF Succeeds
  <2>4. m \in Nat /\ n \in Nat /\ m <= n
    <3>1. p.i \in Nat /\ q.i \in Nat /\ p.i <= q.i
      BY <1>1, <2>3, ParserFields DEF Run
    <3> QED
      BY <2>2, <3>1
  <2> HIDE DEF r, m, n
  <2>5. Run(ts, p, r, <<q.n>>, n)
    BY <1>1, <2>2, <2>3, <2>4, RunGoesBehind
  <2>6. Succeeds(ts, p, r, 0)
    BY <2>2, <2>5 DEF Succeeds, n
  <2>7. parse_single \/ ~parse_single
    OBVIOUS
  <2>8. CASE parse_single
    BY <2>1, <2>8
  <2>9. CASE ~parse_single
    <3>1. Close(cx, q, parse_single) = r
      BY <2>1, <2>9, Zenon
    <3> QED
      BY <2>6, <3>1
  <2> QED
    BY <2>8, <2>9
<1> QED
  BY <1>2, <1>3, <1>4

LEMMA PrefixParsed ==
    ASSUME NEW cx, CallsSucceed(cx), NEW p, IsParser(cx.ts, p)
    PROVE  Succeeds(cx.ts, p, Prefix(cx, p), 0)
<1> DEFINE c == Current(cx, p)
           lit == Return(Advance(p, 1), [node |-> "lit", at |-> p.i])
           ident == Return(Advance(p, 1), [node |-> "ident", at |-> p.i])
<1>1. IsText(cx.ts)
  BY DEF CallsSucceed
<1>2. Prefix(cx, p) =
          IF c = "(" THEN parse_parenthesized_expression(cx, p)
          ELSE IF c = LBrace THEN parse_braced_expression(cx, p)
          ELSE IF c \in Literals THEN lit
          ELSE IF c \in Keywords THEN parse_keyword(cx, p)
          ELSE IF c = "a" THEN ident
          ELSE IF c = "d" THEN parse_vardecl(cx, p)
          ELSE IF c \in UnaryOperators THEN parse_unary_expression(cx, p)
          ELSE Fail(p)
  BY Zenon DEF Prefix, LBrace, parse_singleton_literal
<1>3. c \in Literals => c = "1"
  BY <1>1, TokenHere, BracesAreOther DEF ExprTokens, Literals, BinaryOperators, UnaryOperators
<1>4. c \in Keywords => c \in {"sizeof", "cast"}
  BY <1>1, TokenHere, BracesAreOther DEF ExprTokens, Keywords, BinaryOperators, UnaryOperators
<1>5. c # "d"
  BY <1>1, TokenHere, BracesAreOther DEF ExprTokens, BinaryOperators, UnaryOperators
<1>6. CASE c = "("
  BY <1>2, <1>6, ParenthesizedSucceeds
<1>7. CASE c = LBrace
  <2>1. c # "("
    BY <1>7, BracesAreOther
  <2> QED
    BY <1>2, <1>7, <2>1, BracedSucceeds
<1>8. CASE c \in Literals /\ c # LBrace
  <2>1. Succeeds(cx.ts, p, lit, 0)
    BY <1>1, <1>3, <1>8, LeafSucceeds
  <2> QED
    BY <1>2, <1>3, <1>8, <2>1
<1>9. CASE c \in Keywords /\ c # LBrace /\ c # "(" /\ c \notin Literals
  <2>1. CASE c = "sizeof"
    <3>1. Prefix(cx, p) = parse_sizeof(cx, p)
      BY <1>2, <1>9, <2>1 DEF parse_keyword
    <3> QED
      BY <2>1, <3>1, SizeofSucceeds
  <2>2. CASE c = "cast"
    <3>1. Prefix(cx, p) = parse_cast(cx, p)
      BY <1>2, <1>9, <2>2 DEF parse_keyword
    <3> QED
      BY <2>2, <3>1, CastSucceeds
  <2> QED
    BY <1>4, <1>9, <2>1, <2>2
<1>10. CASE c = "a"
  <2>1. Succeeds(cx.ts, p, ident, 0)
    BY <1>1, <1>10, LeafSucceeds
  <2>2. c # LBrace /\ c \notin Literals /\ c \notin Keywords
    BY <1>10, BracesAreOther DEF Literals, Keywords
  <2> QED
    BY <1>2, <1>10, <2>1, <2>2
<1>11. CASE /\ c # "(" /\ c # LBrace /\ c \notin Literals /\ c \notin Keywords /\ c # "a"
            /\ c \in UnaryOperators
  BY <1>2, <1>5, <1>11, UnarySucceeds
<1>12. CASE /\ c # "(" /\ c # LBrace /\ c \notin Literals /\ c \notin Keywords /\ c # "a"
            /\ c \notin UnaryOperators
  BY <1>2, <1>5, <1>12, FailureSucceeds
<1> QED
  BY <1>6, <1>7, <1>8, <1>9, <1>10, <1>11, <1>12

LEMMA ParseSucceeds ==
    ASSUME NEW cx, CallsSucceed(cx), NEW p, IsParser(cx.ts, p), NEW parse_single
    PROVE  Succeeds(cx.ts, p, parse(cx, p, TRUE, parse_single), 0)
<1> DEFINE ts == cx.ts
           e == Prefix(cx, p)
           o == PostfixLoop(cx, e, parse_single)
           q == Close(cx, o, parse_single)
<1>1. parse(cx, p, TRUE, parse_single) = e \/ parse(cx, p, TRUE, parse_single) = q
  BY Zenon DEF parse, Suffix, Terminal, PostfixLoop
<1>2. Succeeds(ts, p, e, 0)
  BY PrefixParsed
<1>3. Len(ts) \in Nat
  BY ParserFields DEF CallsSucceed
<1>4. Succeeds(ts, p, o, 0)
  <2> DEFINE n == Len(ts) + 1
  <2>1. PICK f : IsAfter(f, "postfix", cx, parse_single, e, n) /\ o = f[n]
    BY <1>3, LoopTurns
  <2> HIDE DEF o, e
  <2>2. \A x : TurnOf("postfix", cx, parse_single, x) = Postfix(cx, x, parse_single)
    BY Zenon DEF TurnOf
  <2>3. n \in Nat /\ 0 \in Nat
    BY <1>3
  <2>4. \A x : Reaches("postfix", ts, p, x, 0) =>
                   Reaches("postfix", ts, p, TurnOf("postfix", cx, parse_single, x), 0)
    BY <2>2, <2>3, PostfixReaches, ReachesIsSucceeds
  <2>5. Reaches("postfix", ts, p, e, 0)
    BY <1>2, ReachesIsSucceeds
  <2>6. Reaches("postfix", ts, p, o, 0)
    BY <2>1, <2>3, <2>4, <2>5, LoopReaches
  <2> QED
    BY <2>6, ReachesIsSucceeds
<1>5. Succeeds(ts, p, q, 0)
  BY <1>4, CloseSucceeds
<1> QED
  BY <1>1, <1>2, <1>5

-----------------------------------------------------------------------------
(* Levels of calls                                                         *)

LEMMA CalleeIsParser ==
    ASSUME NEW cx, NEW c \in ExprCalls(cx)
    PROVE  IsParser(cx.ts, Callee(c)) /\ Failed(Callee(c))
  BY DEF ExprCalls, Calls, IsParser, Callee, Failed

LEMMA RoutineSucceeds ==
    ASSUME NEW cx, CallsSucceed(cx), NEW c \in ExprCalls(cx)
    PROVE  Succeeds(cx.ts, Callee(c), Routine(cx, c), IF c.of = "right" THEN 1 ELSE 0)
<1> DEFINE p == Callee(c)
<1>1. IsParser(cx.ts, p)
  BY CalleeIsParser
<1>2. c.of \in {"expression", "operand", "right"}
  BY DEF ExprCalls, Calls
<1>3. c.of = "right" => Current(cx, p) \in BinaryOperators
  BY DEF ExprCalls
<1> HIDE DEF p
<1>4. CASE c.of = "expression"
  <2>1. Routine(cx, c) = parse(cx, p, TRUE, FALSE)
    BY <1>4 DEF Routine, p
  <2> QED
    BY <1>1, <1>4, <2>1, ParseSucceeds DEF p
<1>5. CASE c.of = "operand"
  <2>1. Routine(cx, c) = parse(cx, p, TRUE, TRUE)
    BY <1>5 DEF Routine, p
  <2> QED
    BY <1>1, <1>5, <2>1, ParseSucceeds DEF p
<1>6. CASE c.of = "right"
  <2>1. Routine(cx, c) = RightOperand(cx, p)
    BY <1>6 DEF Routine, p
  <2> QED
    BY <1>1, <1>3, <1>6, <2>1, RightSucceeds DEF p
<1> QED
  BY <1>2, <1>4, <1>5, <1>6

\* parse(parser, lxr, true) on any text is a run.
LEMMA ParsedSucceeds ==
    ASSUME NEW ts, IsText(ts), NEW p, IsParser(ts, p)
    PROVE  Succeeds(ts, p, Parsed(ts, p, "expression"), 0)
<1> DEFINE n == Len(ts) + 2
           first == [c \in Calls |-> Callee(c)]
           level == CHOOSE f : IsAfter(f, "level", 0, ts, first, n)
           cx(d) == [ts |-> ts, call |-> level[d]]
           Good == {d \in 0..n : CallsSucceed(cx(d))}
<1>1. n \in Nat /\ Len(ts) \in Nat
  BY DEF IsText
<1>2. \E f : IsAfter(f, "level", 0, ts, first, n)
  BY <1>1, TurnsExist
<1>3. IsAfter(level, "level", 0, ts, first, n)
  BY <1>2
<1>4. Parsed(ts, p, "expression") = level[n][AsCall(p, "expression")]
  BY Zenon DEF Parsed, IsAfter, TurnOf
<1> HIDE DEF level
<1>5. \A d \in 0..n : level[d] = IF d = 0 THEN first ELSE TurnOf("level", 0, ts, level[d - 1])
  BY <1>3 DEF IsAfter
<1>6. \A q : TurnOf("level", 0, ts, q) = [c \in Calls |-> Routine([ts |-> ts, call |-> q], c)]
  BY Zenon DEF TurnOf
<1>7. \A d : cx(d).ts = ts /\ cx(d).call = level[d]
  OBVIOUS
<1>8. 0 \in Good
  <2>1. level[0] = first /\ 0 \in 0..n
    BY <1>1, <1>5
  <2>2. ASSUME NEW c \in ExprCalls(cx(0))
        PROVE  Succeeds(ts, Callee(c), cx(0).call[c], IF c.of = "right" THEN 1 ELSE 0)
    <3>1. c \in Calls
      BY DEF ExprCalls
    <3>2. cx(0).call[c] = Callee(c)
      BY <1>7, <2>1, <3>1
    <3>3. IsParser(ts, Callee(c)) /\ Failed(Callee(c))
      <4> HIDE DEF cx
      <4>1. IsParser(cx(0).ts, Callee(c)) /\ Failed(Callee(c))
        BY CalleeIsParser
      <4> QED
        BY <1>7, <4>1
    <3> QED
      BY <3>2, <3>3 DEF Succeeds
  <2> HIDE DEF cx
  <2>3. CallsSucceed(cx(0))
    BY <1>7, <2>2 DEF CallsSucceed
  <2> QED
    BY <2>1, <2>3
<1>9. ASSUME NEW d \in 1..n, d - 1 \in Good PROVE d \in Good
  <2>1. CallsSucceed(cx(d - 1)) /\ d \in 0..n /\ d # 0
    BY <1>1, <1>9
  <2>2. level[d] = [c \in Calls |-> Routine(cx(d - 1), c)]
    BY <1>5, <1>6, <2>1
  <2>3. ExprCalls(cx(d)) = ExprCalls(cx(d - 1))
    BY <1>7 DEF ExprCalls, Current, Peek
  <2> HIDE DEF cx
  <2>4. ASSUME NEW c \in ExprCalls(cx(d))
        PROVE  Succeeds(ts, Callee(c), cx(d).call[c], IF c.of = "right" THEN 1 ELSE 0)
    <3>1. c \in Calls /\ c \in ExprCalls(cx(d - 1))
      BY <2>3 DEF ExprCalls
    <3>2. cx(d).call[c] = Routine(cx(d - 1), c)
      BY <1>7, <2>2, <3>1
    <3>3. Succeeds(cx(d - 1).ts, Callee(c), Routine(cx(d - 1), c), IF c.of = "right" THEN 1 ELSE 0)
      BY <2>1, <3>1, RoutineSucceeds
    <3> QED
      BY <1>7, <3>2, <3>3
  <2>5. CallsSucceed(cx(d))
    BY <1>7, <2>4 DEF CallsSucceed
  <2> QED
    BY <2>1, <2>5
<1> HIDE DEF Good
<1>10. Good \in SUBSET (0..n)
  BY DEF Good
<1>11. Good = 0..n
  BY <1>1, <1>8, <1>9, <1>10, StepsKeep
<1>12. CallsSucceed(cx(n))
  <2>1. n \in Good
    BY <1>1, <1>11
  <2> HIDE DEF cx, n
  <2> QED
    BY <2>1 DEF Good
<1>13. Expression(cx(n), p) = level[n][AsCall(p, "expression")]
  BY <1>7 DEF Expression
<1> HIDE DEF cx, n
<1>14. Succeeds(cx(n).ts, p, Expression(cx(n), p), 0)
  BY <1>7, <1>12, CallSucceeds
<1> QED
  BY <1>4, <1>7, <1>13, <1>14

-----------------------------------------------------------------------------
(* The texts that are written                                              *)

LEMMA CountSame ==
    ASSUME NEW s, NEW t, NEW S, NEW a \in Int, NEW b \in Int, \A k \in a..b : s[k] = t[k]
    PROVE  Count(s, S, a, b) = Count(t, S, a, b)
<1>1. Places(s, S, a, b) = Places(t, S, a, b)
  BY DEF Places
<1> QED
  BY <1>1 DEF Count

LEMMA CountAppended ==
    ASSUME NEW S, NEW s \in Seq(S), NEW t \in S, NEW u
    PROVE  LET r == Append(s, t)
           IN Count(r, {u}, 1, Len(r)) = Count(s, {u}, 1, Len(s)) + (IF t = u THEN 1 ELSE 0)
<1> DEFINE r == Append(s, t)
           n == Len(s)
<1>1. /\ n \in Nat /\ r \in Seq(S) /\ Len(r) = n + 1 /\ r[n + 1] = t
      /\ \A k \in 1..n : r[k] = s[k]
  BY AppendProperties
<1> HIDE DEF r, n
<1>2. Count(r, {u}, 1, n) = Count(s, {u}, 1, n)
  BY <1>1, CountSame
<1>3. Count(r, {u}, n + 1, n + 1) = IF t = u THEN 1 ELSE 0
  <2>1. Places(r, {u}, n + 1, n + 1) = IF t = u THEN {n + 1} ELSE {}
    BY <1>1 DEF Places
  <2>2. Cardinality({n + 1}) = 1 /\ Cardinality({}) = 0
    BY FS_Singleton, FS_EmptySet
  <2> QED
    BY <2>1, <2>2, Zenon DEF Count
<1>4. Count(r, {u}, 1, (n + 2) - 1) = Count(r, {u}, 1, (n + 1) - 1) + Count(r, {u}, n + 1, (n + 2) - 1)
  <2>1. 1 \in Int /\ n + 1 \in Int /\ n + 2 \in Int /\ 1 <= n + 1 /\ n + 1 <= n + 2
    BY <1>1
  <2> QED
    BY <2>1, CountAddsUp
<1>5. (n + 2) - 1 = n + 1 /\ (n + 1) - 1 = n
  BY <1>1
<1>6. Count(r, {u}, 1, n + 1) = Count(s, {u}, 1, n) + (IF t = u THEN 1 ELSE 0)
  BY <1>2, <1>3, <1>4, <1>5
<1> QED
  BY <1>1, <1>6 DEF r, n

\* What is open has been opened; what is closed was open.
WriterInv ==
    /\ IsText(tokens) /\ open \in Seq(Openers)
    /\ Count(tokens, {"("}, 1, Len(tokens)) =
           Count(tokens, {")"}, 1, Len(tokens)) + Count(open, {"("}, 1, Len(open))
    /\ result.done => open = <<>> /\ result.p = Parsed(tokens, NewParser, "expression")

LEMMA Brackets ==
    /\ Openers = {"(", "[", LBrace} /\ Closers = {")", "]", RBrace}
    /\ LBrace # "(" /\ LBrace # "[" /\ RBrace # ")" /\ RBrace # "]"
    /\ LBrace \notin Closers /\ RBrace \notin Openers
    /\ Closer("(") = ")" /\ Closer("[") = "]" /\ Closer(LBrace) = RBrace
<1>1. Openers = {"(", "[", LBrace} /\ Closers = {")", "]", RBrace}
  BY Zenon DEF Openers, Closers, LBrace, RBrace
<1>2. LBrace # "(" /\ LBrace # "[" /\ RBrace # ")" /\ RBrace # "]"
  BY Zenon DEF LBrace, RBrace
<1>3. LBrace \notin Closers /\ RBrace \notin Openers
  BY Zenon DEF Openers, Closers, LBrace, RBrace
<1>4. Closer("(") = ")" /\ Closer("[") = "]"
  BY Zenon DEF Closer
<1>5. Closer(LBrace) = RBrace
  BY Zenon DEF Closer, LBrace, RBrace
<1> QED
  BY <1>1, <1>2, <1>3, <1>4, <1>5

\* A token that follows closes the innermost open bracket if it closes one.
LEMMA FollowingTokens ==
    ASSUME open \in Seq(Openers), NEW t \in Following
    PROVE  /\ t \in ExprTokens
           /\ t \in Closers => open # <<>> /\ t = Closer(Last(open))
<1> DEFINE Others == Operators \cup {"(", "[", ".m"} \cup Primaries \cup Unary \cup {",", "T"}
<1>1. t \in Others \/ (open # <<>> /\ t = Closer(Last(open)))
  BY Zenon DEF Following
<1>2. Operators \subseteq BinaryOperators /\ Unary \subseteq UnaryOperators
  BY Zenon, OperatorsAssumption
<1>3. Primaries \subseteq {"a", "1", LBrace, "sizeof", "cast"}
  BY Zenon, OperatorsAssumption DEF LBrace
<1>4. CASE t \in Others
  <2>1. RBrace \notin BinaryOperators /\ RBrace \notin UnaryOperators
    BY Zenon DEF RBrace, BinaryOperators, UnaryOperators
  <2>2. RBrace # LBrace /\ RBrace \notin {"(", "[", ".m", "a", "1", "sizeof", "cast", ",", "T"}
    BY Zenon DEF LBrace, RBrace
  <2>3. t # RBrace
    BY <1>2, <1>3, <1>4, <2>1, <2>2
  <2>4. t # ")" /\ t # "]"
    BY <1>2, <1>3, <1>4, Brackets DEF BinaryOperators, UnaryOperators
  <2>5. t \in ExprTokens
    BY <1>2, <1>3, <1>4 DEF ExprTokens
  <2> QED
    BY <2>3, <2>4, <2>5, Brackets
<1>5. CASE open # <<>> /\ t = Closer(Last(open))
  <2>1. Last(open) \in Openers
    <3>1. Len(open) \in 1..Len(open)
      BY <1>5, EmptySeq
    <3> QED
      BY <3>1, ElementOfSeq DEF Last
  <2>2. Closer(Last(open)) \in Closers
    BY <2>1, Brackets
  <2>3. Closers \subseteq ExprTokens
    BY Brackets DEF ExprTokens
  <2> QED
    BY <1>5, <2>2, <2>3
<1> QED
  BY <1>1, <1>4, <1>5

LEMMA WriteKeepsInv ==
    ASSUME WriterInv, NEW t \in Following, Write(t)
    PROVE  WriterInv'
<1> DEFINE o == Count(tokens, {"("}, 1, Len(tokens))
           c == Count(tokens, {")"}, 1, Len(tokens))
           n == Count(open, {"("}, 1, Len(open))
<1>1. /\ tokens \in Seq(ExprTokens) /\ open \in Seq(Openers) /\ o = c + n
      /\ ~result.done /\ tokens' = Append(tokens, t) /\ result' = result
      /\ open' = IF t \in Openers THEN Append(open, t)
                 ELSE IF t \in Closers THEN Front(open) ELSE open
  BY DEF WriterInv, Write, IsText
<1>2. t \in ExprTokens /\ (t \in Closers => open # <<>> /\ t = Closer(Last(open)))
  BY <1>1, FollowingTokens
<1>3. o \in Nat /\ c \in Nat /\ n \in Nat
  <2>1. Len(tokens) \in Int /\ Len(open) \in Int /\ 1 \in Int
    BY <1>1
  <2> QED
    BY <2>1, CountIsNat
<1>4. /\ Count(tokens', {"("}, 1, Len(tokens')) = o + (IF t = "(" THEN 1 ELSE 0)
      /\ Count(tokens', {")"}, 1, Len(tokens')) = c + (IF t = ")" THEN 1 ELSE 0)
  BY <1>1, <1>2, CountAppended
<1>5. IsText(tokens')
  BY <1>1, <1>2, AppendProperties DEF IsText
<1> HIDE DEF o, c
<1>6. CASE t \in Openers
  <2>1. open' = Append(open, t) /\ open' \in Seq(Openers)
    BY <1>1, <1>6, AppendProperties
  <2>2. Count(open', {"("}, 1, Len(open')) = n + (IF t = "(" THEN 1 ELSE 0)
    <3> DEFINE r == Append(open, t)
    <3>1. Count(r, {"("}, 1, Len(r)) = n + (IF t = "(" THEN 1 ELSE 0)
      <4>1. open \in Seq(Openers)
        BY <1>1
      <4> QED
        BY <4>1, <1>6, CountAppended
    <3>2. open' = r
      BY <2>1
    <3> HIDE DEF r, n
    <3> QED
      BY <3>1, <3>2
  <2>3. t # ")"
    BY <1>6, Brackets
  <2> HIDE DEF n
  <2>4. Count(tokens', {"("}, 1, Len(tokens')) =
            Count(tokens', {")"}, 1, Len(tokens')) + Count(open', {"("}, 1, Len(open'))
    <3>1. o = c + n
      BY <1>1
    <3> DEFINE o2 == Count(tokens', {"("}, 1, Len(tokens'))
               c2 == Count(tokens', {")"}, 1, Len(tokens'))
               n2 == Count(open', {"("}, 1, Len(open'))
               d  == IF t = "(" THEN 1 ELSE 0
    <3>2. o2 = o + d /\ c2 = c /\ n2 = n + d
      <4>1. c2 = c + 0
        BY <1>4, <2>3
      <4>2. c + 0 = c
        BY <1>3
      <4> QED
        BY <1>4, <2>2, <4>1, <4>2
    <3>3. d \in Nat
      OBVIOUS
    <3> HIDE DEF o2, c2, n2, d
    <3>4. o2 = c2 + n2
      BY <1>3, <3>1, <3>2, <3>3
    <3> QED
      BY <3>4 DEF o2, c2, n2
  <2>5. ~result'.done
    BY <1>1
  <2> QED
    BY <1>5, <2>1, <2>4, <2>5 DEF WriterInv
<1>7. CASE t \in Closers
  <2>1. t \notin Openers
    BY <1>7, Brackets
  <2>2. open # <<>> /\ open' = Front(open)
    BY <1>1, <1>2, <1>7, <2>1
  <2> DEFINE f == Front(open)
             l == Last(open)
  <2>3. f \in Seq(Openers) /\ l \in Openers /\ open = Append(f, l)
    <3>1. Len(open) \in Nat \ {0}
      BY <1>1, <2>2, EmptySeq
    <3>2. \A i \in 1..(Len(open) - 1) : open[i] \in Openers
      BY <1>1, <3>1
    <3>3. /\ f \in Seq(Openers) /\ Len(f) = Len(open) - 1
          /\ \A i \in 1..(Len(open) - 1) : f[i] = open[i]
      <4> DEFINE m == Len(open) - 1
      <4>1. /\ f \in Seq(Openers)
            /\ Len(f) = IF 1 <= m THEN m - 1 + 1 ELSE 0
            /\ \A i \in 1..(m - 1 + 1) : f[i] = open[1 + i - 1]
        BY <3>1, <3>2, SubSeqProperties DEF Front
      <4>2. m \in Nat
        BY <3>1
      <4> HIDE DEF f, m
      <4>3. m - 1 + 1 = m /\ \A i \in 1..m : 1 + i - 1 = i
        BY <4>2
      <4>4. Len(f) = m /\ \A i \in 1..m : f[i] = open[i]
        BY <4>1, <4>2, <4>3
      <4> QED
        BY <4>1, <4>4 DEF m
    <3>4. l \in Openers
      BY <1>1, <3>1 DEF Last
    <3> DEFINE g == Append(f, l)
    <3>5. /\ g \in Seq(Openers) /\ Len(g) = Len(f) + 1
          /\ \A i \in 1..Len(f) : g[i] = f[i]
          /\ g[Len(f) + 1] = l
      <4> HIDE DEF f, l
      <4> QED
        BY <3>3, <3>4, AppendProperties
    <3> HIDE DEF f, g
    <3>6. Len(g) = Len(open) /\ \A i \in 1..Len(open) : open[i] = g[i]
      BY <3>1, <3>3, <3>5 DEF Last
    <3>7. open = g
      BY <1>1, <3>5, <3>6, SeqEqual
    <3> QED
      BY <3>3, <3>4, <3>7 DEF g
  <2> HIDE DEF f, l
  <2>4. n = Count(f, {"("}, 1, Len(f)) + (IF l = "(" THEN 1 ELSE 0)
    BY <2>3, CountAppended
  <2>5. t = ")" <=> l = "("
    <3>1. t = Closer(l)
      BY <1>2, <1>7 DEF l
    <3> QED
      BY <2>3, <3>1, Brackets
  <2>6. t # "("
    BY <1>7, Brackets
  <2>7. open' = f /\ Count(f, {"("}, 1, Len(f)) \in Nat
    <3>1. Len(f) \in Int /\ 1 \in Int
      BY <2>3
    <3> QED
      BY <2>2, <3>1, CountIsNat DEF f
  <2> HIDE DEF n
  <2> QED
    BY <1>1, <1>3, <1>4, <1>5, <2>3, <2>4, <2>5, <2>6, <2>7 DEF WriterInv
<1>8. CASE t \notin Openers /\ t \notin Closers
  <2>1. open' = open /\ t # "(" /\ t # ")"
    BY <1>1, <1>8, Brackets
  <2> HIDE DEF n
  <2>2. Count(open', {"("}, 1, Len(open')) = n
    BY <2>1 DEF n
  <2> QED
    BY <1>1, <1>3, <1>4, <1>5, <2>1, <2>2 DEF WriterInv
<1> QED
  BY <1>6, <1>7, <1>8

\* The invariant holds of every text that is written, parsed or not.
THEOREM WriterInvHolds == Spec => []WriterInv
<1>1. Init => WriterInv
  <2> SUFFICES ASSUME Init PROVE WriterInv
    OBVIOUS
  <2>1. tokens = <<>> /\ open = <<>> /\ ~result.done
    BY DEF Init
  <2>2. <<>> \in Seq(ExprTokens) /\ <<>> \in Seq(Openers) /\ Len(<<>>) = 0
    OBVIOUS
  <2>3. \A S : Count(<<>>, S, 1, 0) = 0
    <3>1. \A S : Places(<<>>, S, 1, 0) = {}
      BY DEF Places
    <3> QED
      BY <3>1, FS_EmptySet DEF Count
  <2> QED
    BY <2>1, <2>2, <2>3 DEF WriterInv, IsText
<1>2. WriterInv /\ [Next]_vars => WriterInv'
  <2> SUFFICES ASSUME WriterInv, [Next]_vars PROVE WriterInv'
    OBVIOUS
  <2>1. ASSUME NEW t \in Following, Write(t) PROVE WriterInv'
    BY <2>1, WriteKeepsInv
  <2>2. CASE Submit
    <3>1. tokens' = tokens /\ open' = open /\ open = <<>>
          /\ result'.p = Parsed(tokens, NewParser, "expression")
      BY <2>2 DEF Submit
    <3> QED
      BY <3>1 DEF WriterInv
  <2>3. CASE UNCHANGED vars
    BY <2>3 DEF WriterInv, vars
  <2> QED
    BY <2>1, <2>2, <2>3 DEF Next
<1> QED
  BY <1>1, <1>2, PTL DEF Spec

-----------------------------------------------------------------------------
(* Theorems                                                                *)

\* What is accepted is a run of the parser over the whole text.
LEMMA AcceptedIsRun ==
    ASSUME WriterInv, Accepted
    PROVE  /\ Run(tokens, NewParser, result.p, <<result.p.n>>, Len(tokens))
           /\ NewParser.i = 1 /\ NewParser.paren = 0 /\ result.p.i = Len(tokens) + 1
           /\ Len(tokens) \in Nat /\ open = <<>> /\ IsText(tokens)
<1>1. /\ IsText(tokens) /\ Len(tokens) \in Nat /\ open = <<>> /\ ~Failed(result.p)
      /\ result.p = Parsed(tokens, NewParser, "expression") /\ result.p.i = Len(tokens) + 1
  BY DEF WriterInv, Accepted, IsText
<1>2. NewParser.i = 1 /\ NewParser.paren = 0
  BY DEF NewParser
<1>3. IsParser(tokens, NewParser)
  BY <1>1 DEF IsParser, NewParser
<1>4. Succeeds(tokens, NewParser, result.p, 0)
  BY <1>1, <1>3, ParsedSucceeds
<1>5. Run(tokens, NewParser, result.p, <<result.p.n>>, (result.p.i - NewParser.i) - 0)
  BY <1>1, <1>4 DEF Succeeds
<1>6. (result.p.i - NewParser.i) - 0 = Len(tokens)
  BY <1>1, <1>2
<1> QED
  BY <1>1, <1>2, <1>5, <1>6

\* Whatever is accepted of a text, and whatever calls of parse took its closing
\* parentheses, the counter inside_parenthesized_expression_ is at zero behind it.
THEOREM ParenthesesAreReturnedHolds == Spec => []ParenthesesAreReturned
<1>1. WriterInv => ParenthesesAreReturned
  <2> SUFFICES ASSUME WriterInv, Accepted PROVE result.p.paren = 0
    BY DEF ParenthesesAreReturned
  <2> DEFINE n == Len(tokens)
  <2>1. result.p.paren = 0 + Unclosed(tokens, 1, n + 1) /\ n \in Nat /\ open = <<>>
    BY AcceptedIsRun DEF Run
  <2>2. Count(tokens, {"("}, 1, n) = Count(tokens, {")"}, 1, n) + Count(open, {"("}, 1, Len(open))
    BY DEF WriterInv
  <2>3. Count(open, {"("}, 1, Len(open)) = 0
    <3>1. Places(open, {"("}, 1, Len(open)) = {}
      BY <2>1 DEF Places
    <3> QED
      BY <3>1, FS_EmptySet DEF Count
  <2>4. Count(tokens, {")"}, 1, n) \in Nat
    <3>1. n \in Int /\ 1 \in Int
      BY <2>1
    <3> QED
      BY <3>1, CountIsNat
  <2>5. (n + 1) - 1 = n
    BY <2>1
  <2> HIDE DEF n
  <2>6. Unclosed(tokens, 1, n + 1) = 0
    BY <2>2, <2>3, <2>4, <2>5 DEF Unclosed
  <2> QED
    BY <2>1, <2>6
<1> QED
  BY <1>1, WriterInvHolds, PTL

\* The visits of a tree are determined by the tree.
LEMMA OperandsFound ==
    ASSUME Len(tokens) \in Nat, NEW t, NEW s \in Seq(Nat), NEW k \in 0..Len(tokens), Yields(<<t>>, s, k)
    PROVE  Operands(t) = s
<1> DEFINE n == Len(tokens)
           v == [todo |-> <<t>>, found |-> <<>>]
           w == [todo |-> <<>>, found |-> s]
           visit == CHOOSE f : IsAfter(f, "visit", 0, 0, v, n)
<1>1. Leads(v, k, w)
  <2>1. IsList(<<>>) /\ <<>> \in Seq(Nat)
    <3>1. <<>> \in Seq(Nat)
      OBVIOUS
    <3> QED
      BY <3>1 DEF IsList
  <2>2. <<t>> \o <<>> = <<t>> /\ <<>> \o s = s
    BY TwoTrees, ConcatEmptySeq
  <2>3. Leads([todo |-> <<t>> \o <<>>, found |-> <<>>], k, [todo |-> <<>>, found |-> <<>> \o s])
    BY <2>1, Zenon DEF Yields
  <2> QED
    BY <2>2, <2>3
<1>2. Leads(w, n - k, w)
  <2>1. w.todo = <<>> /\ n - k \in Nat
    OBVIOUS
  <2> HIDE DEF w
  <2> QED
    BY <2>1, VisitsStay
<1>3. k \in Nat /\ n - k \in Nat /\ k + (n - k) = n
  OBVIOUS
<1>4. Operands(t) = visit[n].found
  BY Zenon DEF Operands, IsAfter, TurnOf
<1> HIDE DEF v, n
<1>5. w.found = s
  OBVIOUS
<1> HIDE DEF w
<1>6. Leads(v, n, w)
  <2>1. Leads(v, k + (n - k), w)
    BY <1>1, <1>2, <1>3, VisitsGoOn
  <2> QED
    BY <1>3, <2>1
<1>7. PICK f : IsAfter(f, "visit", 0, 0, v, n) /\ f[n] = w
  BY <1>6 DEF Leads
<1>8. IsAfter(visit, "visit", 0, 0, v, n)
  BY <1>7
<1> HIDE DEF visit
<1>9. n \in Nat
  BY DEF n
<1>10. visit = f
  BY <1>7, <1>8, <1>9, OneResult
<1> QED
  BY <1>4, <1>5, <1>7, <1>10

\* No subtree is dropped or doubled when a routine hands over what it has: what is
\* accepted has every operand of the text in its tree, in the order of the text.
THEOREM NoOperandIsLostHolds == Spec => []NoOperandIsLost
<1>1. WriterInv => NoOperandIsLost
  <2> SUFFICES ASSUME WriterInv, Accepted
               PROVE  LET found == Operands(result.p.n)
                      IN /\ {found[j] : j \in DOMAIN found} =
                                Places(tokens, {"a", "1"}, 1, Len(tokens))
                         /\ \A j, k \in DOMAIN found : j < k => found[j] < found[k]
    BY DEF NoOperandIsLost
  <2> DEFINE n == Len(tokens)
  <2>1. /\ Holds(tokens, 1, n + 1, <<result.p.n>>, n) /\ n \in Nat
    BY AcceptedIsRun DEF Run
  <2>2. PICK s, k : k \in 0..n /\ Reads(tokens, 1, n + 1, s) /\ Yields(<<result.p.n>>, s, k)
    BY <2>1 DEF Holds
  <2>3. s \in Seq(Nat) /\ DOMAIN s = 1..Len(s)
    BY <2>2 DEF Reads
  <2>4. Operands(result.p.n) = s
    BY <2>1, <2>2, <2>3, OperandsFound
  <2>5. \A j, k_1 \in 1..Len(s) : j < k_1 => s[j] < s[k_1]
    BY <2>2 DEF Reads
  <2>6. {s[j] : j \in 1..Len(s)} = Places(tokens, {"a", "1"}, 1, n)
    <3>1. (n + 1) - 1 = n
      BY <2>1
    <3>2. \A x \in Int : (\E j \in 1..Len(s) : s[j] = x) <=> x \in Places(tokens, {"a", "1"}, 1, n)
      BY <2>2, <3>1 DEF Reads
    <3>3. \A x \in Places(tokens, {"a", "1"}, 1, n) : x \in Int
      BY DEF Places
    <3>4. \A j \in 1..Len(s) : s[j] \in Int
      BY <2>3
    <3> QED
      BY <3>2, <3>3, <3>4
  <2> QED
    BY <2>3, <2>4, <2>5, <2>6
<1> QED
  BY <1>1, WriterInvHolds, PTL
=============================================================================
