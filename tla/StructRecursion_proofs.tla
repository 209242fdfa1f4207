----------------------- MODULE StructRecursion_proofs -----------------------
(***************************************************************************)
(* The search of check_recursive_structures ends for every finite table,   *)
(* finds recursive structs only, and finds them where no struct has two    *)
(* different structs in it (RecursionIsFound).                             *)
(***************************************************************************)
EXTENDS StructRecursion, FiniteSetTheorems, WellFoundedInduction, TLAPS

LEMMA SmallestNumber ==
    ASSUME NEW S \in SUBSET Nat, S # {}
    PROVE  \E i \in S : \A j \in S : i <= j
<1> DEFINE R == {p \in Nat \X Nat : p[1] < p[2]}
<1>1. OpToRel(<, Nat) = R
  BY DEF OpToRel
<1>2. IsWellFoundedOn(R, Nat)
  BY <1>1, NatLessThanWellFounded, Zenon
<1> HIDE DEF R
<1>3. PICK i \in S : \A j \in S : <<j, i>> \notin R
  BY <1>2, WFMin, Zenon
<1>4. \A j \in S : i <= j
  <2> TAKE j \in S
  <2>1. i \in Nat /\ j \in Nat /\ <<j, i>> \notin R
    BY <1>3
  <2> QED
    BY <2>1 DEF R
<1> QED
  BY <1>4

-----------------------------------------------------------------------------
(* The search as an equation *)

Table(t) ==
    /\ IsFiniteSet(DOMAIN t.type_table)
    /\ \A n \in DOMAIN t.type_table :
           /\ DOMAIN t.type_table[n].members \subseteq Nat
           /\ SubStructs(t, n) \subseteq DOMAIN t.type_table

HasSub(t, n) == ByValue(t.type_table[n].members) # {}

\* One turn of the search, with f for the rest of it.
Turn(t, f, seen, n) ==
    /\ HasSub(t, n)
    /\ \/ FirstSubStruct(t, n) \in seen
       \/ f[seen \cup {FirstSubStruct(t, n)}][FirstSubStruct(t, n)]

IsSearch(t, f) ==
    f = [seen \in SUBSET DOMAIN t.type_table |->
            [n \in DOMAIN t.type_table |-> Turn(t, f, seen, n)]]

\* What a struct has in it is what its first member has, if that is all.
LEMMA FirstIsSub ==
    ASSUME NEW t, Table(t), NEW n \in DOMAIN t.type_table, HasSub(t, n)
    PROVE  FirstSubStruct(t, n) \in SubStructs(t, n)
<1> DEFINE members == t.type_table[n].members
           S == ByValue(members)
<1>1. S \in SUBSET Nat /\ S # {}
  BY DEF Table, HasSub, ByValue
<1>2. \E i \in S : \A j \in S : i <= j
  BY <1>1, SmallestNumber
<1>3. PICK i \in S : FirstSubStruct(t, n) = members[i].name
  BY <1>2 DEF FirstSubStruct
<1> QED
  BY <1>3 DEF SubStructs, ByValue

LEMMA SubHasFirst ==
    ASSUME NEW t, NEW n, SubStructs(t, n) # {}
    PROVE  HasSub(t, n)
  BY DEF SubStructs, HasSub, ByValue

\* The search is monotone, so the least set of places that is closed under its
\* turns solves the equation.
Closed(t, P) ==
    \A seen \in SUBSET DOMAIN t.type_table, n \in DOMAIN t.type_table :
        /\ HasSub(t, n)
        /\ \/ FirstSubStruct(t, n) \in seen
           \/ <<seen \cup {FirstSubStruct(t, n)}, FirstSubStruct(t, n)>> \in P
        => <<seen, n>> \in P
Least(t) ==
    {x \in (SUBSET DOMAIN t.type_table) \X DOMAIN t.type_table :
        \A P \in SUBSET ((SUBSET DOMAIN t.type_table) \X DOMAIN t.type_table) :
            Closed(t, P) => x \in P}

LEMMA SearchExists ==
    ASSUME NEW t, Table(t)
    PROVE  \E f : IsSearch(t, f)
<1> DEFINE D == DOMAIN t.type_table
           L == Least(t)
           next(n) == FirstSubStruct(t, n)
           Step(P, seen, n) ==
               HasSub(t, n) /\ (next(n) \in seen \/ <<seen \cup {next(n)}, next(n)>> \in P)
           f == [seen \in SUBSET D |-> [n \in D |-> <<seen, n>> \in L]]
<1>1. \A n \in D : HasSub(t, n) => next(n) \in D
  BY FirstIsSub DEF Table
<1>2. Closed(t, L)
  <2> SUFFICES ASSUME NEW seen \in SUBSET D, NEW n \in D, Step(L, seen, n)
               PROVE  <<seen, n>> \in L
    BY DEF Closed
  <2> SUFFICES ASSUME NEW P \in SUBSET ((SUBSET D) \X D), Closed(t, P)
               PROVE  <<seen, n>> \in P
    BY DEF Least
  <2>1. Step(P, seen, n)
    BY DEF Least
  <2> QED
    BY <2>1 DEF Closed
<1>3. \A seen \in SUBSET D, n \in D : <<seen, n>> \in L => Step(L, seen, n)
  <2> SUFFICES ASSUME NEW seen \in SUBSET D, NEW n \in D, <<seen, n>> \in L,
                      ~Step(L, seen, n)
               PROVE  FALSE
    OBVIOUS
  <2> DEFINE P == L \ {<<seen, n>>}
  <2>1. P \in SUBSET ((SUBSET D) \X D)
    BY DEF Least
  <2>2. Closed(t, P)
    <3> SUFFICES ASSUME NEW s \in SUBSET D, NEW m \in D, Step(P, s, m)
                 PROVE  <<s, m>> \in P
      BY DEF Closed
    <3>1. Step(L, s, m)
      OBVIOUS
    <3>2. <<s, m>> \in L
      BY <1>2, <3>1 DEF Closed
    <3>3. <<s, m>> # <<seen, n>>
      BY <3>1
    <3> QED
      BY <3>2, <3>3
  <2> QED
    BY <2>1, <2>2 DEF Least
<1>4. \A seen \in SUBSET D, n \in D :
          /\ f[seen][n] = (<<seen, n>> \in L)
          /\ HasSub(t, n) =>
                 f[seen \cup {next(n)}][next(n)] = (<<seen \cup {next(n)}, next(n)>> \in L)
  BY <1>1
<1>5. \A seen \in SUBSET D, n \in D : f[seen][n] = Turn(t, f, seen, n)
  <2> TAKE seen \in SUBSET D, n \in D
  <2>1. Step(L, seen, n) <=> <<seen, n>> \in L
    BY <1>2, <1>3 DEF Closed
  <2>2. Step(L, seen, n) <=> Turn(t, f, seen, n)
    BY <1>4 DEF Turn
  <2>3. f[seen][n] = (<<seen, n>> \in L)
    BY <1>4
  <2>4. Turn(t, f, seen, n) = (<<seen, n>> \in L)
    <3> HIDE DEF Step, f, L
    <3>1. Turn(t, f, seen, n) <=> <<seen, n>> \in L
      BY <2>1, <2>2
    <3>2. Turn(t, f, seen, n) \in BOOLEAN
      BY Zenon DEF Turn
    <3> QED
      BY <3>1, <3>2
  <2> QED
    BY <2>3, <2>4
<1>6. f = [seen \in SUBSET D |-> [n \in D |-> f[seen][n]]]
  BY Zenon
<1> HIDE DEF f
<1>7. IsSearch(t, f)
  BY <1>5, <1>6, Zenon DEF IsSearch
<1> QED
  BY <1>7

LEMMA RecursesSearches ==
    ASSUME NEW t, Table(t), NEW name \in DOMAIN t.type_table
    PROVE  \E f : IsSearch(t, f) /\ Recurses(t, name) = f[{name}][name]
<1> DEFINE g == CHOOSE f : IsSearch(t, f)
<1>1. IsSearch(t, g)
  BY SearchExists
<1>2. Recurses(t, name) = g[{name}][name]
  BY DEF Recurses, IsSearch, Turn, HasSub
<1> QED
  BY <1>1, <1>2

-----------------------------------------------------------------------------
(* What it finds *)

\* Each of names has one of names in it.
Recursive(t, names) ==
    /\ names # {} /\ names \subseteq DOMAIN t.type_table
    /\ \A n \in names : SubStructs(t, n) \cap names # {}

\* The places of a search from which it goes on wrongly: counted by what is not
\* yet seen, one of them has the least.
LEMMA LeastLeft ==
    ASSUME NEW t, Table(t),
           NEW Bad \in SUBSET ((SUBSET DOMAIN t.type_table) \X DOMAIN t.type_table), Bad # {}
    PROVE  \E x \in Bad : \A y \in Bad : ~(x[1] \subseteq y[1] /\ x[1] # y[1])
<1> DEFINE D == DOMAIN t.type_table
           Left(x) == Cardinality(D \ x[1])
           Lefts == {Left(x) : x \in Bad}
<1>1. \A x \in Bad : IsFiniteSet(D \ x[1]) /\ Left(x) \in Nat
  BY FS_Difference, FS_CardinalityType DEF Table
<1>2. Lefts \in SUBSET Nat /\ Lefts # {}
  BY <1>1
<1>3. PICK k \in Lefts : \A j \in Lefts : k <= j
  BY <1>2, SmallestNumber
<1>4. PICK x \in Bad : k = Left(x)
  OBVIOUS
<1>5. SUFFICES ASSUME NEW y \in Bad, x[1] \subseteq y[1], x[1] # y[1]
               PROVE  FALSE
  BY <1>4
<1>6. x[1] \subseteq D /\ y[1] \subseteq D
  OBVIOUS
<1>7. D \ y[1] \subseteq D \ x[1] /\ D \ y[1] # D \ x[1]
  BY <1>5, <1>6
<1>8. Left(y) < Left(x)
  BY <1>1, <1>7, FS_Subset
<1>9. Left(x) <= Left(y)
  BY <1>3, <1>4
<1> QED
  BY <1>1, <1>8, <1>9

\* Each struct that was seen, but the last, has a struct in it that was seen.
OnTheWay(t, seen, n) ==
    n \in seen /\ \A m \in seen \ {n} : SubStructs(t, m) \cap seen # {}

LEMMA FoundIsRecursive ==
    ASSUME NEW t, Table(t), NEW f, IsSearch(t, f),
           NEW name \in DOMAIN t.type_table, f[{name}][name]
    PROVE  \E names : Recursive(t, names)
<1> DEFINE D == DOMAIN t.type_table
           Bad == {x \in (SUBSET D) \X D : f[x[1]][x[2]] /\ OnTheWay(t, x[1], x[2])}
<1>1. SUFFICES ASSUME \A names : ~Recursive(t, names) PROVE FALSE
  OBVIOUS
<1>2. <<{name}, name>> \in Bad
  BY DEF OnTheWay
<1>3. PICK x \in Bad : \A y \in Bad : ~(x[1] \subseteq y[1] /\ x[1] # y[1])
  <2>1. Bad \in SUBSET ((SUBSET D) \X D) /\ Bad # {}
    BY <1>2
  <2> HIDE DEF Bad
  <2> QED
    BY <2>1, LeastLeft
<1> DEFINE seen == x[1]
           n    == x[2]
           next == FirstSubStruct(t, n)
<1>4. seen \in SUBSET D /\ n \in D /\ f[seen][n] /\ OnTheWay(t, seen, n)
  OBVIOUS
<1>5. Turn(t, f, seen, n)
  BY <1>4 DEF IsSearch
<1>6. next \in SubStructs(t, n) /\ next \in D
  BY <1>4, <1>5, FirstIsSub DEF Turn, Table
<1>7. next \notin seen
  <2> SUFFICES ASSUME next \in seen PROVE Recursive(t, seen)
    BY <1>1
  <2> QED
    BY <1>4, <1>6 DEF Recursive, OnTheWay
<1>8. f[seen \cup {next}][next]
  BY <1>5, <1>7 DEF Turn
<1>9. OnTheWay(t, seen \cup {next}, next)
  BY <1>4, <1>6 DEF OnTheWay
<1>10. <<seen \cup {next}, next>> \in Bad
  BY <1>4, <1>6, <1>8, <1>9
<1> QED
  BY <1>3, <1>7, <1>10

\* No struct has two structs in it.
OneSubStruct(t) ==
    \A n \in DOMAIN t.type_table : \A a, b \in SubStructs(t, n) : a = b

LEMMA RecursiveIsFound ==
    ASSUME NEW t, Table(t), OneSubStruct(t), NEW f, IsSearch(t, f),
           NEW names, Recursive(t, names), NEW name \in names
    PROVE  f[{name}][name]
<1> DEFINE D == DOMAIN t.type_table
           Bad == {x \in (SUBSET D) \X D : x[2] \in names /\ ~f[x[1]][x[2]]}
<1>1. SUFFICES ASSUME ~f[{name}][name] PROVE FALSE
  OBVIOUS
<1>2. <<{name}, name>> \in Bad
  BY <1>1 DEF Recursive
<1>3. PICK x \in Bad : \A y \in Bad : ~(x[1] \subseteq y[1] /\ x[1] # y[1])
  <2>1. Bad \in SUBSET ((SUBSET D) \X D) /\ Bad # {}
    BY <1>2
  <2> HIDE DEF Bad
  <2> QED
    BY <2>1, LeastLeft
<1> DEFINE seen == x[1]
           n    == x[2]
           next == FirstSubStruct(t, n)
<1>4. seen \in SUBSET D /\ n \in names /\ n \in D /\ ~f[seen][n]
  BY DEF Recursive
<1>5. PICK s \in names : s \in SubStructs(t, n)
  BY <1>4 DEF Recursive
<1>6. HasSub(t, n)
  BY <1>5, SubHasFirst
<1>7. next = s /\ next \in D
  BY <1>4, <1>5, <1>6, FirstIsSub DEF OneSubStruct, Recursive
<1>8. ~Turn(t, f, seen, n)
  BY <1>4 DEF IsSearch
<1>9. next \notin seen /\ ~f[seen \cup {next}][next]
  BY <1>6, <1>8 DEF Turn
<1>10. <<seen \cup {next}, next>> \in Bad
  BY <1>4, <1>5, <1>7, <1>9
<1> QED
  BY <1>3, <1>9, <1>10

-----------------------------------------------------------------------------
(* The verdict *)

LEMMA CheckIsRight ==
    ASSUME NEW t, Table(t)
    PROVE  /\ check_recursive_structures(t) => \E names : Recursive(t, names)
           /\ OneSubStruct(t) /\ (\E names : Recursive(t, names))
                  => check_recursive_structures(t)
<1>1. ASSUME check_recursive_structures(t) PROVE \E names : Recursive(t, names)
  <2>1. PICK name \in DOMAIN t.type_table : Recurses(t, name)
    BY <1>1 DEF check_recursive_structures
  <2>2. PICK f : IsSearch(t, f) /\ Recurses(t, name) = f[{name}][name]
    BY RecursesSearches
  <2> QED
    BY <2>1, <2>2, FoundIsRecursive
<1>2. ASSUME OneSubStruct(t), NEW names, Recursive(t, names)
      PROVE  check_recursive_structures(t)
  <2>1. PICK name \in names : name \in DOMAIN t.type_table
    BY <1>2 DEF Recursive
  <2>2. PICK f : IsSearch(t, f) /\ Recurses(t, name) = f[{name}][name]
    BY <2>1, RecursesSearches
  <2> QED
    BY <1>2, <2>1, <2>2, RecursiveIsFound DEF check_recursive_structures
<1> QED
  BY <1>1, <1>2

LEMMA OneByCardinality ==
    ASSUME NEW t, Table(t),
           \A n \in DOMAIN t.type_table : Cardinality(SubStructs(t, n)) <= 1
    PROVE  OneSubStruct(t)
<1> SUFFICES ASSUME NEW n \in DOMAIN t.type_table,
                    NEW a \in SubStructs(t, n), NEW b \in SubStructs(t, n), a # b
             PROVE  FALSE
  BY DEF OneSubStruct
<1>1. IsFiniteSet(SubStructs(t, n))
  BY FS_Subset DEF Table
<1>2. /\ IsFiniteSet(SubStructs(t, n) \ {a})
      /\ Cardinality(SubStructs(t, n) \ {a}) = Cardinality(SubStructs(t, n)) - 1
  BY <1>1, FS_RemoveElement
<1>3. b \in SubStructs(t, n) \ {a}
  OBVIOUS
<1>4. Cardinality(SubStructs(t, n) \ {a}) # 0
  BY <1>2, <1>3, FS_EmptySet
<1>5. Cardinality(SubStructs(t, n)) \in Nat /\ Cardinality(SubStructs(t, n) \ {a}) \in Nat
  BY <1>1, <1>2, FS_CardinalityType
<1> QED
  BY <1>2, <1>4, <1>5

\* check_recursive_structures on the table that is left: a program that is
\* accepted, or reported for a recursion, is judged as RecursionIsFound says, for
\* any number of structs with any members, if its table is one that lookup_type
\* asserts it to be.
THEOREM RecursionIsFoundHolds == JudgeSpec /\ []StructsAreKnown => []RecursionIsFound
<1>1. ~Judged => RecursionIsFound
  BY DEF Judged, RecursionIsFound
<1>2. ASSUME RecursionIsFound, StructsAreKnown',
             [~Judged /\ (Judged' => Judge)]_<<status, tbl_>>
      PROVE  RecursionIsFound'
  <2>1. CASE UNCHANGED <<status, tbl_>>
    BY <1>2, <2>1 DEF RecursionIsFound, HasRecursiveStructs
  <2>2. CASE ~Judged'
    BY <2>2 DEF Judged, RecursionIsFound
  <2>3. CASE Judge /\ Judged'
    <3>1. Table(tbl_') /\ (HasRecursiveStructs' <=> \E names : Recursive(tbl_', names))
      BY <1>2, <2>3 DEF StructsAreKnown, Table, HasRecursiveStructs, Recursive
    <3>2. status' = "recursive" => check_recursive_structures(tbl_')
      BY <2>3 DEF Judge
    <3>3. status' = "accepted" => ~check_recursive_structures(tbl_')
      BY <2>3 DEF Judge
    <3>4. (\A n \in DOMAIN tbl_'.type_table : Cardinality(SubStructs(tbl_', n)) <= 1)
              => OneSubStruct(tbl_')
      BY <3>1, OneByCardinality
    <3> QED
      BY <3>1, <3>2, <3>3, <3>4, CheckIsRight DEF RecursionIsFound
  <2> QED
    BY <1>2, <2>1, <2>2, <2>3
<1> QED
  BY <1>1, <1>2, PTL DEF JudgeSpec
=============================================================================
