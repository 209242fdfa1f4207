------------------------- MODULE EntityTable_proofs -------------------------
(***************************************************************************)
(* Proofs about the operations of the entity table as GenericProcs uses    *)
(* it: what each of them changes, and that none of them leaves two symbols *)
(* with one key in a scope, or a symbol whose flags contradict each other. *)
(***************************************************************************)
EXTENDS GenericProcs, SequenceTheorems, FiniteSetTheorems,
        WellFoundedInduction, TLAPS

-----------------------------------------------------------------------------
(* The entity table *)

Symbols ==
    [name : Names, args : Seq(TypeExprs), namespace : Names, pos : Nat,
     kind : {"none", "var", "proc"}, placeholder : BOOLEAN, global : BOOLEAN,
     genbase : BOOLEAN, genperm : BOOLEAN, internal : BOOLEAN,
     generic_type_names : Seq(Words), text : Seq(TextItems), sym_ref : Nat]

IsTable(t) ==
    /\ t = [namespace_stack |-> t.namespace_stack, scope_stack |-> t.scope_stack,
            sym_table |-> t.sym_table, type_table |-> t.type_table,
            type_aliases |-> t.type_aliases]
    /\ t.namespace_stack \in Seq(Words)
    /\ t.scope_stack \in Seq(SUBSET Nat)
    /\ t.sym_table \in Seq(Symbols)
    /\ DOMAIN t.type_table \cup DOMAIN t.type_aliases \subseteq Names
    /\ \A n \in DOMAIN t.type_table : t.type_table[n] \in {"placeholder", "struct"}
    /\ \A n \in DOMAIN t.type_aliases : t.type_aliases[n] \in TypeExprs

Distinct(s) == \A i, j \in DOMAIN s : s[i] = s[j] => i = j

\* The flags of a symbol agree with each other: a placeholder has no kind, a
\* generic procedure type parameters, an instance arguments and a procedure.
SymbolOK(t, i) ==
    LET s == t.sym_table[i] IN
    /\ Head(s.name) = Root
    /\ Head(s.namespace) = Root /\ Distinct(Tail(s.namespace))
    /\ s.placeholder <=> s.kind = "none"
    /\ s.genbase <=> s.generic_type_names # <<>>
    /\ s.genbase => s.kind = "proc"
    /\ s.args = NoArgs => ~s.genperm /\ s.sym_ref = NoSymbol
    /\ s.args # NoArgs =>
           /\ s.kind = "proc" /\ ~s.genbase
           /\ i \in t.scope_stack[1]
           /\ s.sym_ref \in DOMAIN t.sym_table
           /\ t.sym_table[s.sym_ref].args = NoArgs
           /\ t.sym_table[s.sym_ref].name = s.name

\* The global scope has one symbol for a key, and so has that of a procedure,
\* in which only variables are.
ScopesOK(t) ==
    /\ Len(t.scope_stack) \in {1, 2}
    /\ \A k \in DOMAIN t.scope_stack :
           /\ t.scope_stack[k] \subseteq DOMAIN t.sym_table
           /\ \A i, j \in t.scope_stack[k] :
                  Keyed(t, i, t.sym_table[j].name, t.sym_table[j].args) => i = j
    /\ \A i \in DOMAIN t.sym_table :
           t.sym_table[i].placeholder => i \in t.scope_stack[1]
    /\ Len(t.scope_stack) = 2 =>
           \A i \in t.scope_stack[2] :
               t.sym_table[i].args = NoArgs /\ t.sym_table[i].kind = "var"

TableInv(t) ==
    /\ IsTable(t)
    /\ ScopesOK(t)
    /\ \A i \in DOMAIN t.sym_table : SymbolOK(t, i)


-----------------------------------------------------------------------------
(* Numbers and sequences *)

LEMMA SmallestOf ==
    ASSUME NEW S \in SUBSET Nat, S # {}
    PROVE  \E i \in S : \A j \in S : i <= j
<1> DEFINE R == {p \in Nat \X Nat : p[1] < p[2]}
<1>1. OpToRel(<, Nat) = R
  BY DEF OpToRel
<1>2. IsWellFoundedOn(R, Nat)
  BY <1>1, NatLessThanWellFounded, Zenon
<1> HIDE DEF R
<1>3. PICK i \in S : \A j \in S : <<j, i>> \notin R
  BY <1>2, WFMin, Zenon
<1>4. \A j \in S : i <= j
  <2> TAKE j \in S
  <2>1. i \in Nat /\ j \in Nat /\ <<j, i>> \notin R
    BY <1>3
  <2> QED
    BY <2>1 DEF R
<1> QED
  BY <1>4

LEMMA MinOf ==
    ASSUME NEW S \in SUBSET Nat, S # {}
    PROVE  Min(S) \in S /\ \A j \in S : Min(S) <= j
<1>1. PICK i \in S : \A j \in S : i <= j
  BY SmallestOf, Zenon
<1>2. Min(S) = CHOOSE x \in S : \A y \in S : x <= y
  BY Zenon DEF Min
<1> QED
  BY <1>1, <1>2, Zenon

LEMMA MaxOf ==
    ASSUME NEW n \in Nat, NEW S \in SUBSET (0..n), S # {}
    PROVE  Max(S) \in S /\ \A j \in S : j <= Max(S)
<1> DEFINE R == {n - i : i \in S}
<1>1. R \in SUBSET Nat /\ R # {}
  <2>1. \A i \in S : n - i \in Nat
    OBVIOUS
  <2> QED
    BY <2>1
<1>2. PICK r \in R : \A j \in R : r <= j
  BY <1>1, SmallestOf, Zenon
<1>3. PICK i \in S : r = n - i
  BY <1>2
<1>4. \A j \in S : i >= j
  <2> TAKE j \in S
  <2>1. n - i <= n - j /\ i \in 0..n /\ j \in 0..n
    BY <1>2, <1>3
  <2> QED
    BY <2>1
<1>5. Max(S) = CHOOSE x \in S : \A y \in S : x >= y
  BY Zenon DEF Max
<1>6. Max(S) \in S /\ \A y \in S : Max(S) >= y
  BY <1>4, <1>5, Zenon
<1> QED
  BY <1>6

LEMMA PowerOfTwo ==
    ASSUME NEW n \in Nat
    PROVE  2^n \in Nat \ {0}
<1>1. IsFiniteSet(1..n) /\ Cardinality(1..n) = n
  <2>1. n - 1 + 1 = n /\ (1 > n <=> n = 0)
    OBVIOUS
  <2> QED
    BY <2>1, FS_Interval
<1>2. IsFiniteSet(SUBSET (1..n)) /\ Cardinality(SUBSET (1..n)) = 2^n
  BY <1>1, FS_SUBSET
<1>3. SUBSET (1..n) # {}
  BY {} \in SUBSET (1..n)
<1> QED
  BY <1>2, <1>3, FS_CardinalityType, FS_EmptySet

\* What is at the end of a longer sequence, and what the front of one is.
LEMMA AppendLemma ==
    ASSUME NEW S, NEW s \in Seq(S), NEW e \in S
    PROVE  /\ Append(s, e) \in Seq(S)
           /\ Len(Append(s, e)) = Len(s) + 1
           /\ DOMAIN Append(s, e) = DOMAIN s \cup {Len(s) + 1}
           /\ Len(s) + 1 \notin DOMAIN s
           /\ Append(s, e)[Len(s) + 1] = e
           /\ \A i \in DOMAIN s : Append(s, e)[i] = s[i]
  OBVIOUS

LEMMA FrontLemma ==
    ASSUME NEW S, NEW s \in Seq(S), NEW n \in Nat, n <= Len(s)
    PROVE  /\ SubSeq(s, 1, n) \in Seq(S)
           /\ Len(SubSeq(s, 1, n)) = n
           /\ \A i \in 1..n : SubSeq(s, 1, n)[i] = s[i]
<1>1. \A i \in 1..n : s[i] \in S
  OBVIOUS
<1>2. /\ SubSeq(s, 1, n) \in Seq(S)
      /\ Len(SubSeq(s, 1, n)) = IF 1 <= n THEN n - 1 + 1 ELSE 0
      /\ \A i \in 1..(n - 1 + 1) : SubSeq(s, 1, n)[i] = s[1 + i - 1]
  BY <1>1, SubSeqProperties
<1>3. (IF 1 <= n THEN n - 1 + 1 ELSE 0) = n /\ n - 1 + 1 = n
  OBVIOUS
<1>4. \A i \in 1..n : 1 + i - 1 = i
  OBVIOUS
<1> QED
  BY <1>2, <1>3, <1>4, Zenon

-----------------------------------------------------------------------------
(* Operations that add no symbol *)

\* Only symbols and scopes matter to the invariant.
LEMMA SameSymbols ==
    ASSUME NEW t, NEW n, TableInv(t), IsTable(n),
           n.sym_table = t.sym_table, n.scope_stack = t.scope_stack
    PROVE  TableInv(n)
<1>1. ScopesOK(n)
  BY DEF TableInv, ScopesOK, Keyed
<1>2. \A i \in DOMAIN n.sym_table : SymbolOK(n, i)
  BY DEF TableInv, SymbolOK
<1> QED
  BY <1>1, <1>2 DEF TableInv

LEMMA PushScopeLemma ==
    ASSUME NEW t, TableInv(t), Len(t.scope_stack) = 1
    PROVE  LET n == push_scope(t) IN
           /\ TableInv(n)
           /\ n.sym_table = t.sym_table
           /\ n.namespace_stack = t.namespace_stack
           /\ n.type_aliases = t.type_aliases
           /\ n.type_table = t.type_table
           /\ Len(n.scope_stack) = 2
<1> DEFINE n == push_scope(t)
<1>1. IsTable(t) /\ t.scope_stack \in Seq(SUBSET Nat)
  BY DEF TableInv, IsTable
<1>2. n = [t EXCEPT !.scope_stack = Append(t.scope_stack, {})]
  BY DEF push_scope
<1>3. /\ Append(t.scope_stack, {}) \in Seq(SUBSET Nat)
      /\ Len(Append(t.scope_stack, {})) = 2
      /\ Append(t.scope_stack, {})[1] = t.scope_stack[1]
      /\ Append(t.scope_stack, {})[2] = {}
  BY <1>1, {} \in SUBSET Nat, AppendLemma
<1>4. /\ n.sym_table = t.sym_table
      /\ n.namespace_stack = t.namespace_stack
      /\ n.type_aliases = t.type_aliases
      /\ n.type_table = t.type_table
      /\ n.scope_stack = Append(t.scope_stack, {})
      /\ IsTable(n)
  BY <1>1, <1>2, <1>3 DEF IsTable
<1> HIDE DEF n
<1>5. ScopesOK(n)
  BY <1>3, <1>4 DEF TableInv, ScopesOK, Keyed
<1>6. \A i \in DOMAIN n.sym_table : SymbolOK(n, i)
  BY <1>3, <1>4 DEF TableInv, SymbolOK
<1> QED
  BY <1>3, <1>4, <1>5, <1>6 DEF TableInv, n

LEMMA PopScopeLemma ==
    ASSUME NEW t, TableInv(t), Len(t.scope_stack) = 2
    PROVE  LET n == pop_scope(t) IN
           /\ TableInv(n)
           /\ n.sym_table = t.sym_table
           /\ n.namespace_stack = t.namespace_stack
           /\ n.type_aliases = t.type_aliases
           /\ n.type_table = t.type_table
           /\ Len(n.scope_stack) = 1
<1> DEFINE n == pop_scope(t)
           front == SubSeq(t.scope_stack, 1, Len(t.scope_stack) - 1)
<1>1. IsTable(t) /\ t.scope_stack \in Seq(SUBSET Nat)
  BY DEF TableInv, IsTable
<1>2. n = [t EXCEPT !.scope_stack = front]
  BY DEF pop_scope
<1>3. front \in Seq(SUBSET Nat) /\ Len(front) = 1 /\ front[1] = t.scope_stack[1]
  <2>1. Len(t.scope_stack) - 1 = 1
    OBVIOUS
  <2> QED
    BY <1>1, <2>1, FrontLemma
<1> HIDE DEF front
<1>4. /\ n.sym_table = t.sym_table
      /\ n.namespace_stack = t.namespace_stack
      /\ n.type_aliases = t.type_aliases
      /\ n.type_table = t.type_table
      /\ n.scope_stack = front
      /\ IsTable(n)
  BY <1>1, <1>2, <1>3 DEF IsTable
<1> HIDE DEF n
<1>5. ScopesOK(n)
  BY <1>3, <1>4 DEF TableInv, ScopesOK, Keyed
<1>6. \A i \in DOMAIN n.sym_table : SymbolOK(n, i)
  BY <1>3, <1>4 DEF TableInv, SymbolOK
<1> QED
  BY <1>3, <1>4, <1>5, <1>6 DEF TableInv, n

-----------------------------------------------------------------------------
(* A new symbol *)

LEMMA AddSymbolLemma ==
    ASSUME NEW t, IsTable(t), NEW sym \in Symbols, NEW scope \in DOMAIN t.scope_stack
    PROVE  LET n == AddSymbol(t, sym, scope) IN
           /\ IsTable(n)
           /\ n.namespace_stack = t.namespace_stack
           /\ n.type_aliases = t.type_aliases
           /\ n.type_table = t.type_table
           /\ NewIndex(t) \in Nat \ {0}
           /\ DOMAIN n.sym_table = DOMAIN t.sym_table \cup {NewIndex(t)}
           /\ NewIndex(t) \notin DOMAIN t.sym_table
           /\ n.sym_table[NewIndex(t)] = sym
           /\ \A i \in DOMAIN t.sym_table : n.sym_table[i] = t.sym_table[i]
           /\ Len(n.scope_stack) = Len(t.scope_stack)
           /\ DOMAIN n.scope_stack = DOMAIN t.scope_stack
           /\ n.scope_stack[scope] = t.scope_stack[scope] \cup {NewIndex(t)}
           /\ \A k \in DOMAIN t.scope_stack :
                  k # scope => n.scope_stack[k] = t.scope_stack[k]
<1> DEFINE n == AddSymbol(t, sym, scope)
           ss == [t.scope_stack EXCEPT ![scope] = @ \cup {NewIndex(t)}]
           st == Append(t.sym_table, sym)
<1>1. /\ t.scope_stack \in Seq(SUBSET Nat)
      /\ t.sym_table \in Seq(Symbols)
  BY DEF IsTable
<1>2. NewIndex(t) \in Nat \ {0}
  BY <1>1 DEF NewIndex
<1>3. n = [t EXCEPT !.sym_table = st, !.scope_stack = ss]
  BY DEF AddSymbol, IsTable
<1>4. /\ st \in Seq(Symbols)
      /\ DOMAIN st = DOMAIN t.sym_table \cup {NewIndex(t)}
      /\ NewIndex(t) \notin DOMAIN t.sym_table
      /\ st[NewIndex(t)] = sym
      /\ \A i \in DOMAIN t.sym_table : st[i] = t.sym_table[i]
  BY <1>1, AppendLemma DEF NewIndex
<1>5. /\ ss \in Seq(SUBSET Nat)
      /\ Len(ss) = Len(t.scope_stack)
      /\ DOMAIN ss = DOMAIN t.scope_stack
      /\ ss[scope] = t.scope_stack[scope] \cup {NewIndex(t)}
      /\ \A k \in DOMAIN t.scope_stack : k # scope => ss[k] = t.scope_stack[k]
  BY <1>1, <1>2
<1> HIDE DEF ss, st
<1>6. /\ n.sym_table = st
      /\ n.scope_stack = ss
      /\ n.namespace_stack = t.namespace_stack
      /\ n.type_aliases = t.type_aliases
      /\ n.type_table = t.type_table
      /\ IsTable(n)
  BY <1>3, <1>4, <1>5 DEF IsTable
<1> QED
  BY <1>2, <1>4, <1>5, <1>6

\* What a symbol has to be for a table to take it.
Fits(t, sym, scope) ==
    /\ sym \in Symbols
    /\ scope \in DOMAIN t.scope_stack
    /\ \A i \in t.scope_stack[scope] : ~Keyed(t, i, sym.name, sym.args)
    /\ Head(sym.name) = Root
    /\ Head(sym.namespace) = Root /\ Distinct(Tail(sym.namespace))
    /\ sym.placeholder <=> sym.kind = "none"
    /\ ~sym.genbase /\ sym.generic_type_names = <<>>
    /\ sym.placeholder => scope = 1
    /\ scope = 2 => sym.args = NoArgs /\ sym.kind = "var"
    /\ sym.args = NoArgs => ~sym.genperm /\ sym.sym_ref = NoSymbol
    /\ sym.args # NoArgs =>
           /\ sym.kind = "proc"
           /\ scope = 1
           /\ sym.sym_ref \in DOMAIN t.sym_table
           /\ t.sym_table[sym.sym_ref].args = NoArgs
           /\ t.sym_table[sym.sym_ref].name = sym.name

LEMMA AddKeepsInv ==
    ASSUME NEW t, TableInv(t), NEW sym, NEW scope, Fits(t, sym, scope)
    PROVE  TableInv(AddSymbol(t, sym, scope))
<1> DEFINE n == AddSymbol(t, sym, scope)
           new == NewIndex(t)
<1>0. sym \in Symbols /\ scope \in DOMAIN t.scope_stack /\ IsTable(t)
  BY DEF Fits, TableInv
<1>1. /\ IsTable(n)
      /\ new \in Nat \ {0}
      /\ DOMAIN n.sym_table = DOMAIN t.sym_table \cup {new}
      /\ new \notin DOMAIN t.sym_table
      /\ n.sym_table[new] = sym
      /\ \A i \in DOMAIN t.sym_table : n.sym_table[i] = t.sym_table[i]
      /\ Len(n.scope_stack) = Len(t.scope_stack)
      /\ DOMAIN n.scope_stack = DOMAIN t.scope_stack
      /\ n.scope_stack[scope] = t.scope_stack[scope] \cup {new}
      /\ \A k \in DOMAIN t.scope_stack :
             k # scope => n.scope_stack[k] = t.scope_stack[k]
  BY <1>0, AddSymbolLemma
<1> HIDE DEF n, new
<1>2. /\ Len(t.scope_stack) \in {1, 2}
      /\ 1 \in DOMAIN t.scope_stack
      /\ \A k \in DOMAIN t.scope_stack : t.scope_stack[k] \subseteq DOMAIN t.sym_table
      /\ t.scope_stack[1] \subseteq n.scope_stack[1]
      /\ Len(t.scope_stack) = 1 => scope = 1
      /\ Len(t.scope_stack) = 2 => 2 \in DOMAIN t.scope_stack
  <2>1. /\ t.scope_stack \in Seq(SUBSET Nat)
        /\ Len(t.scope_stack) \in {1, 2}
        /\ \A k \in DOMAIN t.scope_stack :
               t.scope_stack[k] \subseteq DOMAIN t.sym_table
    BY <1>0 DEF TableInv, ScopesOK, IsTable
  <2>2. DOMAIN t.scope_stack = 1..Len(t.scope_stack)
    BY <2>1
  <2> HIDE DEF n
  <2>3. scope \in DOMAIN t.scope_stack
    BY <1>0
  <2>4. t.scope_stack[1] \subseteq n.scope_stack[1]
    BY <1>1, <2>1, <2>2
  <2> QED
    BY <2>1, <2>2, <2>3, <2>4
<1>3. ASSUME NEW k \in DOMAIN n.scope_stack
      PROVE  /\ n.scope_stack[k] \subseteq DOMAIN n.sym_table
             /\ \A i, j \in n.scope_stack[k] :
                    Keyed(n, i, n.sym_table[j].name, n.sym_table[j].args) => i = j
  <2>0. k \in DOMAIN t.scope_stack /\ t.scope_stack[k] \subseteq DOMAIN t.sym_table
    BY <1>1, <1>2
  <2>1. \A i, j \in t.scope_stack[k] :
            Keyed(t, i, t.sym_table[j].name, t.sym_table[j].args) => i = j
    BY <2>0 DEF TableInv, ScopesOK
  <2>2. \A i \in t.scope_stack[k] : n.sym_table[i] = t.sym_table[i]
    BY <2>0, <1>1
  <2>3. CASE k # scope
    <3>1. n.scope_stack[k] = t.scope_stack[k]
      BY <1>1, <2>3, <2>0
    <3> QED
      BY <3>1, <2>0, <2>1, <2>2, <1>1 DEF Keyed
  <2>4. CASE k = scope
    <3>1. n.scope_stack[k] = t.scope_stack[k] \cup {new}
      BY <1>1, <2>4
    <3>2. \A i \in t.scope_stack[k] : ~Keyed(t, i, sym.name, sym.args)
      BY <2>4 DEF Fits
    <3> QED
      BY <3>1, <3>2, <2>0, <2>1, <2>2, <1>1 DEF Keyed
  <2> QED
    BY <2>3, <2>4
<1>4. \A i \in DOMAIN n.sym_table : n.sym_table[i].placeholder => i \in n.scope_stack[1]
  <2> SUFFICES ASSUME NEW i \in DOMAIN n.sym_table, n.sym_table[i].placeholder
               PROVE  i \in n.scope_stack[1]
    OBVIOUS
  <2>1. CASE i = new
    BY <2>1, <1>1 DEF Fits
  <2>2. CASE i \in DOMAIN t.sym_table
    BY <2>2, <1>1, <1>2 DEF TableInv, ScopesOK
  <2> QED
    BY <1>1, <2>1, <2>2
<1>5. Len(n.scope_stack) = 2 =>
          \A i \in n.scope_stack[2] :
              n.sym_table[i].args = NoArgs /\ n.sym_table[i].kind = "var"
  <2> SUFFICES ASSUME Len(n.scope_stack) = 2, NEW i \in n.scope_stack[2]
               PROVE  n.sym_table[i].args = NoArgs /\ n.sym_table[i].kind = "var"
    OBVIOUS
  <2>1. CASE i = new /\ scope = 2
    BY <2>1, <1>1 DEF Fits
  <2>2. CASE i \in t.scope_stack[2]
    BY <2>2, <1>1, <1>2 DEF TableInv, ScopesOK
  <2> QED
    BY <1>1, <1>2, <2>1, <2>2
<1>6. ScopesOK(n)
  BY <1>1, <1>2, <1>3, <1>4, <1>5 DEF ScopesOK
<1>7. ASSUME NEW i \in DOMAIN n.sym_table
      PROVE  SymbolOK(n, i)
  <2>1. CASE i = new
    BY <2>1, <1>1, <1>2 DEF Fits, SymbolOK
  <2>2. CASE i \in DOMAIN t.sym_table
    <3>1. SymbolOK(t, i) /\ n.sym_table[i] = t.sym_table[i]
      BY <2>2, <1>1 DEF TableInv
    <3> QED
      BY <3>1, <2>2, <1>1, <1>2 DEF SymbolOK
  <2> QED
    BY <1>1, <2>1, <2>2
<1> QED
  BY <1>1, <1>6, <1>7 DEF TableInv, n

-----------------------------------------------------------------------------
(* Another value for a symbol *)

FitsAt(t, i, sym) ==
    LET old == t.sym_table[i] IN
    /\ i \in DOMAIN t.sym_table
    /\ sym \in Symbols
    /\ sym.name = old.name /\ sym.args = old.args
    /\ Head(sym.namespace) = Root /\ Distinct(Tail(sym.namespace))
    /\ sym.placeholder <=> sym.kind = "none"
    /\ sym.placeholder => old.placeholder
    /\ sym.genbase <=> sym.generic_type_names # <<>>
    /\ sym.genbase => sym.kind = "proc"
    /\ Len(t.scope_stack) = 2 /\ i \in t.scope_stack[2] => sym.kind = "var"
    /\ sym.args = NoArgs => ~sym.genperm /\ sym.sym_ref = NoSymbol
    /\ sym.args # NoArgs =>
           /\ sym.kind = "proc" /\ ~sym.genbase
           /\ sym.sym_ref = old.sym_ref

Updated(t, i, sym) == [t EXCEPT !.sym_table[i] = sym]

LEMMA UpdateLemma ==
    ASSUME NEW t, TableInv(t), NEW i, NEW sym, FitsAt(t, i, sym)
    PROVE  LET n == Updated(t, i, sym) IN
           /\ TableInv(n)
           /\ n.namespace_stack = t.namespace_stack
           /\ n.scope_stack = t.scope_stack
           /\ n.type_table = t.type_table
           /\ n.type_aliases = t.type_aliases
           /\ DOMAIN n.sym_table = DOMAIN t.sym_table
           /\ n.sym_table[i] = sym
           /\ \A j \in DOMAIN t.sym_table : j # i => n.sym_table[j] = t.sym_table[j]
<1> DEFINE n == Updated(t, i, sym)
           st == [t.sym_table EXCEPT ![i] = sym]
<1>1. i \in DOMAIN t.sym_table /\ sym \in Symbols /\ IsTable(t)
  BY DEF FitsAt, TableInv
<1>2. n = [t EXCEPT !.sym_table = st]
  BY <1>1 DEF Updated, IsTable
<1>3. /\ st \in Seq(Symbols)
      /\ DOMAIN st = DOMAIN t.sym_table
      /\ st[i] = sym
      /\ \A j \in DOMAIN t.sym_table : j # i => st[j] = t.sym_table[j]
  <2>1. t.sym_table \in Seq(Symbols)
    BY <1>1 DEF IsTable
  <2> QED
    BY <1>1, <2>1
<1> HIDE DEF st
<1>4. /\ n.sym_table = st
      /\ n.namespace_stack = t.namespace_stack
      /\ n.scope_stack = t.scope_stack
      /\ n.type_table = t.type_table
      /\ n.type_aliases = t.type_aliases
      /\ IsTable(n)
  BY <1>1, <1>2, <1>3 DEF IsTable
<1> HIDE DEF n
<1>5. \A j \in DOMAIN t.sym_table :
          /\ n.sym_table[j].name = t.sym_table[j].name
          /\ n.sym_table[j].args = t.sym_table[j].args
          /\ n.sym_table[j].placeholder => t.sym_table[j].placeholder
  BY <1>3, <1>4 DEF FitsAt
<1>6. Len(n.scope_stack) = 2 => \A j \in n.scope_stack[2] :
          n.sym_table[j].args = NoArgs /\ n.sym_table[j].kind = "var"
  <2> SUFFICES ASSUME Len(t.scope_stack) = 2, NEW j \in t.scope_stack[2]
               PROVE  n.sym_table[j].args = NoArgs /\ n.sym_table[j].kind = "var"
    BY <1>4
  <2>1. t.sym_table[j].args = NoArgs /\ t.sym_table[j].kind = "var"
    BY DEF TableInv, ScopesOK
  <2>2. j \in DOMAIN t.sym_table
    <3>1. t.scope_stack \in Seq(SUBSET Nat)
      BY <1>1 DEF IsTable
    <3>2. 2 \in DOMAIN t.scope_stack
      BY <3>1
    <3> QED
      BY <3>2 DEF TableInv, ScopesOK
  <2>3. CASE j = i
    BY <2>1, <2>3, <1>3, <1>4 DEF FitsAt
  <2>4. CASE j # i
    BY <2>1, <2>2, <2>4, <1>3, <1>4
  <2> QED
    BY <2>3, <2>4
<1>7. ScopesOK(n)
  <2>1. ASSUME NEW k \in DOMAIN n.scope_stack
        PROVE  /\ n.scope_stack[k] \subseteq DOMAIN n.sym_table
               /\ \A a, b \in n.scope_stack[k] :
                      Keyed(n, a, n.sym_table[b].name, n.sym_table[b].args) => a = b
    <3>1. /\ t.scope_stack[k] \subseteq DOMAIN t.sym_table
          /\ \A a, b \in t.scope_stack[k] :
                 Keyed(t, a, t.sym_table[b].name, t.sym_table[b].args) => a = b
      BY <1>4 DEF TableInv, ScopesOK
    <3> QED
      BY <3>1, <1>3, <1>4, <1>5 DEF Keyed
  <2>2. \A j \in DOMAIN n.sym_table : n.sym_table[j].placeholder => j \in n.scope_stack[1]
    BY <1>3, <1>4, <1>5 DEF TableInv, ScopesOK
  <2>3. Len(n.scope_stack) \in {1, 2}
    BY <1>4 DEF TableInv, ScopesOK
  <2> QED
    BY <1>6, <2>1, <2>2, <2>3 DEF ScopesOK
<1>8. ASSUME NEW j \in DOMAIN n.sym_table
      PROVE  SymbolOK(n, j)
  <2>1. SymbolOK(t, j)
    BY <1>3, <1>4 DEF TableInv
  <2>2. CASE j = i
    BY <2>1, <2>2, <1>3, <1>4, <1>5 DEF SymbolOK, FitsAt
  <2>3. CASE j # i
    <3>1. n.sym_table[j] = t.sym_table[j]
      BY <2>3, <1>3, <1>4
    <3> QED
      BY <2>1, <3>1, <1>3, <1>4, <1>5 DEF SymbolOK
  <2> QED
    BY <2>2, <2>3
<1> QED
  BY <1>1, <1>3, <1>4, <1>7, <1>8 DEF TableInv, n

-----------------------------------------------------------------------------
(* Names *)

\* The innermost scope with the key has the symbol.
LEMMA LookupLemma ==
    ASSUME NEW t, TableInv(t), NEW name, NEW args,
           scoped_symbol_exists(t, name, args)
    PROVE  LET i == lookup_scoped_symbol(t, name, args) IN
           /\ i \in DOMAIN t.sym_table
           /\ Keyed(t, i, name, args)
           /\ Len(t.scope_stack) \in ScopesWith(t, name, args) =>
                  i \in t.scope_stack[Len(t.scope_stack)]
<1> DEFINE S == ScopesWith(t, name, args)
           i == lookup_scoped_symbol(t, name, args)
           k == Max(S)
<1>1. /\ t.scope_stack \in Seq(SUBSET Nat)
      /\ \A m \in DOMAIN t.scope_stack : t.scope_stack[m] \subseteq DOMAIN t.sym_table
      /\ Len(t.scope_stack) \in {1, 2}
  BY DEF TableInv, IsTable, ScopesOK
<1>2. S \subseteq DOMAIN t.scope_stack /\ DOMAIN t.scope_stack = 1..Len(t.scope_stack)
  BY <1>1 DEF ScopesWith
<1>3. S # {}
  BY DEF scoped_symbol_exists
<1>4. k \in S /\ \A j \in S : j <= k
  <2>1. S \in SUBSET (0..2)
    BY <1>1, <1>2
  <2> HIDE DEF S
  <2> QED
    BY <2>1, <1>3, MaxOf
<1>5. \E j \in t.scope_stack[k] : Keyed(t, j, name, args)
  BY <1>4 DEF ScopesWith
<1>6. i = CHOOSE j \in t.scope_stack[k] : Keyed(t, j, name, args)
  BY DEF lookup_scoped_symbol
<1> HIDE DEF i, k
<1>7. i \in t.scope_stack[k] /\ Keyed(t, i, name, args)
  BY <1>5, <1>6, Zenon
<1>8. i \in DOMAIN t.sym_table
  BY <1>1, <1>2, <1>4, <1>7
<1>9. Len(t.scope_stack) \in S => k = Len(t.scope_stack)
  <2> HIDE DEF S
  <2> QED
    BY <1>1, <1>2, <1>4
<1> QED
  BY <1>7, <1>8, <1>9 DEF i

\* The canonical name of a relative name is absolute.
LEMMA CanonicalNameLemma ==
    ASSUME NEW t, t.namespace_stack \in Seq(Words), NEW name \in Names, NEW existing
    PROVE  /\ get_canonical_name(t, name, existing) \in Names
           /\ Head(get_canonical_name(t, name, existing)) = Root
<1> DEFINE stack == t.namespace_stack
           S == {i - 1 : i \in {j \in DOMAIN stack : stack[j] = Head(name)}}
                    \cup {Len(stack)}
           depths == 0..SearchDepth(t, name)
           found == {d \in depths : Candidate(t, name, d) \in existing}
           depth == IF found = {} THEN Max(depths) ELSE Max(found)
<1>1. CASE Head(name) = Root
  BY <1>1 DEF get_canonical_name
<1>2. CASE Head(name) # Root
  <2>1. S \in SUBSET (0..Len(stack)) /\ S \in SUBSET Nat /\ S # {}
    OBVIOUS
  <2>2. SearchDepth(t, name) = Min(S)
    BY DEF SearchDepth
  <2>3. SearchDepth(t, name) \in 0..Len(stack)
    <3> HIDE DEF S
    <3> QED
      BY <2>1, <2>2, MinOf
  <2>4. depths \subseteq 0..Len(stack) /\ depths # {} /\ SearchDepth(t, name) \in Nat
        /\ found \subseteq depths
    BY <2>3
  <2> HIDE DEF depths, found
  <2>5. depth \in depths
    <3>1. depths \in SUBSET (0..Len(stack)) /\ found \in SUBSET (0..Len(stack))
          /\ Len(stack) \in Nat
      BY <2>4
    <3>2. CASE found = {}
      BY <3>1, <3>2, <2>4, MaxOf
    <3>3. CASE found # {}
      BY <3>1, <3>3, <2>4, MaxOf
    <3> QED
      BY <3>2, <3>3
  <2>6. depth \in 0..Len(stack)
    BY <2>4, <2>5
  <2>7. get_canonical_name(t, name, existing) = Candidate(t, name, depth)
    BY <1>2 DEF get_canonical_name, depths, found
  <2> HIDE DEF depth
  <2>8. SubSeq(stack, 1, depth) \in Seq(Words)
    BY <2>6, FrontLemma
  <2>9. Candidate(t, name, depth) = <<Root>> \o SubSeq(stack, 1, depth) \o name
    BY DEF Candidate
  <2>10. <<Root>> \in Seq(Words) /\ name \in Seq(Words)
    <3>1. Root \in Words
      BY DEF Words
    <3>2. <<Root>> \in Seq(Words)
      BY <3>1
    <3> QED
      BY <3>2 DEF Names
  <2>11. \A a, b \in Seq(Words) : /\ <<Root>> \o a \o b \in Names
                                   /\ Head(<<Root>> \o a \o b) = Root
    BY <2>10 DEF Names
  <2> QED
    BY <2>7, <2>8, <2>9, <2>10, <2>11
<1> QED
  BY <1>1, <1>2

\* A name that no symbol in sight has becomes that of a new symbol.
LEMMA CanonicalSymbolLemma ==
    ASSUME NEW t, IsTable(t), NEW name \in Names
    PROVE  LET c == get_canonical_sym_name(t, name) IN
           /\ c \in Names
           /\ scoped_symbol_exists(t, c, NoArgs) \/ Head(c) = Root
<1>1. t.namespace_stack \in Seq(Words)
  BY DEF IsTable
<1> QED
  BY <1>1, CanonicalNameLemma DEF get_canonical_sym_name

-----------------------------------------------------------------------------
(* Types *)

\* A table in which only types are new.
MoreTypes(t, n) ==
    /\ IsTable(n)
    /\ n.namespace_stack = t.namespace_stack
    /\ n.scope_stack = t.scope_stack
    /\ n.sym_table = t.sym_table
    /\ n.type_aliases = t.type_aliases

LEMMA TypeTableLemma ==
    ASSUME NEW t, IsTable(t), NEW e \in TypeExprs
    PROVE  MoreTypes(t, TypeTable(t, e)) /\ TypeValue(t, e) \in TypeExprs
<1> DEFINE c == TypeCanonical(t, e)
           of == IF type_alias_exists(t, c) THEN t.type_aliases[c]
                 ELSE [name |-> c, ptr |-> 0]
<1>1. t.namespace_stack \in Seq(Words) /\ e.name \in Names /\ e.ptr \in Nat
  BY DEF IsTable, TypeExprs
<1>2. c \in Names
  <2>1. I32 \in Names
    <3>1. "i32" \in Words
      BY DEF Words
    <3>2. <<"i32">> \in Seq(Words)
      BY <3>1
    <3> QED
      BY <3>2 DEF I32, Names
  <2>2. get_canonical_type_name(t, e.name) \in Names
    BY <1>1, CanonicalNameLemma DEF get_canonical_type_name
  <2> QED
    BY <2>1, <2>2 DEF TypeCanonical
<1>3. of \in TypeExprs
  BY <1>2 DEF type_alias_exists, IsTable, TypeExprs
<1>4. TypeValue(t, e) = [of EXCEPT !.ptr = (of.ptr + e.ptr) % 2^PointerBits]
  BY <1>3 DEF TypeValue, TypeExprs
<1>5. TypeTable(t, e) = t \/ TypeTable(t, e) = create_placeholder_type(t, c)
  BY DEF TypeTable
<1> HIDE DEF c, of
<1>6. TypeValue(t, e) \in TypeExprs
  <2>1. 2^PointerBits \in Nat \ {0}
    BY PowerOfTwo, PointerAssumption
  <2>2. of.ptr \in Nat
    BY <1>3 DEF TypeExprs
  <2>3. \A m \in Nat \ {0} : (of.ptr + e.ptr) % m \in Nat
    BY <2>2, <1>1
  <2> QED
    BY <1>3, <1>4, <2>1, <2>3 DEF TypeExprs
<1>7. MoreTypes(t, create_placeholder_type(t, c))
  <2>1. DOMAIN Bind(t.type_table, c, "placeholder") = DOMAIN t.type_table \cup {c}
        /\ \A k \in DOMAIN t.type_table \cup {c} :
               Bind(t.type_table, c, "placeholder")[k] \in {"placeholder", "struct"}
    BY DEF IsTable, Bind
  <2>2. create_placeholder_type(t, c) =
            [t EXCEPT !.type_table = Bind(t.type_table, c, "placeholder")]
    BY DEF create_placeholder_type
  <2> QED
    BY <2>1, <2>2, <1>2 DEF IsTable, MoreTypes
<1>8. MoreTypes(t, t)
  BY DEF MoreTypes
<1> QED
  BY <1>5, <1>6, <1>7, <1>8

\* TablesAfter is defined by recursion: here is the function it chooses.
LEMMA TablesAfterUnfolds ==
    ASSUME NEW t, NEW args, Len(args) \in Nat
    PROVE  LET after == TablesAfter(t, args) IN
           after = [k \in 0..Len(args) |-> IF k = 0 THEN t
                                           ELSE TypeTable(after[k - 1], args[k])]
<1> DEFINE IsAfter(f, m) ==
               f = [k \in 0..m |-> IF k = 0 THEN t
                                   ELSE TypeTable(f[k - 1], args[k])]
           Missing == {m \in Nat : \A f : ~IsAfter(f, m)}
<1>1. SUFFICES ASSUME \A f : ~IsAfter(f, Len(args)) PROVE FALSE
  <2>1. TablesAfter(t, args) = CHOOSE f : IsAfter(f, Len(args))
    BY DEF TablesAfter
  <2>2. SUFFICES IsAfter(TablesAfter(t, args), Len(args))
    OBVIOUS
  <2> HIDE DEF IsAfter
  <2> QED
    BY <2>1, Zenon
<1>2. Missing # {}
  BY <1>1
<1>3. PICK m \in Missing : \A j \in Missing : m <= j
  BY <1>2, SmallestOf
<1>4. m # 0
  <2>1. IsAfter([k \in 0..0 |-> t], 0)
    OBVIOUS
  <2> QED
    BY <2>1
<1>5. m \in Nat /\ m - 1 \in Nat /\ m - 1 \notin Missing
  <2>1. m \in Nat
    BY <1>3
  <2> HIDE DEF Missing
  <2> QED
    BY <2>1, <1>3, <1>4
<1>6. PICK g : IsAfter(g, m - 1)
  BY <1>5
<1> DEFINE h == [k \in 0..m |-> IF k = m THEN TypeTable(g[m - 1], args[m])
                                ELSE g[k]]
<1>7. \A k \in 0..m : h[k] = IF k = 0 THEN t ELSE TypeTable(h[k - 1], args[k])
  <2> TAKE k \in 0..m
  <2>1. CASE k = m
    BY <2>1, <1>4, <1>5
  <2>2. CASE k # m
    <3>1. k \in 0..(m - 1) /\ h[k] = g[k]
      BY <2>2, <1>5
    <3>2. g[k] = IF k = 0 THEN t ELSE TypeTable(g[k - 1], args[k])
      BY <3>1, <1>6
    <3>3. k # 0 => h[k - 1] = g[k - 1]
      BY <3>1, <1>5
    <3> QED
      BY <3>1, <3>2, <3>3
  <2> QED
    BY <2>1, <2>2
<1>8. IsAfter(h, m)
  <2>1. h = [k \in 0..m |-> h[k]]
    OBVIOUS
  <2> HIDE DEF h
  <2> QED
    BY <2>1, <1>7
<1> HIDE DEF IsAfter, h
<1> QED
  BY <1>3, <1>8

LEMMA TablesAfterLemma ==
    ASSUME NEW t, IsTable(t), NEW args \in Seq(TypeExprs), NEW i \in 0..Len(args)
    PROVE  MoreTypes(t, TablesAfter(t, args)[i])
<1> DEFINE n == Len(args)
           after == TablesAfter(t, args)
           Bad == {k \in 0..n : ~MoreTypes(t, after[k])}
<1>1. after = [k \in 0..n |-> IF k = 0 THEN t ELSE TypeTable(after[k - 1], args[k])]
  <2>1. Len(args) \in Nat
    OBVIOUS
  <2> QED
    BY <2>1, TablesAfterUnfolds
<1> HIDE DEF after
<1>2. SUFFICES ASSUME Bad # {} PROVE FALSE
  <2>1. MoreTypes(t, after[i]) <=> i \notin Bad
    OBVIOUS
  <2>2. i \notin Bad => MoreTypes(t, TablesAfter(t, args)[i])
    BY <2>1 DEF after
  <2> HIDE DEF Bad
  <2> QED
    BY <2>2
<1>3. PICK k \in Bad : \A j \in Bad : k <= j
  <2>1. Bad \in SUBSET Nat
    OBVIOUS
  <2> QED
    BY <1>2, <2>1, SmallestOf
<1>4. k # 0
  <2>1. MoreTypes(t, t)
    BY DEF MoreTypes
  <2>2. 0 \in 0..n /\ after[0] = t
    BY <1>1
  <2> QED
    BY <2>1, <2>2, <1>3
<1>5. k - 1 \in 0..n /\ k \in 1..n /\ k - 1 \notin Bad
  BY <1>3, <1>4
<1>6. MoreTypes(t, after[k - 1])
  BY <1>5
<1>7. after[k] = TypeTable(after[k - 1], args[k])
  BY <1>1, <1>3, <1>4
<1>8. MoreTypes(after[k - 1], after[k])
  <2>1. args[k] \in TypeExprs /\ IsTable(after[k - 1])
    BY <1>5, <1>6 DEF MoreTypes
  <2> QED
    BY <2>1, <1>7, TypeTableLemma
<1>9. MoreTypes(t, after[k])
  BY <1>6, <1>8 DEF MoreTypes
<1> QED
  BY <1>3, <1>9

\* Parsing type arguments makes placeholder types at most.
LEMMA ParseTypesLemma ==
    ASSUME NEW t, IsTable(t), NEW args \in Seq(TypeExprs)
    PROVE  LET p == parse_types(t, args) IN
           /\ MoreTypes(t, p.tbl)
           /\ p.types \in Seq(TypeExprs)
           /\ Len(p.types) = Len(args)
           /\ p.types = NoArgs <=> args = NoArgs
<1> DEFINE after == TablesAfter(t, args)
           n == Len(args)
           p == parse_types(t, args)
           types == [j \in 1..n |-> TypeValue(after[j - 1], args[j])]
           final == [t EXCEPT !.type_table = after[n].type_table]
<1>1. p = [tbl |-> final, types |-> types]
  BY DEF parse_types
<1>2. n \in Nat /\ \A i \in 0..n : MoreTypes(t, after[i])
  BY TablesAfterLemma
<1> HIDE DEF after
<1>3. MoreTypes(t, final)
  <2>1. MoreTypes(t, after[n])
    BY <1>2
  <2> QED
    BY <2>1 DEF MoreTypes, IsTable
<1>4. \A j \in 1..n : TypeValue(after[j - 1], args[j]) \in TypeExprs
  <2> TAKE j \in 1..n
  <2>1. j - 1 \in 0..n /\ args[j] \in TypeExprs
    BY <1>2
  <2>2. IsTable(after[j - 1])
    BY <2>1, <1>2 DEF MoreTypes
  <2> QED
    BY <2>1, <2>2, TypeTableLemma
<1>5. types \in Seq(TypeExprs) /\ Len(types) = n
  BY <1>2, <1>4
<1>6. types = <<>> <=> args = <<>>
  <2>1. types = <<>> <=> Len(types) = 0
    BY <1>5
  <2>2. args = <<>> <=> n = 0
    OBVIOUS
  <2> HIDE DEF types
  <2> QED
    BY <2>1, <2>2, <1>5
<1> HIDE DEF types, final
<1> QED
  BY <1>1, <1>3, <1>5, <1>6 DEF NoArgs

-----------------------------------------------------------------------------
(* A declaration *)

LEMMA BlankLemma ==
    ASSUME NEW t, TableInv(t), Distinct(t.namespace_stack),
           NEW name \in Names, NEW pos \in Nat
    PROVE  /\ BlankSymbol(t, name, pos) \in Symbols
           /\ Head(namespace_as_string(t)) = Root
           /\ Tail(namespace_as_string(t)) = t.namespace_stack
           /\ namespace_as_string(t) \in Names
<1>1. t.namespace_stack \in Seq(Words)
  BY DEF TableInv, IsTable
<1>2. <<Root>> \in Seq(Words)
  <2>1. Root \in Words
    BY DEF Words
  <2> QED
    BY <2>1
<1>3. /\ namespace_as_string(t) \in Seq(Words)
      /\ Len(namespace_as_string(t)) = 1 + Len(t.namespace_stack)
      /\ Head(namespace_as_string(t)) = Root
  BY <1>1, <1>2 DEF namespace_as_string
<1>4. Tail(namespace_as_string(t)) = t.namespace_stack
  BY <1>1, <1>2 DEF namespace_as_string
<1>5. namespace_as_string(t) # <<>>
  BY <1>1, <1>3
<1>6. <<>> \in Seq(TypeExprs) /\ <<>> \in Seq(Words) /\ <<>> \in Seq(TextItems)
  OBVIOUS
<1>7. namespace_as_string(t) \in Names
  BY <1>3, <1>5 DEF Names
<1>8. BlankSymbol(t, name, pos) \in Symbols
  <2> HIDE DEF Names, TypeExprs, TextItems, Words
  <2> QED
    BY <1>6, <1>7 DEF BlankSymbol, Symbols, NoArgs, NoSymbol
<1> QED
  BY <1>3, <1>4, <1>7, <1>8

LEMMA FullNameLemma ==
    ASSUME TableInv(tbl_), Distinct(tbl_.namespace_stack), NEW id \in Words
    PROVE  FullName(id) \in Names /\ Head(FullName(id)) = Root
<1>1. <<Root>> \in Names
  <2>1. Root \in Words
    BY DEF Words
  <2>2. <<Root>> \in Seq(Words)
    BY <2>1
  <2> QED
    BY <2>2 DEF Names
<1>2. namespace_as_string(tbl_) \in Seq(Words) /\ namespace_as_string(tbl_) # <<>>
      /\ Head(namespace_as_string(tbl_)) = Root
  BY <1>1, BlankLemma, 0 \in Nat DEF Names
<1>3. \A s \in Seq(Words) : s # <<>> => /\ Append(s, id) \in Seq(Words)
                                        /\ Append(s, id) # <<>>
                                        /\ Head(Append(s, id)) = Head(s)
  OBVIOUS
<1> QED
  BY <1>2, <1>3 DEF FullName, Names

\* From t to n, the symbol i is declared.
Declared(t, n, i, kind) ==
    /\ TableInv(n)
    /\ n.namespace_stack = t.namespace_stack
    /\ n.type_table = t.type_table
    /\ n.type_aliases = t.type_aliases
    /\ Len(n.scope_stack) = Len(t.scope_stack)
    /\ i \in Nat \ {0}
    /\ DOMAIN n.sym_table = DOMAIN t.sym_table \cup {i}
    /\ \A j \in DOMAIN t.sym_table : j # i => n.sym_table[j] = t.sym_table[j]
    /\ i \in DOMAIN t.sym_table => t.sym_table[i].placeholder
    /\ n.sym_table[i].kind = kind /\ n.sym_table[i].args = NoArgs
    /\ ~n.sym_table[i].placeholder /\ ~n.sym_table[i].genperm

LEMMA DeclLemma ==
    ASSUME TableInv(tbl_), Distinct(tbl_.namespace_stack), items \in Nat,
           NEW id \in Words, NEW kind \in {"var", "proc"}, ~Redeclared(id),
           Len(tbl_.scope_stack) = 2 => kind = "var"
    PROVE  Declared(tbl_, parse_decl(id, kind).tbl, parse_decl(id, kind).index, kind)
<1> DEFINE name == FullName(id)
           here == scoped_symbol_exists_at_current_scope(tbl_, name)
           t == WithSymbol(name, kind)
           i == lookup_scoped_symbol(t, name, NoArgs)
           sym == [t.sym_table[i] EXCEPT !.placeholder = FALSE, !.kind = kind,
                       !.pos = items, !.global = Len(tbl_.scope_stack) <= 1]
           n == parse_decl(id, kind).tbl
<1>1. name \in Names /\ Head(name) = Root
  BY FullNameLemma
<1>2. /\ IsTable(tbl_) /\ Len(tbl_.scope_stack) \in {1, 2}
      /\ tbl_.scope_stack \in Seq(SUBSET Nat)
      /\ Len(tbl_.scope_stack) \in DOMAIN tbl_.scope_stack
  <2>1. IsTable(tbl_) /\ Len(tbl_.scope_stack) \in {1, 2}
        /\ tbl_.scope_stack \in Seq(SUBSET Nat)
    BY DEF TableInv, ScopesOK, IsTable
  <2>2. DOMAIN tbl_.scope_stack = 1..Len(tbl_.scope_stack)
    BY <2>1
  <2>3. Len(tbl_.scope_stack) \in 1..Len(tbl_.scope_stack)
    BY <2>1
  <2> QED
    BY <2>1, <2>2, <2>3, Zenon
<1> HIDE DEF name
\* What is looked up is a placeholder, or the symbol that was just made.
<1>3. /\ TableInv(t)
      /\ t.namespace_stack = tbl_.namespace_stack
      /\ t.type_table = tbl_.type_table
      /\ t.type_aliases = tbl_.type_aliases
      /\ Len(t.scope_stack) = Len(tbl_.scope_stack)
      /\ i \in Nat \ {0}
      /\ DOMAIN t.sym_table = DOMAIN tbl_.sym_table \cup {i}
      /\ \A j \in DOMAIN tbl_.sym_table : t.sym_table[j] = tbl_.sym_table[j]
      /\ i \in DOMAIN tbl_.sym_table => tbl_.sym_table[i].placeholder
      /\ t.sym_table[i].args = NoArgs
      /\ t.sym_table[i].placeholder \/ t.sym_table[i].kind = kind
      /\ ~t.sym_table[i].genbase
  <2>1. CASE here
    <3>1. t = tbl_ /\ scoped_symbol_exists(tbl_, name, NoArgs)
      BY <2>1 DEF scoped_symbol_exists, scoped_symbol_exists_at_current_scope, WithSymbol
    <3>2. /\ i \in DOMAIN tbl_.sym_table
          /\ Keyed(tbl_, i, name, NoArgs)
      BY <3>1, LookupLemma
    <3>3. tbl_.sym_table[i].placeholder
      BY <2>1, <3>1 DEF Redeclared, name, Sym
    <3>4. SymbolOK(tbl_, i)
      BY <3>2 DEF TableInv
    <3>5. ~tbl_.sym_table[i].genbase
      BY <3>3, <3>4 DEF SymbolOK
    <3>6. i \in Nat \ {0}
      <4>1. tbl_.sym_table \in Seq(Symbols)
        BY <1>2 DEF IsTable
      <4> HIDE DEF i
      <4> QED
        BY <4>1, <3>2
    <3> HIDE DEF i, t, here
    <3> QED
      BY <3>1, <3>2, <3>3, <3>5, <3>6 DEF Keyed
  <2>2. CASE ~here
    <3> DEFINE blank == BlankSymbol(tbl_, name, items)
               new == [blank EXCEPT !.kind = kind]
               top == Len(tbl_.scope_stack)
               ix == NewIndex(tbl_)
    <3>1. t = AddSymbol(tbl_, new, top)
      BY <2>2 DEF create_symbol, WithSymbol
    <3>2. /\ new \in Symbols /\ new.name = name /\ new.args = NoArgs
          /\ new.namespace = namespace_as_string(tbl_) /\ new.kind = kind
          /\ ~new.placeholder /\ ~new.genbase /\ ~new.genperm
          /\ new.generic_type_names = <<>> /\ new.sym_ref = NoSymbol
      <4>1. blank \in Symbols
        BY <1>1, BlankLemma
      <4>2. kind \in {"none", "var", "proc"}
        OBVIOUS
      <4> QED
        BY <4>1, <4>2 DEF Symbols, BlankSymbol
    <3> HIDE DEF new, blank
    <3>3. \A j \in tbl_.scope_stack[top] : ~Keyed(tbl_, j, name, NoArgs)
      BY <2>2, <1>2 DEF scoped_symbol_exists_at_current_scope, ScopesWith
    <3>4. Head(new.namespace) = Root /\ Distinct(Tail(new.namespace))
      BY <3>2, <1>1, BlankLemma
    <3>5. Fits(tbl_, new, top)
      BY <3>2, <3>3, <3>4, <1>1, <1>2 DEF Fits
    <3>6. TableInv(t)
      BY <3>1, <3>5, AddKeepsInv
    <3>7. /\ t.namespace_stack = tbl_.namespace_stack
          /\ t.type_aliases = tbl_.type_aliases
          /\ t.type_table = tbl_.type_table
          /\ ix \in Nat \ {0}
          /\ DOMAIN t.sym_table = DOMAIN tbl_.sym_table \cup {ix}
          /\ ix \notin DOMAIN tbl_.sym_table
          /\ t.sym_table[ix] = new
          /\ \A j \in DOMAIN tbl_.sym_table : t.sym_table[j] = tbl_.sym_table[j]
          /\ Len(t.scope_stack) = Len(tbl_.scope_stack)
          /\ DOMAIN t.scope_stack = DOMAIN tbl_.scope_stack
          /\ t.scope_stack[top] = tbl_.scope_stack[top] \cup {ix}
      BY <3>1, <3>2, <1>2, AddSymbolLemma
    <3> HIDE DEF t, ix
    <3>8. Len(t.scope_stack) \in ScopesWith(t, name, NoArgs)
      BY <3>7, <3>2, <1>2 DEF ScopesWith, Keyed
    <3>9. scoped_symbol_exists(t, name, NoArgs)
      BY <3>8 DEF scoped_symbol_exists
    <3>10. i \in t.scope_stack[top] /\ Keyed(t, i, name, NoArgs)
      BY <3>6, <3>8, <3>9, <3>7, LookupLemma
    <3> HIDE DEF i
    <3>11. i = ix
      <4>1. ix \in t.scope_stack[top] /\ Keyed(t, i, t.sym_table[ix].name, t.sym_table[ix].args)
        BY <3>7, <3>2, <3>10
      <4>2. top \in DOMAIN t.scope_stack
        BY <3>7, <1>2
      <4> HIDE DEF top
      <4> QED
        BY <4>1, <4>2, <3>6, <3>10, Zenon DEF TableInv, ScopesOK
    <3> QED
      BY <3>6, <3>7, <3>11, <3>2
  <2> QED
    BY <2>1, <2>2
<1>4. n = Updated(t, i, sym) /\ parse_decl(id, kind).index = i
  <2>1. parse_decl(id, kind) =
            [tbl |-> AsDeclared(t, i, kind), index |-> i]
    BY DEF parse_decl, name
  <2>2. IsTable(t) /\ t.sym_table \in Seq(Symbols) /\ i \in DOMAIN t.sym_table
    BY <1>3 DEF TableInv, IsTable
  <2> HIDE DEF t, i
  <2> DEFINE st == [t.sym_table EXCEPT ![i].placeholder = FALSE, ![i].kind = kind,
                        ![i].pos = items, ![i].global = Len(tbl_.scope_stack) <= 1]
  <2>3. t = [namespace_stack |-> t.namespace_stack, scope_stack |-> t.scope_stack,
             sym_table |-> t.sym_table, type_table |-> t.type_table,
             type_aliases |-> t.type_aliases]
    BY <2>2 DEF IsTable
  <2>4. st = [t.sym_table EXCEPT ![i] = sym]
    BY <2>2
  <2>5. AsDeclared(t, i, kind) = [t EXCEPT !.sym_table = st]
    BY <2>2, <2>3 DEF AsDeclared
  <2>6. Updated(t, i, sym) = [t EXCEPT !.sym_table = [t.sym_table EXCEPT ![i] = sym]]
    BY <2>2, <2>3 DEF Updated
  <2>7. parse_decl(id, kind) = [tbl |-> Updated(t, i, sym), index |-> i]
    <3> HIDE DEF st, sym
    <3> QED
      BY <2>1, <2>4, <2>5, <2>6
  <2> QED
    BY <2>7
<1> HIDE DEF t, i
<1>5. t.sym_table[i] \in Symbols /\ SymbolOK(t, i) /\ i \in DOMAIN t.sym_table
  <2>1. t.sym_table \in Seq(Symbols) /\ i \in DOMAIN t.sym_table
    BY <1>3 DEF TableInv, IsTable
  <2> QED
    BY <2>1, <1>3 DEF TableInv
<1>6. FitsAt(t, i, sym) /\ sym.kind = kind /\ ~sym.placeholder /\ ~sym.genperm
      /\ sym.args = NoArgs
  <2>1. sym \in Symbols /\ sym.kind = kind /\ ~sym.placeholder
        /\ sym.name = t.sym_table[i].name /\ sym.args = t.sym_table[i].args
        /\ sym.namespace = t.sym_table[i].namespace
        /\ sym.genbase = t.sym_table[i].genbase
        /\ sym.genperm = t.sym_table[i].genperm
        /\ sym.sym_ref = t.sym_table[i].sym_ref
        /\ sym.generic_type_names = t.sym_table[i].generic_type_names
    <3>1. kind \in {"none", "var", "proc"} /\ (Len(tbl_.scope_stack) <= 1) \in BOOLEAN
      BY <1>2
    <3> QED
      BY <1>5, <3>1 DEF Symbols
  <2> HIDE DEF sym
  <2> QED
    BY <2>1, <1>3, <1>5 DEF FitsAt, SymbolOK
<1> HIDE DEF sym, n
<1>7. /\ TableInv(n)
      /\ n.namespace_stack = t.namespace_stack
      /\ n.scope_stack = t.scope_stack
      /\ n.type_table = t.type_table
      /\ n.type_aliases = t.type_aliases
      /\ DOMAIN n.sym_table = DOMAIN t.sym_table
      /\ n.sym_table[i] = sym
      /\ \A j \in DOMAIN t.sym_table : j # i => n.sym_table[j] = t.sym_table[j]
  BY <1>3, <1>4, <1>6, UpdateLemma
<1>8. Declared(tbl_, n, i, kind)
  BY <1>3, <1>6, <1>7 DEF Declared
<1> QED
  BY <1>4, <1>8 DEF n

-----------------------------------------------------------------------------
(* A use of a name *)

\* From t to n, nothing changes but what is new: types, and symbols that are
\* placeholders or instances that wait for their turn.
Grown(t, n) ==
    /\ TableInv(n)
    /\ n.namespace_stack = t.namespace_stack
    /\ n.type_aliases = t.type_aliases
    /\ Len(n.scope_stack) = Len(t.scope_stack)
    /\ DOMAIN t.sym_table \subseteq DOMAIN n.sym_table
    /\ \A i \in DOMAIN t.sym_table : n.sym_table[i] = t.sym_table[i]
    /\ \A i \in DOMAIN n.sym_table \ DOMAIN t.sym_table :
           \/ n.sym_table[i].placeholder /\ n.sym_table[i].args = NoArgs
           \/ n.sym_table[i].args # NoArgs /\ n.sym_table[i].genperm

LEMMA PlaceholderLemma ==
    ASSUME NEW t, TableInv(t), Distinct(t.namespace_stack),
           NEW name \in Names, NEW pos \in Nat
    PROVE  LET c == get_canonical_sym_name(t, name)
               n == IF scoped_symbol_exists(t, c, NoArgs) THEN t
                    ELSE create_placeholder_symbol(t, c, pos)
           IN  /\ Grown(t, n)
               /\ scoped_symbol_exists(n, c, NoArgs)
               /\ \A i \in DOMAIN n.sym_table \ DOMAIN t.sym_table :
                      n.sym_table[i].args = NoArgs
<1> DEFINE c == get_canonical_sym_name(t, name)
           n == create_placeholder_symbol(t, c, pos)
<1>1. CASE scoped_symbol_exists(t, c, NoArgs)
  BY <1>1 DEF Grown
<1>2. CASE ~scoped_symbol_exists(t, c, NoArgs)
  <2> DEFINE blank == BlankSymbol(t, c, pos)
             new == [blank EXCEPT !.placeholder = TRUE]
             ix == NewIndex(t)
  <2>1. IsTable(t) /\ t.scope_stack \in Seq(SUBSET Nat) /\ Len(t.scope_stack) \in {1, 2}
    BY DEF TableInv, IsTable, ScopesOK
  <2>2. c \in Names /\ Head(c) = Root
    BY <1>2, <2>1, CanonicalSymbolLemma
  <2>3. n = AddSymbol(t, new, 1)
    BY DEF create_placeholder_symbol
  <2> HIDE DEF c, n
  <2>4. /\ new \in Symbols /\ new.name = c /\ new.args = NoArgs
        /\ new.namespace = namespace_as_string(t) /\ new.kind = "none"
        /\ new.placeholder /\ ~new.genbase /\ ~new.genperm
        /\ new.generic_type_names = <<>> /\ new.sym_ref = NoSymbol
    <3>1. blank \in Symbols
      BY <2>2, BlankLemma
    <3> QED
      BY <3>1 DEF Symbols, BlankSymbol
  <2> HIDE DEF new, blank
  <2>5. Head(new.namespace) = Root /\ Distinct(Tail(new.namespace))
    BY <2>2, <2>4, BlankLemma
  <2>6. 1 \in DOMAIN t.scope_stack
    BY <2>1
  <2>7. \A j \in t.scope_stack[1] : ~Keyed(t, j, c, NoArgs)
    BY <1>2, <2>6 DEF scoped_symbol_exists, ScopesWith
  <2>8. Fits(t, new, 1)
    BY <2>2, <2>4, <2>5, <2>6, <2>7 DEF Fits
  <2>9. TableInv(n)
    BY <2>3, <2>8, AddKeepsInv
  <2>10. /\ n.namespace_stack = t.namespace_stack
         /\ n.type_aliases = t.type_aliases
         /\ DOMAIN n.sym_table = DOMAIN t.sym_table \cup {ix}
         /\ ix \notin DOMAIN t.sym_table
         /\ n.sym_table[ix] = new
         /\ \A j \in DOMAIN t.sym_table : n.sym_table[j] = t.sym_table[j]
         /\ Len(n.scope_stack) = Len(t.scope_stack)
         /\ DOMAIN n.scope_stack = DOMAIN t.scope_stack
         /\ n.scope_stack[1] = t.scope_stack[1] \cup {ix}
    BY <2>1, <2>3, <2>4, <2>6, AddSymbolLemma
  <2> HIDE DEF ix
  <2>11. Grown(t, n)
    BY <2>4, <2>9, <2>10 DEF Grown
  <2>12. 1 \in ScopesWith(n, c, NoArgs)
    BY <2>4, <2>6, <2>10 DEF ScopesWith, Keyed
  <2>13. scoped_symbol_exists(n, c, NoArgs)
    BY <2>12 DEF scoped_symbol_exists
  <2>14. \A i \in DOMAIN n.sym_table \ DOMAIN t.sym_table : n.sym_table[i].args = NoArgs
    BY <2>4, <2>10
  <2> QED
    BY <1>2, <2>11, <2>13, <2>14 DEF c, n
<1> QED
  BY <1>1, <1>2

\* The name and its type arguments are the key of one instance.
LEMMA PermutationLemma ==
    ASSUME NEW t, TableInv(t), NEW original \in DOMAIN t.sym_table,
           t.sym_table[original].args = NoArgs,
           NEW args \in Seq(TypeExprs), args # NoArgs
    PROVE  LET n == create_generic_proc_permutation(t, original, args)
               name == t.sym_table[original].name
           IN  /\ Grown(t, n)
               /\ scoped_symbol_exists(n, name, args)
               /\ \A i \in DOMAIN n.sym_table \ DOMAIN t.sym_table :
                      n.sym_table[i].name = name /\ n.sym_table[i].args = args
<1> DEFINE base == t.sym_table[original]
           n == create_generic_proc_permutation(t, original, args)
<1>1. CASE scoped_symbol_exists(t, base.name, args)
  BY <1>1 DEF Grown, create_generic_proc_permutation
<1>2. CASE ~scoped_symbol_exists(t, base.name, args)
  <2> DEFINE blank == BlankSymbol(t, base.name, base.pos)
             new == [blank EXCEPT !.args = args, !.namespace = base.namespace,
                         !.kind = "proc", !.genperm = TRUE,
                         !.sym_ref = original]
             ix == NewIndex(t)
  <2>1. /\ IsTable(t) /\ t.scope_stack \in Seq(SUBSET Nat)
        /\ Len(t.scope_stack) \in {1, 2} /\ t.sym_table \in Seq(Symbols)
        /\ t.namespace_stack \in Seq(Words)
    BY DEF TableInv, IsTable, ScopesOK
  <2>2. base \in Symbols /\ SymbolOK(t, original) /\ original \in Nat
    BY <2>1 DEF TableInv
  <2>3. n = AddSymbol(t, new, 1)
    BY <1>2 DEF create_generic_proc_permutation
  <2> HIDE DEF n
  <2>4. /\ new \in Symbols /\ new.name = base.name /\ new.args = args
        /\ new.namespace = base.namespace /\ new.kind = "proc"
        /\ ~new.placeholder /\ ~new.genbase /\ new.genperm
        /\ new.generic_type_names = <<>> /\ new.sym_ref = original
    <3>1. namespace_as_string(t) \in Seq(Words)
      <4>1. Root \in Words
        BY DEF Words
      <4>2. <<Root>> \in Seq(Words)
        BY <4>1
      <4> QED
        BY <2>1, <4>2 DEF namespace_as_string
    <3>2. <<>> \in Seq(Words) /\ <<>> \in Seq(TextItems)
      OBVIOUS
    <3> HIDE DEF base
    <3> QED
      BY <2>2, <3>1, <3>2 DEF Symbols, BlankSymbol
  <2> HIDE DEF new, blank
  <2>5. /\ Head(new.namespace) = Root /\ Distinct(Tail(new.namespace))
        /\ Head(new.name) = Root
    BY <2>2, <2>4 DEF SymbolOK
  <2>6. 1 \in DOMAIN t.scope_stack
    BY <2>1
  <2>7. \A j \in t.scope_stack[1] : ~Keyed(t, j, base.name, args)
    BY <1>2, <2>6 DEF scoped_symbol_exists, ScopesWith
  <2>8. Fits(t, new, 1)
    BY <2>4, <2>5, <2>6, <2>7 DEF Fits
  <2>9. TableInv(n)
    BY <2>3, <2>8, AddKeepsInv
  <2>10. /\ n.namespace_stack = t.namespace_stack
         /\ n.type_aliases = t.type_aliases
         /\ DOMAIN n.sym_table = DOMAIN t.sym_table \cup {ix}
         /\ ix \notin DOMAIN t.sym_table
         /\ n.sym_table[ix] = new
         /\ \A j \in DOMAIN t.sym_table : n.sym_table[j] = t.sym_table[j]
         /\ Len(n.scope_stack) = Len(t.scope_stack)
         /\ DOMAIN n.scope_stack = DOMAIN t.scope_stack
         /\ n.scope_stack[1] = t.scope_stack[1] \cup {ix}
    BY <2>1, <2>3, <2>4, <2>6, AddSymbolLemma
  <2> HIDE DEF ix
  <2>11. Grown(t, n)
    BY <2>4, <2>9, <2>10 DEF Grown
  <2>12. 1 \in ScopesWith(n, base.name, args)
    BY <2>4, <2>6, <2>10 DEF ScopesWith, Keyed
  <2>13. scoped_symbol_exists(n, base.name, args)
    BY <2>12 DEF scoped_symbol_exists
  <2>14. \A i \in DOMAIN n.sym_table \ DOMAIN t.sym_table :
             n.sym_table[i].name = base.name /\ n.sym_table[i].args = args
    BY <2>4, <2>10
  <2> QED
    BY <2>11, <2>13, <2>14 DEF n
<1> QED
  BY <1>1, <1>2

Uses == [to : Nat, name : Names, args : Seq(TypeExprs), namespaces : Seq(Words)]

LEMMA IdentifierLemma ==
    ASSUME TableInv(tbl_), Distinct(tbl_.namespace_stack), items \in Nat,
           NEW name \in Names, NEW args \in Seq(TypeExprs)
    PROVE  LET p == parse_identifier(name, args) IN
           /\ Grown(tbl_, p.tbl)
           /\ p.use \in Uses
           /\ p.use.to \in DOMAIN p.tbl.sym_table
           /\ p.tbl.sym_table[p.use.to].args = p.use.args
           /\ p.use.namespaces = tbl_.namespace_stack
           /\ \A i \in DOMAIN p.tbl.sym_table \ DOMAIN tbl_.sym_table :
                  p.tbl.sym_table[i].args # NoArgs => i = p.use.to
<1> DEFINE canonical == get_canonical_sym_name(tbl_, name)
           named == IF scoped_symbol_exists(tbl_, canonical, NoArgs)
                    THEN tbl_
                    ELSE create_placeholder_symbol(tbl_, canonical, items)
           sym   == lookup_scoped_symbol(named, canonical, NoArgs)
           typed == parse_types(named, args)
           t     == IF args = NoArgs
                    THEN named
                    ELSE create_generic_proc_permutation(typed.tbl, sym,
                                                         typed.types)
           to    == lookup_scoped_symbol(t, t.sym_table[sym].name, typed.types)
           p     == parse_identifier(name, args)
<1>1. p = [tbl |-> t,
           use |-> [to |-> to, name |-> name, args |-> typed.types,
                    namespaces |-> tbl_.namespace_stack]]
  BY DEF parse_identifier
<1>2. /\ Grown(tbl_, named)
      /\ scoped_symbol_exists(named, canonical, NoArgs)
      /\ \A i \in DOMAIN named.sym_table \ DOMAIN tbl_.sym_table :
             named.sym_table[i].args = NoArgs
  BY PlaceholderLemma
<1> HIDE DEF named, canonical
<1>3. sym \in DOMAIN named.sym_table /\ Keyed(named, sym, canonical, NoArgs)
  BY <1>2, LookupLemma DEF Grown
<1> HIDE DEF sym
<1>4. /\ MoreTypes(named, typed.tbl)
      /\ typed.types \in Seq(TypeExprs)
      /\ typed.types = NoArgs <=> args = NoArgs
  BY <1>2, ParseTypesLemma DEF Grown, TableInv
<1> HIDE DEF typed
<1>5. /\ Grown(tbl_, t)
      /\ sym \in DOMAIN t.sym_table
      /\ scoped_symbol_exists(t, t.sym_table[sym].name, typed.types)
      /\ \A i \in DOMAIN t.sym_table \ DOMAIN tbl_.sym_table :
             t.sym_table[i].args # NoArgs =>
                 /\ t.sym_table[i].name = t.sym_table[sym].name
                 /\ t.sym_table[i].args = typed.types
                 /\ args # NoArgs
  <2>1. CASE args = NoArgs
    <3>1. named.sym_table[sym].name = canonical /\ typed.types = NoArgs /\ t = named
      BY <2>1, <1>3, <1>4 DEF Keyed
    <3> HIDE DEF t
    <3> QED
      BY <3>1, <1>2, <1>3
  <2>2. CASE args # NoArgs
    <3> DEFINE m == typed.tbl
    <3>1. /\ TableInv(m) /\ m.sym_table = named.sym_table
          /\ m.namespace_stack = named.namespace_stack
          /\ m.scope_stack = named.scope_stack
          /\ m.type_aliases = named.type_aliases
      <4>1. TableInv(named)
        BY <1>2 DEF Grown
      <4> QED
        BY <4>1, <1>4, SameSymbols DEF MoreTypes
    <3>2. t = create_generic_proc_permutation(m, sym, typed.types)
      BY <2>2
    <3> HIDE DEF m, t
    <3>3. sym \in DOMAIN m.sym_table /\ m.sym_table[sym].args = NoArgs
          /\ typed.types # NoArgs
      BY <3>1, <1>3, <1>4, <2>2 DEF Keyed
    <3>4. /\ Grown(m, t)
          /\ scoped_symbol_exists(t, m.sym_table[sym].name, typed.types)
          /\ \A i \in DOMAIN t.sym_table \ DOMAIN m.sym_table :
                 /\ t.sym_table[i].name = m.sym_table[sym].name
                 /\ t.sym_table[i].args = typed.types
      BY <3>1, <3>2, <3>3, <1>4, PermutationLemma
    <3>5. sym \in DOMAIN t.sym_table /\ t.sym_table[sym] = m.sym_table[sym]
      BY <3>3, <3>4 DEF Grown
    <3>6. Grown(tbl_, t)
      BY <1>2, <3>1, <3>4 DEF Grown
    <3>7. ASSUME NEW i \in DOMAIN t.sym_table \ DOMAIN tbl_.sym_table,
                 t.sym_table[i].args # NoArgs
          PROVE  i \in DOMAIN t.sym_table \ DOMAIN m.sym_table
      BY <3>7, <1>2, <3>1, <3>4 DEF Grown
    <3> QED
      BY <2>2, <3>4, <3>5, <3>6, <3>7
  <2> QED
    BY <2>1, <2>2
<1> HIDE DEF t
<1>6. to \in DOMAIN t.sym_table /\ Keyed(t, to, t.sym_table[sym].name, typed.types)
  BY <1>5, LookupLemma DEF Grown
<1> HIDE DEF to
<1>7. to \in Nat /\ tbl_.namespace_stack \in Seq(Words)
  <2>1. t.sym_table \in Seq(Symbols) /\ tbl_.namespace_stack \in Seq(Words)
    BY <1>5 DEF Grown, TableInv, IsTable
  <2> QED
    BY <2>1, <1>6
<1>8. \A i \in DOMAIN t.sym_table \ DOMAIN tbl_.sym_table :
          t.sym_table[i].args # NoArgs => i = to
  <2> SUFFICES ASSUME NEW i \in DOMAIN t.sym_table \ DOMAIN tbl_.sym_table,
                      t.sym_table[i].args # NoArgs
               PROVE  i = to
    OBVIOUS
  <2>1. Keyed(t, i, t.sym_table[to].name, t.sym_table[to].args)
        /\ t.sym_table[to].args # NoArgs
    BY <1>4, <1>5, <1>6 DEF Keyed
  <2>2. SymbolOK(t, i) /\ SymbolOK(t, to) /\ ScopesOK(t)
    BY <1>5, <1>6 DEF Grown, TableInv
  <2>3. i \in t.scope_stack[1] /\ to \in t.scope_stack[1]
    BY <2>1, <2>2 DEF SymbolOK
  <2>4. 1 \in DOMAIN t.scope_stack
    <3>1. t.scope_stack \in Seq(SUBSET Nat) /\ Len(t.scope_stack) \in {1, 2}
      BY <1>5 DEF Grown, TableInv, IsTable, ScopesOK
    <3> QED
      BY <3>1
  <2> QED
    BY <2>1, <2>2, <2>3, <2>4, Zenon DEF ScopesOK
<1>9. p.use \in Uses
  BY <1>1, <1>4, <1>7 DEF Uses
<1> HIDE DEF p
<1> QED
  BY <1>1, <1>5, <1>6, <1>8, <1>9 DEF Keyed, p

-----------------------------------------------------------------------------
(* Paths of namespaces *)

\* FlattenSeq is defined by recursion: here is the function it chooses.
LEMMA FlattenUnfolds ==
    ASSUME NEW s, Len(s) \in Nat \ {0}
    PROVE  \E f : /\ f = [i \in 1..Len(s) |-> IF i = 1 THEN s[i]
                                              ELSE f[i - 1] \o s[i]]
                  /\ FlattenSeq(s) = f[Len(s)]
<1> DEFINE IsFlat(f, m) ==
               f = [i \in 1..m |-> IF i = 1 THEN s[i] ELSE f[i - 1] \o s[i]]
           Missing == {m \in Nat \ {0} : \A f : ~IsFlat(f, m)}
<1>1. SUFFICES ASSUME \A f : ~IsFlat(f, Len(s)) PROVE FALSE
  <2> DEFINE g == CHOOSE f : IsFlat(f, Len(s))
  <2>1. FlattenSeq(s) = g[Len(s)]
    BY DEF FlattenSeq
  <2>2. SUFFICES IsFlat(g, Len(s))
    BY <2>1
  <2> HIDE DEF IsFlat
  <2> QED
    BY Zenon
<1>2. Missing # {} /\ Missing \in SUBSET Nat
  BY <1>1
<1>3. PICK m \in Missing : \A j \in Missing : m <= j
  BY <1>2, SmallestOf
<1>4. m # 1
  <2>1. IsFlat([i \in 1..1 |-> s[i]], 1)
    OBVIOUS
  <2> QED
    BY <2>1
<1>5. m \in Nat \ {0} /\ m - 1 \in Nat \ {0} /\ m - 1 \notin Missing
  <2>1. m \in Nat \ {0}
    BY <1>3
  <2> HIDE DEF Missing
  <2> QED
    BY <2>1, <1>3, <1>4
<1>6. PICK g : IsFlat(g, m - 1)
  BY <1>5
<1> DEFINE h == [i \in 1..m |-> IF i = m THEN g[m - 1] \o s[m] ELSE g[i]]
<1>7. \A i \in 1..m : h[i] = IF i = 1 THEN s[i] ELSE h[i - 1] \o s[i]
  <2> TAKE i \in 1..m
  <2>1. CASE i = m
    <3>1. m \in 1..m /\ m - 1 \in 1..m /\ m - 1 # m
      BY <1>4, <1>5
    <3>2. h[m] = g[m - 1] \o s[m] /\ h[m - 1] = g[m - 1]
      BY <3>1, Zenon
    <3> QED
      BY <2>1, <3>2, <1>4
  <2>2. CASE i # m
    <3>1. i \in 1..(m - 1) /\ h[i] = g[i]
      BY <2>2, <1>5
    <3>2. g[i] = IF i = 1 THEN s[i] ELSE g[i - 1] \o s[i]
      BY <3>1, <1>6
    <3>3. i # 1 => h[i - 1] = g[i - 1]
      BY <3>1, <1>5
    <3> QED
      BY <3>1, <3>2, <3>3
  <2> QED
    BY <2>1, <2>2
<1>8. IsFlat(h, m)
  <2>1. h = [i \in 1..m |-> h[i]]
    OBVIOUS
  <2> HIDE DEF h
  <2> QED
    BY <2>1, <1>7
<1> HIDE DEF IsFlat, h
<1> QED
  BY <1>3, <1>8

LEMMA FlattenEmpty == FlattenSeq(<<>>) = <<>>
  BY DEF FlattenSeq

LEMMA FlattenAppend ==
    ASSUME NEW S, NEW s \in Seq(Seq(S)), NEW e \in Seq(S)
    PROVE  /\ FlattenSeq(s) \in Seq(S)
           /\ FlattenSeq(Append(s, e)) = FlattenSeq(s) \o e
<1> DEFINE n == Len(s)
           l == Append(s, e)
<1>1. /\ n \in Nat /\ Len(l) = n + 1 /\ n + 1 \in Nat \ {0}
      /\ l[n + 1] = e /\ \A i \in 1..n : l[i] = s[i] /\ s[i] \in Seq(S)
  OBVIOUS
<1>2. PICK g : /\ g = [i \in 1..(n + 1) |-> IF i = 1 THEN l[i] ELSE g[i - 1] \o l[i]]
               /\ FlattenSeq(l) = g[n + 1]
  <2> HIDE DEF l
  <2>1. Len(l) = n + 1
    BY <1>1
  <2> QED
    BY <2>1, <1>1, FlattenUnfolds
<1> HIDE DEF l
<1>3. \A i \in 1..(n + 1) : g[i] = IF i = 1 THEN l[i] ELSE g[i - 1] \o l[i]
  BY <1>2, Zenon
<1>4. CASE n = 0
  <2>1. s = <<>>
    BY <1>4
  <2>2. FlattenSeq(s) = <<>>
    BY <2>1, FlattenEmpty
  <2>3. FlattenSeq(l) = e
    BY <1>1, <1>2, <1>3, <1>4
  <2> QED
    BY <2>2, <2>3 DEF l
<1>5. CASE n # 0
  <2>1. PICK f : /\ f = [i \in 1..n |-> IF i = 1 THEN s[i] ELSE f[i - 1] \o s[i]]
                 /\ FlattenSeq(s) = f[n]
    BY <1>1, <1>5, FlattenUnfolds
  <2>2. \A i \in 1..n : f[i] = IF i = 1 THEN s[i] ELSE f[i - 1] \o s[i]
    BY <2>1, Zenon
  <2> DEFINE Bad == {i \in 1..n : ~(f[i] = g[i] /\ f[i] \in Seq(S))}
  <2>3. Bad = {}
    <3>1. SUFFICES ASSUME Bad # {} PROVE FALSE
      OBVIOUS
    <3>2. Bad \in SUBSET Nat
      BY <1>1
    <3>3. PICK b \in Bad : \A j \in Bad : b <= j
      BY <3>1, <3>2, SmallestOf
    <3>4. b \in 1..n
      BY <3>3
    <3>5. CASE b = 1
      <4>1. f[b] = s[b] /\ g[b] = l[b] /\ s[b] \in Seq(S) /\ l[b] = s[b]
        BY <3>4, <3>5, <2>2, <1>1, <1>3
      <4> QED
        BY <4>1, <3>3
    <3>6. CASE b # 1
      <4>1. b - 1 \in 1..n /\ b \in 1..(n + 1) /\ ~(b <= b - 1)
        BY <3>4, <3>6, <1>1
      <4>2. f[b - 1] = g[b - 1] /\ f[b - 1] \in Seq(S)
        BY <4>1, <3>3
      <4>3. f[b] = f[b - 1] \o s[b] /\ g[b] = g[b - 1] \o l[b]
        BY <3>4, <3>6, <4>1, <2>2, <1>3
      <4>4. l[b] = s[b] /\ s[b] \in Seq(S)
        BY <3>4, <1>1
      <4>5. f[b] = g[b] /\ f[b] \in Seq(S)
        BY <4>2, <4>3, <4>4
      <4> QED
        BY <4>5, <3>3
    <3> QED
      BY <3>5, <3>6
  <2>4. f[n] = g[n] /\ f[n] \in Seq(S)
    <3>1. n \in 1..n
      BY <1>1, <1>5
    <3> QED
      BY <3>1, <2>3
  <2>5. g[n + 1] = g[n] \o e
    <3> SUFFICES ASSUME NEW m, m = n + 1
                 PROVE  g[m] = g[n] \o e
      OBVIOUS
    <3>1. \A i \in 1..(n + 1) : i # 1 => g[i] = g[i - 1] \o l[i]
      BY <1>3
    <3>2. m \in 1..(n + 1) /\ m # 1 /\ m - 1 = n
      BY <1>1, <1>5
    <3>3. g[m] = g[m - 1] \o l[m]
      BY <3>1, <3>2, Zenon
    <3> QED
      BY <3>2, <3>3, <1>1
  <2> QED
    BY <1>2, <2>1, <2>4, <2>5 DEF l
<1> QED
  BY <1>4, <1>5

\* Leaving the last path gives back what was there before it was entered.
LEMMA FlattenFront ==
    ASSUME NEW S, NEW s \in Seq(Seq(S)), s # <<>>
    PROVE  LET front == SubSeq(s, 1, Len(s) - 1)
               all   == FlattenSeq(s)
           IN  /\ front \in Seq(Seq(S))
               /\ all \in Seq(S)
               /\ Len(s[Len(s)]) <= Len(all)
               /\ FlattenSeq(front) = SubSeq(all, 1, Len(all) - Len(s[Len(s)]))
<1> DEFINE front == SubSeq(s, 1, Len(s) - 1)
           last == s[Len(s)]
<1>1. Len(s) \in Nat \ {0} /\ Len(s) - 1 \in Nat /\ Len(s) - 1 <= Len(s)
  OBVIOUS
<1>2. front \in Seq(Seq(S)) /\ Len(front) = Len(s) - 1
      /\ \A i \in 1..(Len(s) - 1) : front[i] = s[i]
  BY <1>1, FrontLemma
<1>3. last \in Seq(S)
  BY <1>1
<1> HIDE DEF front, last
<1>4. s = Append(front, last)
  <2>1. /\ Append(front, last) \in Seq(Seq(S))
        /\ Len(Append(front, last)) = Len(s)
        /\ \A i \in 1..Len(s) : Append(front, last)[i] = s[i]
    BY <1>1, <1>2, <1>3 DEF last
  <2>2. Len(s) = Len(Append(front, last))
    BY <2>1
  <2>3. \A i \in 1..Len(s) : s[i] = Append(front, last)[i]
    BY <2>1
  <2> QED
    BY <2>1, <2>2, <2>3, SeqEqual
<1>5. FlattenSeq(front) \in Seq(S) /\ FlattenSeq(s) = FlattenSeq(front) \o last
  BY <1>2, <1>3, <1>4, FlattenAppend
<1>6. \A a, b \in Seq(S) : /\ Len(a \o b) = Len(a) + Len(b) /\ a \o b \in Seq(S)
                           /\ \A i \in 1..Len(a) : (a \o b)[i] = a[i]
  OBVIOUS
<1>7. \A a, b \in Seq(S) : SubSeq(a \o b, 1, Len(a \o b) - Len(b)) = a
  <2> TAKE a, b \in Seq(S)
  <2>1. /\ Len(a \o b) - Len(b) = Len(a) /\ Len(a) \in Nat
        /\ a \o b \in Seq(S) /\ Len(a) <= Len(a \o b)
    BY <1>6
  <2>2. /\ SubSeq(a \o b, 1, Len(a)) \in Seq(S)
        /\ Len(SubSeq(a \o b, 1, Len(a))) = Len(a)
        /\ \A i \in 1..Len(a) : SubSeq(a \o b, 1, Len(a))[i] = (a \o b)[i]
    BY <2>1, FrontLemma
  <2> DEFINE c == SubSeq(a \o b, 1, Len(a))
  <2>3. c \in Seq(S) /\ Len(c) = Len(a) /\ \A i \in 1..Len(a) : c[i] = a[i]
    BY <2>2, <1>6
  <2> HIDE DEF c
  <2>4. c = a
    <3>1. \A i \in 1..Len(c) : c[i] = a[i]
      BY <2>3
    <3> QED
      BY <2>3, <3>1, SeqEqual
  <2> QED
    BY <2>1, <2>4 DEF c
<1> DEFINE f == FlattenSeq(front)
<1>8. /\ SubSeq(f \o last, 1, Len(f \o last) - Len(last)) = f
      /\ f \o last \in Seq(S) /\ Len(last) <= Len(f \o last)
  <2>1. f \in Seq(S)
    BY <1>5
  <2> HIDE DEF f
  <2>2. Len(f \o last) = Len(f) + Len(last) /\ Len(f) \in Nat /\ Len(last) \in Nat
    BY <2>1, <1>3
  <2> QED
    BY <2>1, <2>2, <1>3, <1>6, <1>7
<1> QED
  BY <1>2, <1>5, <1>8 DEF front, last
=============================================================================
