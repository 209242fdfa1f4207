------------------------- MODULE GenericProcs_proofs -------------------------
(***************************************************************************)
(* The safety properties of GenericProcs, for every source: one inductive  *)
(* invariant, ProcsInv, says what holds of the entity table, of the list   *)
(* of nodes, of the instances that still wait for a body and of the parser *)
(* between two steps; the properties follow from it.                       *)
(***************************************************************************)
EXTENDS EntityTable_proofs

TypeInv ==
    /\ status \in {"parsing", "permuting"} \cup Final
    /\ open \in Seq(Names)
    /\ proc \in {NoSymbol} \cup DOMAIN tbl_.sym_table
    /\ rest \in Seq(TextItems)
    /\ uses \in Seq(Uses)
    /\ toplevel_decls \in Seq([sym : Nat, uses : Seq(Uses)])
    /\ errs_failed \in BOOLEAN
    /\ items \in 0..MaxItems

\* An identifier denotes a symbol that has the type arguments it was used with.
UsesInv ==
    /\ \A k \in DOMAIN uses :
           uses[k].to \in DOMAIN tbl_.sym_table /\ Sym(uses[k].to).args = uses[k].args
    /\ \A d \in DOMAIN toplevel_decls : \A k \in DOMAIN toplevel_decls[d].uses :
           LET use == toplevel_decls[d].uses[k] IN
           use.to \in DOMAIN tbl_.sym_table /\ Sym(use.to).args = use.args

\* A node is that of a procedure whose text has ended, and its only one.
NodesInv ==
    /\ \A d \in DOMAIN toplevel_decls :
           LET i == toplevel_decls[d].sym IN
           /\ i \in DOMAIN tbl_.sym_table \ {proc}
           /\ Sym(i).kind = "proc" /\ ~Sym(i).genperm
           /\ Sym(i).args # NoArgs => Sym(Sym(i).sym_ref).genbase
    /\ \A d, b \in DOMAIN toplevel_decls :
           toplevel_decls[d].sym = toplevel_decls[b].sym => d = b

\* A procedure without node is being parsed, or an instance that waits for its
\* turn, or one that was an error.
WorkInv ==
    \A i \in DOMAIN tbl_.sym_table :
        /\ Sym(i).kind = "proc" /\ i # proc /\ ~Sym(i).genperm /\ ~errs_failed =>
               \E d \in DOMAIN toplevel_decls : toplevel_decls[d].sym = i
        /\ Sym(i).args # NoArgs /\ ~Sym(i).genperm /\ ~errs_failed =>
               /\ Sym(Sym(i).sym_ref).genbase
               /\ Len(TypeParams(Sym(i).sym_ref)) = Len(Sym(i).args)
        /\ Sym(i).args # NoArgs /\ status = "parsing" => Sym(i).genperm

\* Where the parser is, and what it has to put back when it leaves.
ParserInv ==
    /\ error # "unclean parser"
    /\ Distinct(tbl_.namespace_stack)
    /\ Len(tbl_.scope_stack) = IF proc = NoSymbol THEN 1 ELSE 2
    /\ proc # NoSymbol => Sym(proc).kind = "proc" /\ ~Sym(proc).genperm
    /\ proc = NoSymbol => uses = <<>> /\ rest = <<>>
    /\ status = "parsing" =>
           /\ tbl_.namespace_stack = FlattenSeq(open)
           /\ \A n \in DOMAIN tbl_.type_aliases : Head(n) = Root
           /\ proc # NoSymbol => Sym(proc).args = NoArgs
    /\ status = "permuting" =>
           /\ open = <<>>
           /\ proc = NoSymbol =>
                  /\ tbl_.namespace_stack = <<>>
                  /\ \A n \in DOMAIN tbl_.type_aliases : Head(n) = Root
           /\ proc # NoSymbol =>
                  /\ Sym(proc).args # NoArgs
                  /\ Sym(Sym(proc).sym_ref).genbase
                  /\ tbl_.namespace_stack = NamespacesOf(Sym(proc).sym_ref)
                  /\ \A n \in DOMAIN tbl_.type_aliases :
                         \/ Head(n) = Root
                         \/ n \in ParamAliases(TypeParams(Sym(proc).sym_ref))

\* The identifiers in the body of an instance were looked up from its namespace.
NamespaceInv ==
    /\ \A d \in DOMAIN toplevel_decls :
           LET i == toplevel_decls[d].sym IN
           Sym(i).args # NoArgs =>
               \A k \in DOMAIN toplevel_decls[d].uses :
                   toplevel_decls[d].uses[k].namespaces = NamespacesOf(Sym(i).sym_ref)
    /\ status = "permuting" =>
           \A k \in DOMAIN uses : uses[k].namespaces = NamespacesOf(Sym(proc).sym_ref)

\* An instance is there because some body asks for it.
WantedInv ==
    \A i \in DOMAIN tbl_.sym_table :
        Sym(i).args # NoArgs =>
            \/ \E k \in DOMAIN uses : uses[k].to = i
            \/ \E d \in DOMAIN toplevel_decls :
                   \E k \in DOMAIN toplevel_decls[d].uses :
                       toplevel_decls[d].uses[k].to = i

\* What the checker has seen.
AcceptedInv ==
    status = "accepted" =>
        /\ proc = NoSymbol
        /\ ~errs_failed
        /\ \A i \in DOMAIN tbl_.sym_table : ~Sym(i).genperm
        /\ \A d \in DOMAIN toplevel_decls :
               \A k \in DOMAIN toplevel_decls[d].uses :
                   UseIsValid(toplevel_decls[d].uses[k])

ProcsInv ==
    /\ TableInv(tbl_)
    /\ TypeInv
    /\ UsesInv
    /\ NodesInv
    /\ WorkInv
    /\ ParserInv
    /\ NamespaceInv
    /\ WantedInv
    /\ AcceptedInv

\* What no step changes: the key of an instance, and what is an instance.
KeysKept ==
    /\ DOMAIN tbl_.sym_table \subseteq DOMAIN tbl_'.sym_table
    /\ \A i \in DOMAIN tbl_.sym_table :
           /\ tbl_'.sym_table[i].args = tbl_.sym_table[i].args
           /\ tbl_.sym_table[i].args # NoArgs =>
                  tbl_'.sym_table[i].name = tbl_.sym_table[i].name

-----------------------------------------------------------------------------
(* The initial state *)

LEMMA InitProcsInv == ASSUME Init PROVE ProcsInv
<1> USE DEF Init
<1>1. /\ tbl_.sym_table = <<>> /\ tbl_.namespace_stack = <<>>
      /\ tbl_.scope_stack = << {} >> /\ Len(tbl_.scope_stack) = 1
      /\ DOMAIN tbl_.type_table = {} /\ DOMAIN tbl_.type_aliases = {}
  BY DEF EmptyTable
<1>2. IsTable(tbl_)
  <2>1. /\ <<>> \in Seq(Symbols) /\ <<>> \in Seq(Words)
        /\ << {} >> \in Seq(SUBSET Nat)
    <3>1. \A S : <<>> \in Seq(S)
      OBVIOUS
    <3>2. {} \in SUBSET Nat
      OBVIOUS
    <3>3. << {} >> \in Seq(SUBSET Nat)
      BY <3>2
    <3> QED
      BY <3>1, <3>3
  <2> QED
    BY <1>1, <2>1 DEF IsTable, EmptyTable
<1>3. TableInv(tbl_)
  BY <1>1, <1>2 DEF TableInv, ScopesOK, Keyed
<1>4. TypeInv
  <2>1. \A S : <<>> \in Seq(S)
    OBVIOUS
  <2>2. MaxItems \in Nat
    BY SourceBounds
  <2>3. 0 \in 0..MaxItems
    BY <2>2
  <2> QED
    BY <2>1, <2>3 DEF TypeInv
<1>5. NodesInv /\ UsesInv /\ NamespaceInv /\ AcceptedInv
  BY DEF NodesInv, UsesInv, NamespaceInv, AcceptedInv
<1>6. WorkInv /\ WantedInv
  BY <1>1 DEF WorkInv, WantedInv
<1>7. ParserInv
  BY <1>1, FlattenEmpty DEF ParserInv, Distinct
<1> QED
  BY <1>3, <1>4, <1>5, <1>6, <1>7 DEF ProcsInv

-----------------------------------------------------------------------------
(* Steps that change no symbol *)

LEMMA SameSymbolsStep ==
    ASSUME ProcsInv, tbl_'.sym_table = tbl_.sym_table,
           UNCHANGED <<proc, uses, toplevel_decls, errs_failed>>,
           status' = "parsing" => status = "parsing",
           status' = "permuting" => status = "permuting" \/ uses = <<>>
    PROVE  UsesInv' /\ NodesInv' /\ WorkInv' /\ NamespaceInv' /\ WantedInv' /\ KeysKept
<1>0. UsesInv /\ NodesInv /\ WorkInv /\ NamespaceInv /\ WantedInv
  BY DEF ProcsInv
<1>1. \A i : Sym(i)' = Sym(i)
  BY DEF Sym
<1>2. UsesInv'
  BY <1>0, <1>1 DEF UsesInv
<1>3. NodesInv'
  BY <1>0, <1>1 DEF NodesInv
<1>4. WorkInv'
  BY <1>0, <1>1 DEF WorkInv, TypeParams
<1>5. NamespaceInv'
  BY <1>0, <1>1 DEF NamespaceInv, NamespacesOf
<1>6. WantedInv'
  BY <1>0, <1>1 DEF WantedInv
<1>7. KeysKept
  BY DEF KeysKept
<1> QED
  BY <1>2, <1>3, <1>4, <1>5, <1>6, <1>7

LEMMA StopStep ==
    ASSUME ProcsInv, NEW outcome \in Final, NEW why,
           why # "unclean parser", outcome # "accepted",
           Stop(outcome, why)
    PROVE  ProcsInv' /\ KeysKept
<1> USE DEF Stop
<1>1. outcome \notin {"parsing", "permuting"}
  BY DEF Final
<1>2. UsesInv' /\ NodesInv' /\ WorkInv' /\ NamespaceInv' /\ WantedInv' /\ KeysKept
  BY <1>1, SameSymbolsStep
<1>3. TableInv(tbl_)'
  BY DEF ProcsInv
<1>4. TypeInv'
  BY DEF ProcsInv, TypeInv
<1>5. ParserInv'
  BY <1>1 DEF ProcsInv, ParserInv, Sym
<1>6. AcceptedInv'
  BY DEF AcceptedInv
<1> QED
  BY <1>2, <1>3, <1>4, <1>5, <1>6 DEF ProcsInv

-----------------------------------------------------------------------------
(* Namespaces *)

\* From the invariant of a table to its parts.
LEMMA TableParts ==
    ASSUME NEW t, TableInv(t)
    PROVE  /\ IsTable(t) /\ ScopesOK(t)
           /\ t.namespace_stack \in Seq(Words)
           /\ t.sym_table \in Seq(Symbols)
           /\ 0 \notin DOMAIN t.sym_table
           /\ DOMAIN t.sym_table \subseteq Nat
           /\ Len(t.scope_stack) \in {1, 2}
           /\ \A i \in DOMAIN t.sym_table : /\ t.sym_table[i] \in Symbols
                                            /\ SymbolOK(t, i)
<1>1. t.sym_table \in Seq(Symbols) /\ t.namespace_stack \in Seq(Words)
  BY DEF TableInv, IsTable
<1>2. DOMAIN t.sym_table = 1..Len(t.sym_table)
      /\ \A i \in DOMAIN t.sym_table : t.sym_table[i] \in Symbols
  BY <1>1
<1> QED
  BY <1>1, <1>2 DEF TableInv, ScopesOK

LEMMA NamespacesChange ==
    ASSUME NEW t, TableInv(t), NEW stack \in Seq(Words)
    PROVE  LET n == [t EXCEPT !.namespace_stack = stack] IN
           /\ TableInv(n)
           /\ n.namespace_stack = stack
           /\ n.scope_stack = t.scope_stack
           /\ n.sym_table = t.sym_table
           /\ n.type_table = t.type_table
           /\ n.type_aliases = t.type_aliases
<1> DEFINE n == [t EXCEPT !.namespace_stack = stack]
<1>1. IsTable(t)
  BY DEF TableInv
<1>2. /\ IsTable(n)
      /\ n.namespace_stack = stack
      /\ n.scope_stack = t.scope_stack
      /\ n.sym_table = t.sym_table
      /\ n.type_table = t.type_table
      /\ n.type_aliases = t.type_aliases
  BY <1>1, SMTT(40) DEF IsTable
<1> HIDE DEF n
<1>3. TableInv(n)
  BY <1>2, SameSymbols
<1> QED
  BY <1>2, <1>3 DEF n

WithStack(t, stack) == [t EXCEPT !.namespace_stack = stack]
LEMMA NamespacesChanged ==
    ASSUME NEW t, TableInv(t), NEW stack \in Seq(Words)
    PROVE  /\ TableInv(WithStack(t, stack))
           /\ WithStack(t, stack).namespace_stack = stack
           /\ WithStack(t, stack).scope_stack = t.scope_stack
           /\ WithStack(t, stack).sym_table = t.sym_table
           /\ WithStack(t, stack).type_table = t.type_table
           /\ WithStack(t, stack).type_aliases = t.type_aliases
BY NamespacesChange DEF WithStack

LEMMA ItemsStep ==
    ASSUME TypeInv, Construct, items' = items + 1
    PROVE  items' \in 0..MaxItems /\ items \in Nat
<1>1. MaxItems \in Nat /\ items \in 0..MaxItems /\ items < MaxItems
  BY SourceBounds DEF TypeInv, Construct
<1> QED
  BY <1>1

LEMMA EnterNamespaceStep ==
    ASSUME ProcsInv, NEW path \in NamespacePaths, EnterNamespace(path)
    PROVE  ProcsInv' /\ KeysKept
<1> DEFINE taken == \E i \in DOMAIN path :
                       \/ namespace_exists(tbl_, path[i])
                       \/ \E j \in 1..(i - 1) : path[j] = path[i]
<1>0. Construct
  BY DEF EnterNamespace
<1>1. CASE taken
  <2>1. Reject("nested namespace")
    BY <1>1 DEF EnterNamespace
  <2> QED
    BY <2>1, StopStep DEF Reject, Final
<1>2. CASE ~taken
  <2> DEFINE t == [tbl_ EXCEPT !.namespace_stack = tbl_.namespace_stack \o path]
             stack == tbl_.namespace_stack
  <2>1. /\ open' = Append(open, path)
        /\ tbl_' = t
        /\ items' = items + 1
        /\ UNCHANGED <<status, error, errs_failed, proc, rest, uses, toplevel_decls>>
    BY <1>2 DEF EnterNamespace, Parsed
  <2>2. /\ TableInv(tbl_) /\ TypeInv /\ ParserInv
        /\ stack \in Seq(Words)
        /\ status = "parsing" /\ proc = NoSymbol
    BY <1>0, TableParts DEF ProcsInv, Construct
  <2>3. path \in Names /\ path \in Seq(Words)
    BY SourceBounds DEF Names
  <2>4. /\ TableInv(t) /\ t.namespace_stack = stack \o path
        /\ t.scope_stack = tbl_.scope_stack
        /\ t.sym_table = tbl_.sym_table
        /\ t.type_aliases = tbl_.type_aliases
    <3>1. stack \o path \in Seq(Words)
      BY <2>2, <2>3
    <3> QED
      BY <2>2, <3>1, NamespacesChange
  <2> HIDE DEF t
  <2>5. UsesInv' /\ NodesInv' /\ WorkInv' /\ NamespaceInv' /\ WantedInv' /\ KeysKept
    BY <2>1, <2>4, SameSymbolsStep
  <2>6. TypeInv'
    <3>1. items' \in 0..MaxItems
      BY <1>0, <2>1, <2>2, ItemsStep
    <3>2. open' \in Seq(Names)
      BY <2>1, <2>2, <2>3 DEF TypeInv
    <3> QED
      BY <2>1, <2>2, <2>4, <3>1, <3>2 DEF TypeInv
  <2>7. Distinct(stack \o path)
    <3>1. Distinct(stack)
      BY <2>2 DEF ParserInv
    <3>2. \A i \in DOMAIN path : \A j \in DOMAIN stack : stack[j] # path[i]
      BY <1>2 DEF namespace_exists
    <3>3. \A i, j \in DOMAIN path : path[j] = path[i] => i = j
      <4>1. DOMAIN path = 1..Len(path)
        BY <2>3
      <4> QED
        BY <4>1, <1>2
    <3> QED
      BY <2>2, <2>3, <3>1, <3>2, <3>3 DEF Distinct
  <2>8. stack \o path = FlattenSeq(Append(open, path))
    <3>1. open \in Seq(Seq(Words)) /\ stack = FlattenSeq(open)
      <4>1. open \in Seq(Names) /\ stack = FlattenSeq(open)
        BY <2>2 DEF TypeInv, ParserInv
      <4>2. \A s \in Seq(Names) : s \in Seq(Seq(Words))
        BY DEF Names
      <4> QED
        BY <4>1, <4>2
    <3> QED
      BY <3>1, <2>3, FlattenAppend
  <2>9. ParserInv'
    BY <2>1, <2>2, <2>4, <2>7, <2>8 DEF ParserInv, Sym
  <2>10. AcceptedInv'
    BY <2>1, <2>2 DEF AcceptedInv
  <2> QED
    BY <2>1, <2>4, <2>5, <2>6, <2>9, <2>10 DEF ProcsInv
<1> QED
  BY <1>1, <1>2

LEMMA LeaveNamespaceStep ==
    ASSUME ProcsInv, LeaveNamespace
    PROVE  ProcsInv' /\ KeysKept
<1> DEFINE stack == tbl_.namespace_stack
           k == Len(stack) - Len(open[Len(open)])
           t == [tbl_ EXCEPT !.namespace_stack = SubSeq(stack, 1, k)]
<1>1. /\ status = "parsing" /\ proc = NoSymbol /\ open # <<>>
      /\ tbl_' = t
      /\ open' = SubSeq(open, 1, Len(open) - 1)
      /\ UNCHANGED <<status, error, proc, rest, uses, toplevel_decls,
                     errs_failed, items>>
  BY DEF LeaveNamespace, leave_namespaces
<1>2. /\ TableInv(tbl_) /\ TypeInv /\ ParserInv
      /\ stack \in Seq(Words)
  BY TableParts DEF ProcsInv
<1>3. open \in Seq(Seq(Words)) /\ stack = FlattenSeq(open) /\ open \in Seq(Names)
  <2>1. open \in Seq(Names) /\ stack = FlattenSeq(open)
    BY <1>1, <1>2 DEF TypeInv, ParserInv
  <2>2. \A s \in Seq(Names) : s \in Seq(Seq(Words))
    BY DEF Names
  <2> QED
    BY <2>1, <2>2
<1>4. /\ FlattenSeq(open') = SubSeq(stack, 1, k)
      /\ k \in Nat /\ k <= Len(stack)
      /\ open' \in Seq(Names)
  <2>1. /\ Len(open[Len(open)]) <= Len(stack)
        /\ FlattenSeq(SubSeq(open, 1, Len(open) - 1)) = SubSeq(stack, 1, k)
    BY <1>1, <1>3, FlattenFront
  <2>2. open[Len(open)] \in Seq(Words) /\ Len(open) - 1 \in Nat /\ Len(open) - 1 <= Len(open)
    BY <1>1, <1>3
  <2>3. k \in Nat /\ k <= Len(stack)
    <3>1. Len(stack) \in Nat /\ Len(open[Len(open)]) \in Nat
      BY <1>2, <2>2
    <3>2. \A a, b \in Nat : b <= a => a - b \in Nat /\ a - b <= a
      OBVIOUS
    <3> QED
      BY <2>1, <3>1, <3>2, Zenon
  <2>4. open' \in Seq(Names)
    BY <1>1, <1>3, <2>2, FrontLemma
  <2> QED
    BY <1>1, <2>1, <2>3, <2>4
<1> HIDE DEF k
<1>5. /\ SubSeq(stack, 1, k) \in Seq(Words)
      /\ Distinct(SubSeq(stack, 1, k))
  <2>1. /\ SubSeq(stack, 1, k) \in Seq(Words)
        /\ Len(SubSeq(stack, 1, k)) = k
        /\ \A i \in 1..k : SubSeq(stack, 1, k)[i] = stack[i]
    BY <1>2, <1>4, FrontLemma
  <2>2. Distinct(stack) /\ DOMAIN stack = 1..Len(stack)
    <3>1. Distinct(stack)
      BY <1>2 DEF ParserInv
    <3>2. DOMAIN stack = 1..Len(stack)
      BY <1>2
    <3> QED
      BY <3>1, <3>2
  <2>3. DOMAIN SubSeq(stack, 1, k) = 1..k
    BY <2>1
  <2>4. 1..k \subseteq 1..Len(stack)
    BY <1>2, <1>4
  <2> QED
    BY <2>1, <2>2, <2>3, <2>4 DEF Distinct
<1>6. /\ TableInv(t) /\ t.namespace_stack = SubSeq(stack, 1, k)
      /\ t.scope_stack = tbl_.scope_stack
      /\ t.sym_table = tbl_.sym_table
      /\ t.type_aliases = tbl_.type_aliases
  BY <1>2, <1>5, NamespacesChange
<1> HIDE DEF t
<1>7. UsesInv' /\ NodesInv' /\ WorkInv' /\ NamespaceInv' /\ WantedInv' /\ KeysKept
  BY <1>1, <1>6, SameSymbolsStep
<1>8. TypeInv'
  BY <1>1, <1>2, <1>4, <1>6 DEF TypeInv
<1>9. ParserInv'
  BY <1>1, <1>2, <1>4, <1>5, <1>6 DEF ParserInv, Sym
<1>10. AcceptedInv'
  BY <1>1 DEF AcceptedInv
<1> QED
  BY <1>1, <1>6, <1>7, <1>8, <1>9, <1>10 DEF ProcsInv

-----------------------------------------------------------------------------
(* Types, and the end of the source *)

LEMMA DeclareStructStep ==
    ASSUME ProcsInv, NEW id \in Structs, DeclareStruct(id)
    PROVE  ProcsInv' /\ KeysKept
<1> DEFINE taken == \/ /\ type_exists(tbl_, FullName(id))
                       /\ tbl_.type_table[FullName(id)] # "placeholder"
                    \/ type_alias_exists(tbl_, FullName(id))
           t == create_type(tbl_, FullName(id))
<1>0. Construct
  BY DEF DeclareStruct
<1>1. CASE taken
  <2>1. Reject("type exists")
    BY <1>1 DEF DeclareStruct
  <2> QED
    BY <2>1, StopStep DEF Reject, Final
<1>2. CASE ~taken
  <2>1. /\ tbl_' = t
        /\ items' = items + 1
        /\ UNCHANGED <<status, error, errs_failed, open, proc, rest, uses,
                       toplevel_decls>>
    BY <1>2 DEF DeclareStruct, Parsed
  <2>2. /\ TableInv(tbl_) /\ TypeInv /\ ParserInv /\ IsTable(tbl_)
        /\ Distinct(tbl_.namespace_stack)
        /\ status = "parsing" /\ proc = NoSymbol
    BY <1>0 DEF ProcsInv, Construct, TableInv, ParserInv
  <2>3. FullName(id) \in Names
    BY <2>2, SourceBounds, FullNameLemma
  <2>4. MoreTypes(tbl_, t)
    <3> DEFINE table == Bind(tbl_.type_table, FullName(id), "struct")
    <3>1. /\ DOMAIN table = DOMAIN tbl_.type_table \cup {FullName(id)}
          /\ \A k \in DOMAIN table : table[k] \in {"placeholder", "struct"}
      BY <2>2 DEF IsTable, Bind
    <3>2. t = [tbl_ EXCEPT !.type_table = table]
      BY DEF create_type
    <3> HIDE DEF table, t
    <3> QED
      BY <3>1, <3>2, <2>2, <2>3 DEF IsTable, MoreTypes
  <2> HIDE DEF t
  <2>5. /\ TableInv(t) /\ t.namespace_stack = tbl_.namespace_stack
        /\ t.scope_stack = tbl_.scope_stack
        /\ t.sym_table = tbl_.sym_table
        /\ t.type_aliases = tbl_.type_aliases
    BY <2>2, <2>4, SameSymbols DEF MoreTypes
  <2>6. UsesInv' /\ NodesInv' /\ WorkInv' /\ NamespaceInv' /\ WantedInv' /\ KeysKept
    BY <2>1, <2>5, SameSymbolsStep
  <2>7. TypeInv'
    <3>1. items' \in 0..MaxItems
      BY <1>0, <2>1, <2>2, ItemsStep
    <3> QED
      BY <2>1, <2>2, <2>5, <3>1 DEF TypeInv
  <2>8. ParserInv'
    BY <2>1, <2>2, <2>5 DEF ParserInv, Sym
  <2>9. AcceptedInv'
    BY <2>1, <2>2 DEF AcceptedInv
  <2> QED
    BY <2>1, <2>5, <2>6, <2>7, <2>8, <2>9 DEF ProcsInv
<1> QED
  BY <1>1, <1>2

LEMMA EndOfSourceStep ==
    ASSUME ProcsInv, EndOfSource
    PROVE  ProcsInv' /\ KeysKept
<1> DEFINE left == \/ \E i \in DOMAIN tbl_.sym_table : Sym(i).placeholder
                   \/ \E n \in DOMAIN tbl_.type_table :
                          tbl_.type_table[n] = "placeholder"
<1>0. status = "parsing" /\ proc = NoSymbol /\ open = <<>>
  BY DEF EndOfSource
<1>1. CASE left
  <2>1. Reject("unresolved")
    BY <1>1 DEF EndOfSource
  <2> QED
    BY <2>1, StopStep DEF Reject, Final
<1>2. CASE ~left
  <2>1. /\ status' = "permuting"
        /\ UNCHANGED <<error, tbl_, open, proc, rest, uses,
                       toplevel_decls, errs_failed, items>>
    BY <1>2 DEF EndOfSource
  <2>2. TableInv(tbl_) /\ TypeInv /\ ParserInv
    BY DEF ProcsInv
  <2>3. uses = <<>> /\ tbl_.namespace_stack = <<>>
    BY <1>0, <2>2, FlattenEmpty DEF ParserInv
  <2>4. UsesInv' /\ NodesInv' /\ WorkInv' /\ NamespaceInv' /\ WantedInv' /\ KeysKept
    BY <2>1, <2>3, SameSymbolsStep
  <2>5. TypeInv'
    BY <2>1, <2>2 DEF TypeInv
  <2>6. ParserInv'
    BY <1>0, <2>1, <2>2, <2>3 DEF ParserInv, Sym
  <2>7. AcceptedInv'
    BY <2>1 DEF AcceptedInv
  <2> QED
    BY <2>1, <2>2, <2>4, <2>5, <2>6, <2>7 DEF ProcsInv
<1> QED
  BY <1>1, <1>2

LEMMA CheckStep ==
    ASSUME ProcsInv, Check
    PROVE  ProcsInv' /\ KeysKept
<1> DEFINE wrong == \E d \in DOMAIN toplevel_decls :
                       \E u \in DOMAIN toplevel_decls[d].uses :
                           ~UseIsValid(toplevel_decls[d].uses[u])
<1>0. /\ status = "permuting" /\ proc = NoSymbol
      /\ \A i \in DOMAIN tbl_.sym_table : ~Sym(i).genperm
  BY DEF Check
<1>1. CASE errs_failed
  <2>1. Reject("takes no type arguments")
    BY <1>1 DEF Check
  <2> QED
    BY <2>1, StopStep DEF Reject, Final
<1>2. CASE ~errs_failed /\ wrong
  <2>1. Reject("checker")
    BY <1>2 DEF Check
  <2> QED
    BY <2>1, StopStep DEF Reject, Final
<1>3. CASE ~errs_failed /\ ~wrong
  <2>1. /\ status' = "accepted" /\ error' = "none"
        /\ UNCHANGED <<tbl_, open, proc, rest, uses, toplevel_decls,
                       errs_failed, items>>
    BY <1>3 DEF Check, Stop
  <2>2. TableInv(tbl_) /\ TypeInv /\ ParserInv
    BY DEF ProcsInv
  <2>3. UsesInv' /\ NodesInv' /\ WorkInv' /\ NamespaceInv' /\ WantedInv' /\ KeysKept
    BY <2>1, SameSymbolsStep
  <2>4. TypeInv'
    BY <2>1, <2>2 DEF TypeInv, Final
  <2>5. ParserInv'
    BY <2>1, <2>2 DEF ParserInv, Sym
  <2>6. AcceptedInv'
    BY <1>0, <1>3, <2>1 DEF AcceptedInv, UseIsValid, Sym
  <2> QED
    BY <2>1, <2>2, <2>3, <2>4, <2>5, <2>6 DEF ProcsInv
<1> QED
  BY <1>1, <1>2, <1>3

-----------------------------------------------------------------------------
(* Steps that declare a symbol *)

\* From t to n, the symbol i is new or was a placeholder, and no other changes.
OnlyDeclares(t, n, i) ==
    /\ i \in Nat \ {0}
    /\ DOMAIN n.sym_table = DOMAIN t.sym_table \cup {i}
    /\ \A j \in DOMAIN t.sym_table : j # i => n.sym_table[j] = t.sym_table[j]
    /\ i \in DOMAIN t.sym_table => t.sym_table[i].placeholder
    /\ n.sym_table[i].args = NoArgs /\ ~n.sym_table[i].genperm

\* The symbol gets a node if it is a procedure, unless its text is next.
LEMMA DeclaresStep ==
    ASSUME ProcsInv, TableInv(tbl_'), NEW i, OnlyDeclares(tbl_, tbl_', i),
           UNCHANGED <<status, uses, errs_failed>>,
           proc' \in {proc, i} /\ (proc' = i => proc = NoSymbol),
           \/ /\ UNCHANGED toplevel_decls
              /\ proc' = i \/ tbl_'.sym_table[i].kind = "var"
           \/ /\ toplevel_decls' = Append(toplevel_decls, [sym |-> i, uses |-> <<>>])
              /\ tbl_'.sym_table[i].kind = "proc" /\ proc' # i
    PROVE  /\ UsesInv' /\ NodesInv' /\ WorkInv' /\ NamespaceInv' /\ WantedInv'
           /\ toplevel_decls' \in Seq([sym : Nat, uses : Seq(Uses)])
           /\ proc' \in {NoSymbol} \cup DOMAIN tbl_'.sym_table
           /\ proc # NoSymbol => /\ proc' = proc
                                 /\ tbl_'.sym_table[proc] = tbl_.sym_table[proc]
           /\ \A j \in DOMAIN tbl_.sym_table :
                  tbl_.sym_table[j].genbase => tbl_'.sym_table[j] = tbl_.sym_table[j]
           /\ KeysKept
<1> DEFINE was == tbl_.sym_table
           is  == tbl_'.sym_table
           T   == DOMAIN was
<1>0. /\ UsesInv /\ NodesInv /\ WorkInv /\ NamespaceInv /\ WantedInv
      /\ TableInv(tbl_) /\ TypeInv /\ ParserInv
  BY DEF ProcsInv
\* What was there before.
<1>1. /\ i \in Nat \ {0}
      /\ DOMAIN is = T \cup {i}
      /\ \A j \in T : j # i => is[j] = was[j]
      /\ i \in T => was[i].placeholder
      /\ is[i].args = NoArgs /\ ~is[i].genperm
  BY DEF OnlyDeclares
<1>2. \A j \in T : j \in Nat \ {0} /\ was[j] \in Symbols /\ SymbolOK(tbl_, j)
  BY <1>0, TableParts
<1>3. i \in T => was[i].kind = "none" /\ ~was[i].genbase /\ was[i].args = NoArgs
  BY <1>1, <1>2 DEF SymbolOK
<1>4. \A j \in T : /\ was[j].args = is[j].args
                   /\ was[j].genperm => is[j] = was[j]
                   /\ was[j].genbase => is[j] = was[j]
                   /\ was[j].kind = "proc" => is[j] = was[j] /\ j # i
                   /\ was[j].args # NoArgs => /\ is[j] = was[j] /\ j # i
                                              /\ was[j].sym_ref \in T
  <2> TAKE j \in T
  <2>1. SymbolOK(tbl_, j)
    BY <1>2
  <2>2. was[j].genperm => was[j].args # NoArgs
    BY <2>1 DEF SymbolOK
  <2>3. was[j].args # NoArgs => was[j].sym_ref \in T
    BY <2>1 DEF SymbolOK
  <2> QED
    BY <1>1, <1>3, <2>2, <2>3
\* Nodes: the old ones are those of other procedures.
<1>5. /\ toplevel_decls \in Seq([sym : Nat, uses : Seq(Uses)])
      /\ \A d \in DOMAIN toplevel_decls :
             /\ toplevel_decls[d].sym \in T \ {proc}
             /\ toplevel_decls[d].sym # i
             /\ is[toplevel_decls[d].sym] = was[toplevel_decls[d].sym]
             /\ was[toplevel_decls[d].sym].kind = "proc"
             /\ ~was[toplevel_decls[d].sym].genperm
             /\ was[toplevel_decls[d].sym].args # NoArgs =>
                    was[was[toplevel_decls[d].sym].sym_ref].genbase
      /\ \A d, b \in DOMAIN toplevel_decls :
             toplevel_decls[d].sym = toplevel_decls[b].sym => d = b
  <2>1. toplevel_decls \in Seq([sym : Nat, uses : Seq(Uses)])
    BY <1>0 DEF TypeInv
  <2>2. \A d \in DOMAIN toplevel_decls :
             /\ toplevel_decls[d].sym \in T \ {proc}
             /\ was[toplevel_decls[d].sym].kind = "proc"
             /\ ~was[toplevel_decls[d].sym].genperm
             /\ was[toplevel_decls[d].sym].args # NoArgs =>
                    was[was[toplevel_decls[d].sym].sym_ref].genbase
    BY <1>0 DEF NodesInv, Sym
  <2>3. \A d, b \in DOMAIN toplevel_decls :
             toplevel_decls[d].sym = toplevel_decls[b].sym => d = b
    BY <1>0 DEF NodesInv
  <2> QED
    BY <2>1, <2>2, <2>3, <1>4
<1>6. /\ toplevel_decls' \in Seq([sym : Nat, uses : Seq(Uses)])
      /\ DOMAIN toplevel_decls \subseteq DOMAIN toplevel_decls'
      /\ \A d \in DOMAIN toplevel_decls : toplevel_decls'[d] = toplevel_decls[d]
      /\ \A d \in DOMAIN toplevel_decls' \ DOMAIN toplevel_decls :
             /\ toplevel_decls'[d].sym = i /\ toplevel_decls'[d].uses = <<>>
             /\ is[i].kind = "proc" /\ proc' # i
             /\ d = Len(toplevel_decls) + 1
      /\ is[i].kind # "proc" \/ proc' = i
         \/ \E d \in DOMAIN toplevel_decls' : toplevel_decls'[d].sym = i
  <2>1. CASE UNCHANGED toplevel_decls /\ (proc' = i \/ is[i].kind = "var")
    BY <2>1, <1>5
  <2>2. CASE /\ toplevel_decls' = Append(toplevel_decls, [sym |-> i, uses |-> <<>>])
             /\ is[i].kind = "proc" /\ proc' # i
    <3> DEFINE node == [sym |-> i, uses |-> <<>>]
    <3>1. node \in [sym : Nat, uses : Seq(Uses)]
      <4>1. <<>> \in Seq(Uses)
        OBVIOUS
      <4> QED
        BY <4>1, <1>1
    <3>2. node.sym = i /\ node.uses = <<>> /\ toplevel_decls' = Append(toplevel_decls, node)
      BY <2>2
    <3> HIDE DEF node
    <3>3. /\ toplevel_decls' \in Seq([sym : Nat, uses : Seq(Uses)])
          /\ DOMAIN toplevel_decls' = DOMAIN toplevel_decls \cup {Len(toplevel_decls) + 1}
          /\ toplevel_decls'[Len(toplevel_decls) + 1] = node
          /\ \A d \in DOMAIN toplevel_decls : toplevel_decls'[d] = toplevel_decls[d]
      BY <3>1, <3>2, <1>5, AppendLemma, SMTT(40)
    <3> QED
      BY <2>2, <3>2, <3>3
  <2> QED
    BY <2>1, <2>2
<1>7. /\ proc \in {NoSymbol} \cup T
      /\ proc # NoSymbol => proc' = proc /\ is[proc] = was[proc] /\ proc # i
  <2>1. proc \in {NoSymbol} \cup T
    BY <1>0 DEF TypeInv
  <2>2. proc # NoSymbol => was[proc].kind = "proc"
    BY <1>0 DEF ParserInv, Sym
  <2> QED
    BY <2>1, <2>2, <1>4
<1> HIDE DEF was, is, T
<1>8. UsesInv'
  <2>1. \A k \in DOMAIN uses : uses[k].to \in T /\ was[uses[k].to].args = uses[k].args
    BY <1>0 DEF UsesInv, Sym, T, was
  <2>2. \A d \in DOMAIN toplevel_decls : \A k \in DOMAIN toplevel_decls[d].uses :
            /\ toplevel_decls[d].uses[k].to \in T
            /\ was[toplevel_decls[d].uses[k].to].args = toplevel_decls[d].uses[k].args
    BY <1>0 DEF UsesInv, Sym, T, was
  <2>3. \A d \in DOMAIN toplevel_decls' : \A k \in DOMAIN toplevel_decls'[d].uses :
            d \in DOMAIN toplevel_decls /\ toplevel_decls'[d] = toplevel_decls[d]
    <3>1. DOMAIN <<>> = {}
      OBVIOUS
    <3> QED
      BY <3>1, <1>6
  <2>4. \A d \in DOMAIN toplevel_decls' : \A k \in DOMAIN toplevel_decls'[d].uses :
            /\ toplevel_decls'[d].uses[k].to \in DOMAIN is
            /\ is[toplevel_decls'[d].uses[k].to].args = toplevel_decls'[d].uses[k].args
    BY <2>2, <2>3, <1>1, <1>4
  <2>5. \A k \in DOMAIN uses' : uses'[k].to \in DOMAIN is /\ is[uses'[k].to].args = uses'[k].args
    BY <2>1, <1>1, <1>4
  <2> QED
    BY <2>4, <2>5 DEF UsesInv, Sym, is
<1>9. NodesInv'
  <2>1. \A d \in DOMAIN toplevel_decls' :
            /\ toplevel_decls'[d].sym \in DOMAIN is \ {proc'}
            /\ is[toplevel_decls'[d].sym].kind = "proc"
            /\ ~is[toplevel_decls'[d].sym].genperm
            /\ is[toplevel_decls'[d].sym].args # NoArgs =>
                   is[is[toplevel_decls'[d].sym].sym_ref].genbase
    <3> TAKE d \in DOMAIN toplevel_decls'
    <3>1. CASE d \in DOMAIN toplevel_decls
      <4>1. PICK j \in T : j = toplevel_decls[d].sym
        BY <3>1, <1>5
      <4>2. toplevel_decls'[d].sym = j
        BY <3>1, <4>1, <1>6
      <4>3. /\ j # proc /\ j # i /\ is[j] = was[j]
            /\ was[j].kind = "proc" /\ ~was[j].genperm
            /\ was[j].args # NoArgs => was[was[j].sym_ref].genbase
        BY <3>1, <4>1, <1>5
      <4>4. was[j].args # NoArgs => is[was[j].sym_ref].genbase
        BY <4>3, <1>4
      <4> QED
        BY <4>2, <4>3, <4>4, <1>1
    <3>2. CASE d \notin DOMAIN toplevel_decls
      BY <3>2, <1>1, <1>6
    <3> QED
      BY <3>1, <3>2
  <2>2. \A d, b \in DOMAIN toplevel_decls' :
            toplevel_decls'[d].sym = toplevel_decls'[b].sym => d = b
    <3> TAKE d, b \in DOMAIN toplevel_decls'
    <3>1. CASE d \in DOMAIN toplevel_decls /\ b \in DOMAIN toplevel_decls
      BY <3>1, <1>5, <1>6
    <3>2. CASE d \in DOMAIN toplevel_decls /\ b \notin DOMAIN toplevel_decls
      BY <3>2, <1>5, <1>6, SMTT(40)
    <3>3. CASE d \notin DOMAIN toplevel_decls /\ b \in DOMAIN toplevel_decls
      BY <3>3, <1>5, <1>6, SMTT(40)
    <3>4. CASE d \notin DOMAIN toplevel_decls /\ b \notin DOMAIN toplevel_decls
      BY <3>4, <1>6
    <3> QED
      BY <3>1, <3>2, <3>3, <3>4
  <2> QED
    BY <2>1, <2>2 DEF NodesInv, Sym, is
<1>10. WorkInv'
  <2> SUFFICES ASSUME NEW j \in DOMAIN is
               PROVE  /\ is[j].kind = "proc" /\ j # proc' /\ ~is[j].genperm /\ ~errs_failed =>
                             \E d \in DOMAIN toplevel_decls' : toplevel_decls'[d].sym = j
                      /\ is[j].args # NoArgs /\ ~is[j].genperm /\ ~errs_failed =>
                             /\ is[is[j].sym_ref].genbase
                             /\ Len(is[is[j].sym_ref].generic_type_names) = Len(is[j].args)
                      /\ is[j].args # NoArgs /\ status = "parsing" => is[j].genperm
    BY DEF WorkInv, Sym, TypeParams, is
  <2>1. CASE j = i
    BY <2>1, <1>1, <1>6
  <2>2. CASE j # i
    <3>1. j \in T /\ is[j] = was[j]
      BY <2>2, <1>1
    <3>2. /\ was[j].kind = "proc" /\ j # proc /\ ~was[j].genperm /\ ~errs_failed =>
                 \E d \in DOMAIN toplevel_decls : toplevel_decls[d].sym = j
          /\ was[j].args # NoArgs /\ ~was[j].genperm /\ ~errs_failed =>
                 /\ was[was[j].sym_ref].genbase
                 /\ Len(was[was[j].sym_ref].generic_type_names) = Len(was[j].args)
          /\ was[j].args # NoArgs /\ status = "parsing" => was[j].genperm
      BY <3>1, <1>0 DEF WorkInv, Sym, TypeParams, was, T
    <3>3. j # proc' => j # proc
      BY <1>7, <3>1, <1>2 DEF NoSymbol
    <3>4. (\E d \in DOMAIN toplevel_decls : toplevel_decls[d].sym = j)
              => \E d \in DOMAIN toplevel_decls' : toplevel_decls'[d].sym = j
      BY <1>6
    <3> QED
      BY <3>1, <3>2, <3>3, <3>4, <1>4
  <2> QED
    BY <2>1, <2>2
<1>11. NamespaceInv'
  <2>1. /\ \A d \in DOMAIN toplevel_decls :
              was[toplevel_decls[d].sym].args # NoArgs =>
                \A k \in DOMAIN toplevel_decls[d].uses :
                   toplevel_decls[d].uses[k].namespaces
                       = Tail(was[was[toplevel_decls[d].sym].sym_ref].namespace)
        /\ status = "permuting" =>
              \A k \in DOMAIN uses :
                  uses[k].namespaces = Tail(was[was[proc].sym_ref].namespace)
    BY <1>0 DEF NamespaceInv, Sym, NamespacesOf, was
  <2>2. ASSUME NEW d \in DOMAIN toplevel_decls',
               is[toplevel_decls'[d].sym].args # NoArgs,
               NEW k \in DOMAIN toplevel_decls'[d].uses
        PROVE  toplevel_decls'[d].uses[k].namespaces
                   = Tail(is[is[toplevel_decls'[d].sym].sym_ref].namespace)
    <3>1. d \in DOMAIN toplevel_decls
      BY <2>2, <1>1, <1>6
    <3>2. toplevel_decls'[d] = toplevel_decls[d]
      BY <3>1, <1>6
    <3> QED
      BY <2>1, <2>2, <3>1, <3>2, <1>4, <1>5, SMTT(40)
  <2>3. ASSUME status' = "permuting", NEW k \in DOMAIN uses'
        PROVE  uses'[k].namespaces = Tail(is[is[proc'].sym_ref].namespace)
    <3>1. status = "permuting" /\ uses' = uses /\ k \in DOMAIN uses
      BY <2>3
    <3>2. proc # NoSymbol
      <4>1. uses # <<>>
        BY <3>1
      <4> QED
        BY <4>1, <1>0 DEF ParserInv
    <3>3. was[was[proc].sym_ref].genbase /\ was[proc].args # NoArgs
      BY <3>1, <3>2, <1>0 DEF ParserInv, Sym, was
    <3>4. is[proc'] = was[proc] /\ is[was[proc].sym_ref] = was[was[proc].sym_ref]
      BY <3>2, <3>3, <1>4, <1>7
    <3> QED
      BY <2>1, <3>1, <3>4
  <2> QED
    BY <2>2, <2>3 DEF NamespaceInv, Sym, NamespacesOf, is
<1>12. WantedInv'
  <2> SUFFICES ASSUME NEW j \in DOMAIN is, is[j].args # NoArgs
               PROVE  \/ \E k \in DOMAIN uses' : uses'[k].to = j
                      \/ \E d \in DOMAIN toplevel_decls' :
                             \E k \in DOMAIN toplevel_decls'[d].uses :
                                 toplevel_decls'[d].uses[k].to = j
    BY DEF WantedInv, Sym, is
  <2>1. j \in T /\ was[j].args # NoArgs
    BY <1>1, <1>4
  <2>2. \/ \E k \in DOMAIN uses : uses[k].to = j
        \/ \E d \in DOMAIN toplevel_decls :
               \E k \in DOMAIN toplevel_decls[d].uses :
                   toplevel_decls[d].uses[k].to = j
    BY <2>1, <1>0 DEF WantedInv, Sym, was, T
  <2> QED
    BY <2>2, <1>6
<1>13. KeysKept
  BY <1>1, <1>4 DEF KeysKept, is, was, T
<1> QED
  BY <1>1, <1>4, <1>6, <1>7, <1>8, <1>9, <1>10, <1>11, <1>12, <1>13 DEF is, was, T

LEMMA DeclaredOnly ==
    ASSUME NEW t, NEW n, NEW i, NEW kind, Declared(t, n, i, kind)
    PROVE  OnlyDeclares(t, n, i)
  BY DEF Declared, OnlyDeclares

LEMMA DeclareGlobalStep ==
    ASSUME ProcsInv, NEW id \in Ids, DeclareGlobal(id)
    PROVE  ProcsInv' /\ KeysKept
<1>0. Construct
  BY DEF DeclareGlobal
<1>1. CASE Redeclared(id)
  <2>1. Reject("redeclaration")
    BY <1>1 DEF DeclareGlobal
  <2> QED
    BY <2>1, StopStep DEF Reject, Final
<1>2. CASE ~Redeclared(id)
  <2> DEFINE d == parse_decl(id, "var")
             t == d.tbl
             i == d.index
  <2>1. /\ tbl_' = t
        /\ items' = items + 1
        /\ UNCHANGED <<status, error, errs_failed, open, proc, rest, uses,
                       toplevel_decls>>
    BY <1>2 DEF DeclareGlobal, Parsed
  <2>2. /\ TableInv(tbl_) /\ TypeInv /\ ParserInv
        /\ Distinct(tbl_.namespace_stack) /\ Len(tbl_.scope_stack) = 1
        /\ status = "parsing" /\ proc = NoSymbol
    BY <1>0 DEF ProcsInv, Construct, ParserInv
  <2>3. items' \in 0..MaxItems /\ items \in Nat
    BY <1>0, <2>1, <2>2, ItemsStep
  <2>4. Declared(tbl_, t, i, "var")
    <3>1. id \in Words
      BY SourceBounds
    <3> QED
      BY <1>2, <2>2, <2>3, <3>1, DeclLemma
  <2> HIDE DEF t, i
  <2>5. /\ UsesInv' /\ NodesInv' /\ WorkInv' /\ NamespaceInv' /\ WantedInv' /\ KeysKept
        /\ toplevel_decls' \in Seq([sym : Nat, uses : Seq(Uses)])
        /\ proc' \in {NoSymbol} \cup DOMAIN tbl_'.sym_table
    <3>1. /\ TableInv(tbl_') /\ OnlyDeclares(tbl_, tbl_', i)
          /\ tbl_'.sym_table[i].kind = "var"
      BY <2>1, <2>4, DeclaredOnly DEF Declared
    <3> QED
      BY <2>1, <3>1, <2>2, DeclaresStep DEF OnlyDeclares, NoSymbol
  <2>6. TypeInv'
    BY <2>1, <2>2, <2>3, <2>5 DEF TypeInv
  <2>7. ParserInv'
    BY <2>1, <2>2, <2>4 DEF ParserInv, Declared, Sym
  <2>8. AcceptedInv'
    BY <2>1, <2>2 DEF AcceptedInv
  <2> QED
    BY <2>1, <2>4, <2>5, <2>6, <2>7, <2>8 DEF ProcsInv, Declared
<1> QED
  BY <1>1, <1>2

LEMMA BeginProcStep ==
    ASSUME ProcsInv, NEW id \in Ids, NEW text \in Texts, BeginProc(id, text)
    PROVE  ProcsInv' /\ KeysKept
<1>0. Construct
  BY DEF BeginProc
<1>1. CASE Redeclared(id)
  <2>1. Reject("redeclaration")
    BY <1>1 DEF BeginProc
  <2> QED
    BY <2>1, StopStep DEF Reject, Final
<1>2. CASE ~Redeclared(id)
  <2> DEFINE d == parse_decl(id, "proc")
             t == d.tbl
             i == d.index
  <2>1. /\ tbl_' = push_scope(t)
        /\ items' = items + 1
        /\ proc' = i
        /\ rest' = text
        /\ UNCHANGED <<status, error, errs_failed, open, uses, toplevel_decls>>
    BY <1>2 DEF BeginProc, Parsed
  <2>2. /\ TableInv(tbl_) /\ TypeInv /\ ParserInv
        /\ Distinct(tbl_.namespace_stack) /\ Len(tbl_.scope_stack) = 1
        /\ status = "parsing" /\ proc = NoSymbol
    BY <1>0 DEF ProcsInv, Construct, ParserInv
  <2>3. items' \in 0..MaxItems /\ items \in Nat
    BY <1>0, <2>1, <2>2, ItemsStep
  <2>4. Declared(tbl_, t, i, "proc")
    <3>1. id \in Words
      BY SourceBounds
    <3> QED
      BY <1>2, <2>2, <2>3, <3>1, DeclLemma
  <2> HIDE DEF t, i
  <2>5. /\ TableInv(tbl_') /\ OnlyDeclares(tbl_, tbl_', i)
        /\ tbl_'.sym_table[i].kind = "proc"
        /\ ~tbl_'.sym_table[i].genperm /\ tbl_'.sym_table[i].args = NoArgs
        /\ tbl_'.namespace_stack = tbl_.namespace_stack
        /\ tbl_'.type_aliases = tbl_.type_aliases
        /\ Len(tbl_'.scope_stack) = 2
        /\ i # NoSymbol
    <3>1. TableInv(t) /\ Len(t.scope_stack) = 1
      BY <2>2, <2>4 DEF Declared
    <3>2. /\ TableInv(tbl_')
          /\ tbl_'.sym_table = t.sym_table
          /\ tbl_'.namespace_stack = t.namespace_stack
          /\ tbl_'.type_aliases = t.type_aliases
          /\ Len(tbl_'.scope_stack) = 2
      BY <2>1, <3>1, PushScopeLemma
    <3>3. OnlyDeclares(tbl_, tbl_', i)
      BY <2>4, <3>2 DEF Declared, OnlyDeclares
    <3> QED
      BY <2>4, <3>2, <3>3 DEF Declared, NoSymbol
  <2>6. /\ UsesInv' /\ NodesInv' /\ WorkInv' /\ NamespaceInv' /\ WantedInv' /\ KeysKept
        /\ toplevel_decls' \in Seq([sym : Nat, uses : Seq(Uses)])
        /\ proc' \in {NoSymbol} \cup DOMAIN tbl_'.sym_table
    BY <2>1, <2>2, <2>5, DeclaresStep
  <2>7. TypeInv'
    <3>1. text \in Seq(TextItems)
      BY SourceBounds
    <3> QED
      BY <2>1, <2>2, <2>3, <2>6, <3>1 DEF TypeInv
  <2>8. ParserInv'
    BY <2>1, <2>2, <2>5 DEF ParserInv, Sym
  <2>9. AcceptedInv'
    BY <2>1, <2>2 DEF AcceptedInv
  <2> QED
    BY <2>5, <2>6, <2>7, <2>8, <2>9 DEF ProcsInv
<1> QED
  BY <1>1, <1>2

LEMMA DeclareGenericProcStep ==
    ASSUME ProcsInv, NEW id \in Ids, NEW params \in GenericParams,
           NEW text \in Texts, NEW intern \in Interns,
           DeclareGenericProc(id, params, text, intern)
    PROVE  ProcsInv' /\ KeysKept
<1>0. Construct
  BY DEF DeclareGenericProc
<1>1. CASE Redeclared(id)
  <2>1. Reject("redeclaration")
    BY <1>1 DEF DeclareGenericProc
  <2> QED
    BY <2>1, StopStep DEF Reject, Final
<1>2. CASE ~Redeclared(id) /\ intern /\ WarnIsErr
  <2>1. Reject("redundant intern")
    BY <1>2 DEF DeclareGenericProc
  <2> QED
    BY <2>1, StopStep DEF Reject, Final
<1>3. CASE ~Redeclared(id) /\ ~(intern /\ WarnIsErr)
  <2> DEFINE d == parse_decl(id, "proc")
             t == d.tbl
             i == d.index
             pos == IF intern THEN items + 1 ELSE items
             n == [t EXCEPT !.sym_table[i].genbase = TRUE,
                            !.sym_table[i].generic_type_names = params,
                            !.sym_table[i].text = text,
                            !.sym_table[i].internal = intern,
                            !.sym_table[i].pos = pos]
             sym == [t.sym_table[i] EXCEPT !.genbase = TRUE,
                         !.generic_type_names = params, !.text = text,
                         !.internal = intern, !.pos = pos]
  <2>1. /\ tbl_' = n
        /\ items' = items + 1
        /\ toplevel_decls' = Append(toplevel_decls, [sym |-> i, uses |-> <<>>])
        /\ UNCHANGED <<status, error, errs_failed, open, proc, rest, uses>>
    BY <1>3 DEF DeclareGenericProc, Parsed
  <2>2. /\ TableInv(tbl_) /\ TypeInv /\ ParserInv
        /\ Distinct(tbl_.namespace_stack) /\ Len(tbl_.scope_stack) = 1
        /\ status = "parsing" /\ proc = NoSymbol
    BY <1>0 DEF ProcsInv, Construct, ParserInv
  <2>3. items' \in 0..MaxItems /\ items \in Nat
    BY <1>0, <2>1, <2>2, ItemsStep
  <2>4. Declared(tbl_, t, i, "proc")
    <3>1. id \in Words
      BY SourceBounds
    <3> QED
      BY <1>3, <2>2, <2>3, <3>1, DeclLemma
  <2>5. IsTable(t) /\ t.sym_table \in Seq(Symbols) /\ i \in DOMAIN t.sym_table
        /\ SymbolOK(t, i) /\ TableInv(t) /\ Len(t.scope_stack) = 1
    <3>1. TableInv(t) /\ i \in DOMAIN t.sym_table /\ Len(t.scope_stack) = 1
      BY <2>2, <2>4 DEF Declared
    <3> QED
      BY <3>1, TableParts
  <2> HIDE DEF t, i
  <2>6. n = Updated(t, i, sym)
    <3> DEFINE st == [t.sym_table EXCEPT ![i].genbase = TRUE,
                          ![i].generic_type_names = params, ![i].text = text,
                          ![i].internal = intern, ![i].pos = pos]
    <3> HIDE DEF pos
    <3>1. t = [namespace_stack |-> t.namespace_stack, scope_stack |-> t.scope_stack,
               sym_table |-> t.sym_table, type_table |-> t.type_table,
               type_aliases |-> t.type_aliases]
      BY <2>5 DEF IsTable
    <3>2. st = [t.sym_table EXCEPT ![i] = sym]
      BY <2>5
    <3>3. n = [t EXCEPT !.sym_table = st]
      BY <2>5, <3>1, ZenonT(60)
    <3>4. Updated(t, i, sym) = [t EXCEPT !.sym_table = [t.sym_table EXCEPT ![i] = sym]]
      BY <2>5, <3>1 DEF Updated
    <3> HIDE DEF st, sym, n
    <3> QED
      BY <3>2, <3>3, <3>4
  <2> HIDE DEF n
  <2>7. /\ FitsAt(t, i, sym)
        /\ sym.kind = "proc" /\ sym.args = NoArgs /\ ~sym.genperm
    <3>1. /\ params \in Names /\ params \in Seq(Words) /\ params # <<>>
          /\ text \in Seq(TextItems) /\ intern \in BOOLEAN /\ pos \in Nat
      BY SourceBounds, <2>3 DEF Names
    <3> HIDE DEF pos
    <3>2. /\ sym \in Symbols
          /\ sym.name = t.sym_table[i].name /\ sym.args = t.sym_table[i].args
          /\ sym.namespace = t.sym_table[i].namespace
          /\ sym.kind = t.sym_table[i].kind
          /\ sym.placeholder = t.sym_table[i].placeholder
          /\ sym.genperm = t.sym_table[i].genperm
          /\ sym.sym_ref = t.sym_table[i].sym_ref
          /\ sym.genbase = TRUE /\ sym.generic_type_names = params
      <4>1. t.sym_table[i] \in Symbols
        BY <2>5
      <4> QED
        BY <3>1, <4>1 DEF Symbols
    <3>3. /\ t.sym_table[i].kind = "proc" /\ t.sym_table[i].args = NoArgs
          /\ ~t.sym_table[i].genperm /\ ~t.sym_table[i].placeholder
      BY <2>4 DEF Declared
    <3> HIDE DEF sym
    <3> QED
      BY <2>5, <3>1, <3>2, <3>3 DEF FitsAt, SymbolOK
  <2> HIDE DEF sym
  <2>8. /\ TableInv(n)
        /\ n.namespace_stack = t.namespace_stack
        /\ n.scope_stack = t.scope_stack
        /\ n.type_aliases = t.type_aliases
        /\ DOMAIN n.sym_table = DOMAIN t.sym_table
        /\ n.sym_table[i] = sym
        /\ \A j \in DOMAIN t.sym_table : j # i => n.sym_table[j] = t.sym_table[j]
    BY <2>5, <2>6, <2>7, UpdateLemma
  <2>9. /\ TableInv(tbl_') /\ OnlyDeclares(tbl_, tbl_', i)
        /\ tbl_'.sym_table[i].kind = "proc"
        /\ tbl_'.namespace_stack = tbl_.namespace_stack
        /\ tbl_'.type_aliases = tbl_.type_aliases
        /\ Len(tbl_'.scope_stack) = 1
        /\ i # NoSymbol
    BY <2>1, <2>4, <2>5, <2>7, <2>8 DEF Declared, OnlyDeclares, NoSymbol
  <2>10. /\ UsesInv' /\ NodesInv' /\ WorkInv' /\ NamespaceInv' /\ WantedInv' /\ KeysKept
         /\ toplevel_decls' \in Seq([sym : Nat, uses : Seq(Uses)])
         /\ proc' \in {NoSymbol} \cup DOMAIN tbl_'.sym_table
    BY <2>1, <2>2, <2>9, DeclaresStep
  <2>11. TypeInv'
    BY <2>1, <2>2, <2>3, <2>10 DEF TypeInv
  <2>12. ParserInv'
    BY <2>1, <2>2, <2>9 DEF ParserInv, Sym
  <2>13. AcceptedInv'
    BY <2>1, <2>2 DEF AcceptedInv
  <2> QED
    BY <2>9, <2>10, <2>11, <2>12, <2>13 DEF ProcsInv
<1> QED
  BY <1>1, <1>2, <1>3

\* The member is a global variable below the enum, which is an alias.
LEMMA DeclareEnumStep ==
    ASSUME ProcsInv, NEW e \in Enums, DeclareEnum(e[1], e[2])
    PROVE  ProcsInv' /\ KeysKept
<1> DEFINE id == e[1]
           member == e[2]
           name == FullName(id)
           full == Append(name, member)
           aliases == Bind(tbl_.type_aliases, name, [name |-> I32, ptr |-> 0])
           stack == tbl_.namespace_stack
           aliased == [tbl_ EXCEPT !.type_aliases = aliases]
           inside == [aliased EXCEPT !.namespace_stack = Append(stack, id)]
           made == create_symbol(inside, full, items, "var")
           ix == NewIndex(inside)
           done == [made EXCEPT !.sym_table[ix].global = TRUE]
<1>0. Construct
  BY DEF DeclareEnum
<1>a. inside = [create_type_alias(tbl_, FullName(id), [name |-> I32, ptr |-> 0])
                    EXCEPT !.namespace_stack = Append(@, id)]
  <2>1. IsTable(tbl_)
    BY DEF ProcsInv, TableInv
  <2>2. aliased.namespace_stack = stack
    BY <2>1 DEF IsTable
  <2>3. create_type_alias(tbl_, FullName(id), [name |-> I32, ptr |-> 0]) = aliased
    BY DEF create_type_alias
  <2> HIDE DEF aliased
  <2> QED
    BY <2>2, <2>3
<1> HIDE DEF inside
<1>1. CASE EnumNameTaken(id)
  <2>1. Reject("enum name")
    BY <1>1 DEF DeclareEnum
  <2> QED
    BY <2>1, StopStep DEF Reject, Final
<1>2. CASE ~EnumNameTaken(id) /\ scoped_symbol_exists_at_current_scope(inside, full)
  <2>1. Reject("enum member")
    BY <1>2, <1>a DEF DeclareEnum
  <2> QED
    BY <2>1, StopStep DEF Reject, Final
<1>3. CASE /\ ~EnumNameTaken(id) /\ ~scoped_symbol_exists_at_current_scope(inside, full)
           /\ namespace_exists(inside, member)
  <2>1. Reject("member is a namespace")
    BY <1>3, <1>a DEF DeclareEnum
  <2> QED
    BY <2>1, StopStep DEF Reject, Final
<1>4. CASE /\ ~EnumNameTaken(id) /\ ~scoped_symbol_exists_at_current_scope(inside, full)
           /\ ~namespace_exists(inside, member)
  <2>1. /\ tbl_' = leave_namespaces(done, 1)
        /\ items' = items + 1
        /\ UNCHANGED <<status, error, errs_failed, open, proc, rest, uses,
                       toplevel_decls>>
    BY <1>4, <1>a DEF DeclareEnum, Parsed
  <2>2. /\ TableInv(tbl_) /\ TypeInv /\ ParserInv /\ IsTable(tbl_)
        /\ Distinct(stack) /\ Len(tbl_.scope_stack) = 1
        /\ stack \in Seq(Words)
        /\ status = "parsing" /\ proc = NoSymbol
        /\ \A n \in DOMAIN tbl_.type_aliases : Head(n) = Root
    BY <1>0, TableParts DEF ProcsInv, Construct, ParserInv
  <2>3. items' \in 0..MaxItems /\ items \in Nat
    BY <1>0, <2>1, <2>2, ItemsStep
  <2>4. id \in Words /\ member \in Words
    <3>1. e \in Words \X Words
      BY SourceBounds
    <3> QED
      BY <3>1
  <2>5. name \in Names /\ Head(name) = Root /\ full \in Names /\ Head(full) = Root
    <3>1. name \in Names /\ Head(name) = Root
      BY <2>2, <2>4, FullNameLemma
    <3>2. \A s \in Seq(Words) : s # <<>> =>
              /\ Append(s, member) \in Seq(Words) /\ Append(s, member) # <<>>
              /\ Head(Append(s, member)) = Head(s)
      BY <2>4
    <3> HIDE DEF name
    <3> QED
      BY <3>1, <3>2 DEF Names
  <2>6. /\ IsTable(inside) /\ TableInv(inside)
        /\ inside.namespace_stack = Append(stack, id)
        /\ inside.scope_stack = tbl_.scope_stack
        /\ inside.sym_table = tbl_.sym_table
        /\ inside.type_aliases = aliases
        /\ \A n \in DOMAIN aliases : Head(n) = Root
    <3>1. [name |-> I32, ptr |-> 0] \in TypeExprs
      <4>1. "i32" \in Words
        BY DEF Words
      <4>2. <<"i32">> \in Seq(Words)
        BY <4>1
      <4> QED
        BY <4>2 DEF TypeExprs, I32, Names
    <3>2. /\ DOMAIN aliases = DOMAIN tbl_.type_aliases \cup {name}
          /\ \A n \in DOMAIN aliases : aliases[n] \in TypeExprs
      <4>1. \A n \in DOMAIN tbl_.type_aliases : tbl_.type_aliases[n] \in TypeExprs
        BY <2>2 DEF IsTable
      <4> HIDE DEF name
      <4> QED
        BY <3>1, <4>1 DEF Bind
    <3> HIDE DEF aliases, name
    <3>3. Append(stack, id) \in Seq(Words)
      BY <2>2, <2>4
    <3>4. /\ inside.namespace_stack = Append(stack, id)
          /\ inside.scope_stack = tbl_.scope_stack
          /\ inside.sym_table = tbl_.sym_table
          /\ inside.type_aliases = aliases
          /\ IsTable(inside)
      <4>1. /\ aliased.namespace_stack = stack
            /\ aliased.scope_stack = tbl_.scope_stack
            /\ aliased.sym_table = tbl_.sym_table
            /\ aliased.type_table = tbl_.type_table
            /\ aliased.type_aliases = aliases
            /\ IsTable(aliased)
        BY <2>2, <2>5, <3>2 DEF IsTable
      <4> HIDE DEF aliased
      <4>2. TableInv(aliased)
        BY <2>2, <4>1, SameSymbols
      <4>3. inside = WithStack(aliased, Append(stack, id))
        BY DEF inside, WithStack
      <4> QED
        <5> HIDE DEF inside
        <5>1. /\ TableInv(inside)
              /\ inside.namespace_stack = Append(stack, id)
              /\ inside.scope_stack = aliased.scope_stack
              /\ inside.sym_table = aliased.sym_table
              /\ inside.type_aliases = aliased.type_aliases
          BY <3>3, <4>2, <4>3, NamespacesChanged
        <5> QED
          BY <4>1, <5>1 DEF TableInv
    <3>5. TableInv(inside)
      BY <2>2, <3>4, SameSymbols
    <3> QED
      BY <2>2, <2>5, <3>2, <3>4, <3>5
  <2>7. Distinct(inside.namespace_stack)
    <3>1. \A j \in DOMAIN stack : stack[j] # id
      BY <1>4 DEF EnumNameTaken, namespace_exists
    <3>2. /\ DOMAIN Append(stack, id) = DOMAIN stack \cup {Len(stack) + 1}
          /\ Append(stack, id)[Len(stack) + 1] = id
          /\ \A j \in DOMAIN stack : Append(stack, id)[j] = stack[j]
      BY <2>2, <2>4, AppendLemma
    <3> QED
      BY <2>2, <2>6, <3>1, <3>2 DEF Distinct
  <2> DEFINE blank == BlankSymbol(inside, full, items)
             new == [blank EXCEPT !.kind = "var"]
             sym == [new EXCEPT !.global = TRUE]
  <2> HIDE DEF ix, full, aliases, name
  <2>8. /\ new \in Symbols /\ new.name = full /\ new.args = NoArgs
        /\ new.namespace = namespace_as_string(inside) /\ new.kind = "var"
        /\ ~new.placeholder /\ ~new.genbase /\ ~new.genperm
        /\ new.generic_type_names = <<>> /\ new.sym_ref = NoSymbol
    <3>1. blank \in Symbols
      BY <2>3, <2>5, <2>6, <2>7, BlankLemma
    <3> QED
      BY <3>1 DEF Symbols, BlankSymbol
  <2>9. Head(new.namespace) = Root /\ Distinct(Tail(new.namespace))
    <3> HIDE DEF new, blank
    <3> QED
      BY <2>3, <2>5, <2>6, <2>7, <2>8, BlankLemma
  <2>10. /\ sym \in Symbols /\ sym.name = full /\ sym.args = NoArgs
         /\ sym.namespace = new.namespace /\ sym.kind = "var"
         /\ ~sym.placeholder /\ ~sym.genbase /\ ~sym.genperm
         /\ sym.generic_type_names = <<>> /\ sym.sym_ref = NoSymbol
    <3> HIDE DEF new
    <3> QED
      BY <2>8 DEF Symbols
  <2>11. made = AddSymbol(inside, new, 1)
    BY <2>2, <2>6 DEF create_symbol
  <2> HIDE DEF new, blank, made
  <2>12. Fits(inside, new, 1)
    <3>1. 1 \in DOMAIN inside.scope_stack
      <4>1. tbl_.scope_stack \in Seq(SUBSET Nat)
        BY <2>2 DEF IsTable
      <4> QED
        BY <4>1, <2>2, <2>6
    <3>2. \A j \in inside.scope_stack[1] : ~Keyed(inside, j, full, NoArgs)
      BY <1>4, <2>2, <2>6, <3>1 DEF scoped_symbol_exists_at_current_scope, ScopesWith
    <3> QED
      BY <2>5, <2>8, <2>9, <3>1, <3>2 DEF Fits
  <2>13. /\ IsTable(made) /\ TableInv(made)
         /\ made.namespace_stack = inside.namespace_stack
         /\ made.type_aliases = inside.type_aliases
         /\ ix \in Nat \ {0}
         /\ DOMAIN made.sym_table = DOMAIN tbl_.sym_table \cup {ix}
         /\ ix \notin DOMAIN tbl_.sym_table
         /\ made.sym_table[ix] = new
         /\ \A i \in DOMAIN tbl_.sym_table : made.sym_table[i] = tbl_.sym_table[i]
         /\ Len(made.scope_stack) = 1
    <3>1. TableInv(made)
      BY <2>6, <2>11, <2>12, AddKeepsInv
    <3>2. new \in Symbols /\ 1 \in DOMAIN inside.scope_stack
      BY <2>12 DEF Fits
    <3>3. /\ IsTable(made)
          /\ made.namespace_stack = inside.namespace_stack
          /\ made.type_aliases = inside.type_aliases
          /\ ix \in Nat \ {0}
          /\ DOMAIN made.sym_table = DOMAIN inside.sym_table \cup {ix}
          /\ ix \notin DOMAIN inside.sym_table
          /\ made.sym_table[ix] = new
          /\ \A i \in DOMAIN inside.sym_table : made.sym_table[i] = inside.sym_table[i]
          /\ Len(made.scope_stack) = Len(inside.scope_stack)
      BY <2>6, <2>11, <3>2, AddSymbolLemma DEF ix
    <3> QED
      BY <2>2, <2>6, <3>1, <3>3
  <2>14. done = Updated(made, ix, sym)
    <3>1. made.sym_table \in Seq(Symbols) /\ ix \in DOMAIN made.sym_table
          /\ made = [namespace_stack |-> made.namespace_stack,
                     scope_stack |-> made.scope_stack,
                     sym_table |-> made.sym_table, type_table |-> made.type_table,
                     type_aliases |-> made.type_aliases]
      BY <2>13 DEF IsTable
    <3>2. sym = [made.sym_table[ix] EXCEPT !.global = TRUE]
      BY <2>13
    <3> HIDE DEF sym
    <3> QED
      BY <3>1, <3>2 DEF Updated
  <2> HIDE DEF done, sym
  <2>15. FitsAt(made, ix, sym)
    <3>1. ix \in DOMAIN made.sym_table /\ new.name = sym.name /\ new.args = sym.args
      BY <2>8, <2>10, <2>13
    <3> QED
      BY <2>8, <2>9, <2>10, <2>13, <3>1 DEF FitsAt
  <2>16. /\ TableInv(done)
         /\ done.namespace_stack = Append(stack, id)
         /\ done.scope_stack = made.scope_stack
         /\ done.type_aliases = aliases
         /\ DOMAIN done.sym_table = DOMAIN made.sym_table
         /\ done.sym_table[ix] = sym
         /\ \A j \in DOMAIN made.sym_table : j # ix => done.sym_table[j] = made.sym_table[j]
    BY <2>6, <2>13, <2>14, <2>15, UpdateLemma
  <2>17. SubSeq(Append(stack, id), 1, Len(Append(stack, id)) - 1) = stack
    <3> DEFINE long == Append(stack, id)
    <3>1. /\ long \in Seq(Words) /\ Len(long) - 1 = Len(stack) /\ Len(stack) \in Nat
          /\ Len(stack) <= Len(long)
          /\ \A j \in 1..Len(stack) : long[j] = stack[j]
      BY <2>2, <2>4
    <3> HIDE DEF long
    <3>2. /\ SubSeq(long, 1, Len(stack)) \in Seq(Words)
          /\ Len(SubSeq(long, 1, Len(stack))) = Len(stack)
          /\ \A j \in 1..Len(stack) : SubSeq(long, 1, Len(stack))[j] = long[j]
      BY <3>1, FrontLemma
    <3> DEFINE c == SubSeq(long, 1, Len(stack))
    <3>3. \A j \in 1..Len(c) : c[j] = stack[j]
      BY <3>1, <3>2
    <3> HIDE DEF c
    <3>4. c = stack
      BY <2>2, <3>2, <3>3, SeqEqual DEF c
    <3> QED
      BY <3>1, <3>4 DEF c, long
  <2>18. /\ TableInv(tbl_')
         /\ tbl_'.namespace_stack = stack
         /\ tbl_'.scope_stack = made.scope_stack
         /\ tbl_'.sym_table = done.sym_table
         /\ tbl_'.type_aliases = aliases
    <3>1. tbl_' = [done EXCEPT !.namespace_stack = stack]
      BY <2>1, <2>16, <2>17 DEF leave_namespaces
    <3> QED
      BY <2>2, <2>16, <3>1, NamespacesChange
  <2>19. OnlyDeclares(tbl_, tbl_', ix) /\ tbl_'.sym_table[ix].kind = "var"
    BY <2>10, <2>13, <2>16, <2>18 DEF OnlyDeclares
  <2>20. /\ UsesInv' /\ NodesInv' /\ WorkInv' /\ NamespaceInv' /\ WantedInv' /\ KeysKept
         /\ toplevel_decls' \in Seq([sym : Nat, uses : Seq(Uses)])
         /\ proc' \in {NoSymbol} \cup DOMAIN tbl_'.sym_table
    <3>1. ix # NoSymbol
      BY <2>13 DEF NoSymbol
    <3> QED
      BY <2>1, <2>2, <2>18, <2>19, <3>1, DeclaresStep
  <2>21. TypeInv'
    BY <2>1, <2>2, <2>3, <2>20 DEF TypeInv
  <2>22. ParserInv'
    BY <2>1, <2>2, <2>6, <2>13, <2>18 DEF ParserInv, Sym
  <2>23. AcceptedInv'
    BY <2>1, <2>2 DEF AcceptedInv
  <2> QED
    BY <2>18, <2>20, <2>21, <2>22, <2>23 DEF ProcsInv
<1> QED
  BY <1>1, <1>2, <1>3, <1>4

LEMMA LocalVariableStep ==
    ASSUME ProcsInv, LocalVariable
    PROVE  ProcsInv' /\ KeysKept
<1> DEFINE item == Head(rest)
           id == item.id
<1>0. /\ status \in {"parsing", "permuting"} /\ proc # NoSymbol
      /\ rest # <<>> /\ item.op = "local"
  BY DEF LocalVariable, InText
<1>1. CASE Redeclared(id)
  <2>1. Reject("redeclaration")
    BY <1>1 DEF LocalVariable
  <2> QED
    BY <2>1, StopStep DEF Reject, Final
<1>2. CASE ~Redeclared(id)
  <2> DEFINE d == parse_decl(id, "var")
             t == d.tbl
             i == d.index
  <2>1. /\ tbl_' = TypeTable(t, item.type)
        /\ rest' = Tail(rest)
        /\ UNCHANGED <<status, error, open, proc, uses, toplevel_decls,
                       errs_failed, items>>
    BY <1>2 DEF LocalVariable
  <2>2. /\ TableInv(tbl_) /\ TypeInv /\ ParserInv
        /\ Distinct(tbl_.namespace_stack) /\ Len(tbl_.scope_stack) = 2
    BY <1>0 DEF ProcsInv, ParserInv
  <2>3. items \in Nat /\ rest \in Seq(TextItems) /\ Tail(rest) \in Seq(TextItems)
        /\ item \in TextItems
    <3>1. items \in 0..MaxItems /\ rest \in Seq(TextItems)
      BY <2>2 DEF TypeInv
    <3>2. MaxItems \in Nat
      BY SourceBounds
    <3>3. items \in Nat
      BY <3>1, <3>2
    <3> QED
      BY <1>0, <3>1, <3>3
  <2>4. id \in Words /\ item.type \in TypeExprs
    BY <1>0, <2>3 DEF TextItems
  <2>5. Declared(tbl_, t, i, "var")
    BY <1>2, <2>2, <2>3, <2>4, DeclLemma
  <2> HIDE DEF t, i
  <2>6. /\ TableInv(tbl_')
        /\ tbl_'.namespace_stack = t.namespace_stack
        /\ tbl_'.scope_stack = t.scope_stack
        /\ tbl_'.sym_table = t.sym_table
        /\ tbl_'.type_aliases = t.type_aliases
    <3>1. TableInv(t) /\ IsTable(t)
      BY <2>5 DEF Declared, TableInv
    <3>2. MoreTypes(t, TypeTable(t, item.type))
      BY <2>4, <3>1, TypeTableLemma
    <3> QED
      BY <2>1, <3>1, <3>2, SameSymbols DEF MoreTypes
  <2>7. OnlyDeclares(tbl_, tbl_', i) /\ tbl_'.sym_table[i].kind = "var"
    BY <2>5, <2>6 DEF Declared, OnlyDeclares
  <2>8. /\ UsesInv' /\ NodesInv' /\ WorkInv' /\ NamespaceInv' /\ WantedInv' /\ KeysKept
        /\ toplevel_decls' \in Seq([sym : Nat, uses : Seq(Uses)])
        /\ proc' \in {NoSymbol} \cup DOMAIN tbl_'.sym_table
        /\ tbl_'.sym_table[proc] = tbl_.sym_table[proc]
        /\ \A j \in DOMAIN tbl_.sym_table :
               tbl_.sym_table[j].genbase => tbl_'.sym_table[j] = tbl_.sym_table[j]
    <3>1. proc # i
      <4>1. proc \in DOMAIN tbl_.sym_table /\ tbl_.sym_table[proc].kind = "proc"
        BY <1>0, <2>2 DEF TypeInv, ParserInv, Sym
      <4>2. SymbolOK(tbl_, proc)
        BY <2>2, <4>1 DEF TableInv
      <4> QED
        BY <2>7, <4>1, <4>2 DEF OnlyDeclares, SymbolOK
    <3> QED
      BY <1>0, <2>1, <2>6, <2>7, <3>1, DeclaresStep
  <2>9. TypeInv'
    BY <2>1, <2>2, <2>3, <2>8 DEF TypeInv
  <2>10. ParserInv'
    <3>1. /\ tbl_'.namespace_stack = tbl_.namespace_stack
          /\ tbl_'.type_aliases = tbl_.type_aliases
          /\ Len(tbl_'.scope_stack) = 2
      BY <2>2, <2>5, <2>6 DEF Declared
    <3>2. proc' = proc /\ tbl_'.sym_table[proc'] = tbl_.sym_table[proc]
      BY <2>1, <2>8
    <3>3. status = "permuting" =>
              LET base == tbl_.sym_table[proc].sym_ref IN
              tbl_'.sym_table[base] = tbl_.sym_table[base]
      <4>1. proc \in DOMAIN tbl_.sym_table
        BY <1>0, <2>2 DEF TypeInv
      <4>2. SymbolOK(tbl_, proc)
        BY <2>2, <4>1 DEF TableInv
      <4>3. status = "permuting" =>
                /\ tbl_.sym_table[proc].sym_ref \in DOMAIN tbl_.sym_table
                /\ tbl_.sym_table[tbl_.sym_table[proc].sym_ref].genbase
        BY <1>0, <2>2, <4>2 DEF ParserInv, Sym, SymbolOK
      <4> QED
        BY <2>8, <4>3
    <3> QED
      BY <1>0, <2>1, <2>2, <3>1, <3>2, <3>3
         DEF ParserInv, Sym, NamespacesOf, TypeParams
  <2>11. AcceptedInv'
    BY <1>0, <2>1 DEF AcceptedInv
  <2> QED
    BY <2>6, <2>8, <2>9, <2>10, <2>11 DEF ProcsInv
<1> QED
  BY <1>1, <1>2

-----------------------------------------------------------------------------
(* A use of a name *)

LEMMA IdentifierStep ==
    ASSUME ProcsInv, Identifier
    PROVE  ProcsInv' /\ KeysKept
<1> DEFINE was == tbl_.sym_table
           is  == tbl_'.sym_table
           T   == DOMAIN was
           item == Head(rest)
           p == parse_identifier(item.name, item.args)
           use == p.use
<1>0. /\ UsesInv /\ NodesInv /\ WorkInv /\ NamespaceInv /\ WantedInv
      /\ TableInv(tbl_) /\ TypeInv /\ ParserInv
  BY DEF ProcsInv
<1>1. /\ status \in {"parsing", "permuting"} /\ proc # NoSymbol
      /\ rest # <<>> /\ item.op = "use"
      /\ tbl_' = p.tbl
      /\ uses' = Append(uses, use)
      /\ rest' = Tail(rest)
      /\ UNCHANGED <<status, error, open, proc, toplevel_decls, errs_failed, items>>
  BY DEF Identifier, InText
<1>2. items \in Nat /\ rest \in Seq(TextItems) /\ Tail(rest) \in Seq(TextItems)
      /\ item \in TextItems
  <2>1. items \in 0..MaxItems /\ rest \in Seq(TextItems) /\ MaxItems \in Nat
    BY <1>0, SourceBounds DEF TypeInv
  <2>2. items \in Nat
    BY <2>1
  <2> QED
    BY <1>1, <2>1, <2>2
<1>3. item.name \in Names /\ item.args \in Seq(TypeExprs)
  BY <1>1, <1>2 DEF TextItems
<1>4. /\ Grown(tbl_, tbl_')
      /\ use \in Uses
      /\ use.to \in DOMAIN is
      /\ is[use.to].args = use.args
      /\ use.namespaces = tbl_.namespace_stack
      /\ \A i \in DOMAIN is \ T : is[i].args # NoArgs => i = use.to
  <2>1. Distinct(tbl_.namespace_stack)
    BY <1>0 DEF ParserInv
  <2> HIDE DEF item
  <2> QED
    BY <1>0, <1>1, <1>2, <1>3, <2>1, IdentifierLemma
<1>5. /\ TableInv(tbl_')
      /\ tbl_'.namespace_stack = tbl_.namespace_stack
      /\ tbl_'.type_aliases = tbl_.type_aliases
      /\ Len(tbl_'.scope_stack) = Len(tbl_.scope_stack)
      /\ T \subseteq DOMAIN is
      /\ \A i \in T : is[i] = was[i]
      /\ \A i \in DOMAIN is \ T :
             \/ is[i].placeholder /\ is[i].args = NoArgs
             \/ is[i].args # NoArgs /\ is[i].genperm
  BY <1>4 DEF Grown
<1>6. \A i \in T : SymbolOK(tbl_, i) /\ (was[i].args # NoArgs => was[i].sym_ref \in T)
  BY <1>0 DEF TableInv, SymbolOK
<1>7. \A i \in DOMAIN is \ T : ~is[i].genperm => is[i].kind = "none" /\ is[i].args = NoArgs
  <2>1. \A i \in DOMAIN is : SymbolOK(tbl_', i)
    BY <1>5 DEF TableInv
  <2> QED
    BY <1>5, <2>1 DEF SymbolOK
<1>8. proc \in T
  BY <1>0, <1>1 DEF TypeInv
<1> HIDE DEF was, is, T, use, p
<1>9. /\ uses \in Seq(Uses) /\ uses' \in Seq(Uses)
      /\ DOMAIN uses' = DOMAIN uses \cup {Len(uses) + 1}
      /\ uses'[Len(uses) + 1] = use
      /\ \A k \in DOMAIN uses : uses'[k] = uses[k]
  <2>1. uses \in Seq(Uses)
    BY <1>0 DEF TypeInv
  <2> QED
    BY <2>1, <1>1, <1>4, AppendLemma
<1>10. UsesInv'
  <2>1. \A k \in DOMAIN uses : uses[k].to \in T /\ was[uses[k].to].args = uses[k].args
    BY <1>0 DEF UsesInv, Sym, T, was
  <2>2. \A d \in DOMAIN toplevel_decls : \A k \in DOMAIN toplevel_decls[d].uses :
            /\ toplevel_decls[d].uses[k].to \in T
            /\ was[toplevel_decls[d].uses[k].to].args = toplevel_decls[d].uses[k].args
    BY <1>0 DEF UsesInv, Sym, T, was
  <2>3. \A k \in DOMAIN uses' : uses'[k].to \in DOMAIN is /\ is[uses'[k].to].args = uses'[k].args
    BY <1>4, <1>5, <1>9, <2>1
  <2>4. \A d \in DOMAIN toplevel_decls' : \A k \in DOMAIN toplevel_decls'[d].uses :
            /\ toplevel_decls'[d].uses[k].to \in DOMAIN is
            /\ is[toplevel_decls'[d].uses[k].to].args = toplevel_decls'[d].uses[k].args
    BY <1>1, <1>5, <2>2
  <2> QED
    BY <2>3, <2>4 DEF UsesInv, Sym, is
<1>11. NodesInv'
  <2>1. \A d \in DOMAIN toplevel_decls :
            /\ toplevel_decls[d].sym \in T \ {proc}
            /\ was[toplevel_decls[d].sym].kind = "proc"
            /\ ~was[toplevel_decls[d].sym].genperm
            /\ was[toplevel_decls[d].sym].args # NoArgs =>
                   was[was[toplevel_decls[d].sym].sym_ref].genbase
    BY <1>0 DEF NodesInv, Sym, was, T
  <2>2. \A d, b \in DOMAIN toplevel_decls :
            toplevel_decls[d].sym = toplevel_decls[b].sym => d = b
    BY <1>0 DEF NodesInv
  <2>3. \A d \in DOMAIN toplevel_decls' :
            /\ toplevel_decls'[d].sym \in DOMAIN is \ {proc'}
            /\ is[toplevel_decls'[d].sym].kind = "proc"
            /\ ~is[toplevel_decls'[d].sym].genperm
            /\ is[toplevel_decls'[d].sym].args # NoArgs =>
                   is[is[toplevel_decls'[d].sym].sym_ref].genbase
    BY <1>1, <1>5, <1>6, <2>1
  <2> QED
    BY <1>1, <2>2, <2>3 DEF NodesInv, Sym, is
<1>12. WorkInv'
  <2> SUFFICES ASSUME NEW j \in DOMAIN is
               PROVE  /\ is[j].kind = "proc" /\ j # proc' /\ ~is[j].genperm /\ ~errs_failed' =>
                             \E d \in DOMAIN toplevel_decls' : toplevel_decls'[d].sym = j
                      /\ is[j].args # NoArgs /\ ~is[j].genperm /\ ~errs_failed' =>
                             /\ is[is[j].sym_ref].genbase
                             /\ Len(is[is[j].sym_ref].generic_type_names) = Len(is[j].args)
                      /\ is[j].args # NoArgs /\ status' = "parsing" => is[j].genperm
    BY DEF WorkInv, Sym, TypeParams, is
  <2>1. CASE j \notin T
    BY <2>1, <1>5, <1>7
  <2>2. CASE j \in T
    <3>1. is[j] = was[j] /\ (was[j].args # NoArgs => is[was[j].sym_ref] = was[was[j].sym_ref])
      BY <2>2, <1>5, <1>6
    <3>2. /\ was[j].kind = "proc" /\ j # proc /\ ~was[j].genperm /\ ~errs_failed =>
                 \E d \in DOMAIN toplevel_decls : toplevel_decls[d].sym = j
          /\ was[j].args # NoArgs /\ ~was[j].genperm /\ ~errs_failed =>
                 /\ was[was[j].sym_ref].genbase
                 /\ Len(was[was[j].sym_ref].generic_type_names) = Len(was[j].args)
          /\ was[j].args # NoArgs /\ status = "parsing" => was[j].genperm
      BY <2>2, <1>0 DEF WorkInv, Sym, TypeParams, was, T
    <3> QED
      BY <3>1, <3>2, <1>1
  <2> QED
    BY <2>1, <2>2
<1>13. status = "permuting" =>
           /\ was[proc].args # NoArgs
           /\ was[was[proc].sym_ref].genbase
           /\ tbl_.namespace_stack = Tail(was[was[proc].sym_ref].namespace)
  BY <1>0, <1>1 DEF ParserInv, Sym, NamespacesOf, was
<1>14. NamespaceInv'
  <2>1. /\ \A d \in DOMAIN toplevel_decls :
              was[toplevel_decls[d].sym].args # NoArgs =>
                \A k \in DOMAIN toplevel_decls[d].uses :
                   toplevel_decls[d].uses[k].namespaces
                       = Tail(was[was[toplevel_decls[d].sym].sym_ref].namespace)
        /\ status = "permuting" =>
              \A k \in DOMAIN uses :
                  uses[k].namespaces = Tail(was[was[proc].sym_ref].namespace)
    BY <1>0 DEF NamespaceInv, Sym, NamespacesOf, was
  <2>2. \A d \in DOMAIN toplevel_decls : toplevel_decls[d].sym \in T
    BY <1>0 DEF NodesInv, T, was
  <2>3. ASSUME NEW d \in DOMAIN toplevel_decls',
               is[toplevel_decls'[d].sym].args # NoArgs,
               NEW k \in DOMAIN toplevel_decls'[d].uses
        PROVE  toplevel_decls'[d].uses[k].namespaces
                   = Tail(is[is[toplevel_decls'[d].sym].sym_ref].namespace)
    <3>1. d \in DOMAIN toplevel_decls /\ toplevel_decls' = toplevel_decls
      BY <1>1
    <3>2. PICK j \in T : j = toplevel_decls[d].sym
      BY <3>1, <2>2
    <3>3. is[j] = was[j] /\ was[j].args # NoArgs /\ is[was[j].sym_ref] = was[was[j].sym_ref]
      BY <2>3, <3>1, <3>2, <1>5, <1>6
    <3> QED
      BY <2>1, <2>3, <3>1, <3>2, <3>3
  <2>4. ASSUME status' = "permuting", NEW k \in DOMAIN uses'
        PROVE  uses'[k].namespaces = Tail(is[is[proc'].sym_ref].namespace)
    <3>1. status = "permuting" /\ proc' = proc
      BY <2>4, <1>1
    <3>2. is[proc] = was[proc] /\ is[was[proc].sym_ref] = was[was[proc].sym_ref]
      BY <3>1, <1>5, <1>6, <1>8, <1>13
    <3>3. uses'[k].namespaces = Tail(was[was[proc].sym_ref].namespace)
      BY <3>1, <2>1, <1>4, <1>9, <1>13
    <3> QED
      BY <3>1, <3>2, <3>3
  <2> QED
    BY <2>3, <2>4 DEF NamespaceInv, Sym, NamespacesOf, is
<1>15. WantedInv'
  <2> SUFFICES ASSUME NEW j \in DOMAIN is, is[j].args # NoArgs
               PROVE  \/ \E k \in DOMAIN uses' : uses'[k].to = j
                      \/ \E d \in DOMAIN toplevel_decls' :
                             \E k \in DOMAIN toplevel_decls'[d].uses :
                                 toplevel_decls'[d].uses[k].to = j
    BY DEF WantedInv, Sym, is
  <2>1. CASE j \notin T
    BY <2>1, <1>4, <1>9
  <2>2. CASE j \in T
    <3>1. was[j].args # NoArgs
      BY <2>2, <1>5
    <3>2. \/ \E k \in DOMAIN uses : uses[k].to = j
          \/ \E d \in DOMAIN toplevel_decls :
                 \E k \in DOMAIN toplevel_decls[d].uses :
                     toplevel_decls[d].uses[k].to = j
      BY <2>2, <3>1, <1>0 DEF WantedInv, Sym, was, T
    <3> QED
      BY <3>2, <1>1, <1>9
  <2> QED
    BY <2>1, <2>2
<1>16. TypeInv'
  <2>1. proc \in DOMAIN is
    BY <1>5, <1>8
  <2> QED
    BY <1>0, <1>1, <1>2, <1>9, <2>1 DEF TypeInv, is
<1>17. ParserInv'
  <2>1. is[proc] = was[proc]
        /\ (status = "permuting" => is[was[proc].sym_ref] = was[was[proc].sym_ref])
    BY <1>5, <1>6, <1>8, <1>13
  <2> QED
    BY <1>0, <1>1, <1>5, <2>1 DEF ParserInv, Sym, NamespacesOf, TypeParams, is, was
<1>18. AcceptedInv'
  BY <1>1 DEF AcceptedInv
<1>19. KeysKept
  BY <1>5 DEF KeysKept, is, was, T
<1> QED
  BY <1>5, <1>10, <1>11, <1>12, <1>14, <1>15, <1>16, <1>17, <1>18, <1>19 DEF ProcsInv

-----------------------------------------------------------------------------
(* The end of a text *)

\* The procedure gets its node, and what its body uses goes there.
LEMMA EndTextStep ==
    ASSUME ProcsInv, NEW t, TableInv(t), t.sym_table = tbl_.sym_table,
           t.scope_stack = tbl_.scope_stack,
           status = "parsing" => /\ t.namespace_stack = tbl_.namespace_stack
                                 /\ t.type_aliases = tbl_.type_aliases,
           status = "permuting" => /\ t.namespace_stack = <<>>
                                   /\ \A n \in DOMAIN t.type_aliases : Head(n) = Root,
           InText, rest = <<>>, tbl_' = pop_scope(t),
           toplevel_decls' = Append(toplevel_decls, [sym |-> proc, uses |-> uses]),
           proc' = NoSymbol, uses' = <<>>,
           UNCHANGED <<status, error, open, rest, errs_failed, items>>
    PROVE  ProcsInv' /\ KeysKept
<1> DEFINE was == tbl_.sym_table
           T   == DOMAIN was
           node == [sym |-> proc, uses |-> uses]
           new == Len(toplevel_decls) + 1
<1>0. /\ UsesInv /\ NodesInv /\ WorkInv /\ NamespaceInv /\ WantedInv
      /\ TableInv(tbl_) /\ TypeInv /\ ParserInv
  BY DEF ProcsInv
<1>1. /\ status \in {"parsing", "permuting"} /\ proc # NoSymbol
      /\ proc \in T /\ was[proc].kind = "proc" /\ ~was[proc].genperm
      /\ status = "parsing" => was[proc].args = NoArgs
      /\ status = "permuting" => was[was[proc].sym_ref].genbase
  BY <1>0 DEF InText, ParserInv, TypeInv, Sym
<1>2. /\ TableInv(tbl_')
      /\ tbl_'.sym_table = was
      /\ tbl_'.namespace_stack = t.namespace_stack
      /\ tbl_'.type_aliases = t.type_aliases
      /\ Len(tbl_'.scope_stack) = 1
  <2>1. Len(t.scope_stack) = 2
    BY <1>0, <1>1 DEF ParserInv
  <2> QED
    BY <2>1, PopScopeLemma
<1>3. /\ toplevel_decls \in Seq([sym : Nat, uses : Seq(Uses)])
      /\ node \in [sym : Nat, uses : Seq(Uses)] /\ uses \in Seq(Uses)
  <2>1. proc \in Nat
    BY <1>0, <1>1, TableParts
  <2> QED
    BY <1>0, <2>1 DEF TypeInv
<1>4. node.sym = proc /\ node.uses = uses /\ toplevel_decls' = Append(toplevel_decls, node)
  OBVIOUS
<1> HIDE DEF node
<1>5. /\ toplevel_decls' \in Seq([sym : Nat, uses : Seq(Uses)])
      /\ DOMAIN toplevel_decls' = DOMAIN toplevel_decls \cup {new}
      /\ new \notin DOMAIN toplevel_decls
      /\ toplevel_decls'[new].sym = proc /\ toplevel_decls'[new].uses = uses
      /\ \A d \in DOMAIN toplevel_decls : toplevel_decls'[d] = toplevel_decls[d]
  BY <1>3, <1>4, AppendLemma
<1>6. /\ \A d \in DOMAIN toplevel_decls :
             /\ toplevel_decls[d].sym \in T \ {proc}
             /\ was[toplevel_decls[d].sym].kind = "proc"
             /\ ~was[toplevel_decls[d].sym].genperm
             /\ was[toplevel_decls[d].sym].args # NoArgs =>
                    was[was[toplevel_decls[d].sym].sym_ref].genbase
      /\ \A d, b \in DOMAIN toplevel_decls :
             toplevel_decls[d].sym = toplevel_decls[b].sym => d = b
  BY <1>0 DEF NodesInv, Sym
<1>7. NoSymbol \notin T
  BY <1>0, TableParts DEF NoSymbol
<1> HIDE DEF was, T, new
<1>8. UsesInv'
  <2>1. /\ \A k \in DOMAIN uses : uses[k].to \in T /\ was[uses[k].to].args = uses[k].args
        /\ \A d \in DOMAIN toplevel_decls : \A k \in DOMAIN toplevel_decls[d].uses :
              /\ toplevel_decls[d].uses[k].to \in T
              /\ was[toplevel_decls[d].uses[k].to].args = toplevel_decls[d].uses[k].args
    BY <1>0 DEF UsesInv, Sym, T, was
  <2>2. \A d \in DOMAIN toplevel_decls' : \A k \in DOMAIN toplevel_decls'[d].uses :
            /\ toplevel_decls'[d].uses[k].to \in T
            /\ was[toplevel_decls'[d].uses[k].to].args = toplevel_decls'[d].uses[k].args
    <3> SUFFICES ASSUME NEW d \in DOMAIN toplevel_decls', NEW k \in DOMAIN toplevel_decls'[d].uses
                 PROVE  /\ toplevel_decls'[d].uses[k].to \in T
                        /\ was[toplevel_decls'[d].uses[k].to].args
                               = toplevel_decls'[d].uses[k].args
      OBVIOUS
    <3>1. CASE d = new
      <4>1. toplevel_decls'[d].uses = uses
        BY <3>1, <1>5
      <4> QED
        BY <4>1, <2>1
    <3>2. CASE d \in DOMAIN toplevel_decls
      <4>1. toplevel_decls'[d] = toplevel_decls[d]
        BY <3>2, <1>5
      <4> QED
        BY <4>1, <3>2, <2>1
    <3> QED
      BY <3>1, <3>2, <1>5
  <2>3. DOMAIN uses' = {}
    OBVIOUS
  <2> QED
    BY <2>2, <2>3, <1>2 DEF UsesInv, Sym, T
<1>9. NodesInv'
  <2>1. \A d \in DOMAIN toplevel_decls' :
            /\ toplevel_decls'[d].sym \in T \ {proc'}
            /\ was[toplevel_decls'[d].sym].kind = "proc"
            /\ ~was[toplevel_decls'[d].sym].genperm
            /\ was[toplevel_decls'[d].sym].args # NoArgs =>
                   was[was[toplevel_decls'[d].sym].sym_ref].genbase
    BY <1>1, <1>5, <1>6, <1>7, SMTT(40)
  <2>2. \A d, b \in DOMAIN toplevel_decls' :
            toplevel_decls'[d].sym = toplevel_decls'[b].sym => d = b
    BY <1>5, <1>6, SMTT(40)
  <2> QED
    BY <2>1, <2>2, <1>2 DEF NodesInv, Sym, T
<1>10. WorkInv'
  <2> SUFFICES ASSUME NEW j \in T
               PROVE  /\ was[j].kind = "proc" /\ j # proc' /\ ~was[j].genperm /\ ~errs_failed =>
                             \E d \in DOMAIN toplevel_decls' : toplevel_decls'[d].sym = j
                      /\ was[j].args # NoArgs /\ ~was[j].genperm /\ ~errs_failed =>
                             /\ was[was[j].sym_ref].genbase
                             /\ Len(was[was[j].sym_ref].generic_type_names) = Len(was[j].args)
                      /\ was[j].args # NoArgs /\ status = "parsing" => was[j].genperm
    BY <1>2 DEF WorkInv, Sym, TypeParams, T
  <2>1. /\ was[j].kind = "proc" /\ j # proc /\ ~was[j].genperm /\ ~errs_failed =>
               \E d \in DOMAIN toplevel_decls : toplevel_decls[d].sym = j
        /\ was[j].args # NoArgs /\ ~was[j].genperm /\ ~errs_failed =>
               /\ was[was[j].sym_ref].genbase
               /\ Len(was[was[j].sym_ref].generic_type_names) = Len(was[j].args)
        /\ was[j].args # NoArgs /\ status = "parsing" => was[j].genperm
    BY <1>0 DEF WorkInv, Sym, TypeParams, was, T
  <2> QED
    BY <2>1, <1>5
<1>11. NamespaceInv'
  <2>1. /\ \A d \in DOMAIN toplevel_decls :
              was[toplevel_decls[d].sym].args # NoArgs =>
                \A k \in DOMAIN toplevel_decls[d].uses :
                   toplevel_decls[d].uses[k].namespaces
                       = Tail(was[was[toplevel_decls[d].sym].sym_ref].namespace)
        /\ status = "permuting" =>
              \A k \in DOMAIN uses :
                  uses[k].namespaces = Tail(was[was[proc].sym_ref].namespace)
    BY <1>0 DEF NamespaceInv, Sym, NamespacesOf, was
  <2>2. \A d \in DOMAIN toplevel_decls' :
            was[toplevel_decls'[d].sym].args # NoArgs =>
                \A k \in DOMAIN toplevel_decls'[d].uses :
                   toplevel_decls'[d].uses[k].namespaces
                       = Tail(was[was[toplevel_decls'[d].sym].sym_ref].namespace)
    <3> SUFFICES ASSUME NEW d \in DOMAIN toplevel_decls',
                        was[toplevel_decls'[d].sym].args # NoArgs,
                        NEW k \in DOMAIN toplevel_decls'[d].uses
                 PROVE  toplevel_decls'[d].uses[k].namespaces
                            = Tail(was[was[toplevel_decls'[d].sym].sym_ref].namespace)
      OBVIOUS
    <3>1. CASE d = new
      <4>1. toplevel_decls'[d].uses = uses /\ toplevel_decls'[d].sym = proc
        BY <3>1, <1>5
      <4>2. status = "permuting"
        BY <4>1, <1>1
      <4> QED
        BY <4>1, <4>2, <2>1
    <3>2. CASE d \in DOMAIN toplevel_decls
      <4>1. toplevel_decls'[d] = toplevel_decls[d]
        BY <3>2, <1>5
      <4> QED
        BY <4>1, <3>2, <2>1
    <3> QED
      BY <3>1, <3>2, <1>5
  <2>3. DOMAIN uses' = {}
    OBVIOUS
  <2> QED
    BY <2>2, <2>3, <1>2 DEF NamespaceInv, Sym, NamespacesOf
<1>12. WantedInv'
  <2> SUFFICES ASSUME NEW j \in T, was[j].args # NoArgs
               PROVE  \E d \in DOMAIN toplevel_decls' :
                          \E k \in DOMAIN toplevel_decls'[d].uses :
                              toplevel_decls'[d].uses[k].to = j
    BY <1>2 DEF WantedInv, Sym, T
  <2>1. \/ \E k \in DOMAIN uses : uses[k].to = j
        \/ \E d \in DOMAIN toplevel_decls :
               \E k \in DOMAIN toplevel_decls[d].uses :
                   toplevel_decls[d].uses[k].to = j
    BY <1>0 DEF WantedInv, Sym, was, T
  <2> QED
    BY <2>1, <1>5
<1>13. TypeInv'
  <2>1. <<>> \in Seq(Uses)
    OBVIOUS
  <2> QED
    BY <1>0, <1>5, <2>1 DEF TypeInv
<1>14. ParserInv'
  <2>1. /\ error # "unclean parser" /\ Distinct(tbl_.namespace_stack)
        /\ status = "parsing" =>
               /\ tbl_.namespace_stack = FlattenSeq(open)
               /\ \A n \in DOMAIN tbl_.type_aliases : Head(n) = Root
        /\ status = "permuting" => open = <<>>
    BY <1>0 DEF ParserInv
  <2>2. Distinct(<<>>)
    BY DEF Distinct
  <2> QED
    BY <2>1, <2>2, <1>1, <1>2 DEF ParserInv
<1>15. AcceptedInv'
  BY <1>1 DEF AcceptedInv
<1>16. KeysKept
  BY <1>2 DEF KeysKept, was
<1> QED
  BY <1>2, <1>8, <1>9, <1>10, <1>11, <1>12, <1>13, <1>14, <1>15, <1>16 DEF ProcsInv

LEMMA EndProcStep == ASSUME ProcsInv, EndProc PROVE ProcsInv' /\ KeysKept
<1>1. TableInv(tbl_) /\ status = "parsing"
  BY DEF ProcsInv, EndProc
<1> QED
  BY <1>1, EndTextStep DEF EndProc, EndText

\* The clean-up after an instance leaves no type parameter behind.
LEMMA CleanedUpLemma ==
    ASSUME ProcsInv, status = "permuting", proc # NoSymbol
    PROVE  /\ TableInv(CleanedUp)
           /\ CleanedUp.sym_table = tbl_.sym_table
           /\ CleanedUp.scope_stack = tbl_.scope_stack
           /\ CleanedUp.namespace_stack = <<>>
           /\ \A n \in DOMAIN CleanedUp.type_aliases : Head(n) = Root
<1> DEFINE names   == ParamAliases(TypeParams(Sym(proc).sym_ref))
           aliases == [k \in DOMAIN tbl_.type_aliases \ names |-> tbl_.type_aliases[k]]
           d       == [tbl_ EXCEPT !.type_aliases = aliases]
<1>1. TableInv(tbl_) /\ IsTable(tbl_)
  BY DEF ProcsInv, TableInv
<1>2. \A n \in DOMAIN tbl_.type_aliases : Head(n) = Root \/ n \in names
  BY DEF ProcsInv, ParserInv
<1>3. DOMAIN aliases = DOMAIN tbl_.type_aliases \ names
      /\ \A n \in DOMAIN aliases : aliases[n] = tbl_.type_aliases[n]
  OBVIOUS
<1>4. CleanedUp = WithStack(d, <<>>)
  BY DEF CleanedUp, delete_type_aliases, WithStack
<1> HIDE DEF names, aliases
<1>5. IsTable(d) /\ d.sym_table = tbl_.sym_table /\ d.scope_stack = tbl_.scope_stack
      /\ d.type_aliases = aliases
  BY <1>1, <1>3, SMTT(20) DEF IsTable
<1> HIDE DEF d
<1>6. TableInv(d)
  BY <1>1, <1>5, SameSymbols
<1>7. <<>> \in Seq(Words)
  OBVIOUS
<1>8. /\ TableInv(CleanedUp)
      /\ CleanedUp.namespace_stack = <<>>
      /\ CleanedUp.scope_stack = d.scope_stack
      /\ CleanedUp.sym_table = d.sym_table
      /\ CleanedUp.type_aliases = d.type_aliases
  BY <1>4, <1>6, <1>7, NamespacesChanged
<1> QED
  BY <1>2, <1>3, <1>5, <1>8

LEMMA EndReparseStep == ASSUME ProcsInv, EndReparse PROVE ProcsInv' /\ KeysKept
<1>1. status = "permuting" /\ proc # NoSymbol
  BY DEF EndReparse, EndText, InText
<1> QED
  BY <1>1, CleanedUpLemma, EndTextStep DEF EndReparse, EndText

-----------------------------------------------------------------------------
(* The worklist *)

\* An instance is taken off the worklist: its text is parsed next, or it is an
\* error that it exists.
LEMMA TakenOff ==
    ASSUME ProcsInv, status = "permuting", proc = NoSymbol,
           NEW i \in DOMAIN tbl_.sym_table, Sym(i).genperm,
           NEW sym, FitsAt(tbl_, i, sym), ~sym.genperm,
           tbl_'.sym_table = Updated(tbl_, i, sym).sym_table,
           UNCHANGED <<status, uses, toplevel_decls>>,
           \/ proc' = NoSymbol /\ errs_failed'
           \/ /\ proc' = i /\ errs_failed' = errs_failed
              /\ Sym(Sym(i).sym_ref).genbase
              /\ Len(TypeParams(Sym(i).sym_ref)) = Len(Sym(i).args)
    PROVE  UsesInv' /\ NodesInv' /\ WorkInv' /\ NamespaceInv' /\ WantedInv' /\ KeysKept
<1> DEFINE was == tbl_.sym_table
           is  == tbl_'.sym_table
           T   == DOMAIN was
<1>0. /\ UsesInv /\ NodesInv /\ WorkInv /\ NamespaceInv /\ WantedInv
      /\ TableInv(tbl_) /\ uses = <<>>
  BY DEF ProcsInv, ParserInv
<1>1. /\ DOMAIN is = T /\ is[i] = sym /\ i \in T
      /\ \A j \in T : j # i => is[j] = was[j]
  BY <1>0, UpdateLemma
<1>2. \A j \in T : SymbolOK(tbl_, j)
  BY <1>0, TableParts
<1>3. /\ was[i].genperm /\ was[i].args # NoArgs
      /\ sym.args = was[i].args /\ sym.kind = "proc"
      /\ sym.sym_ref = was[i].sym_ref
  BY <1>2 DEF SymbolOK, FitsAt, Sym
<1>4. \A j \in T : is[j].args = was[j].args /\ is[j].sym_ref = was[j].sym_ref
  BY <1>1, <1>3
<1>5. \A j \in T : was[j].args # NoArgs =>
          /\ was[j].sym_ref \in T
          /\ is[was[j].sym_ref] = was[was[j].sym_ref]
  <2> SUFFICES ASSUME NEW j \in T, was[j].args # NoArgs
               PROVE  /\ was[j].sym_ref \in T
                      /\ is[was[j].sym_ref] = was[was[j].sym_ref]
    OBVIOUS
  <2>1. was[j].sym_ref \in T /\ was[was[j].sym_ref].args = NoArgs
    BY <1>2 DEF SymbolOK
  <2>2. was[j].sym_ref # i
    BY <2>1, <1>3
  <2> QED
    BY <2>1, <2>2, <1>1
<1>6. \/ proc' = NoSymbol /\ errs_failed'
      \/ /\ proc' = i /\ errs_failed' = errs_failed
         /\ was[was[i].sym_ref].genbase
         /\ Len(was[was[i].sym_ref].generic_type_names) = Len(was[i].args)
  BY DEF Sym, TypeParams
<1>7. toplevel_decls' = toplevel_decls /\ uses' = uses /\ status' = status
  OBVIOUS
<1>8. NoSymbol \notin T
  BY <1>0, TableParts DEF NoSymbol
<1> HIDE DEF was, is, T
<1>9. UsesInv'
  BY <1>0, <1>1, <1>4, <1>7 DEF UsesInv, Sym, was, is, T
<1>10. /\ \A d \in DOMAIN toplevel_decls :
             /\ toplevel_decls[d].sym \in T
             /\ was[toplevel_decls[d].sym].kind = "proc"
             /\ ~was[toplevel_decls[d].sym].genperm
             /\ was[toplevel_decls[d].sym].args # NoArgs =>
                    was[was[toplevel_decls[d].sym].sym_ref].genbase
       /\ \A d, b \in DOMAIN toplevel_decls :
             toplevel_decls[d].sym = toplevel_decls[b].sym => d = b
  BY <1>0 DEF NodesInv, Sym, was, T
<1>11. \A d \in DOMAIN toplevel_decls :
           /\ toplevel_decls[d].sym # i
           /\ is[toplevel_decls[d].sym] = was[toplevel_decls[d].sym]
  BY <1>1, <1>3, <1>10
<1>12. NodesInv'
  <2>1. \A d \in DOMAIN toplevel_decls :
            /\ toplevel_decls[d].sym \in T \ {proc'}
            /\ is[toplevel_decls[d].sym].kind = "proc"
            /\ ~is[toplevel_decls[d].sym].genperm
            /\ is[toplevel_decls[d].sym].args # NoArgs =>
                   is[is[toplevel_decls[d].sym].sym_ref].genbase
    <3> SUFFICES ASSUME NEW d \in DOMAIN toplevel_decls
                 PROVE  /\ toplevel_decls[d].sym \in T \ {proc'}
                        /\ is[toplevel_decls[d].sym].kind = "proc"
                        /\ ~is[toplevel_decls[d].sym].genperm
                        /\ is[toplevel_decls[d].sym].args # NoArgs =>
                               is[is[toplevel_decls[d].sym].sym_ref].genbase
      OBVIOUS
    <3>1. PICK j \in T : j = toplevel_decls[d].sym
      BY <1>10
    <3>2. is[j] = was[j] /\ j # i /\ j # proc'
      BY <3>1, <1>6, <1>8, <1>11
    <3> QED
      BY <3>1, <3>2, <1>5, <1>10
  <2> QED
    BY <2>1, <1>1, <1>7, <1>10 DEF NodesInv, Sym, is
<1>13. WorkInv'
  <2> SUFFICES ASSUME NEW j \in T
               PROVE  /\ is[j].kind = "proc" /\ j # proc' /\ ~is[j].genperm /\ ~errs_failed' =>
                             \E d \in DOMAIN toplevel_decls : toplevel_decls[d].sym = j
                      /\ is[j].args # NoArgs /\ ~is[j].genperm /\ ~errs_failed' =>
                             /\ is[is[j].sym_ref].genbase
                             /\ Len(is[is[j].sym_ref].generic_type_names) = Len(is[j].args)
    BY <1>1, <1>7 DEF WorkInv, Sym, TypeParams, is
  <2>1. /\ was[j].kind = "proc" /\ j # proc /\ ~was[j].genperm /\ ~errs_failed =>
               \E d \in DOMAIN toplevel_decls : toplevel_decls[d].sym = j
        /\ was[j].args # NoArgs /\ ~was[j].genperm /\ ~errs_failed =>
               /\ was[was[j].sym_ref].genbase
               /\ Len(was[was[j].sym_ref].generic_type_names) = Len(was[j].args)
    BY <1>0 DEF WorkInv, Sym, TypeParams, was, T
  <2>2. CASE j = i
    BY <2>2, <1>3, <1>4, <1>5, <1>6, SMTT(40)
  <2>3. CASE j # i
    <3>1. is[j] = was[j] /\ j # proc
      BY <2>3, <1>1, <1>8
    <3> QED
      BY <3>1, <2>1, <1>5, <1>6
  <2> QED
    BY <2>2, <2>3
<1>14. NamespaceInv'
  <2>1. \A d \in DOMAIN toplevel_decls :
              was[toplevel_decls[d].sym].args # NoArgs =>
                \A k \in DOMAIN toplevel_decls[d].uses :
                   toplevel_decls[d].uses[k].namespaces
                       = Tail(was[was[toplevel_decls[d].sym].sym_ref].namespace)
    BY <1>0 DEF NamespaceInv, Sym, NamespacesOf, was
  <2>2. \A d \in DOMAIN toplevel_decls :
              is[toplevel_decls[d].sym].args # NoArgs =>
                \A k \in DOMAIN toplevel_decls[d].uses :
                   toplevel_decls[d].uses[k].namespaces
                       = Tail(is[is[toplevel_decls[d].sym].sym_ref].namespace)
    <3> SUFFICES ASSUME NEW d \in DOMAIN toplevel_decls,
                        is[toplevel_decls[d].sym].args # NoArgs,
                        NEW k \in DOMAIN toplevel_decls[d].uses
                 PROVE  toplevel_decls[d].uses[k].namespaces
                            = Tail(is[is[toplevel_decls[d].sym].sym_ref].namespace)
      OBVIOUS
    <3>1. PICK j \in T : j = toplevel_decls[d].sym
      BY <1>10
    <3>2. is[j] = was[j] /\ was[j].args # NoArgs /\ is[was[j].sym_ref] = was[was[j].sym_ref]
      BY <3>1, <1>5, <1>11
    <3> QED
      BY <3>1, <3>2, <2>1
  <2>3. DOMAIN uses = {}
    BY <1>0
  <2> QED
    BY <2>2, <2>3, <1>7 DEF NamespaceInv, Sym, NamespacesOf, is
<1>15. WantedInv'
  BY <1>0, <1>1, <1>4, <1>7 DEF WantedInv, Sym, was, is, T
<1>16. KeysKept
  <2>1. FitsAt(tbl_, i, sym)
    OBVIOUS
  <2>2. sym.name = was[i].name
    BY <2>1 DEF FitsAt, was
  <2> QED
    BY <2>2, <1>1, <1>4 DEF KeysKept, is, was, T
<1> QED
  BY <1>9, <1>12, <1>13, <1>14, <1>15, <1>16

\* The instance stays what it is, with or without the flags of its procedure.
LEMMA InstanceFits ==
    ASSUME NEW t, TableInv(t), t.sym_table = tbl_.sym_table,
           NEW i \in DOMAIN tbl_.sym_table, Sym(i).genperm,
           NEW sym, \/ sym = [Sym(i) EXCEPT !.genperm = FALSE]
                    \/ sym = AsInstance(Sym(i), Sym(i).sym_ref)
    PROVE  FitsAt(t, i, sym) /\ ~sym.genperm
<1> DEFINE old  == t.sym_table[i]
           base == t.sym_table[old.sym_ref]
<1>1. old \in Symbols /\ SymbolOK(t, i) /\ old = Sym(i) /\ base = Sym(old.sym_ref)
  BY TableParts DEF Sym
<1>2. /\ old.genperm /\ old.args # NoArgs /\ old.kind = "proc" /\ ~old.genbase
      /\ ~old.placeholder /\ old.generic_type_names = <<>>
      /\ old.sym_ref \in DOMAIN t.sym_table
      /\ Head(old.namespace) = Root /\ Distinct(Tail(old.namespace))
  BY <1>1 DEF SymbolOK
<1>3. base \in Symbols /\ Head(base.namespace) = Root /\ Distinct(Tail(base.namespace))
  BY <1>2, TableParts DEF SymbolOK
<1> HIDE DEF old, base
<1>4. /\ sym \in Symbols /\ ~sym.genperm
      /\ sym.name = old.name /\ sym.args = old.args /\ sym.kind = old.kind
      /\ sym.placeholder = old.placeholder /\ sym.genbase = old.genbase
      /\ sym.generic_type_names = old.generic_type_names
      /\ sym.sym_ref = old.sym_ref
      /\ sym.namespace \in {old.namespace, base.namespace}
  <2>1. CASE sym = [Sym(i) EXCEPT !.genperm = FALSE]
    <3>1. sym = [old EXCEPT !.genperm = FALSE]
      BY <2>1, <1>1
    <3> QED
      BY <3>1, <1>1 DEF Symbols
  <2>2. CASE sym = AsInstance(Sym(i), Sym(i).sym_ref)
    <3>1. sym = [old EXCEPT !.genperm = FALSE, !.global = base.global,
                            !.internal = base.internal, !.pos = base.pos,
                            !.namespace = base.namespace, !.sym_ref = old.sym_ref]
      BY <2>2, <1>1 DEF AsInstance
    <3>2. old = [name |-> old.name, args |-> old.args, namespace |-> old.namespace,
                 pos |-> old.pos, kind |-> old.kind, placeholder |-> old.placeholder,
                 global |-> old.global, genbase |-> old.genbase,
                 genperm |-> old.genperm, internal |-> old.internal,
                 generic_type_names |-> old.generic_type_names, text |-> old.text,
                 sym_ref |-> old.sym_ref]
      BY <1>1 DEF Symbols
    <3>3. sym = [name |-> old.name, args |-> old.args, namespace |-> base.namespace,
                 pos |-> base.pos, kind |-> old.kind, placeholder |-> old.placeholder,
                 global |-> base.global, genbase |-> old.genbase,
                 genperm |-> FALSE, internal |-> base.internal,
                 generic_type_names |-> old.generic_type_names, text |-> old.text,
                 sym_ref |-> old.sym_ref]
      BY <3>1, <3>2
    <3>4. /\ base.namespace \in Names /\ base.pos \in Nat
          /\ base.global \in BOOLEAN /\ base.internal \in BOOLEAN
      BY <1>3 DEF Symbols
    <3>5. /\ old.name \in Names /\ old.args \in Seq(TypeExprs)
          /\ old.kind \in {"none", "var", "proc"} /\ old.placeholder \in BOOLEAN
          /\ old.genbase \in BOOLEAN /\ old.generic_type_names \in Seq(Words)
          /\ old.text \in Seq(TextItems) /\ old.sym_ref \in Nat
      BY <1>1 DEF Symbols
    <3>6. sym \in Symbols
      BY <3>3, <3>4, <3>5 DEF Symbols
    <3>7. /\ ~sym.genperm
          /\ sym.name = old.name /\ sym.args = old.args /\ sym.kind = old.kind
          /\ sym.placeholder = old.placeholder /\ sym.genbase = old.genbase
          /\ sym.generic_type_names = old.generic_type_names
          /\ sym.sym_ref = old.sym_ref
          /\ sym.namespace \in {old.namespace, base.namespace}
      BY <3>3
    <3> QED
      BY <3>6, <3>7
  <2> QED
    BY <2>1, <2>2
<1>5. Head(sym.namespace) = Root /\ Distinct(Tail(sym.namespace))
  BY <1>2, <1>3, <1>4
<1>6. Len(t.scope_stack) = 2 => i \notin t.scope_stack[2]
  <2>1. ScopesOK(t)
    BY TableParts
  <2> QED
    BY <2>1, <1>2 DEF ScopesOK, old
<1> QED
  BY <1>2, <1>4, <1>5, <1>6 DEF FitsAt, old

LEMMA BindParamsLemma ==
    ASSUME NEW t, TableInv(t), NEW params \in Seq(Words), NEW args \in Seq(TypeExprs),
           Len(params) = Len(args)
    PROVE  LET n == BindParams(t, params, args) IN
           /\ TableInv(n)
           /\ n.sym_table = t.sym_table
           /\ n.scope_stack = t.scope_stack
           /\ n.namespace_stack = t.namespace_stack
           /\ \A x \in DOMAIN n.type_aliases :
                  x \in DOMAIN t.type_aliases \/ x \in ParamAliases(params)
<1> DEFINE bound   == {ParamAlias(params[j]) : j \in DOMAIN args}
           aliases == [x \in DOMAIN t.type_aliases \cup bound |->
                           IF x \in bound
                           THEN args[CHOOSE j \in DOMAIN args : ParamAlias(params[j]) = x]
                           ELSE t.type_aliases[x]]
           n == [t EXCEPT !.type_aliases = aliases]
<1>1. IsTable(t)
  BY DEF TableInv
<1>2. DOMAIN args = DOMAIN params
      /\ \A j \in DOMAIN args : args[j] \in TypeExprs /\ params[j] \in Words
  OBVIOUS
<1>3. bound \subseteq Names /\ bound \subseteq ParamAliases(params)
  <2> SUFFICES ASSUME NEW j \in DOMAIN args
               PROVE  /\ ParamAlias(params[j]) \in Names
                      /\ ParamAlias(params[j]) \in ParamAliases(params)
    OBVIOUS
  <2>1. ParamAlias(params[j]) \in ParamAliases(params)
    BY <1>2 DEF ParamAliases
  <2>2. \A w \in Words : <<w>> \in Seq(Words) /\ <<w>> # <<>>
    OBVIOUS
  <2> QED
    BY <2>1, <2>2, <1>2 DEF ParamAlias, Names
<1>4. \A x \in bound :
          args[CHOOSE j \in DOMAIN args : ParamAlias(params[j]) = x] \in TypeExprs
  <2> SUFFICES ASSUME NEW x \in bound
               PROVE  (CHOOSE j \in DOMAIN args : ParamAlias(params[j]) = x) \in DOMAIN args
    BY <1>2
  <2> QED
    OBVIOUS
<1>5. DOMAIN aliases = DOMAIN t.type_aliases \cup bound
      /\ \A x \in DOMAIN aliases : aliases[x] \in TypeExprs
  BY <1>1, <1>4 DEF IsTable
<1>6. BindParams(t, params, args) = n
  BY DEF BindParams
<1> HIDE DEF aliases, bound
<1>7. /\ IsTable(n)
      /\ n.sym_table = t.sym_table /\ n.scope_stack = t.scope_stack
      /\ n.namespace_stack = t.namespace_stack /\ n.type_aliases = aliases
  <2>1. n = [namespace_stack |-> t.namespace_stack, scope_stack |-> t.scope_stack,
             sym_table |-> t.sym_table, type_table |-> t.type_table,
             type_aliases |-> aliases]
    <3>1. t = [namespace_stack |-> t.namespace_stack, scope_stack |-> t.scope_stack,
               sym_table |-> t.sym_table, type_table |-> t.type_table,
               type_aliases |-> t.type_aliases]
      BY <1>1 DEF IsTable
    <3> QED
      BY <3>1
  <2>2. DOMAIN t.type_table \cup DOMAIN aliases \subseteq Names
    BY <1>1, <1>3, <1>5 DEF IsTable
  <2> HIDE DEF n
  <2> QED
    BY <1>1, <1>5, <2>1, <2>2 DEF IsTable
<1> HIDE DEF n
<1>8. TableInv(n)
  BY <1>7, SameSymbols
<1> QED
  BY <1>3, <1>5, <1>6, <1>7, <1>8

\* An instance of something that takes no type arguments.
LEMMA TakesNoneStep ==
    ASSUME ProcsInv, NEW i \in DOMAIN tbl_.sym_table, status = "permuting",
           proc = NoSymbol, Sym(i).genperm,
           tbl_' = [tbl_ EXCEPT !.sym_table[i].genperm = FALSE], errs_failed' = TRUE,
           UNCHANGED <<status, error, open, proc, rest, uses, toplevel_decls, items>>
    PROVE  ProcsInv' /\ KeysKept
<1> DEFINE sym == [Sym(i) EXCEPT !.genperm = FALSE]
<1>1. TableInv(tbl_) /\ TypeInv /\ ParserInv
  BY DEF ProcsInv
<1>2. FitsAt(tbl_, i, sym) /\ ~sym.genperm
  BY <1>1, InstanceFits
<1>3. tbl_' = Updated(tbl_, i, sym)
  BY DEF Updated, Sym
<1> HIDE DEF sym
<1>4. /\ TableInv(tbl_')
      /\ tbl_'.namespace_stack = tbl_.namespace_stack
      /\ tbl_'.scope_stack = tbl_.scope_stack
      /\ tbl_'.type_aliases = tbl_.type_aliases
      /\ DOMAIN tbl_'.sym_table = DOMAIN tbl_.sym_table
  <2> DEFINE n == Updated(tbl_, i, sym)
  <2>1. /\ TableInv(n)
        /\ n.namespace_stack = tbl_.namespace_stack
        /\ n.scope_stack = tbl_.scope_stack
        /\ n.type_aliases = tbl_.type_aliases
        /\ DOMAIN n.sym_table = DOMAIN tbl_.sym_table
    BY <1>1, <1>2, UpdateLemma
  <2>2. tbl_' = n
    BY <1>3
  <2> HIDE DEF n
  <2> QED
    BY <2>1, <2>2
<1>5. UsesInv' /\ NodesInv' /\ WorkInv' /\ NamespaceInv' /\ WantedInv' /\ KeysKept
  BY <1>2, <1>3, TakenOff
<1>6. TypeInv'
  BY <1>1, <1>4 DEF TypeInv
<1>7. ParserInv'
  BY <1>1, <1>4 DEF ParserInv
<1>8. AcceptedInv'
  BY DEF AcceptedInv
<1> QED
  BY <1>4, <1>5, <1>6, <1>7, <1>8 DEF ProcsInv

\* The text of an instance is about to be parsed again.
LEMMA ReparseStep ==
    ASSUME ProcsInv, NEW i \in DOMAIN tbl_.sym_table, status = "permuting",
           proc = NoSymbol, Sym(i).genperm, ~TakesNone(Sym(i).sym_ref),
           ~WrongArity(i, Sym(i).sym_ref),
           tbl_' = BindParams([push_scope(tbl_) EXCEPT
                                  !.sym_table[i] = AsInstance(@, Sym(i).sym_ref),
                                  !.namespace_stack = @ \o NamespacesOf(Sym(i).sym_ref)],
                              TypeParams(Sym(i).sym_ref), Sym(i).args),
           proc' = i, rest' = Sym(Sym(i).sym_ref).text,
           UNCHANGED <<status, error, open, uses, toplevel_decls, errs_failed, items>>
    PROVE  ProcsInv' /\ KeysKept
<1> DEFINE old   == Sym(i)
           at    == old.sym_ref
           base  == Sym(at)
           names == Tail(base.namespace)
           sym   == AsInstance(old, at)
           p     == push_scope(tbl_)
           u     == Updated(p, i, sym)
           n     == [u EXCEPT !.namespace_stack = names]
<1>1. TableInv(tbl_) /\ TypeInv /\ ParserInv
  BY DEF ProcsInv
<1>2. /\ Len(tbl_.scope_stack) = 1 /\ tbl_.namespace_stack = <<>> /\ uses = <<>>
      /\ open = <<>> /\ \A x \in DOMAIN tbl_.type_aliases : Head(x) = Root
      /\ error # "unclean parser"
  BY <1>1 DEF ParserInv
<1>3. /\ TableInv(p) /\ p.sym_table = tbl_.sym_table
      /\ p.namespace_stack = <<>> /\ p.type_aliases = tbl_.type_aliases
      /\ Len(p.scope_stack) = 2
  BY <1>1, <1>2, PushScopeLemma
<1>4. old \in Symbols /\ SymbolOK(tbl_, i)
  BY <1>1, TableParts DEF Sym
<1>5. /\ old.args # NoArgs /\ old.kind = "proc" /\ old.args \in Seq(TypeExprs)
      /\ at \in DOMAIN tbl_.sym_table /\ base.args = NoArgs /\ at # i
  BY <1>4 DEF SymbolOK, Symbols, Sym
<1>6. base \in Symbols /\ SymbolOK(tbl_, at)
  BY <1>1, <1>5, TableParts DEF Sym
<1>7. /\ base.generic_type_names # <<>> /\ base.genbase
      /\ base.generic_type_names \in Seq(Words)
      /\ Len(base.generic_type_names) = Len(old.args)
      /\ base.text \in Seq(TextItems)
      /\ base.namespace \in Seq(Words) /\ base.namespace # <<>>
      /\ Distinct(names)
  BY <1>6 DEF SymbolOK, Symbols, Sym, TakesNone, WrongArity, TypeParams, Names
<1>8. names \in Seq(Words)
  BY <1>7
<1>9. /\ FitsAt(tbl_, i, sym) /\ FitsAt(p, i, sym) /\ ~sym.genperm
  BY <1>1, <1>3, InstanceFits
<1>10. sym.kind = old.kind /\ sym.args = old.args /\ sym.sym_ref = at
  BY <1>4, <1>9 DEF AsInstance, FitsAt, Symbols, Sym
<1>11. [push_scope(tbl_) EXCEPT !.sym_table[i] = AsInstance(@, at),
                                !.namespace_stack = @ \o NamespacesOf(at)] = n
  <2>1. IsTable(p)
    BY <1>3 DEF TableInv
  <2>2. p.namespace_stack \o NamespacesOf(at) = names
    BY <1>3, <1>8 DEF NamespacesOf
  <2>3. p.sym_table[i] = old
    BY <1>3 DEF Sym
  <2>4. p = [namespace_stack |-> p.namespace_stack, scope_stack |-> p.scope_stack,
             sym_table |-> p.sym_table, type_table |-> p.type_table,
             type_aliases |-> p.type_aliases]
    BY <2>1 DEF IsTable
  <2>5. [push_scope(tbl_) EXCEPT !.sym_table[i] = AsInstance(@, at),
                                 !.namespace_stack = @ \o NamespacesOf(at)]
            = [[p EXCEPT !.sym_table = [p.sym_table EXCEPT ![i] = AsInstance(p.sym_table[i], at)]]
                  EXCEPT !.namespace_stack = p.namespace_stack \o NamespacesOf(at)]
    <3> HIDE DEF at, old
    <3>1. push_scope(tbl_) = p
      OBVIOUS
    <3> HIDE DEF p
    <3> QED
      BY <3>1, <2>4
  <2>6. u = [p EXCEPT !.sym_table = [p.sym_table EXCEPT ![i] = sym]]
    <3> HIDE DEF p, sym
    <3> QED
      BY <2>4 DEF Updated
  <2> HIDE DEF p, old, at, names, u
  <2> QED
    BY <2>2, <2>3, <2>5, <2>6
<1> HIDE DEF p
<1>12. /\ TableInv(u) /\ u.scope_stack = p.scope_stack
       /\ u.type_aliases = tbl_.type_aliases
       /\ DOMAIN u.sym_table = DOMAIN tbl_.sym_table
       /\ u.sym_table[i] = sym /\ u.sym_table[at] = base
  <2>1. /\ TableInv(u) /\ u.scope_stack = p.scope_stack
        /\ u.type_aliases = p.type_aliases
        /\ DOMAIN u.sym_table = DOMAIN p.sym_table
        /\ u.sym_table[i] = sym
        /\ \A j \in DOMAIN p.sym_table : j # i => u.sym_table[j] = p.sym_table[j]
    BY <1>3, <1>9, UpdateLemma
  <2> HIDE DEF u
  <2> QED
    BY <2>1, <1>3, <1>5 DEF Sym
<1>13. u.sym_table = Updated(tbl_, i, sym).sym_table
  <2>1. IsTable(p) /\ IsTable(tbl_)
    BY <1>1, <1>3 DEF TableInv
  <2> QED
    BY <2>1, <1>3 DEF Updated, IsTable
<1> HIDE DEF u
<1>14. /\ TableInv(n) /\ n.sym_table = u.sym_table /\ n.scope_stack = u.scope_stack
       /\ n.namespace_stack = names /\ n.type_aliases = u.type_aliases
  BY <1>8, <1>12, NamespacesChange
<1> HIDE DEF n
<1>15. tbl_' = BindParams(n, base.generic_type_names, old.args)
  BY <1>11 DEF TypeParams
<1>16. /\ TableInv(tbl_') /\ tbl_'.sym_table = u.sym_table
       /\ Len(tbl_'.scope_stack) = 2 /\ tbl_'.namespace_stack = names
       /\ \A x \in DOMAIN tbl_'.type_aliases :
              Head(x) = Root \/ x \in ParamAliases(base.generic_type_names)
  <2> DEFINE params == base.generic_type_names
             args   == old.args
             b      == BindParams(n, params, args)
  <2>1. /\ params \in Seq(Words) /\ args \in Seq(TypeExprs) /\ Len(params) = Len(args)
        /\ tbl_' = b
    BY <1>5, <1>7, <1>15
  <2> HIDE DEF params, args
  <2>2. /\ TableInv(b) /\ b.sym_table = n.sym_table /\ b.scope_stack = n.scope_stack
        /\ b.namespace_stack = n.namespace_stack
        /\ \A x \in DOMAIN b.type_aliases :
               x \in DOMAIN n.type_aliases \/ x \in ParamAliases(params)
    BY <1>14, <2>1, BindParamsLemma
  <2> HIDE DEF b
  <2> QED
    BY <1>2, <1>3, <1>12, <1>14, <2>1, <2>2 DEF params
<1>17. UsesInv' /\ NodesInv' /\ WorkInv' /\ NamespaceInv' /\ WantedInv' /\ KeysKept
  BY <1>7, <1>9, <1>13, <1>16, TakenOff DEF TypeParams
<1>18. TypeInv'
  BY <1>1, <1>7, <1>12, <1>16 DEF TypeInv
<1>19. ParserInv'
  <2>1. tbl_'.sym_table[i] = sym /\ tbl_'.sym_table[at] = base
    BY <1>12, <1>16
  <2>2. i # NoSymbol
    BY <1>1, TableParts DEF NoSymbol
  <2>3. /\ error' # "unclean parser" /\ Distinct(tbl_'.namespace_stack)
        /\ Len(tbl_'.scope_stack) = 2 /\ proc' # NoSymbol /\ proc' = i
        /\ status' = "permuting" /\ open' = <<>>
    BY <1>2, <1>7, <1>16, <2>2
  <2>4. /\ sym.kind = "proc" /\ ~sym.genperm /\ sym.args # NoArgs /\ sym.sym_ref = at
        /\ base.genbase /\ names = Tail(base.namespace)
    BY <1>5, <1>7, <1>9, <1>10
  <2> HIDE DEF sym, base, at, names
  <2> QED
    BY <2>1, <2>3, <2>4, <1>16 DEF ParserInv, NamespacesOf, TypeParams, Sym
<1>20. AcceptedInv'
  BY DEF AcceptedInv
<1> QED
  BY <1>16, <1>17, <1>18, <1>19, <1>20 DEF ProcsInv

\* The parser is clean when the worklist takes an instance.
LEMMA NoUncleanParser ==
    ASSUME ProcsInv, NEW i \in DOMAIN tbl_.sym_table, status = "permuting",
           proc = NoSymbol, Sym(i).genperm
    PROVE  /\ tbl_.namespace_stack = <<>> /\ Len(tbl_.scope_stack) = 1
           /\ ~EntersTwice(NamespacesOf(Sym(i).sym_ref))
<1>1. TableInv(tbl_) /\ ParserInv
  BY DEF ProcsInv
<1>2. Sym(i).sym_ref \in DOMAIN tbl_.sym_table
  BY <1>1, TableParts DEF SymbolOK, Sym
<1> DEFINE names == NamespacesOf(Sym(i).sym_ref)
<1>3. Distinct(names) /\ names \in Seq(Words)
  <2> DEFINE base == tbl_.sym_table[Sym(i).sym_ref]
  <2>1. base \in Symbols /\ SymbolOK(tbl_, Sym(i).sym_ref)
    BY <1>1, <1>2, TableParts
  <2>2. Distinct(Tail(base.namespace)) /\ base.namespace \in Seq(Words)
        /\ base.namespace # <<>>
    BY <2>1 DEF SymbolOK, Symbols, Names
  <2>3. names = Tail(base.namespace)
    BY DEF NamespacesOf, Sym
  <2> HIDE DEF base, names
  <2> QED
    BY <2>2, <2>3
<1> HIDE DEF names
<1>4. ~EntersTwice(names)
  BY <1>3 DEF EntersTwice, Distinct
<1> QED
  BY <1>1, <1>4 DEF ParserInv, names

LEMMA PermuteStep ==
    ASSUME ProcsInv, NEW i \in DOMAIN tbl_.sym_table, Permute(i)
    PROVE  ProcsInv' /\ KeysKept
<1> DEFINE base == Sym(i).sym_ref
<1>1. status = "permuting" /\ proc = NoSymbol /\ Sym(i).genperm
  BY DEF Permute
<1>2. /\ tbl_.namespace_stack = <<>> /\ Len(tbl_.scope_stack) = 1
      /\ ~EntersTwice(NamespacesOf(base))
  BY <1>1, NoUncleanParser
<1>3. CASE TakesNone(base)
  BY <1>1, <1>3, TakesNoneStep DEF Permute
<1>4. CASE ~TakesNone(base)
  <2>1. BeginReparse(i, base)
    BY <1>4 DEF Permute
  <2>2. \/ Stop("aborted", "source position")
        \/ Stop("rejected", "wrong number of type arguments")
        \/ Stop("aborted", "type parameter")
        \/ /\ ~WrongArity(i, base)
           /\ tbl_' = BindParams([push_scope(tbl_) EXCEPT
                                     !.sym_table[i] = AsInstance(@, base),
                                     !.namespace_stack = @ \o NamespacesOf(base)],
                                 TypeParams(base), Sym(i).args)
           /\ proc' = i /\ rest' = Sym(base).text
           /\ UNCHANGED <<status, error, open, uses, toplevel_decls, errs_failed, items>>
    BY <1>2, <2>1 DEF BeginReparse, Abort, Reject
  <2>3. "aborted" \in Final /\ "rejected" \in Final
    BY DEF Final
  <2>4. CASE Stop("aborted", "source position")
    BY <2>3, <2>4, StopStep
  <2>5. CASE Stop("rejected", "wrong number of type arguments")
    BY <2>3, <2>5, StopStep
  <2>6. CASE Stop("aborted", "type parameter")
    BY <2>3, <2>6, StopStep
  <2> QED
    BY <1>1, <1>4, <2>2, <2>4, <2>5, <2>6, ReparseStep
<1> QED
  BY <1>3, <1>4

-----------------------------------------------------------------------------
(* The invariant, and what follows from it *)

LEMMA StutterStep == ASSUME ProcsInv, UNCHANGED vars PROVE ProcsInv' /\ KeysKept
<1>1. UsesInv' /\ NodesInv' /\ WorkInv' /\ NamespaceInv' /\ WantedInv' /\ KeysKept
  BY SameSymbolsStep DEF vars
<1>2. TableInv(tbl_)' /\ TypeInv'
  BY DEF vars, ProcsInv, TypeInv
<1>3. ParserInv' /\ AcceptedInv'
  BY DEF vars, ProcsInv, ParserInv, AcceptedInv, Sym, NamespacesOf, TypeParams,
         UseIsValid
<1> QED
  BY <1>1, <1>2, <1>3 DEF ProcsInv

\* Every step of the compiler keeps the invariant.
LEMMA NextProcsInv == ASSUME ProcsInv, [Next]_vars PROVE ProcsInv' /\ KeysKept
<1>1. ASSUME NEW path \in NamespacePaths, EnterNamespace(path) PROVE ProcsInv' /\ KeysKept
  BY <1>1, EnterNamespaceStep
<1>2. CASE LeaveNamespace
  BY <1>2, LeaveNamespaceStep
<1>3. ASSUME NEW id \in Ids, DeclareGlobal(id) PROVE ProcsInv' /\ KeysKept
  BY <1>3, DeclareGlobalStep
<1>4. ASSUME NEW id \in Ids, NEW text \in Texts, BeginProc(id, text) PROVE ProcsInv' /\ KeysKept
  BY <1>4, BeginProcStep
<1>5. ASSUME NEW id \in Ids, NEW params \in GenericParams, NEW text \in Texts,
             NEW intern \in Interns, DeclareGenericProc(id, params, text, intern)
      PROVE  ProcsInv' /\ KeysKept
  BY <1>5, DeclareGenericProcStep
<1>6. ASSUME NEW id \in Structs, DeclareStruct(id) PROVE ProcsInv' /\ KeysKept
  BY <1>6, DeclareStructStep
<1>7. ASSUME NEW e \in Enums, DeclareEnum(e[1], e[2]) PROVE ProcsInv' /\ KeysKept
  BY <1>7, DeclareEnumStep
<1>8. CASE EndOfSource
  BY <1>8, EndOfSourceStep
<1>9. CASE Identifier
  BY <1>9, IdentifierStep
<1>10. CASE LocalVariable
  BY <1>10, LocalVariableStep
<1>11. CASE EndProc
  BY <1>11, EndProcStep
<1>12. ASSUME NEW i \in DOMAIN tbl_.sym_table, Permute(i) PROVE ProcsInv' /\ KeysKept
  BY <1>12, PermuteStep
<1>13. CASE EndReparse
  BY <1>13, EndReparseStep
<1>14. CASE Check
  BY <1>14, CheckStep
<1>15. CASE UNCHANGED vars
  BY <1>15, StutterStep
<1> QED
  BY <1>1, <1>2, <1>3, <1>4, <1>5, <1>6, <1>7, <1>8, <1>9, <1>10, <1>11, <1>12,
     <1>13, <1>14, <1>15 DEF Next, Source, Compile, Terminated

\* The table, the nodes and the worklist agree in every state the compiler
\* reaches, whatever the source.
THEOREM ProcsInvariant == Spec => []ProcsInv
<1>1. Init => ProcsInv
  BY InitProcsInv
<1>2. ProcsInv /\ [Next]_vars => ProcsInv'
  BY NextProcsInv
<1> QED
  BY <1>1, <1>2, PTL DEF Spec

\* The nodes of the AST keep symbols by their index: no step takes a symbol out
\* of sym_table_, makes an instance of what was none, or gives an instance
\* another name or other type arguments, the step that parses it again included.
THEOREM KeysAreKept == Spec => [][KeysKept]_vars
<1>1. ProcsInv /\ [Next]_vars => [KeysKept]_vars
  BY NextProcsInv
<1> QED
  BY <1>1, ProcsInvariant, PTL DEF Spec

\* Type correctness: what the tables hold is what their declarations in the
\* code say, and every index in a scope, a node or a symbol is a symbol's.
THEOREM TypeCorrect == Spec => []TypeOK
<1>1. ASSUME ProcsInv PROVE TypeOK
  <2>1. TypeInv /\ TableInv(tbl_) /\ NodesInv
    BY <1>1 DEF ProcsInv
  <2>2. \A i \in DOMAIN tbl_.sym_table :
            /\ Head(Sym(i).name) = Root
            /\ Sym(i).kind \in {"none", "var", "proc"}
            /\ Sym(i).sym_ref \in {NoSymbol} \cup DOMAIN tbl_.sym_table
    <3> SUFFICES ASSUME NEW i \in DOMAIN tbl_.sym_table
                 PROVE  /\ Head(Sym(i).name) = Root
                        /\ Sym(i).kind \in {"none", "var", "proc"}
                        /\ Sym(i).sym_ref \in {NoSymbol} \cup DOMAIN tbl_.sym_table
      OBVIOUS
    <3>1. Sym(i) \in Symbols /\ SymbolOK(tbl_, i)
      BY <2>1, TableParts DEF Sym
    <3>2. Sym(i).kind \in {"none", "var", "proc"}
      BY <3>1 DEF Symbols
    <3> QED
      BY <3>1, <3>2 DEF SymbolOK, Sym
  <2>3. \A k \in DOMAIN tbl_.scope_stack :
            tbl_.scope_stack[k] \subseteq DOMAIN tbl_.sym_table
    BY <2>1 DEF TableInv, ScopesOK
  <2>4. \A n \in DOMAIN tbl_.type_table :
            tbl_.type_table[n] \in {"placeholder", "struct"}
    BY <2>1 DEF TableInv, IsTable
  <2>5. \A n \in Nodes : n.sym \in DOMAIN tbl_.sym_table
    BY <2>1 DEF NodesInv, Nodes, ToSet
  <2> QED
    BY <2>1, <2>2, <2>3, <2>4, <2>5 DEF TypeOK, TypeInv
<1> QED
  BY <1>1, ProcsInvariant, PTL

\* generate_procedure_signatures and generate_procdecl meet in one function for
\* each procedure symbol: two symbols of the global scope have different names,
\* and when the program is accepted every procedure symbol, an instance or not,
\* has one node and no second.
THEOREM OneBodyPerProcedureHolds == Spec => []OneBodyPerProcedure
<1>1. ASSUME ProcsInv PROVE OneBodyPerProcedure
  <2>1. TableInv(tbl_) /\ TypeInv /\ NodesInv /\ WorkInv /\ AcceptedInv
    BY <1>1 DEF ProcsInv
  <2>2. \A i, j \in GlobalScope : Keyed(tbl_, i, Sym(j).name, Sym(j).args) => i = j
    <3>1. ScopesOK(tbl_) /\ IsTable(tbl_)
      BY <2>1 DEF TableInv
    <3>2. 1 \in DOMAIN tbl_.scope_stack
      BY <3>1 DEF ScopesOK, IsTable
    <3> QED
      BY <3>1, <3>2 DEF ScopesOK, GlobalScope, Sym
  <2>3. ASSUME status = "accepted", NEW i \in DOMAIN tbl_.sym_table, Sym(i).kind = "proc"
        PROVE  \E d \in DOMAIN toplevel_decls :
                   \A b \in DOMAIN toplevel_decls : toplevel_decls[b].sym = i <=> b = d
    <3>1. i # NoSymbol
      BY <2>1, TableParts DEF NoSymbol
    <3>2. i # proc /\ ~Sym(i).genperm /\ ~errs_failed
      BY <2>1, <2>3, <3>1 DEF AcceptedInv
    <3>3. PICK d \in DOMAIN toplevel_decls : toplevel_decls[d].sym = i
      BY <2>1, <2>3, <3>2 DEF WorkInv
    <3> QED
      BY <2>1, <3>3 DEF NodesInv
  <2> QED
    BY <2>2, <2>3 DEF OneBodyPerProcedure
<1> QED
  BY <1>1, ProcsInvariant, PTL

\* The parser that postparse_reparse_procedure_permutation asserts to be clean
\* is clean: between two constructs and between two instances the open
\* namespaces are those of the declarations around, one scope is open, and the
\* deferred clean-up has taken every type parameter out of the aliases.
THEOREM ParserIsCleanHolds == Spec => []ParserIsClean
<1>1. ASSUME ProcsInv PROVE ParserIsClean
  <2>1. ParserInv
    BY <1>1 DEF ProcsInv
  <2>2. FlattenSeq(<<>>) = <<>>
    BY FlattenEmpty
  <2> QED
    BY <2>1, <2>2 DEF ParserIsClean, ParserInv
<1> QED
  BY <1>1, ProcsInvariant, PTL

\* do_check accepts a program only when each identifier in it denotes a symbol
\* that was declared and is no generic procedure, or an instance of a generic
\* procedure that has as many type parameters as the instance has arguments
\* and a body of its own.
THEOREM AcceptedUsesAreDeclaredHolds == Spec => []AcceptedUsesAreDeclared
<1>1. ASSUME ProcsInv PROVE AcceptedUsesAreDeclared
  <2> DEFINE T == DOMAIN tbl_.sym_table
  <2>1. TableInv(tbl_) /\ TypeInv /\ UsesInv /\ WorkInv /\ AcceptedInv
    BY <1>1 DEF ProcsInv
  <2> SUFFICES ASSUME status = "accepted", NEW u \in UsesIn(T)
               PROVE  IF u.to \in Instances
                      THEN /\ Sym(Sym(u.to).sym_ref).genbase
                           /\ Len(TypeParams(Sym(u.to).sym_ref)) = Len(Sym(u.to).args)
                           /\ \E n \in Nodes : n.sym = u.to
                      ELSE Sym(u.to).kind # "none" /\ ~Sym(u.to).genbase
    BY DEF AcceptedUsesAreDeclared
  <2>2. PICK n \in Nodes : u \in ToSet(n.uses)
    BY DEF UsesIn
  <2>3. PICK d \in DOMAIN toplevel_decls : n = toplevel_decls[d]
    BY <2>2 DEF Nodes, ToSet
  <2>4. PICK k \in DOMAIN toplevel_decls[d].uses : u = toplevel_decls[d].uses[k]
    BY <2>2, <2>3 DEF ToSet
  <2>5. u.to \in T /\ UseIsValid(u)
    BY <2>1, <2>4 DEF UsesInv, AcceptedInv
  <2>6. /\ proc = NoSymbol /\ ~errs_failed
        /\ u.to # proc /\ ~Sym(u.to).genperm
    BY <2>1, <2>5, TableParts DEF AcceptedInv, NoSymbol
  <2>7. SymbolOK(tbl_, u.to)
    BY <2>1, <2>5, TableParts
  <2>8. CASE u.to \in Instances
    <3>1. Sym(u.to).args # NoArgs /\ Sym(u.to).kind = "proc"
      BY <2>7, <2>8 DEF Instances, SymbolOK, Sym
    <3>2. PICK b \in DOMAIN toplevel_decls : toplevel_decls[b].sym = u.to
      BY <2>1, <2>5, <2>6, <3>1 DEF WorkInv
    <3>3. \E m \in Nodes : m.sym = u.to
      BY <3>2 DEF Nodes, ToSet
    <3> QED
      BY <2>1, <2>5, <2>6, <2>8, <3>1, <3>3 DEF WorkInv
  <2>9. CASE u.to \notin Instances
    <3>1. ~Sym(u.to).placeholder /\ ~Sym(u.to).genbase
      BY <2>5 DEF UseIsValid
    <3>2. Sym(u.to).kind # "none"
      BY <2>7, <3>1 DEF SymbolOK, Sym
    <3> QED
      BY <2>9, <3>1, <3>2
  <2> QED
    BY <2>8, <2>9
<1> QED
  BY <1>1, ProcsInvariant, PTL

\* The body of an instance is parsed in the namespaces its procedure is
\* declared in, so the names in it mean what they mean there, wherever the
\* instance was asked for.
THEOREM InstanceInItsNamespaceHolds == Spec => []InstanceInItsNamespace
<1>1. ASSUME ProcsInv PROVE InstanceInItsNamespace
  <2>1. TableInv(tbl_) /\ NodesInv /\ NamespaceInv
    BY <1>1 DEF ProcsInv
  <2> SUFFICES ASSUME NEW n \in Nodes, n.sym \in Instances
               PROVE  LET base   == Sym(n.sym).sym_ref
                          around == SubSeq(Sym(base).name, 2, Len(Sym(base).name) - 1)
                      IN  Sym(base).namespace = <<Root>> \o around =>
                              \A u \in ToSet(n.uses) : u.namespaces = around
    BY DEF InstanceInItsNamespace
  <2> DEFINE base   == Sym(n.sym).sym_ref
             around == SubSeq(Sym(base).name, 2, Len(Sym(base).name) - 1)
  <2>2. PICK d \in DOMAIN toplevel_decls : n = toplevel_decls[d]
    BY DEF Nodes, ToSet
  <2>3. n.sym \in DOMAIN tbl_.sym_table /\ Sym(n.sym).args # NoArgs
    BY DEF Instances
  <2>4. Sym(base) \in Symbols
    BY <2>1, <2>3, TableParts DEF SymbolOK, Sym
  <2>5. around \in Seq(Words)
    <3>1. Sym(base).name \in Seq(Words)
      BY <2>4 DEF Symbols, Names
    <3> HIDE DEF base
    <3> QED
      BY <3>1
  <2>6. \A u \in ToSet(n.uses) : u.namespaces = Tail(Sym(base).namespace)
    BY <2>1, <2>2, <2>3 DEF NamespaceInv, NamespacesOf, ToSet
  <2> HIDE DEF base, around
  <2>7. Tail(<<Root>> \o around) = around
    BY <2>5
  <2> QED
    BY <2>6, <2>7 DEF base, around
<1> QED
  BY <1>1, ProcsInvariant, PTL

-----------------------------------------------------------------------------
(* What is in the body of an instance: the uses of its text with the type   *)
(* arguments put in.  The invariant says how far the text has been read and *)
(* what stands for the type parameters while it is.                         *)

\* The first k items of a text are in us.
TextDone(text, params, args, k, us) ==
    /\ Len(us) = UsesUpTo(text, k)
    /\ \A j \in UsesOf(text) :
           j <= k => Substituted(text[j], params, args, us[UsesUpTo(text, j)])

BodyDone(i, k, us) ==
    LET base == Sym(i).sym_ref
    IN  TextDone(Sym(base).text, TypeParams(base), Sym(i).args, k, us)

NodesDone ==
    \A d \in DOMAIN toplevel_decls :
        LET i == toplevel_decls[d].sym IN
        Sym(i).args # NoArgs =>
            BodyDone(i, Len(Sym(Sym(i).sym_ref).text), toplevel_decls[d].uses)

\* Each type parameter is an alias for its argument.
Bound(t, params, args) ==
    \A j \in DOMAIN params : /\ ParamAlias(params[j]) \in DOMAIN t.type_aliases
                             /\ t.type_aliases[ParamAlias(params[j])] = args[j]

\* While an instance is parsed, what is not in its body is left of the text.
TextInv ==
    status = "permuting" /\ proc # NoSymbol =>
        LET text == Sym(Sym(proc).sym_ref).text
        IN  /\ \E k \in 0..Len(text) :
                   rest = SubSeq(text, k + 1, Len(text)) /\ BodyDone(proc, k, uses)
            /\ Bound(tbl_, TypeParams(Sym(proc).sym_ref), Sym(proc).args)

BodiesInv == ProcsInv /\ NodesDone /\ TextInv

-----------------------------------------------------------------------------
(* Texts *)

\* The number of the uses up to a place grows with each use by one.
LEMMA UsesCounted ==
    ASSUME NEW text \in Seq(TextItems), NEW k \in 0..Len(text)
    PROVE  /\ UsesUpTo(text, k) \in Nat
           /\ UsesUpTo(text, 0) = 0
           /\ k > 0 => UsesUpTo(text, k) = UsesUpTo(text, k - 1)
                                           + (IF text[k].op = "use" THEN 1 ELSE 0)
           /\ \A j \in UsesOf(text) : j <= k => UsesUpTo(text, j) \in 1..UsesUpTo(text, k)
<1> DEFINE Up(m) == {j \in UsesOf(text) : j <= m}
<1>1. DOMAIN text = 1..Len(text) /\ Len(text) \in Nat /\ UsesOf(text) \subseteq 1..Len(text)
  BY DEF UsesOf
<1>2. \A m : IsFiniteSet(Up(m)) /\ Cardinality(Up(m)) \in Nat
  <2> TAKE m
  <2>1. IsFiniteSet(1..Len(text))
    BY <1>1, FS_Interval
  <2>2. Up(m) \subseteq 1..Len(text)
    BY <1>1
  <2> HIDE DEF Up
  <2> QED
    BY <2>1, <2>2, FS_Subset, FS_CardinalityType
<1>3. UsesUpTo(text, 0) = 0
  <2>1. Up(0) = {}
    BY <1>1
  <2> QED
    BY <2>1, FS_EmptySet DEF UsesUpTo
<1>4. ASSUME k > 0
      PROVE  UsesUpTo(text, k) = UsesUpTo(text, k - 1)
                                 + (IF text[k].op = "use" THEN 1 ELSE 0)
  <2>1. CASE text[k].op = "use"
    <3>1. Up(k) = Up(k - 1) \cup {k} /\ k \notin Up(k - 1)
      BY <1>1, <1>4, <2>1 DEF UsesOf
    <3> HIDE DEF Up
    <3>2. Cardinality(Up(k - 1) \cup {k}) = Cardinality(Up(k - 1)) + 1
      BY <1>2, <3>1, FS_AddElement
    <3> QED
      BY <2>1, <3>1, <3>2 DEF UsesUpTo, Up
  <2>2. CASE text[k].op # "use"
    <3>1. Up(k) = Up(k - 1)
      BY <1>1, <1>4, <2>2 DEF UsesOf
    <3>2. Cardinality(Up(k - 1)) \in Nat
      BY <1>2
    <3> HIDE DEF Up
    <3>3. Cardinality(Up(k)) = Cardinality(Up(k - 1)) + 0
      BY <3>1, <3>2
    <3> QED
      BY <2>2, <3>3 DEF UsesUpTo, Up
  <2> QED
    BY <2>1, <2>2
<1>5. ASSUME NEW j \in UsesOf(text), j <= k
      PROVE  UsesUpTo(text, j) \in 1..UsesUpTo(text, k)
  <2>1. Up(j) \subseteq Up(k) /\ j \in Up(j)
    BY <1>1, <1>5
  <2> HIDE DEF Up
  <2>2. Cardinality(Up(j)) <= Cardinality(Up(k))
    BY <1>2, <2>1, FS_Subset
  <2>3. Cardinality(Up(j)) # 0
    BY <1>2, <2>1, FS_EmptySet
  <2>4. Cardinality(Up(j)) \in Nat /\ Cardinality(Up(k)) \in Nat
    BY <1>2
  <2>5. Cardinality(Up(j)) \in 1..Cardinality(Up(k))
    BY <2>2, <2>3, <2>4
  <2> QED
    BY <2>5 DEF Up, UsesUpTo
<1>6. UsesUpTo(text, k) \in Nat
  BY <1>2 DEF UsesUpTo
<1> QED
  BY <1>3, <1>4, <1>5, <1>6

\* What is left of a text begins with its next item.
LEMMA RestLemma ==
    ASSUME NEW text \in Seq(TextItems), NEW k \in 0..Len(text),
           NEW left, left = SubSeq(text, k + 1, Len(text))
    PROVE  /\ left = <<>> => k = Len(text)
           /\ left # <<>> => /\ k + 1 \in 1..Len(text)
                             /\ Head(left) = text[k + 1]
                             /\ Tail(left) = SubSeq(text, k + 2, Len(text))
<1>1. Len(left) = Len(text) - k /\ left \in Seq(TextItems)
  OBVIOUS
<1>2. left = <<>> <=> k = Len(text)
  <2>1. \A s \in Seq(TextItems) : s = <<>> <=> Len(s) = 0
    OBVIOUS
  <2>2. left = <<>> <=> Len(left) = 0
    BY <1>1, <2>1, Zenon
  <2>3. Len(left) = 0 <=> k = Len(text)
    BY <1>1
  <2> QED
    BY <2>2, <2>3
<1>3. ASSUME left # <<>>
      PROVE  /\ k + 1 \in 1..Len(text)
             /\ Head(left) = text[k + 1]
             /\ Tail(left) = SubSeq(text, k + 2, Len(text))
  <2>1. k + 1 \in 1..Len(text) /\ k < Len(text)
    BY <1>2, <1>3
  <2>2. Head(left) = text[k + 1]
    BY <2>1
  <2>3. /\ Tail(left) \in Seq(TextItems)
        /\ Len(Tail(left)) = Len(left) - 1
        /\ \A i \in 1..Len(Tail(left)) : Tail(left)[i] = left[i + 1]
    <3>1. left \in Seq(TextItems)
      BY <1>1
    <3> QED
      BY <1>3, <3>1, HeadTailProperties, Zenon
  <2>4. \A i \in 1..(Len(text) - k - 1) : left[i + 1] = text[k + i + 1]
    BY <2>1
  <2> DEFINE after == SubSeq(text, k + 2, Len(text))
  <2>5. after \in Seq(TextItems) /\ Len(after) = Len(text) - k - 1
    BY <2>1
  <2>6. \A i \in 1..(Len(text) - k - 1) : after[i] = text[k + i + 1]
    BY <2>1
  <2> HIDE DEF after
  <2>7. Len(Tail(left)) = Len(after) /\ \A i \in 1..Len(Tail(left)) : Tail(left)[i] = after[i]
    BY <1>1, <2>3, <2>4, <2>5, <2>6
  <2>8. Tail(left) = after
    BY <2>3, <2>5, <2>7, SeqEqual, Zenon
  <2> QED
    BY <2>1, <2>2, <2>8 DEF after
<1> QED
  BY <1>2, <1>3

\* One more item of the text is read.
LEMMA OneMoreUse ==
    ASSUME NEW text \in Seq(TextItems), NEW k \in Nat, k + 1 \in 1..Len(text),
           NEW params, NEW args, NEW us \in Seq(Uses), NEW use \in Uses,
           TextDone(text, params, args, k, us),
           text[k + 1].op = "use", Substituted(text[k + 1], params, args, use)
    PROVE  TextDone(text, params, args, k + 1, Append(us, use))
<1> DEFINE more == Append(us, use)
<1>1. /\ UsesUpTo(text, k) \in Nat
      /\ \A j \in UsesOf(text) : j <= k => UsesUpTo(text, j) \in 1..UsesUpTo(text, k)
  <2>1. k \in 0..Len(text)
    OBVIOUS
  <2> QED
    BY <2>1, UsesCounted
<1>2. UsesUpTo(text, k + 1) = UsesUpTo(text, k) + 1
  <2>1. k + 1 \in 0..Len(text) /\ (k + 1) - 1 = k /\ k + 1 > 0
    OBVIOUS
  <2> QED
    BY <2>1, UsesCounted
<1>3. Len(us) = UsesUpTo(text, k)
  BY DEF TextDone
<1>4. /\ Len(more) = Len(us) + 1
      /\ more[Len(us) + 1] = use
      /\ \A i \in 1..Len(us) : more[i] = us[i]
  BY AppendLemma
<1> HIDE DEF more
<1>5. ASSUME NEW j \in UsesOf(text), j <= k + 1
      PROVE  Substituted(text[j], params, args, more[UsesUpTo(text, j)])
  <2>1. CASE j = k + 1
    BY <2>1, <1>2, <1>3, <1>4
  <2>2. CASE j # k + 1
    <3>1. j <= k
      BY <1>5, <2>2 DEF UsesOf
    <3> QED
      BY <3>1, <1>1, <1>3, <1>4 DEF TextDone
  <2> QED
    BY <2>1, <2>2
<1> QED
  BY <1>2, <1>3, <1>4, <1>5 DEF TextDone, more

LEMMA OneMoreLocal ==
    ASSUME NEW text \in Seq(TextItems), NEW k \in Nat, k + 1 \in 1..Len(text),
           NEW params, NEW args, NEW us,
           TextDone(text, params, args, k, us), text[k + 1].op = "local"
    PROVE  TextDone(text, params, args, k + 1, us)
<1>1. UsesUpTo(text, k + 1) = UsesUpTo(text, k)
  <2>1. k + 1 \in 0..Len(text) /\ (k + 1) - 1 = k /\ k + 1 > 0 /\ k \in 0..Len(text)
    OBVIOUS
  <2> QED
    BY <2>1, UsesCounted
<1>2. \A j \in UsesOf(text) : j <= k + 1 => j <= k
  BY DEF UsesOf
<1> QED
  BY <1>1, <1>2 DEF TextDone

-----------------------------------------------------------------------------
(* The values of type arguments *)

\* A name that is an alias is taken for what it stands for, with its pointers.
LEMMA AliasValue ==
    ASSUME NEW t, IsTable(t), NEW e \in TypeExprs, e.name \in DOMAIN t.type_aliases
    PROVE  LET of == t.type_aliases[e.name] IN
           /\ TypeValue(t, e).name = of.name
           /\ TypeValue(t, e).ptr = (of.ptr + e.ptr) % 2^PointerBits
<1> DEFINE of == t.type_aliases[e.name]
<1>1. TypeCanonical(t, e) = e.name
  BY DEF TypeCanonical, get_canonical_type_name, type_alias_exists
<1>2. of \in TypeExprs
  BY DEF IsTable
<1>3. TypeValue(t, e) = [of EXCEPT !.ptr = (@ + e.ptr) % 2^PointerBits]
  BY <1>1 DEF TypeValue, type_alias_exists
<1> HIDE DEF of
<1>4. TypeValue(t, e).name = of.name /\ TypeValue(t, e).ptr = (of.ptr + e.ptr) % 2^PointerBits
  BY <1>2, <1>3 DEF TypeExprs
<1> QED
  BY <1>4 DEF of

\* The aliases are the same for each of the arguments.
LEMMA ParsedValues ==
    ASSUME NEW t, IsTable(t), NEW args \in Seq(TypeExprs), NEW a \in DOMAIN args
    PROVE  \E n : /\ IsTable(n) /\ n.type_aliases = t.type_aliases
                  /\ parse_types(t, args).types[a] = TypeValue(n, args[a])
<1> DEFINE after == TablesAfter(t, args)
           n == after[a - 1]
           types == [j \in 1..Len(args) |-> TypeValue(after[j - 1], args[j])]
<1>1. parse_types(t, args).types = types
  BY DEF parse_types
<1>2. a - 1 \in 0..Len(args) /\ a \in 1..Len(args)
  OBVIOUS
<1>3. MoreTypes(t, n)
  BY <1>2, TablesAfterLemma
<1>4. types[a] = TypeValue(n, args[a])
  BY <1>2
<1> HIDE DEF n, types
<1> QED
  BY <1>1, <1>3, <1>4 DEF MoreTypes

LEMMA UseSubstituted ==
    ASSUME TableInv(tbl_), Distinct(tbl_.namespace_stack), items \in Nat,
           NEW item \in TextItems, item.op = "use",
           NEW params, NEW args, Bound(tbl_, params, args)
    PROVE  Substituted(item, params, args, parse_identifier(item.name, item.args).use)
<1> DEFINE canonical == get_canonical_sym_name(tbl_, item.name)
           named == IF scoped_symbol_exists(tbl_, canonical, NoArgs)
                    THEN tbl_
                    ELSE create_placeholder_symbol(tbl_, canonical, items)
           types == parse_types(named, item.args).types
           use   == parse_identifier(item.name, item.args).use
<1>1. item.name \in Names /\ item.args \in Seq(TypeExprs)
  BY DEF TextItems
<1>2. use.name = item.name /\ use.args = types
  BY DEF parse_identifier
<1>3. Grown(tbl_, named)
  BY <1>1, PlaceholderLemma
<1> HIDE DEF named, use
<1>4. IsTable(named) /\ named.type_aliases = tbl_.type_aliases
  BY <1>3 DEF Grown, TableInv
<1>5. Len(types) = Len(item.args)
  BY <1>1, <1>4, ParseTypesLemma
<1>6. ASSUME NEW a \in DOMAIN item.args, NEW j \in DOMAIN params,
             item.args[a].name = ParamAlias(params[j])
      PROVE  /\ types[a].name = args[j].name
             /\ types[a].ptr = (args[j].ptr + item.args[a].ptr) % 2^PointerBits
  <2>1. PICK n : /\ IsTable(n) /\ n.type_aliases = named.type_aliases
                 /\ types[a] = TypeValue(n, item.args[a])
    BY <1>1, <1>4, ParsedValues
  <2>2. item.args[a] \in TypeExprs
    BY <1>1
  <2>3. /\ item.args[a].name \in DOMAIN n.type_aliases
        /\ n.type_aliases[item.args[a].name] = args[j]
    BY <1>4, <1>6, <2>1 DEF Bound
  <2> HIDE DEF types
  <2> QED
    BY <2>1, <2>2, <2>3, AliasValue
<1> HIDE DEF types
<1> QED
  BY <1>2, <1>5, <1>6 DEF Substituted, use

-----------------------------------------------------------------------------
(* What a step leaves of a body *)

\* The symbol of an instance and the text and the parameters it is made from.
InstanceKept(i) ==
    LET was == tbl_.sym_table
        is  == tbl_'.sym_table
        at  == was[i].sym_ref
    IN  /\ is[i].args = was[i].args /\ is[i].sym_ref = at
        /\ is[at].text = was[at].text
        /\ is[at].generic_type_names = was[at].generic_type_names

LEMMA BodyKept ==
    ASSUME NEW i, InstanceKept(i)
    PROVE  /\ Len(Sym(Sym(i).sym_ref).text)' = Len(Sym(Sym(i).sym_ref).text)
           /\ \A k, us : BodyDone(i, k, us)' <=> BodyDone(i, k, us)
  BY DEF InstanceKept, BodyDone, TypeParams, Sym

\* No instance has a body before the end of the source.
LEMMA ParsingDone == ProcsInv /\ status = "parsing" => NodesDone /\ TextInv
<1> SUFFICES ASSUME ProcsInv, status = "parsing" PROVE NodesDone /\ TextInv
  OBVIOUS
<1>1. NodesInv /\ WorkInv
  BY DEF ProcsInv
<1>2. \A d \in DOMAIN toplevel_decls : Sym(toplevel_decls[d].sym).args = NoArgs
  BY <1>1 DEF NodesInv, WorkInv
<1> QED
  BY <1>2 DEF NodesDone, TextInv

LEMMA ParsingDoneAfter == (ProcsInv /\ status = "parsing" => NodesDone /\ TextInv)'
  BY ParsingDone, PTL

\* The instances with a node are as they were.
LEMMA NodesKept ==
    ASSUME NodesDone, UNCHANGED toplevel_decls,
           \A d \in DOMAIN toplevel_decls :
               \/ tbl_'.sym_table[toplevel_decls[d].sym].args = NoArgs
               \/ /\ tbl_.sym_table[toplevel_decls[d].sym].args # NoArgs
                  /\ InstanceKept(toplevel_decls[d].sym)
    PROVE  NodesDone'
<1> SUFFICES ASSUME NEW d \in DOMAIN toplevel_decls,
                    NEW i, i = toplevel_decls[d].sym,
                    tbl_'.sym_table[i].args # NoArgs
             PROVE  BodyDone(i, Len(Sym(Sym(i).sym_ref).text), toplevel_decls[d].uses)'
  BY DEF NodesDone, Sym
<1>1. InstanceKept(i) /\ Sym(i).args # NoArgs
  BY DEF Sym
<1>2. PICK us : us = toplevel_decls[d].uses
  OBVIOUS
<1>3. BodyDone(i, Len(Sym(Sym(i).sym_ref).text), us)
  BY <1>1, <1>2 DEF NodesDone
<1>4. BodyDone(i, Len(Sym(Sym(i).sym_ref).text), us)'
  BY <1>1, <1>3, BodyKept
<1> QED
  BY <1>2, <1>4

\* A step that changes no symbol, node or text.
LEMMA SameBodiesInv ==
    ASSUME NodesDone, tbl_'.sym_table = tbl_.sym_table, UNCHANGED toplevel_decls,
           status' # "permuting" \/ proc' = NoSymbol
    PROVE  NodesDone' /\ TextInv'
<1>1. NodesDone'
  BY DEF NodesDone, BodyDone, TypeParams, Sym
<1>2. TextInv'
  BY DEF TextInv
<1> QED
  BY <1>1, <1>2

\* What the invariant says of the instance whose text is being parsed.
LEMMA ProcFacts ==
    ASSUME ProcsInv, status = "permuting", proc # NoSymbol
    PROVE  /\ proc \in DOMAIN tbl_.sym_table /\ Sym(proc).args # NoArgs
           /\ Sym(proc).sym_ref \in DOMAIN tbl_.sym_table
           /\ Sym(Sym(proc).sym_ref).genbase
           /\ Sym(Sym(proc).sym_ref).text \in Seq(TextItems)
           /\ uses \in Seq(Uses) /\ rest \in Seq(TextItems)
<1>1. ParserInv /\ TypeInv /\ TableInv(tbl_)
  BY DEF ProcsInv
<1>2. /\ proc \in DOMAIN tbl_.sym_table /\ Sym(proc).args # NoArgs
      /\ Sym(Sym(proc).sym_ref).genbase
      /\ uses \in Seq(Uses) /\ rest \in Seq(TextItems)
  BY <1>1 DEF ParserInv, TypeInv
<1>3. Sym(proc).sym_ref \in DOMAIN tbl_.sym_table
  BY <1>1, <1>2, TableParts DEF SymbolOK, Sym
<1>4. Sym(Sym(proc).sym_ref) \in Symbols
  BY <1>1, <1>3, TableParts DEF Sym
<1>5. Sym(Sym(proc).sym_ref).text \in Seq(TextItems)
  BY <1>4 DEF Symbols
<1> QED
  BY <1>2, <1>3, <1>5

\* The same of the instances that have a node.
LEMMA NodeFacts ==
    ASSUME ProcsInv, NEW d \in DOMAIN toplevel_decls
    PROVE  LET i == toplevel_decls[d].sym IN
           /\ i \in DOMAIN tbl_.sym_table /\ ~Sym(i).genperm
           /\ Sym(i).args # NoArgs => /\ Sym(i).sym_ref \in DOMAIN tbl_.sym_table
                                      /\ Sym(Sym(i).sym_ref).genbase
<1>1. NodesInv /\ TableInv(tbl_)
  BY DEF ProcsInv
<1>2. \A i \in DOMAIN tbl_.sym_table :
          Sym(i).args # NoArgs => Sym(i).sym_ref \in DOMAIN tbl_.sym_table
  BY <1>1, TableParts DEF SymbolOK, Sym
<1> QED
  BY <1>1, <1>2 DEF NodesInv

-----------------------------------------------------------------------------
(* The steps *)

\* The text of an instance goes on: its body has what has been read of it.
LEMMA TextGoesOn ==
    ASSUME ProcsInv, TextInv, status = "permuting", proc # NoSymbol,
           UNCHANGED <<status, proc>>, InstanceKept(proc),
           tbl_'.type_aliases = tbl_.type_aliases,
           rest # <<>>, rest' = Tail(rest),
           \A text \in Seq(TextItems), k \in Nat : \A params, args :
               /\ k + 1 \in 1..Len(text) /\ text[k + 1] = Head(rest)
               /\ TextDone(text, params, args, k, uses)
               /\ Bound(tbl_, params, args)
               => TextDone(text, params, args, k + 1, uses')
    PROVE  TextInv'
<1> DEFINE at     == Sym(proc).sym_ref
           text   == Sym(at).text
           params == TypeParams(at)
           args   == Sym(proc).args
<1>1. text \in Seq(TextItems)
  BY ProcFacts
<1>2. PICK k \in 0..Len(text) : /\ rest = SubSeq(text, k + 1, Len(text))
                                /\ TextDone(text, params, args, k, uses)
  BY DEF TextInv, BodyDone
<1>3. Bound(tbl_, params, args)
  BY DEF TextInv
<1>4. /\ Sym(proc).args' = args /\ Sym(proc).sym_ref' = at
      /\ tbl_'.sym_table[at].text = text
      /\ tbl_'.sym_table[at].generic_type_names = params
  BY DEF InstanceKept, Sym, TypeParams
<1> HIDE DEF text, params, args
<1>5. /\ k + 1 \in 1..Len(text) /\ Head(rest) = text[k + 1]
      /\ Tail(rest) = SubSeq(text, k + 2, Len(text)) /\ k \in Nat
  <2>1. k \in Nat
    BY <1>1
  <2>2. /\ k + 1 \in 1..Len(text) /\ Head(rest) = text[k + 1]
        /\ Tail(rest) = SubSeq(text, k + 2, Len(text))
    BY <1>1, <1>2, RestLemma, Zenon
  <2> QED
    BY <2>1, <2>2
<1>6. TextDone(text, params, args, k + 1, uses')
  BY <1>1, <1>2, <1>3, <1>5
<1>7. /\ k + 1 \in 0..Len(text)
      /\ rest' = SubSeq(text, (k + 1) + 1, Len(text))
  BY <1>5
<1>8. Bound(tbl_', params, args)
  BY <1>3 DEF Bound
<1> QED
  BY <1>4, <1>6, <1>7, <1>8 DEF TextInv, BodyDone, Sym, TypeParams, text, params, args

\* A use of a name in the text of an instance.
LEMMA IdentifierBodies ==
    ASSUME BodiesInv, ProcsInv', status = "permuting", Identifier
    PROVE  NodesDone' /\ TextInv'
<1> DEFINE item == Head(rest)
           p    == parse_identifier(item.name, item.args)
<1>1. /\ ProcsInv /\ NodesDone /\ TextInv /\ TableInv(tbl_)
      /\ Distinct(tbl_.namespace_stack) /\ proc # NoSymbol
  BY DEF BodiesInv, ProcsInv, ParserInv, Identifier, InText
<1>2. /\ rest # <<>> /\ item.op = "use"
      /\ tbl_' = p.tbl
      /\ uses' = Append(uses, p.use)
      /\ rest' = Tail(rest)
      /\ UNCHANGED <<status, proc, toplevel_decls>>
  BY DEF Identifier
<1>3. uses \in Seq(Uses) /\ item \in TextItems /\ items \in Nat
  <2>1. items \in 0..MaxItems /\ rest \in Seq(TextItems) /\ uses \in Seq(Uses)
    BY <1>1 DEF ProcsInv, TypeInv
  <2>2. items \in Nat
    BY <2>1, SourceBounds
  <2> QED
    BY <1>2, <2>1, <2>2
<1>4. item.name \in Names /\ item.args \in Seq(TypeExprs)
  BY <1>2, <1>3 DEF TextItems
<1>5. Grown(tbl_, tbl_') /\ p.use \in Uses
  <2> HIDE DEF item
  <2> QED
    BY <1>1, <1>2, <1>3, <1>4, IdentifierLemma
<1>6. \A params, args : Bound(tbl_, params, args) => Substituted(item, params, args, p.use)
  <2> HIDE DEF item
  <2> QED
    BY <1>1, <1>2, <1>3, UseSubstituted
<1> HIDE DEF item, p
<1>7. ASSUME NEW i \in DOMAIN tbl_.sym_table, Sym(i).args # NoArgs
      PROVE  InstanceKept(i)
  <2>1. tbl_.sym_table[i].sym_ref \in DOMAIN tbl_.sym_table
    BY <1>1, <1>7, TableParts DEF SymbolOK, Sym
  <2> QED
    BY <1>5, <2>1 DEF Grown, InstanceKept
<1>8. NodesDone'
  <2>1. ASSUME NEW d \in DOMAIN toplevel_decls
        PROVE  \/ tbl_'.sym_table[toplevel_decls[d].sym].args = NoArgs
               \/ /\ tbl_.sym_table[toplevel_decls[d].sym].args # NoArgs
                  /\ InstanceKept(toplevel_decls[d].sym)
    <3>1. PICK i \in DOMAIN tbl_.sym_table : i = toplevel_decls[d].sym
      BY <1>1, NodeFacts
    <3>2. tbl_'.sym_table[i] = tbl_.sym_table[i]
      BY <1>5 DEF Grown
    <3> QED
      BY <1>7, <3>1, <3>2 DEF Sym
  <2> QED
    BY <1>1, <1>2, <2>1, NodesKept
<1>9. TextInv'
  <2>1. InstanceKept(proc)
    BY <1>1, <1>7, ProcFacts
  <2>2. tbl_'.type_aliases = tbl_.type_aliases
    BY <1>5 DEF Grown
  <2>3. ASSUME NEW text \in Seq(TextItems), NEW k \in Nat, NEW params, NEW args,
               k + 1 \in 1..Len(text), text[k + 1] = Head(rest),
               TextDone(text, params, args, k, uses), Bound(tbl_, params, args)
        PROVE  TextDone(text, params, args, k + 1, uses')
    <3>1. text[k + 1].op = "use" /\ Substituted(text[k + 1], params, args, p.use)
      BY <1>2, <1>6, <2>3 DEF item
    <3>2. TextDone(text, params, args, k + 1, Append(uses, p.use))
      BY <1>3, <1>5, <2>3, <3>1, OneMoreUse
    <3> QED
      BY <1>2, <3>2
  <2> QED
    BY <1>1, <1>2, <2>1, <2>2, <2>3, TextGoesOn
<1> QED
  BY <1>8, <1>9

\* A declaration in the text of an instance.
LEMMA LocalBodies ==
    ASSUME BodiesInv, ProcsInv', status = "permuting", LocalVariable
    PROVE  NodesDone' /\ TextInv'
<1> DEFINE item == Head(rest)
           id == item.id
<1>1. /\ ProcsInv /\ NodesDone /\ TextInv /\ TableInv(tbl_) /\ ParserInv
      /\ Distinct(tbl_.namespace_stack) /\ proc # NoSymbol
      /\ rest # <<>> /\ item.op = "local"
  BY DEF BodiesInv, ProcsInv, ParserInv, LocalVariable, InText
<1>2. CASE Redeclared(id)
  <2>1. Stop("rejected", "redeclaration")
    BY <1>2 DEF LocalVariable, Reject
  <2> QED
    BY <1>1, <2>1, SameBodiesInv DEF Stop
<1>3. CASE ~Redeclared(id)
  <2> DEFINE t == parse_decl(id, "var").tbl
             x == parse_decl(id, "var").index
  <2>1. /\ tbl_' = TypeTable(t, item.type)
        /\ rest' = Tail(rest)
        /\ UNCHANGED <<status, proc, uses, toplevel_decls>>
    BY <1>3 DEF LocalVariable
  <2>2. item \in TextItems /\ items \in Nat
    <3>1. items \in 0..MaxItems /\ rest \in Seq(TextItems)
      BY <1>1 DEF ProcsInv, TypeInv
    <3>2. items \in Nat
      BY <3>1, SourceBounds
    <3> QED
      BY <1>1, <3>1, <3>2
  <2>3. id \in Words /\ item.type \in TypeExprs
    BY <1>1, <2>2 DEF TextItems
  <2>4. Declared(tbl_, t, x, "var")
    BY <1>1, <1>3, <2>2, <2>3, DeclLemma
  <2> HIDE DEF t, x
  <2>5. /\ tbl_'.sym_table = t.sym_table
        /\ tbl_'.type_aliases = tbl_.type_aliases
    <3>1. IsTable(t) /\ t.type_aliases = tbl_.type_aliases
      BY <2>4 DEF Declared, TableInv
    <3>2. MoreTypes(t, TypeTable(t, item.type))
      BY <2>3, <3>1, TypeTableLemma
    <3> QED
      BY <2>1, <3>1, <3>2 DEF MoreTypes
  <2>6. \A j \in DOMAIN tbl_.sym_table :
            ~tbl_.sym_table[j].placeholder => tbl_'.sym_table[j] = tbl_.sym_table[j]
    BY <2>4, <2>5 DEF Declared
  <2>7. \A j \in DOMAIN tbl_.sym_table :
            tbl_.sym_table[j].kind = "proc" => tbl_'.sym_table[j] = tbl_.sym_table[j]
    <3>1. \A j \in DOMAIN tbl_.sym_table :
              tbl_.sym_table[j].kind = "proc" => ~tbl_.sym_table[j].placeholder
      BY <1>1, TableParts DEF SymbolOK
    <3> QED
      BY <2>6, <3>1
  <2>8. ASSUME NEW i \in DOMAIN tbl_.sym_table, Sym(i).args # NoArgs,
               Sym(Sym(i).sym_ref).genbase
        PROVE  InstanceKept(i)
    <3>1. PICK at : at = tbl_.sym_table[i].sym_ref
      OBVIOUS
    <3>2. tbl_.sym_table[i].kind = "proc" /\ at \in DOMAIN tbl_.sym_table
      BY <1>1, <2>8, <3>1, TableParts DEF SymbolOK, Sym
    <3>3. tbl_.sym_table[at].kind = "proc"
      BY <1>1, <2>8, <3>1, <3>2, TableParts DEF SymbolOK, Sym
    <3> QED
      BY <2>7, <3>1, <3>2, <3>3 DEF InstanceKept
  <2>9. NodesDone'
    <3>1. ASSUME NEW d \in DOMAIN toplevel_decls
          PROVE  \/ tbl_'.sym_table[toplevel_decls[d].sym].args = NoArgs
                 \/ /\ tbl_.sym_table[toplevel_decls[d].sym].args # NoArgs
                    /\ InstanceKept(toplevel_decls[d].sym)
      <4>1. PICK i \in DOMAIN tbl_.sym_table :
                /\ i = toplevel_decls[d].sym
                /\ tbl_.sym_table[i].kind = "proc"
                /\ Sym(i).args # NoArgs => Sym(Sym(i).sym_ref).genbase
        BY <1>1 DEF ProcsInv, NodesInv, Sym
      <4>2. tbl_'.sym_table[i] = tbl_.sym_table[i]
        BY <2>7, <4>1
      <4> QED
        BY <2>8, <4>1, <4>2 DEF Sym
    <3> QED
      BY <1>1, <2>1, <3>1, NodesKept
  <2>10. TextInv'
    <3>1. InstanceKept(proc)
      BY <1>1, <2>8, ProcFacts
    <3>2. ASSUME NEW text \in Seq(TextItems), NEW k \in Nat, NEW params, NEW args,
                 k + 1 \in 1..Len(text), text[k + 1] = Head(rest),
                 TextDone(text, params, args, k, uses), Bound(tbl_, params, args)
          PROVE  TextDone(text, params, args, k + 1, uses')
      BY <1>1, <2>1, <3>2, OneMoreLocal
    <3> QED
      BY <1>1, <2>1, <2>5, <3>1, <3>2, TextGoesOn
  <2> QED
    BY <2>9, <2>10
<1> QED
  BY <1>2, <1>3

\* The text of an instance is read to its end.
LEMMA EndReparseBodies ==
    ASSUME BodiesInv, EndReparse
    PROVE  NodesDone' /\ TextInv'
<1> DEFINE node == [sym |-> proc, uses |-> uses]
           last == Len(toplevel_decls) + 1
<1>1. /\ ProcsInv /\ NodesDone /\ TextInv
      /\ status = "permuting" /\ proc # NoSymbol /\ rest = <<>>
      /\ tbl_' = pop_scope(CleanedUp)
      /\ toplevel_decls' = Append(toplevel_decls, node)
      /\ proc' = NoSymbol
  BY DEF BodiesInv, EndReparse, EndText, InText
<1>2. tbl_'.sym_table = tbl_.sym_table
  <2>1. TableInv(CleanedUp) /\ CleanedUp.sym_table = tbl_.sym_table
    BY <1>1, CleanedUpLemma
  <2>2. CleanedUp = [namespace_stack |-> CleanedUp.namespace_stack,
                     scope_stack |-> CleanedUp.scope_stack,
                     sym_table |-> CleanedUp.sym_table,
                     type_table |-> CleanedUp.type_table,
                     type_aliases |-> CleanedUp.type_aliases]
    BY <2>1 DEF TableInv, IsTable
  <2> QED
    BY <1>1, <2>1, <2>2 DEF pop_scope
<1>3. /\ DOMAIN toplevel_decls' = DOMAIN toplevel_decls \cup {last}
      /\ toplevel_decls'[last] = node
      /\ \A d \in DOMAIN toplevel_decls : toplevel_decls'[d] = toplevel_decls[d]
  <2>1. toplevel_decls \in Seq([sym : Nat, uses : Seq(Uses)])
    BY <1>1 DEF ProcsInv, TypeInv
  <2> QED
    BY <1>1, <2>1
<1>4. BodyDone(proc, Len(Sym(Sym(proc).sym_ref).text), uses)
  <2>1. Sym(Sym(proc).sym_ref).text \in Seq(TextItems)
    BY <1>1, ProcFacts
  <2>2. PICK k \in 0..Len(Sym(Sym(proc).sym_ref).text) :
            /\ rest = SubSeq(Sym(Sym(proc).sym_ref).text, k + 1,
                             Len(Sym(Sym(proc).sym_ref).text))
            /\ BodyDone(proc, k, uses)
    BY <1>1 DEF TextInv
  <2>3. k = Len(Sym(Sym(proc).sym_ref).text)
    BY <1>1, <2>1, <2>2, RestLemma
  <2> QED
    BY <2>2, <2>3
<1>5. node.sym = proc /\ node.uses = uses
  OBVIOUS
<1> HIDE DEF node, last
<1>6. \A i : Sym(i)' = Sym(i)
  BY <1>2 DEF Sym
<1>7. NodesDone'
  <2> SUFFICES ASSUME NEW d \in DOMAIN toplevel_decls', NEW i, i = toplevel_decls'[d].sym,
                      Sym(i).args # NoArgs
               PROVE  BodyDone(i, Len(Sym(Sym(i).sym_ref).text), toplevel_decls'[d].uses)
    BY <1>6 DEF NodesDone, BodyDone, TypeParams
  <2>1. CASE d = last
    BY <2>1, <1>3, <1>4, <1>5
  <2>2. CASE d \in DOMAIN toplevel_decls
    BY <2>2, <1>1, <1>3 DEF NodesDone
  <2> QED
    BY <2>1, <2>2, <1>3
<1>8. TextInv'
  BY <1>1 DEF TextInv
<1> QED
  BY <1>7, <1>8

\* Only the symbol of the instance changes, and it stays an instance of its
\* procedure.
LEMMA InstanceMarked ==
    ASSUME ProcsInv, NEW i \in DOMAIN tbl_.sym_table, Sym(i).genperm,
           NEW sym, sym.args = Sym(i).args, sym.sym_ref = Sym(i).sym_ref,
           tbl_'.sym_table = [tbl_.sym_table EXCEPT ![i] = sym]
    PROVE  /\ \A j \in DOMAIN tbl_.sym_table : Sym(j).args # NoArgs => InstanceKept(j)
           /\ tbl_'.sym_table[Sym(i).sym_ref] = Sym(Sym(i).sym_ref)
           /\ \A j \in DOMAIN tbl_.sym_table : tbl_'.sym_table[j].args = Sym(j).args
<1>1. TableInv(tbl_)
  BY DEF ProcsInv
<1>2. tbl_'.sym_table[i] = sym /\ \A j : j # i => tbl_'.sym_table[j] = tbl_.sym_table[j]
  OBVIOUS
<1>3. \A j \in DOMAIN tbl_.sym_table : tbl_.sym_table[j].args # NoArgs =>
          tbl_.sym_table[tbl_.sym_table[j].sym_ref].args = NoArgs
  BY <1>1, TableParts DEF SymbolOK
<1>4. tbl_.sym_table[i].args # NoArgs
  BY <1>1, TableParts DEF SymbolOK, Sym
<1>5. \A j \in DOMAIN tbl_.sym_table : tbl_.sym_table[j].args # NoArgs =>
          tbl_.sym_table[j].sym_ref # i
  BY <1>3, <1>4
<1>6. ASSUME NEW j \in DOMAIN tbl_.sym_table, Sym(j).args # NoArgs
      PROVE  InstanceKept(j)
  <2>1. tbl_.sym_table[j].sym_ref # i
    BY <1>5, <1>6 DEF Sym
  <2>2. tbl_'.sym_table[tbl_.sym_table[j].sym_ref] = tbl_.sym_table[tbl_.sym_table[j].sym_ref]
    BY <1>2, <2>1
  <2>3. /\ tbl_'.sym_table[j].args = tbl_.sym_table[j].args
        /\ tbl_'.sym_table[j].sym_ref = tbl_.sym_table[j].sym_ref
    BY <1>2 DEF Sym
  <2> QED
    BY <2>2, <2>3 DEF InstanceKept
<1> QED
  BY <1>2, <1>4, <1>5, <1>6 DEF Sym

LEMMA NodesMarked ==
    ASSUME ProcsInv, NodesDone, NEW i \in DOMAIN tbl_.sym_table, Sym(i).genperm,
           NEW sym, sym.args = Sym(i).args, sym.sym_ref = Sym(i).sym_ref,
           tbl_'.sym_table = [tbl_.sym_table EXCEPT ![i] = sym],
           UNCHANGED toplevel_decls
    PROVE  NodesDone'
<1>1. ASSUME NEW d \in DOMAIN toplevel_decls
      PROVE  \/ tbl_'.sym_table[toplevel_decls[d].sym].args = NoArgs
             \/ /\ tbl_.sym_table[toplevel_decls[d].sym].args # NoArgs
                /\ InstanceKept(toplevel_decls[d].sym)
  <2>1. PICK j \in DOMAIN tbl_.sym_table : j = toplevel_decls[d].sym
    BY NodeFacts
  <2> QED
    BY <2>1, InstanceMarked DEF Sym
<1> QED
  BY <1>1, NodesKept

\* A re-parse begins: the type parameters are bound to the arguments.
LEMMA BoundParams ==
    ASSUME TableInv(tbl_), NEW i \in DOMAIN tbl_.sym_table, NEW base, NEW names,
           NEW params \in Seq(Words), NEW args \in Seq(TypeExprs), Len(params) = Len(args),
           \A j, k \in DOMAIN params : params[k] = params[j] => k = j,
           tbl_' = BindParams([push_scope(tbl_) EXCEPT
                                  !.sym_table[i] = AsInstance(@, base),
                                  !.namespace_stack = @ \o names], params, args)
    PROVE  /\ tbl_'.sym_table = [tbl_.sym_table EXCEPT ![i] = AsInstance(Sym(i), base)]
           /\ Bound(tbl_', params, args)
<1> DEFINE st == [tbl_.sym_table EXCEPT ![i] = AsInstance(Sym(i), base)]
           ns == tbl_.namespace_stack \o names
           ss == Append(tbl_.scope_stack, {})
           p  == push_scope(tbl_)
           m  == [p EXCEPT !.sym_table[i] = AsInstance(@, base),
                           !.namespace_stack = @ \o names]
           bound == {ParamAlias(params[j]) : j \in DOMAIN args}
           aliases == [n \in DOMAIN tbl_.type_aliases \cup bound |->
                           IF n \in bound
                           THEN args[CHOOSE j \in DOMAIN args : ParamAlias(params[j]) = n]
                           ELSE tbl_.type_aliases[n]]
<1>1. tbl_ = [namespace_stack |-> tbl_.namespace_stack, scope_stack |-> tbl_.scope_stack,
              sym_table |-> tbl_.sym_table, type_table |-> tbl_.type_table,
              type_aliases |-> tbl_.type_aliases]
  BY DEF TableInv, IsTable
<1>2. p = [namespace_stack |-> tbl_.namespace_stack, scope_stack |-> ss,
           sym_table |-> tbl_.sym_table, type_table |-> tbl_.type_table,
           type_aliases |-> tbl_.type_aliases]
  <2>1. p = [tbl_ EXCEPT !.scope_stack = ss]
    BY DEF push_scope
  <2> HIDE DEF p, ss
  <2> QED
    BY <1>1, <2>1
<1>3. m = [namespace_stack |-> ns, scope_stack |-> ss,
           sym_table |-> st, type_table |-> tbl_.type_table,
           type_aliases |-> tbl_.type_aliases]
  <2>1. p.sym_table[i] = Sym(i) /\ p.sym_table = tbl_.sym_table
        /\ p.namespace_stack = tbl_.namespace_stack
    BY <1>2 DEF Sym
  <2>2. m = [p EXCEPT !.sym_table = [p.sym_table EXCEPT ![i] = AsInstance(p.sym_table[i], base)],
                      !.namespace_stack = p.namespace_stack \o names]
    <3> HIDE DEF p
    <3> QED
      OBVIOUS
  <2>3. m = [p EXCEPT !.sym_table = st, !.namespace_stack = ns]
    BY <2>1, <2>2, Zenon
  <2> HIDE DEF st, p, m, ns, ss
  <2> QED
    BY <1>2, <2>3
<1> HIDE DEF m, st
<1>4. BindParams(m, params, args) = [m EXCEPT !.type_aliases = aliases]
  BY <1>3 DEF BindParams
<1>5. tbl_'.sym_table = st /\ tbl_'.type_aliases = aliases
  <2>1. tbl_' = BindParams(m, params, args)
    BY DEF m
  <2> HIDE DEF aliases
  <2> QED
    BY <1>3, <1>4, <2>1
<1>6. Bound(tbl_', params, args)
  <2>1. DOMAIN args = DOMAIN params
    OBVIOUS
  <2> SUFFICES ASSUME NEW j \in DOMAIN params
               PROVE  /\ ParamAlias(params[j]) \in DOMAIN aliases
                      /\ aliases[ParamAlias(params[j])] = args[j]
    BY <1>5 DEF Bound
  <2>2. ParamAlias(params[j]) \in bound
    BY <2>1
  <2>3. \A k \in DOMAIN args : ParamAlias(params[k]) = ParamAlias(params[j]) => k = j
    BY <2>1 DEF ParamAlias
  <2>4. (CHOOSE k \in DOMAIN args : ParamAlias(params[k]) = ParamAlias(params[j])) = j
    BY <2>1, <2>3
  <2> HIDE DEF bound
  <2> QED
    BY <2>2, <2>4
<1> QED
  BY <1>5, <1>6 DEF st

LEMMA PermuteBodies ==
    ASSUME BodiesInv, NEW i \in DOMAIN tbl_.sym_table, Permute(i)
    PROVE  NodesDone' /\ TextInv'
<1> DEFINE at == Sym(i).sym_ref
<1>1. /\ ProcsInv /\ NodesDone /\ TableInv(tbl_) /\ uses = <<>>
      /\ status = "permuting" /\ proc = NoSymbol /\ Sym(i).genperm
  BY DEF BodiesInv, ProcsInv, ParserInv, Permute
<1>2. Sym(i) \in Symbols /\ Sym(i).args # NoArgs /\ at \in DOMAIN tbl_.sym_table
  BY <1>1, TableParts DEF SymbolOK, Sym
<1>3. tbl_ = [namespace_stack |-> tbl_.namespace_stack, scope_stack |-> tbl_.scope_stack,
              sym_table |-> tbl_.sym_table, type_table |-> tbl_.type_table,
              type_aliases |-> tbl_.type_aliases]
  BY <1>1 DEF TableInv, IsTable
<1>4. CASE TakesNone(at)
  <2> DEFINE sym == [Sym(i) EXCEPT !.genperm = FALSE]
  <2>1. /\ tbl_' = [tbl_ EXCEPT !.sym_table[i].genperm = FALSE]
        /\ UNCHANGED <<status, proc, toplevel_decls>>
    BY <1>4 DEF Permute
  <2>2. sym.args = Sym(i).args /\ sym.sym_ref = at
    BY <1>2 DEF Symbols
  <2>3. tbl_'.sym_table = [tbl_.sym_table EXCEPT ![i] = sym]
    <3>1. tbl_' = [tbl_ EXCEPT !.sym_table = [tbl_.sym_table EXCEPT
                                                  ![i] = [tbl_.sym_table[i] EXCEPT !.genperm = FALSE]]]
      BY <2>1
    <3>2. tbl_'.sym_table = [tbl_.sym_table EXCEPT
                                 ![i] = [tbl_.sym_table[i] EXCEPT !.genperm = FALSE]]
      BY <1>3, <3>1
    <3> QED
      BY <3>2 DEF Sym
  <2> HIDE DEF sym
  <2>4. NodesDone'
    BY <1>1, <2>1, <2>2, <2>3, NodesMarked
  <2>5. TextInv'
    BY <1>1, <2>1 DEF TextInv
  <2> QED
    BY <2>4, <2>5
<1>5. CASE ~TakesNone(at)
  <2>1. BeginReparse(i, at)
    BY <1>5 DEF Permute
  <2>2. \/ \E outcome \in {"rejected", "aborted"} : \E why : Stop(outcome, why)
        \/ /\ ~WrongArity(i, at) /\ ~CreatesAliasTwice(at)
           /\ tbl_' = BindParams([push_scope(tbl_) EXCEPT
                                     !.sym_table[i] = AsInstance(@, at),
                                     !.namespace_stack = @ \o NamespacesOf(at)],
                                 TypeParams(at), Sym(i).args)
           /\ proc' = i /\ rest' = Sym(at).text
           /\ UNCHANGED <<status, uses, toplevel_decls>>
    BY <2>1 DEF BeginReparse, Abort, Reject
  <2>3. CASE \E outcome \in {"rejected", "aborted"} : \E why : Stop(outcome, why)
    BY <1>1, <2>3, SameBodiesInv DEF Stop
  <2>4. CASE /\ ~WrongArity(i, at) /\ ~CreatesAliasTwice(at)
             /\ tbl_' = BindParams([push_scope(tbl_) EXCEPT
                                       !.sym_table[i] = AsInstance(@, at),
                                       !.namespace_stack = @ \o NamespacesOf(at)],
                                   TypeParams(at), Sym(i).args)
             /\ proc' = i /\ rest' = Sym(at).text
             /\ UNCHANGED <<status, uses, toplevel_decls>>
    <3> DEFINE sym == AsInstance(Sym(i), at)
               text == Sym(at).text
    <3>1. /\ Sym(at) \in Symbols /\ text \in Seq(TextItems)
          /\ TypeParams(at) \in Seq(Words) /\ Sym(i).args \in Seq(TypeExprs)
          /\ Len(TypeParams(at)) = Len(Sym(i).args)
      <4>1. Sym(at) \in Symbols
        BY <1>1, <1>2, TableParts DEF Sym
      <4> QED
        BY <1>2, <2>4, <4>1 DEF Symbols, TypeParams, WrongArity
    <3>2. \A j, k \in DOMAIN TypeParams(at) : TypeParams(at)[k] = TypeParams(at)[j] => k = j
      <4>1. \A j \in DOMAIN TypeParams(at) : \A k \in 1..(j - 1) :
                TypeParams(at)[k] # TypeParams(at)[j]
        BY <2>4 DEF CreatesAliasTwice
      <4>2. DOMAIN TypeParams(at) = 1..Len(TypeParams(at)) /\ Len(TypeParams(at)) \in Nat
        BY <3>1
      <4> QED
        BY <4>1, <4>2
    <3>3. /\ tbl_'.sym_table = [tbl_.sym_table EXCEPT ![i] = sym]
          /\ Bound(tbl_', TypeParams(at), Sym(i).args)
      BY <1>1, <2>4, <3>1, <3>2, BoundParams
    <3>4. sym.args = Sym(i).args /\ sym.sym_ref = at
      BY <1>2 DEF AsInstance, Symbols
    <3> HIDE DEF sym
    <3>5. NodesDone'
      BY <1>1, <2>4, <3>3, <3>4, NodesMarked
    <3>6. tbl_'.sym_table[i] = sym /\ tbl_'.sym_table[at] = Sym(at)
      BY <1>1, <3>3, <3>4, InstanceMarked
    <3>7. /\ rest' = SubSeq(text, 0 + 1, Len(text)) /\ 0 \in 0..Len(text)
      BY <2>4, <3>1
    <3>8. TextDone(text, TypeParams(at), Sym(i).args, 0, <<>>)
      <4>1. UsesUpTo(text, 0) = 0
        BY <3>1, <3>7, UsesCounted
      <4>2. \A j \in UsesOf(text) : ~(j <= 0)
        BY <3>1 DEF UsesOf
      <4> QED
        BY <4>1, <4>2 DEF TextDone
    <3>9. TextInv'
      <4>1. proc' = i /\ uses' = <<>>
        BY <1>1, <2>4
      <4>2. \E k \in 0..Len(text) :
                rest' = SubSeq(text, k + 1, Len(text))
                /\ TextDone(text, TypeParams(at), Sym(i).args, k, uses')
        BY <3>7, <3>8, <4>1
      <4> HIDE DEF text
      <4> QED
        BY <3>3, <3>4, <3>6, <4>1, <4>2 DEF TextInv, BodyDone, TypeParams, Sym, text
    <3> QED
      BY <3>5, <3>9
  <2> QED
    BY <2>2, <2>3, <2>4
<1> QED
  BY <1>4, <1>5

\* A step that ends the compiler.
LEMMA StopBodies ==
    ASSUME BodiesInv, NEW outcome \in Final, NEW why, Stop(outcome, why)
    PROVE  NodesDone' /\ TextInv'
<1>1. /\ NodesDone /\ UNCHANGED <<tbl_, toplevel_decls>>
      /\ status' # "permuting"
  BY DEF BodiesInv, Stop, Final
<1> QED
  BY <1>1, SameBodiesInv

\* A step of the source keeps the compiler parsing or ends it, but for its end.
LEMMA SourceBodies ==
    ASSUME BodiesInv, ProcsInv', Source
    PROVE  NodesDone' /\ TextInv'
<1>1. CASE status' = "parsing"
  BY <1>1, ParsingDoneAfter
<1>2. CASE status' # "parsing" /\ EndOfSource
  <2>1. NodesDone /\ UNCHANGED <<tbl_, toplevel_decls>> /\ proc' = NoSymbol
    BY <1>2 DEF BodiesInv, EndOfSource, Reject, Stop
  <2> QED
    BY <2>1, SameBodiesInv
<1>3. CASE status' # "parsing" /\ ~EndOfSource
  <2>1. \E why : Reject(why)
    <3>1. CASE \E path \in NamespacePaths : EnterNamespace(path)
      BY <1>3, <3>1 DEF EnterNamespace, Construct, Parsed
    <3>2. CASE LeaveNamespace
      BY <1>3, <3>2 DEF LeaveNamespace
    <3>3. CASE \E id \in Ids : DeclareGlobal(id)
      BY <1>3, <3>3 DEF DeclareGlobal, Construct, Parsed
    <3>4. CASE \E id \in Ids, text \in Texts : BeginProc(id, text)
      BY <1>3, <3>4 DEF BeginProc, Construct, Parsed
    <3>5. CASE \E id \in Ids, params \in GenericParams, text \in Texts,
                  intern \in Interns : DeclareGenericProc(id, params, text, intern)
      <4>1. PICK id \in Ids, params \in GenericParams, text \in Texts,
                 intern \in Interns : DeclareGenericProc(id, params, text, intern)
        BY <3>5
      <4>2. status = "parsing" /\ \A t : ~Parsed(t)
        BY <1>3, <4>1 DEF DeclareGenericProc, Construct, Parsed
      <4> QED
        BY <4>1, <4>2 DEF DeclareGenericProc
    <3>6. CASE \E id \in Structs : DeclareStruct(id)
      BY <1>3, <3>6 DEF DeclareStruct, Construct, Parsed
    <3>7. CASE \E e \in Enums : DeclareEnum(e[1], e[2])
      BY <1>3, <3>7 DEF DeclareEnum, Construct, Parsed
    <3> QED
      BY <1>3, <3>1, <3>2, <3>3, <3>4, <3>5, <3>6, <3>7 DEF Source
  <2> QED
    BY <2>1, StopBodies DEF Reject, Final
<1> QED
  BY <1>1, <1>2, <1>3

LEMMA NextBodiesInv == ASSUME BodiesInv, [Next]_vars PROVE BodiesInv'
<1>1. ProcsInv /\ ProcsInv' /\ NodesDone /\ TextInv
  BY NextProcsInv DEF BodiesInv
<1>2. CASE Source
  BY <1>1, <1>2, SourceBodies DEF BodiesInv
<1>3. ASSUME Identifier \/ LocalVariable PROVE BodiesInv'
  <2>1. CASE status = "permuting"
    BY <1>1, <1>3, <2>1, IdentifierBodies, LocalBodies DEF BodiesInv
  <2>2. CASE status = "parsing" /\ status' = "parsing"
    BY <1>1, <2>2, ParsingDoneAfter DEF BodiesInv
  <2>3. CASE status = "parsing" /\ status' # "parsing"
    <3>1. Reject("redeclaration")
      BY <1>3, <2>3 DEF Identifier, LocalVariable
    <3> QED
      BY <1>1, <3>1, StopBodies DEF Reject, Final, BodiesInv
  <2> QED
    BY <1>3, <2>1, <2>2, <2>3 DEF Identifier, LocalVariable, InText
<1>4. CASE EndProc
  <2>1. status' = "parsing"
    BY <1>4 DEF EndProc, EndText
  <2> QED
    BY <1>1, <2>1, ParsingDoneAfter DEF BodiesInv
<1>5. ASSUME NEW i \in DOMAIN tbl_.sym_table, Permute(i) PROVE BodiesInv'
  BY <1>1, <1>5, PermuteBodies DEF BodiesInv
<1>6. CASE EndReparse
  BY <1>1, <1>6, EndReparseBodies DEF BodiesInv
<1>7. CASE Check
  <2>1. NodesDone /\ UNCHANGED <<tbl_, toplevel_decls>> /\ status' # "permuting"
    BY <1>1, <1>7 DEF Check, Reject, Stop
  <2> QED
    BY <1>1, <2>1, SameBodiesInv DEF BodiesInv
<1>8. CASE UNCHANGED vars
  <2>1. NodesDone'
    BY <1>1, <1>8 DEF vars, NodesDone, BodyDone, TypeParams, Sym
  <2>2. TextInv'
    BY <1>1, <1>8 DEF vars, TextInv, BodyDone, Bound, TypeParams, Sym
  <2> QED
    BY <1>1, <2>1, <2>2 DEF BodiesInv
<1> QED
  BY <1>2, <1>3, <1>4, <1>5, <1>6, <1>7, <1>8 DEF Next, Compile, Terminated

\* In every state, what the parser has read of the text of an instance is in
\* its body with the type arguments put in.
THEOREM BodiesInvariant == Spec => []BodiesInv
<1>1. Init => BodiesInv
  <2> SUFFICES ASSUME Init PROVE BodiesInv
    OBVIOUS
  <2>1. ProcsInv /\ status = "parsing"
    BY InitProcsInv DEF Init
  <2> QED
    BY <2>1, ParsingDone DEF BodiesInv
<1>2. BodiesInv /\ [Next]_vars => BodiesInv'
  BY NextBodiesInv
<1> QED
  BY <1>1, <1>2, PTL DEF Spec

\* postparse_reparse_procedure_permutation gives an instance the body its
\* procedure has, with each type parameter replaced by the argument the
\* instance was made with: no use is lost, repeated or moved, and no alias of
\* an earlier instance is seen, in whatever order the instances are parsed.
THEOREM BodiesAreSubstitutedHolds == Spec => []BodiesAreSubstituted
<1>1. ASSUME BodiesInv PROVE BodiesAreSubstituted
  <2> SUFFICES ASSUME NEW n \in Nodes, n.sym \in Instances
               PROVE  LET base == Sym(n.sym).sym_ref
                          text == Sym(base).text
                      IN  /\ Len(n.uses) = UsesUpTo(text, Len(text))
                          /\ \A j \in UsesOf(text) :
                                 Substituted(text[j], TypeParams(base), Sym(n.sym).args,
                                             n.uses[UsesUpTo(text, j)])
    BY DEF BodiesAreSubstituted
  <2> DEFINE base == Sym(n.sym).sym_ref
             text == Sym(base).text
  <2>1. ProcsInv /\ NodesDone /\ TableInv(tbl_)
    BY <1>1 DEF BodiesInv, ProcsInv
  <2>2. PICK d \in DOMAIN toplevel_decls : n = toplevel_decls[d]
    BY DEF Nodes, ToSet
  <2>3. Sym(n.sym).args # NoArgs
    BY DEF Instances
  <2>4. BodyDone(n.sym, Len(text), n.uses)
    BY <2>1, <2>2, <2>3 DEF NodesDone
  <2>5. text \in Seq(TextItems)
    <3>1. base \in DOMAIN tbl_.sym_table
      BY <2>1, <2>2, <2>3, NodeFacts
    <3> HIDE DEF base
    <3>2. Sym(base) \in Symbols
      BY <2>1, <3>1, TableParts DEF Sym
    <3> QED
      BY <3>2 DEF Symbols
  <2>6. TextDone(text, TypeParams(base), Sym(n.sym).args, Len(text), n.uses)
    BY <2>4 DEF BodyDone
  <2> HIDE DEF text, base
  <2>7. \A j \in UsesOf(text) : j <= Len(text)
    BY <2>5 DEF UsesOf
  <2>8. /\ Len(n.uses) = UsesUpTo(text, Len(text))
        /\ \A j \in UsesOf(text) :
               Substituted(text[j], TypeParams(base), Sym(n.sym).args,
                           n.uses[UsesUpTo(text, j)])
    BY <2>6, <2>7 DEF TextDone
  <2> QED
    BY <2>8 DEF text, base
<1> QED
  BY <1>1, BodiesInvariant, PTL

-----------------------------------------------------------------------------
(***************************************************************************)
(* What GenericInstances promises is kept, as far as safety goes: the      *)
(* initial states are initial there, and each step is a step there or      *)
(* changes nothing that is seen there.                                     *)
(***************************************************************************)

HasNode(i) == \E d \in DOMAIN toplevel_decls : toplevel_decls[d].sym = i

\* What the body of i asks for.
Asked(i) == AsksFor(BodyUses(i))

-----------------------------------------------------------------------------
(* What the mapping says of a state *)

LEMMA BodyUsesLemma ==
    \A i, u : u \in BodyUses(i) <=>
        \/ \E d \in DOMAIN toplevel_decls :
               /\ toplevel_decls[d].sym = i
               /\ \E k \in DOMAIN toplevel_decls[d].uses : u = toplevel_decls[d].uses[k]
        \/ proc = i /\ \E k \in DOMAIN uses : u = uses[k]
<1> TAKE i, u
<1>1. u \in UsesIn({i}) <=> \E n \in Nodes : n.sym = i /\ u \in ToSet(n.uses)
  BY DEF UsesIn
<1>2. u \in UsesIn({i}) <=>
          \E d \in DOMAIN toplevel_decls :
              /\ toplevel_decls[d].sym = i
              /\ \E k \in DOMAIN toplevel_decls[d].uses : u = toplevel_decls[d].uses[k]
  BY <1>1 DEF Nodes, ToSet
<1>3. u \in ToSet(uses) <=> \E k \in DOMAIN uses : u = uses[k]
  BY DEF ToSet
<1> QED
  BY <1>2, <1>3 DEF BodyUses

LEMMA AskedLemma ==
    \A i, x : x \in Asked(i) <=> \E u \in BodyUses(i) : u.to \in Instances /\ x = Key(u.to)
  BY DEF Asked, AsksFor

\* Only what is in the table has a body, and only of that does it speak.
BodiesAreKnown ==
    /\ \A i : HasNode(i) => i \in DOMAIN tbl_.sym_table
    /\ \A i : BodyUses(i) # {} => /\ i \in DOMAIN tbl_.sym_table
                                  /\ HasNode(i) \/ proc = i
    /\ \A i : \A u \in BodyUses(i) : u.to \in DOMAIN tbl_.sym_table

LEMMA BodiesAreKnownHolds == ProcsInv => BodiesAreKnown
<1> SUFFICES ASSUME ProcsInv PROVE BodiesAreKnown
  OBVIOUS
<1>1. UsesInv /\ NodesInv /\ TypeInv /\ ParserInv
  BY DEF ProcsInv
<1>2. \A i : HasNode(i) => i \in DOMAIN tbl_.sym_table
  BY <1>1 DEF HasNode, NodesInv
<1>3. ASSUME NEW i, NEW u \in BodyUses(i)
      PROVE  /\ u.to \in DOMAIN tbl_.sym_table
             /\ i \in DOMAIN tbl_.sym_table
             /\ HasNode(i) \/ proc = i
  <2>1. CASE \E d \in DOMAIN toplevel_decls :
                 /\ toplevel_decls[d].sym = i
                 /\ \E k \in DOMAIN toplevel_decls[d].uses : u = toplevel_decls[d].uses[k]
    <3>1. HasNode(i) /\ u.to \in DOMAIN tbl_.sym_table
      BY <2>1, <1>1 DEF HasNode, UsesInv
    <3> QED
      BY <3>1, <1>2
  <2>2. CASE proc = i /\ \E k \in DOMAIN uses : u = uses[k]
    <3>1. u.to \in DOMAIN tbl_.sym_table
      BY <2>2, <1>1 DEF UsesInv
    <3>2. uses # <<>>
      BY <2>2
    <3>3. proc # NoSymbol
      BY <3>2, <1>1 DEF ParserInv
    <3> QED
      BY <2>2, <3>1, <3>3, <1>1 DEF TypeInv
  <2> QED
    BY <2>1, <2>2, BodyUsesLemma
<1> QED
  BY <1>2, <1>3 DEF BodiesAreKnown

LEMMA AskedIsKnown ==
    ProcsInv => \A i, x : x \in Asked(i) => i \in DOMAIN tbl_.sym_table
<1> SUFFICES ASSUME ProcsInv, NEW i, NEW x, x \in Asked(i)
             PROVE  i \in DOMAIN tbl_.sym_table
  OBVIOUS
<1>1. PICK u : u \in BodyUses(i)
  BY AskedLemma
<1>2. BodyUses(i) # {}
  BY <1>1
<1> QED
  BY <1>2, BodiesAreKnownHolds DEF BodiesAreKnown

\* An instance is known by its key.
LEMMA KeyUnique ==
    ProcsInv => \A i, j \in Instances : Key(i) = Key(j) => i = j
<1> SUFFICES ASSUME ProcsInv, NEW i \in Instances, NEW j \in Instances, Key(i) = Key(j)
             PROVE  i = j
  OBVIOUS
<1>1. ScopesOK(tbl_) /\ IsTable(tbl_)
  BY DEF ProcsInv, TableInv
<1>2. 1 \in DOMAIN tbl_.scope_stack
  BY <1>1 DEF ScopesOK, IsTable
<1>3. i \in tbl_.scope_stack[1] /\ j \in tbl_.scope_stack[1]
  BY TableParts DEF ProcsInv, Instances, Sym, SymbolOK
<1>4. Sym(i).name = Sym(j).name /\ Sym(i).args = Sym(j).args
  BY DEF Key
<1> QED
  BY <1>1, <1>2, <1>3, <1>4 DEF ScopesOK, Keyed, Sym

LEMMA KeyIsNot == \A i : Key(i) # NotAnInstance
  BY DEF Key, NotAnInstance

LEMMA BegunLemma ==
    \A i : i \in BegunInstances <=> i \in Instances /\ (proc = i \/ HasNode(i))
  BY DEF BegunInstances, HasNode, Nodes, ToSet

LEMMA BuiltLemma ==
    \A x : x \in Built <=> \E i \in Instances : HasNode(i) /\ x = Key(i)
  BY DEF Built, Nodes, ToSet, HasNode

\* Whom the abstract bodies stand for.
WantsFacts ==
    /\ DOMAIN Wants = {NotAnInstance} \cup {Key(i) : i \in BegunInstances}
    /\ Wants = [b \in DOMAIN Wants |-> Wants[b]]
    /\ \A x : x \in Wants[NotAnInstance] <=>
                  \E i \in DOMAIN tbl_.sym_table \ Instances : x \in Asked(i)
    /\ \A i \in BegunInstances : Wants[Key(i)] = Asked(i)

LEMMA WantsLemma == ProcsInv => WantsFacts
<1> SUFFICES ASSUME ProcsInv PROVE WantsFacts
  OBVIOUS
<1>1. /\ DOMAIN Wants = {NotAnInstance} \cup {Key(i) : i \in BegunInstances}
      /\ Wants = [b \in DOMAIN Wants |-> Wants[b]]
      /\ \A b \in DOMAIN Wants : Wants[b] = UNION {Asked(i) : i \in BodiesOf(b)}
  BY DEF Wants, Asked
<1>2. \A x : x \in Wants[NotAnInstance] <=>
          \E i \in DOMAIN tbl_.sym_table \ Instances : x \in Asked(i)
  BY <1>1 DEF BodiesOf
<1>3. \A i \in BegunInstances : BodiesOf(Key(i)) = {i}
  BY KeyUnique, KeyIsNot DEF BodiesOf, BegunInstances
<1>4. \A i \in BegunInstances : Wants[Key(i)] = Asked(i)
  <2> SUFFICES ASSUME NEW i \in BegunInstances PROVE Wants[Key(i)] = Asked(i)
    OBVIOUS
  <2>1. Wants[Key(i)] = UNION {Asked(j) : j \in {i}}
    BY <1>1, <1>3
  <2> QED
    BY <2>1
<1> QED
  BY <1>1, <1>2, <1>4 DEF WantsFacts

\* What is asked for are the instances there are.
LEMMA AskedIsInstances ==
    ASSUME ProcsInv
    PROVE  /\ Promise!asked = {Key(i) : i \in Instances}
           /\ Promise!begun = {Key(i) : i \in BegunInstances}
<1>0. WantsFacts /\ WantedInv /\ BodiesAreKnown
  BY WantsLemma, BodiesAreKnownHolds DEF ProcsInv
<1>1. \A x \in Promise!asked : \E i \in Instances : x = Key(i)
  <2> SUFFICES ASSUME NEW b \in DOMAIN Wants, NEW x \in Wants[b]
               PROVE  \E i \in Instances : x = Key(i)
    BY DEF Promise!asked
  <2>1. PICK i : x \in Asked(i)
    BY <1>0 DEF WantsFacts
  <2> QED
    BY <2>1, AskedLemma
<1>2. ASSUME NEW i \in Instances
      PROVE  Key(i) \in Promise!asked
  <2>1. \/ \E k \in DOMAIN uses : uses[k].to = i
        \/ \E d \in DOMAIN toplevel_decls :
               \E k \in DOMAIN toplevel_decls[d].uses : toplevel_decls[d].uses[k].to = i
    BY <1>0 DEF WantedInv, Instances
  <2>2. PICK j, u : u \in BodyUses(j) /\ u.to = i
    BY <2>1, BodyUsesLemma
  <2>3. Key(i) \in Asked(j) /\ j \in DOMAIN tbl_.sym_table /\ (HasNode(j) \/ proc = j)
    BY <2>2, <1>0, AskedLemma DEF BodiesAreKnown
  <2>4. CASE j \in Instances
    <3>1. j \in BegunInstances
      BY <2>3, <2>4, BegunLemma
    <3> QED
      BY <2>3, <3>1, <1>0 DEF WantsFacts, Promise!asked
  <2>5. CASE j \notin Instances
    BY <2>3, <2>5, <1>0 DEF WantsFacts, Promise!asked
  <2> QED
    BY <2>4, <2>5
<1>3. Promise!begun = {Key(i) : i \in BegunInstances}
  BY <1>0, KeyIsNot DEF WantsFacts, Promise!begun
<1> QED
  BY <1>1, <1>2, <1>3

-----------------------------------------------------------------------------
(* What the mapping makes of a step *)

\* The state before and after a step.
Steps == ProcsInv /\ ProcsInv' /\ KeysKept

LEMMA WantsLemmaAfter == ProcsInv' => WantsFacts'
  BY WantsLemma, PTL
LEMMA AskedLemmaAfter ==
    (\A i, x : x \in Asked(i) <=> \E u \in BodyUses(i) : u.to \in Instances /\ x = Key(u.to))'
  BY AskedLemma, PTL
LEMMA BegunLemmaAfter ==
    (\A i : i \in BegunInstances <=> i \in Instances /\ (proc = i \/ HasNode(i)))'
  BY BegunLemma, PTL
LEMMA BuiltLemmaAfter ==
    (\A x : x \in Built <=> \E i \in Instances : HasNode(i) /\ x = Key(i))'
  BY BuiltLemma, PTL
LEMMA KnownAfter == ProcsInv' => BodiesAreKnown'
  BY BodiesAreKnownHolds, PTL
LEMMA BodyUsesLemmaAfter ==
    (\A i, u : u \in BodyUses(i) <=>
        \/ \E d \in DOMAIN toplevel_decls :
               /\ toplevel_decls[d].sym = i
               /\ \E k \in DOMAIN toplevel_decls[d].uses : u = toplevel_decls[d].uses[k]
        \/ proc = i /\ \E k \in DOMAIN uses : u = uses[k])'
  BY BodyUsesLemma, PTL

LEMMA KeysAfter ==
    ASSUME Steps
    PROVE  /\ \A i \in DOMAIN tbl_.sym_table : i \in Instances' <=> i \in Instances
           /\ \A i \in Instances : Key(i)' = Key(i) /\ i \in Instances'
  BY DEF Steps, KeysKept, Instances, Key, Sym

\* A body in which nothing is used that was not before asks for what it did.
LEMMA SameAsked ==
    ASSUME Steps, NEW i, BodyUses(i)' = BodyUses(i)
    PROVE  Asked(i)' = Asked(i)
<1>1. BodiesAreKnown
  BY BodiesAreKnownHolds DEF Steps
<1>2. \A u \in BodyUses(i) : /\ u.to \in Instances' <=> u.to \in Instances
                             /\ u.to \in Instances => Key(u.to)' = Key(u.to)
  BY <1>1, KeysAfter DEF BodiesAreKnown
<1>3. \A x : x \in Asked(i)' <=> x \in Asked(i)
  BY <1>2, AskedLemma, AskedLemmaAfter
<1> QED
  BY <1>3 DEF Asked, AsksFor

\* No instance is begun, and no body says anything else than before.
LEMMA SameWants ==
    ASSUME Steps, \A i : BodyUses(i)' = BodyUses(i),
           \A i \in Instances' : i \in BegunInstances' <=> i \in BegunInstances
    PROVE  Wants' = Wants
<1>1. /\ WantsFacts /\ WantsFacts' /\ BodiesAreKnown
      /\ DOMAIN tbl_.sym_table \subseteq DOMAIN tbl_'.sym_table
  BY WantsLemma, WantsLemmaAfter, BodiesAreKnownHolds DEF Steps, KeysKept
<1>2. \A i : Asked(i)' = Asked(i)
  BY SameAsked
<1>3. \A i : i \in BegunInstances' <=> i \in BegunInstances
  BY KeysAfter, BegunLemma, BegunLemmaAfter
<1>4. \A i \in BegunInstances : Key(i)' = Key(i)
  BY KeysAfter, BegunLemma
<1>5. DOMAIN Wants' = DOMAIN Wants
  <2>1. {Key(i)' : i \in BegunInstances'} = {Key(i) : i \in BegunInstances}
    BY <1>3, <1>4
  <2>2. DOMAIN Wants' = {NotAnInstance} \cup {Key(i)' : i \in BegunInstances'}
    BY <1>1 DEF WantsFacts, NotAnInstance
  <2> QED
    BY <2>1, <2>2, <1>1 DEF WantsFacts
<1>6. \A x : x \in Wants'[NotAnInstance] <=> x \in Wants[NotAnInstance]
  <2>1. \A i, x : x \in Asked(i) => i \in DOMAIN tbl_.sym_table
    BY AskedIsKnown DEF Steps
  <2>2. \A x : x \in Wants'[NotAnInstance] <=>
            \E i \in DOMAIN tbl_'.sym_table \ Instances' : x \in Asked(i)
    BY <1>1, <1>2 DEF WantsFacts, NotAnInstance
  <2> QED
    BY <1>1, <2>1, <2>2, KeysAfter DEF WantsFacts
<1>7. \A i \in BegunInstances : Wants'[Key(i)] = Wants[Key(i)]
  <2>1. \A i \in BegunInstances' : Wants'[Key(i)'] = Asked(i)'
    BY <1>1 DEF WantsFacts
  <2> QED
    BY <1>1, <1>2, <1>3, <1>4, <2>1 DEF WantsFacts
<1>8. \A b \in DOMAIN Wants : Wants'[b] = Wants[b]
  <2>1. Wants'[NotAnInstance] = Wants[NotAnInstance]
    BY <1>6
  <2>2. \A b \in DOMAIN Wants :
            b = NotAnInstance \/ \E i \in BegunInstances : b = Key(i)
    BY <1>1 DEF WantsFacts
  <2> QED
    BY <1>7, <2>1, <2>2
<1>9. Wants = [b \in DOMAIN Wants |-> Wants[b]] /\ Wants' = [b \in DOMAIN Wants' |-> Wants'[b]]
  BY <1>1 DEF WantsFacts
<1> HIDE DEF Wants
<1> QED
  BY <1>5, <1>8, <1>9

\* No instance gets a body.
LEMMA SameBuilt ==
    ASSUME Steps, \A i \in Instances' : HasNode(i)' <=> HasNode(i)
    PROVE  Built' = Built
<1>1. BodiesAreKnown
  BY BodiesAreKnownHolds DEF Steps
<1>2. \A x : x \in Built' <=> x \in Built
  BY <1>1, KeysAfter, BuiltLemma, BuiltLemmaAfter DEF BodiesAreKnown
<1> QED
  BY <1>2 DEF Built

\* Steps that nobody sees who looks at instances only.
LEMMA UnseenStep ==
    ASSUME Steps, \A i : BodyUses(i)' = BodyUses(i),
           \A i \in Instances' : /\ HasNode(i)' <=> HasNode(i)
                                 /\ proc' = i <=> proc = i
    PROVE  Wants' = Wants /\ Built' = Built
<1>1. \A i \in Instances' : i \in BegunInstances' <=> i \in BegunInstances
  <2>1. \A i \in Instances' : HasNode(i) \/ proc = i => i \in Instances
    <3>1. BodiesAreKnown
      BY BodiesAreKnownHolds DEF Steps
    <3>2. proc \in {NoSymbol} \cup DOMAIN tbl_.sym_table /\ 0 \notin DOMAIN tbl_'.sym_table
      BY TableParts DEF Steps, ProcsInv, TypeInv
    <3> QED
      BY <3>1, <3>2, KeysAfter DEF BodiesAreKnown, Instances, NoSymbol
  <2> QED
    BY <2>1, KeysAfter, BegunLemma, BegunLemmaAfter
<1> QED
  BY <1>1, SameWants, SameBuilt

LEMMA SameBodies ==
    ASSUME UNCHANGED <<proc, uses, toplevel_decls>>
    PROVE  /\ \A i : BodyUses(i)' = BodyUses(i)
           /\ \A i : HasNode(i)' <=> HasNode(i)
  BY DEF BodyUses, UsesIn, Nodes, HasNode

-----------------------------------------------------------------------------
(* The steps *)

PromiseStep == Promise!Next \/ UNCHANGED Promise!vars

LEMMA UnseenPromise ==
    ASSUME Steps, Stage' = Stage, \A i : BodyUses(i)' = BodyUses(i),
           \A i \in Instances' : /\ HasNode(i)' <=> HasNode(i)
                                 /\ proc' = i <=> proc = i
    PROVE  PromiseStep
<1>1. Wants' = Wants /\ Built' = Built
  BY UnseenStep
<1> QED
  BY <1>1 DEF PromiseStep, Promise!vars

\* Only the stage changes.
LEMMA SameBodiesStep ==
    ASSUME Steps, UNCHANGED <<proc, uses, toplevel_decls>>
    PROVE  Wants' = Wants /\ Built' = Built
  BY SameBodies, UnseenStep

LEMMA AppendNode ==
    ASSUME ProcsInv, NEW j, NEW us,
           toplevel_decls' = Append(toplevel_decls, [sym |-> j, uses |-> us])
    PROVE  /\ \A i : HasNode(i)' <=> HasNode(i) \/ i = j
           /\ \A i, u :
                  (\E d \in DOMAIN toplevel_decls' :
                       /\ toplevel_decls'[d].sym = i
                       /\ \E k \in DOMAIN toplevel_decls'[d].uses :
                              u = toplevel_decls'[d].uses[k])
                  <=> \/ \E d \in DOMAIN toplevel_decls :
                             /\ toplevel_decls[d].sym = i
                             /\ \E k \in DOMAIN toplevel_decls[d].uses :
                                    u = toplevel_decls[d].uses[k]
                      \/ i = j /\ \E k \in DOMAIN us : u = us[k]
<1> DEFINE node == [sym |-> j, uses |-> us]
           new == Len(toplevel_decls) + 1
<1>1. toplevel_decls \in Seq([sym : Nat, uses : Seq(Uses)])
  BY DEF ProcsInv, TypeInv
<1>2. /\ DOMAIN toplevel_decls' = DOMAIN toplevel_decls \cup {new}
      /\ toplevel_decls'[new] = node
      /\ \A d \in DOMAIN toplevel_decls : toplevel_decls'[d] = toplevel_decls[d]
  BY <1>1
<1>3. node.sym = j /\ node.uses = us
  OBVIOUS
<1> HIDE DEF node, new
<1>4. \A i : HasNode(i)' <=> HasNode(i) \/ i = j
  BY <1>2, <1>3 DEF HasNode
<1> QED
  BY <1>2, <1>3, <1>4

\* A procedure of the source begins, or a generic one is declared.
LEMMA NewBodyIsEmpty ==
    ASSUME Steps, proc = NoSymbol, status' = "parsing", Stage' = Stage,
           uses' = uses,
           \/ UNCHANGED toplevel_decls
           \/ proc' = proc /\ \E j : toplevel_decls' =
                              Append(toplevel_decls, [sym |-> j, uses |-> <<>>])
    PROVE  PromiseStep
<1>1. /\ uses = <<>> /\ NodesInv' /\ WorkInv' /\ ParserInv' /\ ProcsInv
      /\ TableInv(tbl_') /\ TableInv(tbl_)
  BY DEF Steps, ProcsInv, ParserInv
<1>2. \A i \in Instances' : i # proc' /\ ~HasNode(i)' /\ i # NoSymbol
  <2> SUFFICES ASSUME NEW i \in Instances' PROVE i # proc' /\ ~HasNode(i)' /\ i # NoSymbol
    OBVIOUS
  <2>1. i \in DOMAIN tbl_'.sym_table /\ tbl_'.sym_table[i].args # NoArgs
    BY DEF Instances, Sym
  <2>2. tbl_'.sym_table[i].genperm
    BY <1>1, <2>1 DEF WorkInv, Sym
  <2>3. i # NoSymbol
    BY <1>1, <2>1, TableParts DEF NoSymbol
  <2>4. i # proc'
    BY <1>1, <2>2, <2>3 DEF ParserInv, Sym
  <2>5. ~HasNode(i)'
    BY <1>1, <2>2 DEF NodesInv, HasNode, Sym
  <2> QED
    BY <2>3, <2>4, <2>5
<1>3. /\ \A i : BodyUses(i)' = BodyUses(i)
      /\ \A i : HasNode(i) => HasNode(i)'
  <2>1. CASE UNCHANGED toplevel_decls
    <3>1. \A i, u : u \in BodyUses(i)' <=> u \in BodyUses(i)
      BY <1>1, <2>1, BodyUsesLemma, BodyUsesLemmaAfter
    <3>2. \A i : BodyUses(i)' = BodyUses(i)
      BY <3>1 DEF BodyUses
    <3> QED
      BY <2>1, <3>2 DEF HasNode
  <2>2. CASE \E j : toplevel_decls' = Append(toplevel_decls, [sym |-> j, uses |-> <<>>])
    <3>1. PICK j : toplevel_decls' = Append(toplevel_decls, [sym |-> j, uses |-> <<>>])
      BY <2>2
    <3>2. \A i, u : u \in BodyUses(i)' <=> u \in BodyUses(i)
      <4>1. DOMAIN <<>> = {}
        OBVIOUS
      <4> QED
        BY <1>1, <3>1, <4>1, AppendNode, BodyUsesLemma, BodyUsesLemmaAfter
    <3>3. \A i : BodyUses(i)' = BodyUses(i)
      BY <3>2 DEF BodyUses
    <3> QED
      BY <1>1, <3>1, <3>3, AppendNode
  <2> QED
    BY <2>1, <2>2
<1> QED
  BY <1>2, <1>3, UnseenPromise

LEMMA EndTextBodies ==
    ASSUME ProcsInv, InText, proc' = NoSymbol, uses' = <<>>,
           toplevel_decls' = Append(toplevel_decls, [sym |-> proc, uses |-> uses])
    PROVE  /\ \A i : BodyUses(i)' = BodyUses(i)
           /\ \A i : HasNode(i)' <=> HasNode(i) \/ i = proc
<1>1. \A i, u : u \in BodyUses(i)' <=> u \in BodyUses(i)
  BY AppendNode, BodyUsesLemma, BodyUsesLemmaAfter
<1>2. \A i : BodyUses(i)' = BodyUses(i)
  BY <1>1 DEF BodyUses
<1> QED
  BY <1>2, AppendNode

\* The text of a procedure of the source ends.
LEMMA EndProcPromise == ASSUME Steps, EndProc PROVE PromiseStep
<1>1. /\ InText /\ proc' = NoSymbol /\ uses' = <<>> /\ status' = status
      /\ toplevel_decls' = Append(toplevel_decls, [sym |-> proc, uses |-> uses])
      /\ status = "parsing"
  BY DEF EndProc, EndText
<1>2. ProcsInv /\ ParserInv /\ TypeInv /\ TableInv(tbl_') /\ TableInv(tbl_) /\ proc # NoSymbol
  BY <1>1 DEF Steps, ProcsInv, InText
<1>3. \A i \in Instances' : i # NoSymbol /\ i # proc
  <2>1. proc \in DOMAIN tbl_.sym_table /\ Sym(proc).args = NoArgs
    BY <1>1, <1>2 DEF ParserInv, TypeInv
  <2>2. proc \notin Instances'
    BY <2>1, KeysAfter DEF Instances
  <2>3. NoSymbol \notin Instances'
    BY <1>2, TableParts DEF Instances, NoSymbol
  <2> QED
    BY <2>2, <2>3
<1>4. Stage' = Stage
  BY <1>1 DEF Stage
<1> QED
  BY <1>1, <1>2, <1>3, <1>4, EndTextBodies, UnseenPromise

\* The body of an instance is complete.
LEMMA EndReparsePromise == ASSUME Steps, EndReparse PROVE PromiseStep
<1>1. /\ InText /\ proc' = NoSymbol /\ uses' = <<>> /\ status' = status
      /\ toplevel_decls' = Append(toplevel_decls, [sym |-> proc, uses |-> uses])
      /\ status = "permuting"
  BY DEF EndReparse, EndText
<1>2. ProcsInv /\ ParserInv /\ TypeInv /\ NodesInv /\ TableInv(tbl_') /\ proc # NoSymbol
  BY <1>1 DEF Steps, ProcsInv, InText
<1>3. proc \in Instances /\ ~HasNode(proc) /\ proc \in BegunInstances
  <2>1. proc \in Instances
    BY <1>1, <1>2 DEF ParserInv, TypeInv, Instances
  <2>2. ~HasNode(proc)
    BY <1>2 DEF NodesInv, HasNode
  <2> QED
    BY <2>1, <2>2, BegunLemma
<1>4. /\ \A i : BodyUses(i)' = BodyUses(i)
      /\ \A i : HasNode(i)' <=> HasNode(i) \/ i = proc
  BY <1>1, <1>2, EndTextBodies
<1>5. Wants' = Wants
  <2>1. \A i \in Instances' : i \in BegunInstances' <=> i \in BegunInstances
    <3>1. NoSymbol \notin Instances'
      BY <1>2, TableParts DEF Instances, NoSymbol
    <3>2. \A i \in Instances' : HasNode(i) => i \in Instances
      <4>1. BodiesAreKnown
        BY <1>2, BodiesAreKnownHolds
      <4> QED
        BY <4>1, KeysAfter DEF BodiesAreKnown
    <3> QED
      BY <1>1, <1>3, <1>4, <3>1, <3>2, BegunLemma, BegunLemmaAfter, KeysAfter
  <2> QED
    BY <1>4, <2>1, SameWants
<1>6. Built' = Built \cup {Key(proc)}
  <2>1. BodiesAreKnown
    BY <1>2, BodiesAreKnownHolds
  <2>2. \A x : x \in Built' <=> x \in Built \/ x = Key(proc)
    BY <1>3, <1>4, <2>1, BuiltLemma, BuiltLemmaAfter, KeysAfter DEF BodiesAreKnown
  <2> QED
    BY <2>2 DEF Built
<1>7. Key(proc) \in Promise!asked /\ Key(proc) \in Promise!begun
  BY <1>2, <1>3, AskedIsInstances
<1>8. Key(proc) \notin Built
  BY <1>2, <1>3, BuiltLemma, KeyUnique
<1>9. Stage = "building" /\ Stage' = Stage
  BY <1>1 DEF Stage
<1>10. Promise!Complete(Key(proc))
  BY <1>5, <1>6, <1>7, <1>8, <1>9 DEF Promise!Complete
<1> QED
  BY <1>7, <1>10 DEF PromiseStep, Promise!Next

\* A turn of the worklist begins a body.
LEMMA BeginPromise ==
    ASSUME Steps, NEW i \in DOMAIN tbl_.sym_table, status = "permuting",
           proc = NoSymbol, Sym(i).genperm, proc' = i,
           UNCHANGED <<status, uses, toplevel_decls>>
    PROVE  PromiseStep
<1>1. ProcsInv /\ ParserInv /\ NodesInv /\ TableInv(tbl_) /\ uses = <<>>
  BY DEF Steps, ProcsInv, ParserInv
<1>2. i \in Instances /\ ~HasNode(i) /\ i # NoSymbol
  <2>1. SymbolOK(tbl_, i) /\ i # NoSymbol
    BY <1>1, TableParts DEF NoSymbol
  <2>2. i \in Instances
    BY <2>1 DEF SymbolOK, Instances, Sym
  <2>3. ~HasNode(i)
    BY <1>1 DEF NodesInv, HasNode
  <2> QED
    BY <2>1, <2>2, <2>3
<1>3. /\ \A j : BodyUses(j)' = BodyUses(j)
      /\ \A j : HasNode(j)' <=> HasNode(j)
      /\ BodyUses(i) = {}
  <2>1. \A j, u : u \in BodyUses(j)' <=> u \in BodyUses(j)
    BY <1>1, BodyUsesLemma, BodyUsesLemmaAfter
  <2>2. \A j : BodyUses(j)' = BodyUses(j)
    BY <2>1 DEF BodyUses
  <2>3. \A j : HasNode(j)' <=> HasNode(j)
    BY DEF HasNode
  <2>4. BodiesAreKnown
    BY <1>1, BodiesAreKnownHolds
  <2>5. BodyUses(i) = {}
    BY <1>2, <2>4 DEF BodiesAreKnown
  <2> QED
    BY <2>2, <2>3, <2>5
<1>4. Built' = Built
  BY <1>3, SameBuilt
<1>5. \A j : j \in BegunInstances' <=> j \in BegunInstances \/ j = i
  <2>1. BodiesAreKnown
    BY <1>1, BodiesAreKnownHolds
  <2>2. NoSymbol \notin Instances
    BY <1>1, TableParts DEF Instances, NoSymbol
  <2> QED
    BY <1>2, <1>3, <2>1, <2>2, BegunLemma, BegunLemmaAfter, KeysAfter DEF BodiesAreKnown
<1>6. Promise!begun \subseteq Built /\ Key(i) \in Promise!asked /\ Key(i) \notin Promise!begun
  <2>1. NoSymbol \notin Instances
    BY <1>1, TableParts DEF Instances, NoSymbol
  <2>2. \A j \in BegunInstances : HasNode(j) /\ j \in Instances
    BY <2>1, BegunLemma
  <2>3. \A j \in BegunInstances : Key(j) \in Built
    BY <2>2, BuiltLemma
  <2>4. \A j \in BegunInstances : Key(j) # Key(i)
    BY <1>1, <1>2, <2>2, KeyUnique
  <2> QED
    BY <1>1, <1>2, <2>3, <2>4, AskedIsInstances
<1>7. Wants' = [b \in DOMAIN Wants \cup {Key(i)} |-> IF b = Key(i) THEN {} ELSE Wants[b]]
  <2> DEFINE f == [b \in DOMAIN Wants \cup {Key(i)} |-> IF b = Key(i) THEN {} ELSE Wants[b]]
  <2>1. /\ WantsFacts /\ WantsFacts' /\ BodiesAreKnown
        /\ DOMAIN tbl_.sym_table \subseteq DOMAIN tbl_'.sym_table
    BY WantsLemma, WantsLemmaAfter, BodiesAreKnownHolds DEF Steps, KeysKept
  <2>2. \A j : Asked(j)' = Asked(j)
    BY <1>3, SameAsked
  <2>3. Asked(i) = {}
    BY <1>3 DEF Asked, AsksFor
  <2>4. \A j \in BegunInstances \cup {i} : Key(j)' = Key(j) /\ Key(j) # NotAnInstance
    BY <1>2, KeysAfter, BegunLemma, KeyIsNot
  <2>5. DOMAIN Wants' = DOMAIN Wants \cup {Key(i)}
    <3>1. {Key(j)' : j \in BegunInstances'} = {Key(j) : j \in BegunInstances} \cup {Key(i)}
      BY <1>5, <2>4
    <3>2. DOMAIN Wants' = {NotAnInstance} \cup {Key(j)' : j \in BegunInstances'}
      BY <2>1 DEF WantsFacts, NotAnInstance
    <3> QED
      BY <3>1, <3>2, <2>1 DEF WantsFacts
  <2>6. \A x : x \in Wants'[NotAnInstance] <=> x \in Wants[NotAnInstance]
    <3>1. \A j, x : x \in Asked(j) => j \in DOMAIN tbl_.sym_table
      BY <1>1, AskedIsKnown
    <3>2. \A x : x \in Wants'[NotAnInstance] <=>
              \E j \in DOMAIN tbl_'.sym_table \ Instances' : x \in Asked(j)
      BY <2>1, <2>2 DEF WantsFacts, NotAnInstance
    <3> QED
      BY <2>1, <3>1, <3>2, KeysAfter DEF WantsFacts
  <2>7. \A j \in BegunInstances \cup {i} : Wants'[Key(j)] = Asked(j)
    <3>1. \A j \in BegunInstances' : Wants'[Key(j)'] = Asked(j)'
      BY <2>1 DEF WantsFacts
    <3> QED
      BY <1>5, <2>2, <2>4, <3>1
  <2>8. \A b \in DOMAIN Wants \cup {Key(i)} : Wants'[b] = f[b]
    <3>1. Wants'[NotAnInstance] = Wants[NotAnInstance]
      BY <2>6
    <3>2. \A j \in BegunInstances : Key(j) # Key(i) /\ Wants[Key(j)] = Asked(j)
      <4>1. \A j \in BegunInstances : j \in Instances /\ j # i
        BY <1>2, BegunLemma
      <4> QED
        BY <1>1, <1>2, <2>1, <4>1, KeyUnique DEF WantsFacts
    <3>3. \A b \in DOMAIN Wants : b = NotAnInstance \/ \E j \in BegunInstances : b = Key(j)
      BY <2>1 DEF WantsFacts
    <3> HIDE DEF Wants
    <3> QED
      BY <2>3, <2>4, <2>7, <3>1, <3>2, <3>3
  <2>9. Wants' = [b \in DOMAIN Wants' |-> Wants'[b]]
    BY <2>1 DEF WantsFacts
  <2> HIDE DEF Wants
  <2> QED
    BY <2>5, <2>8, <2>9
<1>8. Stage = "building" /\ Stage' = Stage
  BY DEF Stage
<1>9. Promise!Begin(Key(i))
  BY <1>4, <1>6, <1>7, <1>8 DEF Promise!Begin
<1> QED
  BY <1>6, <1>9 DEF PromiseStep, Promise!Next

\* A name is used in a body: the body asks for one instance more, or for none
\* that it has not asked for.
LEMMA IdentifierPromise == ASSUME Steps, Identifier PROVE PromiseStep
<1>1. PICK use : /\ InText /\ status' = status /\ proc' = proc
                 /\ uses' = Append(uses, use)
                 /\ UNCHANGED toplevel_decls
  BY DEF Identifier
<1> PICK new : new = {x \in {Key(use.to)'} : use.to \in Instances'}
  OBVIOUS
<1> PICK b : b = IF proc \in Instances THEN Key(proc) ELSE NotAnInstance
  OBVIOUS
<1>2. /\ ProcsInv /\ ParserInv /\ TypeInv /\ NodesInv /\ TableInv(tbl_')
      /\ proc # NoSymbol /\ proc \in DOMAIN tbl_.sym_table
      /\ uses \in Seq(Uses)
  BY <1>1 DEF Steps, ProcsInv, InText, TypeInv
<1>3. /\ DOMAIN uses' = DOMAIN uses \cup {Len(uses) + 1}
      /\ uses'[Len(uses) + 1] = use
      /\ \A k \in DOMAIN uses : uses'[k] = uses[k]
  BY <1>1, <1>2
<1>4. /\ \A i, u : u \in BodyUses(i)' <=> u \in BodyUses(i) \/ (i = proc /\ u = use)
      /\ \A i : HasNode(i)' <=> HasNode(i)
  <2>1. \A i : HasNode(i)' <=> HasNode(i)
    BY <1>1 DEF HasNode
  <2>2. \A i, u : u \in BodyUses(i)' <=> u \in BodyUses(i) \/ (i = proc /\ u = use)
    <3> TAKE i, u
    <3>1. (\E k \in DOMAIN uses' : u = uses'[k]) <=> (\E k \in DOMAIN uses : u = uses[k]) \/ u = use
      BY <1>3
    <3>2. u \in BodyUses(i)' <=>
              \/ \E d \in DOMAIN toplevel_decls :
                     /\ toplevel_decls[d].sym = i
                     /\ \E k \in DOMAIN toplevel_decls[d].uses : u = toplevel_decls[d].uses[k]
              \/ proc = i /\ \E k \in DOMAIN uses' : u = uses'[k]
      BY <1>1, BodyUsesLemmaAfter
    <3> QED
      BY <3>1, <3>2, BodyUsesLemma
  <2> QED
    BY <2>1, <2>2
<1>5. \A i, x : x \in Asked(i)' <=> x \in Asked(i) \/ (i = proc /\ x \in new)
  <2>1. BodiesAreKnown
    BY <1>2, BodiesAreKnownHolds
  <2>2. \A i : \A u \in BodyUses(i) : /\ u.to \in Instances' <=> u.to \in Instances
                                      /\ u.to \in Instances => Key(u.to)' = Key(u.to)
    BY <2>1, KeysAfter DEF BodiesAreKnown
  <2>3. \A x : x \in new <=> use.to \in Instances' /\ x = Key(use.to)'
    OBVIOUS
  <2> SUFFICES ASSUME NEW i, NEW x
               PROVE  x \in Asked(i)' <=> x \in Asked(i) \/ (i = proc /\ x \in new)
    OBVIOUS
  <2>4. x \in Asked(i)' <=>
            \E u : /\ u \in BodyUses(i) \/ (i = proc /\ u = use)
                  /\ u.to \in Instances' /\ x = Key(u.to)'
    BY <1>4, AskedLemmaAfter
  <2>5. x \in Asked(i) <=>
            \E u \in BodyUses(i) : u.to \in Instances' /\ x = Key(u.to)'
    BY <2>2, AskedLemma
  <2> QED
    BY <2>3, <2>4, <2>5
<1>6. \A i : i \in BegunInstances' <=> i \in BegunInstances
  <2>1. BodiesAreKnown
    BY <1>2, BodiesAreKnownHolds
  <2> QED
    BY <1>1, <1>2, <1>4, <2>1, BegunLemma, BegunLemmaAfter, KeysAfter DEF BodiesAreKnown
<1>7. /\ Stage' = Stage
      /\ Stage = IF b = NotAnInstance THEN "source" ELSE "building"
      /\ proc \in Instances => proc \in BegunInstances
      /\ b \notin Built
  <2>1. status \in {"parsing", "permuting"}
    BY <1>1 DEF InText
  <2>2. status = "parsing" <=> proc \notin Instances
    BY <1>2, <2>1 DEF ParserInv, Instances
  <2>3. b = NotAnInstance <=> proc \notin Instances
    BY KeyIsNot
  <2>4. proc \in Instances => proc \in BegunInstances
    BY BegunLemma
  <2>5. b \notin Built
    <3>1. ~HasNode(proc)
      BY <1>2 DEF NodesInv, HasNode
    <3> QED
      BY <1>2, <3>1, BuiltLemma, KeyUnique, KeyIsNot
  <2>6. Stage' = Stage
    BY <1>1 DEF Stage
  <2>7. Stage = IF b = NotAnInstance THEN "source" ELSE "building"
    BY <2>1, <2>2, <2>3 DEF Stage
  <2> QED
    BY <2>4, <2>5, <2>6, <2>7
<1>8. Built' = Built
  BY <1>4, SameBuilt
<1>9. /\ DOMAIN Wants' = DOMAIN Wants /\ b \in DOMAIN Wants
      /\ Wants' = [c \in DOMAIN Wants' |-> Wants'[c]]
      /\ Wants = [c \in DOMAIN Wants |-> Wants[c]]
      /\ Wants'[b] = Wants[b] \cup new
      /\ \A c \in DOMAIN Wants \ {b} : Wants'[c] = Wants[c]
  <2>1. /\ WantsFacts /\ WantsFacts' /\ BodiesAreKnown
        /\ DOMAIN tbl_.sym_table \subseteq DOMAIN tbl_'.sym_table
    BY WantsLemma, WantsLemmaAfter, BodiesAreKnownHolds DEF Steps, KeysKept
  <2>2. \A i \in BegunInstances : /\ Key(i)' = Key(i)
                                  /\ Key(i) # NotAnInstance
                                  /\ i \in Instances
    BY KeysAfter, BegunLemma, KeyIsNot
  <2>3. DOMAIN Wants' = DOMAIN Wants
    <3>1. {Key(i)' : i \in BegunInstances'} = {Key(i) : i \in BegunInstances}
      BY <1>6, <2>2
    <3>2. DOMAIN Wants' = {NotAnInstance} \cup {Key(i)' : i \in BegunInstances'}
      BY <2>1 DEF WantsFacts, NotAnInstance
    <3> QED
      BY <3>1, <3>2, <2>1 DEF WantsFacts
  <2>4. \A x : x \in Wants'[NotAnInstance] <=>
            x \in Wants[NotAnInstance] \/ (proc \notin Instances /\ x \in new)
    <3>1. \A i, x : x \in Asked(i) => i \in DOMAIN tbl_.sym_table
      BY <1>2, AskedIsKnown
    <3>2. \A x : x \in Wants'[NotAnInstance] <=>
              \E i \in DOMAIN tbl_'.sym_table \ Instances' :
                  x \in Asked(i) \/ (i = proc /\ x \in new)
      BY <2>1, <1>5 DEF WantsFacts, NotAnInstance
    <3>3. \A x : x \in Wants[NotAnInstance] <=>
              \E i \in DOMAIN tbl_.sym_table \ Instances : x \in Asked(i)
      BY <2>1 DEF WantsFacts
    <3> QED
      BY <1>2, <2>1, <3>1, <3>2, <3>3, KeysAfter
  <2>5. \A i \in BegunInstances : \A x :
            x \in Wants'[Key(i)] <=> x \in Wants[Key(i)] \/ (i = proc /\ x \in new)
    <3>1. \A i \in BegunInstances' : Wants'[Key(i)'] = Asked(i)'
      BY <2>1 DEF WantsFacts
    <3>2. \A i \in BegunInstances : Wants'[Key(i)] = Asked(i)' /\ Wants[Key(i)] = Asked(i)
      BY <1>6, <2>1, <2>2, <3>1 DEF WantsFacts
    <3> QED
      BY <1>5, <3>2
  <2>6. \A c \in DOMAIN Wants :
            c = NotAnInstance \/ \E i \in BegunInstances : c = Key(i)
    BY <2>1 DEF WantsFacts
  <2>7. \A c \in DOMAIN Wants : \A x :
            x \in Wants'[c] <=> x \in Wants[c] \/ (c = b /\ x \in new)
    <3> SUFFICES ASSUME NEW c \in DOMAIN Wants, NEW x
                 PROVE  x \in Wants'[c] <=> x \in Wants[c] \/ (c = b /\ x \in new)
      OBVIOUS
    <3>1. CASE c = NotAnInstance
      BY <3>1, <2>4, KeyIsNot
    <3>2. ASSUME NEW i \in BegunInstances, c = Key(i)
          PROVE  x \in Wants'[c] <=> x \in Wants[c] \/ (c = b /\ x \in new)
      <4>1. c = b <=> i = proc
        BY <1>2, <2>2, <3>2, KeyUnique
      <4> QED
        BY <2>5, <3>2, <4>1
    <3> QED
      BY <2>6, <3>1, <3>2
  <2>8. b \in DOMAIN Wants
    BY <1>7, <2>1 DEF WantsFacts
  <2>9. Wants'[b] = Wants[b] \cup new
    <3>1. \A x : x \in Wants'[b] <=> x \in Wants[b] \cup new
      BY <2>7, <2>8
    <3> QED
      BY <3>1
  <2>10. ASSUME NEW c \in DOMAIN Wants \ {b} PROVE Wants'[c] = Wants[c]
    <3>1. \A x : x \in Wants'[c] <=> x \in Wants[c]
      BY <2>7
    <3> QED
      BY <3>1
  <2>11. /\ Wants' = [c \in DOMAIN Wants' |-> Wants'[c]]
         /\ Wants = [c \in DOMAIN Wants |-> Wants[c]]
    BY <2>1 DEF WantsFacts
  <2> QED
    BY <2>3, <2>8, <2>9, <2>10, <2>11
<1>10. CASE new \subseteq Wants[b]
  <2>1. \A c \in DOMAIN Wants : Wants'[c] = Wants[c]
    BY <1>9, <1>10
  <2>2. Wants' = Wants
    BY <1>9, <2>1
  <2> QED
    BY <1>7, <1>8, <2>2 DEF PromiseStep, Promise!vars
<1>11. CASE ~(new \subseteq Wants[b])
  <2>1. PICK x \in new : x \notin Wants[b] /\ new = {x}
    BY <1>11
  <2>2. x \in Wants'[b] \ Wants[b] /\ Wants'[b] = Wants[b] \cup {x}
    BY <1>9, <2>1
  <2>3. Wants' = [Wants EXCEPT ![b] = Wants[b] \cup {x}]
    BY <1>9, <2>2
  <2>4. Promise!Ask(b)
    BY <1>7, <1>8, <1>9, <2>2, <2>3 DEF Promise!Ask
  <2> QED
    BY <1>9, <2>4 DEF PromiseStep, Promise!Next
<1> QED
  BY <1>10, <1>11

\* An error ends the compilation.
LEMMA RejectPromise ==
    ASSUME Steps, status \in {"parsing", "permuting"}, NEW outcome \in {"rejected", "aborted"},
           NEW why, Stop(outcome, why)
    PROVE  PromiseStep
<1>1. UNCHANGED <<proc, uses, toplevel_decls>> /\ status' = outcome
  BY DEF Stop
<1>2. Wants' = Wants /\ Built' = Built
  BY <1>1, SameBodiesStep
<1>3. Stage \in {"source", "building"} /\ Stage' = "failed"
  BY <1>1 DEF Stage
<1>4. Promise!Fail
  BY <1>2, <1>3 DEF Promise!Fail
<1> QED
  BY <1>4 DEF PromiseStep, Promise!Next

LEMMA SameStagePromise ==
    ASSUME Steps, UNCHANGED <<status, proc, uses, toplevel_decls>>
    PROVE  PromiseStep
<1>1. Wants' = Wants /\ Built' = Built
  BY SameBodiesStep
<1>2. Stage' = Stage
  BY DEF Stage
<1> QED
  BY <1>1, <1>2 DEF PromiseStep, Promise!vars

LEMMA EndOfSourcePromise == ASSUME Steps, EndOfSource PROVE PromiseStep
<1>1. \/ Reject("unresolved")
      \/ status' = "permuting" /\ UNCHANGED <<proc, uses, toplevel_decls>>
  BY DEF EndOfSource
<1>2. status = "parsing"
  BY DEF EndOfSource
<1>3. CASE Reject("unresolved")
  BY <1>2, <1>3, RejectPromise DEF Reject
<1>4. CASE status' = "permuting" /\ UNCHANGED <<proc, uses, toplevel_decls>>
  <2>1. Wants' = Wants /\ Built' = Built
    BY <1>4, SameBodiesStep
  <2>2. Stage = "source" /\ Stage' = "building"
    BY <1>2, <1>4 DEF Stage
  <2>3. Promise!EndOfSource
    BY <2>1, <2>2 DEF Promise!EndOfSource
  <2> QED
    BY <2>3 DEF PromiseStep, Promise!Next
<1> QED
  BY <1>1, <1>3, <1>4

LEMMA PermutePromise ==
    ASSUME Steps, NEW i \in DOMAIN tbl_.sym_table, Permute(i)
    PROVE  PromiseStep
<1>1. status = "permuting" /\ proc = NoSymbol /\ Sym(i).genperm
  BY DEF Permute
<1>2. \/ \E outcome \in {"rejected", "aborted"} : \E why : Stop(outcome, why)
      \/ UNCHANGED <<status, proc, uses, toplevel_decls>>
      \/ proc' = i /\ UNCHANGED <<status, uses, toplevel_decls>>
  <2>1. CASE TakesNone(Sym(i).sym_ref)
    BY <2>1 DEF Permute
  <2>2. CASE ~TakesNone(Sym(i).sym_ref)
    <3>1. BeginReparse(i, Sym(i).sym_ref)
      BY <2>2 DEF Permute
    <3>2. \/ Abort("unclean parser") \/ Abort("source position")
          \/ Reject("wrong number of type arguments") \/ Abort("type parameter")
          \/ proc' = i /\ UNCHANGED <<status, uses, toplevel_decls>>
      BY <3>1 DEF BeginReparse
    <3> QED
      BY <3>2 DEF Abort, Reject
  <2> QED
    BY <2>1, <2>2
<1> QED
  BY <1>1, <1>2, RejectPromise, SameStagePromise, BeginPromise

\* What is accepted is what was asked for: every instance has its node.
LEMMA CheckPromise == ASSUME Steps, Check PROVE PromiseStep
<1>1. /\ status = "permuting" /\ proc = NoSymbol
      /\ \A i \in DOMAIN tbl_.sym_table : ~Sym(i).genperm
      /\ \/ \E why : Reject(why)
         \/ ~errs_failed /\ Stop("accepted", "none")
  BY DEF Check
<1>2. CASE \E why : Reject(why)
  BY <1>1, <1>2, RejectPromise DEF Reject
<1>3. CASE ~errs_failed /\ Stop("accepted", "none")
  <2>1. ProcsInv /\ WorkInv /\ TableInv(tbl_)
    BY DEF Steps, ProcsInv
  <2>2. \A i \in Instances : HasNode(i)
    <3> SUFFICES ASSUME NEW i \in Instances PROVE HasNode(i)
      OBVIOUS
    <3>1. i \in DOMAIN tbl_.sym_table /\ tbl_.sym_table[i].args # NoArgs
      BY DEF Instances, Sym
    <3>2. tbl_.sym_table[i].kind = "proc" /\ i # NoSymbol
      BY <2>1, <3>1, TableParts DEF SymbolOK, NoSymbol
    <3> QED
      BY <1>1, <1>3, <2>1, <3>1, <3>2 DEF WorkInv, Sym, HasNode
  <2>3. Promise!asked = Built
    <3>1. \A x : x \in Built <=> \E i \in Instances : x = Key(i)
      BY <2>2, BuiltLemma
    <3>2. Promise!asked = {Key(i) : i \in Instances}
      BY <2>1, AskedIsInstances
    <3> QED
      BY <3>1, <3>2
  <2>4. Wants' = Wants /\ Built' = Built
    BY <1>3, SameBodiesStep DEF Stop
  <2>5. Stage = "building" /\ Stage' = "accepted"
    BY <1>1, <1>3 DEF Stage, Stop
  <2>6. Promise!Accept
    BY <2>3, <2>4, <2>5 DEF Promise!Accept
  <2> QED
    BY <2>6 DEF PromiseStep, Promise!Next
<1> QED
  BY <1>1, <1>2, <1>3

-----------------------------------------------------------------------------
(* The refinement *)

LEMMA InitPromise == ASSUME Init PROVE Promise!Init
<1>1. ProcsInv /\ WantsFacts
  BY InitProcsInv, WantsLemma
<1>2. DOMAIN tbl_.sym_table = {} /\ toplevel_decls = <<>> /\ status = "parsing"
  BY DEF Init, EmptyTable
<1>3. Instances = {} /\ BegunInstances = {}
  BY <1>2 DEF Instances, BegunInstances
<1>4. Built = {}
  BY <1>3, BuiltLemma
<1>5. DOMAIN Wants = {NotAnInstance} /\ Wants[NotAnInstance] = {}
  <2>1. \A x : x \notin Wants[NotAnInstance]
    BY <1>1, <1>2 DEF WantsFacts
  <2> QED
    BY <1>1, <1>3, <2>1 DEF WantsFacts
<1>6. Wants = [b \in {NotAnInstance} |-> {}]
  <2>1. Wants = [b \in DOMAIN Wants |-> Wants[b]]
    BY <1>1 DEF WantsFacts
  <2> QED
    BY <1>5, <2>1
<1>7. Stage = "source"
  BY <1>2 DEF Stage
<1> QED
  BY <1>4, <1>6, <1>7 DEF Promise!Init

LEMMA NextPromise == ASSUME ProcsInv, [Next]_vars PROVE PromiseStep
<1>0. Steps
  BY NextProcsInv DEF Steps
<1>1. ASSUME NEW path \in NamespacePaths, EnterNamespace(path) PROVE PromiseStep
  <2>1. status = "parsing" /\ (\/ Reject("nested namespace")
                               \/ UNCHANGED <<status, proc, uses, toplevel_decls>>)
    BY <1>1 DEF EnterNamespace, Construct, Parsed
  <2> QED
    BY <1>0, <2>1, RejectPromise, SameStagePromise DEF Reject
<1>2. CASE LeaveNamespace
  BY <1>0, <1>2, SameStagePromise DEF LeaveNamespace
<1>3. ASSUME NEW id \in Ids, DeclareGlobal(id) PROVE PromiseStep
  <2>1. status = "parsing" /\ (\/ Reject("redeclaration")
                               \/ UNCHANGED <<status, proc, uses, toplevel_decls>>)
    BY <1>3 DEF DeclareGlobal, Construct, Parsed
  <2> QED
    BY <1>0, <2>1, RejectPromise, SameStagePromise DEF Reject
<1>4. ASSUME NEW id \in Ids, NEW text \in Texts, BeginProc(id, text) PROVE PromiseStep
  <2>1. /\ status = "parsing" /\ proc = NoSymbol
        /\ Reject("redeclaration") \/ UNCHANGED <<status, uses, toplevel_decls>>
    BY <1>4 DEF BeginProc, Construct, Parsed
  <2>2. CASE Reject("redeclaration")
    BY <1>0, <2>1, <2>2, RejectPromise DEF Reject
  <2>3. CASE UNCHANGED <<status, uses, toplevel_decls>>
    <3>1. Stage' = Stage
      BY <2>3 DEF Stage
    <3> QED
      BY <1>0, <2>1, <2>3, <3>1, NewBodyIsEmpty
  <2> QED
    BY <2>1, <2>2, <2>3
<1>5. ASSUME NEW id \in Ids, NEW params \in GenericParams, NEW text \in Texts,
             NEW intern \in Interns, DeclareGenericProc(id, params, text, intern)
      PROVE  PromiseStep
  <2>1. /\ status = "parsing" /\ proc = NoSymbol
        /\ \/ Reject("redeclaration") \/ Reject("redundant intern")
           \/ /\ UNCHANGED <<status, uses, proc>>
              /\ toplevel_decls' =
                     Append(toplevel_decls,
                            [sym |-> parse_decl(id, "proc").index, uses |-> <<>>])
    BY <1>5 DEF DeclareGenericProc, Construct, Parsed
  <2>2. CASE Reject("redeclaration") \/ Reject("redundant intern")
    BY <1>0, <2>1, <2>2, RejectPromise DEF Reject
  <2>3. CASE /\ UNCHANGED <<status, uses, proc>>
             /\ toplevel_decls' =
                    Append(toplevel_decls,
                           [sym |-> parse_decl(id, "proc").index, uses |-> <<>>])
    <3>1. Stage' = Stage
      BY <2>3 DEF Stage
    <3> QED
      BY <1>0, <2>1, <2>3, <3>1, NewBodyIsEmpty
  <2> QED
    BY <2>1, <2>2, <2>3
<1>6. ASSUME NEW id \in Structs, DeclareStruct(id) PROVE PromiseStep
  <2>1. status = "parsing" /\ (\/ Reject("type exists")
                               \/ UNCHANGED <<status, proc, uses, toplevel_decls>>)
    BY <1>6 DEF DeclareStruct, Construct, Parsed
  <2> QED
    BY <1>0, <2>1, RejectPromise, SameStagePromise DEF Reject
<1>7. ASSUME NEW e \in Enums, DeclareEnum(e[1], e[2]) PROVE PromiseStep
  <2>1. status = "parsing" /\ (\/ Reject("enum name") \/ Reject("enum member")
                               \/ Reject("member is a namespace")
                               \/ UNCHANGED <<status, proc, uses, toplevel_decls>>)
    BY <1>7 DEF DeclareEnum, Construct, Parsed
  <2> QED
    BY <1>0, <2>1, RejectPromise, SameStagePromise DEF Reject
<1>8. CASE EndOfSource
  BY <1>0, <1>8, EndOfSourcePromise
<1>9. CASE Identifier
  BY <1>0, <1>9, IdentifierPromise
<1>10. CASE LocalVariable
  <2>1. /\ status \in {"parsing", "permuting"}
        /\ Reject("redeclaration") \/ UNCHANGED <<status, proc, uses, toplevel_decls>>
    BY <1>10 DEF LocalVariable, InText
  <2> QED
    BY <1>0, <2>1, RejectPromise, SameStagePromise DEF Reject
<1>11. CASE EndProc
  BY <1>0, <1>11, EndProcPromise
<1>12. ASSUME NEW i \in DOMAIN tbl_.sym_table, Permute(i) PROVE PromiseStep
  BY <1>0, <1>12, PermutePromise
<1>13. CASE EndReparse
  BY <1>0, <1>13, EndReparsePromise
<1>14. CASE Check
  BY <1>0, <1>14, CheckPromise
<1>15. CASE UNCHANGED vars
  BY <1>0, <1>15, SameStagePromise DEF vars
<1> QED
  BY <1>1, <1>2, <1>3, <1>4, <1>5, <1>6, <1>7, <1>8, <1>9, <1>10, <1>11, <1>12,
     <1>13, <1>14, <1>15 DEF Next, Source, Compile, Terminated

\* Every run of the compiler is, seen from its instances, one of those that
\* GenericInstances allows: an instance is begun because some body asks for
\* it, no two are parsed at a time, none gets two bodies, and a program is
\* accepted when those that are asked for are those that have a body.
THEOREM CompilerKeepsThePromise == Spec => Promise!Safety
<1>1. Init => Promise!Init
  BY InitPromise
<1>2. ProcsInv /\ [Next]_vars => [Promise!Next]_(Promise!vars)
  BY NextPromise DEF PromiseStep
<1>3. Spec => []ProcsInv
  BY ProcsInvariant
<1> QED
  BY <1>1, <1>2, <1>3, PTL DEF Spec, Promise!Safety
=============================================================================
