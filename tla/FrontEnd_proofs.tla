--------------------------- MODULE FrontEnd_proofs ---------------------------
(***************************************************************************)
(* Proofs about FrontEnd for every file system, every set of sources and   *)
(* every choice of unreadable files.                                       *)
(***************************************************************************)
EXTENDS FrontEnd, WellFoundedInduction, TLAPS

-----------------------------------------------------------------------------
(* Type correctness *)

\* What is at the head of a sequence and what follows it.
LEMMA HeadTailLemma ==
    ASSUME NEW S, NEW s \in Seq(S), s # <<>>
    PROVE  /\ Head(s) \in S
           /\ Head(s) = s[1]
           /\ 1 \in DOMAIN s
           /\ Tail(s) \in Seq(S)
           /\ Len(Tail(s)) = Len(s) - 1
           /\ \A i \in DOMAIN Tail(s) : i + 1 \in DOMAIN s /\ Tail(s)[i] = s[i + 1]
  OBVIOUS

\* An @include names a file, a declaration a symbol.
LEMMA HeadItem ==
    ASSUME NEW op, rest \in Seq(Item), parse(op)
    PROVE  /\ Head(rest) \in Item
           /\ op = "include" => Head(rest).name \in Names
           /\ op = "decl" => /\ Head(rest).sym \in Syms
                             /\ Head(rest).uses \in SUBSET Syms
           /\ op # "malformed" => /\ Head(rest).ends \in Ends
                                  /\ Head(rest).open \in Nat
<1>1. Head(rest) \in Item /\ Head(rest).op = op
  BY HeadTailLemma DEF parse
<1> QED
  BY <1>1 DEF Item, Ends, Complete, Incomplete

\* The effect of the end of a construct on the types.
LEMMA EndOfConstructTypes ==
    ASSUME TypeOK, NEW item, NEW decls \in SUBSET Syms, rest # <<>>,
           EndOfConstruct(item, decls), item.open \in Nat
    PROVE  /\ rest' \in Seq(Item)
           /\ toplevel_decls' \subseteq Syms
           /\ inside_parenthesized_expression_' \in Nat
           /\ status' \in {"parsing", "accepted", "rejected"}
<1>1. rest' \in Seq(Item)
  BY HeadTailLemma DEF EndOfConstruct, TypeOK
<1>2. /\ toplevel_decls' \subseteq Syms
      /\ inside_parenthesized_expression_' \in Nat
      /\ status' \in {"parsing", "accepted", "rejected"}
  BY DEF EndOfConstruct, TypeOK
<1> QED
  BY <1>1, <1>2

\* A set of numbers that is not empty has a smallest element.
LEMMA SmallestExists ==
    ASSUME NEW S \in SUBSET Nat, S # {}
    PROVE  \E i \in S : \A j \in S : i <= j
<1> DEFINE R == {p \in Nat \X Nat : p[1] < p[2]}
<1>1. OpToRel(<, Nat) = R
  BY DEF OpToRel
<1>2. IsWellFoundedOn(R, Nat)
  BY <1>1, NatLessThanWellFounded, Zenon
<1> HIDE DEF R
<1>3. PICK i \in S : \A j \in S : <<j, i>> \notin R
  BY <1>2, WFMin, Zenon
<1>4. \A j \in S : i <= j
  <2> TAKE j \in S
  <2>1. i \in Nat /\ j \in Nat /\ <<j, i>> \notin R
    BY <1>3
  <2> QED
    BY <2>1 DEF R
<1> QED
  BY <1>4

\* The file get_next_include picks is PENDING.
LEMMA NextIncludeIsPending ==
    ASSUME included_files \in Seq(IncludedFile), Pending # {}
    PROVE  /\ next_include \in DOMAIN included_files
           /\ included_files[next_include].state = "PENDING"
           /\ included_files[next_include].name \in Names
<1>1. Pending \in SUBSET Nat
  BY DEF Pending
<1>2. PICK i \in Pending : \A j \in Pending : i <= j
  BY <1>1, SmallestExists
<1>3. next_include \in Pending
  BY <1>2 DEF next_include
<1> HIDE DEF next_include
<1>4. /\ next_include \in DOMAIN included_files
      /\ included_files[next_include].state = "PENDING"
  BY <1>3 DEF Pending
<1>5. included_files[next_include] \in IncludedFile
  BY <1>4
<1> QED
  BY <1>4, <1>5 DEF IncludedFile

\* include adds the name, PENDING, behind the files already there.
LEMMA IncludeLemma ==
    ASSUME included_files \in Seq(IncludedFile), NEW name \in Names
    PROVE  LET new == include(name) IN
           /\ new \in Seq(IncludedFile)
           /\ name \notin IncludedNames => Len(new) = Len(included_files) + 1
           /\ name \in IncludedNames => new = included_files
           /\ \A i \in DOMAIN included_files :
                  i \in DOMAIN new /\ new[i] = included_files[i]
           /\ \A i \in DOMAIN new \ DOMAIN included_files :
                  /\ i = Len(included_files) + 1
                  /\ new[i].name = name
                  /\ new[i].state = "PENDING"
<1> DEFINE e == [name |-> name, state |-> "PENDING"]
<1>1. e \in IncludedFile /\ e.name = name /\ e.state = "PENDING"
  BY DEF IncludedFile
<1>2. CASE name \in IncludedNames
  BY <1>2 DEF include
<1>3. CASE name \notin IncludedNames
  <2>1. include(name) = Append(included_files, e)
    BY <1>3 DEF include
  <2> HIDE DEF e
  <2>2. /\ Append(included_files, e) \in Seq(IncludedFile)
        /\ Len(Append(included_files, e)) = Len(included_files) + 1
        /\ \A i \in DOMAIN included_files :
               /\ i \in DOMAIN Append(included_files, e)
               /\ Append(included_files, e)[i] = included_files[i]
        /\ \A i \in DOMAIN Append(included_files, e) \ DOMAIN included_files :
               i = Len(included_files) + 1 /\ Append(included_files, e)[i] = e
    BY <1>1
  <2> QED
    BY <1>1, <1>3, <2>1, <2>2
<1> QED
  BY <1>2, <1>3

\* mark_done changes the state of one file.
LEMMA MarkDoneLemma ==
    ASSUME included_files \in Seq(IncludedFile), NEW k \in DOMAIN included_files
    PROVE  LET new == mark_done(k) IN
           /\ new \in Seq(IncludedFile)
           /\ DOMAIN new = DOMAIN included_files
           /\ \A i \in DOMAIN included_files :
                  /\ new[i].name = included_files[i].name
                  /\ i # k => new[i] = included_files[i]
<1> DEFINE e == [included_files[k] EXCEPT !.state = "DONE"]
<1>1. included_files[k] \in IncludedFile
  OBVIOUS
<1>2. e \in IncludedFile /\ e.name = included_files[k].name
  BY <1>1 DEF IncludedFile
<1>3. mark_done(k) = [included_files EXCEPT ![k] = e]
  BY DEF mark_done
<1> HIDE DEF e
<1> QED
  BY <1>2, <1>3

LEMMA TypeInit == Init => TypeOK
<1> SUFFICES ASSUME Init PROVE TypeOK
  OBVIOUS
<1>1. source \in [Files -> Seq(Item)] /\ unreadable \subseteq Files
  BY FileSystemAssumption DEF Init
<1>2. lexing \in Files /\ rest \in Seq(Item)
  BY <1>1, FileSystemAssumption DEF Init
<1>3. included_files \in Seq(IncludedFile)
  BY DEF Init
<1> QED
  BY <1>1, <1>2, <1>3 DEF Init, TypeOK

LEMMA TypeStep == TypeOK /\ [Next]_vars => TypeOK'
<1> SUFFICES ASSUME TypeOK, [Next]_vars PROVE TypeOK'
  OBVIOUS
<1>1. ASSUME Reject PROVE TypeOK'
  BY <1>1 DEF Reject, TypeOK
<1>2. CASE ParseMalformed
  BY <1>1, <1>2 DEF ParseMalformed
<1>8. CASE ParseNotToplevel
  <2> DEFINE item == Head(rest)
  <2>1. CASE Returned(item)
    BY <1>1, <1>8, <2>1 DEF ParseNotToplevel
  <2>2. CASE ~Returned(item)
    <3>1. /\ parse("not_toplevel")
          /\ table' = create_placeholder_symbols(table, item.uses)
          /\ EndOfConstruct(item, {})
          /\ UNCHANGED <<source, unreadable, included_files, lexing>>
      BY <1>8, <2>2 DEF ParseNotToplevel
    <3>2. item.open \in Nat
      BY <3>1, HeadItem DEF TypeOK
    <3>3. table' \in [Syms -> {"absent", "placeholder", "declared"}]
      BY <3>1 DEF create_placeholder_symbols, TypeOK
    <3>4. /\ rest' \in Seq(Item)
          /\ toplevel_decls' \subseteq Syms
          /\ inside_parenthesized_expression_' \in Nat
          /\ status' \in {"parsing", "accepted", "rejected"}
      BY <3>1, <3>2, EndOfConstructTypes DEF parse
    <3> QED
      BY <3>1, <3>3, <3>4 DEF TypeOK
  <2> QED
    BY <2>1, <2>2
<1>3. CASE parse_include
  <2> DEFINE item == Head(rest)
  <2>1. CASE item.name \in Absent
    BY <1>1, <1>3, <2>1 DEF parse_include
  <2>2. CASE item.name \notin Absent
    <3>1. /\ parse("include")
          /\ included_files' = include(item.name)
          /\ EndOfConstruct(item, {})
          /\ UNCHANGED <<source, unreadable, lexing, table>>
      BY <1>3, <2>2 DEF parse_include
    <3>2. item.name \in Names /\ item.open \in Nat
      BY <3>1, HeadItem DEF TypeOK
    <3>3. included_files' \in Seq(IncludedFile)
      BY <3>1, <3>2, IncludeLemma DEF TypeOK
    <3>4. /\ rest' \in Seq(Item)
          /\ toplevel_decls' \subseteq Syms
          /\ inside_parenthesized_expression_' \in Nat
          /\ status' \in {"parsing", "accepted", "rejected"}
      BY <3>1, <3>2, EndOfConstructTypes DEF parse
    <3> QED
      BY <3>1, <3>3, <3>4 DEF TypeOK
  <2> QED
    BY <2>1, <2>2
<1>4. CASE parse_decl
  <2> DEFINE item == Head(rest)
  <2>1. CASE redeclaration(item.sym)
    BY <1>1, <1>4, <2>1 DEF parse_decl
  <2>2. CASE ~redeclaration(item.sym)
    <3>1. /\ parse("decl")
          /\ table' = create_placeholder_symbols(
                          declare(table, item.sym), item.uses)
          /\ EndOfConstruct(item, {item.sym})
          /\ UNCHANGED <<source, unreadable, included_files, lexing>>
      BY <1>4, <2>2 DEF parse_decl
    <3>2. item.sym \in Syms /\ item.open \in Nat
      BY <3>1, HeadItem DEF TypeOK
    <3>3. table' \in [Syms -> {"absent", "placeholder", "declared"}]
      BY <3>1 DEF create_placeholder_symbols, declare, TypeOK
    <3>4. /\ rest' \in Seq(Item)
          /\ toplevel_decls' \subseteq Syms
          /\ inside_parenthesized_expression_' \in Nat
          /\ status' \in {"parsing", "accepted", "rejected"}
      BY <3>1, <3>2, EndOfConstructTypes DEF parse
    <3> QED
      BY <3>1, <3>3, <3>4 DEF TypeOK
  <2> QED
    BY <2>1, <2>2
<1>5. CASE get_next_include
  <2>1. /\ next_include \in DOMAIN included_files
        /\ included_files[next_include].name \in Names
    BY <1>5, NextIncludeIsPending DEF get_next_include, TypeOK
  <2>2. included_files' \in Seq(IncludedFile)
    BY <1>5, <2>1, MarkDoneLemma DEF get_next_include, TypeOK
  <2>3. lexing' \in Files /\ rest' \in Seq(Item)
    BY <1>5, <2>1, FileSystemAssumption DEF get_next_include, TypeOK
  <2> QED
    BY <1>5, <2>2, <2>3 DEF get_next_include, TypeOK
<1>6. CASE FinishParse
  BY <1>6 DEF FinishParse, TypeOK
<1>7. CASE Halted \/ UNCHANGED vars
  BY <1>7 DEF Halted, vars, TypeOK
<1> QED
  BY <1>2, <1>3, <1>4, <1>5, <1>6, <1>7, <1>8 DEF Next, ParseNext

\* The parse loop keeps every variable in its type, for any sources.
THEOREM FrontEndTypeCorrect == Spec => []TypeOK
<1> QED
  BY TypeInit, TypeStep, PTL DEF Spec

-----------------------------------------------------------------------------
(* No name twice *)

\* parse_include never lists a name twice, and no other step adds one.
THEOREM FrontEndIncludesOnce == Spec => []IncludedOnce
<1>1. Init => IncludedOnce
  BY DEF Init, IncludedOnce
<1>2. TypeOK /\ IncludedOnce /\ [Next]_vars => IncludedOnce'
  <2> SUFFICES ASSUME TypeOK, IncludedOnce, [Next]_vars PROVE IncludedOnce'
    OBVIOUS
  <2>1. CASE UNCHANGED included_files
    BY <2>1 DEF IncludedOnce
  <2>2. CASE parse_include /\ Head(rest).name \notin Absent
    <3> DEFINE name == Head(rest).name
    <3>1. name \in Names /\ included_files' = include(name)
      BY <2>2, HeadItem DEF parse_include, TypeOK
    <3> HIDE DEF name
    <3>2. CASE name \in IncludedNames
      BY <2>1, <3>1, <3>2 DEF include
    <3>3. CASE name \notin IncludedNames
      <4>1. \A i \in DOMAIN included_files : included_files[i].name # name
        BY <3>3 DEF IncludedNames
      <4>2. \A i \in DOMAIN included_files' :
               \/ /\ i \in DOMAIN included_files
                  /\ included_files'[i] = included_files[i]
               \/ /\ i = Len(included_files) + 1
                  /\ i \notin DOMAIN included_files
                  /\ included_files'[i].name = name
        BY <3>1, IncludeLemma DEF TypeOK
      <4> QED
        BY <4>1, <4>2, Zenon DEF IncludedOnce
    <3> QED
      BY <3>2, <3>3
  <2>3. CASE get_next_include
    <3>1. next_include \in DOMAIN included_files
      BY <2>3, NextIncludeIsPending DEF get_next_include, TypeOK
    <3>2. /\ DOMAIN included_files' = DOMAIN included_files
          /\ \A i \in DOMAIN included_files :
                 included_files'[i].name = included_files[i].name
      BY <2>3, <3>1, MarkDoneLemma DEF get_next_include, TypeOK
    <3> QED
      BY <3>2, Zenon DEF IncludedOnce
  <2> QED
    BY <2>1, <2>2, <2>3
    DEF Next, ParseNext, ParseMalformed, ParseNotToplevel, parse_include,
        parse_decl, FinishParse, Halted, Reject, vars
<1> QED
  BY <1>1, <1>2, FrontEndTypeCorrect, PTL DEF Spec

-----------------------------------------------------------------------------
(* The files parsed are the files of the program *)

\* The names the rest of the current file still includes.
RestIncludes ==
    {rest[i].name : i \in {j \in DOMAIN rest : rest[j].op = "include"}} \ Absent

\* The parse of f has begun.
Begun(f) ==
    \/ f = FileOf[Main]
    \/ \E i \in DOMAIN included_files :
           /\ included_files[i].state = "DONE"
           /\ f = FileOf[included_files[i].name]

\* Only files of the program are listed or parsed; what a begun file includes
\* is listed, or still ahead when it is the current one.
ReachInv ==
    /\ IncludedNames \subseteq Reached
    /\ lexing = FileOf[Main] \/ \E n \in Reached : lexing = FileOf[n]
    /\ \A i \in DOMAIN rest : rest[i] \in Items(lexing)
    /\ status # "rejected" =>
           \A f \in Files : Begun(f) =>
               Includes(f) \ Absent \subseteq
                   IncludedNames \cup (IF f = lexing THEN RestIncludes ELSE {})
    /\ status = "accepted" => rest = <<>>

\* The least closed set is closed, and least.
LEMMA ReachedLemma ==
    ASSUME TypeOK
    PROVE  /\ ClosedUnderInclude(Reached)
           /\ \A S \in SUBSET Names : ClosedUnderInclude(S) => Reached \subseteq S
<1>1. \A f \in Files : Includes(f) \subseteq Names
  <2> TAKE f \in Files
  <2>1. source[f] \in Seq(Item)
    BY DEF TypeOK
  <2>2. \A item \in Items(f) : item \in Item
    BY <2>1 DEF Items
  <2>3. \A item \in Items(f) : item.op = "include" => item.name \in Names
    BY <2>2 DEF Item
  <2> QED
    BY <2>3 DEF Includes
<1>2. /\ FileOf[Main] \in Files
      /\ \A n \in Names : FileOf[n] \in Files
  BY FileSystemAssumption
<1>3. ASSUME NEW f \in Files, NEW n \in Includes(f) \ Absent,
             \A S \in SUBSET Names : ClosedUnderInclude(S) => n \in S
      PROVE  n \in Reached
  BY <1>1, <1>3 DEF Reached
<1>4. Includes(FileOf[Main]) \ Absent \subseteq Reached
  <2> SUFFICES ASSUME NEW n \in Includes(FileOf[Main]) \ Absent
               PROVE  n \in Reached
    OBVIOUS
  <2>1. \A S \in SUBSET Names : ClosedUnderInclude(S) => n \in S
    BY Zenon DEF ClosedUnderInclude
  <2> QED
    BY <1>2, <1>3, <2>1
<1>5. ASSUME NEW m \in Reached PROVE Includes(FileOf[m]) \ Absent \subseteq Reached
  <2> SUFFICES ASSUME NEW n \in Includes(FileOf[m]) \ Absent
               PROVE  n \in Reached
    OBVIOUS
  <2>1. m \in Names /\ \A S \in SUBSET Names : ClosedUnderInclude(S) => m \in S
    BY DEF Reached
  <2>2. \A S \in SUBSET Names : ClosedUnderInclude(S) => n \in S
    BY <2>1, Zenon DEF ClosedUnderInclude
  <2> QED
    BY <1>2, <1>3, <2>1, <2>2
<1>6. ClosedUnderInclude(Reached)
  BY <1>4, <1>5 DEF ClosedUnderInclude
<1>7. \A S \in SUBSET Names : ClosedUnderInclude(S) => Reached \subseteq S
  BY DEF Reached
<1> QED
  BY <1>6, <1>7

\* What the current file includes is part of the program.
LEMMA CurrentIncludesReached ==
    ASSUME TypeOK, ReachInv
    PROVE  Includes(lexing) \ Absent \subseteq Reached
<1>1. CASE lexing = FileOf[Main]
  BY <1>1, ReachedLemma DEF ClosedUnderInclude
<1>2. CASE \E n \in Reached : lexing = FileOf[n]
  BY <1>2, ReachedLemma DEF ClosedUnderInclude
<1> QED
  BY <1>1, <1>2 DEF ReachInv

\* The program does not change while it is parsed.
LEMMA SameProgram ==
    ASSUME UNCHANGED source
    PROVE  /\ Reached' = Reached
           /\ \A f \in Files : Items(f)' = Items(f) /\ Includes(f)' = Includes(f)
  BY DEF Reached, ClosedUnderInclude, Includes, Items

LEMMA ReachInit == Init => ReachInv
<1> SUFFICES ASSUME Init PROVE ReachInv
  OBVIOUS
<1>1. TypeOK
  BY TypeInit
<1>2. lexing = FileOf[Main] /\ rest = source[lexing] /\ included_files = <<>>
  BY DEF Init
<1>3. \A i \in DOMAIN rest : rest[i] \in Items(lexing)
  BY <1>2 DEF Items
<1>4. IncludedNames = {} /\ \A f : Begun(f) <=> f = FileOf[Main]
  BY <1>2 DEF IncludedNames, Begun
<1>5. Includes(lexing) \ Absent \subseteq RestIncludes
  BY <1>2 DEF Includes, Items, RestIncludes
<1>6. status # "accepted"
  BY DEF Init
<1> QED
  BY <1>2, <1>3, <1>4, <1>5, <1>6 DEF ReachInv

\* A step that leaves the files alone.
LEMMA ReachSame ==
    ASSUME TypeOK, ReachInv,
           UNCHANGED <<source, included_files, lexing, rest>>,
           status' = "rejected" \/ status' = status \/ rest = <<>>,
           status = "rejected" => status' = "rejected"
    PROVE  ReachInv'
<1>1. /\ Reached' = Reached
      /\ \A f \in Files : Items(f)' = Items(f) /\ Includes(f)' = Includes(f)
  BY SameProgram
<1>2. /\ IncludedNames' = IncludedNames
      /\ RestIncludes' = RestIncludes
      /\ \A f \in Files : Begun(f)' <=> Begun(f)
  BY DEF IncludedNames, RestIncludes, Begun
<1>3. lexing' \in Files /\ lexing' = lexing
  BY DEF TypeOK
<1>4. IncludedNames' \subseteq Reached'
  BY <1>1, <1>2 DEF ReachInv
<1>5. lexing' = FileOf[Main] \/ \E n \in Reached' : lexing' = FileOf[n]
  BY <1>1, <1>3 DEF ReachInv
<1>6. \A i \in DOMAIN rest' : rest'[i] \in Items(lexing)'
  BY <1>1, <1>3 DEF ReachInv, Items
<1>7. status' # "rejected" =>
          \A f \in Files : Begun(f)' =>
              Includes(f)' \ Absent \subseteq
                  IncludedNames' \cup (IF f = lexing' THEN RestIncludes' ELSE {})
  BY <1>1, <1>2, <1>3, Zenon DEF ReachInv
<1>8. status' = "accepted" => rest' = <<>>
  BY DEF ReachInv
<1> QED
  BY <1>4, <1>5, <1>6, <1>7, <1>8, Zenon DEF ReachInv

\* What is ahead after a construct.
LEMMA RestLemma ==
    ASSUME TypeOK, ReachInv, rest # <<>>, rest' = Tail(rest), UNCHANGED source
    PROVE  /\ Head(rest) \in Items(lexing)
           /\ \A i \in DOMAIN rest' : rest'[i] \in Items(lexing)
           /\ RestIncludes \subseteq RestIncludes' \cup
                  (IF Head(rest).op = "include" THEN {Head(rest).name} ELSE {})
<1>1. /\ Head(rest) = rest[1]
      /\ 1 \in DOMAIN rest
      /\ \A i \in DOMAIN Tail(rest) :
             i + 1 \in DOMAIN rest /\ Tail(rest)[i] = rest[i + 1]
  BY HeadTailLemma DEF TypeOK
<1>2. /\ Head(rest) \in Items(lexing)
      /\ \A i \in DOMAIN rest' : rest'[i] \in Items(lexing)
  BY <1>1 DEF ReachInv
<1>3. ASSUME NEW j \in DOMAIN rest, j # 1
      PROVE  \E i \in DOMAIN rest' : rest'[i] = rest[j]
  <2>1. j - 1 \in DOMAIN Tail(rest) /\ (j - 1) + 1 = j
    BY <1>3 DEF TypeOK
  <2> QED
    BY <2>1, <1>1
<1>4. ASSUME NEW n \in RestIncludes
      PROVE  n \in RestIncludes' \cup
                 (IF Head(rest).op = "include" THEN {Head(rest).name} ELSE {})
  <2>1. PICK j \in DOMAIN rest : rest[j].op = "include" /\ rest[j].name = n
    BY <1>4 DEF RestIncludes
  <2>2. CASE j = 1
    BY <1>1, <2>1, <2>2
  <2>3. CASE j # 1
    <3>1. PICK i \in DOMAIN rest' : rest'[i] = rest[j]
      BY <1>3, <2>3
    <3>2. n \in RestIncludes'
      BY <1>4, <2>1, <3>1 DEF RestIncludes
    <3> QED
      BY <3>2
  <2> QED
    BY <2>2, <2>3
<1> QED
  BY <1>2, <1>4

\* A construct that is no @include, or one whose name is listed by the step.
LEMMA ReachConstruct ==
    ASSUME TypeOK, ReachInv, status = "parsing", rest # <<>>,
           NEW item, NEW decls, EndOfConstruct(item, decls),
           UNCHANGED <<source, lexing>>,
           IncludedNames' \subseteq Reached,
           IncludedNames \subseteq IncludedNames',
           Head(rest).op = "include" => Head(rest).name \in IncludedNames',
           \A f \in Files : Begun(f)' <=> Begun(f)
    PROVE  ReachInv'
<1>1. /\ Reached' = Reached
      /\ \A f \in Files : Items(f)' = Items(f) /\ Includes(f)' = Includes(f)
  BY SameProgram
<1>2. rest' = Tail(rest) /\ status' \in {"parsing", "rejected"}
  BY DEF EndOfConstruct
<1>3. lexing \in Files
  BY DEF TypeOK
<1>4. /\ \A i \in DOMAIN rest' : rest'[i] \in Items(lexing)
      /\ RestIncludes \subseteq RestIncludes' \cup IncludedNames'
  BY <1>2, RestLemma
<1>5. IncludedNames' \subseteq Reached'
  BY <1>1
<1>6. lexing' = FileOf[Main] \/ \E n \in Reached' : lexing' = FileOf[n]
  BY <1>1 DEF ReachInv
<1>7. \A i \in DOMAIN rest' : rest'[i] \in Items(lexing)'
  BY <1>4 DEF Items
<1>8. ASSUME NEW f \in Files, Begun(f)'
      PROVE  Includes(f)' \ Absent \subseteq
                 IncludedNames' \cup (IF f = lexing' THEN RestIncludes' ELSE {})
  <2>1. Includes(f) \ Absent \subseteq
            IncludedNames \cup (IF f = lexing THEN RestIncludes ELSE {})
    BY <1>8 DEF ReachInv
  <2>2. Includes(f)' = Includes(f)
    BY <1>1
  <2> QED
    BY <1>4, <2>1, <2>2
<1>9. status' # "accepted"
  BY <1>2
<1> QED
  BY <1>5, <1>6, <1>7, <1>8, <1>9, Zenon DEF ReachInv

\* A construct other than an @include.
LEMMA ReachNoInclude ==
    ASSUME TypeOK, ReachInv, status = "parsing", rest # <<>>,
           Head(rest).op # "include",
           NEW item, NEW decls, EndOfConstruct(item, decls),
           UNCHANGED <<source, included_files, lexing>>
    PROVE  ReachInv'
<1>1. /\ IncludedNames' = IncludedNames
      /\ \A f \in Files : Begun(f)' <=> Begun(f)
  BY DEF IncludedNames, Begun
<1>2. IncludedNames' \subseteq Reached
  BY <1>1 DEF ReachInv
<1> QED
  BY <1>1, <1>2, ReachConstruct

LEMMA ReachInclude ==
    ASSUME TypeOK, ReachInv, parse_include, Head(rest).name \notin Absent
    PROVE  ReachInv'
<1> DEFINE name == Head(rest).name
<1>1. /\ status = "parsing" /\ rest # <<>> /\ Head(rest).op = "include"
      /\ included_files' = include(name)
      /\ EndOfConstruct(Head(rest), {})
      /\ UNCHANGED <<source, lexing>>
  BY DEF parse_include, parse
<1>2. name \in Names
  BY HeadItem DEF parse_include, TypeOK
<1>3. name \in Reached
  <2>1. Head(rest) \in Items(lexing)
    BY <1>1, HeadTailLemma DEF ReachInv, TypeOK
  <2>2. name \in Includes(lexing) \ Absent
    BY <1>1, <2>1 DEF Includes
  <2> QED
    BY <2>2, CurrentIncludesReached
<1>4. /\ \A i \in DOMAIN included_files :
             i \in DOMAIN included_files' /\ included_files'[i] = included_files[i]
      /\ \A i \in DOMAIN included_files' \ DOMAIN included_files :
             included_files'[i].name = name /\ included_files'[i].state = "PENDING"
  <2> HIDE DEF name
  <2> QED
    BY <1>1, <1>2, IncludeLemma DEF TypeOK
<1>5. IncludedNames \subseteq IncludedNames'
  BY <1>4 DEF IncludedNames
<1>6. IncludedNames' \subseteq IncludedNames \cup {name}
  <2> HIDE DEF name
  <2> QED
    BY <1>4 DEF IncludedNames
<1>7. name \in IncludedNames'
  <2> HIDE DEF name
  <2>1. CASE name \in IncludedNames
    BY <1>5, <2>1
  <2>2. CASE name \notin IncludedNames
    <3>1. Len(included_files') = Len(included_files) + 1
      BY <1>1, <1>2, <2>2, IncludeLemma DEF TypeOK
    <3>2. included_files' \in Seq(IncludedFile)
      BY <1>1, <1>2, IncludeLemma DEF TypeOK
    <3>3. Len(included_files) + 1 \in DOMAIN included_files' \ DOMAIN included_files
      BY <3>1, <3>2 DEF TypeOK
    <3> QED
      BY <3>3, <1>4 DEF IncludedNames
  <2> QED
    BY <2>1, <2>2
<1>8. \A f \in Files : Begun(f)' <=> Begun(f)
  <2> HIDE DEF name
  <2>1. \A i \in DOMAIN included_files' : included_files'[i].state = "DONE" =>
            i \in DOMAIN included_files /\ included_files'[i] = included_files[i]
    BY <1>4
  <2> QED
    BY <1>4, <2>1 DEF Begun
<1>9. IncludedNames' \subseteq Reached
  BY <1>3, <1>6 DEF ReachInv
<1> QED
  BY <1>1, <1>5, <1>7, <1>8, <1>9, ReachConstruct

LEMMA ReachNextInclude ==
    ASSUME TypeOK, ReachInv, get_next_include
    PROVE  ReachInv'
<1> DEFINE k == next_include
           g == FileOf[included_files[k].name]
<1>1. /\ status = "parsing" /\ status' = status /\ rest = <<>>
      /\ included_files' = mark_done(k)
      /\ lexing' = g /\ rest' = source[g]
      /\ UNCHANGED source
  BY DEF get_next_include, EndOfFile
<1>2. k \in DOMAIN included_files /\ included_files[k].name \in Names
  BY NextIncludeIsPending DEF get_next_include, TypeOK
<1> HIDE DEF k
<1>3. g \in Files
  BY <1>2, FileSystemAssumption
<1>4. /\ DOMAIN included_files' = DOMAIN included_files
      /\ \A i \in DOMAIN included_files :
             /\ included_files'[i].name = included_files[i].name
             /\ i # k => included_files'[i] = included_files[i]
  BY <1>1, <1>2, MarkDoneLemma DEF TypeOK
<1>5. IncludedNames' = IncludedNames
  BY <1>4 DEF IncludedNames
<1>6. /\ Reached' = Reached
      /\ \A f \in Files : Items(f)' = Items(f) /\ Includes(f)' = Includes(f)
  BY <1>1, SameProgram
<1>7. IncludedNames' \subseteq Reached'
  BY <1>5, <1>6 DEF ReachInv
<1>8. \E n \in Reached' : lexing' = FileOf[n]
  <2>1. included_files[k].name \in IncludedNames
    BY <1>2 DEF IncludedNames
  <2>2. included_files[k].name \in Reached'
    BY <1>5, <1>7, <2>1
  <2> QED
    BY <1>1, <2>2
<1>9. \A i \in DOMAIN rest' : rest'[i] \in Items(lexing)'
  BY <1>1 DEF Items
<1>10. ASSUME NEW f \in Files, Begun(f)'
       PROVE  Includes(f)' \ Absent \subseteq
                  IncludedNames' \cup (IF f = lexing' THEN RestIncludes' ELSE {})
  <2>1. CASE f = g
    <3>1. rest' = source'[f] /\ lexing' = f
      BY <1>1, <2>1
    <3>2. Includes(f)' \ Absent \subseteq RestIncludes'
      BY <3>1 DEF Includes, Items, RestIncludes
    <3> QED
      BY <3>1, <3>2
  <2>2. CASE f # g
    <3>1. Begun(f)
      <4>1. CASE f = FileOf[Main]
        BY <4>1 DEF Begun
      <4>2. CASE f # FileOf[Main]
        <5>1. PICK i \in DOMAIN included_files' :
                  /\ included_files'[i].state = "DONE"
                  /\ f = FileOf[included_files'[i].name]
          BY <1>10, <4>2 DEF Begun
        <5>2. i # k
          BY <1>2, <1>4, <2>2, <5>1
        <5>3. i \in DOMAIN included_files /\ included_files'[i] = included_files[i]
          BY <1>4, <5>1, <5>2
        <5> QED
          BY <5>1, <5>3 DEF Begun
      <4> QED
        BY <4>1, <4>2
    <3>2. RestIncludes = {}
      BY <1>1 DEF RestIncludes
    <3>3. Includes(f) \ Absent \subseteq IncludedNames
      BY <1>1, <3>1, <3>2 DEF ReachInv
    <3> QED
      BY <1>5, <1>6, <3>3
  <2> QED
    BY <2>1, <2>2
<1>11. status' # "accepted"
  BY <1>1
<1> QED
  BY <1>7, <1>8, <1>9, <1>10, <1>11, Zenon DEF ReachInv

LEMMA ReachStep == TypeOK /\ ReachInv /\ [Next]_vars => ReachInv'
<1> SUFFICES ASSUME TypeOK, ReachInv, [Next]_vars PROVE ReachInv'
  OBVIOUS
<1>1. ASSUME Reject PROVE ReachInv'
  BY <1>1, ReachSame DEF Reject
<1>2. CASE ParseMalformed
  BY <1>1, <1>2 DEF ParseMalformed
<1>8. CASE ParseNotToplevel
  <2>1. CASE Returned(Head(rest))
    BY <1>1, <1>8, <2>1 DEF ParseNotToplevel
  <2>2. CASE ~Returned(Head(rest))
    <3>1. /\ status = "parsing" /\ rest # <<>> /\ Head(rest).op = "not_toplevel"
          /\ EndOfConstruct(Head(rest), {})
          /\ UNCHANGED <<source, included_files, lexing>>
      BY <1>8, <2>2 DEF ParseNotToplevel, parse
    <3> QED
      BY <3>1, ReachNoInclude
  <2> QED
    BY <2>1, <2>2
<1>3. CASE parse_include
  <2>1. CASE Head(rest).name \in Absent
    BY <1>1, <1>3, <2>1 DEF parse_include
  <2> QED
    BY <1>3, <2>1, ReachInclude
<1>4. CASE parse_decl
  <2>1. CASE redeclaration(Head(rest).sym)
    BY <1>1, <1>4, <2>1 DEF parse_decl
  <2>2. CASE ~redeclaration(Head(rest).sym)
    <3>1. /\ status = "parsing" /\ rest # <<>> /\ Head(rest).op = "decl"
          /\ EndOfConstruct(Head(rest), {Head(rest).sym})
          /\ UNCHANGED <<source, included_files, lexing>>
      BY <1>4, <2>2 DEF parse_decl, parse
    <3> QED
      BY <3>1, ReachNoInclude
  <2> QED
    BY <2>1, <2>2
<1>5. CASE get_next_include
  BY <1>5, ReachNextInclude
<1>6. CASE FinishParse
  BY <1>6, ReachSame DEF FinishParse, EndOfFile
<1>7. CASE Halted \/ UNCHANGED vars
  BY <1>7, ReachSame DEF Halted, vars
<1> QED
  BY <1>2, <1>3, <1>4, <1>5, <1>6, <1>7, <1>8 DEF Next, ParseNext

\* When every listed file is parsed, the listed names are closed under
\* @include, and with them everything reachable is listed.
LEMMA AllAreListed ==
    ASSUME TypeOK, ReachInv, status # "rejected", rest = <<>>, Pending = {}
    PROVE  Reached \subseteq IncludedNames
<1>1. RestIncludes = {}
  BY DEF ReachInv, RestIncludes
<1>2. \A f \in Files : Begun(f) => Includes(f) \ Absent \subseteq IncludedNames
  BY <1>1 DEF ReachInv
<1>3. \A i \in DOMAIN included_files :
          /\ included_files[i].state = "DONE"
          /\ included_files[i].name \in Names
  <2> TAKE i \in DOMAIN included_files
  <2>1. included_files[i] \in IncludedFile
    BY DEF TypeOK
  <2>2. included_files[i].state # "PENDING"
    BY DEF Pending
  <2> QED
    BY <2>1, <2>2 DEF IncludedFile
<1>4. IncludedNames \subseteq Names
  BY <1>3 DEF IncludedNames
<1>5. \A n \in IncludedNames : Begun(FileOf[n])
  BY <1>3 DEF IncludedNames, Begun
<1>6. FileOf[Main] \in Files /\ \A n \in IncludedNames : FileOf[n] \in Files
  BY <1>4, FileSystemAssumption
<1>7. Begun(FileOf[Main])
  BY DEF Begun
<1>8. ClosedUnderInclude(IncludedNames)
  BY <1>2, <1>5, <1>6, <1>7 DEF ClosedUnderInclude
<1> QED
  BY <1>4, <1>8, ReachedLemma

LEMMA ReachCorrect == TypeOK /\ ReachInv => ParsedIsReached
  BY AllAreListed DEF ParsedIsReached, ReachInv

\* The parse loop finds the files reachable by @include, no others, and when
\* it accepts a program without skipping a file it has found all of them,
\* however the includes are nested or cyclic.
THEOREM FrontEndParsesTheProgram == Spec => []ParsedIsReached
<1> QED
  BY ReachInit, ReachStep, ReachCorrect, FrontEndTypeCorrect, PTL DEF Spec

-----------------------------------------------------------------------------
(***************************************************************************)
(* Of the programs without a file that is broken off, do_parse accepts     *)
(* exactly the well-formed ones: no parenthesis stays open, and the table  *)
(* is compared with what the constructs parsed so far declare and mention, *)
(* text by text.                                                           *)
(***************************************************************************)

\* The texts whose parse has begun.
BegunTexts ==
    {<<>>} \cup {<<included_files[i].name>> :
                    i \in {j \in DOMAIN included_files :
                               included_files[j].state = "DONE"}}

\* How much of the current file is parsed, and whether construct i of text t is
\* when cur is the text at the lexer.
Position == Len(source[lexing]) - Len(rest)
IsParsed(cur, t, i) ==
    /\ t \in BegunTexts
    /\ i \in DOMAIN source[TextFile(t)]
    /\ t = cur => i <= Position

ItemAt(t, i) == source[TextFile(t)][i]
Declares(t, i, s) == ItemAt(t, i).op = "decl" /\ ItemAt(t, i).sym = s
Mentions(t, i, s) == ItemAt(t, i).op = "decl" /\ s \in ItemAt(t, i).uses
Parses(t, i) ==
    /\ ItemAt(t, i).op \in {"include", "decl"}
    /\ ItemAt(t, i).op = "include" => ItemAt(t, i).name \notin Absent
    /\ ItemAt(t, i).ends \in Complete

\* The table says of the constructs parsed so far what they say of themselves.
TableAgrees(cur) ==
    \A s \in Syms :
        /\ table[s] = "declared" <=>
               \E t \in BegunTexts, i \in Nat : IsParsed(cur, t, i) /\ Declares(t, i, s)
        /\ table[s] # "absent" <=>
               \E t \in BegunTexts, i \in Nat :
                   /\ IsParsed(cur, t, i)
                   /\ Declares(t, i, s) \/ Mentions(t, i, s)
        /\ \A t1, t2 \in BegunTexts, i, j \in Nat :
               /\ IsParsed(cur, t1, i) /\ Declares(t1, i, s)
               /\ IsParsed(cur, t2, j) /\ Declares(t2, j, s)
               => t1 = t2 /\ i = j

OnTrack(cur) ==
    /\ lexing = TextFile(cur)
    /\ Len(rest) <= Len(source[lexing])
    /\ \A i \in DOMAIN rest : rest[i] = source[lexing][Position + i]
    /\ \A t \in BegunTexts, i \in Nat : IsParsed(cur, t, i) => Parses(t, i)
    /\ TableAgrees(cur)

\* While it runs, do_parse knows all about what it has parsed, and its verdict
\* is about the whole program.
VerdictInv ==
    /\ status = "parsing" /\ NoneBrokenOff =>
           /\ inside_parenthesized_expression_ = 0
           /\ \E cur \in BegunTexts : OnTrack(cur)
    /\ status = "accepted" /\ AllReadable /\ NoneBrokenOff => WellFormed
    /\ status = "rejected" /\ AllReadable /\ NoneBrokenOff => ~WellFormed

-----------------------------------------------------------------------------
(* The texts *)

\* A text is a file of the file system, and only texts of the program are parsed.
LEMMA TextsLemma ==
    ASSUME TypeOK, ReachInv
    PROVE  /\ BegunTexts \subseteq Texts
           /\ \A t \in Texts : /\ TextFile(t) \in Files
                               /\ source[TextFile(t)] \in Seq(Item)
<1>1. BegunTexts \subseteq Texts
  BY DEF BegunTexts, Texts, ReachInv, IncludedNames
<1>2. ASSUME NEW t \in Texts PROVE TextFile(t) \in Files
  <2>1. CASE t = <<>>
    BY <2>1, FileSystemAssumption DEF TextFile
  <2>2. CASE t # <<>>
    <3>1. PICK n \in Reached : t = <<n>>
      BY <2>2 DEF Texts
    <3> QED
      BY <3>1, FileSystemAssumption DEF TextFile, Reached
  <2> QED
    BY <2>1, <2>2
<1> QED
  BY <1>1, <1>2 DEF TypeOK

\* A construct that does not parse, in any text, is enough to be ill-formed.
LEMMA OneIsWrong ==
    ASSUME TypeOK, ReachInv, NEW t \in Texts, NEW i \in DOMAIN source[TextFile(t)],
           ~Parses(t, i)
    PROVE  ~WellFormed
<1> SUFFICES ASSUME WellFormedText(TextFile(t)) PROVE FALSE
  BY DEF WellFormed
<1>1. ItemAt(t, i) \in Items(TextFile(t))
  BY DEF ItemAt, Items
<1>2. ItemAt(t, i).op = "include" => ItemAt(t, i).name \notin Absent
  BY <1>1 DEF WellFormedText, Includes
<1> QED
  BY <1>2 DEF WellFormedText, ItemAt, Parses

\* So are two declarations of one name.
LEMMA TwoDeclarations ==
    ASSUME NEW s \in Syms, NEW t1 \in Texts, NEW t2 \in Texts,
           NEW i \in DOMAIN source[TextFile(t1)], Declares(t1, i, s),
           NEW j \in DOMAIN source[TextFile(t2)], Declares(t2, j, s),
           ~(t1 = t2 /\ i = j)
    PROVE  ~WellFormed
<1>1. i \in DeclsOf(TextFile(t1), s) /\ j \in DeclsOf(TextFile(t2), s)
  BY DEF DeclsOf, Declares, ItemAt
<1> QED
  BY <1>1, Zenon DEF WellFormed

\* What is said of the sources only does not change.
LEMMA SameSources ==
    ASSUME UNCHANGED <<source, unreadable>>
    PROVE  /\ (AllReadable)' = AllReadable
           /\ (NoneBrokenOff)' = NoneBrokenOff
           /\ (WellFormed)' = WellFormed
           /\ Texts' = Texts
           /\ \A t, i : ItemAt(t, i)' = ItemAt(t, i) /\ (Parses(t, i)' <=> Parses(t, i))
           /\ \A t, i, s : /\ Declares(t, i, s)' <=> Declares(t, i, s)
                           /\ Mentions(t, i, s)' <=> Mentions(t, i, s)
  BY DEF AllReadable, NoneBrokenOff, BrokenOff, WellFormed, WellFormedText, Texts, TextFile, Reached,
         ClosedUnderInclude, Includes, Items, DeclsOf, UsesOf, ItemAt, Parses,
         Declares, Mentions

-----------------------------------------------------------------------------
(* The initial state *)

LEMMA VerdictInit == Init => VerdictInv
<1> SUFFICES ASSUME Init PROVE VerdictInv
  OBVIOUS
<1>1. TypeOK /\ ReachInv
  BY TypeInit, ReachInit
<1>2. <<>> \in BegunTexts /\ BegunTexts = {<<>>} /\ TextFile(<<>>) = FileOf[Main]
  BY DEF BegunTexts, TextFile, Init
<1>3. CASE lexing \in unreadable
  <2>1. ~AllReadable
    BY <1>2, <1>3 DEF AllReadable, Texts, Init
  <2> QED
    BY <1>3, <2>1 DEF VerdictInv, Init
<1>4. CASE lexing \notin unreadable
  <2>1. /\ lexing = TextFile(<<>>)
        /\ rest = source[lexing]
        /\ rest \in Seq(Item)
        /\ status = "parsing" /\ inside_parenthesized_expression_ = 0
    BY <1>1, <1>2, <1>4 DEF Init, TypeOK
  <2>2. Position = 0
    BY <2>1 DEF Position
  <2>3. \A t \in BegunTexts, i \in Nat : ~IsParsed(<<>>, t, i)
    BY <1>2, <2>1, <2>2 DEF IsParsed
  <2>4. TableAgrees(<<>>)
    BY <2>3 DEF TableAgrees, Init
  <2>5. \A i \in DOMAIN rest : rest[i] = source[lexing][Position + i]
    BY <2>1, <2>2
  <2>6. Len(rest) <= Len(source[lexing])
    BY <2>1
  <2>7. OnTrack(<<>>)
    BY <2>1, <2>3, <2>4, <2>5, <2>6 DEF OnTrack
  <2> QED
    BY <1>2, <2>1, <2>7 DEF VerdictInv
<1> QED
  BY <1>3, <1>4

-----------------------------------------------------------------------------
(* One construct *)

\* The construct at the head of the rest is the one at the position.
LEMMA HeadIsNext ==
    ASSUME TypeOK, ReachInv, NEW cur \in BegunTexts, OnTrack(cur), rest # <<>>
    PROVE  /\ Position + 1 \in Nat
           /\ Position + 1 \in DOMAIN source[TextFile(cur)]
           /\ Position + 1 = Len(source[TextFile(cur)]) <=> Tail(rest) = <<>>
           /\ ItemAt(cur, Position + 1) = Head(rest)
           /\ ~IsParsed(cur, cur, Position + 1)
           /\ cur \in Texts
<1>1. /\ source[lexing] \in Seq(Item)
      /\ rest \in Seq(Item)
      /\ lexing = TextFile(cur)
      /\ Len(rest) <= Len(source[lexing])
      /\ cur \in Texts
  BY TextsLemma DEF TypeOK, OnTrack
<1>2. /\ Len(rest) \in Nat \ {0}
      /\ Head(rest) = rest[1] /\ 1 \in DOMAIN rest
      /\ Tail(rest) \in Seq(Item) /\ Len(Tail(rest)) = Len(rest) - 1
  BY <1>1, HeadTailLemma
<1>3. /\ Position \in Nat /\ Position + 1 \in 1..Len(source[lexing])
      /\ Position + 1 = Len(source[lexing]) <=> Len(rest) = 1
  BY <1>1, <1>2 DEF Position
<1>4. ItemAt(cur, Position + 1) = Head(rest)
  BY <1>1, <1>2 DEF ItemAt, OnTrack
<1>5. ~IsParsed(cur, cur, Position + 1)
  BY <1>3 DEF IsParsed
<1>6. Len(rest) = 1 <=> Tail(rest) = <<>>
  <2>1. \A s \in Seq(Item) : Len(s) = 0 <=> s = <<>>
    OBVIOUS
  <2>2. Len(Tail(rest)) = 0 <=> Tail(rest) = <<>>
    BY <1>2, <2>1
  <2>3. Len(Tail(rest)) = 0 <=> Len(rest) = 1
    BY <1>2
  <2> QED
    BY <2>2, <2>3
<1>7. DOMAIN source[lexing] = 1..Len(source[lexing])
  BY <1>1
<1> QED
  BY <1>1, <1>3, <1>4, <1>5, <1>6, <1>7

\* When it is behind the cursor it is parsed, and nothing else is that was not.
LEMMA NextIsParsed ==
    ASSUME TypeOK, ReachInv, NEW cur \in BegunTexts, OnTrack(cur), rest # <<>>,
           rest' = Tail(rest), UNCHANGED <<source, lexing>>, BegunTexts' = BegunTexts
    PROVE  /\ lexing' = TextFile(cur)
           /\ Len(rest') <= Len(source'[lexing'])
           /\ \A i \in DOMAIN rest' : rest'[i] = source'[lexing'][Position' + i]
           /\ \A t \in BegunTexts, i \in Nat :
                  IsParsed(cur, t, i)' <=>
                      IsParsed(cur, t, i) \/ (t = cur /\ i = Position + 1)
<1>1. /\ source[lexing] \in Seq(Item)
      /\ rest \in Seq(Item)
      /\ lexing = TextFile(cur)
      /\ Len(rest) <= Len(source[lexing])
      /\ \A i \in DOMAIN rest : rest[i] = source[lexing][Position + i]
  BY TextsLemma DEF TypeOK, OnTrack
<1>2. /\ Len(rest) \in Nat \ {0}
      /\ rest' \in Seq(Item) /\ Len(rest') = Len(rest) - 1
      /\ \A i \in DOMAIN rest' : i + 1 \in DOMAIN rest /\ rest'[i] = rest[i + 1]
  BY <1>1, HeadTailLemma
<1>3. Position \in Nat /\ Position' = Position + 1
  BY <1>1, <1>2 DEF Position
<1>4. ASSUME NEW i \in DOMAIN rest'
      PROVE  rest'[i] = source'[lexing'][Position' + i]
  <2>1. i \in Nat /\ Position' + i = Position + (i + 1)
    BY <1>2, <1>3, SMTT(40)
  <2> QED
    BY <1>1, <1>2, <2>1
<1>5. ASSUME NEW t \in BegunTexts, NEW i \in Nat
      PROVE  IsParsed(cur, t, i)' <=> IsParsed(cur, t, i) \/ (t = cur /\ i = Position + 1)
  <2>1. IsParsed(cur, t, i)' <=>
            /\ i \in DOMAIN source[TextFile(t)]
            /\ t = cur => i <= Position'
    <3>1. TextFile(t)' = TextFile(t)
      BY DEF TextFile
    <3> QED
      BY <3>1 DEF IsParsed
  <2>2. IsParsed(cur, t, i) <=>
            /\ i \in DOMAIN source[TextFile(t)]
            /\ t = cur => i <= Position
    BY DEF IsParsed
  <2>3. Position + 1 \in DOMAIN source[TextFile(cur)]
    BY HeadIsNext
  <2>4. i <= Position + 1 <=> i <= Position \/ i = Position + 1
    BY <1>3
  <2> QED
    BY <1>3, <2>1, <2>2, <2>3, <2>4
<1> QED
  BY <1>1, <1>2, <1>4, <1>5

\* A step that ends the parse at a construct that does not parse.
LEMMA WrongConstruct ==
    ASSUME TypeOK, ReachInv, VerdictInv, status = "parsing", rest # <<>>,
           UNCHANGED <<source, unreadable>>, status' = "rejected",
           Head(rest).op \in {"malformed", "not_toplevel"}
               \/ (Head(rest).op = "include" /\ Head(rest).name \in Absent)
               \/ Head(rest).ends \notin Complete
    PROVE  VerdictInv'
<1> SUFFICES ASSUME NoneBrokenOff PROVE VerdictInv'
  BY SameSources DEF VerdictInv
<1>1. PICK cur \in BegunTexts : OnTrack(cur)
  BY DEF VerdictInv
<1>2. /\ Position + 1 \in DOMAIN source[TextFile(cur)]
      /\ ItemAt(cur, Position + 1) = Head(rest)
      /\ cur \in Texts
  BY <1>1, HeadIsNext
<1>3. ~Parses(cur, Position + 1)
  BY <1>2 DEF Parses
<1>4. ~WellFormed
  BY <1>2, <1>3, OneIsWrong
<1> QED
  BY <1>4, SameSources DEF VerdictInv

\* A file that is not broken off is not taken to end in its last construct.
LEMMA NotTakenForEndOfFile ==
    ASSUME TypeOK, ReachInv, NoneBrokenOff, rest # <<>>,
           NEW cur \in BegunTexts, OnTrack(cur), Head(rest).op # "malformed"
    PROVE  ~TakenForEndOfFile(Head(rest))
<1> DEFINE text == source[TextFile(cur)]
<1>1. /\ Position + 1 \in DOMAIN text
      /\ Position + 1 = Len(text) <=> Tail(rest) = <<>>
      /\ text[Position + 1] = Head(rest)
      /\ cur \in Texts
  BY HeadIsNext DEF ItemAt
<1>2. ~BrokenOff(TextFile(cur))
  BY <1>1 DEF NoneBrokenOff
<1>3. text # <<>>
  BY <1>1
<1> QED
  BY <1>1, <1>2, <1>3 DEF BrokenOff, TakenForEndOfFile

\* A construct that may parse, and whose effect on the table is right.
LEMMA OneConstruct ==
    ASSUME TypeOK, ReachInv, VerdictInv, status = "parsing", rest # <<>>,
           NEW decls, EndOfConstruct(Head(rest), decls),
           Head(rest).op \in {"include", "decl"},
           Head(rest).op = "include" => Head(rest).name \notin Absent,
           UNCHANGED <<source, unreadable, lexing>>, BegunTexts' = BegunTexts,
           \A cur \in BegunTexts :
               OnTrack(cur) /\ status' = "parsing" => TableAgrees(cur)'
    PROVE  VerdictInv'
<1> SUFFICES ASSUME NoneBrokenOff PROVE VerdictInv'
  BY SameSources DEF VerdictInv
<1>5. inside_parenthesized_expression_ = 0
  BY DEF VerdictInv
<1>1. PICK cur \in BegunTexts : OnTrack(cur)
  BY DEF VerdictInv
<1>2. rest' = Tail(rest)
  BY DEF EndOfConstruct
<1>3. CASE Head(rest).ends \in Complete
  <2>1. status' = "parsing" /\ inside_parenthesized_expression_' = 0
    BY <1>3, <1>5 DEF EndOfConstruct, Returned, TakenForEndOfFile, Complete
  <2>2. Parses(cur, Position + 1)
    BY <1>1, <1>3, HeadIsNext DEF Parses
  <2>3. \A t \in BegunTexts, i \in Nat :
            IsParsed(cur, t, i)' <=> IsParsed(cur, t, i) \/ (t = cur /\ i = Position + 1)
    BY <1>1, <1>2, NextIsParsed
  <2>4. \A t \in BegunTexts', i \in Nat : IsParsed(cur, t, i)' => Parses(t, i)'
    BY <1>1, <2>2, <2>3, SameSources DEF OnTrack
  <2>5. TableAgrees(cur)'
    BY <1>1, <2>1
  <2>6. /\ lexing' = TextFile(cur)
        /\ Len(rest') <= Len(source'[lexing'])
        /\ \A i \in DOMAIN rest' : rest'[i] = source'[lexing'][Position' + i]
    BY <1>1, <1>2, NextIsParsed
  <2>7. TextFile(cur)' = TextFile(cur)
    BY DEF TextFile
  <2>8. OnTrack(cur)'
    BY <2>4, <2>5, <2>6, <2>7 DEF OnTrack
  <2> QED
    BY <1>1, <2>1, <2>8 DEF VerdictInv
<1>4. CASE Head(rest).ends \notin Complete
  <2>1. ~Returned(Head(rest)) /\ ~TakenForEndOfFile(Head(rest))
    BY <1>1, <1>4, <1>5, NotTakenForEndOfFile DEF Returned, Complete
  <2>2. status' = "rejected"
    BY <2>1 DEF EndOfConstruct
  <2> QED
    BY <1>4, <2>2, WrongConstruct
<1> QED
  BY <1>3, <1>4

\* A construct that is not valid at the top level: if it is not the last one
\* of a broken-off file, the parse ends with it.
LEMMA VerdictNotToplevel ==
    ASSUME TypeOK, ReachInv, VerdictInv, ParseNotToplevel
    PROVE  VerdictInv'
<1>1. status = "parsing" /\ rest # <<>> /\ Head(rest).op = "not_toplevel"
  BY DEF ParseNotToplevel, parse
<1>2. CASE Returned(Head(rest))
  BY <1>1, <1>2, WrongConstruct DEF ParseNotToplevel, Reject
<1>3. CASE ~Returned(Head(rest))
  <2>1. EndOfConstruct(Head(rest), {}) /\ UNCHANGED <<source, unreadable>>
    BY <1>3 DEF ParseNotToplevel
  <2>2. SUFFICES ASSUME NoneBrokenOff PROVE VerdictInv'
    BY <2>1, SameSources DEF VerdictInv
  <2>3. PICK cur \in BegunTexts : OnTrack(cur)
    BY <1>1, <2>2 DEF VerdictInv
  <2>4. ~TakenForEndOfFile(Head(rest))
    BY <1>1, <2>2, <2>3, NotTakenForEndOfFile
  <2>5. status' = "rejected"
    BY <1>3, <2>1, <2>4 DEF EndOfConstruct
  <2> QED
    BY <1>1, <2>1, <2>5, WrongConstruct
<1> QED
  BY <1>2, <1>3

\* @include: no text is begun, nothing is declared or mentioned.
LEMMA VerdictInclude ==
    ASSUME TypeOK, ReachInv, VerdictInv, parse_include
    PROVE  VerdictInv'
<1>1. status = "parsing" /\ rest # <<>> /\ Head(rest).op = "include"
  BY DEF parse_include, parse
<1>2. Head(rest).name \in Names
  BY HeadItem DEF parse_include, TypeOK
<1>3. CASE Head(rest).name \in Absent
  BY <1>1, <1>3, WrongConstruct DEF parse_include, Reject
<1>4. CASE Head(rest).name \notin Absent
  <2>1. /\ included_files' = include(Head(rest).name)
        /\ EndOfConstruct(Head(rest), {})
        /\ UNCHANGED <<source, unreadable, lexing, table>>
    BY <1>4 DEF parse_include
  <2>2. /\ \A i \in DOMAIN included_files :
               i \in DOMAIN included_files' /\ included_files'[i] = included_files[i]
        /\ \A i \in DOMAIN included_files' \ DOMAIN included_files :
               included_files'[i].state = "PENDING"
    BY <1>2, <2>1, IncludeLemma DEF TypeOK
  <2>3. BegunTexts' = BegunTexts
    BY <2>2 DEF BegunTexts
  <2>4. ASSUME NEW cur \in BegunTexts, OnTrack(cur)
        PROVE  TableAgrees(cur)'
    <3>1. \A t \in BegunTexts, i \in Nat :
              IsParsed(cur, t, i)' <=> IsParsed(cur, t, i) \/ (t = cur /\ i = Position + 1)
      BY <1>1, <2>1, <2>3, <2>4, NextIsParsed DEF EndOfConstruct
    <3>2. \A s : ~Declares(cur, Position + 1, s) /\ ~Mentions(cur, Position + 1, s)
      BY <1>1, <2>4, HeadIsNext DEF Declares, Mentions
    <3>3. TableAgrees(cur)
      BY <2>4 DEF OnTrack
    <3>4. table' = table /\ UNCHANGED <<source, unreadable>>
      BY <2>1
    <3>5. \A t, i, s : /\ Declares(t, i, s)' <=> Declares(t, i, s)
                       /\ Mentions(t, i, s)' <=> Mentions(t, i, s)
      BY <3>4, SameSources
    <3>6. \A t \in BegunTexts, i \in Nat, s \in Syms :
              Declares(t, i, s) \/ Mentions(t, i, s) =>
                  (IsParsed(cur, t, i)' <=> IsParsed(cur, t, i))
      BY <3>1, <3>2
    <3> QED
      BY <2>3, <3>3, <3>4, <3>5, <3>6 DEF TableAgrees
  <2> QED
    BY <1>1, <1>4, <2>1, <2>3, <2>4, OneConstruct
<1> QED
  BY <1>3, <1>4

\* The entry of a symbol after a declaration.
LEMMA DeclaredTable ==
    ASSUME TypeOK, NEW sym \in Syms, NEW used \in SUBSET Syms, NEW s \in Syms,
           table' = create_placeholder_symbols(declare(table, sym), used)
    PROVE  /\ table'[s] = "declared" <=> table[s] = "declared" \/ s = sym
           /\ table'[s] # "absent" <=> table[s] # "absent" \/ s = sym \/ s \in used
  BY DEF TypeOK, create_placeholder_symbols, declare

\* A declaration of a name that is not declared: it is the only one.
LEMMA VerdictDeclaration ==
    ASSUME TypeOK, ReachInv, VerdictInv, parse_decl
    PROVE  VerdictInv'
<1> DEFINE sym == Head(rest).sym
           used == Head(rest).uses
<1>1. status = "parsing" /\ rest # <<>> /\ Head(rest).op = "decl"
  BY DEF parse_decl, parse
<1>2. sym \in Syms /\ used \in SUBSET Syms
  BY HeadItem DEF parse_decl, TypeOK
<1>3. \A cur \in BegunTexts : OnTrack(cur) =>
          \A s \in Syms : /\ Declares(cur, Position + 1, s) <=> s = sym
                          /\ Mentions(cur, Position + 1, s) <=> s \in used
  BY <1>1, HeadIsNext DEF Declares, Mentions
<1> HIDE DEF sym, used
<1>4. CASE redeclaration(sym)
  <2>6. status' = "rejected" /\ UNCHANGED <<source, unreadable>>
    BY <1>4 DEF parse_decl, Reject, sym
  <2> SUFFICES ASSUME NoneBrokenOff PROVE VerdictInv'
    BY <2>6, SameSources DEF VerdictInv
  <2>1. PICK cur \in BegunTexts : OnTrack(cur)
    BY <1>1 DEF VerdictInv
  <2>2. PICK t \in BegunTexts, i \in Nat : IsParsed(cur, t, i) /\ Declares(t, i, sym)
    BY <1>2, <1>4, <2>1 DEF OnTrack, TableAgrees, redeclaration
  <2>3. /\ Declares(cur, Position + 1, sym)
        /\ Position + 1 \in DOMAIN source[TextFile(cur)]
        /\ ~(t = cur /\ i = Position + 1)
    BY <1>1, <1>2, <1>3, <2>1, <2>2, HeadIsNext
  <2>4. t \in Texts /\ cur \in Texts /\ i \in DOMAIN source[TextFile(t)]
    BY <2>2, TextsLemma DEF IsParsed
  <2>5. ~WellFormed
    BY <1>2, <2>2, <2>3, <2>4, TwoDeclarations
  <2> QED
    BY <2>5, <2>6, SameSources DEF VerdictInv
<1>5. CASE ~redeclaration(sym)
  <2>1. /\ table' = create_placeholder_symbols(declare(table, sym), used)
        /\ EndOfConstruct(Head(rest), {sym})
        /\ UNCHANGED <<source, unreadable, included_files, lexing>>
    BY <1>5 DEF parse_decl, sym, used
  <2>2. BegunTexts' = BegunTexts
    BY <2>1 DEF BegunTexts
  <2>3. ASSUME NEW cur \in BegunTexts, OnTrack(cur)
        PROVE  TableAgrees(cur)'
    <3> DEFINE p == Position + 1
    <3>1. \A t \in BegunTexts, i \in Nat :
              IsParsed(cur, t, i)' <=> IsParsed(cur, t, i) \/ (t = cur /\ i = p)
      BY <1>1, <2>1, <2>2, <2>3, NextIsParsed DEF EndOfConstruct
    <3>2. \A s \in Syms : /\ Declares(cur, p, s) <=> s = sym
                          /\ Mentions(cur, p, s) <=> s \in used
      BY <1>3, <2>3
    <3>3. TableAgrees(cur)
      BY <2>3 DEF OnTrack
    <3>4. \A s \in Syms :
              /\ table'[s] = "declared" <=> table[s] = "declared" \/ s = sym
              /\ table'[s] # "absent" <=> table[s] # "absent" \/ s = sym \/ s \in used
      BY <1>2, <2>1, DeclaredTable
    <3>5. p \in Nat
      BY <1>1, <2>3, HeadIsNext
    <3> HIDE DEF p
    <3>6. ASSUME NEW s \in Syms
          PROVE  table'[s] = "declared" <=>
                     \E t \in BegunTexts, i \in Nat :
                         IsParsed(cur, t, i)' /\ Declares(t, i, s)
      BY <3>1, <3>2, <3>3, <3>4, <3>5, ZenonT(60) DEF TableAgrees
    <3>7. ASSUME NEW s \in Syms
          PROVE  table'[s] # "absent" <=>
                     \E t \in BegunTexts, i \in Nat :
                         /\ IsParsed(cur, t, i)'
                         /\ Declares(t, i, s) \/ Mentions(t, i, s)
      BY <3>1, <3>2, <3>3, <3>4, <3>5, ZenonT(60) DEF TableAgrees
    <3>8. ~\E t \in BegunTexts, i \in Nat : IsParsed(cur, t, i) /\ Declares(t, i, sym)
      BY <1>2, <1>5, <3>3 DEF TableAgrees, redeclaration
    <3>9. ASSUME NEW s \in Syms, NEW t1 \in BegunTexts, NEW t2 \in BegunTexts,
                 NEW i \in Nat, IsParsed(cur, t1, i)', Declares(t1, i, s),
                 NEW j \in Nat, IsParsed(cur, t2, j)', Declares(t2, j, s)
          PROVE  t1 = t2 /\ i = j
      <4>1. CASE s = sym
        BY <3>1, <3>8, <3>9, <4>1, Zenon
      <4>2. CASE s # sym
        <5>1. IsParsed(cur, t1, i) /\ IsParsed(cur, t2, j)
          BY <3>1, <3>2, <3>9, <4>2, Zenon
        <5> QED
          BY <3>3, <3>9, <5>1, Zenon DEF TableAgrees
      <4> QED
        BY <4>1, <4>2
    <3>10. \A t, i, s : /\ Declares(t, i, s)' <=> Declares(t, i, s)
                        /\ Mentions(t, i, s)' <=> Mentions(t, i, s)
      BY <2>1, SameSources
    <3> QED
      BY <2>2, <3>6, <3>7, <3>9, <3>10 DEF TableAgrees
  <2> QED
    BY <1>1, <2>1, <2>2, <2>3, OneConstruct
<1> QED
  BY <1>4, <1>5

-----------------------------------------------------------------------------
(* Between the files *)

\* At the end of a file every construct of every text begun is parsed.
LEMMA AllIsParsed ==
    ASSUME TypeOK, ReachInv, NEW cur \in BegunTexts, OnTrack(cur), rest = <<>>
    PROVE  \A t \in BegunTexts, i \in Nat :
               IsParsed(cur, t, i) <=> i \in DOMAIN source[TextFile(t)]
<1>1. source[TextFile(cur)] \in Seq(Item) /\ lexing = TextFile(cur)
  BY TextsLemma DEF OnTrack
<1>2. \A i \in DOMAIN source[TextFile(cur)] : i <= Position
  BY <1>1 DEF Position
<1> QED
  BY <1>2 DEF IsParsed

LEMMA VerdictNextFile ==
    ASSUME TypeOK, IncludedOnce, ReachInv, VerdictInv, get_next_include
    PROVE  VerdictInv'
<1> DEFINE k == next_include
<1>1. /\ status = "parsing" /\ status' = "parsing" /\ rest = <<>>
      /\ included_files' = mark_done(k)
      /\ lexing' = FileOf[included_files[k].name]
      /\ rest' = source[FileOf[included_files[k].name]]
      /\ UNCHANGED <<source, unreadable, table, inside_parenthesized_expression_>>
  BY DEF get_next_include, EndOfFile
<1> SUFFICES ASSUME NoneBrokenOff PROVE VerdictInv'
  BY <1>1, SameSources DEF VerdictInv
<1>2. /\ k \in DOMAIN included_files /\ included_files[k].name \in Names
      /\ included_files[k].state = "PENDING"
  BY NextIncludeIsPending DEF get_next_include, TypeOK
<1> HIDE DEF k
<1> PICK name \in Names : name = included_files[k].name
  BY <1>2
<1> DEFINE new == <<name>>
<1>3. /\ DOMAIN included_files' = DOMAIN included_files
      /\ \A i \in DOMAIN included_files :
             /\ included_files'[i].name = included_files[i].name
             /\ i # k => included_files'[i] = included_files[i]
  BY <1>1, <1>2, MarkDoneLemma DEF TypeOK
<1>4. included_files'[k].state = "DONE"
  <2>1. included_files[k] \in IncludedFile
    BY <1>2 DEF TypeOK
  <2> QED
    BY <1>1, <1>2, <2>1 DEF mark_done, IncludedFile, TypeOK
<1>5. BegunTexts' = BegunTexts \cup {new}
  <2> DEFINE Done == {i \in DOMAIN included_files : included_files[i].state = "DONE"}
  <2>1. Done' = Done \cup {k}
    BY <1>2, <1>3, <1>4
  <2>2. BegunTexts = {<<>>} \cup {<<included_files[i].name>> : i \in Done}
    BY DEF BegunTexts
  <2>3. BegunTexts' = {<<>>} \cup {<<included_files'[i].name>> : i \in Done'}
    BY DEF BegunTexts
  <2> HIDE DEF Done
  <2>4. \A i \in Done \cup {k} : included_files'[i].name = included_files[i].name
    BY <1>2, <1>3 DEF Done
  <2> QED
    BY <2>1, <2>2, <2>3, <2>4
<1>6. new \notin BegunTexts
  BY <1>2 DEF BegunTexts, IncludedOnce
<1>7. TextFile(new) = FileOf[name] /\ \A t : TextFile(t)' = TextFile(t)
  BY DEF TextFile
<1> HIDE DEF new
<1>8. Position' = 0 /\ source[FileOf[name]] \in Seq(Item)
  <2>1. source[FileOf[name]] \in Seq(Item)
    BY <1>2, FileSystemAssumption DEF TypeOK
  <2> QED
    BY <1>1, <2>1 DEF Position
<1>9. PICK cur \in BegunTexts : OnTrack(cur)
  BY <1>1 DEF VerdictInv
<1>10. \A t \in BegunTexts, i \in Nat : IsParsed(new, t, i)' <=> IsParsed(cur, t, i)
  <2>1. \A t \in BegunTexts, i \in Nat :
            IsParsed(cur, t, i) <=> i \in DOMAIN source[TextFile(t)]
    BY <1>1, <1>9, AllIsParsed
  <2>2. \A t \in BegunTexts, i \in Nat :
            IsParsed(new, t, i)' <=> i \in DOMAIN source[TextFile(t)]
    BY <1>1, <1>5, <1>6, <1>7 DEF IsParsed
  <2> QED
    BY <2>1, <2>2
<1>11. \A i \in Nat : ~IsParsed(new, new, i)'
  BY <1>1, <1>7, <1>8 DEF IsParsed
<1>12. \A t, i : Parses(t, i)' <=> Parses(t, i)
  BY <1>1, SameSources
<1>13. \A t, i, s : /\ Declares(t, i, s)' <=> Declares(t, i, s)
                    /\ Mentions(t, i, s)' <=> Mentions(t, i, s)
  BY <1>1, SameSources
<1>14. TableAgrees(new)'
  <2>1. TableAgrees(cur)
    BY <1>9 DEF OnTrack
  <2>2. table' = table
    BY <1>1
  <2> QED
    BY <1>5, <1>10, <1>11, <1>13, <2>1, <2>2 DEF TableAgrees
<1>15. \A t \in BegunTexts', i \in Nat : IsParsed(new, t, i)' => Parses(t, i)'
  BY <1>5, <1>9, <1>10, <1>11, <1>12 DEF OnTrack
<1>16. /\ lexing' = TextFile(new)'
       /\ Len(rest') <= Len(source'[lexing'])
       /\ \A i \in DOMAIN rest' : rest'[i] = source'[lexing'][Position' + i]
  BY <1>1, <1>7, <1>8
<1>17. OnTrack(new)' /\ new \in BegunTexts'
  BY <1>5, <1>14, <1>15, <1>16 DEF OnTrack
<1> QED
  BY <1>1, <1>17 DEF VerdictInv

-----------------------------------------------------------------------------
(* The verdict *)

\* Without an unreadable file the loop only ends when every text is parsed.
LEMMA EverythingIsParsed ==
    ASSUME TypeOK, ReachInv, AllReadable, status = "parsing", rest = <<>>,
           no_next_include, NEW cur \in BegunTexts, OnTrack(cur)
    PROVE  \A t \in Texts : /\ t \in BegunTexts
                            /\ \A i \in DOMAIN source[TextFile(t)] :
                                   i \in Nat /\ IsParsed(cur, t, i)
<1>1. Pending = {}
  <2> SUFFICES ASSUME Pending # {},
                      FileOf[included_files[next_include].name] \in unreadable
               PROVE  FALSE
    BY DEF no_next_include
  <2> DEFINE name == included_files[next_include].name
  <2>1. name \in IncludedNames
    BY NextIncludeIsPending DEF IncludedNames, TypeOK
  <2>2. name \in Reached
    BY <2>1 DEF ReachInv
  <2> HIDE DEF name
  <2>3. <<name>> \in Texts /\ TextFile(<<name>>) = FileOf[name]
    BY <2>2 DEF Texts, TextFile
  <2> QED
    BY <2>3 DEF AllReadable, name
<1>2. Reached \subseteq IncludedNames
  BY <1>1, AllAreListed
<1>3. \A i \in DOMAIN included_files : included_files[i].state = "DONE"
  <2> TAKE i \in DOMAIN included_files
  <2>1. included_files[i] \in IncludedFile /\ included_files[i].state # "PENDING"
    BY <1>1 DEF TypeOK, Pending
  <2> QED
    BY <2>1 DEF IncludedFile
<1>4. Texts \subseteq BegunTexts
  BY <1>2, <1>3 DEF Texts, BegunTexts, IncludedNames
<1>5. \A t \in Texts : \A i \in DOMAIN source[TextFile(t)] : i \in Nat
  BY TextsLemma
<1> QED
  BY <1>4, <1>5, AllIsParsed

LEMMA VerdictFinish ==
    ASSUME TypeOK, ReachInv, VerdictInv, FinishParse
    PROVE  VerdictInv'
<1>1. /\ status = "parsing" /\ rest = <<>> /\ no_next_include
      /\ UNCHANGED <<source, unreadable>>
      /\ status' = IF leftover_placeholders = {} THEN "accepted" ELSE "rejected"
  BY DEF FinishParse, EndOfFile
<1> SUFFICES ASSUME NoneBrokenOff PROVE VerdictInv'
  BY <1>1, SameSources DEF VerdictInv
<1>2. PICK cur \in BegunTexts : OnTrack(cur)
  BY <1>1 DEF VerdictInv
<1>3. ASSUME AllReadable, leftover_placeholders = {} PROVE WellFormed
  <2>1. \A t \in Texts : /\ t \in BegunTexts
                         /\ \A i \in DOMAIN source[TextFile(t)] :
                                i \in Nat /\ IsParsed(cur, t, i)
    BY <1>1, <1>2, <1>3, EverythingIsParsed
  <2>2. \A t \in Texts : \A i \in DOMAIN source[TextFile(t)] : Parses(t, i)
    BY <1>2, <2>1 DEF OnTrack
  <2>3. ASSUME NEW t \in Texts PROVE WellFormedText(TextFile(t))
    BY <2>2, <2>3 DEF WellFormedText, Parses, ItemAt, Includes, Items
  <2>4. ASSUME NEW s \in Syms, NEW t1 \in Texts, NEW t2 \in Texts,
               NEW i \in DeclsOf(TextFile(t1), s), NEW j \in DeclsOf(TextFile(t2), s)
        PROVE  t1 = t2 /\ i = j
    <3>1. /\ i \in DOMAIN source[TextFile(t1)] /\ Declares(t1, i, s)
          /\ j \in DOMAIN source[TextFile(t2)] /\ Declares(t2, j, s)
      BY <2>4 DEF DeclsOf, Declares, ItemAt
    <3> QED
      BY <1>2, <2>1, <3>1, Zenon DEF OnTrack, TableAgrees
  <2>5. ASSUME NEW t \in Texts, NEW s \in UsesOf(TextFile(t))
        PROVE  \E d \in Texts : DeclsOf(TextFile(d), s) # {}
    <3>1. PICK i \in DOMAIN source[TextFile(t)] : Mentions(t, i, s)
      BY <2>5 DEF UsesOf, Items, Mentions, ItemAt
    <3>2. s \in Syms
      <4>1. ItemAt(t, i) \in Item
        BY TextsLemma DEF ItemAt
      <4> QED
        BY <3>1, <4>1 DEF Mentions, Item
    <3>3. table[s] # "absent"
      BY <1>2, <2>1, <3>1, <3>2 DEF OnTrack, TableAgrees
    <3>4. table[s] = "declared"
      BY <1>3, <3>2, <3>3 DEF leftover_placeholders, TypeOK
    <3>5. PICK d \in BegunTexts, j \in Nat : IsParsed(cur, d, j) /\ Declares(d, j, s)
      BY <1>2, <3>2, <3>4 DEF OnTrack, TableAgrees
    <3>6. d \in Texts /\ j \in DeclsOf(TextFile(d), s)
      BY <3>5, TextsLemma DEF IsParsed, DeclsOf, Declares, ItemAt
    <3> QED
      BY <3>6
  <2> QED
    BY <2>3, <2>4, <2>5 DEF WellFormed
<1>4. ASSUME AllReadable, leftover_placeholders # {} PROVE ~WellFormed
  <2>1. PICK s \in Syms : table[s] = "placeholder"
    BY <1>4 DEF leftover_placeholders
  <2>2. /\ ~\E t \in BegunTexts, i \in Nat : IsParsed(cur, t, i) /\ Declares(t, i, s)
        /\ \E t \in BegunTexts, i \in Nat :
               IsParsed(cur, t, i) /\ (Declares(t, i, s) \/ Mentions(t, i, s))
    BY <1>2, <2>1 DEF OnTrack, TableAgrees
  <2>3. PICK t \in BegunTexts, i \in Nat : IsParsed(cur, t, i) /\ Mentions(t, i, s)
    BY <2>2
  <2>4. t \in Texts /\ s \in UsesOf(TextFile(t))
    BY <2>3, TextsLemma DEF IsParsed, UsesOf, Items, Mentions, ItemAt
  <2>5. SUFFICES ASSUME NEW d \in Texts, NEW j \in DeclsOf(TextFile(d), s)
                 PROVE  FALSE
    BY <2>4 DEF WellFormed
  <2>6. j \in DOMAIN source[TextFile(d)] /\ Declares(d, j, s)
    BY DEF DeclsOf, Declares, ItemAt
  <2>7. d \in BegunTexts /\ j \in Nat /\ IsParsed(cur, d, j)
    BY <1>1, <1>2, <1>4, <2>6, EverythingIsParsed
  <2> QED
    BY <2>2, <2>6, <2>7
<1> QED
  BY <1>1, <1>3, <1>4, SameSources DEF VerdictInv

LEMMA VerdictStep ==
    TypeOK /\ IncludedOnce /\ ReachInv /\ VerdictInv /\ [Next]_vars => VerdictInv'
<1> SUFFICES ASSUME TypeOK, IncludedOnce, ReachInv, VerdictInv, [Next]_vars
             PROVE  VerdictInv'
  OBVIOUS
<1>1. CASE ParseMalformed
  BY <1>1, WrongConstruct DEF ParseMalformed, parse, Reject
<1>7. CASE ParseNotToplevel
  BY <1>7, VerdictNotToplevel
<1>2. CASE parse_include
  BY <1>2, VerdictInclude
<1>3. CASE parse_decl
  BY <1>3, VerdictDeclaration
<1>4. CASE get_next_include
  BY <1>4, VerdictNextFile
<1>5. CASE FinishParse
  BY <1>5, VerdictFinish
<1>6. CASE Halted \/ UNCHANGED vars
  <2>1. UNCHANGED <<source, unreadable, included_files, lexing, rest, table,
                    inside_parenthesized_expression_, status>>
    BY <1>6 DEF Halted, vars
  <2>2. BegunTexts' = BegunTexts /\ Position' = Position
    BY <2>1 DEF BegunTexts, Position
  <2>3. \A t : TextFile(t)' = TextFile(t)
    BY DEF TextFile
  <2>4. \A cur, t, i : IsParsed(cur, t, i)' <=> IsParsed(cur, t, i)
    BY <2>1, <2>2, <2>3 DEF IsParsed
  <2>5. /\ \A t, i : Parses(t, i)' <=> Parses(t, i)
        /\ \A t, i, s : Declares(t, i, s)' <=> Declares(t, i, s)
        /\ \A t, i, s : Mentions(t, i, s)' <=> Mentions(t, i, s)
    BY <2>1, SameSources
  <2>6. \A cur : TableAgrees(cur)' <=> TableAgrees(cur)
    BY <2>1, <2>2, <2>4, <2>5 DEF TableAgrees
  <2>7. \A cur : OnTrack(cur)' <=> OnTrack(cur)
    BY <2>1, <2>2, <2>3, <2>4, <2>5, <2>6 DEF OnTrack
  <2> QED
    BY <2>1, <2>2, <2>7, SameSources DEF VerdictInv
<1> QED
  BY <1>1, <1>2, <1>3, <1>4, <1>5, <1>6, <1>7 DEF Next, ParseNext

LEMMA VerdictIsAboutTheProgram == TypeOK /\ VerdictInv => VerdictIsCorrect
  BY DEF TypeOK, VerdictInv, VerdictIsCorrect

\* If every file of the program can be read and none is broken off, do_parse
\* returns true for the programs all of whose texts consist of complete
\* declarations and includes, that declare nothing twice and everything they
\* mention, and false for every other, in whatever order the files come and
\* however they include one another.
THEOREM FrontEndVerdictIsCorrect == Spec => []VerdictIsCorrect
<1>1. Spec => []ReachInv
  BY ReachInit, ReachStep, FrontEndTypeCorrect, PTL DEF Spec
<1> QED
  BY <1>1, FrontEndTypeCorrect, FrontEndIncludesOnce, VerdictInit, VerdictStep, VerdictIsAboutTheProgram, PTL DEF Spec
=============================================================================
