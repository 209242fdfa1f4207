----------------------- MODULE ProcCodegenFlow_proofs -----------------------
(***************************************************************************)
(* Proof that on every path through every function the deferred calls run  *)
(* as the source says.  Each block is given the calls that are pending at  *)
(* its head when it is created: those of the bodies that are open around   *)
(* it.  All that is emitted afterwards keeps to that, whatever the path.   *)
(***************************************************************************)
EXTENDS ProcCodegen_proofs, ProcCodegenFlow, WellFoundedInduction

-----------------------------------------------------------------------------
(* Running a sequence *)

LEMMA Smallest ==
    ASSUME NEW S \in SUBSET Nat, S # {}
    PROVE  \E i \in S : \A j \in S : i <= j
<1> DEFINE R == {p \in Nat \X Nat : p[1] < p[2]}
<1>1. OpToRel(<, Nat) = R
  BY DEF OpToRel
<1>2. IsWellFoundedOn(R, Nat)
  BY <1>1, NatLessThanWellFounded, Zenon
<1> HIDE DEF R
<1>3. PICK i \in S : \A j \in S : <<j, i>> \notin R
  BY <1>2, WFMin, Zenon
<1>4. \A j \in S : i <= j
  <2> TAKE j \in S
  <2>1. i \in Nat /\ j \in Nat /\ <<j, i>> \notin R
    BY <1>3
  <2> QED
    BY <2>1 DEF R
<1> QED
  BY <1>4

\* f is what comes after each of n steps.
IsAfter(f, step, a, n) ==
    f = [k \in 0..n |-> IF k = 0 THEN a ELSE step[<<f[k - 1], k>>]]

LEMMA OneMoreStep ==
    ASSUME NEW m \in Nat \ {0}, NEW a, NEW step, NEW g, IsAfter(g, step, a, m - 1)
    PROVE  \E h : IsAfter(h, step, a, m)
<1> DEFINE h == [k \in 0..m |-> IF k = m THEN step[<<g[m - 1], m>>] ELSE g[k]]
<1>1. \A k \in 0..m : h[k] = IF k = 0 THEN a ELSE step[<<h[k - 1], k>>]
  <2> TAKE k \in 0..m
  <2>1. CASE k = m
    BY <2>1
  <2>2. CASE k # m
    <3>1. k \in 0..(m - 1) /\ h[k] = g[k]
      BY <2>2
    <3>2. g[k] = IF k = 0 THEN a ELSE step[<<g[k - 1], k>>]
      BY <3>1 DEF IsAfter
    <3>3. k # 0 => h[k - 1] = g[k - 1]
      BY <3>1
    <3> QED
      BY <3>1, <3>2, <3>3
  <2> QED
    BY <2>1, <2>2
<1>2. h = [k \in 0..m |-> h[k]]
  OBVIOUS
<1> HIDE DEF h
<1>3. IsAfter(h, step, a, m)
  BY <1>1, <1>2 DEF IsAfter
<1> QED
  BY <1>3

LEMMA StepsExist ==
    ASSUME NEW n \in Nat, NEW a, NEW step
    PROVE  \E f : IsAfter(f, step, a, n)
<1> DEFINE Missing == {m \in Nat : \A f : ~IsAfter(f, step, a, m)}
<1>1. SUFFICES ASSUME Missing # {} PROVE FALSE
  OBVIOUS
<1>2. PICK m \in Missing : \A j \in Missing : m <= j
  BY <1>1, Smallest
<1>3. m # 0
  <2>1. IsAfter([k \in 0..0 |-> a], step, a, 0)
    BY DEF IsAfter
  <2> QED
    BY <2>1
<1>4. m \in Nat \ {0} /\ m - 1 \in Nat /\ m - 1 \notin Missing
  <2>1. m \in Nat
    BY <1>2
  <2> HIDE DEF Missing
  <2> QED
    BY <2>1, <1>2, <1>3
<1>5. PICK g : IsAfter(g, step, a, m - 1)
  BY <1>4
<1>6. \E h : IsAfter(h, step, a, m)
  BY <1>4, <1>5, OneMoreStep, Zenon
<1> QED
  BY <1>2, <1>6

\* What holds at first and is kept by each step holds after all of them.
LEMMA StepsKeep ==
    ASSUME NEW n \in Nat, NEW Holds \in SUBSET (0..n), 0 \in Holds,
           \A k \in 1..n : k - 1 \in Holds => k \in Holds
    PROVE  Holds = 0..n
<1> DEFINE Left == (0..n) \ Holds
<1>1. SUFFICES ASSUME Left # {} PROVE FALSE
  OBVIOUS
<1>2. Left \in SUBSET Nat
  OBVIOUS
<1>3. PICK m \in Left : \A j \in Left : m <= j
  BY <1>1, <1>2, Smallest
<1>4. m \in 1..n /\ m - 1 \in 0..n
  BY <1>3
<1>5. m - 1 \in Holds
  BY <1>3, <1>4
<1> QED
  BY <1>3, <1>4, <1>5

LEMMA StepsTyped ==
    ASSUME NEW n \in Nat, NEW S, NEW f, f[0] \in S,
           \A k \in 1..n : f[k - 1] \in S => f[k] \in S
    PROVE  \A k \in 0..n : f[k] \in S
<1> DEFINE Typed == {k \in 0..n : f[k] \in S}
<1>1. Typed \in SUBSET (0..n) /\ 0 \in Typed
  OBVIOUS
<1>2. ASSUME NEW k \in 1..n, k - 1 \in Typed PROVE k \in Typed
  BY <1>2
<1> HIDE DEF Typed
<1>3. Typed = 0..n
  BY <1>1, <1>2, StepsKeep
<1> QED
  BY <1>3 DEF Typed

RunsBy(g, step, a, n) ==
    /\ g[0] = a
    /\ \A k \in 1..n : g[k] = step[<<g[k - 1], k>>]

\* The run from a of a function that takes each step within S.
LEMMA RunExists ==
    ASSUME NEW n \in Nat, NEW S, NEW a \in S, NEW step,
           step \in [S \X (1..n) -> S]
    PROVE  \E g \in [0..n -> S] : RunsBy(g, step, a, n)
<1>1. PICK g : IsAfter(g, step, a, n)
  BY StepsExist
<1>2. \A k \in 0..n : g[k] = IF k = 0 THEN a ELSE step[<<g[k - 1], k>>]
  BY <1>1 DEF IsAfter
<1>3. g[0] = a
  <2>1. 0 \in 0..n
    OBVIOUS
  <2> QED
    BY <1>2, <2>1
<1>4. \A k \in 1..n : g[k] = step[<<g[k - 1], k>>]
  <2> TAKE k \in 1..n
  <2>1. k \in 0..n /\ k # 0
    OBVIOUS
  <2> QED
    BY <1>2, <2>1
<1>5. ASSUME NEW k \in 1..n, g[k - 1] \in S PROVE g[k] \in S
  BY <1>4, <1>5
<1>6. \A k \in 0..n : g[k] \in S
  BY <1>3, <1>5, StepsTyped
<1>7. g = [k \in 0..n |-> g[k]]
  BY <1>1 DEF IsAfter
<1>8. g \in [0..n -> S]
  BY <1>6, <1>7
<1> QED
  BY <1>3, <1>4, <1>8 DEF RunsBy

-----------------------------------------------------------------------------
(* What the recursive functions of ProcCodegenFlow are *)

Pendings == SUBSET (Int \X Int)

LEMMA CallType ==
    ASSUME NEW pending \in Pendings, NEW d
    PROVE  Call(pending, d) \in Pendings
<1>1. Stuck \in Pendings
  BY DEF Stuck, Pendings
<1>2. pending \ {NextPending(pending)} \in Pendings
  BY DEF Pendings
<1> QED
  BY <1>1, <1>2 DEF Call

\* The pending calls after each call of a body.
IsScopeRun(f, pending, calls) ==
    /\ f[0] = pending
    /\ \A k \in 1..Len(calls) : f[k] = Call(f[k - 1], calls[k])

LEMMA ScopeRuns ==
    ASSUME NEW calls, Len(calls) \in Nat, NEW pending \in Pendings
    PROVE  \E f \in [0..Len(calls) -> Pendings] :
               /\ IsScopeRun(f, pending, calls)
               /\ RunScope(pending, calls) = f[Len(calls)]
<1> DEFINE n    == Len(calls)
           step == [z \in Pendings \X (1..n) |-> Call(z[1], calls[z[2]])]
           IsRun(f) == f = [k \in 0..n |-> IF k = 0 THEN pending
                                           ELSE Call(f[k - 1], calls[k])]
           run == CHOOSE f : IsRun(f)
<1>n. n \in Nat
  OBVIOUS
<1>1. RunScope(pending, calls) = run[n]
  BY DEF RunScope, Through
<1> HIDE DEF n
<1>2. step \in [Pendings \X (1..n) -> Pendings]
  BY CallType
<1>3. \A p \in Pendings, k \in 1..n : step[<<p, k>>] = Call(p, calls[k])
  OBVIOUS
<1> HIDE DEF step
<1>4. PICK g \in [0..n -> Pendings] : RunsBy(g, step, pending, n)
  BY <1>n, <1>2, RunExists
<1>5. \A k \in 1..n : g[k] = Call(g[k - 1], calls[k])
  <2> TAKE k \in 1..n
  <2>1. g[k - 1] \in Pendings
    BY <1>n, <1>4
  <2> QED
    BY <1>3, <1>4, <2>1 DEF RunsBy
<1>6. IsRun(g)
  <2>1. \A k \in 0..n : g[k] = IF k = 0 THEN pending
                               ELSE Call(g[k - 1], calls[k])
    <3> TAKE k \in 0..n
    <3>1. k = 0 \/ k \in 1..n
      BY <1>n
    <3> QED
      BY <1>4, <1>5, <3>1 DEF RunsBy
  <2> QED
    BY <2>1
<1>7. IsRun(run)
  <2> HIDE DEF IsRun
  <2> QED
    BY <1>6
<1> HIDE DEF run
<1>8. run[0] = pending /\ \A k \in 1..n : run[k] = Call(run[k - 1], calls[k])
  <2>1. \A k \in 0..n : run[k] = IF k = 0 THEN pending
                                 ELSE Call(run[k - 1], calls[k])
    BY <1>7
  <2>2. 0 \in 0..n /\ \A k \in 1..n : k \in 0..n /\ k # 0
    BY <1>n
  <2> QED
    BY <2>1, <2>2
<1>9. \A k \in 1..n : run[k - 1] \in Pendings => run[k] \in Pendings
  BY <1>8, CallType
<1>10. \A k \in 0..n : run[k] \in Pendings
  BY <1>n, <1>8, <1>9, StepsTyped
<1>11. run \in [0..n -> Pendings]
  BY <1>7, <1>10
<1> QED
  BY <1>1, <1>8, <1>11 DEF n, IsScopeRun

LEMMA RunScopeType ==
    \A pending \in Pendings, calls \in Seq(Defers) :
        RunScope(pending, calls) \in Pendings
<1> TAKE pending \in Pendings, calls \in Seq(Defers)
<1>1. Len(calls) \in Nat
  OBVIOUS
<1>2. PICK f \in [0..Len(calls) -> Pendings] :
          RunScope(pending, calls) = f[Len(calls)]
  BY <1>1, ScopeRuns
<1> QED
  BY <1>1, <1>2

\* The pending calls after each body that is left at an exit.
IsExitRun(f, pending, scopes) ==
    /\ f[0] = pending
    /\ \A k \in 1..Len(scopes) : f[k] = RunScope(f[k - 1], scopes[k])

LEMMA ExitRuns ==
    ASSUME NEW scopes \in Seq(Seq(Defers)), NEW pending \in Pendings
    PROVE  \E f \in [0..Len(scopes) -> Pendings] :
               /\ IsExitRun(f, pending, scopes)
               /\ Through(RunScope, pending, scopes) = f[Len(scopes)]
<1> DEFINE n    == Len(scopes)
           step == [z \in Pendings \X (1..n) |-> RunScope(z[1], scopes[z[2]])]
           IsRun(f) == f = [k \in 0..n |-> IF k = 0 THEN pending
                                           ELSE RunScope(f[k - 1], scopes[k])]
           run == CHOOSE f : IsRun(f)
<1>n. n \in Nat
  OBVIOUS
<1>1. Through(RunScope, pending, scopes) = run[n]
  BY DEF Through
<1>t. \A p \in Pendings, k \in 1..n : RunScope(p, scopes[k]) \in Pendings
  BY RunScopeType
<1> HIDE DEF n
<1>2. step \in [Pendings \X (1..n) -> Pendings]
  BY <1>t
<1>3. \A p \in Pendings, k \in 1..n : step[<<p, k>>] = RunScope(p, scopes[k])
  OBVIOUS
<1> HIDE DEF step
<1>4. PICK g \in [0..n -> Pendings] : RunsBy(g, step, pending, n)
  BY <1>n, <1>2, RunExists
<1>5. \A k \in 1..n : g[k] = RunScope(g[k - 1], scopes[k])
  <2> TAKE k \in 1..n
  <2>1. g[k - 1] \in Pendings
    BY <1>n, <1>4
  <2> QED
    BY <1>3, <1>4, <2>1 DEF RunsBy
<1>6. IsRun(g)
  <2>1. \A k \in 0..n : g[k] = IF k = 0 THEN pending
                               ELSE RunScope(g[k - 1], scopes[k])
    <3> TAKE k \in 0..n
    <3>1. k = 0 \/ k \in 1..n
      BY <1>n
    <3> QED
      BY <1>4, <1>5, <3>1 DEF RunsBy
  <2> QED
    BY <2>1
<1>7. IsRun(run)
  <2> HIDE DEF IsRun
  <2> QED
    BY <1>6
<1> HIDE DEF run
<1>8. run[0] = pending /\ \A k \in 1..n : run[k] = RunScope(run[k - 1], scopes[k])
  <2>1. \A k \in 0..n : run[k] = IF k = 0 THEN pending
                                 ELSE RunScope(run[k - 1], scopes[k])
    BY <1>7
  <2>2. 0 \in 0..n /\ \A k \in 1..n : k \in 0..n /\ k # 0
    BY <1>n
  <2> QED
    BY <2>1, <2>2
<1>9. \A k \in 1..n : run[k - 1] \in Pendings => run[k] \in Pendings
  BY <1>t, <1>8
<1>10. \A k \in 0..n : run[k] \in Pendings
  BY <1>n, <1>8, <1>9, StepsTyped
<1>11. run \in [0..n -> Pendings]
  BY <1>7, <1>10
<1> QED
  BY <1>1, <1>8, <1>11 DEF n, IsExitRun

LEMMA RunEventType ==
    \A pending \in Pendings, ev \in Event : RunEvent(pending, ev) \in Pendings
<1> TAKE pending \in Pendings, ev \in Event
<1>1. CASE pending = Stuck
  BY <1>1 DEF RunEvent
<1>2. CASE pending # Stuck /\ ev.op = "reg"
  <2>1. ev.depth \in Int /\ ev.d \in Int
    BY <1>2 DEF Event, Defers
  <2>2. RunEvent(pending, ev) = pending \cup {<<ev.depth, ev.d>>}
    BY <1>2 DEF RunEvent
  <2> QED
    BY <2>1, <2>2 DEF Pendings
<1>3. CASE pending # Stuck /\ ev.op # "reg"
  <2>1. ev.scopes \in Seq(Seq(Defers))
    BY <1>3 DEF Event
  <2>2. RunEvent(pending, ev) = Through(RunScope, pending, ev.scopes)
    BY <1>3 DEF RunEvent
  <2>3. PICK f \in [0..Len(ev.scopes) -> Pendings] :
            Through(RunScope, pending, ev.scopes) = f[Len(ev.scopes)]
    BY <2>1, ExitRuns
  <2> QED
    BY <2>1, <2>2, <2>3
<1> QED
  BY <1>1, <1>2, <1>3

\* The pending calls after each event of a block.
IsCodeRun(f, pending, code) ==
    /\ f[0] = pending
    /\ \A k \in 1..Len(code) : f[k] = RunEvent(f[k - 1], code[k])

LEMMA CodeRuns ==
    ASSUME NEW code \in Seq(Event), NEW pending \in Pendings
    PROVE  \E f \in [0..Len(code) -> Pendings] :
               /\ IsCodeRun(f, pending, code)
               /\ RunCode(pending, code) = f[Len(code)]
<1> DEFINE n    == Len(code)
           step == [z \in Pendings \X (1..n) |-> RunEvent(z[1], code[z[2]])]
           IsRun(f) == f = [k \in 0..n |-> IF k = 0 THEN pending
                                           ELSE RunEvent(f[k - 1], code[k])]
           run == CHOOSE f : IsRun(f)
<1>n. n \in Nat
  OBVIOUS
<1>1. RunCode(pending, code) = run[n]
  BY DEF RunCode, Through
<1>t. \A p \in Pendings, k \in 1..n : RunEvent(p, code[k]) \in Pendings
  BY RunEventType
<1> HIDE DEF n
<1>2. step \in [Pendings \X (1..n) -> Pendings]
  BY <1>t
<1>3. \A p \in Pendings, k \in 1..n : step[<<p, k>>] = RunEvent(p, code[k])
  OBVIOUS
<1> HIDE DEF step
<1>4. PICK g \in [0..n -> Pendings] : RunsBy(g, step, pending, n)
  BY <1>n, <1>2, RunExists
<1>5. \A k \in 1..n : g[k] = RunEvent(g[k - 1], code[k])
  <2> TAKE k \in 1..n
  <2>1. g[k - 1] \in Pendings
    BY <1>n, <1>4
  <2> QED
    BY <1>3, <1>4, <2>1 DEF RunsBy
<1>6. IsRun(g)
  <2>1. \A k \in 0..n : g[k] = IF k = 0 THEN pending
                               ELSE RunEvent(g[k - 1], code[k])
    <3> TAKE k \in 0..n
    <3>1. k = 0 \/ k \in 1..n
      BY <1>n
    <3> QED
      BY <1>4, <1>5, <3>1 DEF RunsBy
  <2> QED
    BY <2>1
<1>7. IsRun(run)
  <2> HIDE DEF IsRun
  <2> QED
    BY <1>6
<1> HIDE DEF run
<1>8. run[0] = pending /\ \A k \in 1..n : run[k] = RunEvent(run[k - 1], code[k])
  <2>1. \A k \in 0..n : run[k] = IF k = 0 THEN pending
                                 ELSE RunEvent(run[k - 1], code[k])
    BY <1>7
  <2>2. 0 \in 0..n /\ \A k \in 1..n : k \in 0..n /\ k # 0
    BY <1>n
  <2> QED
    BY <2>1, <2>2
<1>9. \A k \in 1..n : run[k - 1] \in Pendings => run[k] \in Pendings
  BY <1>t, <1>8
<1>10. \A k \in 0..n : run[k] \in Pendings
  BY <1>n, <1>8, <1>9, StepsTyped
<1>11. run \in [0..n -> Pendings]
  BY <1>7, <1>10
<1> QED
  BY <1>1, <1>8, <1>11 DEF n, IsCodeRun

LEMMA RunNothing ==
    ASSUME NEW pending \in Pendings
    PROVE  RunCode(pending, <<>>) = pending
<1>1. <<>> \in Seq(Event)
  OBVIOUS
<1>2. PICK f : /\ IsCodeRun(f, pending, <<>>)
               /\ RunCode(pending, <<>>) = f[Len(<<>>)]
  BY <1>1, CodeRuns
<1> QED
  BY <1>2 DEF IsCodeRun

\* What is emitted behind the code of a block runs after it.
LEMMA RunAppend ==
    ASSUME NEW code \in Seq(Event), NEW ev \in Event, NEW pending \in Pendings
    PROVE  /\ RunCode(pending, Append(code, ev))
                  = RunEvent(RunCode(pending, code), ev)
           /\ RunCode(pending, code) \in Pendings
<1> DEFINE n    == Len(code)
           more == Append(code, ev)
<1>n. /\ n \in Nat
      /\ more \in Seq(Event)
      /\ Len(more) = n + 1
      /\ more[n + 1] = ev
      /\ \A k \in 1..n : more[k] = code[k]
  OBVIOUS
<1>1. PICK f \in [0..Len(code) -> Pendings] :
          IsCodeRun(f, pending, code) /\ RunCode(pending, code) = f[Len(code)]
  BY CodeRuns
<1> HIDE DEF more
<1>2. PICK g \in [0..Len(more) -> Pendings] :
          IsCodeRun(g, pending, more) /\ RunCode(pending, more) = g[Len(more)]
  BY <1>n, CodeRuns
<1>a. f[0] = pending /\ \A k \in 1..n : f[k] = RunEvent(f[k - 1], code[k])
  BY <1>1 DEF IsCodeRun
<1>b. /\ g[0] = pending
      /\ \A k \in 1..(n + 1) : g[k] = RunEvent(g[k - 1], more[k])
  BY <1>n, <1>2 DEF IsCodeRun
<1>c. RunCode(pending, code) = f[n] /\ RunCode(pending, more) = g[n + 1]
  BY <1>n, <1>1, <1>2
<1>d. f[n] \in Pendings
  BY <1>n, <1>1
<1> HIDE DEF n
<1> DEFINE Same == {k \in 0..n : f[k] = g[k]}
<1>3. Same \in SUBSET (0..n) /\ 0 \in Same
  BY <1>n, <1>a, <1>b
<1>4. ASSUME NEW k \in 1..n, k - 1 \in Same PROVE k \in Same
  <2>1. k \in 1..(n + 1)
    BY <1>n
  <2>2. f[k] = RunEvent(f[k - 1], code[k]) /\ g[k] = RunEvent(g[k - 1], code[k])
    BY <1>n, <1>a, <1>b, <2>1
  <2>3. f[k - 1] = g[k - 1]
    BY <1>4
  <2>4. k \in 0..n
    BY <1>n
  <2> QED
    BY <2>2, <2>3, <2>4
<1> HIDE DEF Same
<1>5. Same = 0..n
  BY <1>n, <1>3, <1>4, StepsKeep
<1>6. f[n] = g[n]
  BY <1>n, <1>5 DEF Same
<1>7. g[n + 1] = RunEvent(g[n], ev)
  <2>1. n + 1 \in 1..(n + 1) /\ n + 1 - 1 = n
    BY <1>n
  <2>2. PICK k : k = n + 1
    OBVIOUS
  <2>3. k \in 1..(n + 1) /\ k - 1 = n
    BY <1>n, <2>2
  <2>4. g[k] = RunEvent(g[k - 1], more[k])
    BY <1>b, <2>3
  <2> QED
    BY <1>n, <2>2, <2>3, <2>4
<1> QED
  BY <1>c, <1>d, <1>6, <1>7 DEF more

-----------------------------------------------------------------------------
(* The calls of the open bodies *)

\* The calls deferred in the n outermost of the bodies def.
PendingOf(def, n) ==
    {p \in (1..n) \X Defers :
        \E j \in DOMAIN def[p[1]].stmts : def[p[1]].stmts[j] = p[2]}

InOrder(calls) ==
    \A j, k \in DOMAIN calls : j < k => calls[j] < calls[k]

LEMMA PendingType ==
    ASSUME NEW def, NEW n \in Nat
    PROVE  /\ PendingOf(def, n) \in Pendings
           /\ PendingOf(def, n) # Stuck
           /\ PendingOf(def, 0) = {}
<1>1. \A p \in PendingOf(def, n) : p \in Nat \X Nat /\ p[1] >= 1
  BY SourceAssumption DEF PendingOf, Defers
<1>2. <<-1, -1>> \notin PendingOf(def, n)
  BY <1>1
<1>3. PendingOf(def, n) \in Pendings
  BY <1>1 DEF Pendings
<1>4. PendingOf(def, 0) = {}
  BY DEF PendingOf
<1> QED
  BY <1>2, <1>3, <1>4 DEF Stuck

\* The call whose turn it is.
LEMMA NextIsFirst ==
    ASSUME NEW pending \in Pendings, NEW p \in pending, IsNext(p, pending)
    PROVE  NextPending(pending) = p
<1> DEFINE c == NextPending(pending)
<1>1. c \in pending /\ IsNext(c, pending)
  BY DEF NextPending
<1>2. \A q \in pending : q = <<q[1], q[2]>> /\ q[1] \in Int /\ q[2] \in Int
  BY DEF Pendings
<1>3. p[1] > c[1] \/ (p[1] = c[1] /\ p[2] <= c[2])
  BY <1>1 DEF IsNext
<1>4. c[1] > p[1] \/ (c[1] = p[1] /\ c[2] <= p[2])
  BY <1>1 DEF IsNext
<1> HIDE DEF c
<1>5. c[1] = p[1] /\ c[2] = p[2]
  BY <1>1, <1>2, <1>3, <1>4
<1> QED
  BY <1>1, <1>2, <1>5 DEF c

\* The calls of a body that are left after the first k.
Rest(i, calls, k) == {<<i, calls[j]>> : j \in (k + 1)..Len(calls)}

\* One call of the innermost body, whose turn it is.
LEMMA OneCall ==
    ASSUME NEW calls \in Seq(Defers), InOrder(calls), NEW i \in Nat \ {0},
           NEW base \in SUBSET ((1..(i - 1)) \X Defers),
           NEW k \in 1..Len(calls)
    PROVE  Call(base \cup Rest(i, calls, k - 1), calls[k])
               = base \cup Rest(i, calls, k)
<1> DEFINE pending == base \cup Rest(i, calls, k - 1)
           p == <<i, calls[k]>>
<1>1. /\ Len(calls) \in Nat
      /\ DOMAIN calls = 1..Len(calls)
      /\ \A j \in 1..Len(calls) : calls[j] \in Nat \ {0} /\ calls[j] \in Defers
      /\ k \in Nat
  BY SourceAssumption DEF Defers
<1>2. \A q \in base : q \in Nat \X Nat /\ q[1] < i /\ q[1] >= 1
  BY SourceAssumption DEF Defers
<1>3. \A q \in Rest(i, calls, k - 1) :
          \E j \in k..Len(calls) : q = <<i, calls[j]>> /\ calls[k] <= calls[j]
  <2> TAKE q \in Rest(i, calls, k - 1)
  <2>1. PICK j \in (k - 1 + 1)..Len(calls) : q = <<i, calls[j]>>
    BY DEF Rest
  <2>2. j \in k..Len(calls) /\ j \in 1..Len(calls) /\ (j = k \/ k < j)
    BY <1>1
  <2>3. calls[k] <= calls[j]
    <3>1. j = k \/ calls[k] < calls[j]
      BY <1>1, <2>2 DEF InOrder
    <3>2. calls[j] \in Nat /\ calls[k] \in Nat
      BY <1>1, <2>2
    <3> QED
      BY <3>1, <3>2
  <2> QED
    BY <2>1, <2>2, <2>3
<1>4. p \in pending
  <2>1. k \in (k - 1 + 1)..Len(calls)
    BY <1>1
  <2> QED
    BY <2>1 DEF Rest
<1>5. pending \in Pendings
  <2>1. \A q \in Rest(i, calls, k - 1) : q \in Int \X Int
    BY <1>1, <1>3
  <2> QED
    BY <1>2, <2>1 DEF Pendings
<1>6. IsNext(p, pending)
  <2> SUFFICES ASSUME NEW q \in pending
               PROVE  p[1] > q[1] \/ (p[1] = q[1] /\ p[2] <= q[2])
    BY DEF IsNext
  <2>1. CASE q \in base
    BY <1>2, <2>1
  <2>2. CASE q \in Rest(i, calls, k - 1)
    BY <1>3, <2>2
  <2> QED
    BY <2>1, <2>2
<1>7. NextPending(pending) = p
  <2> HIDE DEF pending, p
  <2> QED
    BY <1>4, <1>5, <1>6, NextIsFirst
<1>8. pending # {} /\ pending # Stuck
  <2>1. p # <<-1, -1>>
    OBVIOUS
  <2> HIDE DEF pending, p
  <2> QED
    BY <1>4, <2>1 DEF Stuck
<1>9. Call(pending, calls[k]) = pending \ {p}
  <2>1. NextPending(pending)[2] = calls[k]
    BY <1>7
  <2> HIDE DEF pending
  <2> QED
    BY <1>7, <1>8, <2>1 DEF Call
<1>10. p \notin base
  BY <1>2
<1>11. Rest(i, calls, k - 1) \ {p} = Rest(i, calls, k)
  <2>1. ASSUME NEW q \in Rest(i, calls, k - 1), q # p
        PROVE  q \in Rest(i, calls, k)
    <3>1. PICK j \in (k - 1 + 1)..Len(calls) : q = <<i, calls[j]>>
      BY DEF Rest
    <3>2. j # k
      BY <2>1, <3>1
    <3>3. j \in (k + 1)..Len(calls)
      BY <1>1, <3>2
    <3> QED
      BY <3>1, <3>3 DEF Rest
  <2>2. ASSUME NEW q \in Rest(i, calls, k)
        PROVE  q \in Rest(i, calls, k - 1) /\ q # p
    <3>1. PICK j \in (k + 1)..Len(calls) : q = <<i, calls[j]>>
      BY DEF Rest
    <3>2. j \in (k - 1 + 1)..Len(calls) /\ j \in 1..Len(calls) /\ k < j
      BY <1>1
    <3>3. calls[k] < calls[j]
      BY <1>1, <3>2 DEF InOrder
    <3>4. calls[k] # calls[j]
      BY <1>1, <3>2, <3>3
    <3> QED
      BY <3>1, <3>2, <3>4 DEF Rest
  <2> HIDE DEF p
  <2> QED
    BY <2>1, <2>2
<1> HIDE DEF p
<1> QED
  BY <1>9, <1>10, <1>11

\* Running all calls of the innermost body leaves those of the others.
LEMMA ScopeLeaves ==
    ASSUME NEW calls \in Seq(Defers), InOrder(calls), NEW i \in Nat \ {0},
           NEW base \in SUBSET ((1..(i - 1)) \X Defers)
    PROVE  RunScope(base \cup Rest(i, calls, 0), calls) = base
<1> DEFINE n == Len(calls)
           all == base \cup Rest(i, calls, 0)
<1>n. n \in Nat /\ \A j \in 1..n : calls[j] \in Int
  BY SourceAssumption DEF Defers
<1>1. all \in Pendings
  <2>1. \A q \in Rest(i, calls, 0) : q \in Int \X Int
    <3>1. \A j \in (0 + 1)..n : <<i, calls[j]>> \in Int \X Int
      BY <1>n
    <3> QED
      BY <3>1 DEF Rest
  <2>2. \A q \in base : q \in Int \X Int
    BY SourceAssumption DEF Defers
  <2> QED
    BY <2>1, <2>2 DEF Pendings
<1> HIDE DEF all
<1>2. PICK f \in [0..Len(calls) -> Pendings] :
          IsScopeRun(f, all, calls) /\ RunScope(all, calls) = f[Len(calls)]
  BY <1>n, <1>1, ScopeRuns
<1>3. f[0] = all /\ \A k \in 1..n : f[k] = Call(f[k - 1], calls[k])
  BY <1>2 DEF IsScopeRun
<1> DEFINE Kept == {k \in 0..n : f[k] = base \cup Rest(i, calls, k)}
<1>4. Kept \in SUBSET (0..n) /\ 0 \in Kept
  BY <1>n, <1>3 DEF all
<1>5. ASSUME NEW k \in 1..n, k - 1 \in Kept PROVE k \in Kept
  <2>1. f[k - 1] = base \cup Rest(i, calls, k - 1)
    BY <1>5
  <2>2. f[k] = base \cup Rest(i, calls, k)
    <3>1. Call(base \cup Rest(i, calls, k - 1), calls[k])
              = base \cup Rest(i, calls, k)
      BY OneCall
    <3> QED
      BY <1>3, <2>1, <3>1
  <2> QED
    BY <1>n, <2>2
<1> HIDE DEF Kept
<1>6. Kept = 0..n
  BY <1>n, <1>4, <1>5, StepsKeep
<1>7. f[n] = base \cup Rest(i, calls, n)
  BY <1>n, <1>6 DEF Kept
<1>8. Rest(i, calls, n) = {}
  BY <1>n DEF Rest
<1> QED
  BY <1>2, <1>7, <1>8 DEF all

OrderedDefers(def) == \A i \in DOMAIN def : InOrder(def[i].stmts)

\* The calls of one body more.
LEMMA PendingSplit ==
    ASSUME NEW def \in Seq(DeferredStackElement), NEW i \in 1..Len(def)
    PROVE  /\ PendingOf(def, i)
                  = PendingOf(def, i - 1) \cup Rest(i, def[i].stmts, 0)
           /\ PendingOf(def, i - 1) \in SUBSET ((1..(i - 1)) \X Defers)
           /\ def[i].stmts \in Seq(Defers)
<1> DEFINE calls == def[i].stmts
<1>1. /\ calls \in Seq(Defers)
      /\ DOMAIN calls = 1..Len(calls)
      /\ Len(calls) \in Nat
  <2>1. def[i] \in DeferredStackElement
    OBVIOUS
  <2>2. calls \in Seq(Defers)
    BY <2>1 DEF DeferredStackElement
  <2> HIDE DEF calls
  <2> QED
    BY <2>2
<1>2. i \in Nat \ {0}
  OBVIOUS
<1>3. ASSUME NEW q \in PendingOf(def, i)
      PROVE  q \in PendingOf(def, i - 1) \cup Rest(i, calls, 0)
  <2>1. /\ q \in (1..i) \X Defers
        /\ \E j \in DOMAIN def[q[1]].stmts : def[q[1]].stmts[j] = q[2]
    BY DEF PendingOf
  <2>2. CASE q[1] = i
    <3>1. PICK j \in DOMAIN calls : calls[j] = q[2]
      BY <2>1, <2>2
    <3>2. j \in (0 + 1)..Len(calls) /\ q = <<i, calls[j]>>
      BY <1>1, <2>1, <2>2, <3>1
    <3> QED
      BY <3>2 DEF Rest
  <2>3. CASE q[1] # i
    <3>1. q \in (1..(i - 1)) \X Defers
      BY <1>2, <2>1, <2>3
    <3> QED
      BY <2>1, <3>1 DEF PendingOf
  <2> QED
    BY <2>2, <2>3
<1>4. ASSUME NEW q \in PendingOf(def, i - 1) PROVE q \in PendingOf(def, i)
  <2>1. q \in (1..i) \X Defers
    BY <1>2 DEF PendingOf
  <2> QED
    BY <2>1 DEF PendingOf
<1>5. ASSUME NEW q \in Rest(i, calls, 0) PROVE q \in PendingOf(def, i)
  <2>1. PICK j \in (0 + 1)..Len(calls) : q = <<i, calls[j]>>
    BY DEF Rest
  <2>2. j \in DOMAIN calls /\ calls[j] \in Defers
    BY <1>1
  <2>3. q \in (1..i) \X Defers /\ q[1] = i /\ q[2] = calls[j]
    BY <1>2, <2>1, <2>2
  <2> QED
    BY <2>2, <2>3 DEF PendingOf
<1>6. PendingOf(def, i - 1) \in SUBSET ((1..(i - 1)) \X Defers)
  BY DEF PendingOf
<1> HIDE DEF calls
<1>7. PendingOf(def, i) = PendingOf(def, i - 1) \cup Rest(i, calls, 0)
  BY <1>3, <1>4, <1>5
<1> QED
  BY <1>1, <1>6, <1>7 DEF calls

\* What each method of unpack_defers emits leaves the calls of the bodies that
\* stay open, if those of all open bodies are pending.
LEMMA ExitLeaves ==
    ASSUME NEW base \in 1..Len(deferred),
           deferred \in Seq(DeferredStackElement), OrderedDefers(deferred)
    PROVE  Through(RunScope, PendingOf(deferred, Len(deferred)),
                   FromBackTo(base)) = PendingOf(deferred, base - 1)
<1> DEFINE top == Len(deferred)
           n == top - base + 1
           scopes == FromBackTo(base)
           all == PendingOf(deferred, top)
<1>n. top \in Nat \ {0} /\ n \in Nat /\ n = top - base + 1 /\ base \in 1..top
  OBVIOUS
<1>1. /\ scopes \in Seq(Seq(Defers))
      /\ Len(scopes) = n
      /\ \A k \in 1..n : scopes[k] = deferred[top + 1 - k].stmts
  <2>1. \A k \in 1..n : top + 1 - k \in 1..top
    BY <1>n
  <2>2. \A k \in 1..n : deferred[top + 1 - k].stmts \in Seq(Defers)
    <3> TAKE k \in 1..n
    <3>1. deferred[top + 1 - k] \in DeferredStackElement
      BY <2>1
    <3> QED
      BY <3>1 DEF DeferredStackElement
  <2>3. scopes = [k \in 1..n |-> deferred[top + 1 - k].stmts]
    BY DEF FromBackTo
  <2> HIDE DEF n, scopes, top
  <2> QED
    BY <1>n, <2>2, <2>3
<1>2. all \in Pendings
  BY <1>n, PendingType
<1> HIDE DEF scopes
<1>3. PICK f \in [0..Len(scopes) -> Pendings] :
          /\ IsExitRun(f, all, scopes)
          /\ Through(RunScope, all, scopes) = f[Len(scopes)]
  BY <1>1, <1>2, ExitRuns
<1> HIDE DEF n
<1>4. f[0] = all /\ \A k \in 1..n : f[k] = RunScope(f[k - 1], scopes[k])
  BY <1>1, <1>3 DEF IsExitRun
<1> DEFINE Kept == {k \in 0..n : f[k] = PendingOf(deferred, top - k)}
<1>5. Kept \in SUBSET (0..n) /\ 0 \in Kept
  <2>1. top - 0 = top /\ 0 \in 0..n
    BY <1>n
  <2> QED
    BY <1>4, <2>1
<1>6. ASSUME NEW k \in 1..n, k - 1 \in Kept PROVE k \in Kept
  <2>1. PICK i : i = top + 1 - k
    OBVIOUS
  <2>2. /\ i \in 1..Len(deferred)
        /\ i \in Nat \ {0}
        /\ i - 1 = top - k
        /\ i = top - (k - 1)
        /\ k \in 0..n
    BY <1>n, <2>1
  <2> DEFINE calls == deferred[i].stmts
             under == PendingOf(deferred, i - 1)
  <2>3. /\ PendingOf(deferred, i) = under \cup Rest(i, calls, 0)
        /\ under \in SUBSET ((1..(i - 1)) \X Defers)
        /\ calls \in Seq(Defers)
    BY <2>2, PendingSplit
  <2>4. InOrder(calls)
    BY <2>2 DEF OrderedDefers
  <2>5. RunScope(under \cup Rest(i, calls, 0), calls) = under
    <3> HIDE DEF calls, under
    <3> QED
      BY <2>2, <2>3, <2>4, ScopeLeaves
  <2>6. f[k - 1] = PendingOf(deferred, i)
    BY <1>6, <2>2
  <2>7. f[k] = RunScope(f[k - 1], calls)
    BY <1>1, <1>4, <2>1
  <2>8. f[k] = PendingOf(deferred, top - k)
    BY <2>2, <2>3, <2>5, <2>6, <2>7
  <2> QED
    BY <2>2, <2>8
<1> HIDE DEF Kept
<1>7. Kept = 0..n
  BY <1>n, <1>5, <1>6, StepsKeep
<1>8. f[n] = PendingOf(deferred, top - n)
  BY <1>n, <1>7 DEF Kept
<1>9. top - n = base - 1
  BY <1>n
<1> QED
  BY <1>1, <1>3, <1>8, <1>9 DEF scopes

-----------------------------------------------------------------------------
(* Changes of the defer stack *)

\* The calls of bodies that do not change.
LEMMA SamePending ==
    ASSUME NEW def, NEW new, NEW n,
           \A i \in 1..n : new[i].stmts = def[i].stmts
    PROVE  PendingOf(new, n) = PendingOf(def, n)
<1>1. ASSUME NEW p \in (1..n) \X Defers
      PROVE  (\E j \in DOMAIN new[p[1]].stmts : new[p[1]].stmts[j] = p[2])
             <=> (\E j \in DOMAIN def[p[1]].stmts : def[p[1]].stmts[j] = p[2])
  <2>1. p[1] \in 1..n
    OBVIOUS
  <2>2. new[p[1]].stmts = def[p[1]].stmts
    BY <2>1
  <2> QED
    BY <2>2
<1> QED
  BY <1>1 DEF PendingOf

\* A body that is just opened has deferred nothing.
LEMMA NoPendingAtTop ==
    ASSUME NEW def, NEW n \in Nat \ {0}, def[n].stmts = <<>>
    PROVE  PendingOf(def, n) = PendingOf(def, n - 1)
<1>1. ASSUME NEW p \in PendingOf(def, n) PROVE p \in PendingOf(def, n - 1)
  <2>1. p \in (1..n) \X Defers /\ DOMAIN def[p[1]].stmts # {}
    BY DEF PendingOf
  <2>2. DOMAIN def[n].stmts = {}
    OBVIOUS
  <2>3. p[1] # n
    BY <2>1, <2>2
  <2>4. p \in (1..(n - 1)) \X Defers
    BY <2>1, <2>3
  <2> QED
    BY <2>4 DEF PendingOf
<1>2. ASSUME NEW p \in PendingOf(def, n - 1) PROVE p \in PendingOf(def, n)
  <2>1. p \in (1..n) \X Defers
    BY DEF PendingOf
  <2> QED
    BY <2>1 DEF PendingOf
<1> QED
  BY <1>1, <1>2

\* The open bodies after one more is opened.
LEMMA PendingPush ==
    ASSUME NEW def \in Seq(DeferredStackElement), NEW e \in DeferredStackElement,
           e.stmts = <<>>
    PROVE  /\ \A n \in 0..Len(def) :
                  PendingOf(Append(def, e), n) = PendingOf(def, n)
           /\ PendingOf(Append(def, e), Len(def) + 1) = PendingOf(def, Len(def))
<1> DEFINE new == Append(def, e)
<1>1. /\ Len(def) \in Nat
      /\ new[Len(def) + 1] = e
      /\ \A i \in 1..Len(def) : new[i] = def[i]
  BY PushLemma
<1> HIDE DEF new
<1>2. \A n \in 0..Len(def) : PendingOf(new, n) = PendingOf(def, n)
  <2> TAKE n \in 0..Len(def)
  <2>1. \A i \in 1..n : new[i].stmts = def[i].stmts
    BY <1>1
  <2> QED
    BY <2>1, SamePending
<1>3. PendingOf(new, Len(def) + 1) = PendingOf(new, Len(def) + 1 - 1)
  BY <1>1, NoPendingAtTop
<1>4. Len(def) + 1 - 1 = Len(def) /\ Len(def) \in 0..Len(def)
  BY <1>1
<1> QED
  BY <1>2, <1>3, <1>4 DEF new

\* The open bodies after the innermost one is closed.
LEMMA PendingPop ==
    ASSUME NEW def \in Seq(DeferredStackElement), def # <<>>
    PROVE  \A n \in 0..(Len(def) - 1) :
               PendingOf(Pop(def), n) = PendingOf(def, n)
<1>1. /\ Len(def) \in Nat \ {0}
      /\ \A i \in 1..(Len(def) - 1) : Pop(def)[i] = def[i]
  BY PopLemma
<1> TAKE n \in 0..(Len(def) - 1)
<1>2. \A i \in 1..n : Pop(def)[i].stmts = def[i].stmts
  BY <1>1
<1> QED
  BY <1>2, SamePending

\* The calls of the innermost body after one more is deferred in it.
AddsDefer(def, new, n, d) ==
    /\ \A i \in 1..(n - 1) : new[i].stmts = def[i].stmts
    /\ def[n].stmts \in Seq(Defers)
    /\ new[n].stmts = Append(def[n].stmts, d)

LEMMA PendingDefer ==
    ASSUME NEW def, NEW new, NEW n \in Nat \ {0}, NEW d \in Defers,
           AddsDefer(def, new, n, d)
    PROVE  PendingOf(new, n) = PendingOf(def, n) \cup {<<n, d>>}
<1> DEFINE old == def[n].stmts
           more == new[n].stmts
<1>1. /\ Len(old) \in Nat
      /\ DOMAIN old = 1..Len(old)
      /\ DOMAIN more = 1..(Len(old) + 1)
      /\ more[Len(old) + 1] = d
      /\ \A j \in 1..Len(old) : more[j] = old[j]
  BY DEF AddsDefer
<1>2. \A i \in 1..n : i = n \/ i \in 1..(n - 1)
  OBVIOUS
<1>3. ASSUME NEW p \in PendingOf(new, n)
      PROVE  p \in PendingOf(def, n) \cup {<<n, d>>}
  <2>1. /\ p \in (1..n) \X Defers
        /\ \E j \in DOMAIN new[p[1]].stmts : new[p[1]].stmts[j] = p[2]
    BY DEF PendingOf
  <2>2. CASE p[1] = n
    <3>1. PICK j \in DOMAIN more : more[j] = p[2]
      BY <2>1, <2>2
    <3>2. p = <<n, p[2]>>
      BY <2>1, <2>2
    <3> HIDE DEF old, more
    <3>3. j = Len(old) + 1 \/ (j \in DOMAIN old /\ old[j] = p[2])
      <4>1. j \in 1..(Len(old) + 1)
        BY <1>1
      <4>2. j = Len(old) + 1 \/ j \in 1..Len(old)
        BY <1>1, <4>1
      <4> QED
        BY <1>1, <3>1, <4>2
    <3>4. CASE j = Len(old) + 1
      BY <1>1, <3>1, <3>2, <3>4
    <3>5. CASE j \in DOMAIN old /\ old[j] = p[2]
      BY <2>1, <2>2, <3>5 DEF PendingOf, old
    <3> QED
      BY <3>3, <3>4, <3>5
  <2>3. CASE p[1] \in 1..(n - 1)
    <3>1. new[p[1]].stmts = def[p[1]].stmts
      BY <2>3 DEF AddsDefer
    <3> QED
      BY <2>1, <3>1 DEF PendingOf
  <2> QED
    BY <1>2, <2>1, <2>2, <2>3
<1>4. ASSUME NEW p \in PendingOf(def, n) PROVE p \in PendingOf(new, n)
  <2>1. /\ p \in (1..n) \X Defers
        /\ \E j \in DOMAIN def[p[1]].stmts : def[p[1]].stmts[j] = p[2]
    BY DEF PendingOf
  <2>2. CASE p[1] = n
    <3>1. PICK j \in DOMAIN old : old[j] = p[2]
      BY <2>1, <2>2
    <3>2. j \in DOMAIN more /\ more[j] = p[2]
      BY <1>1, <3>1
    <3> QED
      BY <2>1, <2>2, <3>2 DEF PendingOf
  <2>3. CASE p[1] \in 1..(n - 1)
    <3>1. new[p[1]].stmts = def[p[1]].stmts
      BY <2>3 DEF AddsDefer
    <3> QED
      BY <2>1, <3>1 DEF PendingOf
  <2> QED
    BY <1>2, <2>1, <2>2, <2>3
<1>5. <<n, d>> \in PendingOf(new, n)
  <2>1. Len(old) + 1 \in DOMAIN more /\ more[Len(old) + 1] = d
    BY <1>1
  <2>2. <<n, d>> \in (1..n) \X Defers
    OBVIOUS
  <2> HIDE DEF old
  <2> QED
    BY <2>1, <2>2 DEF PendingOf
<1> QED
  BY <1>3, <1>4, <1>5

-----------------------------------------------------------------------------
(* The code of a block *)

\* What the builder does to the code of a block.
LEMMA EmitAppends ==
    ASSUME NEW bs \in [Blocks -> Block], NEW b \in Blocks, NEW ev
    PROVE  Emit(bs, b, ev)[b].code = Append(bs[b].code, ev)
<1> DEFINE with == [bs[b] EXCEPT !.code = Append(@, ev)]
<1>1. bs[b] \in Block
  OBVIOUS
<1>2. with.code = Append(bs[b].code, ev)
  BY <1>1 DEF Block
<1>3. Emit(bs, b, ev) = [bs EXCEPT ![b] = with]
  BY DEF Emit
<1> HIDE DEF with
<1> QED
  BY <1>2, <1>3

LEMMA TerminatorKeepsCode ==
    ASSUME NEW bs \in [Blocks -> Block], NEW b \in Blocks, NEW to
    PROVE  /\ Br(bs, b, to)[b].code = bs[b].code
           /\ RetFrom(bs, b)[b].code = bs[b].code
<1>1. bs[b] \in Block
  OBVIOUS
<1>2. Br(bs, b, to)[b].code = bs[b].code
  <2> DEFINE with == [bs[b] EXCEPT !.term = "br", !.succ = to]
  <2>1. with.code = bs[b].code
    BY <1>1 DEF Block
  <2>2. Br(bs, b, to) = [bs EXCEPT ![b] = with]
    BY <1>1 DEF Br, Block
  <2> HIDE DEF with
  <2> QED
    BY <2>1, <2>2
<1>3. RetFrom(bs, b)[b].code = bs[b].code
  <2> DEFINE with == [bs[b] EXCEPT !.term = "ret"]
  <2>1. with.code = bs[b].code
    BY <1>1 DEF Block
  <2>2. RetFrom(bs, b) = [bs EXCEPT ![b] = with]
    BY <1>1 DEF RetFrom, Block
  <2> HIDE DEF with
  <2> QED
    BY <2>1, <2>2
<1> QED
  BY <1>2, <1>3

-----------------------------------------------------------------------------
(* The invariant *)

\* Only the current block is both open and in use, branches stay in the
\* function, and the calls of a body are in the order of their statements.
FlowShape ==
    /\ \A b \in Blocks : blocks[b].term = "none" =>
           blocks[b].succ = {} /\ (b # insert => blocks[b].code = <<>>)
    /\ \A b \in Blocks : blocks[b].succ \subseteq 1..nblocks
    /\ OrderedDefers(deferred)
    /\ \A i \in DOMAIN deferred : \A j \in DOMAIN deferred[i].stmts :
           deferred[i].stmts[j] <= stmts

\* P gives the calls that are pending at the head of each block: every branch
\* arrives with those of its target, and nothing is pending at a return.
Edges(P) ==
    /\ P[1] = {}
    /\ \A b \in Blocks :
           /\ \A s \in blocks[b].succ : P[s] = AtExit(b, P[b])
           /\ blocks[b].term = "ret" => AtExit(b, P[b]) = {}

\* Where code is inserted, the calls of all open bodies are pending.
Here(P) ==
    frames # <<>> /\ ~curr_block_has_terminator =>
        AtExit(insert, P[insert]) = PendingOf(deferred, Len(deferred))

\* Where an activation continues, the calls of the bodies around it are.
Waits(P) ==
    \A i \in DOMAIN frames :
        \A b \in {frames[i].merge, frames[i].other} \ {NoBlock} :
            P[b] = PendingOf(deferred, i - 1)

FlowInv ==
    /\ FlowShape
    /\ \E P \in [Blocks -> Pendings] : Edges(P) /\ Here(P) /\ Waits(P)

\* The current block is left as base asks: behind its terminator nothing
\* happens, otherwise the calls of the bodies from base on are run.
LeavesBlock(P, base) ==
    \/ curr_block_has_terminator /\ blocks' = blocks
    \/ /\ ~curr_block_has_terminator
       /\ base \in 1..Len(deferred)
       /\ \A c \in Blocks \ {insert} : blocks'[c] = blocks[c]
       /\ blocks'[insert].code = Append(blocks[insert].code,
              [op |-> "run", scopes |-> FromBackTo(base)])
       /\ blocks'[insert].term # "none"
       /\ blocks'[insert].term = "ret" => base = 1
       /\ \A s \in blocks'[insert].succ :
              s \in 1..nblocks /\ P[s] = PendingOf(deferred, base - 1)

\* What an exit emits runs the calls of the bodies it leaves.
LEMMA RunExit ==
    ASSUME ContextInv, FlowShape, NEW base \in 1..Len(deferred),
           NEW code \in Seq(Event), NEW pending \in Pendings,
           RunCode(pending, code) = PendingOf(deferred, Len(deferred))
    PROVE  RunCode(pending, Append(code,
                       [op |-> "run", scopes |-> FromBackTo(base)]))
               = PendingOf(deferred, base - 1)
<1> DEFINE ev == [op |-> "run", scopes |-> FromBackTo(base)]
           all == PendingOf(deferred, Len(deferred))
<1>1. /\ deferred \in Seq(DeferredStackElement)
      /\ Len(deferred) \in Nat
      /\ base \in 1..(Len(deferred) + 1)
  BY DEF ContextInv, TypeOK
<1>2. ev \in Event
  BY <1>1, UnpackType DEF ContextInv
<1>3. ev.op = "run" /\ ev.scopes = FromBackTo(base)
  OBVIOUS
<1>4. all # Stuck
  BY <1>1, PendingType
<1> HIDE DEF ev, all
<1>5. RunEvent(all, ev) = Through(RunScope, all, FromBackTo(base))
  BY <1>3, <1>4 DEF RunEvent
<1>6. Through(RunScope, all, FromBackTo(base)) = PendingOf(deferred, base - 1)
  BY <1>1, ExitLeaves DEF FlowShape, all
<1>7. RunCode(pending, Append(code, ev)) = RunEvent(RunCode(pending, code), ev)
  BY <1>2, RunAppend
<1> QED
  BY <1>5, <1>6, <1>7 DEF ev, all

\* What is in a block.
LEMMA BlockParts ==
    ASSUME ContextInv, NEW b \in Blocks
    PROVE  /\ blocks[b].code \in Seq(Event)
           /\ blocks[b].succ \in SUBSET Blocks
           /\ 1 \in Blocks
<1>1. blocks[b] \in Block
  BY DEF ContextInv, TypeOK
<1> QED
  BY <1>1, SourceAssumption DEF Block, Blocks

LEMMA LeaveFlow ==
    ASSUME ContextInv, FlowShape, frames # <<>>, UNCHANGED nblocks,
           NEW P \in [Blocks -> Pendings], Edges(P), Here(P), NEW base,
           LeavesBlock(P, base)
    PROVE  /\ Edges(P)'
           /\ blocks'[insert].term # "none"
           /\ \A b \in Blocks : blocks'[b].term = "none" =>
                  blocks'[b].succ = {} /\ blocks'[b].code = <<>>
           /\ \A b \in Blocks : blocks'[b].succ \subseteq 1..nblocks'
<1>i. insert \in Blocks
  BY InBody
<1>1. CASE curr_block_has_terminator /\ blocks' = blocks
  <2>1. Edges(P)'
    BY <1>1 DEF Edges, AtExit
  <2>2. blocks[insert].term # "none"
    BY <1>1 DEF curr_block_has_terminator
  <2> QED
    BY <1>1, <2>1, <2>2 DEF FlowShape
<1>2. CASE ~curr_block_has_terminator /\ LeavesBlock(P, base)
  <2>1. /\ base \in 1..Len(deferred)
        /\ \A c \in Blocks \ {insert} : blocks'[c] = blocks[c]
        /\ blocks'[insert].code = Append(blocks[insert].code,
               [op |-> "run", scopes |-> FromBackTo(base)])
        /\ blocks'[insert].term # "none"
        /\ blocks'[insert].term = "ret" => base = 1
        /\ \A s \in blocks'[insert].succ :
               s \in 1..nblocks /\ P[s] = PendingOf(deferred, base - 1)
    BY <1>2 DEF LeavesBlock
  <2>2. RunCode(P[insert], blocks[insert].code)
            = PendingOf(deferred, Len(deferred))
    BY <1>2 DEF Here, AtExit
  <2>3. blocks[insert].code \in Seq(Event) /\ P[insert] \in Pendings
    BY <1>i, BlockParts
  <2>4. RunCode(P[insert], blocks'[insert].code) = PendingOf(deferred, base - 1)
    BY <2>1, <2>2, <2>3, RunExit
  <2>5. PendingOf(deferred, 0) = {}
    BY PendingType
  <2>6. ASSUME NEW b \in Blocks
        PROVE  /\ \A s \in blocks'[b].succ : P[s] = RunCode(P[b], blocks'[b].code)
               /\ blocks'[b].term = "ret" => RunCode(P[b], blocks'[b].code) = {}
    <3>1. CASE b = insert
      <4>1. blocks'[insert].term = "ret" => base - 1 = 0
        BY <2>1
      <4>2. blocks'[insert].term = "ret" =>
                RunCode(P[insert], blocks'[insert].code) = {}
        BY <2>4, <2>5, <4>1
      <4> QED
        BY <2>1, <2>4, <3>1, <4>2
    <3>2. CASE b # insert
      <4>1. blocks'[b] = blocks[b]
        BY <2>1, <3>2
      <4> QED
        BY <4>1 DEF Edges, AtExit
    <3> QED
      BY <3>1, <3>2
  <2>7. Edges(P)'
    BY <2>6 DEF Edges, AtExit
  <2>8. ASSUME NEW b \in Blocks, blocks'[b].term = "none"
        PROVE  blocks'[b].succ = {} /\ blocks'[b].code = <<>>
    <3>1. b # insert
      BY <2>1, <2>8
    <3>2. blocks'[b] = blocks[b]
      BY <2>1, <3>1
    <3> QED
      BY <2>8, <3>1, <3>2 DEF FlowShape
  <2>9. ASSUME NEW b \in Blocks PROVE blocks'[b].succ \subseteq 1..nblocks'
    <3>1. CASE b = insert
      BY <2>1, <3>1
    <3>2. CASE b # insert
      BY <2>1, <3>2 DEF FlowShape
    <3> QED
      BY <3>1, <3>2
  <2> QED
    BY <2>1, <2>7, <2>8, <2>9
<1> QED
  BY <1>1, <1>2 DEF LeavesBlock

\* A step that neither opens nor closes a body and leaves the defer stack alone.
LEMMA ExitFlow ==
    ASSUME ContextInv, FlowShape, frames # <<>>,
           UNCHANGED <<frames, deferred, nblocks, insert>>,
           stmts <= stmts', stmts' \in Nat,
           NEW P \in [Blocks -> Pendings], Edges(P), Here(P), Waits(P),
           NEW base, LeavesBlock(P, base)
    PROVE  FlowInv'
<1>1. /\ Edges(P)'
      /\ blocks'[insert].term # "none"
      /\ \A b \in Blocks : blocks'[b].term = "none" =>
             blocks'[b].succ = {} /\ blocks'[b].code = <<>>
      /\ \A b \in Blocks : blocks'[b].succ \subseteq 1..nblocks'
  BY LeaveFlow
<1>2. Here(P)'
  BY <1>1 DEF Here, curr_block_has_terminator
<1>3. Waits(P)'
  BY DEF Waits
<1>4. \A i \in DOMAIN deferred' : \A j \in DOMAIN deferred'[i].stmts :
          deferred'[i].stmts[j] <= stmts'
  <2> SUFFICES ASSUME NEW i \in DOMAIN deferred,
                      NEW j \in DOMAIN deferred[i].stmts
               PROVE  deferred[i].stmts[j] <= stmts'
    OBVIOUS
  <2>1. deferred[i].stmts[j] <= stmts /\ stmts \in Nat
    BY DEF FlowShape, ContextInv, TypeOK
  <2>2. deferred[i].stmts[j] \in Nat
    <3>1. deferred[i] \in DeferredStackElement
      BY DEF ContextInv, TypeOK
    <3>2. deferred[i].stmts[j] \in Defers
      BY <3>1 DEF DeferredStackElement
    <3> QED
      BY <3>2 DEF Defers
  <2> QED
    BY <2>1, <2>2
<1>5. FlowShape'
  BY <1>1, <1>4 DEF FlowShape, OrderedDefers
<1> QED
  BY <1>1, <1>2, <1>3, <1>5 DEF FlowInv

\* The calls of the bodies that remain, when the innermost one is closed.
LEMMA ClosedStack ==
    ASSUME ContextInv, FlowShape, frames # <<>>, UNCHANGED stmts,
           \/ deferred' = pop_defers
           \/ deferred' = Append(pop_defers,
                             [stmts |-> <<>>, is_loop_base |-> FALSE])
    PROVE  /\ \A n \in 0..(Len(deferred) - 1) :
                  PendingOf(deferred', n) = PendingOf(deferred, n)
           /\ PendingOf(deferred', Len(deferred'))
                  = PendingOf(deferred, Len(deferred) - 1)
           /\ OrderedDefers(deferred')
           /\ \A i \in DOMAIN deferred' : \A j \in DOMAIN deferred'[i].stmts :
                  deferred'[i].stmts[j] <= stmts'
<1> DEFINE n == Len(deferred)
           e == [stmts |-> <<>>, is_loop_base |-> FALSE]
<1>1. deferred \in Seq(DeferredStackElement) /\ deferred # <<>>
  BY InBody DEF ContextInv, TypeOK
<1>2. /\ n \in Nat \ {0}
      /\ pop_defers \in Seq(DeferredStackElement)
      /\ Len(pop_defers) = n - 1
      /\ \A i \in 1..(n - 1) : pop_defers[i] = deferred[i]
      /\ \A m \in 0..(n - 1) : PendingOf(pop_defers, m) = PendingOf(deferred, m)
  BY <1>1, PopLemma, PendingPop DEF pop_defers
<1>3. e \in DeferredStackElement /\ e.stmts = <<>>
  BY DEF DeferredStackElement
<1> HIDE DEF n, e
<1>4. CASE deferred' = pop_defers
  <2>1. \A m \in 0..(n - 1) : PendingOf(deferred', m) = PendingOf(deferred, m)
    BY <1>2, <1>4
  <2>2. Len(deferred') = n - 1 /\ n - 1 \in 0..(n - 1)
    BY <1>2, <1>4
  <2>3. /\ DOMAIN deferred' = 1..(n - 1)
        /\ \A i \in DOMAIN deferred' :
               deferred'[i] = deferred[i] /\ i \in DOMAIN deferred
    BY <1>1, <1>2, <1>4 DEF n
  <2>4. OrderedDefers(deferred')
    BY <2>3 DEF FlowShape, OrderedDefers
  <2>5. \A i \in DOMAIN deferred' : \A j \in DOMAIN deferred'[i].stmts :
            deferred'[i].stmts[j] <= stmts'
    BY <2>3 DEF FlowShape
  <2> QED
    BY <2>1, <2>2, <2>4, <2>5 DEF n
<1>5. CASE deferred' = Append(pop_defers, e)
  <2>1. /\ \A m \in 0..(n - 1) : PendingOf(deferred', m) = PendingOf(deferred, m)
        /\ PendingOf(deferred', n) = PendingOf(deferred, n - 1)
    <3>1. /\ \A m \in 0..(n - 1) :
                 PendingOf(Append(pop_defers, e), m) = PendingOf(pop_defers, m)
          /\ PendingOf(Append(pop_defers, e), n - 1 + 1)
                 = PendingOf(pop_defers, n - 1)
      BY <1>2, <1>3, PendingPush
    <3>2. n - 1 + 1 = n /\ n - 1 \in 0..(n - 1)
      BY <1>2
    <3> QED
      BY <1>2, <1>5, <3>1, <3>2
  <2>2. /\ Len(deferred') = n
        /\ DOMAIN deferred' = 1..n
        /\ deferred'[n] = e
        /\ \A i \in 1..(n - 1) : deferred'[i] = deferred[i]
    <3>1. /\ Len(Append(pop_defers, e)) = n - 1 + 1
          /\ Append(pop_defers, e) \in Seq(DeferredStackElement)
          /\ Append(pop_defers, e)[n - 1 + 1] = e
          /\ \A i \in 1..(n - 1) : Append(pop_defers, e)[i] = pop_defers[i]
      BY <1>2, <1>3, PushLemma
    <3>2. n - 1 + 1 = n
      BY <1>2
    <3> QED
      BY <1>2, <1>5, <3>1, <3>2
  <2>3. \A i \in DOMAIN deferred' :
            \/ deferred'[i].stmts = <<>>
            \/ deferred'[i] = deferred[i] /\ i \in DOMAIN deferred
    <3>1. DOMAIN deferred = 1..n
      BY <1>1 DEF n
    <3>2. \A i \in 1..n : i = n \/ i \in 1..(n - 1)
      BY <1>2
    <3> QED
      BY <1>3, <2>2, <3>1, <3>2
  <2>4. OrderedDefers(deferred')
    <3> SUFFICES ASSUME NEW i \in DOMAIN deferred'
                 PROVE  InOrder(deferred'[i].stmts)
      BY DEF OrderedDefers
    <3>1. CASE deferred'[i].stmts = <<>>
      BY <3>1 DEF InOrder
    <3>2. CASE deferred'[i] = deferred[i] /\ i \in DOMAIN deferred
      BY <3>2 DEF FlowShape, OrderedDefers
    <3> QED
      BY <2>3, <3>1, <3>2
  <2>5. ASSUME NEW i \in DOMAIN deferred', NEW j \in DOMAIN deferred'[i].stmts
        PROVE  deferred'[i].stmts[j] <= stmts'
    <3>1. deferred'[i].stmts # <<>>
      OBVIOUS
    <3> QED
      BY <2>3, <2>5, <3>1 DEF FlowShape
  <2> QED
    BY <2>1, <2>2, <2>4, <2>5 DEF n
<1> QED
  BY <1>4, <1>5 DEF e

\* The end of a body: generation goes on in a block that waits for it.
LEMMA CloseFlow ==
    ASSUME ContextInv, FlowShape, frames # <<>>, UNCHANGED <<stmts, nblocks>>,
           NEW P \in [Blocks -> Pendings], Edges(P), Here(P), Waits(P),
           LeavesBlock(P, Len(deferred)),
           \/ deferred' = pop_defers
           \/ deferred' = Append(pop_defers,
                             [stmts |-> <<>>, is_loop_base |-> FALSE]),
           insert' \in {Top(frames).merge, Top(frames).other} \ {NoBlock},
           insert' \in Blocks,
           \A i \in DOMAIN frames' :
               /\ i \in DOMAIN frames
               /\ frames'[i].merge = frames[i].merge
               /\ frames'[i].other = frames[i].other
    PROVE  FlowInv'
<1>1. /\ Edges(P)'
      /\ \A b \in Blocks : blocks'[b].term = "none" =>
             blocks'[b].succ = {} /\ blocks'[b].code = <<>>
      /\ \A b \in Blocks : blocks'[b].succ \subseteq 1..nblocks'
  BY LeaveFlow
<1>2. /\ \A n \in 0..(Len(deferred) - 1) :
             PendingOf(deferred', n) = PendingOf(deferred, n)
      /\ PendingOf(deferred', Len(deferred'))
             = PendingOf(deferred, Len(deferred) - 1)
      /\ OrderedDefers(deferred')
      /\ \A i \in DOMAIN deferred' : \A j \in DOMAIN deferred'[i].stmts :
             deferred'[i].stmts[j] <= stmts'
  BY ClosedStack
<1>3. /\ Len(frames) \in Nat \ {0}
      /\ DOMAIN frames = 1..Len(frames)
      /\ Len(deferred) = Len(frames)
      /\ Top(frames) = frames[Len(frames)]
  BY InBody DEF ContextInv, TypeOK
<1>4. Here(P)'
  <2> SUFFICES ASSUME blocks'[insert'].term = "none"
               PROVE  RunCode(P[insert'], blocks'[insert'].code)
                          = PendingOf(deferred', Len(deferred'))
    BY DEF Here, curr_block_has_terminator, AtExit
  <2>1. blocks'[insert'].code = <<>>
    BY <1>1
  <2>2. P[insert'] = PendingOf(deferred, Len(frames) - 1)
    BY <1>3 DEF Waits
  <2>3. P[insert'] \in Pendings
    OBVIOUS
  <2>4. RunCode(P[insert'], <<>>) = P[insert']
    BY <2>3, RunNothing
  <2> QED
    BY <1>2, <1>3, <2>1, <2>2, <2>4
<1>5. Waits(P)'
  <2> SUFFICES ASSUME NEW i \in DOMAIN frames',
                      NEW b \in {frames'[i].merge, frames'[i].other} \ {NoBlock}
               PROVE  P[b] = PendingOf(deferred', i - 1)
    BY DEF Waits
  <2>1. /\ i \in 1..Len(frames)
        /\ b \in {frames[i].merge, frames[i].other} \ {NoBlock}
    BY <1>3
  <2>2. P[b] = PendingOf(deferred, i - 1)
    BY <1>3, <2>1 DEF Waits
  <2>3. i - 1 \in 0..(Len(deferred) - 1)
    BY <1>3, <2>1
  <2> QED
    BY <1>2, <2>2, <2>3
<1>6. FlowShape'
  BY <1>1, <1>2 DEF FlowShape
<1> QED
  BY <1>1, <1>4, <1>5, <1>6 DEF FlowInv

-----------------------------------------------------------------------------
(* Opening a body *)

\* bs is blocks after some branches, to new blocks only, from the current
\* block and from new ones.
BranchOut(bs, n) ==
    /\ bs \in [Blocks -> Block]
    /\ \A b \in Blocks :
           /\ bs[b].code = blocks[b].code
           /\ b # insert /\ b <= nblocks => bs[b] = blocks[b]
           /\ b = insert \/ b > nblocks =>
                  /\ bs[b].term # "ret"
                  /\ bs[b].term = "none" => bs[b].succ = {}
                  /\ bs[b].succ \subseteq (nblocks + 1)..n

LEMMA NoBranchYet ==
    ASSUME ContextInv, BlocksInv, FlowShape, ~curr_block_has_terminator,
           frames # <<>>, NEW n
    PROVE  BranchOut(blocks, n)
<1>1. insert \in Blocks /\ blocks \in [Blocks -> Block]
  BY InBody DEF ContextInv, TypeOK
<1>2. blocks[insert].term = "none" /\ blocks[insert].succ = {}
  BY <1>1 DEF curr_block_has_terminator, FlowShape
<1>3. \A b \in Blocks : b > nblocks =>
          blocks[b].term = "none" /\ blocks[b].succ = {}
  BY DEF BlocksInv, OpenBlock
<1> QED
  BY <1>1, <1>2, <1>3 DEF BranchOut

LEMMA BrOut ==
    ASSUME nblocks \in Nat, NEW bs, NEW n, BranchOut(bs, n), NEW b \in Blocks,
           b = insert \/ b > nblocks,
           NEW to \in SUBSET Blocks, to \subseteq (nblocks + 1)..n
    PROVE  /\ BranchOut(Br(bs, b, to), n)
           /\ insert \in Blocks /\ (b = insert \/ bs[insert].term = "br") =>
                  Br(bs, b, to)[insert].term = "br"
<1> DEFINE new == Br(bs, b, to)
<1>1. bs \in [Blocks -> Block]
  BY DEF BranchOut
<1>2. /\ new \in [Blocks -> Block]
      /\ new[b].term = "br"
      /\ new[b].succ = to
      /\ \A c \in Blocks \ {b} : new[c] = bs[c]
  BY <1>1, BrLemma
<1>3. new[b].code = bs[b].code
  BY <1>1, TerminatorKeepsCode
<1> HIDE DEF new
<1>4. ASSUME NEW c \in Blocks
      PROVE  /\ new[c].code = blocks[c].code
             /\ c # insert /\ c <= nblocks => new[c] = blocks[c]
             /\ c = insert \/ c > nblocks =>
                    /\ new[c].term # "ret"
                    /\ new[c].term = "none" => new[c].succ = {}
                    /\ new[c].succ \subseteq (nblocks + 1)..n
  <2>1. CASE c = b
    <3>1. ~(c # insert /\ c <= nblocks)
      <4>1. c # insert => c > nblocks
        BY <2>1
      <4>2. c \in Int
        BY DEF Blocks
      <4> QED
        BY <4>1, <4>2
    <3> QED
      BY <1>2, <1>3, <2>1, <3>1 DEF BranchOut
  <2>2. CASE c # b
    <3>1. new[c] = bs[c]
      BY <1>2, <2>2
    <3> QED
      BY <3>1 DEF BranchOut
  <2> QED
    BY <2>1, <2>2
<1>5. BranchOut(new, n)
  BY <1>2, <1>4 DEF BranchOut
<1>6. (b = insert \/ bs[insert].term = "br") /\ insert \in Blocks =>
          new[insert].term = "br"
  BY <1>2
<1> QED
  BY <1>5, <1>6 DEF new

\* The types of the stacks inside a body.
LEMMA BodyTypes ==
    ASSUME ContextInv, frames # <<>>
    PROVE  /\ Len(frames) \in Nat \ {0}
           /\ Len(deferred) = Len(frames)
           /\ deferred \in Seq(DeferredStackElement)
           /\ deferred # <<>>
           /\ frames \in Seq(Frame)
           /\ blocks \in [Blocks -> Block]
           /\ stmts \in Nat
<1>1. /\ deferred \in Seq(DeferredStackElement)
      /\ frames \in Seq(Frame)
      /\ blocks \in [Blocks -> Block]
      /\ stmts \in 0..MaxStmts
  BY DEF ContextInv, TypeOK
<1>2. stmts \in Nat
  BY <1>1, SourceAssumption
<1> QED
  BY <1>1, <1>2, InBody

LEMMA PushFlow ==
    ASSUME ContextInv, BlocksInv, FlowInv, NextChild,
           ~curr_block_has_terminator, stmts' = stmts + 1,
           NEW f \in Frame, frames' = Append(frames, f),
           NEW e \in DeferredStackElement, e.stmts = <<>>,
           deferred' = Append(deferred, e),
           nblocks' \in (nblocks + 1)..(nblocks + 4),
           insert' \in (nblocks + 1)..nblocks',
           f.merge \in (nblocks + 1)..nblocks',
           f.other \in {NoBlock} \cup (nblocks + 1)..nblocks',
           BranchOut(blocks', nblocks'), blocks'[insert].term = "br"
    PROVE  FlowInv'
<1> DEFINE all == PendingOf(deferred, Len(deferred))
<1>1. /\ nblocks \in Nat \ {0}
      /\ insert \in 1..nblocks
      /\ insert \in Blocks
      /\ \A k \in 1..4 : nblocks + k \in Blocks
      /\ frames # <<>>
      /\ \A b \in Blocks : b \in Int
  BY NewBlocks
<1>2. /\ Len(frames) \in Nat \ {0}
      /\ Len(deferred) = Len(frames)
      /\ deferred \in Seq(DeferredStackElement)
      /\ frames \in Seq(Frame)
      /\ stmts \in Nat
  BY <1>1, BodyTypes
<1>n. \A b \in (nblocks + 1)..nblocks' : b \in Blocks /\ b > nblocks /\ b # insert
  <2> SUFFICES ASSUME NEW b \in (nblocks + 1)..nblocks'
               PROVE  b \in Blocks /\ b > nblocks /\ b # insert
    OBVIOUS
  <2>1. PICK k \in 1..4 : b = nblocks + k
    <3>1. b - nblocks \in 1..4 /\ b = nblocks + (b - nblocks)
      BY <1>1
    <3> QED
      BY <3>1
  <2>2. b \in Blocks
    BY <1>1, <2>1
  <2>3. b > nblocks /\ b # insert
    BY <1>1, <2>1
  <2> QED
    BY <2>2, <2>3
<1>3. PICK P \in [Blocks -> Pendings] : Edges(P) /\ Here(P) /\ Waits(P)
  BY DEF FlowInv
<1>4. all \in Pendings
  BY <1>2, PendingType
<1>5. /\ \A n \in 0..Len(deferred) :
             PendingOf(deferred', n) = PendingOf(deferred, n)
      /\ Len(deferred') = Len(deferred) + 1
      /\ PendingOf(deferred', Len(deferred')) = all
  <2>1. /\ \A n \in 0..Len(deferred) :
               PendingOf(Append(deferred, e), n) = PendingOf(deferred, n)
        /\ PendingOf(Append(deferred, e), Len(deferred) + 1)
               = PendingOf(deferred, Len(deferred))
    BY <1>2, PendingPush
  <2>2. Len(deferred') = Len(deferred) + 1
    BY <1>2
  <2> QED
    BY <2>1, <2>2
<1> HIDE DEF all
<1>6. PICK Q \in [Blocks -> Pendings] :
          /\ \A b \in Blocks : b <= nblocks => Q[b] = P[b]
          /\ \A b \in Blocks : b > nblocks => Q[b] = all
  <2> DEFINE R == [b \in Blocks |-> IF b <= nblocks THEN P[b] ELSE all]
  <2>1. R \in [Blocks -> Pendings]
    BY <1>4
  <2>2. \A b \in Blocks : b > nblocks => ~(b <= nblocks)
    BY <1>1
  <2> QED
    BY <2>1, <2>2
<1>7. /\ blocks' \in [Blocks -> Block]
      /\ \A b \in Blocks :
             /\ blocks'[b].code = blocks[b].code
             /\ b # insert /\ b <= nblocks => blocks'[b] = blocks[b]
             /\ b = insert \/ b > nblocks =>
                    /\ blocks'[b].term # "ret"
                    /\ blocks'[b].term = "none" => blocks'[b].succ = {}
                    /\ blocks'[b].succ \subseteq (nblocks + 1)..nblocks'
  BY DEF BranchOut
<1>8. \A b \in Blocks : b > nblocks => blocks'[b].code = <<>>
  BY <1>7 DEF BlocksInv, OpenBlock
<1>9. \A s \in (nblocks + 1)..nblocks' : Q[s] = all
  BY <1>6, <1>n
<1>10. ASSUME NEW b \in Blocks
       PROVE  /\ \A s \in blocks'[b].succ : Q[s] = RunCode(Q[b], blocks'[b].code)
              /\ blocks'[b].term = "ret" => RunCode(Q[b], blocks'[b].code) = {}
  <2>1. CASE b = insert
    <3>1. Q[b] = P[b]
      BY <1>1, <1>6, <2>1
    <3>2. RunCode(P[insert], blocks[insert].code) = all
      BY <1>1, <1>3 DEF Here, AtExit, all
    <3>3. RunCode(Q[b], blocks'[b].code) = all
      BY <1>7, <2>1, <3>1, <3>2
    <3>4. \A s \in blocks'[b].succ : Q[s] = all
      BY <1>7, <1>9, <2>1
    <3> QED
      BY <1>7, <2>1, <3>3, <3>4
  <2>2. CASE b # insert /\ b <= nblocks
    <3>1. blocks'[b] = blocks[b] /\ Q[b] = P[b]
      BY <1>6, <1>7, <2>2
    <3>2. \A s \in blocks[b].succ : s \in 1..nblocks /\ s \in Blocks
      BY BlockParts DEF FlowInv, FlowShape
    <3>3. \A s \in blocks[b].succ : Q[s] = P[s]
      <4> TAKE s \in blocks[b].succ
      <4>1. s \in Blocks /\ s \in 1..nblocks
        BY <3>2
      <4>2. s <= nblocks
        BY <1>1, <4>1
      <4> QED
        BY <1>6, <4>1, <4>2
    <3>4. /\ \A s \in blocks[b].succ : P[s] = RunCode(P[b], blocks[b].code)
          /\ blocks[b].term = "ret" => RunCode(P[b], blocks[b].code) = {}
      BY <1>3 DEF Edges, AtExit
    <3> QED
      BY <3>1, <3>3, <3>4
  <2>3. CASE b > nblocks
    <3>1. RunCode(Q[b], blocks'[b].code) = all
      <4>1. Q[b] = all /\ blocks'[b].code = <<>>
        BY <1>6, <1>8, <2>3
      <4> QED
        BY <1>4, <4>1, RunNothing
    <3>2. \A s \in blocks'[b].succ : Q[s] = all
      BY <1>7, <1>9, <2>3
    <3> QED
      BY <1>7, <2>3, <3>1, <3>2
  <2> QED
    BY <1>1, <2>1, <2>2, <2>3
<1>11. Edges(Q)'
  <2>1. Q[1] = {}
    <3>1. 1 \in Blocks /\ 1 <= nblocks
      BY <1>1, BlockParts
    <3> QED
      BY <1>3, <1>6, <3>1 DEF Edges
  <2> QED
    BY <1>10, <2>1 DEF Edges, AtExit
<1>12. Here(Q)'
  <2>1. Q[insert'] = all /\ blocks'[insert'].code = <<>>
    BY <1>8, <1>9, <1>n
  <2>2. RunCode(Q[insert'], blocks'[insert'].code) = all
    BY <1>4, <2>1, RunNothing
  <2> QED
    BY <1>5, <2>2 DEF Here, AtExit
<1>13. Waits(Q)'
  <2> SUFFICES ASSUME NEW i \in DOMAIN frames',
                      NEW b \in {frames'[i].merge, frames'[i].other} \ {NoBlock}
               PROVE  Q[b] = PendingOf(deferred', i - 1)
    BY DEF Waits
  <2>1. /\ DOMAIN frames = 1..Len(frames)
        /\ DOMAIN frames' = 1..(Len(frames) + 1)
        /\ frames'[Len(frames) + 1] = f
        /\ \A j \in 1..Len(frames) : frames'[j] = frames[j]
    BY <1>2, PushLemma
  <2>2. CASE i = Len(frames) + 1
    <3>1. b \in (nblocks + 1)..nblocks'
      BY <2>1, <2>2
    <3>2. i - 1 = Len(deferred) /\ Len(deferred) \in 0..Len(deferred)
      BY <1>2, <2>2
    <3> QED
      BY <1>5, <1>9, <3>1, <3>2 DEF all
  <2>3. CASE i \in 1..Len(frames)
    <3>1. b \in {frames[i].merge, frames[i].other} \ {NoBlock}
      BY <2>1, <2>3
    <3>2. P[b] = PendingOf(deferred, i - 1)
      BY <1>3, <2>1, <2>3, <3>1 DEF Waits
    <3>3. b \in Blocks /\ b <= nblocks
      <4>1. FrameOK(frames[i], nblocks) /\ frames[i] \in Frame
        BY <1>2, <2>1, <2>3 DEF ContextInv, FrameBlocks
      <4>2. b \in Blocks
        BY <3>1, <4>1 DEF Frame
      <4>3. b \in 2..nblocks
        BY <3>1, <4>1 DEF FrameOK
      <4> QED
        BY <1>1, <4>2, <4>3
    <3>4. i - 1 \in 0..Len(deferred)
      BY <1>2, <2>3
    <3> QED
      BY <1>5, <1>6, <3>2, <3>3, <3>4
  <2> QED
    BY <1>2, <2>1, <2>2, <2>3
<1>14. FlowShape'
  <2>1. ASSUME NEW b \in Blocks
        PROVE  /\ blocks'[b].term = "none" =>
                      /\ blocks'[b].succ = {}
                      /\ b # insert' => blocks'[b].code = <<>>
               /\ blocks'[b].succ \subseteq 1..nblocks'
    <3>1. CASE b = insert
      <4>1. \A s \in (nblocks + 1)..nblocks' : s \in 1..nblocks'
        BY <1>1
      <4>2. blocks'[b].term = "br"
        BY <3>1
      <4>3. blocks'[b].succ \subseteq 1..nblocks'
        BY <1>7, <3>1, <4>1
      <4> QED
        BY <4>2, <4>3
    <3>2. CASE b # insert /\ b <= nblocks
      <4>1. blocks'[b] = blocks[b]
        BY <1>7, <3>2
      <4>2. blocks[b].succ \subseteq 1..nblocks
        BY DEF FlowInv, FlowShape
      <4>3. \A s \in 1..nblocks : s \in 1..nblocks'
        BY <1>1
      <4>4. blocks'[b].succ \subseteq 1..nblocks'
        BY <4>1, <4>2, <4>3
      <4> QED
        BY <3>2, <4>1, <4>4 DEF FlowInv, FlowShape
    <3>3. CASE b > nblocks
      <4>1. \A s \in (nblocks + 1)..nblocks' : s \in 1..nblocks'
        <5> TAKE s \in (nblocks + 1)..nblocks'
        <5>1. s \in Int /\ nblocks + 1 <= s /\ s <= nblocks' /\ nblocks \in Nat
          BY <1>1
        <5> QED
          BY <5>1
      <4> QED
        BY <1>7, <1>8, <3>3, <4>1
    <3> QED
      BY <1>1, <3>1, <3>2, <3>3
  <2>2. /\ DOMAIN deferred = 1..Len(deferred)
        /\ DOMAIN deferred' = 1..(Len(deferred) + 1)
        /\ deferred'[Len(deferred) + 1] = e
        /\ \A j \in 1..Len(deferred) : deferred'[j] = deferred[j]
    BY <1>2, PushLemma
  <2>3. \A i \in DOMAIN deferred' :
            \/ deferred'[i].stmts = <<>>
            \/ deferred'[i] = deferred[i] /\ i \in DOMAIN deferred
    BY <1>2, <2>2
  <2>4. OrderedDefers(deferred')
    <3> SUFFICES ASSUME NEW i \in DOMAIN deferred'
                 PROVE  InOrder(deferred'[i].stmts)
      BY DEF OrderedDefers
    <3>1. CASE deferred'[i].stmts = <<>>
      BY <3>1 DEF InOrder
    <3>2. CASE deferred'[i] = deferred[i] /\ i \in DOMAIN deferred
      BY <3>2 DEF FlowInv, FlowShape, OrderedDefers
    <3> QED
      BY <2>3, <3>1, <3>2
  <2>5. ASSUME NEW i \in DOMAIN deferred', NEW j \in DOMAIN deferred'[i].stmts
        PROVE  deferred'[i].stmts[j] <= stmts'
    <3>1. deferred'[i].stmts # <<>>
      OBVIOUS
    <3>2. i \in DOMAIN deferred /\ deferred'[i] = deferred[i]
      BY <2>3, <3>1
    <3>3. deferred[i].stmts[j] <= stmts
      BY <3>2 DEF FlowInv, FlowShape
    <3>4. deferred[i].stmts[j] \in Nat
      <4>1. deferred[i] \in DeferredStackElement
        BY <1>2, <3>2
      <4>2. deferred[i].stmts[j] \in Defers
        BY <3>2, <4>1 DEF DeferredStackElement
      <4> QED
        BY <4>2 DEF Defers
    <3> QED
      BY <1>2, <3>2, <3>3, <3>4
  <2> QED
    BY <2>1, <2>4, <2>5 DEF FlowShape
<1> QED
  BY <1>6, <1>11, <1>12, <1>13, <1>14 DEF FlowInv

-----------------------------------------------------------------------------
(* The steps *)

\* A step that leaves the function alone.
LEMMA SameFlow ==
    ASSUME ContextInv, FlowInv,
           UNCHANGED <<frames, deferred, blocks, nblocks, insert>>,
           stmts' \in {stmts, stmts + 1}
    PROVE  FlowInv'
<1>1. PICK P \in [Blocks -> Pendings] : Edges(P) /\ Here(P) /\ Waits(P)
  BY DEF FlowInv
<1>2. Edges(P)' /\ Here(P)' /\ Waits(P)'
  BY <1>1 DEF Edges, Here, Waits, AtExit, curr_block_has_terminator
<1>3. \A i \in DOMAIN deferred : \A j \in DOMAIN deferred[i].stmts :
          deferred[i].stmts[j] <= stmts'
  <2> SUFFICES ASSUME NEW i \in DOMAIN deferred,
                      NEW j \in DOMAIN deferred[i].stmts
               PROVE  deferred[i].stmts[j] <= stmts'
    OBVIOUS
  <2>1. deferred[i].stmts[j] <= stmts
    BY DEF FlowInv, FlowShape
  <2>2. deferred[i] \in DeferredStackElement /\ stmts \in Nat
    BY DEF ContextInv, TypeOK
  <2>3. deferred[i].stmts[j] \in Defers
    BY <2>2 DEF DeferredStackElement
  <2>4. deferred[i].stmts[j] \in Nat
    BY <2>3 DEF Defers
  <2> QED
    BY <2>1, <2>2, <2>4
<1>4. FlowShape'
  BY <1>3 DEF FlowInv, FlowShape, OrderedDefers
<1> QED
  BY <1>2, <1>4 DEF FlowInv

LEMMA AbortFlow ==
    ASSUME ContextInv, FlowInv, NEW why, Abort(why)
    PROVE  FlowInv'
  BY SameFlow DEF Abort

\* A deferred call is pending from the place of its statement on.
LEMMA DeferFlow ==
    ASSUME ContextInv, FlowInv, NEW size \in LiteralSizes, generate_defer(size)
    PROVE  FlowInv'
<1> DEFINE n  == Len(deferred)
           d  == stmts + 1
           e  == [Top(deferred) EXCEPT !.stmts = Append(@, d)]
           ev == [op |-> "reg", d |-> d, depth |-> Len(frames)]
<1>1. /\ NextChild
      /\ ~curr_block_has_terminator
      /\ stmts' = d
      /\ deferred' = SetTop(deferred, e)
      /\ blocks' = Emit(blocks, insert, ev)
      /\ UNCHANGED <<frames, nblocks, insert>>
  BY DEF generate_defer, generate
<1>2. /\ frames # <<>>
      /\ insert \in Blocks
      /\ blocks \in [Blocks -> Block]
      /\ n \in Nat \ {0}
      /\ Len(frames) = n
      /\ deferred \in Seq(DeferredStackElement)
      /\ deferred # <<>>
      /\ DOMAIN deferred = 1..n
      /\ Top(deferred) = deferred[n]
      /\ Top(deferred) \in DeferredStackElement
      /\ stmts \in Nat
      /\ stmts < MaxStmts
  <2>1. frames # <<>> /\ stmts < MaxStmts
    BY <1>1 DEF NextChild
  <2>2. insert \in Blocks
    BY <2>1, InBody
  <2>3. /\ n \in Nat \ {0}
        /\ Len(frames) = n
        /\ deferred \in Seq(DeferredStackElement)
        /\ deferred # <<>>
        /\ blocks \in [Blocks -> Block]
        /\ stmts \in Nat
    BY <2>1, BodyTypes
  <2>4. DOMAIN deferred = 1..n /\ Top(deferred) = deferred[n]
    BY <2>3 DEF Top
  <2>5. Top(deferred) \in DeferredStackElement
    BY <2>1, InBody
  <2> QED
    BY <2>1, <2>2, <2>3, <2>4, <2>5
<1>3. d \in Defers /\ ev \in Event
  <2>1. d \in Defers
    BY <1>2, SourceAssumption DEF Defers
  <2> HIDE DEF d, n
  <2> QED
    BY <1>2, <2>1 DEF Event
<1>4. /\ e \in DeferredStackElement
      /\ e.stmts = Append(deferred[n].stmts, d)
      /\ deferred[n].stmts \in Seq(Defers)
  <2>1. Top(deferred).stmts \in Seq(Defers)
    BY <1>2 DEF DeferredStackElement
  <2>2. Append(Top(deferred).stmts, d) \in Seq(Defers)
    BY <1>3, <2>1
  <2> HIDE DEF d
  <2>3. e \in DeferredStackElement /\ e.stmts = Append(Top(deferred).stmts, d)
    BY <1>2, <2>2 DEF DeferredStackElement
  <2> HIDE DEF e, n
  <2> QED
    BY <1>2, <2>1, <2>3
<1> HIDE DEF e
<1>5. /\ Len(deferred') = n
      /\ DOMAIN deferred' = 1..n
      /\ deferred'[n] = e
      /\ \A i \in 1..(n - 1) : deferred'[i] = deferred[i]
  <2>1. /\ SetTop(deferred, e) \in Seq(DeferredStackElement)
        /\ Len(SetTop(deferred, e)) = Len(deferred)
        /\ SetTop(deferred, e)[Len(deferred)] = e
        /\ \A i \in 1..(Len(deferred) - 1) :
               SetTop(deferred, e)[i] = deferred[i]
    <3>1. /\ deferred \in Seq(DeferredStackElement)
          /\ deferred # <<>>
          /\ e \in DeferredStackElement
      BY <1>2, <1>4
    <3> QED
      BY <3>1, SetTopLemma
  <2> QED
    BY <1>1, <2>1
<1> HIDE DEF n, d, ev
<1>6. PendingOf(deferred', n) = PendingOf(deferred, n) \cup {<<n, d>>}
  <2>1. AddsDefer(deferred, deferred', n, d)
    BY <1>4, <1>5 DEF AddsDefer
  <2> QED
    BY <1>2, <1>3, <2>1, PendingDefer
<1>7. /\ blocks'[insert].code = Append(blocks[insert].code, ev)
      /\ \A c \in Blocks : /\ blocks'[c].term = blocks[c].term
                           /\ blocks'[c].succ = blocks[c].succ
      /\ \A c \in Blocks \ {insert} : blocks'[c] = blocks[c]
  BY <1>1, <1>2, <1>3, EmitLemma, EmitAppends
<1>8. PICK P \in [Blocks -> Pendings] : Edges(P) /\ Here(P) /\ Waits(P)
  BY DEF FlowInv
<1>9. RunCode(P[insert], blocks'[insert].code) = PendingOf(deferred', n)
  <2>1. RunCode(P[insert], blocks[insert].code) = PendingOf(deferred, n)
    BY <1>1, <1>2, <1>8 DEF Here, AtExit, n
  <2>2. /\ blocks[insert].code \in Seq(Event)
        /\ P[insert] \in Pendings
        /\ PendingOf(deferred, n) # Stuck
    BY <1>2, BlockParts, PendingType
  <2>3. RunCode(P[insert], Append(blocks[insert].code, ev))
            = RunEvent(RunCode(P[insert], blocks[insert].code), ev)
    BY <1>3, <2>2, RunAppend
  <2>4. ev.op = "reg" /\ ev.depth = n /\ ev.d = d
    BY <1>2 DEF ev
  <2>5. RunEvent(PendingOf(deferred, n), ev)
            = PendingOf(deferred, n) \cup {<<n, d>>}
    BY <2>2, <2>4 DEF RunEvent
  <2> QED
    BY <1>6, <1>7, <2>1, <2>3, <2>5
<1>10. Edges(P)'
  <2>1. ASSUME NEW b \in Blocks
        PROVE  /\ \A s \in blocks'[b].succ : P[s] = RunCode(P[b], blocks'[b].code)
               /\ blocks'[b].term = "ret" => RunCode(P[b], blocks'[b].code) = {}
    <3>1. CASE b = insert
      <4>1. blocks[insert].term = "none" /\ blocks[insert].succ = {}
        BY <1>1, <1>2 DEF curr_block_has_terminator, FlowInv, FlowShape
      <4> QED
        BY <1>2, <1>7, <3>1, <4>1
    <3>2. CASE b # insert
      <4>1. blocks'[b] = blocks[b]
        BY <1>7, <3>2
      <4> QED
        BY <1>8, <4>1 DEF Edges, AtExit
    <3> QED
      BY <3>1, <3>2
  <2> QED
    BY <1>8, <2>1 DEF Edges, AtExit
<1>11. Here(P)'
  BY <1>1, <1>5, <1>9 DEF Here, AtExit
<1>12. Waits(P)'
  <2> SUFFICES ASSUME NEW i \in DOMAIN frames,
                      NEW b \in {frames[i].merge, frames[i].other} \ {NoBlock}
               PROVE  P[b] = PendingOf(deferred', i - 1)
    BY <1>1 DEF Waits
  <2>1. i \in 1..n
    BY <1>2 DEF ContextInv, TypeOK
  <2>2. \A j \in 1..(i - 1) : deferred'[j].stmts = deferred[j].stmts
    <3>1. \A j \in 1..(i - 1) : j \in 1..(n - 1)
      BY <1>2, <2>1
    <3> QED
      BY <1>5, <3>1
  <2>3. PendingOf(deferred', i - 1) = PendingOf(deferred, i - 1)
    BY <2>2, SamePending
  <2> QED
    BY <1>8, <2>3 DEF Waits
<1>13. FlowShape'
  <2>1. ASSUME NEW b \in Blocks
        PROVE  /\ blocks'[b].term = "none" =>
                      /\ blocks'[b].succ = {}
                      /\ b # insert' => blocks'[b].code = <<>>
               /\ blocks'[b].succ \subseteq 1..nblocks'
    BY <1>1, <1>7 DEF FlowInv, FlowShape
  <2>2. ASSUME NEW i \in 1..n, NEW j \in DOMAIN deferred[i].stmts
        PROVE  deferred[i].stmts[j] \in Nat /\ deferred[i].stmts[j] < d
    <3>1. deferred[i].stmts[j] <= stmts
      BY <1>2 DEF FlowInv, FlowShape
    <3>2. deferred[i] \in DeferredStackElement
      BY <1>2
    <3>3. deferred[i].stmts[j] \in Defers
      BY <3>2 DEF DeferredStackElement
    <3>4. deferred[i].stmts[j] \in Nat
      BY <3>3 DEF Defers
    <3> QED
      BY <1>2, <3>1, <3>4 DEF d
  <2> DEFINE old == deferred[n].stmts
             more == deferred'[n].stmts
  <2>3. /\ Len(old) \in Nat
        /\ DOMAIN old = 1..Len(old)
        /\ DOMAIN more = 1..(Len(old) + 1)
        /\ more[Len(old) + 1] = d
        /\ \A j \in 1..Len(old) : more[j] = old[j]
    BY <1>3, <1>4, <1>5
  <2>4. InOrder(old)
    BY <1>2 DEF FlowInv, FlowShape, OrderedDefers
  <2>5. n \in 1..n
    BY <1>2
  <2>6. InOrder(more)
    <3> SUFFICES ASSUME NEW j \in DOMAIN more, NEW k \in DOMAIN more, j < k
                 PROVE  more[j] < more[k]
      BY DEF InOrder
    <3> HIDE DEF more
    <3>1. j \in 1..Len(old) /\ more[j] = old[j]
      BY <2>3
    <3>2. CASE k = Len(old) + 1
      BY <2>2, <2>3, <2>5, <3>1, <3>2
    <3>3. CASE k \in 1..Len(old)
      <4> HIDE DEF old
      <4> QED
        BY <2>3, <2>4, <3>1, <3>3 DEF InOrder
    <3>4. k = Len(old) + 1 \/ k \in 1..Len(old)
      <4> HIDE DEF old
      <4>1. k \in 1..(Len(old) + 1)
        BY <2>3
      <4> QED
        BY <2>3, <4>1
    <3> QED
      BY <3>2, <3>3, <3>4
  <2>7. \A j \in DOMAIN more : more[j] <= d
    <3> TAKE j \in DOMAIN more
    <3> HIDE DEF more
    <3>1. CASE j = Len(old) + 1
      BY <1>2, <2>3, <3>1 DEF d
    <3>2. CASE j \in 1..Len(old)
      <4>1. more[j] = old[j] /\ j \in DOMAIN old
        BY <2>3, <3>2
      <4>2. old[j] \in Nat /\ old[j] < d
        BY <2>2, <2>5, <4>1
      <4>3. d \in Nat
        BY <1>2 DEF d
      <4> HIDE DEF old, d
      <4> QED
        BY <4>1, <4>2, <4>3
    <3> QED
      BY <2>3, <3>1, <3>2
  <2> HIDE DEF old, more
  <2>8. \A i \in 1..n : i = n \/ i \in 1..(n - 1)
    BY <1>2
  <2>9. OrderedDefers(deferred')
    <3> SUFFICES ASSUME NEW i \in 1..n PROVE InOrder(deferred'[i].stmts)
      BY <1>5 DEF OrderedDefers
    <3>1. CASE i = n
      BY <2>6, <3>1 DEF more
    <3>2. CASE i \in 1..(n - 1)
      BY <1>2, <1>5, <3>2 DEF FlowInv, FlowShape, OrderedDefers
    <3> QED
      BY <2>8, <3>1, <3>2
  <2>10. ASSUME NEW i \in 1..n, NEW j \in DOMAIN deferred'[i].stmts
         PROVE  deferred'[i].stmts[j] <= stmts'
    <3>1. CASE i = n
      BY <1>1, <2>7, <3>1 DEF more, d
    <3>2. CASE i \in 1..(n - 1)
      <4>1. deferred'[i] = deferred[i]
        BY <1>5, <3>2
      <4>2. deferred[i].stmts[j] \in Nat /\ deferred[i].stmts[j] < d
        BY <2>2, <4>1
      <4> QED
        BY <1>1, <1>2, <4>1, <4>2 DEF d
    <3> QED
      BY <2>8, <3>1, <3>2
  <2> QED
    BY <1>5, <2>1, <2>9, <2>10 DEF FlowShape
<1> QED
  BY <1>10, <1>11, <1>12, <1>13 DEF FlowInv

\* Opening a body: three statements and four.
LEMMA BranchFlow ==
    ASSUME ContextInv, BlocksInv, FlowInv, NEW leaves \in CondLeaves,
           NEW has_else \in BOOLEAN, BeginBranch(leaves, has_else)
    PROVE  FlowInv'
<1>1. CASE CastingContextLeft
  BY <1>1, AbortFlow DEF CastingContextLeft
<1>2. CASE ~CastingContextLeft
  <2> DEFINE merge_blk == nblocks + 1
             if_blk    == nblocks + 2
             else_blk  == IF has_else THEN nblocks + 3 ELSE NoBlock
             to == {if_blk, IF has_else THEN else_blk ELSE merge_blk}
             f == [kind |-> "branch", stage |-> "if", merge |-> merge_blk,
                   other |-> else_blk, old |-> NoLoop]
             e == [stmts |-> <<>>, is_loop_base |-> FALSE]
  <2>1. NextChild /\ ~curr_block_has_terminator
    BY DEF BeginBranch, generate
  <2>2. /\ nblocks' = IF has_else THEN nblocks + 3 ELSE nblocks + 2
        /\ blocks' = Br(blocks, insert, to)
        /\ insert' = if_blk
        /\ frames' = Append(frames, f)
        /\ deferred' = Append(deferred, e)
        /\ stmts' = stmts + 1
    BY <1>2 DEF BeginBranch, push_defers
  <2>3. /\ nblocks \in Nat \ {0}
        /\ insert \in Blocks
        /\ nblocks + 1 \in Blocks /\ nblocks + 2 \in Blocks
        /\ nblocks + 3 \in Blocks
        /\ frames # <<>>
    BY <2>1, NewBlocks
  <2>4. to \in SUBSET Blocks /\ to \subseteq (nblocks + 1)..nblocks'
    BY <2>2, <2>3
  <2>5. BranchOut(blocks', nblocks') /\ blocks'[insert].term = "br"
    <3>1. BranchOut(blocks, nblocks')
      BY <2>1, <2>3, NoBranchYet DEF FlowInv
    <3> HIDE DEF to
    <3> QED
      BY <2>2, <2>3, <2>4, <3>1, BrOut
  <2>6. f \in Frame
    BY <2>3 DEF Frame, Loop, NoLoop, LoopKinds
  <2>7. e \in DeferredStackElement /\ e.stmts = <<>>
    BY DEF DeferredStackElement
  <2>8. /\ nblocks' \in (nblocks + 1)..(nblocks + 4)
        /\ insert' \in (nblocks + 1)..nblocks'
        /\ f.merge \in (nblocks + 1)..nblocks'
        /\ f.other \in {NoBlock} \cup (nblocks + 1)..nblocks'
    BY <2>2, <2>3
  <2> HIDE DEF f, e
  <2> QED
    BY <2>1, <2>2, <2>5, <2>6, <2>7, <2>8, PushFlow
<1> QED
  BY <1>1, <1>2

LEMMA WhileFlow ==
    ASSUME ContextInv, BlocksInv, FlowInv, BeginWhile
    PROVE  FlowInv'
<1>1. CASE CastingContextLeft
  BY <1>1, AbortFlow DEF CastingContextLeft
<1>2. CASE ~CastingContextLeft
  <2> DEFINE merge_blk == nblocks + 1
             cond_blk  == nblocks + 2
             body_blk  == nblocks + 3
             to == {body_blk, merge_blk}
             bs == Br(blocks, insert, {cond_blk})
             f == [kind |-> "while", stage |-> "body", merge |-> merge_blk,
                   other |-> cond_blk, old |-> curr_loop]
             e == [stmts |-> <<>>, is_loop_base |-> TRUE]
  <2>1. NextChild /\ ~curr_block_has_terminator
    BY DEF BeginWhile, generate
  <2>2. /\ nblocks' = nblocks + 3
        /\ blocks' = Br(bs, cond_blk, to)
        /\ insert' = body_blk
        /\ frames' = Append(frames, f)
        /\ deferred' = Append(deferred, e)
        /\ stmts' = stmts + 1
    BY <1>2 DEF BeginWhile, EnterFrame, leave_curr_loop, push_defers
  <2>3. /\ nblocks \in Nat \ {0}
        /\ insert \in Blocks
        /\ merge_blk \in Blocks /\ cond_blk \in Blocks /\ body_blk \in Blocks
        /\ cond_blk > nblocks
        /\ frames # <<>>
    BY <2>1, NewBlocks
  <2>4. /\ to \in SUBSET Blocks /\ to \subseteq (nblocks + 1)..nblocks'
        /\ {cond_blk} \in SUBSET Blocks
        /\ {cond_blk} \subseteq (nblocks + 1)..nblocks'
    BY <2>2, <2>3
  <2>5. BranchOut(blocks', nblocks') /\ blocks'[insert].term = "br"
    <3>1. BranchOut(blocks, nblocks')
      BY <2>1, <2>3, NoBranchYet DEF FlowInv
    <3> HIDE DEF to, cond_blk
    <3>2. BranchOut(bs, nblocks') /\ bs[insert].term = "br"
      BY <2>3, <2>4, <3>1, BrOut
    <3> HIDE DEF bs
    <3> QED
      BY <2>2, <2>3, <2>4, <3>2, BrOut
  <2>6. f \in Frame
    BY <2>3 DEF Frame, LoopKinds, ContextInv, TypeOK
  <2>7. e \in DeferredStackElement /\ e.stmts = <<>>
    BY DEF DeferredStackElement
  <2>8. /\ nblocks' \in (nblocks + 1)..(nblocks + 4)
        /\ insert' \in (nblocks + 1)..nblocks'
        /\ f.merge \in (nblocks + 1)..nblocks'
        /\ f.other \in {NoBlock} \cup (nblocks + 1)..nblocks'
    BY <2>2, <2>3
  <2> HIDE DEF f, e
  <2> QED
    BY <2>1, <2>2, <2>5, <2>6, <2>7, <2>8, PushFlow
<1> QED
  BY <1>1, <1>2

LEMMA ForFlow ==
    ASSUME ContextInv, BlocksInv, FlowInv, NEW leaves \in CondLeaves,
           NEW has_cond \in BOOLEAN, NEW has_update \in BOOLEAN,
           BeginFor(leaves, has_cond, has_update)
    PROVE  FlowInv'
<1>1. CASE CastingContextLeft
  BY <1>1, AbortFlow DEF CastingContextLeft
<1>2. CASE ~CastingContextLeft
  <2> DEFINE merge_blk == nblocks + 1
             cond_blk  == nblocks + 2
             after_blk == nblocks + 3
             body_blk  == nblocks + 4
             taken == IF has_cond THEN {body_blk, merge_blk} ELSE {body_blk}
             bs == Br(blocks, insert, {cond_blk})
             cs == Br(bs, cond_blk, taken)
             f == [kind |-> "for", stage |-> "body", merge |-> merge_blk,
                   other |-> after_blk, old |-> curr_loop]
             e == [stmts |-> <<>>, is_loop_base |-> TRUE]
  <2>1. NextChild /\ ~curr_block_has_terminator
    BY DEF BeginFor, generate
  <2>2. /\ nblocks' = nblocks + 4
        /\ blocks' = Br(cs, after_blk, {cond_blk})
        /\ insert' = body_blk
        /\ frames' = Append(frames, f)
        /\ deferred' = Append(deferred, e)
        /\ stmts' = stmts + 1
    BY <1>2 DEF BeginFor, EnterFrame, leave_curr_loop, push_defers
  <2>3. /\ nblocks \in Nat \ {0}
        /\ insert \in Blocks
        /\ merge_blk \in Blocks /\ cond_blk \in Blocks
        /\ after_blk \in Blocks /\ body_blk \in Blocks
        /\ cond_blk > nblocks /\ after_blk > nblocks
        /\ frames # <<>>
    BY <2>1, NewBlocks
  <2>4. /\ taken \in SUBSET Blocks /\ taken \subseteq (nblocks + 1)..nblocks'
        /\ {cond_blk} \in SUBSET Blocks
        /\ {cond_blk} \subseteq (nblocks + 1)..nblocks'
    BY <2>2, <2>3
  <2>5. BranchOut(blocks', nblocks') /\ blocks'[insert].term = "br"
    <3>1. BranchOut(blocks, nblocks')
      BY <2>1, <2>3, NoBranchYet DEF FlowInv
    <3> HIDE DEF taken, cond_blk, after_blk
    <3>2. BranchOut(bs, nblocks') /\ bs[insert].term = "br"
      BY <2>3, <2>4, <3>1, BrOut
    <3> HIDE DEF bs
    <3>3. BranchOut(cs, nblocks') /\ cs[insert].term = "br"
      BY <2>3, <2>4, <3>2, BrOut
    <3> HIDE DEF cs
    <3> QED
      BY <2>2, <2>3, <2>4, <3>3, BrOut
  <2>6. f \in Frame
    BY <2>3 DEF Frame, LoopKinds, ContextInv, TypeOK
  <2>7. e \in DeferredStackElement /\ e.stmts = <<>>
    BY DEF DeferredStackElement
  <2>8. /\ nblocks' \in (nblocks + 1)..(nblocks + 4)
        /\ insert' \in (nblocks + 1)..nblocks'
        /\ f.merge \in (nblocks + 1)..nblocks'
        /\ f.other \in {NoBlock} \cup (nblocks + 1)..nblocks'
    BY <2>2, <2>3
  <2> HIDE DEF f, e
  <2> QED
    BY <2>1, <2>2, <2>5, <2>6, <2>7, <2>8, PushFlow
<1> QED
  BY <1>1, <1>2

LEMMA DoWhileFlow ==
    ASSUME ContextInv, BlocksInv, FlowInv, BeginDoWhile
    PROVE  FlowInv'
<1>1. CASE CastingContextLeft
  BY <1>1, AbortFlow DEF CastingContextLeft
<1>2. CASE ~CastingContextLeft
  <2> DEFINE merge_blk == nblocks + 1
             cond_blk  == nblocks + 2
             body_blk  == nblocks + 3
             f == [kind |-> "dowhile", stage |-> "body", merge |-> merge_blk,
                   other |-> cond_blk, old |-> curr_loop]
             e == [stmts |-> <<>>, is_loop_base |-> TRUE]
  <2>1. NextChild /\ ~curr_block_has_terminator
    BY DEF BeginDoWhile, generate
  <2>2. /\ nblocks' = nblocks + 3
        /\ blocks' = Br(blocks, insert, {body_blk})
        /\ insert' = body_blk
        /\ frames' = Append(frames, f)
        /\ deferred' = Append(deferred, e)
        /\ stmts' = stmts + 1
    BY <1>2 DEF BeginDoWhile, EnterFrame, leave_curr_loop, push_defers
  <2>3. /\ nblocks \in Nat \ {0}
        /\ insert \in Blocks
        /\ merge_blk \in Blocks /\ cond_blk \in Blocks /\ body_blk \in Blocks
        /\ frames # <<>>
    BY <2>1, NewBlocks
  <2>4. /\ {body_blk} \in SUBSET Blocks
        /\ {body_blk} \subseteq (nblocks + 1)..nblocks'
    BY <2>2, <2>3
  <2>5. BranchOut(blocks', nblocks') /\ blocks'[insert].term = "br"
    <3>1. BranchOut(blocks, nblocks')
      BY <2>1, <2>3, NoBranchYet DEF FlowInv
    <3> HIDE DEF body_blk
    <3> QED
      BY <2>2, <2>3, <2>4, <3>1, BrOut
  <2>6. f \in Frame
    BY <2>3 DEF Frame, LoopKinds, ContextInv, TypeOK
  <2>7. e \in DeferredStackElement /\ e.stmts = <<>>
    BY DEF DeferredStackElement
  <2>8. /\ nblocks' \in (nblocks + 1)..(nblocks + 4)
        /\ insert' \in (nblocks + 1)..nblocks'
        /\ f.merge \in (nblocks + 1)..nblocks'
        /\ f.other \in {NoBlock} \cup (nblocks + 1)..nblocks'
    BY <2>2, <2>3
  <2> HIDE DEF f, e
  <2> QED
    BY <2>1, <2>2, <2>5, <2>6, <2>7, <2>8, PushFlow
<1> QED
  BY <1>1, <1>2

\* What the end of a body and a jump emit.
LEMMA UnpackCode ==
    ASSUME ContextInv, insert \in Blocks, NEW base \in 1..Len(deferred),
           NEW scopes, scopes = FromBackTo(base)
    PROVE  LET bs == Unpack(blocks, insert, scopes)
           IN  /\ bs \in [Blocks -> Block]
               /\ bs[insert].code = Append(blocks[insert].code,
                                       [op |-> "run", scopes |-> scopes])
               /\ bs[insert].succ = blocks[insert].succ
               /\ \A c \in Blocks \ {insert} : bs[c] = blocks[c]
<1> DEFINE ev == [op |-> "run", scopes |-> scopes]
<1>1. blocks \in [Blocks -> Block] /\ base \in 1..(Len(deferred) + 1)
  BY DEF ContextInv, TypeOK
<1>2. ev \in Event
  BY <1>1, UnpackType DEF ContextInv
<1>3. Unpack(blocks, insert, scopes) = Emit(blocks, insert, ev)
  BY DEF Unpack
<1> HIDE DEF ev
<1>4. /\ Emit(blocks, insert, ev) \in [Blocks -> Block]
      /\ Emit(blocks, insert, ev)[insert].code = Append(blocks[insert].code, ev)
      /\ Emit(blocks, insert, ev)[insert].succ = blocks[insert].succ
      /\ \A c \in Blocks \ {insert} :
             Emit(blocks, insert, ev)[c] = blocks[c]
  BY <1>1, <1>2, EmitLemma, EmitAppends
<1> QED
  BY <1>3, <1>4 DEF ev

LEMMA ClosedLeaves ==
    ASSUME ContextInv, frames # <<>>, NEW to \in Blocks, to \in 1..nblocks,
           blocks' = ClosedBlocks(to), NEW P,
           P[to] = PendingOf(deferred, Len(deferred) - 1)
    PROVE  LeavesBlock(P, Len(deferred))
<1> DEFINE n == Len(deferred)
           scopes == FromBackTo(n)
           bs == Unpack(blocks, insert, scopes)
<1>1. CASE curr_block_has_terminator
  BY <1>1 DEF LeavesBlock, ClosedBlocks
<1>2. CASE ~curr_block_has_terminator
  <2>1. insert \in Blocks /\ n \in 1..n
    BY InBody DEF ContextInv, TypeOK
  <2>2. blocks' = Br(bs, insert, {to})
    BY <1>2 DEF ClosedBlocks, unpack_defers_regular
  <2>3. /\ bs \in [Blocks -> Block]
        /\ bs[insert].code = Append(blocks[insert].code,
                                [op |-> "run", scopes |-> scopes])
        /\ \A c \in Blocks \ {insert} : bs[c] = blocks[c]
    <3> HIDE DEF scopes, n
    <3>1. scopes = FromBackTo(n)
      BY DEF scopes
    <3> QED
      BY <2>1, <3>1, UnpackCode DEF n
  <2> HIDE DEF bs, scopes
  <2>4. /\ blocks'[insert].term = "br"
        /\ blocks'[insert].succ = {to}
        /\ blocks'[insert].code = bs[insert].code
        /\ \A c \in Blocks \ {insert} : blocks'[c] = bs[c]
    <3>1. {to} \in SUBSET Blocks
      OBVIOUS
    <3>2. /\ Br(bs, insert, {to})[insert].term = "br"
          /\ Br(bs, insert, {to})[insert].succ = {to}
          /\ \A c \in Blocks \ {insert} : Br(bs, insert, {to})[c] = bs[c]
      BY <2>1, <2>3, <3>1, BrLemma
    <3>3. Br(bs, insert, {to})[insert].code = bs[insert].code
      BY <2>1, <2>3, TerminatorKeepsCode
    <3> QED
      BY <2>2, <3>2, <3>3
  <2> QED
    BY <1>2, <2>1, <2>3, <2>4 DEF LeavesBlock, scopes
<1> QED
  BY <1>1, <1>2

\* The end of a body.
LEMMA ElseFlow ==
    ASSUME ContextInv, FlowInv, EndIfBeginElse
    PROVE  FlowInv'
<1>1. CASE CloseAborts
  BY <1>1, AbortFlow DEF CloseAborts
<1>2. CASE ~CloseAborts
  <2> DEFINE f == [Top(frames) EXCEPT !.stage = "else"]
             to == Top(frames).merge
  <2>1. /\ frames # <<>>
        /\ Top(frames).kind = "branch"
        /\ Top(frames).other # NoBlock
    BY DEF EndIfBeginElse, AtEnd
  <2>2. /\ blocks' = ClosedBlocks(to)
        /\ insert' = Top(frames).other
        /\ frames' = SetTop(frames, f)
        /\ deferred' = Append(pop_defers,
                           [stmts |-> <<>>, is_loop_base |-> FALSE])
        /\ UNCHANGED <<stmts, nblocks>>
    BY <1>2 DEF EndIfBeginElse
  <2>3. /\ Top(frames) \in Frame
        /\ Len(frames) \in Nat \ {0}
        /\ Len(deferred) = Len(frames)
        /\ Top(frames) = frames[Len(frames)]
        /\ frames \in Seq(Frame)
        /\ to \in Blocks /\ to \in 2..nblocks
        /\ Top(frames).other \in Blocks
    BY <2>1, InBody, FrameInBlocks DEF FrameOK, ContextInv, TypeOK
  <2>4. f \in Frame /\ f.merge = to /\ f.other = Top(frames).other
    BY <2>3 DEF Frame
  <2> HIDE DEF f
  <2>5. /\ Len(frames') = Len(frames)
        /\ DOMAIN frames' = 1..Len(frames)
        /\ frames'[Len(frames)] = f
        /\ \A i \in 1..(Len(frames) - 1) : frames'[i] = frames[i]
    <3>1. /\ SetTop(frames, f) \in Seq(Frame)
          /\ Len(SetTop(frames, f)) = Len(frames)
          /\ SetTop(frames, f)[Len(frames)] = f
          /\ \A i \in 1..(Len(frames) - 1) : SetTop(frames, f)[i] = frames[i]
      <4>1. frames \in Seq(Frame) /\ frames # <<>> /\ f \in Frame
        BY <2>1, <2>3, <2>4
      <4> QED
        BY <4>1, SetTopLemma
    <3> QED
      BY <2>2, <3>1
  <2>6. ASSUME NEW i \in DOMAIN frames'
        PROVE  /\ i \in DOMAIN frames
               /\ frames'[i].merge = frames[i].merge
               /\ frames'[i].other = frames[i].other
    <3>1. i = Len(frames) \/ i \in 1..(Len(frames) - 1)
      BY <2>3, <2>5
    <3>2. i \in DOMAIN frames
      BY <2>3, <2>5
    <3> QED
      BY <2>3, <2>4, <2>5, <3>1, <3>2
  <2>7. PICK P \in [Blocks -> Pendings] : Edges(P) /\ Here(P) /\ Waits(P)
    BY DEF FlowInv
  <2>8. P[to] = PendingOf(deferred, Len(deferred) - 1)
    <3>1. Len(frames) \in DOMAIN frames
      BY <2>3
    <3> QED
      BY <2>3, <2>7, <3>1 DEF Waits, NoBlock
  <2>9. LeavesBlock(P, Len(deferred))
    <3>1. to \in 1..nblocks
      BY <2>3
    <3> HIDE DEF to
    <3> QED
      BY <2>1, <2>2, <2>3, <2>8, <3>1, ClosedLeaves
  <2>10. FlowShape
    BY DEF FlowInv
  <2>11. /\ insert' \in {Top(frames).merge, Top(frames).other} \ {NoBlock}
         /\ insert' \in Blocks
    BY <2>1, <2>2, <2>3
  <2> QED
    BY <2>1, <2>2, <2>6, <2>7, <2>9, <2>10, <2>11, CloseFlow
<1> QED
  BY <1>1, <1>2

LEMMA ReturnFlow ==
    ASSUME ContextInv, FlowInv, frames # <<>>, Top(frames).kind # "proc",
           NEW to \in {Top(frames).merge, Top(frames).other} \ {NoBlock},
           blocks' = ClosedBlocks(to), insert' = Top(frames).merge,
           frames' = Pop(frames), deferred' = pop_defers,
           UNCHANGED <<stmts, nblocks>>
    PROVE  FlowInv'
<1>1. /\ Top(frames) \in Frame
      /\ Len(frames) \in Nat \ {0}
      /\ Len(deferred) = Len(frames)
      /\ Top(frames) = frames[Len(frames)]
      /\ frames \in Seq(Frame)
      /\ FrameOK(Top(frames), nblocks)
  BY InBody DEF ContextInv, TypeOK
<1>2. to \in Blocks /\ to \in 1..nblocks
  BY <1>1 DEF FrameOK, Frame
<1>3. /\ insert' \in Blocks
      /\ insert' \in {Top(frames).merge, Top(frames).other} \ {NoBlock}
  BY <1>1 DEF FrameOK, Frame, NoBlock
<1>4. ASSUME NEW i \in DOMAIN frames'
      PROVE  /\ i \in DOMAIN frames
             /\ frames'[i].merge = frames[i].merge
             /\ frames'[i].other = frames[i].other
  <2>1. /\ Pop(frames) \in Seq(Frame)
        /\ Len(Pop(frames)) = Len(frames) - 1
        /\ \A j \in 1..(Len(frames) - 1) : Pop(frames)[j] = frames[j]
    BY <1>1, PopLemma
  <2>2. i \in 1..(Len(frames) - 1)
    BY <2>1
  <2> QED
    BY <1>1, <2>1, <2>2
<1>5. PICK P \in [Blocks -> Pendings] : Edges(P) /\ Here(P) /\ Waits(P)
  BY DEF FlowInv
<1>6. P[to] = PendingOf(deferred, Len(deferred) - 1)
  <2>1. Len(frames) \in DOMAIN frames
    BY <1>1
  <2> QED
    BY <1>1, <1>5, <2>1 DEF Waits
<1>7. LeavesBlock(P, Len(deferred))
  BY <1>2, <1>6, ClosedLeaves
<1>8. FlowShape
  BY DEF FlowInv
<1> QED
  BY <1>3, <1>4, <1>5, <1>7, <1>8, CloseFlow

LEMMA EndBranchFlow ==
    ASSUME ContextInv, FlowInv, EndBranch
    PROVE  FlowInv'
<1>1. CASE CloseAborts
  BY <1>1, AbortFlow DEF CloseAborts
<1>2. CASE ~CloseAborts
  <2>1. frames # <<>> /\ Top(frames).kind = "branch"
    BY DEF EndBranch, AtEnd
  <2>2. /\ blocks' = ClosedBlocks(Top(frames).merge)
        /\ insert' = Top(frames).merge
        /\ frames' = Pop(frames)
        /\ deferred' = pop_defers
        /\ UNCHANGED <<stmts, nblocks>>
    BY <1>2 DEF EndBranch
  <2>3. Top(frames).merge # NoBlock
    BY <2>1, InBody DEF FrameOK, NoBlock
  <2> QED
    BY <2>1, <2>2, <2>3, ReturnFlow
<1> QED
  BY <1>1, <1>2

LEMMA EndLoopFlow ==
    ASSUME ContextInv, FlowInv, EndWhileOrFor
    PROVE  FlowInv'
<1>1. CASE CloseAborts
  BY <1>1, AbortFlow DEF CloseAborts
<1>2. CASE ~CloseAborts
  <2>1. frames # <<>> /\ Top(frames).kind \in {"while", "for"}
    BY DEF EndWhileOrFor, AtEnd
  <2>2. /\ blocks' = ClosedBlocks(Top(frames).other)
        /\ insert' = Top(frames).merge
        /\ frames' = Pop(frames)
        /\ deferred' = pop_defers
        /\ UNCHANGED <<stmts, nblocks>>
    BY <1>2 DEF EndWhileOrFor
  <2>3. Top(frames).other # NoBlock
    BY <2>1, InBody DEF FrameOK, NoBlock, LoopKinds
  <2> QED
    BY <2>1, <2>2, <2>3, ReturnFlow
<1> QED
  BY <1>1, <1>2

LEMMA EndDoWhileFlow ==
    ASSUME ContextInv, FlowInv, EndDoWhile
    PROVE  FlowInv'
<1>1. frames # <<>> /\ Top(frames).kind = "dowhile"
  BY DEF EndDoWhile, AtEnd
<1>2. curr_loop # NoLoop
  BY <1>1, BodiesFromContext, DoWhileContext
<1>3. CloseAborts \/ Abort("assert_enter_loop")
  BY <1>2 DEF EndDoWhile
<1> QED
  BY <1>3, AbortFlow DEF CloseAborts

\* The loop a brk or cont leaves is the one whose body is the last loop base
\* on the defer stack.
LEMMA LoopBaseIsLoop ==
    ASSUME ContextInv, inside_source_loop
    PROVE  /\ loop_base \in DOMAIN frames
           /\ loop_base \in 1..Len(deferred)
           /\ curr_loop = LoopOf(frames[loop_base])
<1> DEFINE n == Len(frames)
<1>b. BodiesInv
  BY BodiesFromContext
<1>1. n \in Nat /\ DOMAIN frames = 1..n /\ DOMAIN deferred = 1..n
  BY <1>b DEF BodiesInv, DeferStackMatchesBodies
<1>2. PICK i \in 1..n :
          /\ frames[i].kind \in LoopKinds
          /\ curr_loop = LoopOf(frames[i])
          /\ \A j \in (i + 1)..n : frames[j].kind \notin LoopKinds
  <2>1. Innermost(frames, curr_loop, n)
    BY <1>b DEF BodiesInv, LoopContextIsInnermost
  <2>2. \E k \in 1..n : frames[k].kind \in LoopKinds
    BY <1>1 DEF inside_source_loop
  <2> HIDE DEF n
  <2> QED
    BY <2>1, <2>2 DEF Innermost
<1>3. i \in loop_bases
  BY <1>1, <1>2, <1>b, Zenon
  DEF BodiesInv, DeferStackMatchesBodies, loop_bases
<1>4. ASSUME NEW j \in loop_bases PROVE j <= i
  <2>1. j \in 1..n /\ frames[j].kind \in LoopKinds
    BY <1>1, <1>b, Zenon DEF BodiesInv, DeferStackMatchesBodies, loop_bases
  <2>2. ~(j \in (i + 1)..n)
    BY <1>2, <2>1
  <2> QED
    BY <1>1, <2>1, <2>2
<1>5. loop_base \in loop_bases /\ \A j \in loop_bases : j <= loop_base
  BY <1>3, <1>4, Zenon DEF loop_base
<1>6. loop_base \in 1..n
  BY <1>1, <1>5 DEF loop_bases
<1>7. loop_base = i
  BY <1>1, <1>3, <1>4, <1>5, <1>6
<1> QED
  BY <1>1, <1>2, <1>6, <1>7, <1>b DEF BodiesInv, DeferStackMatchesBodies

LEMMA LeaveLoopFlow ==
    ASSUME ContextInv, FlowInv, NEW kind, NEW target,
           LeaveLoopBody(kind, target),
           target \in {curr_loop.merge, curr_loop.after}
    PROVE  FlowInv'
<1> DEFINE scopes == unpack_defers_until_loop_base
           bs == Unpack(blocks, insert, scopes)
<1>1. NextChild /\ ~curr_block_has_terminator /\ inside_source_loop
  BY DEF LeaveLoopBody, generate
<1>2. /\ inside_loop /\ loop_bases # {}
      /\ target \in 2..nblocks
  BY <1>1, BodiesFromContext, LoopFound
<1>3. CASE LiteralTooShort(scopes)
  <2>1. Abort("assert_literal")
    BY <1>2, <1>3 DEF LeaveLoopBody
  <2> QED
    BY <2>1, AbortFlow
<1>4. CASE ~LiteralTooShort(scopes)
  <2>1. /\ blocks' = Br(bs, insert, {target})
        /\ stmts' = stmts + 1
        /\ UNCHANGED <<frames, deferred, nblocks, insert>>
    BY <1>2, <1>4 DEF LeaveLoopBody
  <2>2. /\ loop_base \in DOMAIN frames
        /\ loop_base \in 1..Len(deferred)
        /\ curr_loop = LoopOf(frames[loop_base])
    BY <1>1, LoopBaseIsLoop
  <2>3. /\ insert \in Blocks
        /\ frames # <<>>
        /\ nblocks \in Nat
        /\ stmts \in Nat
        /\ target \in Blocks
    <3>1. frames[loop_base] \in Frame
      BY <2>2 DEF ContextInv, TypeOK
    <3>2. target \in Blocks \cup {NoBlock}
      BY <2>2, <3>1 DEF Frame, LoopOf
    <3>3. target # NoBlock
      BY <1>2 DEF NoBlock
    <3> QED
      BY <1>1, <3>2, <3>3, NewBlocks DEF ContextInv, TypeOK
  <2>4. scopes = FromBackTo(loop_base)
    BY DEF unpack_defers_until_loop_base
  <2> HIDE DEF scopes
  <2>5. /\ bs \in [Blocks -> Block]
        /\ bs[insert].code = Append(blocks[insert].code,
                                [op |-> "run", scopes |-> scopes])
        /\ \A c \in Blocks \ {insert} : bs[c] = blocks[c]
    BY <2>2, <2>3, <2>4, UnpackCode
  <2> HIDE DEF bs
  <2>6. /\ blocks'[insert].term = "br"
        /\ blocks'[insert].succ = {target}
        /\ blocks'[insert].code = bs[insert].code
        /\ \A c \in Blocks \ {insert} : blocks'[c] = bs[c]
    <3>1. {target} \in SUBSET Blocks
      BY <2>3
    <3>2. /\ Br(bs, insert, {target})[insert].term = "br"
          /\ Br(bs, insert, {target})[insert].succ = {target}
          /\ \A c \in Blocks \ {insert} : Br(bs, insert, {target})[c] = bs[c]
      BY <2>3, <2>5, <3>1, BrLemma
    <3>3. Br(bs, insert, {target})[insert].code = bs[insert].code
      BY <2>3, <2>5, TerminatorKeepsCode
    <3> QED
      BY <2>1, <3>2, <3>3
  <2>7. PICK P \in [Blocks -> Pendings] : Edges(P) /\ Here(P) /\ Waits(P)
    BY DEF FlowInv
  <2>8. P[target] = PendingOf(deferred, loop_base - 1)
    <3>1. target \in {frames[loop_base].merge, frames[loop_base].other}
      BY <2>2 DEF LoopOf
    <3>2. target # NoBlock
      BY <1>2 DEF NoBlock
    <3> QED
      BY <2>2, <2>7, <3>1, <3>2 DEF Waits
  <2>9. LeavesBlock(P, loop_base)
    <3>1. target \in 1..nblocks
      BY <1>2, <2>3
    <3> QED
      BY <1>1, <2>2, <2>4, <2>5, <2>6, <2>8, <3>1 DEF LeavesBlock
  <2>10. FlowShape /\ stmts <= stmts' /\ stmts' \in Nat
    BY <2>1, <2>3 DEF FlowInv
  <2> QED
    BY <2>1, <2>3, <2>7, <2>9, <2>10, ExitFlow
<1> QED
  BY <1>3, <1>4

LEMMA RetFlow ==
    ASSUME ContextInv, FlowInv, generate_ret
    PROVE  FlowInv'
<1> DEFINE scopes == unpack_defers_all
           bs == Unpack(blocks, insert, scopes)
<1>1. NextChild /\ ~curr_block_has_terminator
  BY DEF generate_ret, generate
<1>2. CASE CastingContextLeft \/ Abort("assert_literal")
  BY <1>2, AbortFlow DEF CastingContextLeft
<1>3. CASE /\ blocks' = RetFrom(bs, insert)
           /\ stmts' = stmts + 1
           /\ UNCHANGED <<frames, deferred, nblocks, insert>>
  <2>1. /\ insert \in Blocks
        /\ frames # <<>>
        /\ stmts \in Nat
        /\ 1 \in 1..Len(deferred)
        /\ blocks[insert].succ = {}
    <3>1. insert \in Blocks /\ frames # <<>>
      BY <1>1, NewBlocks
    <3>2. 1 \in 1..Len(deferred)
      BY <3>1, InBody
    <3>3. blocks[insert].succ = {}
      BY <1>1, <3>1 DEF curr_block_has_terminator, FlowInv, FlowShape
    <3> QED
      BY <3>1, <3>2, <3>3 DEF ContextInv, TypeOK
  <2>2. scopes = FromBackTo(1)
    BY DEF unpack_defers_all
  <2> HIDE DEF scopes
  <2>3. /\ bs \in [Blocks -> Block]
        /\ bs[insert].code = Append(blocks[insert].code,
                                [op |-> "run", scopes |-> scopes])
        /\ bs[insert].succ = blocks[insert].succ
        /\ \A c \in Blocks \ {insert} : bs[c] = blocks[c]
    BY <2>1, <2>2, UnpackCode
  <2> HIDE DEF bs
  <2>4. /\ blocks'[insert].term = "ret"
        /\ blocks'[insert].succ = {}
        /\ blocks'[insert].code = bs[insert].code
        /\ \A c \in Blocks \ {insert} : blocks'[c] = bs[c]
    <3>1. /\ RetFrom(bs, insert)[insert].term = "ret"
          /\ RetFrom(bs, insert)[insert].succ = bs[insert].succ
          /\ \A c \in Blocks \ {insert} : RetFrom(bs, insert)[c] = bs[c]
      BY <2>1, <2>3, RetLemma
    <3>2. RetFrom(bs, insert)[insert].code = bs[insert].code
      BY <2>1, <2>3, TerminatorKeepsCode
    <3> QED
      BY <1>3, <2>1, <2>3, <3>1, <3>2
  <2>5. PICK P \in [Blocks -> Pendings] : Edges(P) /\ Here(P) /\ Waits(P)
    BY DEF FlowInv
  <2>6. LeavesBlock(P, 1)
    BY <1>1, <2>1, <2>2, <2>3, <2>4 DEF LeavesBlock
  <2>7. FlowShape /\ stmts <= stmts' /\ stmts' \in Nat
    BY <1>3, <2>1 DEF FlowInv
  <2> QED
    BY <1>3, <2>1, <2>5, <2>6, <2>7, ExitFlow
<1> QED
  BY <1>2, <1>3 DEF generate_ret

\* The start and the end of a function.
LEMMA FreshFlow ==
    ASSUME NEW bs \in [Blocks -> Block], bs = [b \in Blocks |-> OpenBlock],
           blocks' = bs, nblocks' \in Nat,
           \/ frames' = <<>> /\ deferred' = <<>>
           \/ /\ frames' = <<[kind |-> "proc", stage |-> "body",
                              merge |-> NoBlock, other |-> NoBlock,
                              old |-> NoLoop]>>
              /\ deferred' = <<[stmts |-> <<>>, is_loop_base |-> FALSE]>>
              /\ insert' = 1
    PROVE  FlowInv'
<1>1. PICK P \in [Blocks -> Pendings] : \A b \in Blocks : P[b] = {}
  <2>1. [b \in Blocks |-> {}] \in [Blocks -> Pendings]
    BY DEF Pendings
  <2> QED
    BY <2>1
<1>2. \A b \in Blocks : blocks'[b] = OpenBlock
  OBVIOUS
<1>3. 1 \in Blocks
  BY SourceAssumption DEF Blocks
<1>4. Edges(P)'
  BY <1>1, <1>2, <1>3 DEF Edges, OpenBlock
<1>5. \A i \in DOMAIN deferred' : deferred'[i].stmts = <<>>
  OBVIOUS
<1>6. Here(P)'
  <2> SUFFICES ASSUME frames' # <<>>
               PROVE  RunCode(P[insert'], blocks'[insert'].code)
                          = PendingOf(deferred', Len(deferred'))
    BY DEF Here, AtExit
  <2>1. insert' = 1 /\ Len(deferred') = 1
    OBVIOUS
  <2>2. P[insert'] = {} /\ blocks'[insert'].code = <<>>
    BY <1>1, <1>2, <1>3, <2>1 DEF OpenBlock
  <2>3. RunCode({}, <<>>) = {}
    <3>1. {} \in Pendings
      BY DEF Pendings
    <3> QED
      BY <3>1, RunNothing
  <2>4. PendingOf(deferred', 1) = PendingOf(deferred', 1 - 1)
    <3>1. deferred'[1].stmts = <<>>
      BY <1>5, <2>1
    <3> QED
      BY <3>1, NoPendingAtTop
  <2>5. PendingOf(deferred', 1 - 1) = {}
    BY PendingType
  <2> QED
    BY <2>1, <2>2, <2>3, <2>4, <2>5
<1>7. Waits(P)'
  <2> SUFFICES ASSUME NEW i \in DOMAIN frames'
               PROVE  {frames'[i].merge, frames'[i].other} \ {NoBlock} = {}
    BY DEF Waits
  <2>1. frames'[i].merge = NoBlock /\ frames'[i].other = NoBlock
    OBVIOUS
  <2> QED
    BY <2>1
<1>8. FlowShape'
  <2>1. OrderedDefers(deferred')
    BY <1>5 DEF OrderedDefers, InOrder
  <2>2. \A i \in DOMAIN deferred' : DOMAIN deferred'[i].stmts = {}
    BY <1>5
  <2> QED
    BY <1>2, <2>1, <2>2 DEF FlowShape, OpenBlock
<1> QED
  BY <1>4, <1>6, <1>7, <1>8 DEF FlowInv

LEMMA BeginProcFlow ==
    ASSUME ContextInv, BeginProc
    PROVE  FlowInv'
<1> DEFINE bs == [b \in Blocks |-> OpenBlock]
           e == [stmts |-> <<>>, is_loop_base |-> FALSE]
<1>1. /\ blocks' = bs
      /\ nblocks' = 1
      /\ insert' = 1
      /\ frames' = <<[kind |-> "proc", stage |-> "body", merge |-> NoBlock,
                      other |-> NoBlock, old |-> NoLoop]>>
      /\ deferred' = Append(deferred, e)
      /\ frames = <<>>
  BY DEF BeginProc, push_defers
<1>2. deferred = <<>>
  BY <1>1 DEF ContextInv, TypeOK, DeferStackMatchesBodies
<1>3. deferred' = <<e>>
  BY <1>1, <1>2
<1>4. bs \in [Blocks -> Block]
  <2>1. OpenBlock \in Block
    BY DEF OpenBlock, Block
  <2> QED
    BY <2>1
<1> HIDE DEF bs
<1>5. bs = [b \in Blocks |-> OpenBlock]
  BY DEF bs
<1> QED
  BY <1>1, <1>3, <1>4, <1>5, FreshFlow

LEMMA EndProcFlow ==
    ASSUME ContextInv, FlowInv, EndProc
    PROVE  FlowInv'
<1>1. CASE CloseAborts
  BY <1>1, AbortFlow DEF CloseAborts
<1>2. CASE ~CloseAborts
  <2> DEFINE scopes == unpack_defers_regular
             bs == Unpack(blocks, insert, scopes)
  <2>1. frames # <<>> /\ Top(frames).kind = "proc"
    BY DEF EndProc, AtEnd
  <2>2. /\ blocks' = IF curr_block_has_terminator THEN blocks
                     ELSE RetFrom(bs, insert)
        /\ deferred' = pop_defers
        /\ frames' = Pop(frames)
        /\ UNCHANGED <<nblocks, insert, stmts>>
    BY <1>2 DEF EndProc
  <2>3. /\ insert \in Blocks
        /\ Len(frames) = 1
        /\ Len(deferred) = 1
        /\ frames \in Seq(Frame)
    BY <2>1, InBody, BodiesFromContext, ProcAlone DEF ContextInv, TypeOK
  <2>4. frames' = <<>>
    <3>1. Pop(frames) \in Seq(Frame) /\ Len(Pop(frames)) = Len(frames) - 1
      BY <2>1, <2>3, PopLemma
    <3> QED
      BY <2>2, <2>3, <3>1
  <2>5. PICK P \in [Blocks -> Pendings] : Edges(P) /\ Here(P) /\ Waits(P)
    BY DEF FlowInv
  <2>6. LeavesBlock(P, 1)
    <3>1. CASE curr_block_has_terminator
      BY <2>2, <3>1 DEF LeavesBlock
    <3>2. CASE ~curr_block_has_terminator
      <4>1. scopes = FromBackTo(1) /\ 1 \in 1..Len(deferred)
        BY <2>3 DEF unpack_defers_regular
      <4> HIDE DEF scopes
      <4>2. /\ bs \in [Blocks -> Block]
            /\ bs[insert].code = Append(blocks[insert].code,
                                    [op |-> "run", scopes |-> scopes])
            /\ bs[insert].succ = blocks[insert].succ
            /\ \A c \in Blocks \ {insert} : bs[c] = blocks[c]
        BY <2>3, <4>1, UnpackCode
      <4> HIDE DEF bs
      <4>3. /\ RetFrom(bs, insert)[insert].term = "ret"
            /\ RetFrom(bs, insert)[insert].succ = bs[insert].succ
            /\ \A c \in Blocks \ {insert} : RetFrom(bs, insert)[c] = bs[c]
        BY <2>3, <4>2, RetLemma
      <4>4. RetFrom(bs, insert)[insert].code = bs[insert].code
        BY <2>3, <4>2, TerminatorKeepsCode
      <4>5. blocks[insert].succ = {}
        BY <2>3, <3>2 DEF curr_block_has_terminator, FlowInv, FlowShape
      <4> QED
        BY <2>2, <3>2, <4>1, <4>2, <4>3, <4>4, <4>5 DEF LeavesBlock
    <3> QED
      BY <3>1, <3>2
  <2>7. /\ Edges(P)'
        /\ \A b \in Blocks : blocks'[b].term = "none" =>
               blocks'[b].succ = {} /\ blocks'[b].code = <<>>
        /\ \A b \in Blocks : blocks'[b].succ \subseteq 1..nblocks'
    BY <2>1, <2>2, <2>5, <2>6, LeaveFlow DEF FlowInv
  <2>8. /\ OrderedDefers(deferred')
        /\ \A i \in DOMAIN deferred' : \A j \in DOMAIN deferred'[i].stmts :
               deferred'[i].stmts[j] <= stmts'
    BY <2>1, <2>2, ClosedStack DEF FlowInv
  <2>9. Here(P)' /\ Waits(P)'
    BY <2>4 DEF Here, Waits
  <2>10. FlowShape'
    BY <2>7, <2>8 DEF FlowShape
  <2> QED
    BY <2>7, <2>9, <2>10 DEF FlowInv
<1> QED
  BY <1>1, <1>2

-----------------------------------------------------------------------------
(* The invariance theorem *)

LEMMA FlowInit == Init => FlowInv
<1> SUFFICES ASSUME Init PROVE FlowInv
  OBVIOUS
<1>1. /\ blocks = [b \in Blocks |-> OpenBlock]
      /\ frames = <<>>
      /\ deferred = <<>>
  BY DEF Init
<1>2. PICK P \in [Blocks -> Pendings] : \A b \in Blocks : P[b] = {}
  <2>1. [b \in Blocks |-> {}] \in [Blocks -> Pendings]
    BY DEF Pendings
  <2> QED
    BY <2>1
<1>3. 1 \in Blocks /\ \A b \in Blocks : blocks[b] = OpenBlock
  BY <1>1, SourceAssumption DEF Blocks
<1>4. Edges(P)
  BY <1>2, <1>3 DEF Edges, OpenBlock
<1>5. Here(P) /\ Waits(P)
  BY <1>1 DEF Here, Waits
<1>6. FlowShape
  BY <1>1, <1>3 DEF FlowShape, OpenBlock, OrderedDefers
<1> QED
  BY <1>4, <1>5, <1>6 DEF FlowInv

LEMMA FlowStep == ContextInv /\ BlocksInv /\ FlowInv /\ [Next]_vars => FlowInv'
<1> SUFFICES ASSUME ContextInv, BlocksInv, FlowInv, [Next]_vars
             PROVE  FlowInv'
  OBVIOUS
<1>1. CASE BeginProc
  BY <1>1, BeginProcFlow
<1>2. CASE PlainChild
  BY <1>2, SameFlow DEF PlainChild
<1>3. CASE UndispatchedChild
  BY <1>3, AbortFlow DEF UndispatchedChild
<1>4. CASE \E size \in LiteralSizes : generate_defer(size)
  BY <1>4, DeferFlow
<1>5. CASE \E leaves \in CondLeaves, has_else \in BOOLEAN :
               BeginBranch(leaves, has_else)
  BY <1>5, BranchFlow
<1>6. CASE EndIfBeginElse
  BY <1>6, ElseFlow
<1>7. CASE EndBranch
  BY <1>7, EndBranchFlow
<1>8. CASE BeginWhile
  BY <1>8, WhileFlow
<1>9. CASE \E leaves \in CondLeaves, has_cond \in BOOLEAN,
              has_update \in BOOLEAN : BeginFor(leaves, has_cond, has_update)
  BY <1>9, ForFlow
<1>10. CASE EndWhileOrFor
  BY <1>10, EndLoopFlow
<1>11. CASE BeginDoWhile
  BY <1>11, DoWhileFlow
<1>12. CASE EndDoWhile
  BY <1>12, EndDoWhileFlow
<1>13. CASE generate_brk \/ generate_cont
  BY <1>13, LeaveLoopFlow DEF generate_brk, generate_cont
<1>14. CASE generate_ret
  BY <1>14, RetFlow
<1>15. CASE EndProc
  BY <1>15, EndProcFlow
<1>16. CASE Finish
  BY <1>16, SameFlow DEF Finish
<1>17. CASE Halted \/ UNCHANGED vars
  BY <1>17, SameFlow DEF Halted, vars
<1> QED
  BY <1>1, <1>2, <1>3, <1>4, <1>5, <1>6, <1>7, <1>8, <1>9, <1>10, <1>11,
     <1>12, <1>13, <1>14, <1>15, <1>16, <1>17 DEF Next

\* Whatever a path has reached, it arrives with the calls of its block.
LEMMA ReachedAgree ==
    ASSUME ContextInv, NEW P \in [Blocks -> Pendings], Edges(P)
    PROVE  \A p \in Reached : p[1] \in Blocks /\ p[2] = P[p[1]]
<1> DEFINE Agreeing == SUBSET {<<b, P[b]>> : b \in Blocks}
           start == {<<1, {}>>}
           step == [z \in Agreeing \X (1..nblocks) |-> Onward(z[1])]
           IsRun(f) == f = [k \in 0..nblocks |-> IF k = 0 THEN start
                                                 ELSE Onward(f[k - 1])]
           run == CHOOSE f : IsRun(f)
<1>n. nblocks \in Nat
  BY DEF ContextInv, TypeOK
<1>1. Reached = run[nblocks]
  BY DEF Reached, ReachedAfter
<1>2. start \in Agreeing
  BY BlockParts, SourceAssumption DEF Edges, Blocks
<1>3. ASSUME NEW pairs \in Agreeing PROVE Onward(pairs) \in Agreeing
  <2> SUFFICES ASSUME NEW q \in Onward(pairs)
               PROVE  \E b \in Blocks : q = <<b, P[b]>>
    OBVIOUS
  <2>1. CASE q \in pairs
    BY <2>1
  <2>2. CASE q \notin pairs
    <3>1. PICK p \in pairs : \E s \in blocks[p[1]].succ :
              q = <<s, AtExit(p[1], p[2])>>
      BY <2>2 DEF Onward
    <3>2. PICK b \in Blocks : p = <<b, P[b]>>
      OBVIOUS
    <3>3. PICK s \in blocks[b].succ : q = <<s, AtExit(b, P[b])>>
      BY <3>1, <3>2
    <3>4. s \in Blocks /\ P[s] = AtExit(b, P[b])
      BY BlockParts DEF Edges
    <3> QED
      BY <3>3, <3>4
  <2> QED
    BY <2>1, <2>2
<1> HIDE DEF Agreeing, start
<1>4. step \in [Agreeing \X (1..nblocks) -> Agreeing]
  BY <1>3
<1>5. \A a \in Agreeing, k \in 1..nblocks : step[<<a, k>>] = Onward(a)
  OBVIOUS
<1> HIDE DEF step
<1>6. PICK g \in [0..nblocks -> Agreeing] : RunsBy(g, step, start, nblocks)
  BY <1>n, <1>2, <1>4, RunExists
<1>7. \A k \in 1..nblocks : g[k] = Onward(g[k - 1])
  <2> TAKE k \in 1..nblocks
  <2>1. g[k - 1] \in Agreeing
    BY <1>n, <1>6
  <2> QED
    BY <1>5, <1>6, <2>1 DEF RunsBy
<1>8. IsRun(g)
  <2>1. \A k \in 0..nblocks : g[k] = IF k = 0 THEN start ELSE Onward(g[k - 1])
    <3> TAKE k \in 0..nblocks
    <3>1. k = 0 \/ k \in 1..nblocks
      BY <1>n
    <3> QED
      BY <1>6, <1>7, <3>1 DEF RunsBy
  <2> QED
    BY <2>1
<1>9. IsRun(run)
  <2> HIDE DEF IsRun
  <2> QED
    BY <1>8
<1> HIDE DEF run
<1>10. \A k \in 0..nblocks :
           run[k] = IF k = 0 THEN start ELSE Onward(run[k - 1])
  BY <1>9
<1>11. run[0] \in Agreeing
  BY <1>n, <1>2, <1>10
<1>12. \A k \in 1..nblocks : run[k - 1] \in Agreeing => run[k] \in Agreeing
  <2> TAKE k \in 1..nblocks
  <2>1. k \in 0..nblocks /\ k # 0
    BY <1>n
  <2> QED
    BY <1>3, <1>10, <2>1
<1>13. run[nblocks] \in Agreeing
  <2>1. \A k \in 0..nblocks : run[k] \in Agreeing
    BY <1>n, <1>11, <1>12, StepsTyped
  <2> QED
    BY <1>n, <2>1
<1> QED
  BY <1>1, <1>13 DEF Agreeing

\* On every path through a finished function each deferred call runs exactly
\* when and as often as the source says, whatever the nesting of bodies, loops
\* and exits.
THEOREM EveryPathRunsItsDefersHolds == Spec => []EveryPathRunsItsDefers
<1>1. Init => FlowInv
  BY FlowInit
<1>2. ContextInv /\ BlocksInv /\ FlowInv /\ [Next]_vars => FlowInv'
  BY FlowStep
<1>3. ContextInv /\ FlowInv => EveryPathRunsItsDefers
  <2> SUFFICES ASSUME ContextInv, FlowInv PROVE EveryPathRunsItsDefers
    OBVIOUS
  <2>1. PICK P \in [Blocks -> Pendings] : Edges(P)
    BY DEF FlowInv
  <2>2. \A p \in Reached : p[1] \in Blocks /\ p[2] = P[p[1]]
    BY <2>1, ReachedAgree
  <2> HIDE DEF Reached
  <2>3. \A p \in Reached : blocks[p[1]].term = "ret" => AtExit(p[1], p[2]) = {}
    BY <2>1, <2>2 DEF Edges
  <2> QED
    BY <2>2, <2>3 DEF EveryPathRunsItsDefers
<1> QED
  BY <1>1, <1>2, <1>3, ContextInvariance, BlocksInvariance, PTL DEF Spec
=============================================================================
