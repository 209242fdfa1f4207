-------------------------- MODULE ProcCodegenFlow --------------------------
(***************************************************************************)
(* What the control-flow graph emitted by ProcCodegen does when it runs.   *)
(*                                                                         *)
(* A deferred call is pending from the moment control passes the place of  *)
(* its defer statement until it is called.  The operators below follow     *)
(* the pending calls along every path of the finished function, knowing    *)
(* nothing of the data structures of the code generator.                   *)
(***************************************************************************)
EXTENDS ProcCodegen, FiniteSets

\* A pending call is <<depth of the body it was deferred in, defer>>.
\* The next one to run: deepest body first, in source order within a body.
IsNext(p, pending) ==
    \A q \in pending : p[1] > q[1] \/ (p[1] = q[1] /\ p[2] <= q[2])
NextPending(pending) == CHOOSE p \in pending : IsNext(p, pending)

Stuck == {<<-1, -1>>}      \* a call ran out of turn or was not pending

\* The elements of s in turn, from start: FoldLeft as a recursive function.
Through(Op(_, _), start, s) ==
    LET after[n \in 0..Len(s)] == IF n = 0 THEN start ELSE Op(after[n - 1], s[n])
    IN  after[Len(s)]

Call(pending, d) ==
    IF pending \in {{}, Stuck} \/ NextPending(pending)[2] # d
    THEN Stuck
    ELSE pending \ {NextPending(pending)}
RunScope(pending, calls) == Through(Call, pending, calls)

RunEvent(pending, ev) ==
    IF pending = Stuck THEN Stuck
    ELSE IF ev.op = "reg" THEN pending \cup {<<ev.depth, ev.d>>}
    ELSE Through(RunScope, pending, ev.scopes)
RunCode(pending, code) == Through(RunEvent, pending, code)

AtExit(b, pending) == RunCode(pending, blocks[b].code)

\* All <<block, pending calls at its head>> that paths of up to n branches from
\* the entry reach.  If all paths agree, every block that one of them reaches
\* is reached within nblocks branches; if not, two that differ meet by then.
Onward(pairs) ==
    pairs \cup UNION {{<<s, AtExit(p[1], p[2])>> : s \in blocks[p[1]].succ} : p \in pairs}
ReachedAfter ==
    LET after[n \in 0..nblocks] == IF n = 0 THEN {<<1, {}>>} ELSE Onward(after[n - 1])
    IN  after
Reached == ReachedAfter[nblocks]

FunctionFinished == status = "running" /\ procs > 0 /\ frames = <<>>

\* On every path through a finished function each deferred call runs exactly
\* once for each time its defer statement is passed, at the exit from the
\* body that defers it, deepest body first and in source order within a body
\* (unpack_defers and its three methods, defer.cpp): no call runs out of turn,
\* paths that meet agree on what is pending, and nothing is left at a return.
EveryPathRunsItsDefers ==
    FunctionFinished =>
        /\ \A p \in Reached :
               blocks[p[1]].term = "ret" => AtExit(p[1], p[2]) = {}
        /\ \A p, q \in Reached : p[1] = q[1] => p[2] = q[2]
=============================================================================
