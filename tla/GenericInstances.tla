-------------------------- MODULE GenericInstances --------------------------
(***************************************************************************)
(* What the compiler promises of generic procedures, without the parser,   *)
(* the tables or the worklist that keep the promise: the instances of an   *)
(* accepted program are those that the source asks for, directly or        *)
(* through the bodies of other instances, and each of them gets one body,  *)
(* which says what else is asked for.                                      *)
(***************************************************************************)
EXTENDS Naturals, FiniteSets

CONSTANT Source      \* the procedures without type parameters, taken as one

VARIABLES
    stage,   \* "source", "building", "accepted" or "failed"
    wants,   \* the bodies begun: for each the instances it asks for
    built    \* the instances that have their body

vars == <<stage, wants, built>>

asked == UNION {wants[b] : b \in DOMAIN wants}
begun == DOMAIN wants \ {Source}

Init ==
    /\ stage = "source"
    /\ wants = [b \in {Source} |-> {}]
    /\ built = {}

\* One body, the source's or that of an instance that is not complete, asks
\* for one more instance.
Ask(b) ==
    /\ stage = IF b = Source THEN "source" ELSE "building"
    /\ b \notin built
    /\ DOMAIN wants' = DOMAIN wants
    /\ \E i \in wants'[b] \ wants[b] :
           wants' = [wants EXCEPT ![b] = @ \cup {i}]
    /\ UNCHANGED <<stage, built>>

EndOfSource ==
    /\ stage = "source"
    /\ stage' = "building"
    /\ UNCHANGED <<wants, built>>

\* One instance is built at a time, and none of them twice.
Begin(i) ==
    /\ stage = "building"
    /\ i \in asked \ begun
    /\ begun \subseteq built
    /\ wants' = [b \in DOMAIN wants \cup {i} |-> IF b = i THEN {} ELSE wants[b]]
    /\ UNCHANGED <<stage, built>>

Complete(i) ==
    /\ stage = "building"
    /\ i \in begun \ built
    /\ built' = built \cup {i}
    /\ UNCHANGED <<stage, wants>>

Accept ==
    /\ stage = "building"
    /\ asked = built
    /\ stage' = "accepted"
    /\ UNCHANGED <<wants, built>>

Fail ==
    /\ stage \in {"source", "building"}
    /\ stage' = "failed"
    /\ UNCHANGED <<wants, built>>

Next ==
    \/ \E b \in DOMAIN wants : Ask(b)
    \/ EndOfSource
    \/ \E i \in asked : Begin(i) \/ Complete(i)
    \/ Accept \/ Fail

\* What no step may do.
Safety == Init /\ [][Next]_vars

\* The instances can ask for others, but not for ever.
Ends == stage = "building" ~> stage \in {"accepted", "failed"}

Spec == Safety /\ Ends
=============================================================================
