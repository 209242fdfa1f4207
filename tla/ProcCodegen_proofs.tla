------------------------- MODULE ProcCodegen_proofs -------------------------
(***************************************************************************)
(* Proofs about ProcCodegen for every set of statements, every number of   *)
(* statements and procedures.                                              *)
(***************************************************************************)
EXTENDS ProcCodegen, SequenceTheorems, TLAPS

-----------------------------------------------------------------------------
(* Stacks *)

\* A prefix of a sequence has its first elements.
LEMMA PrefixLemma ==
    ASSUME NEW S, NEW s \in Seq(S), NEW n \in Nat, n <= Len(s)
    PROVE  /\ SubSeq(s, 1, n) \in Seq(S)
           /\ Len(SubSeq(s, 1, n)) = n
           /\ \A i \in 1..n : SubSeq(s, 1, n)[i] = s[i]
<1>1. \A i \in 1..n : s[i] \in S
  OBVIOUS
<1>2. /\ SubSeq(s, 1, n) \in Seq(S)
      /\ Len(SubSeq(s, 1, n)) = IF 1 <= n THEN n - 1 + 1 ELSE 0
      /\ \A i \in 1..(n - 1 + 1) : SubSeq(s, 1, n)[i] = s[1 + i - 1]
  BY <1>1, SubSeqProperties
<1>3. (IF 1 <= n THEN n - 1 + 1 ELSE 0) = n /\ n - 1 + 1 = n
  OBVIOUS
<1>4. \A i \in 1..n : 1 + i - 1 = i
  OBVIOUS
<1> QED
  BY <1>2, <1>3, <1>4, Zenon

\* Popping a stack keeps every element below its top.
LEMMA PopLemma ==
    ASSUME NEW S, NEW s \in Seq(S), s # <<>>
    PROVE  /\ Len(s) \in Nat \ {0}
           /\ Top(s) \in S
           /\ Pop(s) \in Seq(S)
           /\ Len(Pop(s)) = Len(s) - 1
           /\ \A i \in 1..(Len(s) - 1) : Pop(s)[i] = s[i]
<1>1. Len(s) \in Nat \ {0} /\ Len(s) - 1 \in Nat /\ Len(s) - 1 <= Len(s)
  OBVIOUS
<1>2. Top(s) \in S
  BY <1>1 DEF Top
<1> QED
  BY <1>1, <1>2, PrefixLemma, Zenon DEF Pop

\* Replacing the top of a stack changes nothing below it.
LEMMA SetTopLemma ==
    ASSUME NEW S, NEW s \in Seq(S), s # <<>>, NEW e \in S
    PROVE  /\ SetTop(s, e) \in Seq(S)
           /\ Len(SetTop(s, e)) = Len(s)
           /\ SetTop(s, e)[Len(s)] = e
           /\ \A i \in 1..(Len(s) - 1) : SetTop(s, e)[i] = s[i]
  BY DEF SetTop

\* Pushing onto a stack changes nothing below the new top.
LEMMA PushLemma ==
    ASSUME NEW S, NEW s \in Seq(S), NEW e \in S
    PROVE  /\ Append(s, e) \in Seq(S)
           /\ Len(s) \in Nat
           /\ Len(Append(s, e)) = Len(s) + 1
           /\ Append(s, e)[Len(s) + 1] = e
           /\ \A i \in 1..Len(s) : Append(s, e)[i] = s[i]
  OBVIOUS

-----------------------------------------------------------------------------
(* Basic blocks *)

\* Emitting an event touches the code of one block only.
LEMMA EmitLemma ==
    ASSUME NEW bs \in [Blocks -> Block], NEW b \in Blocks, NEW ev \in Event
    PROVE  /\ Emit(bs, b, ev) \in [Blocks -> Block]
           /\ \A c \in Blocks : /\ Emit(bs, b, ev)[c].term = bs[c].term
                                /\ Emit(bs, b, ev)[c].succ = bs[c].succ
           /\ \A c \in Blocks \ {b} : Emit(bs, b, ev)[c] = bs[c]
<1> DEFINE new == [bs[b] EXCEPT !.code = Append(@, ev)]
<1>1. bs[b] \in Block
  OBVIOUS
<1>2. Append(bs[b].code, ev) \in Seq(Event)
  BY <1>1 DEF Block
<1>3. new \in Block /\ new.term = bs[b].term /\ new.succ = bs[b].succ
  BY <1>1, <1>2 DEF Block
<1>4. Emit(bs, b, ev) = [bs EXCEPT ![b] = new]
  BY DEF Emit
<1> HIDE DEF new
<1> QED
  BY <1>3, <1>4

\* Br terminates one block and leaves every other one alone.
LEMMA BrLemma ==
    ASSUME NEW bs \in [Blocks -> Block], NEW b \in Blocks,
           NEW to \in SUBSET Blocks
    PROVE  /\ Br(bs, b, to) \in [Blocks -> Block]
           /\ Br(bs, b, to)[b].term = "br"
           /\ Br(bs, b, to)[b].succ = to
           /\ \A c \in Blocks \ {b} : Br(bs, b, to)[c] = bs[c]
<1> DEFINE new == [bs[b] EXCEPT !.term = "br", !.succ = to]
<1>1. bs[b] \in Block
  OBVIOUS
<1>2. new \in Block /\ new.term = "br" /\ new.succ = to
  BY <1>1 DEF Block
<1>3. Br(bs, b, to) = [bs EXCEPT ![b] = new]
  BY <1>1 DEF Br, Block
<1> HIDE DEF new
<1> QED
  BY <1>2, <1>3

\* RetFrom terminates one block and leaves every other one alone.
LEMMA RetLemma ==
    ASSUME NEW bs \in [Blocks -> Block], NEW b \in Blocks
    PROVE  /\ RetFrom(bs, b) \in [Blocks -> Block]
           /\ RetFrom(bs, b)[b].term = "ret"
           /\ RetFrom(bs, b)[b].succ = bs[b].succ
           /\ \A c \in Blocks \ {b} : RetFrom(bs, b)[c] = bs[c]
<1> DEFINE new == [bs[b] EXCEPT !.term = "ret"]
<1>1. bs[b] \in Block
  OBVIOUS
<1>2. new \in Block /\ new.term = "ret" /\ new.succ = bs[b].succ
  BY <1>1 DEF Block
<1>3. RetFrom(bs, b) = [bs EXCEPT ![b] = new]
  BY <1>1 DEF RetFrom, Block
<1> HIDE DEF new
<1> QED
  BY <1>2, <1>3

-----------------------------------------------------------------------------
(* Invariants the proofs need beside the ones ProcCodegen states *)

\* The call stack: a procedure is the outermost activation and the only one
\* of its kind, and code is inserted somewhere while it is open.
CallStack ==
    /\ \A i \in DOMAIN frames : frames[i].kind = "proc" <=> i = 1
    /\ frames = <<>> <=> curr_proc = 0
    /\ frames # <<>> => insert \in 1..nblocks

\* The blocks an activation remembers exist, and none of them is the entry.
FrameOK(f, n) ==
    /\ f.kind # "branch" => f.stage = "body"
    /\ f.kind = "proc" => f.merge = NoBlock /\ f.other = NoBlock
    /\ f.kind # "proc" => f.merge \in 2..n
    /\ f.kind \in LoopKinds => f.other \in 2..n
    /\ f.other \in {NoBlock} \cup 2..n

FrameBlocks == \A i \in DOMAIN frames : FrameOK(frames[i], nblocks)

\* What is needed to show that a step preserves the types and the context.
ContextInv ==
    /\ TypeOK
    /\ CallStack
    /\ FrameBlocks
    /\ DeferStackMatchesBodies
    /\ LoopContextIsInnermost
    /\ JumpAndEntryAssertsHold

-----------------------------------------------------------------------------
(* Deferred calls *)

\* Unpacking from the back of the stack down to an element of it emits lists
\* of deferred calls.
LEMMA UnpackType ==
    ASSUME TypeOK, NEW base \in 1..(Len(deferred) + 1)
    PROVE  /\ FromBackTo(base) \in Seq(Seq(Defers))
           /\ [op |-> "run", scopes |-> FromBackTo(base)] \in Event
<1> DEFINE n == Len(deferred) - base + 1
<1>1. deferred \in Seq(DeferredStackElement) /\ Len(deferred) \in Nat
  BY DEF TypeOK
<1>2. n \in Nat
  BY <1>1
<1>3. ASSUME NEW i \in 1..n
      PROVE  deferred[Len(deferred) + 1 - i].stmts \in Seq(Defers)
  <2>1. Len(deferred) + 1 - i \in 1..Len(deferred)
    BY <1>1
  <2>2. deferred[Len(deferred) + 1 - i] \in DeferredStackElement
    BY <1>1, <2>1
  <2> QED
    BY <2>2 DEF DeferredStackElement
<1>4. FromBackTo(base) = [i \in 1..n |-> deferred[Len(deferred) + 1 - i].stmts]
  BY DEF FromBackTo
<1>5. FromBackTo(base) \in Seq(Seq(Defers))
  <2> HIDE DEF n
  <2> QED
    BY <1>2, <1>3, <1>4
<1> QED
  BY <1>5 DEF Event

\* Regenerating the literals of some calls gives literals, if none of them
\* fails the assert on its size.
LEMMA GeneratedType ==
    ASSUME TypeOK, NEW scopes, ~LiteralTooShort(scopes)
    PROVE  Generated(scopes) \in [Defers -> Literal]
<1>1. ASSUME NEW d \in Defers
      PROVE  lit[d] \in Literal
  BY DEF TypeOK
<1>2. ASSUME NEW d \in Defers, d \in DefersIn(scopes)
      PROVE  generate_singleton_literal(lit[d]) \in Literal
  <2>1. lit[d] \in Literal /\ lit[d].size # 1
    BY <1>1, <1>2 DEF LiteralTooShort
  <2> QED
    BY <2>1 DEF generate_singleton_literal, Literal
<1> QED
  BY <1>1, <1>2 DEF Generated

\* What closing a body (the defers of its scope, then a branch) does.
LEMMA CloseLemma ==
    ASSUME TypeOK, CloseProceeds, insert \in Blocks, Len(deferred) >= 1,
           NEW to \in Blocks
    PROVE  /\ ClosedBlocks(to) \in [Blocks -> Block]
           /\ ClosedLit \in [Defers -> Literal]
           /\ ClosedBlocks(to)[insert].term # "none"
           /\ ClosedBlocks(to)[insert].succ \in {blocks[insert].succ, {to}}
           /\ \A c \in Blocks \ {insert} : ClosedBlocks(to)[c] = blocks[c]
           /\ blocks[insert].term # "none" => ClosedBlocks(to) = blocks
<1> USE DEF CloseProceeds, ClosedBlocks, ClosedLit
<1>1. CASE curr_block_has_terminator
  BY <1>1 DEF TypeOK, curr_block_has_terminator
<1>2. CASE ~curr_block_has_terminator
  <2> DEFINE scopes == unpack_defers_regular
             run    == [op |-> "run", scopes |-> scopes]
  <2>1. Len(deferred) \in 1..(Len(deferred) + 1)
    BY DEF TypeOK
  <2>2. run \in Event
    BY <2>1, UnpackType DEF unpack_defers_regular
  <2>3. ~LiteralTooShort(scopes)
    BY <1>2
  <2>4. Generated(scopes) \in [Defers -> Literal]
    BY <2>3, GeneratedType
  <2>5. blocks \in [Blocks -> Block]
    BY DEF TypeOK
  <2> DEFINE bs == Emit(blocks, insert, run)
  <2>6. /\ bs \in [Blocks -> Block]
        /\ \A c \in Blocks \ {insert} : bs[c] = blocks[c]
    BY <2>2, <2>5, EmitLemma
  <2>7. /\ Br(bs, insert, {to}) \in [Blocks -> Block]
        /\ Br(bs, insert, {to})[insert].term = "br"
        /\ Br(bs, insert, {to})[insert].succ = {to}
        /\ \A c \in Blocks \ {insert} : Br(bs, insert, {to})[c] = bs[c]
    <3> HIDE DEF bs
    <3> QED
      BY <2>6, BrLemma
  <2>8. ClosedBlocks(to) = Br(bs, insert, {to})
    BY <1>2 DEF Unpack
  <2>9. ClosedLit = Generated(scopes)
    BY <1>2
  <2> HIDE DEF bs, scopes, ClosedBlocks, ClosedLit
  <2> QED
    BY <1>2, <2>4, <2>6, <2>7, <2>8, <2>9 DEF curr_block_has_terminator
<1> QED
  BY <1>1, <1>2

-----------------------------------------------------------------------------
(* The innermost loop *)

\* The context of the innermost loop depends on nothing above it.
LEMMA InnermostPrefix ==
    ASSUME NEW fs, NEW gs, NEW l, NEW n \in Nat, Innermost(fs, l, n),
           \A i \in 1..n : /\ gs[i].kind = fs[i].kind
                           /\ gs[i].merge = fs[i].merge
                           /\ gs[i].other = fs[i].other
    PROVE  Innermost(gs, l, n)
  BY DEF Innermost, LoopOf

\* An activation that is no loop does not change the innermost loop.
LEMMA InnermostSkip ==
    ASSUME NEW fs, NEW l, NEW n \in Nat, fs[n + 1].kind \notin LoopKinds
    PROVE  Innermost(fs, l, n) <=> Innermost(fs, l, n + 1)
<1>1. ASSUME Innermost(fs, l, n) PROVE Innermost(fs, l, n + 1)
  <2>1. CASE l = NoLoop /\ \A i \in 1..n : fs[i].kind \notin LoopKinds
    <3>1. \A i \in 1..(n + 1) : fs[i].kind \notin LoopKinds
      BY <2>1
    <3> QED
      BY <2>1, <3>1 DEF Innermost
  <2>2. ASSUME NEW i \in 1..n, fs[i].kind \in LoopKinds, l = LoopOf(fs[i]),
               \A j \in (i + 1)..n : fs[j].kind \notin LoopKinds
        PROVE  Innermost(fs, l, n + 1)
    <3>1. i \in 1..(n + 1)
      OBVIOUS
    <3>2. \A j \in (i + 1)..(n + 1) : fs[j].kind \notin LoopKinds
      BY <2>2
    <3> QED
      BY <2>2, <3>1, <3>2 DEF Innermost
  <2> QED
    BY <1>1, <2>1, <2>2 DEF Innermost
<1>2. ASSUME Innermost(fs, l, n + 1) PROVE Innermost(fs, l, n)
  <2>1. CASE l = NoLoop /\ \A i \in 1..(n + 1) : fs[i].kind \notin LoopKinds
    <3>1. \A i \in 1..n : fs[i].kind \notin LoopKinds
      BY <2>1
    <3> QED
      BY <2>1, <3>1 DEF Innermost
  <2>2. ASSUME NEW i \in 1..(n + 1), fs[i].kind \in LoopKinds,
               l = LoopOf(fs[i]),
               \A j \in (i + 1)..(n + 1) : fs[j].kind \notin LoopKinds
        PROVE  Innermost(fs, l, n)
    <3>1. i \in 1..n
      <4>1. i # n + 1
        BY <2>2
      <4> QED
        BY <4>1
    <3>2. \A j \in (i + 1)..n : fs[j].kind \notin LoopKinds
      BY <2>2
    <3> QED
      BY <2>2, <3>1, <3>2 DEF Innermost
  <2> QED
    BY <1>2, <2>1, <2>2 DEF Innermost
<1> QED
  BY <1>1, <1>2

\* A loop on top is the innermost loop.
LEMMA InnermostTop ==
    ASSUME NEW fs, NEW n \in Nat \ {0}, fs[n].kind \in LoopKinds
    PROVE  Innermost(fs, LoopOf(fs[n]), n)
<1>1. n \in 1..n /\ \A j \in (n + 1)..n : FALSE
  OBVIOUS
<1> QED
  BY <1>1 DEF Innermost

-----------------------------------------------------------------------------
(* What opening, closing and continuing a body does to the context *)

\* The part of ContextInv about the open bodies.
BodiesInv ==
    /\ frames \in Seq(Frame)
    /\ deferred \in Seq(DeferredStackElement)
    /\ curr_loop \in Loop
    /\ CallStack
    /\ FrameBlocks
    /\ DeferStackMatchesBodies
    /\ LoopContextIsInnermost

LEMMA BodiesFromContext == ContextInv => BodiesInv
  BY DEF ContextInv, BodiesInv, TypeOK

\* What an activation keeps while it is on the stack: all of it, but that a
\* branch goes on with its else body.
KeepsBody(f, g) ==
    /\ g.kind = f.kind
    /\ g.merge = f.merge
    /\ g.other = f.other
    /\ g.old = f.old
    /\ f.kind # "branch" => g.stage = f.stage

\* A replaced top that is as much a loop base as the top it replaces changes no
\* loop base of the stack.
LEMMA SetTopKeepsBases ==
    ASSUME NEW s \in Seq(DeferredStackElement), s # <<>>,
           NEW e \in DeferredStackElement,
           e.is_loop_base = Top(s).is_loop_base
    PROVE  /\ SetTop(s, e) \in Seq(DeferredStackElement)
           /\ Len(SetTop(s, e)) = Len(s)
           /\ \A i \in 1..Len(s) :
                  SetTop(s, e)[i].is_loop_base = s[i].is_loop_base
<1>1. /\ SetTop(s, e) \in Seq(DeferredStackElement)
      /\ Len(SetTop(s, e)) = Len(s)
      /\ SetTop(s, e)[Len(s)] = e
      /\ \A i \in 1..(Len(s) - 1) : SetTop(s, e)[i] = s[i]
  BY SetTopLemma
<1>2. \A i \in 1..Len(s) : i = Len(s) \/ i \in 1..(Len(s) - 1)
  OBVIOUS
<1> QED
  BY <1>1, <1>2 DEF Top

\* A step that opens and closes no body: the top of the defer stack may get
\* another call, and a branch may go on with its else body.
LEMMA StayStep ==
    ASSUME BodiesInv, curr_proc' = curr_proc, curr_loop' = curr_loop,
           nblocks \in Nat, nblocks' = nblocks,
           frames # <<>> => insert' \in 1..nblocks,
           frames' \in Seq(Frame), Len(frames') = Len(frames),
           \A i \in 1..Len(frames) : KeepsBody(frames[i], frames'[i]),
           deferred' \in Seq(DeferredStackElement),
           Len(deferred') = Len(deferred),
           \A i \in 1..Len(deferred) :
               deferred'[i].is_loop_base = deferred[i].is_loop_base
    PROVE  BodiesInv'
<1>0. /\ frames \in Seq(Frame)
      /\ DOMAIN frames = 1..Len(frames)
      /\ DOMAIN frames' = 1..Len(frames)
  BY DEF BodiesInv
<1>00. \A i \in 1..Len(frames) : /\ frames'[i].kind = frames[i].kind
                                 /\ frames'[i].merge = frames[i].merge
                                 /\ frames'[i].other = frames[i].other
                                 /\ frames'[i].old = frames[i].old
  BY Zenon DEF KeepsBody
<1>1. CallStack'
  <2>1. CallStack
    BY DEF BodiesInv
  <2>2. frames' = <<>> <=> frames = <<>>
    BY <1>0
  <2> QED
    BY <1>0, <1>00, <2>1, <2>2 DEF CallStack
<1>2. FrameBlocks'
  <2>1. ASSUME NEW i \in 1..Len(frames) PROVE FrameOK(frames'[i], nblocks)
    <3>1. FrameOK(frames[i], nblocks)
      BY DEF BodiesInv, FrameBlocks
    <3>2. KeepsBody(frames[i], frames'[i])
      OBVIOUS
    <3> QED
      BY <3>1, <3>2, Zenon DEF FrameOK, KeepsBody
  <2> QED
    BY <1>0, <2>1 DEF FrameBlocks
<1>3. DeferStackMatchesBodies'
  <2>1. DeferStackMatchesBodies
    BY DEF BodiesInv
  <2> QED
    BY <1>0, <1>00, <2>1 DEF DeferStackMatchesBodies
<1>4. LoopContextIsInnermost'
  <2>1. Innermost(frames', curr_loop', Len(frames'))
    <3>1. Innermost(frames, curr_loop, Len(frames)) /\ Len(frames) \in Nat
      BY <1>0 DEF BodiesInv, LoopContextIsInnermost
    <3> QED
      BY <1>00, <3>1, InnermostPrefix
  <2>2. ASSUME NEW i \in 1..Len(frames), frames[i].kind \in LoopKinds
        PROVE  Innermost(frames', frames[i].old, i - 1)
    <3>1. Innermost(frames, frames[i].old, i - 1) /\ i - 1 \in Nat
      BY <2>2 DEF BodiesInv, LoopContextIsInnermost
    <3>2. \A j \in 1..(i - 1) : j \in 1..Len(frames)
      BY DEF BodiesInv
    <3> QED
      BY <1>00, <3>1, <3>2, InnermostPrefix
  <2> QED
    BY <1>0, <1>00, <2>1, <2>2 DEF LoopContextIsInnermost
<1> QED
  BY <1>1, <1>2, <1>3, <1>4 DEF BodiesInv

\* A step that opens the body of a branch or of a loop.
LEMMA PushStep ==
    ASSUME BodiesInv, frames # <<>>, curr_proc' = curr_proc,
           nblocks \in Nat, nblocks' \in Nat, nblocks <= nblocks',
           insert' \in 1..nblocks',
           NEW f \in Frame, FrameOK(f, nblocks'), f.kind # "proc",
           frames' = Append(frames, f),
           deferred' = push_defers(f.kind \in LoopKinds),
           IF f.kind \in LoopKinds
           THEN f.old = curr_loop /\ curr_loop' = LoopOf(f)
           ELSE curr_loop' = curr_loop
    PROVE  BodiesInv'
<1> DEFINE n == Len(frames)
           e == [stmts |-> <<>>, is_loop_base |-> f.kind \in LoopKinds]
<1>0. frames \in Seq(Frame) /\ deferred \in Seq(DeferredStackElement)
  BY DEF BodiesInv
<1>1. /\ frames' \in Seq(Frame)
      /\ n \in Nat \ {0}
      /\ Len(frames') = n + 1
      /\ frames'[n + 1] = f
      /\ \A i \in 1..n : frames'[i] = frames[i]
  BY <1>0, PushLemma
<1>2. e \in DeferredStackElement
  BY DEF DeferredStackElement
<1>3. /\ deferred' \in Seq(DeferredStackElement)
      /\ Len(deferred') = Len(deferred) + 1
      /\ deferred'[Len(deferred) + 1] = e
      /\ \A i \in 1..Len(deferred) : deferred'[i] = deferred[i]
  <2> HIDE DEF e
  <2> QED
    BY <1>0, <1>2, PushLemma DEF push_defers, e
<1>4. Len(deferred) = n
  BY DEF BodiesInv, DeferStackMatchesBodies
<1>5. CallStack'
  <2>1. \A i \in 1..(n + 1) : frames'[i].kind = "proc" <=> i = 1
    BY <1>1 DEF BodiesInv, CallStack
  <2> QED
    BY <1>1, <2>1 DEF BodiesInv, CallStack
<1>6. FrameBlocks'
  <2>1. ASSUME NEW i \in 1..n PROVE FrameOK(frames'[i], nblocks')
    BY <1>1 DEF BodiesInv, FrameBlocks, FrameOK
  <2> QED
    BY <1>1, <2>1 DEF FrameBlocks
<1>7. DeferStackMatchesBodies'
  <2>1. ASSUME NEW i \in 1..n
        PROVE  deferred'[i].is_loop_base <=> frames'[i].kind \in LoopKinds
    <3>1. /\ i \in DOMAIN frames
          /\ deferred'[i] = deferred[i]
          /\ frames'[i] = frames[i]
      BY <1>0, <1>1, <1>3, <1>4
    <3>2. deferred[i].is_loop_base <=> frames[i].kind \in LoopKinds
      BY <3>1, Zenon DEF BodiesInv, DeferStackMatchesBodies
    <3> QED
      BY <3>1, <3>2, Zenon
  <2>2. deferred'[n + 1].is_loop_base <=> frames'[n + 1].kind \in LoopKinds
    <3>1. deferred'[n + 1] = e /\ frames'[n + 1] = f
      BY <1>1, <1>3, <1>4
    <3>2. e.is_loop_base <=> f.kind \in LoopKinds
      BY Zenon
    <3> HIDE DEF e, n
    <3> QED
      BY <3>1, <3>2, Zenon
  <2>3. Len(deferred') = Len(frames')
    BY <1>1, <1>3, <1>4
  <2>4. \A i \in DOMAIN frames' : i \in 1..n \/ i = n + 1
    BY <1>1
  <2> HIDE DEF n
  <2> QED
    BY <2>1, <2>2, <2>3, <2>4, Zenon DEF DeferStackMatchesBodies
<1>8. \A l, m : m \in 0..n /\ Innermost(frames, l, m) => Innermost(frames', l, m)
  <2>1. ASSUME NEW l, NEW m \in 0..n, Innermost(frames, l, m)
        PROVE  Innermost(frames', l, m)
    <3>1. m \in Nat /\ \A i \in 1..m : frames'[i] = frames[i]
      BY <1>1
    <3> QED
      BY <2>1, <3>1, InnermostPrefix
  <2> QED
    BY <2>1
<1>9. Innermost(frames', curr_loop', n + 1)
  <2>1. CASE f.kind \in LoopKinds
    <3>1. n + 1 \in Nat \ {0} /\ frames'[n + 1] = f /\ curr_loop' = LoopOf(f)
      BY <1>1, <2>1
    <3>2. Innermost(frames', LoopOf(frames'[n + 1]), n + 1)
      BY <2>1, <3>1, InnermostTop
    <3> QED
      BY <3>1, <3>2
  <2>2. CASE f.kind \notin LoopKinds
    <3>1. Innermost(frames', curr_loop, n)
      BY <1>1, <1>8 DEF BodiesInv, LoopContextIsInnermost
    <3>2. n \in Nat /\ frames'[n + 1].kind \notin LoopKinds
      BY <1>1, <2>2
    <3>3. Innermost(frames', curr_loop, n + 1)
      BY <3>1, <3>2, InnermostSkip
    <3> QED
      BY <2>2, <3>3
  <2> QED
    BY <2>1, <2>2
<1>10. ASSUME NEW i \in 1..(n + 1), frames'[i].kind \in LoopKinds
       PROVE  Innermost(frames', frames'[i].old, i - 1)
  <2>1. CASE i \in 1..n
    <3>1. frames'[i] = frames[i] /\ i - 1 \in 0..n /\ i \in DOMAIN frames
      BY <1>1, <2>1 DEF BodiesInv
    <3>2. Innermost(frames, frames[i].old, i - 1)
      BY <1>10, <3>1 DEF BodiesInv, LoopContextIsInnermost
    <3> QED
      BY <1>8, <3>1, <3>2, Zenon
  <2>2. CASE i = n + 1
    <3>1. Innermost(frames', curr_loop, n)
      BY <1>1, <1>8 DEF BodiesInv, LoopContextIsInnermost
    <3>2. frames'[i] = f /\ i - 1 = n
      BY <1>1, <2>2
    <3> QED
      BY <1>10, <3>1, <3>2
  <2> QED
    BY <1>1, <2>1, <2>2
<1>11. curr_loop' \in Loop
  BY DEF BodiesInv, LoopOf, Loop, Frame
<1> QED
  BY <1>1, <1>3, <1>5, <1>6, <1>7, <1>9, <1>10, <1>11
  DEF BodiesInv, LoopContextIsInnermost

\* A step that closes the body of a branch or of a loop: code continues in
\* its merge block, and a loop restores the context it replaced.
LEMMA PopStep ==
    ASSUME BodiesInv, frames # <<>>, Top(frames).kind # "proc",
           curr_proc' = curr_proc, nblocks \in Nat, nblocks' = nblocks,
           insert' = Top(frames).merge,
           frames' = Pop(frames), deferred' = pop_defers,
           curr_loop' = IF Top(frames).kind \in LoopKinds
                        THEN Top(frames).old ELSE curr_loop
    PROVE  BodiesInv'
<1> DEFINE n == Len(frames)
<1>0. frames \in Seq(Frame) /\ deferred \in Seq(DeferredStackElement)
  BY DEF BodiesInv
<1>1. /\ n \in Nat \ {0}
      /\ Top(frames) \in Frame
      /\ Top(frames) = frames[n]
      /\ frames' \in Seq(Frame)
      /\ Len(frames') = n - 1
      /\ \A i \in 1..(n - 1) : frames'[i] = frames[i]
  BY <1>0, PopLemma DEF Top
<1>2. Len(deferred) = n
  BY DEF BodiesInv, DeferStackMatchesBodies
<1>3. /\ deferred' \in Seq(DeferredStackElement)
      /\ Len(deferred') = n - 1
      /\ \A i \in 1..(n - 1) : deferred'[i] = deferred[i]
  <2>1. deferred # <<>>
    BY <1>0, <1>1, <1>2
  <2> QED
    BY <1>0, <1>2, <2>1, PopLemma DEF pop_defers
<1>4. CallStack'
  <2>0. \A i \in 1..n : frames[i].kind = "proc" <=> i = 1
    BY <1>0 DEF BodiesInv, CallStack
  <2>1. n # 1
    BY <1>1, <2>0
  <2>2. \A i \in 1..(n - 1) : frames'[i].kind = "proc" <=> i = 1
    BY <1>1, <2>0
  <2>3. FrameOK(frames[n], nblocks)
    BY <1>0, <1>1 DEF BodiesInv, FrameBlocks
  <2>4. insert' \in 1..nblocks'
    BY <1>1, <2>3 DEF FrameOK
  <2>5. frames # <<>> /\ frames' # <<>>
    BY <1>1, <2>1
  <2> QED
    BY <1>1, <2>2, <2>4, <2>5 DEF BodiesInv, CallStack
<1>5. FrameBlocks'
  <2>1. ASSUME NEW i \in 1..(n - 1) PROVE FrameOK(frames'[i], nblocks)
    <3>1. i \in DOMAIN frames /\ frames'[i] = frames[i]
      BY <1>0, <1>1
    <3> QED
      BY <3>1 DEF BodiesInv, FrameBlocks
  <2> QED
    BY <1>1, <2>1 DEF FrameBlocks
<1>6. DeferStackMatchesBodies'
  <2>1. ASSUME NEW i \in 1..(n - 1)
        PROVE  deferred'[i].is_loop_base <=> frames'[i].kind \in LoopKinds
    <3>1. /\ i \in DOMAIN frames
          /\ deferred'[i] = deferred[i]
          /\ frames'[i] = frames[i]
      BY <1>0, <1>1, <1>3
    <3>2. deferred[i].is_loop_base <=> frames[i].kind \in LoopKinds
      BY <3>1, Zenon DEF BodiesInv, DeferStackMatchesBodies
    <3> QED
      BY <3>1, <3>2, Zenon
  <2>2. Len(deferred') = Len(frames') /\ DOMAIN frames' = 1..(n - 1)
    BY <1>1, <1>3
  <2> HIDE DEF n
  <2> QED
    BY <2>1, <2>2, Zenon DEF DeferStackMatchesBodies
<1>7. ASSUME NEW l, NEW m \in 0..(n - 1), Innermost(frames, l, m)
      PROVE  Innermost(frames', l, m)
  <2>1. m \in Nat /\ \A i \in 1..m : frames'[i] = frames[i]
    BY <1>1
  <2> QED
    BY <1>7, <2>1, InnermostPrefix
<1>8. Innermost(frames', curr_loop', n - 1)
  <2>1. CASE Top(frames).kind \in LoopKinds
    <3>1. Innermost(frames, frames[n].old, n - 1) /\ n - 1 \in 0..(n - 1)
      BY <1>0, <1>1, <2>1 DEF BodiesInv, LoopContextIsInnermost
    <3> QED
      BY <1>1, <1>7, <2>1, <3>1
  <2>2. CASE Top(frames).kind \notin LoopKinds
    <3>1. Innermost(frames, curr_loop, n) /\ n - 1 + 1 = n
      BY <1>1 DEF BodiesInv, LoopContextIsInnermost
    <3>2. n - 1 \in Nat /\ frames[n - 1 + 1].kind \notin LoopKinds
      BY <1>1, <2>2
    <3>3. Innermost(frames, curr_loop, n - 1)
      BY <3>1, <3>2, InnermostSkip
    <3> QED
      BY <1>1, <1>7, <2>2, <3>3
  <2> QED
    BY <2>1, <2>2
<1>9. ASSUME NEW i \in 1..(n - 1), frames'[i].kind \in LoopKinds
      PROVE  Innermost(frames', frames'[i].old, i - 1)
  <2>1. Innermost(frames, frames[i].old, i - 1) /\ i - 1 \in 0..(n - 1)
    BY <1>0, <1>1, <1>9 DEF BodiesInv, LoopContextIsInnermost
  <2> QED
    BY <1>1, <1>7, <2>1
<1>10. curr_loop' \in Loop
  BY <1>1 DEF BodiesInv, Frame
<1> QED
  BY <1>1, <1>3, <1>4, <1>5, <1>6, <1>8, <1>9, <1>10
  DEF BodiesInv, LoopContextIsInnermost

-----------------------------------------------------------------------------
(* The steps *)

\* The types of what is not part of the context of the open bodies.
DataOK ==
    /\ status \in Statuses
    /\ procs \in 0..MaxProcs
    /\ curr_proc \in 0..MaxProcs
    /\ casting \in BOOLEAN
    /\ blocks \in [Blocks -> Block]
    /\ nblocks \in 0..(1 + 4 * stmts)
    /\ insert \in 0..nblocks
    /\ stmts \in 0..MaxStmts
    /\ lit \in [Defers -> Literal]

LEMMA Assemble == DataOK' /\ BodiesInv' /\ JumpAndEntryAssertsHold' => ContextInv'
  BY DEF DataOK, BodiesInv, ContextInv, TypeOK

\* The data after a step: a statement may create up to four blocks, the end
\* of a body creates none.
LEMMA DataStep ==
    ASSUME DataOK, UNCHANGED <<procs, curr_proc>>, status' \in Statuses,
           casting' \in BOOLEAN, blocks' \in [Blocks -> Block],
           lit' \in [Defers -> Literal], insert' \in 0..nblocks',
           \/ UNCHANGED <<stmts, nblocks>>
           \/ /\ stmts < MaxStmts
              /\ stmts' = stmts + 1
              /\ nblocks' \in nblocks..(nblocks + 4)
    PROVE  DataOK'
<1>1. stmts' \in 0..MaxStmts
  BY SourceAssumption DEF DataOK
<1>2. nblocks' \in 0..(1 + 4 * stmts')
  <2>1. CASE UNCHANGED <<stmts, nblocks>>
    BY <2>1 DEF DataOK
  <2>2. CASE stmts' = stmts + 1 /\ nblocks' \in nblocks..(nblocks + 4)
    <3>1. nblocks \in Nat /\ stmts \in Nat /\ nblocks <= 1 + 4 * stmts
      BY SourceAssumption DEF DataOK
    <3>2. nblocks' \in Nat /\ nblocks' <= 1 + 4 * (stmts + 1)
      BY <2>2, <3>1
    <3> QED
      BY <2>2, <3>1, <3>2
  <2> QED
    BY <2>1, <2>2
<1> QED
  BY <1>1, <1>2 DEF DataOK

LEMMA DataFromContext == ContextInv => DataOK
  BY DEF DataOK, ContextInv, TypeOK

\* An assert or a panic changes nothing but the status.
LEMMA AbortStep ==
    ASSUME ContextInv, NEW why \in Statuses \ {"assert_inside_loop",
               "panic_loop_base", "assert_enter_proc"}, Abort(why)
    PROVE  ContextInv'
<1>1. BodiesInv'
  BY BodiesFromContext
  DEF Abort, BodiesInv, CallStack, FrameBlocks, DeferStackMatchesBodies,
      LoopContextIsInnermost
<1>2. DataOK'
  BY DEF Abort, DataOK, ContextInv, TypeOK
<1>3. JumpAndEntryAssertsHold'
  BY DEF Abort, JumpAndEntryAssertsHold
<1> QED
  BY <1>1, <1>2, <1>3, Assemble

\* While a child is generated there is a body to generate it in, its block
\* exists, and there is room for the blocks of one more statement.
LEMMA InBody ==
    ASSUME ContextInv, frames # <<>>
    PROVE  /\ insert \in 1..nblocks
           /\ insert \in Blocks
           /\ Len(frames) \in Nat \ {0}
           /\ Len(deferred) = Len(frames)
           /\ deferred # <<>>
           /\ Top(frames) \in Frame
           /\ Top(frames) = frames[Len(frames)]
           /\ FrameOK(Top(frames), nblocks)
           /\ Top(deferred) \in DeferredStackElement
           /\ NextChild => nblocks + 4 \in Blocks
<1>1. /\ frames \in Seq(Frame)
      /\ deferred \in Seq(DeferredStackElement)
      /\ nblocks \in 0..(1 + 4 * stmts)
      /\ stmts \in 0..MaxStmts
      /\ MaxStmts \in Nat
  BY SourceAssumption DEF ContextInv, TypeOK
<1>2. insert \in 1..nblocks
  BY DEF ContextInv, CallStack
<1>3. insert \in Blocks
  BY <1>1, <1>2 DEF Blocks
<1>4. Len(frames) \in Nat \ {0} /\ Top(frames) \in Frame
  BY <1>1, PopLemma
<1>5. Len(deferred) = Len(frames)
  BY DEF ContextInv, DeferStackMatchesBodies
<1>6. deferred # <<>>
  BY <1>1, <1>4, <1>5
<1>7. Top(deferred) \in DeferredStackElement
  BY <1>1, <1>6, PopLemma
<1>8. FrameOK(Top(frames), nblocks)
  <2>1. Len(frames) \in DOMAIN frames
    BY <1>1, <1>4
  <2> QED
    BY <2>1 DEF ContextInv, FrameBlocks, Top
<1>9. NextChild => nblocks + 4 \in Blocks
  BY <1>1 DEF NextChild, Blocks
<1> QED
  BY <1>2, <1>3, <1>4, <1>5, <1>6, <1>7, <1>8, <1>9 DEF Top

LEMMA PlainChildStep == ContextInv /\ PlainChild => ContextInv'
<1> SUFFICES ASSUME ContextInv, PlainChild PROVE ContextInv'
  OBVIOUS
<1> USE DEF PlainChild
<1>1. BodiesInv'
  BY BodiesFromContext
  DEF BodiesInv, CallStack, FrameBlocks, DeferStackMatchesBodies,
      LoopContextIsInnermost
<1>2. DataOK'
  <2>1. nblocks' \in nblocks..(nblocks + 4)
    BY DEF ContextInv, TypeOK
  <2>2. DataOK
    BY DataFromContext
  <2> QED
    BY <2>1, <2>2, DataStep DEF NextChild, DataOK
<1>3. JumpAndEntryAssertsHold'
  BY DEF JumpAndEntryAssertsHold, ContextInv
<1> QED
  BY <1>1, <1>2, <1>3, Assemble

LEMMA DeferStep ==
    ASSUME ContextInv, NEW size \in LiteralSizes, generate_defer(size)
    PROVE  ContextInv'
<1> DEFINE d == stmts + 1
           new == [Top(deferred) EXCEPT !.stmts = Append(@, d)]
           ev  == [op |-> "reg", d |-> d, depth |-> Len(frames)]
<1>1. frames # <<>> /\ stmts < MaxStmts /\ status = "running"
  BY DEF generate_defer, generate, NextChild
<1>2. d \in Defers
  BY <1>1, SourceAssumption DEF ContextInv, TypeOK, Defers
<1>3. ev \in Event
  BY <1>1, <1>2, InBody DEF Event
<1>4. /\ new \in DeferredStackElement
      /\ new.is_loop_base = Top(deferred).is_loop_base
  BY <1>1, <1>2, InBody DEF DeferredStackElement
<1>5. /\ deferred' \in Seq(DeferredStackElement)
      /\ Len(deferred') = Len(deferred)
      /\ \A i \in 1..Len(deferred) :
             deferred'[i].is_loop_base = deferred[i].is_loop_base
  <2>1. deferred' = SetTop(deferred, new)
    BY DEF generate_defer
  <2>2. deferred \in Seq(DeferredStackElement) /\ deferred # <<>>
    BY <1>1, InBody DEF ContextInv, TypeOK
  <2> HIDE DEF new
  <2> QED
    BY <1>4, <2>1, <2>2, SetTopKeepsBases
<1>6. BodiesInv'
  <2>1. BodiesInv /\ frames \in Seq(Frame) /\ nblocks \in Nat
    BY BodiesFromContext DEF ContextInv, TypeOK
  <2>2. /\ UNCHANGED <<curr_proc, curr_loop, nblocks, insert, frames>>
        /\ insert \in 1..nblocks
    BY <1>1, InBody DEF generate_defer
  <2> QED
    BY <1>5, <2>1, <2>2, StayStep DEF KeepsBody
<1>7. blocks' \in [Blocks -> Block]
  BY <1>1, <1>3, InBody, EmitLemma DEF generate_defer, ContextInv, TypeOK
<1>8. lit' \in [Defers -> Literal]
  <2>1. size \in Nat
    BY SourceAssumption
  <2> QED
    BY <1>2, <2>1 DEF generate_defer, ContextInv, TypeOK, Literal
<1>9. DataOK'
  <2>1. nblocks' \in nblocks..(nblocks + 4)
    BY DEF ContextInv, TypeOK, generate_defer
  <2>2. DataOK
    BY DataFromContext
  <2> QED
    BY <1>1, <1>7, <1>8, <2>1, <2>2, DataStep DEF generate_defer, DataOK
<1>10. JumpAndEntryAssertsHold'
  BY DEF ContextInv, JumpAndEntryAssertsHold, generate_defer
<1> QED
  BY <1>6, <1>9, <1>10, Assemble

\* A statement that opens a body.
LEMMA OpenStep ==
    ASSUME ContextInv, NextChild, NEW f \in Frame, FrameOK(f, nblocks'),
           f.kind # "proc",
           frames' = Append(frames, f),
           deferred' = push_defers(f.kind \in LoopKinds),
           IF f.kind \in LoopKinds
           THEN f.old = curr_loop /\ curr_loop' = LoopOf(f)
           ELSE curr_loop' = curr_loop,
           nblocks' \in nblocks..(nblocks + 4), insert' \in 1..nblocks',
           blocks' \in [Blocks -> Block], casting' \in BOOLEAN,
           stmts' = stmts + 1, UNCHANGED <<status, procs, curr_proc, lit>>
    PROVE  ContextInv'
<1>1. BodiesInv /\ DataOK /\ nblocks \in Nat
  BY BodiesFromContext, DataFromContext DEF ContextInv, TypeOK
<1>2. frames # <<>> /\ stmts < MaxStmts
  BY DEF NextChild
<1>3. nblocks' \in Nat /\ nblocks <= nblocks' /\ insert' \in 0..nblocks'
  BY <1>1
<1>4. BodiesInv'
  BY <1>1, <1>2, <1>3, PushStep
<1>5. DataOK'
  BY <1>1, <1>2, <1>3, DataStep DEF DataOK
<1>6. JumpAndEntryAssertsHold'
  BY DEF ContextInv, JumpAndEntryAssertsHold
<1> QED
  BY <1>4, <1>5, <1>6, Assemble

LEMMA BranchStep ==
    ASSUME ContextInv, NEW leaves \in CondLeaves, NEW has_else \in BOOLEAN,
           BeginBranch(leaves, has_else)
    PROVE  ContextInv'
<1>1. CASE CastingContextLeft
  BY <1>1, AbortStep DEF CastingContextLeft, Statuses
<1>2. CASE ~CastingContextLeft
  <2> DEFINE merge_blk == nblocks + 1
             if_blk    == nblocks + 2
             else_blk  == IF has_else THEN nblocks + 3 ELSE NoBlock
             to == {if_blk, IF has_else THEN else_blk ELSE merge_blk}
             f == [kind |-> "branch", stage |-> "if", merge |-> merge_blk,
                   other |-> else_blk, old |-> NoLoop]
  <2>1. NextChild /\ frames # <<>>
    BY DEF BeginBranch, generate, NextChild
  <2>2. /\ nblocks \in Nat \ {0}
        /\ insert \in Blocks
        /\ nblocks + 1 \in Blocks
        /\ nblocks + 2 \in Blocks
        /\ nblocks + 3 \in Blocks
    BY <2>1, InBody, SourceAssumption DEF Blocks, ContextInv, TypeOK
  <2>3. /\ nblocks' = IF has_else THEN nblocks + 3 ELSE nblocks + 2
        /\ blocks' = Br(blocks, insert, to)
        /\ insert' = if_blk
        /\ frames' = Append(frames, f)
        /\ deferred' = push_defers(FALSE)
        /\ casting' = leaves
        /\ stmts' = stmts + 1
        /\ UNCHANGED <<status, procs, curr_proc, curr_loop, lit>>
    BY <1>2 DEF BeginBranch
  <2>4. nblocks' \in nblocks..(nblocks + 4) /\ insert' \in 1..nblocks'
    BY <2>2, <2>3
  <2>5. f \in Frame
    BY <2>2 DEF Frame, Loop, NoLoop, LoopKinds
  <2>6. FrameOK(f, nblocks')
    BY <2>2, <2>3 DEF FrameOK, NoBlock, LoopKinds
  <2>7. f.kind \notin LoopKinds /\ f.kind # "proc"
    BY DEF LoopKinds
  <2>8. blocks' \in [Blocks -> Block]
    <3>1. to \in SUBSET Blocks
      BY <2>2
    <3> HIDE DEF to
    <3> QED
      BY <2>2, <2>3, <3>1, BrLemma DEF ContextInv, TypeOK
  <2>9. casting' \in BOOLEAN
    BY <2>3, SourceAssumption
  <2>10. deferred' = push_defers(f.kind \in LoopKinds)
    <3>1. (f.kind \in LoopKinds) = FALSE
      BY <2>7
    <3> HIDE DEF f
    <3> QED
      BY <2>3, <3>1, Zenon
  <2> HIDE DEF f
  <2> QED
    BY <2>1, <2>3, <2>4, <2>5, <2>6, <2>7, <2>8, <2>9, <2>10, OpenStep
<1> QED
  BY <1>1, <1>2

LEMMA WhileStep ==
    ASSUME ContextInv, BeginWhile
    PROVE  ContextInv'
<1>1. CASE CastingContextLeft
  BY <1>1, AbortStep DEF CastingContextLeft, Statuses
<1>2. CASE ~CastingContextLeft
  <2> DEFINE merge_blk == nblocks + 1
             cond_blk  == nblocks + 2
             body_blk  == nblocks + 3
             f == [kind |-> "while", stage |-> "body", merge |-> merge_blk,
                   other |-> cond_blk, old |-> curr_loop]
  <2>1. NextChild /\ frames # <<>>
    BY DEF BeginWhile, generate, NextChild
  <2>2. /\ nblocks \in Nat \ {0}
        /\ insert \in Blocks
        /\ merge_blk \in Blocks
        /\ cond_blk \in Blocks
        /\ body_blk \in Blocks
    BY <2>1, InBody, SourceAssumption DEF Blocks, ContextInv, TypeOK
  <2>3. /\ nblocks' = nblocks + 3
        /\ blocks' = Br(Br(blocks, insert, {cond_blk}), cond_blk,
                        {body_blk, merge_blk})
        /\ insert' = body_blk
        /\ frames' = Append(frames, f)
        /\ curr_loop' = [after |-> cond_blk, merge |-> merge_blk]
        /\ deferred' = push_defers(TRUE)
        /\ stmts' = stmts + 1
        /\ UNCHANGED <<status, procs, curr_proc, casting, lit>>
    BY <1>2 DEF BeginWhile, EnterFrame, leave_curr_loop
  <2>4. nblocks' \in nblocks..(nblocks + 4) /\ insert' \in 1..nblocks'
    BY <2>2, <2>3
  <2>5. f \in Frame
    BY <2>2 DEF Frame, LoopKinds, ContextInv, TypeOK
  <2>6. FrameOK(f, nblocks')
    BY <2>2, <2>3 DEF FrameOK, NoBlock, LoopKinds
  <2>7. f.kind \in LoopKinds /\ f.kind # "proc"
    BY DEF LoopKinds
  <2>8. blocks' \in [Blocks -> Block]
    <3>1. /\ blocks \in [Blocks -> Block]
          /\ {cond_blk} \in SUBSET Blocks
          /\ {body_blk, merge_blk} \in SUBSET Blocks
      BY <2>2 DEF ContextInv, TypeOK
    <3> HIDE DEF cond_blk, body_blk, merge_blk
    <3>2. Br(blocks, insert, {cond_blk}) \in [Blocks -> Block]
      BY <2>2, <3>1, BrLemma
    <3> QED
      BY <2>2, <2>3, <3>1, <3>2, BrLemma
  <2>9. casting' \in BOOLEAN
    BY <2>3 DEF ContextInv, TypeOK
  <2>10. deferred' = push_defers(f.kind \in LoopKinds)
    BY <2>3, <2>7, Zenon DEF push_defers
  <2>11. f.old = curr_loop /\ curr_loop' = LoopOf(f)
    BY <2>3 DEF LoopOf
  <2> HIDE DEF f
  <2> QED
    BY <2>1, <2>3, <2>4, <2>5, <2>6, <2>7, <2>8, <2>9, <2>10, <2>11, OpenStep
<1> QED
  BY <1>1, <1>2

LEMMA ForStep ==
    ASSUME ContextInv, NEW leaves \in CondLeaves, NEW has_cond \in BOOLEAN,
           NEW has_update \in BOOLEAN, BeginFor(leaves, has_cond, has_update)
    PROVE  ContextInv'
<1>1. CASE CastingContextLeft
  BY <1>1, AbortStep DEF CastingContextLeft, Statuses
<1>2. CASE ~CastingContextLeft
  <2> DEFINE merge_blk == nblocks + 1
             cond_blk  == nblocks + 2
             after_blk == nblocks + 3
             body_blk  == nblocks + 4
             taken     == IF has_cond THEN {body_blk, merge_blk}
                          ELSE {body_blk}
             f == [kind |-> "for", stage |-> "body", merge |-> merge_blk,
                   other |-> after_blk, old |-> curr_loop]
  <2>1. NextChild /\ frames # <<>>
    BY DEF BeginFor, generate, NextChild
  <2>2. /\ nblocks \in Nat \ {0}
        /\ insert \in Blocks
        /\ merge_blk \in Blocks
        /\ cond_blk \in Blocks
        /\ after_blk \in Blocks
        /\ body_blk \in Blocks
    BY <2>1, InBody, SourceAssumption DEF Blocks, ContextInv, TypeOK
  <2>3. /\ nblocks' = nblocks + 4
        /\ blocks' = Br(Br(Br(blocks, insert, {cond_blk}), cond_blk, taken),
                        after_blk, {cond_blk})
        /\ insert' = body_blk
        /\ frames' = Append(frames, f)
        /\ curr_loop' = [after |-> after_blk, merge |-> merge_blk]
        /\ deferred' = push_defers(TRUE)
        /\ casting' = (leaves /\ ~has_cond /\ ~has_update)
        /\ stmts' = stmts + 1
        /\ UNCHANGED <<status, procs, curr_proc, lit>>
    BY <1>2 DEF BeginFor, EnterFrame, leave_curr_loop
  <2>4. nblocks' \in nblocks..(nblocks + 4) /\ insert' \in 1..nblocks'
    BY <2>2, <2>3
  <2>5. f \in Frame
    BY <2>2 DEF Frame, LoopKinds, ContextInv, TypeOK
  <2>6. FrameOK(f, nblocks')
    BY <2>2, <2>3 DEF FrameOK, NoBlock, LoopKinds
  <2>7. f.kind \in LoopKinds /\ f.kind # "proc"
    BY DEF LoopKinds
  <2>8. blocks' \in [Blocks -> Block]
    <3>1. Br(blocks, insert, {cond_blk}) \in [Blocks -> Block]
      BY <2>2, BrLemma DEF ContextInv, TypeOK
    <3>2. taken \in SUBSET Blocks
      BY <2>2
    <3> DEFINE bs == Br(Br(blocks, insert, {cond_blk}), cond_blk, taken)
    <3>3. bs \in [Blocks -> Block]
      <4> HIDE DEF taken, cond_blk
      <4> QED
        BY <2>2, <3>1, <3>2, BrLemma
    <3>4. blocks' = Br(bs, after_blk, {cond_blk})
      BY <2>3
    <3> HIDE DEF bs, taken, cond_blk, after_blk
    <3> QED
      BY <2>2, <3>3, <3>4, BrLemma
  <2>9. casting' \in BOOLEAN
    BY <2>3
  <2>10. deferred' = push_defers(f.kind \in LoopKinds)
    BY <2>3, <2>7, Zenon DEF push_defers
  <2>11. f.old = curr_loop /\ curr_loop' = LoopOf(f)
    BY <2>3 DEF LoopOf
  <2> HIDE DEF f
  <2> QED
    BY <2>1, <2>3, <2>4, <2>5, <2>6, <2>7, <2>8, <2>9, <2>10, <2>11, OpenStep
<1> QED
  BY <1>1, <1>2

LEMMA DoWhileStep ==
    ASSUME ContextInv, BeginDoWhile
    PROVE  ContextInv'
<1>1. CASE CastingContextLeft
  BY <1>1, AbortStep DEF CastingContextLeft, Statuses
<1>2. CASE ~CastingContextLeft
  <2> DEFINE merge_blk == nblocks + 1
             cond_blk  == nblocks + 2
             body_blk  == nblocks + 3
             f == [kind |-> "dowhile", stage |-> "body", merge |-> merge_blk,
                   other |-> cond_blk, old |-> curr_loop]
  <2>1. NextChild /\ frames # <<>>
    BY DEF BeginDoWhile, generate, NextChild
  <2>2. /\ nblocks \in Nat \ {0}
        /\ insert \in Blocks
        /\ merge_blk \in Blocks
        /\ cond_blk \in Blocks
        /\ body_blk \in Blocks
    BY <2>1, InBody, SourceAssumption DEF Blocks, ContextInv, TypeOK
  <2>3. /\ nblocks' = nblocks + 3
        /\ blocks' = Br(blocks, insert, {body_blk})
        /\ insert' = body_blk
        /\ frames' = Append(frames, f)
        /\ curr_loop' = [after |-> cond_blk, merge |-> merge_blk]
        /\ deferred' = push_defers(TRUE)
        /\ stmts' = stmts + 1
        /\ UNCHANGED <<status, procs, curr_proc, casting, lit>>
    BY <1>2 DEF BeginDoWhile, EnterFrame, leave_curr_loop
  <2>4. nblocks' \in nblocks..(nblocks + 4) /\ insert' \in 1..nblocks'
    BY <2>2, <2>3
  <2>5. f \in Frame
    BY <2>2 DEF Frame, LoopKinds, ContextInv, TypeOK
  <2>6. FrameOK(f, nblocks')
    BY <2>2, <2>3 DEF FrameOK, NoBlock, LoopKinds
  <2>7. f.kind \in LoopKinds /\ f.kind # "proc"
    BY DEF LoopKinds
  <2>8. blocks' \in [Blocks -> Block]
    <3>1. Br(blocks, insert, {body_blk}) \in [Blocks -> Block]
      BY <2>2, BrLemma DEF ContextInv, TypeOK
    <3> QED
      BY <2>3, <3>1
  <2>9. casting' \in BOOLEAN
    BY <2>3 DEF ContextInv, TypeOK
  <2>10. deferred' = push_defers(f.kind \in LoopKinds)
    BY <2>3, <2>7, Zenon DEF push_defers
  <2>11. f.old = curr_loop /\ curr_loop' = LoopOf(f)
    BY <2>3 DEF LoopOf
  <2> HIDE DEF f
  <2> QED
    BY <2>1, <2>3, <2>4, <2>5, <2>6, <2>7, <2>8, <2>9, <2>10, <2>11, OpenStep
<1> QED
  BY <1>1, <1>2

\* The end of a body whose scope is closed and whose activation returns.
LEMMA LeaveStep ==
    ASSUME ContextInv, frames # <<>>, Top(frames).kind # "proc",
           frames' = Pop(frames), deferred' = pop_defers,
           curr_loop' = IF Top(frames).kind \in LoopKinds
                        THEN Top(frames).old ELSE curr_loop,
           insert' = Top(frames).merge, lit' \in [Defers -> Literal],
           blocks' \in [Blocks -> Block], casting' \in BOOLEAN,
           UNCHANGED <<status, procs, curr_proc, nblocks, stmts>>
    PROVE  ContextInv'
<1>1. BodiesInv /\ DataOK /\ nblocks \in Nat
  BY BodiesFromContext, DataFromContext DEF ContextInv, TypeOK
<1>2. BodiesInv'
  BY <1>1, PopStep
<1>3. insert' \in 0..nblocks'
  BY <1>1, InBody DEF FrameOK
<1>4. DataOK'
  BY <1>1, <1>3, DataStep DEF DataOK
<1>5. JumpAndEntryAssertsHold'
  BY DEF ContextInv, JumpAndEntryAssertsHold
<1> QED
  BY <1>2, <1>4, <1>5, Assemble

\* Closing the body of the innermost activation leaves blocks and literals.
LEMMA ClosedType ==
    ASSUME ContextInv, frames # <<>>, CloseProceeds, NEW to \in Blocks
    PROVE  /\ ClosedBlocks(to) \in [Blocks -> Block]
           /\ ClosedLit \in [Defers -> Literal]
<1>1. insert \in Blocks /\ Len(deferred) >= 1
  BY InBody
<1>2. TypeOK
  BY DEF ContextInv
<1> QED
  BY <1>1, <1>2, CloseLemma

LEMMA CloseAbortStep == ContextInv /\ CloseAborts => ContextInv'
  BY AbortStep DEF CloseAborts, Statuses

\* The blocks an activation remembers are blocks of the function.
LEMMA FrameInBlocks ==
    ASSUME ContextInv, frames # <<>>
    PROVE  /\ Top(frames).kind # "proc" => Top(frames).merge \in Blocks
           /\ Top(frames).other # NoBlock => Top(frames).other \in 2..nblocks
           /\ Top(frames).other # NoBlock => Top(frames).other \in Blocks
<1>1. nblocks \in Nat /\ nblocks <= 1 + 4 * MaxStmts
  BY SourceAssumption DEF ContextInv, TypeOK
<1>2. \A b \in 2..nblocks : b \in Blocks
  BY <1>1, SourceAssumption DEF Blocks
<1>3. FrameOK(Top(frames), nblocks)
  BY InBody
<1> QED
  BY <1>2, <1>3 DEF FrameOK

LEMMA ElseStep ==
    ASSUME ContextInv, EndIfBeginElse
    PROVE  ContextInv'
<1>1. CASE CloseAborts
  BY <1>1, CloseAbortStep
<1>2. CASE ~CloseAborts
  <2> DEFINE f == [Top(frames) EXCEPT !.stage = "else"]
             e == [stmts |-> <<>>, is_loop_base |-> FALSE]
             n == Len(frames)
  <2>1. /\ frames # <<>>
        /\ Top(frames).kind = "branch"
        /\ Top(frames).other # NoBlock
    BY DEF EndIfBeginElse, AtEnd
  <2>2. /\ CloseProceeds
        /\ blocks' = ClosedBlocks(Top(frames).merge)
        /\ lit' = ClosedLit
        /\ deferred' = Append(pop_defers, e)
        /\ insert' = Top(frames).other
        /\ frames' = SetTop(frames, f)
        /\ UNCHANGED <<status, procs, curr_proc, curr_loop, casting,
                       nblocks, stmts>>
    BY <1>2 DEF EndIfBeginElse
  <2>3. Top(frames).merge \in Blocks /\ Top(frames).other \in 2..nblocks
    BY <2>1, FrameInBlocks
  <2>4. blocks' \in [Blocks -> Block] /\ lit' \in [Defers -> Literal]
    BY <2>1, <2>2, <2>3, ClosedType
  <2>5. /\ Top(frames) \in Frame
        /\ Top(frames) = frames[n]
        /\ n \in Nat \ {0}
        /\ Len(deferred) = n
        /\ deferred # <<>>
        /\ frames \in Seq(Frame)
        /\ deferred \in Seq(DeferredStackElement)
    BY <2>1, InBody DEF ContextInv, TypeOK
  <2>6. /\ f \in Frame
        /\ f.kind = Top(frames).kind
        /\ f.merge = Top(frames).merge
        /\ f.other = Top(frames).other
        /\ f.old = Top(frames).old
    BY <2>5 DEF Frame
  <2>7. /\ frames' \in Seq(Frame)
        /\ Len(frames') = n
        /\ frames'[n] = f
        /\ \A i \in 1..(n - 1) : frames'[i] = frames[i]
    <3>1. /\ SetTop(frames, f) \in Seq(Frame)
          /\ Len(SetTop(frames, f)) = Len(frames)
          /\ SetTop(frames, f)[Len(frames)] = f
          /\ \A i \in 1..(Len(frames) - 1) : SetTop(frames, f)[i] = frames[i]
      <4>1. frames \in Seq(Frame) /\ frames # <<>> /\ f \in Frame
        BY <2>1, <2>5, <2>6
      <4> HIDE DEF f
      <4> QED
        BY <4>1, SetTopLemma
    <3> HIDE DEF f
    <3> QED
      BY <2>2, <3>1
  <2>8. \A i \in 1..n : i = n \/ i \in 1..(n - 1)
    BY <2>5
  <2>9. \A i \in 1..n : /\ frames'[i].kind = frames[i].kind
                        /\ frames'[i].merge = frames[i].merge
                        /\ frames'[i].other = frames[i].other
                        /\ frames'[i].old = frames[i].old
                        /\ frames[i].kind # "branch" =>
                               frames'[i].stage = frames[i].stage
    <3> HIDE DEF f, n
    <3> QED
      BY <2>1, <2>5, <2>6, <2>7, <2>8
  <2>10. e \in DeferredStackElement
    BY DEF DeferredStackElement
  <2>11. /\ pop_defers \in Seq(DeferredStackElement)
         /\ Len(pop_defers) = n - 1
         /\ \A i \in 1..(n - 1) : pop_defers[i] = deferred[i]
    BY <2>5, PopLemma DEF pop_defers
  <2>12. /\ deferred' \in Seq(DeferredStackElement)
         /\ Len(deferred') = n
         /\ deferred'[n] = e
         /\ \A i \in 1..(n - 1) : deferred'[i] = deferred[i]
    <3>1. /\ Append(pop_defers, e) \in Seq(DeferredStackElement)
          /\ Len(Append(pop_defers, e)) = n - 1 + 1
          /\ Append(pop_defers, e)[n - 1 + 1] = e
          /\ \A i \in 1..(n - 1) : Append(pop_defers, e)[i] = pop_defers[i]
      <4> HIDE DEF e, n
      <4> QED
        BY <2>10, <2>11, PushLemma
    <3>2. n - 1 + 1 = n
      BY <2>5
    <3> HIDE DEF e, n
    <3> QED
      BY <2>2, <2>11, <3>1, <3>2
  <2>13. \A i \in 1..Len(deferred) :
             deferred'[i].is_loop_base = deferred[i].is_loop_base
    <3>1. deferred[n].is_loop_base <=> frames[n].kind \in LoopKinds
      BY <2>5 DEF ContextInv, DeferStackMatchesBodies
    <3>2. deferred[n].is_loop_base \in BOOLEAN
      <4>1. deferred[n] \in DeferredStackElement
        BY <2>5
      <4> QED
        BY <4>1 DEF DeferredStackElement
    <3>3. deferred[n].is_loop_base = FALSE
      BY <2>1, <2>5, <3>1, <3>2 DEF LoopKinds
    <3>4. deferred'[n].is_loop_base = FALSE
      BY <2>12
    <3> HIDE DEF n, e
    <3> QED
      BY <2>5, <2>8, <2>12, <3>3, <3>4
  <2>14. BodiesInv'
    <3>1. BodiesInv /\ nblocks \in Nat
      BY BodiesFromContext DEF ContextInv, TypeOK
    <3>2. insert' \in 1..nblocks'
      BY <2>2, <2>3, <3>1
    <3> HIDE DEF f, e
    <3> QED
      BY <2>2, <2>5, <2>7, <2>9, <2>12, <2>13, <3>1, <3>2, StayStep DEF KeepsBody
  <2>15. DataOK'
    <3>1. insert' \in 0..nblocks'
      BY <2>2, <2>3 DEF ContextInv, TypeOK
    <3> QED
      BY <2>2, <2>4, <3>1, DataFromContext, DataStep DEF DataOK
  <2>16. JumpAndEntryAssertsHold'
    BY <2>2 DEF ContextInv, JumpAndEntryAssertsHold
  <2> QED
    BY <2>14, <2>15, <2>16, Assemble
<1> QED
  BY <1>1, <1>2

LEMMA EndBranchStep ==
    ASSUME ContextInv, EndBranch
    PROVE  ContextInv'
<1>1. CASE CloseAborts
  BY <1>1, CloseAbortStep
<1>2. CASE ~CloseAborts
  <2>1. frames # <<>> /\ Top(frames).kind = "branch"
    BY DEF EndBranch, AtEnd
  <2>2. /\ CloseProceeds
        /\ blocks' = ClosedBlocks(Top(frames).merge)
        /\ lit' = ClosedLit
        /\ deferred' = pop_defers
        /\ insert' = Top(frames).merge
        /\ frames' = Pop(frames)
        /\ casting' = FALSE
        /\ UNCHANGED <<status, procs, curr_proc, curr_loop, nblocks, stmts>>
    BY <1>2 DEF EndBranch
  <2>3. blocks' \in [Blocks -> Block] /\ lit' \in [Defers -> Literal]
    BY <2>1, <2>2, FrameInBlocks, ClosedType
  <2>4. Top(frames).kind \notin LoopKinds /\ Top(frames).kind # "proc"
    BY <2>1 DEF LoopKinds
  <2> QED
    BY <2>1, <2>2, <2>3, <2>4, LeaveStep
<1> QED
  BY <1>1, <1>2

LEMMA EndLoopStep ==
    ASSUME ContextInv, EndWhileOrFor
    PROVE  ContextInv'
<1>1. CASE CloseAborts
  BY <1>1, CloseAbortStep
<1>2. CASE ~CloseAborts
  <2>1. /\ frames # <<>>
        /\ Top(frames).kind \in LoopKinds
        /\ Top(frames).kind # "proc"
    BY DEF EndWhileOrFor, AtEnd, LoopKinds
  <2>2. /\ CloseProceeds
        /\ blocks' = ClosedBlocks(Top(frames).other)
        /\ lit' = ClosedLit
        /\ deferred' = pop_defers
        /\ curr_loop' = Top(frames).old
        /\ insert' = Top(frames).merge
        /\ frames' = Pop(frames)
        /\ casting' = FALSE
        /\ UNCHANGED <<status, procs, curr_proc, nblocks, stmts>>
    BY <1>2 DEF EndWhileOrFor
  <2>3. Top(frames).other \in Blocks
    <3>1. Top(frames).other \in 2..nblocks
      BY <2>1, InBody DEF FrameOK
    <3> QED
      BY <2>1, <3>1, FrameInBlocks DEF NoBlock
  <2>4. blocks' \in [Blocks -> Block] /\ lit' \in [Defers -> Literal]
    BY <2>1, <2>2, <2>3, ClosedType
  <2> QED
    BY <2>1, <2>2, <2>4, LeaveStep
<1> QED
  BY <1>1, <1>2

\* While an activation of generate_dowhile is innermost its own context is
\* the current one: the assert of enter_loop fails whenever it returns.
LEMMA DoWhileContext ==
    ASSUME BodiesInv, frames # <<>>, Top(frames).kind = "dowhile"
    PROVE  curr_loop = LoopOf(Top(frames)) /\ curr_loop # NoLoop
<1> DEFINE n == Len(frames)
<1>1. n \in Nat \ {0} /\ Top(frames) = frames[n] /\ n \in DOMAIN frames
  BY PopLemma DEF BodiesInv, Top
<1>2. frames[n].kind \in LoopKinds
  BY <1>1 DEF LoopKinds
<1>3. Innermost(frames, curr_loop, n)
  BY DEF BodiesInv, LoopContextIsInnermost
<1>4. ASSUME NEW i \in 1..n, curr_loop = LoopOf(frames[i]),
             \A j \in (i + 1)..n : frames[j].kind \notin LoopKinds
      PROVE  curr_loop = LoopOf(frames[n])
  <2>1. ~(n \in (i + 1)..n)
    BY <1>2, <1>4
  <2>2. i = n
    BY <1>1, <2>1
  <2> QED
    BY <1>4, <2>2
<1>5. curr_loop = LoopOf(Top(frames))
  <2>1. n \in 1..n
    BY <1>1
  <2> HIDE DEF n
  <2> QED
    BY <1>1, <1>2, <1>3, <1>4, <2>1 DEF Innermost
<1>6. FrameOK(Top(frames), nblocks)
  BY <1>1 DEF BodiesInv, FrameBlocks
<1>7. Top(frames).other # NoBlock
  BY <1>6 DEF FrameOK, LoopKinds, NoBlock
<1> QED
  BY <1>5, <1>7 DEF LoopOf, NoLoop

LEMMA EndDoWhileStep ==
    ASSUME ContextInv, EndDoWhile
    PROVE  ContextInv'
<1>1. frames # <<>> /\ Top(frames).kind = "dowhile"
  BY DEF EndDoWhile, AtEnd
<1>2. curr_loop # NoLoop
  BY <1>1, BodiesFromContext, DoWhileContext
<1>3. CloseAborts \/ Abort("assert_enter_loop")
  BY <1>2 DEF EndDoWhile
<1> QED
  BY <1>3, AbortStep, CloseAbortStep DEF Statuses

\* Below a loop of the source the generator finds its loop context, and a
\* loop base on the defer stack.
LEMMA LoopFound ==
    ASSUME BodiesInv, inside_source_loop
    PROVE  /\ inside_loop
           /\ curr_loop.after \in 2..nblocks
           /\ curr_loop.merge \in 2..nblocks
           /\ loop_bases # {}
           /\ loop_base \in 1..Len(deferred)
<1> DEFINE n == Len(frames)
<1>1. n \in Nat /\ DOMAIN frames = 1..n /\ DOMAIN deferred = 1..n
  BY DEF BodiesInv, DeferStackMatchesBodies
<1>2. PICK i \in 1..n :
          /\ frames[i].kind \in LoopKinds
          /\ curr_loop = LoopOf(frames[i])
          /\ \A j \in (i + 1)..n : frames[j].kind \notin LoopKinds
  <2>1. Innermost(frames, curr_loop, n)
    BY DEF BodiesInv, LoopContextIsInnermost
  <2>2. \E k \in 1..n : frames[k].kind \in LoopKinds
    BY <1>1 DEF inside_source_loop
  <2> HIDE DEF n
  <2> QED
    BY <2>1, <2>2 DEF Innermost
<1>3. FrameOK(frames[i], nblocks)
  BY <1>1, <1>2 DEF BodiesInv, FrameBlocks
<1>4. curr_loop.after \in 2..nblocks /\ curr_loop.merge \in 2..nblocks
  BY <1>2, <1>3 DEF FrameOK, LoopOf, LoopKinds
<1>5. inside_loop
  BY <1>4 DEF inside_loop, NoBlock
<1>6. i \in loop_bases
  BY <1>1, <1>2, Zenon
  DEF BodiesInv, DeferStackMatchesBodies, loop_bases
<1>7. ASSUME NEW j \in loop_bases PROVE j <= i
  <2>1. j \in 1..n /\ frames[j].kind \in LoopKinds
    BY <1>1, Zenon DEF BodiesInv, DeferStackMatchesBodies, loop_bases
  <2>2. ~(j \in (i + 1)..n)
    BY <1>2, <2>1
  <2> QED
    BY <1>1, <2>1, <2>2
<1>8. loop_base \in loop_bases
  BY <1>6, <1>7, Zenon DEF loop_base
<1>9. loop_base \in 1..Len(deferred)
  BY <1>1, <1>8 DEF loop_bases
<1> QED
  BY <1>4, <1>5, <1>6, <1>9

\* Unpacking deferred calls into the current block.
LEMMA UnpackLemma ==
    ASSUME TypeOK, insert \in Blocks, NEW base \in 1..(Len(deferred) + 1),
           NEW scopes, scopes = FromBackTo(base), ~LiteralTooShort(scopes)
    PROVE  /\ Unpack(blocks, insert, scopes) \in [Blocks -> Block]
           /\ Unpack(blocks, insert, scopes)[insert].succ = blocks[insert].succ
           /\ \A c \in Blocks \ {insert} :
                  Unpack(blocks, insert, scopes)[c] = blocks[c]
           /\ Generated(scopes) \in [Defers -> Literal]
<1> DEFINE run == [op |-> "run", scopes |-> scopes]
<1>1. run \in Event
  BY UnpackType
<1>2. blocks \in [Blocks -> Block]
  BY DEF TypeOK
<1>3. Generated(scopes) \in [Defers -> Literal]
  BY GeneratedType
<1>4. Unpack(blocks, insert, scopes) = Emit(blocks, insert, run)
  BY DEF Unpack
<1> HIDE DEF run
<1> QED
  BY <1>1, <1>2, <1>3, <1>4, EmitLemma

\* A statement that opens and closes no body and creates no block.
LEMMA ExitStep ==
    ASSUME ContextInv, NextChild, stmts' = stmts + 1, casting' \in BOOLEAN,
           blocks' \in [Blocks -> Block], lit' \in [Defers -> Literal],
           UNCHANGED <<status, procs, curr_proc, frames, deferred, curr_loop,
                       nblocks, insert>>
    PROVE  ContextInv'
<1>1. BodiesInv'
  BY BodiesFromContext
  DEF BodiesInv, CallStack, FrameBlocks, DeferStackMatchesBodies,
      LoopContextIsInnermost
<1>2. DataOK'
  <2>1. nblocks' \in nblocks..(nblocks + 4)
    BY DEF ContextInv, TypeOK
  <2> QED
    BY <2>1, DataFromContext, DataStep DEF NextChild, DataOK
<1>3. JumpAndEntryAssertsHold'
  BY DEF JumpAndEntryAssertsHold, ContextInv
<1> QED
  BY <1>1, <1>2, <1>3, Assemble

\* The block of an exit: the deferred calls, then the branch to the target.
ExitBlocks(scopes, target) == Br(Unpack(blocks, insert, scopes), insert, {target})

LEMMA LeaveLoopStep ==
    ASSUME ContextInv, NEW kind, NEW target, LeaveLoopBody(kind, target),
           inside_source_loop => target \in Blocks
    PROVE  ContextInv'
<1> DEFINE scopes == unpack_defers_until_loop_base
<1>1. NextChild /\ frames # <<>> /\ inside_source_loop
  BY DEF LeaveLoopBody, generate, NextChild
<1>2. inside_loop /\ loop_bases # {} /\ loop_base \in 1..Len(deferred)
  BY <1>1, BodiesFromContext, LoopFound
<1>3. CASE LiteralTooShort(scopes)
  <2>1. Abort("assert_literal")
    BY <1>2, <1>3 DEF LeaveLoopBody
  <2> QED
    BY <2>1, AbortStep DEF Statuses
<1>4. CASE ~LiteralTooShort(scopes)
  <2>1. /\ blocks' = ExitBlocks(scopes, target)
        /\ lit' = Generated(scopes)
        /\ stmts' = stmts + 1
        /\ casting' = FALSE
        /\ UNCHANGED <<status, procs, curr_proc, frames, deferred,
                       curr_loop, nblocks, insert>>
    BY <1>2, <1>4 DEF LeaveLoopBody, ExitBlocks
  <2>2. insert \in Blocks /\ target \in Blocks
    BY <1>1, InBody
  <2>3. scopes = FromBackTo(loop_base) /\ loop_base \in 1..(Len(deferred) + 1)
    BY <1>2 DEF unpack_defers_until_loop_base, ContextInv, TypeOK
  <2> HIDE DEF scopes
  <2>4. /\ Unpack(blocks, insert, scopes) \in [Blocks -> Block]
        /\ Generated(scopes) \in [Defers -> Literal]
    BY <1>4, <2>2, <2>3, UnpackLemma DEF ContextInv
  <2>5. {target} \in SUBSET Blocks
    BY <2>2
  <2>6. blocks' \in [Blocks -> Block]
    BY <2>1, <2>2, <2>4, <2>5, BrLemma DEF ExitBlocks
  <2> QED
    BY <1>1, <2>1, <2>4, <2>6, ExitStep
<1> QED
  BY <1>3, <1>4

LEMMA BrkContStep ==
    ASSUME ContextInv, generate_brk \/ generate_cont
    PROVE  ContextInv'
<1>1. inside_source_loop => curr_loop.merge \in Blocks /\ curr_loop.after \in Blocks
  <2> SUFFICES ASSUME inside_source_loop
               PROVE  curr_loop.merge \in Blocks /\ curr_loop.after \in Blocks
    OBVIOUS
  <2>1. curr_loop.merge \in 2..nblocks /\ curr_loop.after \in 2..nblocks
    BY BodiesFromContext, LoopFound
  <2>2. nblocks \in Nat /\ nblocks <= 1 + 4 * MaxStmts
    BY SourceAssumption DEF ContextInv, TypeOK
  <2> QED
    BY <2>1, <2>2, SourceAssumption DEF Blocks
<1> QED
  BY <1>1, LeaveLoopStep DEF generate_brk, generate_cont

LEMMA RetStep ==
    ASSUME ContextInv, generate_ret
    PROVE  ContextInv'
<1> DEFINE scopes == unpack_defers_all
<1>1. NextChild /\ frames # <<>>
  BY DEF generate_ret, generate, NextChild
<1>2. CASE CastingContextLeft \/ Abort("assert_literal")
  BY <1>2, AbortStep DEF CastingContextLeft, Statuses
<1>3. CASE /\ ~LiteralTooShort(scopes)
           /\ blocks' = RetFrom(Unpack(blocks, insert, scopes), insert)
           /\ lit' = Generated(scopes)
           /\ stmts' = stmts + 1
           /\ UNCHANGED <<status, procs, curr_proc, frames, deferred,
                          curr_loop, casting, nblocks, insert>>
  <2>1. insert \in Blocks
    BY <1>1, InBody
  <2>2. scopes = FromBackTo(1) /\ 1 \in 1..(Len(deferred) + 1)
    BY DEF unpack_defers_all, ContextInv, TypeOK
  <2> HIDE DEF scopes
  <2>3. /\ Unpack(blocks, insert, scopes) \in [Blocks -> Block]
        /\ Generated(scopes) \in [Defers -> Literal]
    BY <1>3, <2>1, <2>2, UnpackLemma DEF ContextInv
  <2>4. blocks' \in [Blocks -> Block]
    BY <1>3, <2>1, <2>3, RetLemma
  <2>5. casting' \in BOOLEAN
    BY <1>3 DEF ContextInv, TypeOK
  <2> QED
    BY <1>1, <1>3, <2>3, <2>4, <2>5, ExitStep
<1> QED
  BY <1>2, <1>3 DEF generate_ret

\* Where no loop is open there is no loop context.
LEMMA NoLoopContext ==
    ASSUME BodiesInv, \A i \in DOMAIN frames : frames[i].kind \notin LoopKinds
    PROVE  curr_loop = NoLoop
<1>1. \A i \in 1..Len(frames) : frames[i].kind \notin LoopKinds
  BY DEF BodiesInv
<1> QED
  BY <1>1 DEF BodiesInv, LoopContextIsInnermost, Innermost

LEMMA BeginProcStep ==
    ASSUME ContextInv, BeginProc
    PROVE  ContextInv'
<1> DEFINE f == [kind |-> "proc", stage |-> "body", merge |-> NoBlock,
                 other |-> NoBlock, old |-> NoLoop]
           e == [stmts |-> <<>>, is_loop_base |-> FALSE]
<1>1. /\ curr_proc = 0
      /\ deferred = <<>>
      /\ curr_loop = NoLoop
  <2>1. frames = <<>> /\ Len(deferred) = 0
    BY DEF BeginProc, ContextInv, DeferStackMatchesBodies
  <2>2. deferred \in Seq(DeferredStackElement)
    BY DEF ContextInv, TypeOK
  <2>3. curr_proc = 0
    BY <2>1 DEF ContextInv, CallStack
  <2>4. curr_loop = NoLoop
    BY <2>1, BodiesFromContext, NoLoopContext
  <2> QED
    BY <2>1, <2>2, <2>3, <2>4
<1>2. /\ procs \in 0..MaxProcs
      /\ procs < MaxProcs
      /\ procs' = procs + 1
      /\ status = "running"
      /\ status' = status
      /\ curr_proc' = procs + 1
      /\ frames' = <<f>>
      /\ deferred' = <<e>>
      /\ UNCHANGED <<curr_loop, casting>>
  <2>1. push_defers(FALSE) = <<e>>
    BY <1>1 DEF push_defers
  <2> QED
    BY <1>1, <2>1 DEF BeginProc, ContextInv, TypeOK
<1>3. f \in Frame /\ e \in DeferredStackElement
  BY DEF Frame, NoLoop, Loop, DeferredStackElement
<1>4. frames' \in Seq(Frame) /\ Len(frames') = 1 /\ frames'[1] = f
  <2> HIDE DEF f
  <2> QED
    BY <1>2, <1>3
<1>5. /\ deferred' \in Seq(DeferredStackElement)
      /\ Len(deferred') = 1
      /\ deferred'[1] = e
  <2> HIDE DEF e
  <2> QED
    BY <1>2, <1>3
<1>6. nblocks' = 1 /\ insert' = 1
  BY DEF BeginProc
<1>7. CallStack'
  <2>1. curr_proc' # 0 /\ frames' # <<>>
    BY <1>2, <1>4
  <2> HIDE DEF f
  <2> QED
    BY <1>4, <1>6, <2>1, f.kind = "proc" DEF CallStack, f
<1>8. FrameBlocks'
  BY <1>4, <1>6 DEF FrameBlocks, FrameOK, LoopKinds
<1>9. DeferStackMatchesBodies'
  <2>1. f.kind \notin LoopKinds /\ e.is_loop_base = FALSE
    BY DEF LoopKinds
  <2> HIDE DEF f, e
  <2> QED
    BY <1>4, <1>5, <2>1 DEF DeferStackMatchesBodies
<1>10. LoopContextIsInnermost'
  <2>1. f.kind \notin LoopKinds
    BY DEF LoopKinds
  <2>2. Innermost(frames', NoLoop, 1)
    <3> HIDE DEF f
    <3> QED
      BY <1>4, <2>1 DEF Innermost
  <2> HIDE DEF f
  <2> QED
    BY <1>1, <1>2, <1>4, <2>1, <2>2 DEF LoopContextIsInnermost
<1>11. DataOK'
  <2>1. /\ blocks' = [b \in Blocks |-> OpenBlock]
        /\ stmts' = 0
        /\ lit' = [d \in Defers |-> [size |-> 0, stripped |-> FALSE]]
    BY DEF BeginProc
  <2>2. OpenBlock \in Block
    BY DEF OpenBlock, Block
  <2>3. [size |-> 0, stripped |-> FALSE] \in Literal
    BY DEF Literal
  <2>4. blocks' \in [Blocks -> Block] /\ lit' \in [Defers -> Literal]
    BY <2>1, <2>2, <2>3
  <2>5. procs' \in 0..MaxProcs /\ curr_proc' \in 0..MaxProcs
    BY <1>2, SourceAssumption
  <2>6. casting' \in BOOLEAN /\ status' \in Statuses
    BY <1>2 DEF ContextInv, TypeOK
  <2> QED
    BY <1>6, <2>1, <2>4, <2>5, <2>6, SourceAssumption DEF DataOK
<1>12. JumpAndEntryAssertsHold'
  BY <1>2 DEF JumpAndEntryAssertsHold
<1>13. curr_loop' \in Loop
  BY <1>2 DEF ContextInv, TypeOK
<1>14. BodiesInv'
  BY <1>4, <1>5, <1>7, <1>8, <1>9, <1>10, <1>13 DEF BodiesInv
<1> QED
  BY <1>11, <1>12, <1>14, Assemble

\* The activation of a procedure is the only one when it is innermost.
LEMMA ProcAlone ==
    ASSUME BodiesInv, frames # <<>>, Top(frames).kind = "proc"
    PROVE  /\ Len(frames) = 1
           /\ curr_loop = NoLoop
<1>1. Len(frames) \in DOMAIN frames /\ Top(frames) = frames[Len(frames)]
  BY PopLemma DEF BodiesInv, Top
<1>2. Len(frames) = 1
  BY <1>1 DEF BodiesInv, CallStack
<1>3. \A i \in DOMAIN frames : frames[i].kind \notin LoopKinds
  BY <1>1, <1>2 DEF BodiesInv, LoopKinds
<1> QED
  BY <1>2, <1>3, NoLoopContext

LEMMA EndProcStep ==
    ASSUME ContextInv, EndProc
    PROVE  ContextInv'
<1>1. CASE CloseAborts
  BY <1>1, CloseAbortStep
<1>2. CASE ~CloseAborts
  <2> DEFINE scopes == unpack_defers_regular
  <2>1. frames # <<>> /\ Top(frames).kind = "proc" /\ status = "running"
    BY DEF EndProc, AtEnd
  <2>2. /\ CloseProceeds
        /\ blocks' = IF curr_block_has_terminator THEN blocks
                     ELSE RetFrom(Unpack(blocks, insert, scopes), insert)
        /\ status' \in {status, "panic_verify"}
        /\ lit' = ClosedLit
        /\ curr_proc' = 0
        /\ deferred' = pop_defers
        /\ frames' = Pop(frames)
        /\ casting' = FALSE
        /\ UNCHANGED <<procs, curr_loop, nblocks, insert, stmts>>
    BY <1>2 DEF EndProc
  <2>3. Len(frames) = 1 /\ curr_loop = NoLoop /\ Len(deferred) = 1
    BY <2>1, BodiesFromContext, ProcAlone, InBody
  <2>4. /\ frames' \in Seq(Frame) /\ Len(frames') = 0
        /\ deferred' \in Seq(DeferredStackElement) /\ Len(deferred') = 0
    <3>1. /\ frames \in Seq(Frame)
          /\ deferred \in Seq(DeferredStackElement)
          /\ deferred # <<>>
      BY <2>1, InBody DEF ContextInv, TypeOK
    <3> QED
      BY <2>1, <2>2, <2>3, <3>1, PopLemma DEF pop_defers
  <2>5. BodiesInv'
    <3>1. frames' = <<>> /\ DOMAIN frames' = {}
      BY <2>4
    <3>2. CallStack' /\ FrameBlocks' /\ DeferStackMatchesBodies'
      BY <2>2, <2>4, <3>1
      DEF CallStack, FrameBlocks, DeferStackMatchesBodies
    <3>3. LoopContextIsInnermost'
      BY <2>2, <2>3, <2>4, <3>1 DEF LoopContextIsInnermost, Innermost
    <3> QED
      BY <2>2, <2>4, <3>2, <3>3 DEF BodiesInv, ContextInv, TypeOK
  <2>6. insert \in Blocks /\ 1 \in Blocks
    BY <2>1, InBody, SourceAssumption DEF Blocks
  <2>7. lit' \in [Defers -> Literal]
    BY <2>1, <2>2, <2>6, ClosedType
  <2>8. blocks' \in [Blocks -> Block]
    <3>1. CASE curr_block_has_terminator
      BY <2>2, <3>1 DEF ContextInv, TypeOK
    <3>2. CASE ~curr_block_has_terminator
      <4>1. /\ scopes = FromBackTo(Len(deferred))
            /\ Len(deferred) \in 1..(Len(deferred) + 1)
            /\ ~LiteralTooShort(scopes)
        BY <2>2, <2>3, <3>2 DEF unpack_defers_regular, CloseProceeds
      <4> HIDE DEF scopes
      <4>2. Unpack(blocks, insert, scopes) \in [Blocks -> Block]
        BY <2>6, <4>1, UnpackLemma DEF ContextInv
      <4> QED
        BY <2>2, <2>6, <3>2, <4>2, RetLemma
    <3> QED
      BY <3>1, <3>2
  <2>9. DataOK'
    <3>1. DataOK /\ status' \in Statuses
      BY <2>1, <2>2, DataFromContext DEF Statuses
    <3>2. curr_proc' \in 0..MaxProcs /\ casting' \in BOOLEAN
      <4>1. 0 \in 0..MaxProcs
        BY SourceAssumption
      <4>2. curr_proc' = 0 /\ casting' = FALSE
        BY <2>2
      <4> QED
        BY <4>1, <4>2
    <3>3. UNCHANGED <<procs, nblocks, insert, stmts>>
      BY <2>2
    <3> QED
      BY <2>7, <2>8, <3>1, <3>2, <3>3 DEF DataOK
  <2>10. JumpAndEntryAssertsHold'
    BY <2>1, <2>2 DEF JumpAndEntryAssertsHold
  <2> QED
    BY <2>5, <2>9, <2>10, Assemble
<1> QED
  BY <1>1, <1>2

\* A step that changes nothing but the status.
LEMMA StatusStep ==
    ASSUME ContextInv, status' \in {status, "done"},
           UNCHANGED <<procs, curr_proc, frames, deferred, curr_loop, casting,
                       blocks, nblocks, insert, stmts, lit>>
    PROVE  ContextInv'
<1>1. BodiesInv'
  BY BodiesFromContext
  DEF BodiesInv, CallStack, FrameBlocks, DeferStackMatchesBodies,
      LoopContextIsInnermost
<1>2. DataOK'
  BY DEF DataOK, ContextInv, TypeOK, Statuses
<1>3. JumpAndEntryAssertsHold'
  BY DEF JumpAndEntryAssertsHold, ContextInv
<1> QED
  BY <1>1, <1>2, <1>3, Assemble

-----------------------------------------------------------------------------
(* The invariance theorems *)

LEMMA ContextInit == Init => ContextInv
<1> SUFFICES ASSUME Init PROVE ContextInv
  OBVIOUS
<1> USE DEF Init
<1>1. TypeOK
  <2>1. OpenBlock \in Block /\ [size |-> 0, stripped |-> FALSE] \in Literal
    BY DEF OpenBlock, Block, Literal
  <2>2. blocks \in [Blocks -> Block] /\ lit \in [Defers -> Literal]
    BY <2>1
  <2>3. procs \in 0..MaxProcs /\ curr_proc \in 0..MaxProcs
    BY SourceAssumption
  <2>4. /\ stmts \in 0..MaxStmts
        /\ nblocks \in 0..(1 + 4 * stmts)
        /\ insert \in 0..nblocks
    BY SourceAssumption
  <2>5. frames \in Seq(Frame) /\ deferred \in Seq(DeferredStackElement)
    OBVIOUS
  <2>6. curr_loop \in Loop
    BY DEF NoLoop, Loop
  <2>7. status \in Statuses /\ casting \in BOOLEAN
    BY DEF Statuses
  <2> QED
    BY <2>2, <2>3, <2>4, <2>5, <2>6, <2>7 DEF TypeOK
<1>2. CallStack /\ FrameBlocks /\ DeferStackMatchesBodies
  BY DEF CallStack, FrameBlocks, DeferStackMatchesBodies
<1>3. LoopContextIsInnermost
  BY DEF LoopContextIsInnermost, Innermost
<1>4. JumpAndEntryAssertsHold
  BY DEF JumpAndEntryAssertsHold
<1> QED
  BY <1>1, <1>2, <1>3, <1>4 DEF ContextInv

LEMMA ContextStep == ContextInv /\ [Next]_vars => ContextInv'
<1> SUFFICES ASSUME ContextInv, [Next]_vars PROVE ContextInv'
  OBVIOUS
<1>1. CASE BeginProc
  BY <1>1, BeginProcStep
<1>2. CASE PlainChild
  BY <1>2, PlainChildStep
<1>3. CASE UndispatchedChild
  BY <1>3, AbortStep DEF UndispatchedChild, Statuses
<1>4. CASE \E size \in LiteralSizes : generate_defer(size)
  BY <1>4, DeferStep
<1>5. CASE \E leaves \in CondLeaves, has_else \in BOOLEAN :
               BeginBranch(leaves, has_else)
  BY <1>5, BranchStep
<1>6. CASE EndIfBeginElse
  BY <1>6, ElseStep
<1>7. CASE EndBranch
  BY <1>7, EndBranchStep
<1>8. CASE BeginWhile
  BY <1>8, WhileStep
<1>9. CASE \E leaves \in CondLeaves, has_cond \in BOOLEAN,
              has_update \in BOOLEAN : BeginFor(leaves, has_cond, has_update)
  BY <1>9, ForStep
<1>10. CASE EndWhileOrFor
  BY <1>10, EndLoopStep
<1>11. CASE BeginDoWhile
  BY <1>11, DoWhileStep
<1>12. CASE EndDoWhile
  BY <1>12, EndDoWhileStep
<1>13. CASE generate_brk \/ generate_cont
  BY <1>13, BrkContStep
<1>14. CASE generate_ret
  BY <1>14, RetStep
<1>15. CASE EndProc
  BY <1>15, EndProcStep
<1>16. CASE Finish
  BY <1>16, StatusStep DEF Finish
<1>17. CASE Halted \/ UNCHANGED vars
  BY <1>17, StatusStep DEF Halted, vars
<1> QED
  BY <1>1, <1>2, <1>3, <1>4, <1>5, <1>6, <1>7, <1>8, <1>9, <1>10, <1>11,
     <1>12, <1>13, <1>14, <1>15, <1>16, <1>17 DEF Next

\* The context of code generation is consistent in every reachable state of
\* every compilation.
THEOREM ContextInvariance == Spec => []ContextInv
  BY ContextInit, ContextStep, PTL DEF Spec

\* Every variable keeps the type of its C++ counterpart.
THEOREM TypeCorrect == Spec => []TypeOK
<1>1. ContextInv => TypeOK
  BY DEF ContextInv
<1> QED
  BY <1>1, ContextInvariance, PTL

\* push_defers and pop_defers pair up on every path through generate_*, and
\* the loop bases of the stack are the open loops.
THEOREM DeferStackCorrect == Spec => []DeferStackMatchesBodies
<1>1. ContextInv => DeferStackMatchesBodies
  BY DEF ContextInv
<1> QED
  BY <1>1, ContextInvariance, PTL

\* brk and cont always see the context of the innermost open loop.
THEOREM LoopContextCorrect == Spec => []LoopContextIsInnermost
<1>1. ContextInv => LoopContextIsInnermost
  BY DEF ContextInv
<1> QED
  BY <1>1, ContextInvariance, PTL

\* No program the checker accepts makes brk or cont miss its loop or the loop
\* base on the defer stack, or starts a procedure inside another.
THEOREM JumpAndEntryAssertsCorrect == Spec => []JumpAndEntryAssertsHold
<1>1. ContextInv => JumpAndEntryAssertsHold
  BY DEF ContextInv
<1> QED
  BY <1>1, ContextInvariance, PTL

\* The last activation that returns deletes the casting context.
NoCastingOutside == frames = <<>> => ~casting

\* A step that empties the call stack deletes the casting context.
LEMMA NoCastingStep ==
    ContextInv /\ NoCastingOutside /\ [Next]_vars => NoCastingOutside'
<1> SUFFICES ASSUME ContextInv, NoCastingOutside, [Next]_vars,
                    frames' = <<>>, casting' # FALSE
             PROVE  ~casting'
  BY DEF NoCastingOutside
<1> USE DEF NoCastingOutside
<1>1. ASSUME UNCHANGED <<frames, casting>> PROVE ~casting'
  BY <1>1
<1>2. ASSUME NEW why, Abort(why) PROVE ~casting'
  BY <1>1, <1>2 DEF Abort
<1>3. ASSUME NEW f, frames' = Append(frames, f) PROVE FALSE
  <2>1. Len(Append(frames, f)) = Len(frames) + 1
    BY DEF ContextInv, TypeOK
  <2>2. Len(frames) \in Nat /\ Len(<<>>) = 0
    BY DEF ContextInv, TypeOK
  <2>3. Append(frames, f) = <<>>
    BY <1>3, Zenon
  <2>4. Len(frames) + 1 = 0
    BY <2>1, <2>2, <2>3, Zenon
  <2> QED
    BY <2>2, <2>4
<1>4. frames # <<>> => \A f : SetTop(frames, f) # <<>>
  BY DEF SetTop, ContextInv, TypeOK
<1>5. CASE BeginProc
  BY <1>5 DEF BeginProc
<1>6. CASE PlainChild
  BY <1>6 DEF PlainChild
<1>7. CASE UndispatchedChild
  BY <1>2, <1>7 DEF UndispatchedChild
<1>8. CASE \E size \in LiteralSizes : generate_defer(size)
  BY <1>8 DEF generate_defer
<1>9. CASE \E leaves \in CondLeaves, has_else \in BOOLEAN :
               BeginBranch(leaves, has_else)
  BY <1>2, <1>3, <1>9, Zenon DEF BeginBranch, CastingContextLeft
<1>10. CASE EndIfBeginElse
  BY <1>2, <1>4, <1>10 DEF EndIfBeginElse, CloseAborts, AtEnd
<1>11. CASE EndBranch
  BY <1>2, <1>11 DEF EndBranch, CloseAborts
<1>12. CASE BeginWhile
  BY <1>2, <1>3, <1>12, Zenon DEF BeginWhile, EnterFrame, CastingContextLeft
<1>13. CASE \E leaves \in CondLeaves, has_cond \in BOOLEAN,
               has_update \in BOOLEAN : BeginFor(leaves, has_cond, has_update)
  BY <1>2, <1>3, <1>13, Zenon DEF BeginFor, EnterFrame, CastingContextLeft
<1>14. CASE EndWhileOrFor
  BY <1>2, <1>14 DEF EndWhileOrFor, CloseAborts
<1>15. CASE BeginDoWhile
  BY <1>2, <1>3, <1>15, Zenon DEF BeginDoWhile, EnterFrame, CastingContextLeft
<1>16. CASE EndDoWhile
  BY <1>2, <1>16 DEF EndDoWhile, CloseAborts
<1>17. CASE generate_brk \/ generate_cont
  BY <1>2, <1>17 DEF generate_brk, generate_cont, LeaveLoopBody
<1>18. CASE generate_ret
  BY <1>2, <1>18 DEF generate_ret, CastingContextLeft
<1>19. CASE EndProc
  BY <1>2, <1>19 DEF EndProc, CloseAborts
<1>20. CASE Finish \/ Halted \/ UNCHANGED vars
  BY <1>1, <1>20 DEF Finish, Halted, vars
<1> QED
  BY <1>5, <1>6, <1>7, <1>8, <1>9, <1>10, <1>11, <1>12, <1>13, <1>14, <1>15,
     <1>16, <1>17, <1>18, <1>19, <1>20 DEF Next

\* Code generation of a procedure leaves nothing behind for the next one.
THEOREM ProceduresAreIndependent == Spec => []NoContextBetweenProcedures
<1>1. Init => NoCastingOutside
  BY DEF Init, NoCastingOutside
<1>2. Spec => []NoCastingOutside
  BY <1>1, NoCastingStep, ContextInvariance, PTL DEF Spec
<1>3. ContextInv /\ NoCastingOutside => NoContextBetweenProcedures
  <2> SUFFICES ASSUME ContextInv, NoCastingOutside, frames = <<>>
               PROVE  deferred = <<>> /\ curr_loop = NoLoop /\ curr_proc = 0
                      /\ ~casting
    BY DEF NoContextBetweenProcedures
  <2>1. Len(frames) = 0 /\ Len(deferred) = 0
    BY DEF ContextInv, DeferStackMatchesBodies
  <2>2. deferred = <<>>
    BY <2>1 DEF ContextInv, TypeOK
  <2>3. curr_loop = NoLoop
    BY <2>1 DEF ContextInv, LoopContextIsInnermost, Innermost
  <2>4. curr_proc = 0
    BY DEF ContextInv, CallStack
  <2> QED
    BY <2>2, <2>3, <2>4 DEF NoCastingOutside
<1> QED
  BY <1>2, <1>3, ContextInvariance, PTL

-----------------------------------------------------------------------------
(* The basic blocks: which of them may lack a terminator, and that LLVM's  *)
(* verifier accepts every function.                                        *)

\* No block is forgotten, none branches to the entry, and what is not yet
\* allocated is empty.
BlocksInv ==
    /\ OpenBlocksAreWaitedFor
    /\ \A b \in Blocks : 1 \notin blocks[b].succ
    /\ \A b \in Blocks : b > nblocks => blocks[b] = OpenBlock
    /\ VerifierAccepts

\* Where a step may touch the blocks: the current one and those it creates.
TouchesOnlyNewBlocks ==
    \A b \in Blocks : b # insert /\ b <= nblocks => blocks'[b] = blocks[b]

\* The step emits nothing into a terminated block.
SealedStep ==
    \A b \in Blocks : blocks[b].term # "none" => blocks'[b] = blocks[b]

CurrentStaysSealed ==
    curr_block_has_terminator => blocks'[insert] = blocks[insert]

-----------------------------------------------------------------------------
(* What a step does to the blocks *)

\* A step emits into the current block, if it is open, and into new blocks.
LEMMA Sealed ==
    ASSUME ContextInv, BlocksInv, frames # <<>>, TouchesOnlyNewBlocks,
           CurrentStaysSealed
    PROVE  SealedStep
<1> SUFFICES ASSUME NEW b \in Blocks, blocks[b].term # "none"
             PROVE  blocks'[b] = blocks[b]
  BY DEF SealedStep
<1>1. nblocks \in Nat /\ b \in Int
  BY DEF ContextInv, TypeOK, Blocks
<1>2. CASE b = insert
  BY <1>2 DEF CurrentStaysSealed, curr_block_has_terminator
<1>3. CASE b > nblocks
  BY <1>3 DEF BlocksInv, OpenBlock
<1>4. CASE b # insert /\ b <= nblocks
  BY <1>4 DEF TouchesOnlyNewBlocks
<1> QED
  BY <1>1, <1>2, <1>3, <1>4

\* A statement that opens a body.
LEMMA PushBlocks ==
    ASSUME ContextInv, BlocksInv, frames # <<>>, status' = status,
           NEW f \in Frame, frames' = Append(frames, f),
           nblocks' \in Nat, nblocks' \in Blocks, nblocks <= nblocks',
           TouchesOnlyNewBlocks, CurrentStaysSealed,
           blocks'[insert].term # "none",
           \A b \in Blocks : b > nblocks =>
               \/ b > nblocks' /\ blocks'[b] = OpenBlock
               \/ b <= nblocks' /\ \/ blocks'[b].term # "none"
                                   \/ b = insert'
                                   \/ WaitsFor(f, b),
           \A b \in Blocks : 1 \notin blocks'[b].succ
    PROVE  BlocksInv' /\ SealedStep
<1> DEFINE n == Len(frames)
<1>1. /\ n \in Nat
      /\ DOMAIN frames = 1..n
      /\ DOMAIN frames' = 1..(n + 1)
      /\ frames'[n + 1] = f
      /\ \A i \in 1..n : frames'[i] = frames[i]
  <2>1. frames \in Seq(Frame)
    BY DEF ContextInv, TypeOK
  <2> QED
    BY <2>1, PushLemma
<1>2. insert \in Blocks /\ nblocks \in Nat
  BY InBody DEF ContextInv, TypeOK
<1>3. ASSUME NEW b \in 1..nblocks', blocks'[b].term = "none"
      PROVE  b = insert' \/ \E i \in DOMAIN frames' : WaitsFor(frames'[i], b)
  <2>1. b \in Blocks /\ b # insert
    BY <1>3, SourceAssumption DEF Blocks
  <2>2. CASE b <= nblocks
    <3>1. blocks'[b] = blocks[b] /\ b \in 1..nblocks
      BY <1>2, <2>1, <2>2 DEF TouchesOnlyNewBlocks
    <3>2. b # insert /\ blocks[b].term = "none"
      BY <1>3, <2>1, <3>1
    <3>3. PICK i \in DOMAIN frames : WaitsFor(frames[i], b)
      BY <3>1, <3>2 DEF BlocksInv, OpenBlocksAreWaitedFor
    <3>4. i \in DOMAIN frames' /\ frames'[i] = frames[i]
      BY <1>1
    <3> QED
      BY <3>3, <3>4
  <2>3. CASE b > nblocks
    <3>1. b = insert' \/ WaitsFor(f, b)
      BY <1>3, <2>1, <2>3
    <3>2. n + 1 \in DOMAIN frames' /\ frames'[n + 1] = f
      BY <1>1
    <3> HIDE DEF n
    <3> QED
      BY <3>1, <3>2
  <2> QED
    BY <1>2, <2>2, <2>3
<1>4. ASSUME NEW b \in Blocks, b > nblocks' PROVE blocks'[b] = OpenBlock
  BY <1>2, <1>4 DEF Blocks
<1>5. VerifierAccepts'
  BY DEF BlocksInv, VerifierAccepts
<1>6. SealedStep
  BY Sealed
<1> QED
  BY <1>3, <1>4, <1>5, <1>6 DEF BlocksInv, OpenBlocksAreWaitedFor

\* A step that keeps the activations and creates no block.
LEMMA StayBlocks ==
    ASSUME ContextInv, BlocksInv, frames # <<>>, status' = status,
           UNCHANGED <<frames, nblocks, insert>>, TouchesOnlyNewBlocks,
           CurrentStaysSealed,
           \A b \in Blocks : b > nblocks => blocks'[b] = blocks[b],
           1 \notin blocks'[insert].succ
    PROVE  BlocksInv' /\ SealedStep
<1>1. insert \in 1..nblocks /\ insert \in Blocks /\ nblocks \in Nat
  BY InBody DEF ContextInv, TypeOK
<1>2. ASSUME NEW b \in 1..nblocks', blocks'[b].term = "none"
      PROVE  b = insert' \/ \E i \in DOMAIN frames' : WaitsFor(frames'[i], b)
  <2>1. nblocks <= 1 + 4 * MaxStmts
    BY SourceAssumption DEF ContextInv, TypeOK
  <2>2. b \in Blocks /\ b <= nblocks
    BY <1>1, <2>1, SourceAssumption DEF Blocks
  <2>3. b = insert \/ blocks[b].term = "none"
    BY <1>2, <2>2 DEF TouchesOnlyNewBlocks
  <2> QED
    BY <1>1, <2>3 DEF BlocksInv, OpenBlocksAreWaitedFor
<1>3. ASSUME NEW b \in Blocks PROVE 1 \notin blocks'[b].succ
  <2>1. CASE b = insert
    BY <2>1
  <2>2. CASE b # insert
    <3>1. blocks'[b] = blocks[b]
      BY <1>1, <2>2 DEF TouchesOnlyNewBlocks, Blocks
    <3> QED
      BY <3>1 DEF BlocksInv
  <2> QED
    BY <2>1, <2>2
<1>4. ASSUME NEW b \in Blocks, b > nblocks' PROVE blocks'[b] = OpenBlock
  BY <1>4 DEF BlocksInv
<1>5. VerifierAccepts'
  BY DEF BlocksInv, VerifierAccepts
<1>6. SealedStep
  BY Sealed
<1> QED
  BY <1>2, <1>3, <1>4, <1>5, <1>6 DEF BlocksInv, OpenBlocksAreWaitedFor

\* The end of a body: its block is terminated, and what its activation waits
\* for is generated next or still waits.
LEMMA EndBlocks ==
    ASSUME ContextInv, BlocksInv, frames # <<>>, status' = status,
           UNCHANGED nblocks, TouchesOnlyNewBlocks, CurrentStaysSealed,
           \A b \in Blocks : b > nblocks => blocks'[b] = blocks[b],
           blocks'[insert].term # "none",
           1 \notin blocks'[insert].succ,
           \A i \in 1..(Len(frames) - 1) :
               i \in DOMAIN frames' /\ frames'[i] = frames[i],
           \A b \in 1..nblocks : WaitsFor(Top(frames), b) =>
               b = insert' \/ \E i \in DOMAIN frames' : WaitsFor(frames'[i], b)
    PROVE  BlocksInv' /\ SealedStep
<1>1. insert \in 1..nblocks /\ insert \in Blocks /\ nblocks \in Nat
  BY InBody DEF ContextInv, TypeOK
<1>2. ASSUME NEW b \in 1..nblocks', blocks'[b].term = "none"
      PROVE  b = insert' \/ \E i \in DOMAIN frames' : WaitsFor(frames'[i], b)
  <2>1. nblocks <= 1 + 4 * MaxStmts
    BY SourceAssumption DEF ContextInv, TypeOK
  <2>2. b \in Blocks /\ b <= nblocks /\ b # insert
    BY <1>1, <1>2, <2>1, SourceAssumption DEF Blocks
  <2>3. blocks[b].term = "none"
    BY <1>2, <2>2 DEF TouchesOnlyNewBlocks
  <2>4. PICK i \in DOMAIN frames : WaitsFor(frames[i], b)
    BY <2>2, <2>3 DEF BlocksInv, OpenBlocksAreWaitedFor
  <2>5. /\ frames \in Seq(Frame)
        /\ Len(frames) \in Nat
        /\ Top(frames) = frames[Len(frames)]
    BY InBody DEF ContextInv, TypeOK
  <2>6. i \in 1..(Len(frames) - 1) \/ i = Len(frames)
    BY <2>5
  <2>7. CASE i \in 1..(Len(frames) - 1)
    BY <2>4, <2>7
  <2>8. CASE i = Len(frames)
    BY <2>4, <2>5, <2>8
  <2> QED
    BY <2>6, <2>7, <2>8
<1>3. ASSUME NEW b \in Blocks PROVE 1 \notin blocks'[b].succ
  <2>1. CASE b = insert
    BY <2>1
  <2>2. CASE b # insert
    <3>1. blocks'[b] = blocks[b]
      BY <1>1, <2>2 DEF TouchesOnlyNewBlocks, Blocks
    <3> QED
      BY <3>1 DEF BlocksInv
  <2> QED
    BY <2>1, <2>2
<1>4. ASSUME NEW b \in Blocks, b > nblocks' PROVE blocks'[b] = OpenBlock
  BY <1>4 DEF BlocksInv
<1>5. VerifierAccepts'
  BY DEF BlocksInv, VerifierAccepts
<1>6. SealedStep
  BY Sealed
<1> QED
  BY <1>2, <1>3, <1>4, <1>5, <1>6 DEF BlocksInv, OpenBlocksAreWaitedFor

-----------------------------------------------------------------------------
(* The steps *)

\* A step that leaves the function alone.
LEMMA SameBlocks ==
    ASSUME BlocksInv, UNCHANGED <<frames, blocks, nblocks, insert>>,
           status' # "panic_verify"
    PROVE  BlocksInv' /\ SealedStep
  BY DEF BlocksInv, OpenBlocksAreWaitedFor, VerifierAccepts, SealedStep

LEMMA AbortBlocks ==
    ASSUME BlocksInv, NEW why, why # "panic_verify", Abort(why)
    PROVE  BlocksInv' /\ SealedStep
  BY SameBlocks DEF Abort

LEMMA DeferBlocks ==
    ASSUME ContextInv, BlocksInv, NEW size \in LiteralSizes,
           generate_defer(size)
    PROVE  BlocksInv' /\ SealedStep
<1> DEFINE d  == stmts + 1
           ev == [op |-> "reg", d |-> d, depth |-> Len(frames)]
<1>1. frames # <<>> /\ stmts < MaxStmts /\ CurrentStaysSealed
  BY DEF generate_defer, generate, NextChild, CurrentStaysSealed
<1>2. insert \in Blocks /\ insert <= nblocks
  BY <1>1, InBody DEF ContextInv, TypeOK
<1>3. ev \in Event
  <2>1. d \in Defers
    BY <1>1, SourceAssumption DEF ContextInv, TypeOK, Defers
  <2> QED
    BY <1>1, <2>1, InBody DEF Event
<1>4. blocks' = Emit(blocks, insert, ev)
  BY DEF generate_defer
<1>5. /\ \A b \in Blocks \ {insert} : blocks'[b] = blocks[b]
      /\ blocks'[insert].succ = blocks[insert].succ
  <2> HIDE DEF ev
  <2> QED
    BY <1>2, <1>3, <1>4, EmitLemma DEF ContextInv, TypeOK
<1>6. TouchesOnlyNewBlocks
  BY <1>5 DEF TouchesOnlyNewBlocks
<1>7. \A b \in Blocks : b > nblocks => blocks'[b] = blocks[b]
  <2>1. \A b \in Blocks : b > nblocks => b # insert
    BY <1>2 DEF ContextInv, TypeOK, Blocks
  <2> QED
    BY <1>5, <2>1
<1>8. 1 \notin blocks'[insert].succ
  BY <1>2, <1>5 DEF BlocksInv
<1> QED
  BY <1>1, <1>6, <1>7, <1>8, StayBlocks DEF generate_defer

\* Where the new blocks of a statement are.
LEMMA NewBlocks ==
    ASSUME ContextInv, NextChild
    PROVE  /\ nblocks \in Nat \ {0}
           /\ insert \in 1..nblocks
           /\ insert \in Blocks
           /\ \A k \in 1..4 : nblocks + k \in Blocks /\ nblocks + k # insert
           /\ blocks \in [Blocks -> Block]
           /\ frames # <<>>
           /\ \A b \in Blocks : b \in Int
<1>1. frames # <<>>
  BY DEF NextChild
<1>2. /\ nblocks \in Nat \ {0}
      /\ insert \in 1..nblocks
      /\ insert \in Blocks
      /\ nblocks + 4 \in Blocks
  BY <1>1, InBody DEF ContextInv, TypeOK
<1>3. ASSUME NEW k \in 1..4
      PROVE  nblocks + k \in Blocks /\ nblocks + k # insert
  <2>1. nblocks + 4 <= 1 + 4 * MaxStmts
    BY <1>2, SourceAssumption DEF Blocks
  <2> QED
    BY <1>2, <2>1, SourceAssumption DEF Blocks
<1>4. blocks \in [Blocks -> Block] /\ \A b \in Blocks : b \in Int
  BY DEF ContextInv, TypeOK, Blocks
<1> QED
  BY <1>1, <1>2, <1>3, <1>4

LEMMA BranchBlocks ==
    ASSUME ContextInv, BlocksInv, NEW leaves \in CondLeaves,
           NEW has_else \in BOOLEAN, BeginBranch(leaves, has_else)
    PROVE  BlocksInv' /\ SealedStep
<1>1. CASE CastingContextLeft
  BY <1>1, AbortBlocks DEF CastingContextLeft
<1>2. CASE ~CastingContextLeft
  <2> DEFINE merge_blk == nblocks + 1
             if_blk    == nblocks + 2
             else_blk  == IF has_else THEN nblocks + 3 ELSE NoBlock
             to == {if_blk, IF has_else THEN else_blk ELSE merge_blk}
             f == [kind |-> "branch", stage |-> "if", merge |-> merge_blk,
                   other |-> else_blk, old |-> NoLoop]
  <2>1. NextChild /\ CurrentStaysSealed
    BY DEF BeginBranch, generate, CurrentStaysSealed
  <2>2. /\ nblocks' = IF has_else THEN nblocks + 3 ELSE nblocks + 2
        /\ blocks' = Br(blocks, insert, to)
        /\ insert' = if_blk
        /\ frames' = Append(frames, f)
        /\ status' = status
    BY <1>2 DEF BeginBranch
  <2>3. /\ nblocks \in Nat \ {0}
        /\ insert \in 1..nblocks
        /\ insert \in Blocks
        /\ \A k \in 1..4 : nblocks + k \in Blocks /\ nblocks + k # insert
        /\ blocks \in [Blocks -> Block]
        /\ frames # <<>>
        /\ \A b \in Blocks : b \in Int
    BY <2>1, NewBlocks
  <2>4. nblocks + 1 \in Blocks /\ nblocks + 2 \in Blocks /\ nblocks + 3 \in Blocks
    BY <2>3
  <2>5. to \in SUBSET Blocks /\ 1 \notin to
    BY <2>3, <2>4
  <2>6. /\ blocks'[insert].term = "br"
        /\ blocks'[insert].succ = to
        /\ \A b \in Blocks \ {insert} : blocks'[b] = blocks[b]
    <3> HIDE DEF to
    <3> QED
      BY <2>2, <2>3, <2>5, BrLemma
  <2>7. TouchesOnlyNewBlocks
    BY <2>6 DEF TouchesOnlyNewBlocks
  <2>8. ASSUME NEW b \in Blocks, b > nblocks
        PROVE  \/ b > nblocks' /\ blocks'[b] = OpenBlock
               \/ b <= nblocks' /\ \/ blocks'[b].term # "none"
                                   \/ b = insert'
                                   \/ WaitsFor(f, b)
    <3>1. blocks'[b] = OpenBlock
      <4>1. blocks[b] = OpenBlock
        BY <2>8 DEF BlocksInv
      <4>2. b # insert
        BY <2>3, <2>8
      <4> QED
        BY <2>6, <4>1, <4>2
    <3>2. \/ b > nblocks'
          \/ b <= nblocks' /\ b \in {merge_blk, if_blk, else_blk}
      BY <2>2, <2>3, <2>8
    <3> QED
      BY <2>2, <3>1, <3>2 DEF WaitsFor
  <2>9. ASSUME NEW b \in Blocks PROVE 1 \notin blocks'[b].succ
    <3> HIDE DEF to
    <3> QED
      BY <2>5, <2>6 DEF BlocksInv
  <2>10. f \in Frame
    BY <2>4 DEF Frame, Loop, NoLoop, LoopKinds
  <2>11. nblocks' \in Nat /\ nblocks' \in Blocks /\ nblocks <= nblocks'
    BY <2>2, <2>3, <2>4
  <2>12. blocks'[insert].term # "none"
    BY <2>6
  <2> HIDE DEF f
  <2> QED
    BY <2>1, <2>2, <2>3, <2>7, <2>8, <2>9, <2>10, <2>11, <2>12, PushBlocks
<1> QED
  BY <1>1, <1>2

LEMMA WhileBlocks ==
    ASSUME ContextInv, BlocksInv, BeginWhile
    PROVE  BlocksInv' /\ SealedStep
<1>1. CASE CastingContextLeft
  BY <1>1, AbortBlocks DEF CastingContextLeft
<1>2. CASE ~CastingContextLeft
  <2> DEFINE merge_blk == nblocks + 1
             cond_blk  == nblocks + 2
             body_blk  == nblocks + 3
             to == {body_blk, merge_blk}
             bs == Br(blocks, insert, {cond_blk})
             f == [kind |-> "while", stage |-> "body", merge |-> merge_blk,
                   other |-> cond_blk, old |-> curr_loop]
  <2>1. NextChild /\ CurrentStaysSealed
    BY DEF BeginWhile, generate, CurrentStaysSealed
  <2>2. /\ nblocks' = nblocks + 3
        /\ blocks' = Br(bs, cond_blk, to)
        /\ insert' = body_blk
        /\ frames' = Append(frames, f)
        /\ status' = status
    BY <1>2 DEF BeginWhile, EnterFrame, leave_curr_loop
  <2>3. /\ nblocks \in Nat \ {0}
        /\ insert \in 1..nblocks
        /\ insert \in Blocks
        /\ \A k \in 1..4 : nblocks + k \in Blocks /\ nblocks + k # insert
        /\ blocks \in [Blocks -> Block]
        /\ frames # <<>>
        /\ \A b \in Blocks : b \in Int
    BY <2>1, NewBlocks
  <2>4. /\ merge_blk \in Blocks /\ cond_blk \in Blocks /\ body_blk \in Blocks
        /\ cond_blk # insert
    BY <2>3
  <2>5. /\ to \in SUBSET Blocks /\ 1 \notin to
        /\ {cond_blk} \in SUBSET Blocks /\ 1 \notin {cond_blk}
    BY <2>3, <2>4
  <2>6. /\ bs \in [Blocks -> Block]
        /\ bs[insert].term = "br"
        /\ bs[insert].succ = {cond_blk}
        /\ \A b \in Blocks \ {insert} : bs[b] = blocks[b]
    <3> HIDE DEF cond_blk
    <3> QED
      BY <2>3, <2>5, BrLemma
  <2>7. /\ blocks'[cond_blk].term = "br"
        /\ blocks'[cond_blk].succ = to
        /\ \A b \in Blocks \ {cond_blk} : blocks'[b] = bs[b]
    <3> HIDE DEF bs, to, cond_blk
    <3> QED
      BY <2>2, <2>4, <2>5, <2>6, BrLemma
  <2>8. \A b \in Blocks \ {insert, cond_blk} : blocks'[b] = blocks[b]
    <3> HIDE DEF bs, cond_blk
    <3> QED
      BY <2>6, <2>7
  <2>9. blocks'[insert].term = "br" /\ blocks'[insert].succ = {cond_blk}
    <3> HIDE DEF bs, cond_blk
    <3> QED
      BY <2>3, <2>4, <2>6, <2>7
  <2>10. TouchesOnlyNewBlocks
    BY <2>3, <2>8 DEF TouchesOnlyNewBlocks
  <2>11. ASSUME NEW b \in Blocks, b > nblocks
         PROVE  \/ b > nblocks' /\ blocks'[b] = OpenBlock
                \/ b <= nblocks' /\ \/ blocks'[b].term # "none"
                                    \/ b = insert'
                                    \/ WaitsFor(f, b)
    <3>1. \/ b > nblocks'
          \/ b <= nblocks' /\ b \in {merge_blk, cond_blk, body_blk}
      BY <2>2, <2>3, <2>11
    <3>2. b > nblocks' => blocks'[b] = OpenBlock
      <4>1. b > nblocks' => b # insert /\ b # cond_blk
        BY <2>2, <2>3, <2>11
      <4>2. blocks[b] = OpenBlock
        BY <2>11 DEF BlocksInv
      <4> HIDE DEF cond_blk
      <4> QED
        BY <2>8, <4>1, <4>2
    <3> QED
      BY <2>2, <2>7, <3>1, <3>2 DEF WaitsFor
  <2>12. ASSUME NEW b \in Blocks PROVE 1 \notin blocks'[b].succ
    <3> HIDE DEF to, cond_blk, bs
    <3> QED
      BY <2>5, <2>7, <2>8, <2>9 DEF BlocksInv
  <2>13. f \in Frame
    BY <2>4 DEF Frame, LoopKinds, ContextInv, TypeOK
  <2>14. nblocks' \in Nat /\ nblocks' \in Blocks /\ nblocks <= nblocks'
    BY <2>2, <2>3, <2>4
  <2>15. blocks'[insert].term # "none"
    BY <2>9
  <2> HIDE DEF f
  <2> QED
    BY <2>1, <2>2, <2>3, <2>10, <2>11, <2>12, <2>13, <2>14, <2>15, PushBlocks
<1> QED
  BY <1>1, <1>2

LEMMA ForBlocks ==
    ASSUME ContextInv, BlocksInv, NEW leaves \in CondLeaves,
           NEW has_cond \in BOOLEAN, NEW has_update \in BOOLEAN,
           BeginFor(leaves, has_cond, has_update)
    PROVE  BlocksInv' /\ SealedStep
<1>1. CASE CastingContextLeft
  BY <1>1, AbortBlocks DEF CastingContextLeft
<1>2. CASE ~CastingContextLeft
  <2> DEFINE merge_blk == nblocks + 1
             cond_blk  == nblocks + 2
             after_blk == nblocks + 3
             body_blk  == nblocks + 4
             taken == IF has_cond THEN {body_blk, merge_blk} ELSE {body_blk}
             bs == Br(blocks, insert, {cond_blk})
             cs == Br(bs, cond_blk, taken)
             f == [kind |-> "for", stage |-> "body", merge |-> merge_blk,
                   other |-> after_blk, old |-> curr_loop]
  <2>1. NextChild /\ CurrentStaysSealed
    BY DEF BeginFor, generate, CurrentStaysSealed
  <2>2. /\ nblocks' = nblocks + 4
        /\ blocks' = Br(cs, after_blk, {cond_blk})
        /\ insert' = body_blk
        /\ frames' = Append(frames, f)
        /\ status' = status
    BY <1>2 DEF BeginFor, EnterFrame, leave_curr_loop
  <2>3. /\ nblocks \in Nat \ {0}
        /\ insert \in 1..nblocks
        /\ insert \in Blocks
        /\ \A k \in 1..4 : nblocks + k \in Blocks /\ nblocks + k # insert
        /\ blocks \in [Blocks -> Block]
        /\ frames # <<>>
        /\ \A b \in Blocks : b \in Int
    BY <2>1, NewBlocks
  <2>4. /\ merge_blk \in Blocks /\ cond_blk \in Blocks
        /\ after_blk \in Blocks /\ body_blk \in Blocks
        /\ cond_blk # insert /\ after_blk # insert /\ after_blk # cond_blk
    BY <2>3
  <2>5. /\ taken \in SUBSET Blocks /\ 1 \notin taken
        /\ {cond_blk} \in SUBSET Blocks /\ 1 \notin {cond_blk}
    BY <2>3, <2>4
  <2>6. /\ bs \in [Blocks -> Block]
        /\ bs[insert].term = "br"
        /\ bs[insert].succ = {cond_blk}
        /\ \A b \in Blocks \ {insert} : bs[b] = blocks[b]
    <3> HIDE DEF cond_blk
    <3> QED
      BY <2>3, <2>5, BrLemma
  <2>7. /\ cs \in [Blocks -> Block]
        /\ cs[cond_blk].term = "br"
        /\ cs[cond_blk].succ = taken
        /\ \A b \in Blocks \ {cond_blk} : cs[b] = bs[b]
    <3> HIDE DEF bs, taken, cond_blk
    <3> QED
      BY <2>2, <2>4, <2>5, <2>6, BrLemma
  <2>8. /\ blocks'[after_blk].term = "br"
        /\ blocks'[after_blk].succ = {cond_blk}
        /\ \A b \in Blocks \ {after_blk} : blocks'[b] = cs[b]
    <3>1. blocks' = Br(cs, after_blk, {cond_blk})
      BY <2>2
    <3> HIDE DEF cs, cond_blk, after_blk
    <3> QED
      BY <2>4, <2>5, <2>7, <3>1, BrLemma
  <2> HIDE DEF bs, cs, taken
  <2>9. \A b \in Blocks \ {insert, cond_blk, after_blk} : blocks'[b] = blocks[b]
    BY <2>6, <2>7, <2>8
  <2>10. /\ blocks'[insert].term = "br" /\ blocks'[insert].succ = {cond_blk}
         /\ blocks'[cond_blk].term = "br" /\ blocks'[cond_blk].succ = taken
    BY <2>3, <2>4, <2>6, <2>7, <2>8
  <2>11. TouchesOnlyNewBlocks
    BY <2>3, <2>9 DEF TouchesOnlyNewBlocks
  <2>12. ASSUME NEW b \in Blocks, b > nblocks
         PROVE  \/ b > nblocks' /\ blocks'[b] = OpenBlock
                \/ b <= nblocks' /\ \/ blocks'[b].term # "none"
                                    \/ b = insert'
                                    \/ WaitsFor(f, b)
    <3>1. \/ b > nblocks'
          \/ b <= nblocks' /\ b \in {merge_blk, cond_blk, after_blk, body_blk}
      BY <2>2, <2>3, <2>12
    <3>2. b > nblocks' => blocks'[b] = OpenBlock
      <4>1. b > nblocks' => b # insert /\ b # cond_blk /\ b # after_blk
        BY <2>2, <2>3, <2>12
      <4>2. blocks[b] = OpenBlock
        BY <2>12 DEF BlocksInv
      <4> HIDE DEF cond_blk, after_blk
      <4> QED
        BY <2>9, <4>1, <4>2
    <3> QED
      BY <2>2, <2>8, <2>10, <3>1, <3>2 DEF WaitsFor
  <2>13. ASSUME NEW b \in Blocks PROVE 1 \notin blocks'[b].succ
    <3> HIDE DEF cond_blk, after_blk
    <3> QED
      BY <2>5, <2>8, <2>9, <2>10 DEF BlocksInv
  <2>14. f \in Frame
    BY <2>4 DEF Frame, LoopKinds, ContextInv, TypeOK
  <2>15. nblocks' \in Nat /\ nblocks' \in Blocks /\ nblocks <= nblocks'
    BY <2>2, <2>3, <2>4
  <2>16. blocks'[insert].term # "none"
    BY <2>10
  <2> HIDE DEF f
  <2> QED
    BY <2>1, <2>2, <2>3, <2>11, <2>12, <2>13, <2>14, <2>15, <2>16, PushBlocks
<1> QED
  BY <1>1, <1>2

LEMMA DoWhileBlocks ==
    ASSUME ContextInv, BlocksInv, BeginDoWhile
    PROVE  BlocksInv' /\ SealedStep
<1>1. CASE CastingContextLeft
  BY <1>1, AbortBlocks DEF CastingContextLeft
<1>2. CASE ~CastingContextLeft
  <2> DEFINE merge_blk == nblocks + 1
             cond_blk  == nblocks + 2
             body_blk  == nblocks + 3
             f == [kind |-> "dowhile", stage |-> "body", merge |-> merge_blk,
                   other |-> cond_blk, old |-> curr_loop]
  <2>1. NextChild /\ CurrentStaysSealed
    BY DEF BeginDoWhile, generate, CurrentStaysSealed
  <2>2. /\ nblocks' = nblocks + 3
        /\ blocks' = Br(blocks, insert, {body_blk})
        /\ insert' = body_blk
        /\ frames' = Append(frames, f)
        /\ status' = status
    BY <1>2 DEF BeginDoWhile, EnterFrame, leave_curr_loop
  <2>3. /\ nblocks \in Nat \ {0}
        /\ insert \in 1..nblocks
        /\ insert \in Blocks
        /\ \A k \in 1..4 : nblocks + k \in Blocks /\ nblocks + k # insert
        /\ blocks \in [Blocks -> Block]
        /\ frames # <<>>
        /\ \A b \in Blocks : b \in Int
    BY <2>1, NewBlocks
  <2>4. merge_blk \in Blocks /\ cond_blk \in Blocks /\ body_blk \in Blocks
    BY <2>3
  <2>5. {body_blk} \in SUBSET Blocks /\ 1 \notin {body_blk}
    BY <2>3, <2>4
  <2>6. /\ blocks'[insert].term = "br"
        /\ blocks'[insert].succ = {body_blk}
        /\ \A b \in Blocks \ {insert} : blocks'[b] = blocks[b]
    <3>1. blocks' = Br(blocks, insert, {body_blk})
      BY <2>2
    <3> HIDE DEF body_blk
    <3> QED
      BY <2>3, <2>5, <3>1, BrLemma
  <2>7. TouchesOnlyNewBlocks
    BY <2>6 DEF TouchesOnlyNewBlocks
  <2>8. ASSUME NEW b \in Blocks, b > nblocks
        PROVE  \/ b > nblocks' /\ blocks'[b] = OpenBlock
               \/ b <= nblocks' /\ \/ blocks'[b].term # "none"
                                   \/ b = insert'
                                   \/ WaitsFor(f, b)
    <3>1. blocks'[b] = OpenBlock
      <4>1. b # insert
        BY <2>3, <2>8
      <4>2. blocks[b] = OpenBlock
        BY <2>8 DEF BlocksInv
      <4> QED
        BY <2>6, <4>1, <4>2
    <3>2. \/ b > nblocks'
          \/ b <= nblocks' /\ b \in {merge_blk, cond_blk, body_blk}
      BY <2>2, <2>3, <2>8
    <3> QED
      BY <2>2, <3>1, <3>2 DEF WaitsFor
  <2>9. ASSUME NEW b \in Blocks PROVE 1 \notin blocks'[b].succ
    <3> HIDE DEF body_blk
    <3> QED
      BY <2>5, <2>6 DEF BlocksInv
  <2>10. f \in Frame
    BY <2>4 DEF Frame, LoopKinds, ContextInv, TypeOK
  <2>11. nblocks' \in Nat /\ nblocks' \in Blocks /\ nblocks <= nblocks'
    BY <2>2, <2>3, <2>4
  <2>12. blocks'[insert].term # "none"
    BY <2>6
  <2> HIDE DEF f
  <2> QED
    BY <2>1, <2>2, <2>3, <2>7, <2>8, <2>9, <2>10, <2>11, <2>12, PushBlocks
<1> QED
  BY <1>1, <1>2

\* Closing the innermost body, whose block is left for another.
LEMMA CloseBlocks ==
    ASSUME ContextInv, BlocksInv, frames # <<>>, CloseProceeds,
           NEW to \in Blocks, to # 1, blocks' = ClosedBlocks(to)
    PROVE  /\ TouchesOnlyNewBlocks
           /\ CurrentStaysSealed
           /\ \A b \in Blocks : b > nblocks => blocks'[b] = blocks[b]
           /\ blocks'[insert].term # "none"
           /\ 1 \notin blocks'[insert].succ
<1>1. /\ insert \in 1..nblocks
      /\ insert \in Blocks
      /\ Len(deferred) >= 1
      /\ nblocks \in Nat
  BY InBody DEF ContextInv, TypeOK
<1>2. /\ blocks'[insert].term # "none"
      /\ blocks'[insert].succ \in {blocks[insert].succ, {to}}
      /\ \A c \in Blocks \ {insert} : blocks'[c] = blocks[c]
  BY <1>1, CloseLemma DEF ContextInv
<1>3. \A b \in Blocks : b > nblocks => b # insert
  BY <1>1 DEF Blocks
<1>4. 1 \notin blocks'[insert].succ
  BY <1>1, <1>2 DEF BlocksInv
<1>5. CurrentStaysSealed
  BY DEF CurrentStaysSealed, ClosedBlocks
<1> QED
  BY <1>2, <1>3, <1>4, <1>5 DEF TouchesOnlyNewBlocks

LEMMA ElseBlocks ==
    ASSUME ContextInv, BlocksInv, EndIfBeginElse
    PROVE  BlocksInv' /\ SealedStep
<1>1. CASE CloseAborts
  BY <1>1, AbortBlocks DEF CloseAborts
<1>2. CASE ~CloseAborts
  <2> DEFINE n == Len(frames)
             f == [Top(frames) EXCEPT !.stage = "else"]
  <2>1. /\ frames # <<>>
        /\ Top(frames).kind = "branch"
    BY DEF EndIfBeginElse, AtEnd
  <2>2. /\ CloseProceeds
        /\ blocks' = ClosedBlocks(Top(frames).merge)
        /\ insert' = Top(frames).other
        /\ frames' = SetTop(frames, f)
        /\ UNCHANGED <<status, nblocks>>
    BY <1>2 DEF EndIfBeginElse
  <2>3. Top(frames).merge \in Blocks /\ Top(frames).merge # 1
    BY <2>1, InBody, FrameInBlocks DEF FrameOK
  <2>4. /\ Top(frames) \in Frame
        /\ n \in Nat \ {0}
        /\ frames \in Seq(Frame)
    BY <2>1, InBody DEF ContextInv, TypeOK
  <2>5. f \in Frame /\ f.merge = Top(frames).merge
    BY <2>4 DEF Frame
  <2>6. /\ n \in DOMAIN frames'
        /\ frames'[n] = f
        /\ \A i \in 1..(n - 1) : i \in DOMAIN frames' /\ frames'[i] = frames[i]
    <3>1. /\ SetTop(frames, f) \in Seq(Frame)
          /\ Len(SetTop(frames, f)) = Len(frames)
          /\ SetTop(frames, f)[Len(frames)] = f
          /\ \A i \in 1..(Len(frames) - 1) : SetTop(frames, f)[i] = frames[i]
      <4>1. frames \in Seq(Frame) /\ frames # <<>> /\ f \in Frame
        BY <2>1, <2>4, <2>5
      <4> HIDE DEF f
      <4> QED
        BY <4>1, SetTopLemma
    <3> HIDE DEF f
    <3> QED
      BY <2>2, <2>4, <3>1
  <2>7. ASSUME NEW b \in 1..nblocks, WaitsFor(Top(frames), b)
        PROVE  b = insert' \/ \E i \in DOMAIN frames' : WaitsFor(frames'[i], b)
    <3>1. CASE b = Top(frames).merge
      <4>1. WaitsFor(frames'[n], b)
        BY <2>5, <2>6, <3>1 DEF WaitsFor
      <4> QED
        BY <2>6, <4>1
    <3>2. CASE b = Top(frames).other
      BY <2>2, <3>2
    <3> QED
      BY <2>7, <3>1, <3>2 DEF WaitsFor
  <2>8. /\ TouchesOnlyNewBlocks
        /\ CurrentStaysSealed
        /\ \A b \in Blocks : b > nblocks => blocks'[b] = blocks[b]
        /\ blocks'[insert].term # "none"
        /\ 1 \notin blocks'[insert].succ
    BY <2>1, <2>2, <2>3, CloseBlocks
  <2> HIDE DEF f
  <2> QED
    BY <2>1, <2>2, <2>6, <2>7, <2>8, EndBlocks
<1> QED
  BY <1>1, <1>2

\* The end of a body whose activation returns to its merge block.
LEMMA ReturnBlocks ==
    ASSUME ContextInv, BlocksInv, frames # <<>>, Top(frames).kind # "proc",
           Top(frames).kind # "dowhile",
           Top(frames).stage = "if" => Top(frames).other = NoBlock,
           CloseProceeds, NEW to \in Blocks, to # 1,
           blocks' = ClosedBlocks(to), insert' = Top(frames).merge,
           frames' = Pop(frames), UNCHANGED <<status, nblocks>>
    PROVE  BlocksInv' /\ SealedStep
<1> DEFINE n == Len(frames)
<1>1. \A i \in 1..(n - 1) : i \in DOMAIN frames' /\ frames'[i] = frames[i]
  <2>1. frames \in Seq(Frame)
    BY DEF ContextInv, TypeOK
  <2>2. /\ Pop(frames) \in Seq(Frame)
        /\ Len(Pop(frames)) = Len(frames) - 1
        /\ \A i \in 1..(Len(frames) - 1) : Pop(frames)[i] = frames[i]
    BY <2>1, PopLemma
  <2> QED
    BY <2>2
<1>2. ASSUME NEW b \in 1..nblocks, WaitsFor(Top(frames), b)
      PROVE  b = insert' \/ \E i \in DOMAIN frames' : WaitsFor(frames'[i], b)
  <2>1. b # NoBlock
    BY DEF NoBlock
  <2> QED
    BY <1>2, <2>1 DEF WaitsFor
<1>3. /\ TouchesOnlyNewBlocks
      /\ CurrentStaysSealed
      /\ \A b \in Blocks : b > nblocks => blocks'[b] = blocks[b]
      /\ blocks'[insert].term # "none"
      /\ 1 \notin blocks'[insert].succ
  BY CloseBlocks
<1> QED
  BY <1>1, <1>2, <1>3, EndBlocks

LEMMA EndBranchBlocks ==
    ASSUME ContextInv, BlocksInv, EndBranch
    PROVE  BlocksInv' /\ SealedStep
<1>1. CASE CloseAborts
  BY <1>1, AbortBlocks DEF CloseAborts
<1>2. CASE ~CloseAborts
  <2>1. /\ frames # <<>>
        /\ Top(frames).kind = "branch"
        /\ Top(frames).stage = "if" => Top(frames).other = NoBlock
    BY DEF EndBranch, AtEnd
  <2>2. /\ CloseProceeds
        /\ blocks' = ClosedBlocks(Top(frames).merge)
        /\ insert' = Top(frames).merge
        /\ frames' = Pop(frames)
        /\ UNCHANGED <<status, nblocks>>
    BY <1>2 DEF EndBranch
  <2>3. Top(frames).merge \in Blocks /\ Top(frames).merge # 1
    BY <2>1, InBody, FrameInBlocks DEF FrameOK
  <2> QED
    BY <2>1, <2>2, <2>3, ReturnBlocks
<1> QED
  BY <1>1, <1>2

LEMMA EndLoopBlocks ==
    ASSUME ContextInv, BlocksInv, EndWhileOrFor
    PROVE  BlocksInv' /\ SealedStep
<1>1. CASE CloseAborts
  BY <1>1, AbortBlocks DEF CloseAborts
<1>2. CASE ~CloseAborts
  <2>1. frames # <<>> /\ Top(frames).kind \in {"while", "for"}
    BY DEF EndWhileOrFor, AtEnd
  <2>2. /\ CloseProceeds
        /\ blocks' = ClosedBlocks(Top(frames).other)
        /\ insert' = Top(frames).merge
        /\ frames' = Pop(frames)
        /\ UNCHANGED <<status, nblocks>>
    BY <1>2 DEF EndWhileOrFor
  <2>3. /\ Top(frames).other \in 2..nblocks
        /\ Top(frames).stage = "body"
    BY <2>1, InBody DEF FrameOK, LoopKinds
  <2>4. Top(frames).other \in Blocks /\ Top(frames).other # 1
    BY <2>1, <2>3, FrameInBlocks DEF NoBlock
  <2> QED
    BY <2>1, <2>2, <2>3, <2>4, ReturnBlocks
<1> QED
  BY <1>1, <1>2

LEMMA EndDoWhileBlocks ==
    ASSUME ContextInv, BlocksInv, EndDoWhile
    PROVE  BlocksInv' /\ SealedStep
<1>1. frames # <<>> /\ Top(frames).kind = "dowhile"
  BY DEF EndDoWhile, AtEnd
<1>2. curr_loop # NoLoop
  BY <1>1, BodiesFromContext, DoWhileContext
<1>3. CloseAborts \/ Abort("assert_enter_loop")
  BY <1>2 DEF EndDoWhile
<1> QED
  BY <1>3, AbortBlocks DEF CloseAborts

\* A statement that terminates the current block and opens no body.
LEMMA LeaveBlocks ==
    ASSUME ContextInv, BlocksInv, NextChild, ~curr_block_has_terminator,
           UNCHANGED <<status, frames, nblocks, insert>>,
           \A c \in Blocks \ {insert} : blocks'[c] = blocks[c],
           1 \notin blocks'[insert].succ
    PROVE  BlocksInv' /\ SealedStep
<1>1. TouchesOnlyNewBlocks /\ CurrentStaysSealed
  BY DEF TouchesOnlyNewBlocks, CurrentStaysSealed
<1>2. \A b \in Blocks : b > nblocks => blocks'[b] = blocks[b]
  <2>1. \A b \in Blocks : b > nblocks => b # insert
    BY NewBlocks
  <2> QED
    BY <2>1
<1>3. frames # <<>>
  BY DEF NextChild
<1> QED
  BY <1>1, <1>2, <1>3, StayBlocks

LEMMA LeaveLoopBlocks ==
    ASSUME ContextInv, BlocksInv, NEW kind, NEW target,
           LeaveLoopBody(kind, target),
           inside_source_loop => target \in Blocks /\ target # 1
    PROVE  BlocksInv' /\ SealedStep
<1> DEFINE scopes == unpack_defers_until_loop_base
<1>1. NextChild /\ ~curr_block_has_terminator /\ inside_source_loop
  BY DEF LeaveLoopBody, generate
<1>2. inside_loop /\ loop_bases # {} /\ loop_base \in 1..Len(deferred)
  BY <1>1, BodiesFromContext, LoopFound
<1>3. CASE LiteralTooShort(scopes)
  <2>1. Abort("assert_literal")
    BY <1>2, <1>3 DEF LeaveLoopBody
  <2> QED
    BY <2>1, AbortBlocks
<1>4. CASE ~LiteralTooShort(scopes)
  <2>1. /\ blocks' = ExitBlocks(scopes, target)
        /\ UNCHANGED <<status, frames, nblocks, insert>>
    BY <1>2, <1>4 DEF LeaveLoopBody, ExitBlocks
  <2>2. insert \in Blocks /\ target \in Blocks /\ target # 1
    BY <1>1, NewBlocks
  <2>3. scopes = FromBackTo(loop_base) /\ loop_base \in 1..(Len(deferred) + 1)
    BY <1>2 DEF unpack_defers_until_loop_base, ContextInv, TypeOK
  <2> HIDE DEF scopes
  <2>4. /\ Unpack(blocks, insert, scopes) \in [Blocks -> Block]
        /\ \A c \in Blocks \ {insert} :
               Unpack(blocks, insert, scopes)[c] = blocks[c]
    BY <1>4, <2>2, <2>3, UnpackLemma DEF ContextInv
  <2>5. {target} \in SUBSET Blocks
    BY <2>2
  <2>6. /\ blocks'[insert].succ = {target}
        /\ \A c \in Blocks \ {insert} :
               blocks'[c] = Unpack(blocks, insert, scopes)[c]
    BY <2>1, <2>2, <2>4, <2>5, BrLemma DEF ExitBlocks
  <2>7. \A c \in Blocks \ {insert} : blocks'[c] = blocks[c]
    BY <2>4, <2>6
  <2>8. 1 \notin blocks'[insert].succ
    BY <2>2, <2>6
  <2> QED
    BY <1>1, <2>1, <2>7, <2>8, LeaveBlocks
<1> QED
  BY <1>3, <1>4

LEMMA BrkContBlocks ==
    ASSUME ContextInv, BlocksInv, generate_brk \/ generate_cont
    PROVE  BlocksInv' /\ SealedStep
<1>1. inside_source_loop => /\ curr_loop.merge \in Blocks /\ curr_loop.merge # 1
                            /\ curr_loop.after \in Blocks /\ curr_loop.after # 1
  <2> SUFFICES ASSUME inside_source_loop
               PROVE  /\ curr_loop.merge \in Blocks /\ curr_loop.merge # 1
                      /\ curr_loop.after \in Blocks /\ curr_loop.after # 1
    OBVIOUS
  <2>1. curr_loop.merge \in 2..nblocks /\ curr_loop.after \in 2..nblocks
    BY BodiesFromContext, LoopFound
  <2>2. nblocks \in Nat /\ nblocks <= 1 + 4 * MaxStmts
    BY SourceAssumption DEF ContextInv, TypeOK
  <2> QED
    BY <2>1, <2>2, SourceAssumption DEF Blocks
<1> QED
  BY <1>1, LeaveLoopBlocks DEF generate_brk, generate_cont

LEMMA RetBlocks ==
    ASSUME ContextInv, BlocksInv, generate_ret
    PROVE  BlocksInv' /\ SealedStep
<1> DEFINE scopes == unpack_defers_all
<1>1. NextChild /\ ~curr_block_has_terminator
  BY DEF generate_ret, generate
<1>2. CASE CastingContextLeft \/ Abort("assert_literal")
  BY <1>2, AbortBlocks DEF CastingContextLeft
<1>3. CASE /\ ~LiteralTooShort(scopes)
           /\ blocks' = RetFrom(Unpack(blocks, insert, scopes), insert)
           /\ UNCHANGED <<status, frames, nblocks, insert>>
  <2>1. insert \in Blocks
    BY <1>1, NewBlocks
  <2>2. scopes = FromBackTo(1) /\ 1 \in 1..(Len(deferred) + 1)
    BY DEF unpack_defers_all, ContextInv, TypeOK
  <2> HIDE DEF scopes
  <2>3. /\ Unpack(blocks, insert, scopes) \in [Blocks -> Block]
        /\ Unpack(blocks, insert, scopes)[insert].succ = blocks[insert].succ
        /\ \A c \in Blocks \ {insert} :
               Unpack(blocks, insert, scopes)[c] = blocks[c]
    BY <1>3, <2>1, <2>2, UnpackLemma DEF ContextInv
  <2>4. /\ blocks'[insert].succ = blocks[insert].succ
        /\ \A c \in Blocks \ {insert} : blocks'[c] = blocks[c]
    BY <1>3, <2>1, <2>3, RetLemma
  <2>5. 1 \notin blocks'[insert].succ
    BY <2>1, <2>4 DEF BlocksInv
  <2> QED
    BY <1>1, <1>3, <2>4, <2>5, LeaveBlocks
<1> QED
  BY <1>2, <1>3 DEF generate_ret

LEMMA BeginProcBlocks ==
    ASSUME ContextInv, BlocksInv, BeginProc
    PROVE  BlocksInv' /\ procs' # procs
<1>1. /\ blocks' = [b \in Blocks |-> OpenBlock]
      /\ nblocks' = 1
      /\ insert' = 1
      /\ procs' = procs + 1
      /\ status' \in {status, "assert_enter_proc"}
  BY DEF BeginProc
<1>2. \A b \in Blocks : blocks'[b] = OpenBlock
  BY <1>1
<1>3. OpenBlocksAreWaitedFor'
  BY <1>1 DEF OpenBlocksAreWaitedFor
<1>4. \A b \in Blocks : 1 \notin blocks'[b].succ
  BY <1>2 DEF OpenBlock
<1>5. VerifierAccepts'
  BY <1>1 DEF VerifierAccepts, BlocksInv
<1>6. procs' # procs
  BY <1>1 DEF ContextInv, TypeOK
<1> QED
  BY <1>2, <1>3, <1>4, <1>5, <1>6 DEF BlocksInv

\* The default return of a procedure terminates the last open block, so the
\* verifier has nothing to reject.
LEMMA EndProcBlocks ==
    ASSUME ContextInv, BlocksInv, EndProc
    PROVE  BlocksInv' /\ SealedStep
<1>1. CASE CloseAborts
  BY <1>1, AbortBlocks DEF CloseAborts
<1>2. CASE ~CloseAborts
  <2> DEFINE scopes == unpack_defers_regular
  <2>1. frames # <<>> /\ Top(frames).kind = "proc" /\ status = "running"
    BY DEF EndProc, AtEnd
  <2>2. /\ CloseProceeds
        /\ blocks' = IF curr_block_has_terminator THEN blocks
                     ELSE RetFrom(Unpack(blocks, insert, scopes), insert)
        /\ status' = IF verifyFunction(blocks') THEN status ELSE "panic_verify"
        /\ UNCHANGED <<nblocks, insert>>
    BY <1>2 DEF EndProc
  <2>3. /\ insert \in 1..nblocks
        /\ insert \in Blocks
        /\ nblocks \in Nat
        /\ nblocks <= 1 + 4 * MaxStmts
        /\ Len(frames) = 1
        /\ Len(deferred) = 1
        /\ Top(frames) = frames[1]
    BY <2>1, InBody, BodiesFromContext, ProcAlone, SourceAssumption
    DEF ContextInv, TypeOK
  <2>4. /\ blocks'[insert].term # "none"
        /\ blocks'[insert].succ = blocks[insert].succ
        /\ \A c \in Blocks \ {insert} : blocks'[c] = blocks[c]
        /\ CurrentStaysSealed
    <3>1. CASE curr_block_has_terminator
      BY <2>2, <3>1 DEF curr_block_has_terminator, CurrentStaysSealed
    <3>2. CASE ~curr_block_has_terminator
      <4>1. /\ scopes = FromBackTo(Len(deferred))
            /\ Len(deferred) \in 1..(Len(deferred) + 1)
            /\ ~LiteralTooShort(scopes)
        BY <2>2, <2>3, <3>2 DEF unpack_defers_regular, CloseProceeds
      <4> HIDE DEF scopes
      <4>2. /\ Unpack(blocks, insert, scopes) \in [Blocks -> Block]
            /\ Unpack(blocks, insert, scopes)[insert].succ
                   = blocks[insert].succ
            /\ \A c \in Blocks \ {insert} :
                   Unpack(blocks, insert, scopes)[c] = blocks[c]
        BY <2>3, <4>1, UnpackLemma DEF ContextInv
      <4> QED
        BY <2>2, <2>3, <3>2, <4>2, RetLemma DEF CurrentStaysSealed
    <3> QED
      BY <3>1, <3>2
  <2>5. ASSUME NEW b \in 1..nblocks PROVE blocks'[b].term # "none"
    <3>1. b \in Blocks
      BY <2>3, SourceAssumption DEF Blocks
    <3>2. ASSUME blocks[b].term = "none" PROVE b = insert
      <4>1. b = insert \/ \E i \in DOMAIN frames : WaitsFor(frames[i], b)
        BY <3>2 DEF BlocksInv, OpenBlocksAreWaitedFor
      <4>2. \A i \in DOMAIN frames : i = 1
        BY <2>3 DEF ContextInv, TypeOK
      <4>3. ~WaitsFor(Top(frames), b)
        <5>1. FrameOK(Top(frames), nblocks)
          BY <2>1, InBody
        <5> QED
          BY <2>1, <5>1 DEF FrameOK, WaitsFor, NoBlock
      <4> QED
        BY <2>3, <4>1, <4>2, <4>3
    <3> QED
      BY <2>4, <3>1, <3>2
  <2>6. ASSUME NEW b \in Blocks PROVE 1 \notin blocks'[b].succ
    BY <2>3, <2>4 DEF BlocksInv
  <2>7. verifyFunction(blocks')
    <3>1. \A b \in 1..nblocks : b \in Blocks
      BY <2>3, SourceAssumption DEF Blocks
    <3> QED
      BY <2>5, <2>6, <3>1 DEF verifyFunction
  <2>8. VerifierAccepts'
    BY <2>1, <2>2, <2>7 DEF VerifierAccepts
  <2>9. ASSUME NEW b \in Blocks, b > nblocks' PROVE blocks'[b] = OpenBlock
    <3>1. b # insert
      BY <2>2, <2>3, <2>9
    <3> QED
      BY <2>2, <2>4, <2>9, <3>1 DEF BlocksInv
  <2>10. OpenBlocksAreWaitedFor'
    BY <2>2, <2>5 DEF OpenBlocksAreWaitedFor
  <2>11. SealedStep
    <3>1. TouchesOnlyNewBlocks
      BY <2>4 DEF TouchesOnlyNewBlocks
    <3> QED
      BY <2>1, <2>4, <3>1, Sealed
  <2> QED
    BY <2>6, <2>8, <2>9, <2>10, <2>11 DEF BlocksInv
<1> QED
  BY <1>1, <1>2

-----------------------------------------------------------------------------
(* The invariance theorems *)

LEMMA BlocksInit == Init => BlocksInv
  BY DEF Init, BlocksInv, OpenBlocksAreWaitedFor, VerifierAccepts, OpenBlock

LEMMA BlocksStep ==
    ContextInv /\ BlocksInv /\ [Next]_vars =>
        BlocksInv' /\ (procs' = procs => SealedStep)
<1> SUFFICES ASSUME ContextInv, BlocksInv, [Next]_vars
             PROVE  BlocksInv' /\ (procs' = procs => SealedStep)
  OBVIOUS
<1>1. CASE BeginProc
  BY <1>1, BeginProcBlocks
<1>2. CASE PlainChild
  BY <1>2, SameBlocks DEF PlainChild, NextChild
<1>3. CASE UndispatchedChild
  BY <1>3, AbortBlocks DEF UndispatchedChild
<1>4. CASE \E size \in LiteralSizes : generate_defer(size)
  BY <1>4, DeferBlocks
<1>5. CASE \E leaves \in CondLeaves, has_else \in BOOLEAN :
               BeginBranch(leaves, has_else)
  BY <1>5, BranchBlocks
<1>6. CASE EndIfBeginElse
  BY <1>6, ElseBlocks
<1>7. CASE EndBranch
  BY <1>7, EndBranchBlocks
<1>8. CASE BeginWhile
  BY <1>8, WhileBlocks
<1>9. CASE \E leaves \in CondLeaves, has_cond \in BOOLEAN,
              has_update \in BOOLEAN : BeginFor(leaves, has_cond, has_update)
  BY <1>9, ForBlocks
<1>10. CASE EndWhileOrFor
  BY <1>10, EndLoopBlocks
<1>11. CASE BeginDoWhile
  BY <1>11, DoWhileBlocks
<1>12. CASE EndDoWhile
  BY <1>12, EndDoWhileBlocks
<1>13. CASE generate_brk \/ generate_cont
  BY <1>13, BrkContBlocks
<1>14. CASE generate_ret
  BY <1>14, RetBlocks
<1>15. CASE EndProc
  BY <1>15, EndProcBlocks
<1>16. CASE Finish
  BY <1>16, SameBlocks DEF Finish
<1>17. CASE Halted \/ UNCHANGED vars
  BY <1>17, SameBlocks DEF Halted, vars, BlocksInv, VerifierAccepts
<1> QED
  BY <1>1, <1>2, <1>3, <1>4, <1>5, <1>6, <1>7, <1>8, <1>9, <1>10, <1>11,
     <1>12, <1>13, <1>14, <1>15, <1>16, <1>17 DEF Next

LEMMA BlocksInvariance == Spec => []BlocksInv
<1>1. Init => BlocksInv
  BY BlocksInit
<1>2. ContextInv /\ BlocksInv /\ [Next]_vars => BlocksInv'
  BY BlocksStep
<1> QED
  BY <1>1, <1>2, ContextInvariance, PTL DEF Spec

\* No basic block is forgotten: whatever lacks a terminator is where code is
\* inserted or waits for an open activation.
THEOREM OpenBlocksCorrect == Spec => []OpenBlocksAreWaitedFor
<1>1. BlocksInv => OpenBlocksAreWaitedFor
  BY DEF BlocksInv
<1> QED
  BY <1>1, BlocksInvariance, PTL

\* The panic after verifyFunction cannot be reached by a missing terminator
\* or a branch to the entry block, whatever the nesting of the source.
THEOREM VerifierCorrect == Spec => []VerifierAccepts
<1>1. BlocksInv => VerifierAccepts
  BY DEF BlocksInv
<1> QED
  BY <1>1, BlocksInvariance, PTL

\* Nothing is ever emitted behind a terminator.
THEOREM SealedCorrect == Spec => SealedBlocksStaySealed
<1>1. ContextInv /\ BlocksInv /\ [Next]_vars =>
          [procs' = procs =>
              \A b \in Blocks :
                  blocks[b].term # "none" => blocks'[b] = blocks[b]]_vars
  BY BlocksStep DEF SealedStep
<1> QED
  BY <1>1, ContextInvariance, BlocksInvariance, PTL
  DEF Spec, SealedBlocksStaySealed
=============================================================================
