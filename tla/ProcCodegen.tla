---------------------------- MODULE ProcCodegen ----------------------------
(***************************************************************************)
(* Control flow of code generation (src/tak/src/codegen).                  *)
(*                                                                         *)
(* tak walks the AST of a procedure with the recursive functions           *)
(* generate_procdecl, generate_branch, generate_for, ...  Between two      *)
(* children of a node everything the walk remembers is in CodegenContext   *)
(* (deferred_stmts_, curr_loop_, curr_proc_, casting_context_), in the     *)
(* LLVM function under construction (blocks, the insert point) and in the  *)
(* C++ call stack, which is the variable "frames" here.  One action is the *)
(* part of a generate_* function between two children.  The AST is the     *)
(* environment: any statement the parser and the checker accept may be the *)
(* next child.                                                             *)
(*                                                                         *)
(* A basic block is a sequence of events, a terminator and its successors. *)
(* Only the events about defers are kept: "reg" marks where a defer        *)
(* statement stood in the source (it emits no instruction), "run" lists    *)
(* the deferred calls emitted there, scope by scope.  The blocks of a      *)
(* condition and of a defer_if (a single-entry, single-exit diamond) are   *)
(* folded into the block they start in.                                    *)
(***************************************************************************)
EXTENDS Integers, Sequences

CONSTANTS
    Statements,     \* the kinds of statement the source is made of
    MaxStmts,       \* statements of one procedure body (bounds the source)
    MaxProcs,       \* procedures of the compilation (bounds the source)
    CondLeaves,     \* may generating a condition leave a casting context?
    LiteralSizes    \* sizes, with quotes, of a literal passed by a deferred
                    \* call; 0 is a call without a string/character literal

ASSUME SourceAssumption ==
    /\ Statements \subseteq {"plain", "undispatched", "defer", "branch", "while",
                             "for", "dowhile", "brk", "cont", "ret"}
    /\ MaxStmts \in Nat
    /\ MaxProcs \in Nat
    /\ CondLeaves \subseteq BOOLEAN
    /\ LiteralSizes \subseteq {0} \cup (Nat \ {0, 1})

VARIABLES
    status,      \* "running", "done", or the assert/panic that ended tak
    procs,       \* procedures started so far
    curr_proc,   \* CodegenContext::curr_proc_ (0 is nullptr)
    frames,      \* activations of generate_*, outermost first
    deferred,    \* CodegenContext::deferred_stmts_
    curr_loop,   \* CodegenContext::curr_loop_
    casting,     \* CodegenContext::casting_context_ has a value
    blocks,      \* basic blocks of the LLVM function
    nblocks,     \* blocks created so far in this function
    insert,      \* builder_.GetInsertBlock()
    stmts,       \* statements of this procedure visited so far
    lit          \* literal argument of each deferred call

vars == <<status, procs, curr_proc, frames, deferred, curr_loop, casting,
          blocks, nblocks, insert, stmts, lit>>

-----------------------------------------------------------------------------
(* Data *)

Defers    == 1..MaxStmts
Blocks    == 1..(1 + 4 * MaxStmts)     \* a statement creates at most 4
NoBlock   == 0
LoopKinds == {"for", "while", "dowhile"}

Event == [op : {"reg"}, d : Defers, depth : Nat]
            \cup [op : {"run"}, scopes : Seq(Seq(Defers))]

Block == [code : Seq(Event),
          term : {"none", "br", "ret"},
          succ : SUBSET Blocks]

OpenBlock == [code |-> <<>>, term |-> "none", succ |-> {}]

Loop   == [after : Blocks \cup {NoBlock}, merge : Blocks \cup {NoBlock}]
NoLoop == [after |-> NoBlock, merge |-> NoBlock]

DeferredStackElement == [stmts : Seq(Defers), is_loop_base : BOOLEAN]

\* stage is what the activation is generating; merge is where it continues,
\* other the block generated when the stage ends (else, or the back edge).
Frame == [kind  : {"proc", "branch"} \cup LoopKinds,
          stage : {"body", "if", "else"},
          merge : Blocks \cup {NoBlock},
          other : Blocks \cup {NoBlock},
          old   : Loop]

Literal == [size : Nat, stripped : BOOLEAN]

Top(s)     == s[Len(s)]
Pop(s)     == SubSeq(s, 1, Len(s) - 1)
SetTop(s, e) == [s EXCEPT ![Len(s)] = e]

-----------------------------------------------------------------------------
(* The LLVM builder, as src/tak/src/codegen uses it *)

Emit(bs, b, ev)  == [bs EXCEPT ![b].code = Append(@, ev)]
Br(bs, b, to)    == [bs EXCEPT ![b].term = "br", ![b].succ = to]
RetFrom(bs, b)   == [bs EXCEPT ![b].term = "ret"]

curr_block_has_terminator == blocks[insert].term # "none"

(***************************************************************************)
(* llvm::verifyFunction rejects a function with an unterminated block or   *)
(* with a branch to its entry.                                             *)
(***************************************************************************)
verifyFunction(bs) ==
    \A b \in 1..nblocks : bs[b].term # "none" /\ 1 \notin bs[b].succ

-----------------------------------------------------------------------------
(* Deferred calls *)

(***************************************************************************)
(* generate_singleton_literal erases the first and the last character of   *)
(* the AST node's own text, every time the node is generated; a text that  *)
(* becomes empty is replaced by one '\0'.                                  *)
(***************************************************************************)
generate_singleton_literal(l) ==
    IF l.size = 0 THEN l
    ELSE [size |-> IF l.size = 2 THEN 1 ELSE l.size - 2, stripped |-> TRUE]

DefersIn(scopes) ==
    UNION {{scopes[i][j] : j \in DOMAIN scopes[i]} : i \in DOMAIN scopes}

\* Mutant: the assert lets a text of one character through.
LiteralTooShort_one_allowed(scopes) ==
    \E d \in DefersIn(scopes) : lit[d].stripped /\ lit[d].size < 1

\* assert(node->value.size() >= 2) fails for a call of these scopes.
LiteralTooShort(scopes) == \E d \in DefersIn(scopes) : lit[d].size = 1

Generated(scopes) ==
    [d \in Defers |-> IF d \in DefersIn(scopes)
                      THEN generate_singleton_literal(lit[d]) ELSE lit[d]]

(***************************************************************************)
(* What unpack_defers emits by each method: the statements of each stack   *)
(* element in the order they were pushed, from the back of the stack.      *)
(***************************************************************************)
FromBackTo(base) ==
    [i \in 1..(Len(deferred) - base + 1) |->
        deferred[Len(deferred) + 1 - i].stmts]

loop_bases == {i \in DOMAIN deferred : deferred[i].is_loop_base}
loop_base  == CHOOSE i \in loop_bases : \A j \in loop_bases : j <= i

\* Mutant: a return runs the defers of its own scope only.
unpack_defers_all_innermost == FromBackTo(Len(deferred))

unpack_defers_regular         == FromBackTo(Len(deferred))
unpack_defers_until_loop_base == FromBackTo(loop_base)
unpack_defers_all             == FromBackTo(1)

Unpack(bs, b, scopes) == Emit(bs, b, [op |-> "run", scopes |-> scopes])

\* Mutant: the scope of a loop is not marked.
push_defers_unmarked(is_loop_base) ==
    Append(deferred, [stmts |-> <<>>, is_loop_base |-> FALSE])
push_defers(is_loop_base) ==
    Append(deferred, [stmts |-> <<>>, is_loop_base |-> is_loop_base])

\* Mutant: a scope is left on the stack.
pop_defers_forgotten == deferred
pop_defers == Pop(deferred)

-----------------------------------------------------------------------------
(* Steps of generation *)

\* An assert or a panic: the process ends with this message.
Abort(why) ==
    /\ status' = why
    /\ UNCHANGED <<procs, curr_proc, frames, deferred, curr_loop, casting,
                   blocks, nblocks, insert, stmts, lit>>

\* The next child is generated.  generate() returns at once when the current
\* block is terminated; otherwise it dispatches on the statement.
NextChild ==
    status = "running" /\ frames # <<>> /\ stmts < MaxStmts
\* Mutant: code is generated behind a terminator.
generate_unguarded(kind) == NextChild /\ kind \in Statements
generate(kind) ==
    NextChild /\ kind \in Statements /\ ~curr_block_has_terminator

\* assert(!ctx.casting_context_exists()) at the head of a generate_*.
CastingContextLeft == casting /\ Abort("assert_casting_context")

\* The children of the activation are exhausted.
AtEnd(kind, stage) ==
    /\ status = "running"
    /\ frames # <<>>
    /\ Top(frames).kind = kind
    /\ Top(frames).stage = stage

\* if(!ctx.curr_block_has_terminator()) { unpack_defers(ctx); CreateBr(to); }
CloseAborts ==
    /\ ~curr_block_has_terminator
    /\ LiteralTooShort(unpack_defers_regular)
    /\ Abort("assert_literal")
CloseProceeds ==
    curr_block_has_terminator \/ ~LiteralTooShort(unpack_defers_regular)
\* Mutant: the branch that leaves the body is missing.
ClosedBlocks_no_branch(to) ==
    IF curr_block_has_terminator THEN blocks
    ELSE Unpack(blocks, insert, unpack_defers_regular)
\* Mutant: the branch is created only after deferred calls.
ClosedBlocks_after_defers(to) ==
    IF curr_block_has_terminator \/ Top(deferred).stmts = <<>> THEN blocks
    ELSE Br(Unpack(blocks, insert, unpack_defers_regular), insert, {to})
ClosedBlocks(to) ==
    IF curr_block_has_terminator THEN blocks
    ELSE Br(Unpack(blocks, insert, unpack_defers_regular), insert, {to})
ClosedLit ==
    IF curr_block_has_terminator THEN lit ELSE Generated(unpack_defers_regular)

(***************************************************************************)
(* A child without control flow (an expression, a local variable, a type   *)
(* alias), or any child behind a terminator: the walk deletes the casting  *)
(* context after it, and nothing else remains of it.                       *)
(***************************************************************************)
PlainChild ==
    /\ NextChild
    /\ curr_block_has_terminator \/ "plain" \in Statements
    /\ stmts' = stmts + 1
    /\ casting' = FALSE
    /\ UNCHANGED <<status, procs, curr_proc, frames, deferred, curr_loop,
                   blocks, nblocks, insert, lit>>

\* NODE_BLOCK, NODE_SWITCH, NODE_CAST, NODE_SIZEOF, NODE_ENUM_DEFINITION,
\* NODE_BRACED_EXPRESSION: generate() has no case for them.
UndispatchedChild == generate("undispatched") /\ Abort("panic_default")

\* generate_defer: the node is saved, no code is generated.
generate_defer(size) ==
    /\ generate("defer")
    /\ stmts' = stmts + 1
    /\ LET d == stmts + 1 IN
        /\ deferred' = SetTop(deferred,
               [Top(deferred) EXCEPT !.stmts = Append(@, d)])
        /\ blocks' = Emit(blocks, insert,
               [op |-> "reg", d |-> d, depth |-> Len(frames)])
        /\ lit' = [lit EXCEPT ![d] = [size |-> size, stripped |-> FALSE]]
    /\ casting' = FALSE
    /\ UNCHANGED <<status, procs, curr_proc, frames, curr_loop,
                   nblocks, insert>>

-----------------------------------------------------------------------------
(* if / else *)

(***************************************************************************)
(* generate_branch up to the first child of the if body.  The condition    *)
(* may leave a casting context behind (an identifier or a literal does, a  *)
(* comparison or a call restores the one it found), and nothing deletes it *)
(* before the first child.                                                 *)
(***************************************************************************)
BeginBranch(leaves, has_else) ==
    /\ generate("branch")
    /\ \/ CastingContextLeft
       \/ /\ ~casting
          /\ LET merge_blk == nblocks + 1
                 if_blk    == nblocks + 2
                 else_blk  == IF has_else THEN nblocks + 3 ELSE NoBlock
             IN
             /\ nblocks' = IF has_else THEN nblocks + 3 ELSE nblocks + 2
             /\ blocks' = Br(blocks, insert,
                    {if_blk, IF has_else THEN else_blk ELSE merge_blk})
             /\ insert' = if_blk
             /\ frames' = Append(frames,
                    [kind |-> "branch", stage |-> "if", merge |-> merge_blk,
                     other |-> else_blk, old |-> NoLoop])
          /\ deferred' = push_defers(FALSE)
          /\ casting' = leaves
          /\ stmts' = stmts + 1
          /\ UNCHANGED <<status, procs, curr_proc, curr_loop, lit>>

\* From the end of the if body to the first child of the else body.
EndIfBeginElse ==
    /\ AtEnd("branch", "if")
    /\ Top(frames).other # NoBlock
    /\ \/ CloseAborts
       \/ /\ CloseProceeds
          /\ blocks' = ClosedBlocks(Top(frames).merge)
          /\ lit' = ClosedLit
          /\ deferred' = Append(pop_defers,
                 [stmts |-> <<>>, is_loop_base |-> FALSE])
          /\ insert' = Top(frames).other
          /\ frames' = SetTop(frames, [Top(frames) EXCEPT !.stage = "else"])
          /\ UNCHANGED <<status, procs, curr_proc, curr_loop, casting,
                         nblocks, stmts>>

\* From the end of the last body to the return of generate_branch.
EndBranch ==
    /\ \/ AtEnd("branch", "if") /\ Top(frames).other = NoBlock
       \/ AtEnd("branch", "else")
    /\ \/ CloseAborts
       \/ /\ CloseProceeds
          /\ blocks' = ClosedBlocks(Top(frames).merge)
          /\ lit' = ClosedLit
          /\ deferred' = pop_defers
          /\ insert' = Top(frames).merge
          /\ frames' = Pop(frames)
          /\ casting' = FALSE
          /\ UNCHANGED <<status, procs, curr_proc, curr_loop, nblocks, stmts>>

-----------------------------------------------------------------------------
(* Loops.  leave_curr_loop saves and clears curr_loop_, enter_loop asserts *)
(* that it is clear and sets it.                                           *)

\* Mutant: the context is cleared before it is returned.
leave_curr_loop_cleared == NoLoop
leave_curr_loop == curr_loop

EnterFrame(kind, merge, other) ==
    frames' = Append(frames,
        [kind |-> kind, stage |-> "body", merge |-> merge,
         other |-> other, old |-> leave_curr_loop])

BeginWhile ==
    /\ generate("while")
    /\ \/ CastingContextLeft
       \/ /\ ~casting
          /\ LET merge_blk == nblocks + 1
                 cond_blk  == nblocks + 2
                 body_blk  == nblocks + 3
             IN
             /\ blocks' = Br(Br(blocks, insert, {cond_blk}),
                             cond_blk, {body_blk, merge_blk})
             /\ nblocks' = nblocks + 3
             /\ insert' = body_blk
             /\ EnterFrame("while", merge_blk, cond_blk)
             /\ curr_loop' = [after |-> cond_blk, merge |-> merge_blk]
          /\ deferred' = push_defers(TRUE)
          /\ stmts' = stmts + 1
          /\ UNCHANGED <<status, procs, curr_proc, casting, lit>>

(***************************************************************************)
(* generate_for.  The initialiser is generated before the loop is entered; *)
(* the casting context it leaves is deleted only by a condition or an      *)
(* update.  The update block is generated before the body.                 *)
(***************************************************************************)
BeginFor(leaves, has_cond, has_update) ==
    /\ generate("for")
    /\ \/ CastingContextLeft
       \/ /\ ~casting
          /\ LET merge_blk == nblocks + 1
                 cond_blk  == nblocks + 2
                 after_blk == nblocks + 3
                 body_blk  == nblocks + 4
                 taken     == IF has_cond THEN {body_blk, merge_blk}
                              ELSE {body_blk}
             IN
             /\ blocks' = Br(Br(Br(blocks, insert, {cond_blk}),
                                cond_blk, taken), after_blk, {cond_blk})
             /\ nblocks' = nblocks + 4
             /\ insert' = body_blk
             /\ EnterFrame("for", merge_blk, after_blk)
             /\ curr_loop' = [after |-> after_blk, merge |-> merge_blk]
          /\ deferred' = push_defers(TRUE)
          /\ casting' = (leaves /\ ~has_cond /\ ~has_update)
          /\ stmts' = stmts + 1
          /\ UNCHANGED <<status, procs, curr_proc, lit>>

\* From the end of the body to the return of generate_while or generate_for.
EndWhileOrFor ==
    /\ AtEnd("while", "body") \/ AtEnd("for", "body")
    /\ \/ CloseAborts
       \/ /\ CloseProceeds
          /\ blocks' = ClosedBlocks(Top(frames).other)
          /\ lit' = ClosedLit
          /\ deferred' = pop_defers
          /\ curr_loop' = Top(frames).old
          /\ insert' = Top(frames).merge
          /\ frames' = Pop(frames)
          /\ casting' = FALSE
          /\ UNCHANGED <<status, procs, curr_proc, nblocks, stmts>>

BeginDoWhile ==
    /\ generate("dowhile")
    /\ \/ CastingContextLeft
       \/ /\ ~casting
          /\ LET merge_blk == nblocks + 1
                 cond_blk  == nblocks + 2
                 body_blk  == nblocks + 3
             IN
             /\ blocks' = Br(blocks, insert, {body_blk})
             /\ nblocks' = nblocks + 3
             /\ insert' = body_blk
             /\ EnterFrame("dowhile", merge_blk, cond_blk)
             /\ curr_loop' = [after |-> cond_blk, merge |-> merge_blk]
          /\ deferred' = push_defers(TRUE)
          /\ stmts' = stmts + 1
          /\ UNCHANGED <<status, procs, curr_proc, casting, lit>>

(***************************************************************************)
(* generate_dowhile does not call leave_curr_loop before the enter_loop    *)
(* that restores the old context.  The body is the block created after     *)
(* the condition's.                                                        *)
(***************************************************************************)
EndDoWhile ==
    /\ AtEnd("dowhile", "body")
    /\ LET cond_blk == Top(frames).other IN
       \/ CloseAborts
       \/ /\ CloseProceeds
          /\ IF curr_loop # NoLoop THEN Abort("assert_enter_loop")
             ELSE /\ blocks' = Br(ClosedBlocks(cond_blk), cond_blk,
                                  {cond_blk + 1, Top(frames).merge})
                  /\ lit' = ClosedLit
                  /\ deferred' = pop_defers
                  /\ curr_loop' = Top(frames).old
                  /\ insert' = Top(frames).merge
                  /\ frames' = Pop(frames)
                  /\ casting' = FALSE
                  /\ UNCHANGED <<status, procs, curr_proc, nblocks, stmts>>

-----------------------------------------------------------------------------
(* Statements that leave a scope *)

\* The checker (evaluate_brk_or_cont) lets brk and cont through only below
\* a loop.
\* Mutant: the checker does not look for a loop.
inside_source_loop_unchecked == TRUE
inside_source_loop == \E i \in DOMAIN frames : frames[i].kind \in LoopKinds

inside_loop == curr_loop.after # NoBlock /\ curr_loop.merge # NoBlock

\* unpack_defers(ctx, UNTIL_LOOP_BASE); CreateBr(target);
LeaveLoopBody(kind, target) ==
    /\ generate(kind)
    /\ inside_source_loop
    /\ IF ~inside_loop THEN Abort("assert_inside_loop")
       ELSE IF loop_bases = {} THEN Abort("panic_loop_base")
       ELSE IF LiteralTooShort(unpack_defers_until_loop_base)
            THEN Abort("assert_literal")
       ELSE /\ blocks' = Br(Unpack(blocks, insert,
                                   unpack_defers_until_loop_base),
                            insert, {target})
            /\ lit' = Generated(unpack_defers_until_loop_base)
            /\ stmts' = stmts + 1
            /\ casting' = FALSE
            /\ UNCHANGED <<status, procs, curr_proc, frames, deferred,
                           curr_loop, nblocks, insert>>

generate_brk  == LeaveLoopBody("brk", curr_loop.merge)
generate_cont == LeaveLoopBody("cont", curr_loop.after)

generate_ret ==
    /\ generate("ret")
    /\ \/ CastingContextLeft
       \/ ~casting /\ LiteralTooShort(unpack_defers_all)
                   /\ Abort("assert_literal")
       \/ /\ ~casting
          /\ ~LiteralTooShort(unpack_defers_all)
          /\ blocks' = RetFrom(Unpack(blocks, insert, unpack_defers_all), insert)
          /\ lit' = Generated(unpack_defers_all)
          /\ stmts' = stmts + 1
          /\ UNCHANGED <<status, procs, curr_proc, frames, deferred,
                         curr_loop, casting, nblocks, insert>>

-----------------------------------------------------------------------------
(* generate_procdecl *)

\* Up to the first child of the body: a new function with an entry block.
BeginProc ==
    /\ status = "running"
    /\ frames = <<>>
    /\ procs < MaxProcs
    /\ procs' = procs + 1
    /\ status' = IF curr_proc = 0 THEN status ELSE "assert_enter_proc"
    /\ curr_proc' = procs + 1
    /\ frames' = <<[kind |-> "proc", stage |-> "body", merge |-> NoBlock,
                    other |-> NoBlock, old |-> NoLoop]>>
    /\ deferred' = push_defers(FALSE)
    /\ blocks' = [b \in Blocks |-> OpenBlock]
    /\ nblocks' = 1
    /\ insert' = 1
    /\ stmts' = 0
    /\ lit' = [d \in Defers |-> [size |-> 0, stripped |-> FALSE]]
    /\ UNCHANGED <<curr_loop, casting>>

\* From the end of the body: the default return, the verification of the
\* function, and the exit from the procedure context.
EndProc ==
    /\ AtEnd("proc", "body")
    /\ \/ CloseAborts
       \/ /\ CloseProceeds
          /\ blocks' = IF curr_block_has_terminator THEN blocks
                       ELSE RetFrom(Unpack(blocks, insert,
                                           unpack_defers_regular), insert)
          /\ status' = IF verifyFunction(blocks') THEN status
                       ELSE "panic_verify"
          /\ lit' = ClosedLit
          /\ curr_proc' = 0
          /\ deferred' = pop_defers
          /\ frames' = Pop(frames)
          /\ casting' = FALSE
          /\ UNCHANGED <<procs, curr_loop, nblocks, insert, stmts>>

\* do_codegen has generated every top-level node.
Finish ==
    /\ status = "running"
    /\ frames = <<>>
    /\ status' = "done"
    /\ UNCHANGED <<procs, curr_proc, frames, deferred, curr_loop, casting,
                   blocks, nblocks, insert, stmts, lit>>

Halted == status # "running" /\ UNCHANGED vars

Init ==
    /\ status = "running"
    /\ procs = 0
    /\ curr_proc = 0
    /\ frames = <<>>
    /\ deferred = <<>>
    /\ curr_loop = NoLoop
    /\ casting = FALSE
    /\ blocks = [b \in Blocks |-> OpenBlock]
    /\ nblocks = 0
    /\ insert = 0
    /\ stmts = 0
    /\ lit = [d \in Defers |-> [size |-> 0, stripped |-> FALSE]]

Next ==
    \/ BeginProc
    \/ PlainChild
    \/ UndispatchedChild
    \/ \E size \in LiteralSizes : generate_defer(size)
    \/ \E leaves \in CondLeaves, has_else \in BOOLEAN :
           BeginBranch(leaves, has_else)
    \/ EndIfBeginElse
    \/ EndBranch
    \/ BeginWhile
    \/ \E leaves \in CondLeaves, has_cond \in BOOLEAN, has_update \in BOOLEAN :
           BeginFor(leaves, has_cond, has_update)
    \/ EndWhileOrFor
    \/ BeginDoWhile
    \/ EndDoWhile
    \/ generate_brk
    \/ generate_cont
    \/ generate_ret
    \/ EndProc
    \/ Finish
    \/ Halted

Spec == Init /\ [][Next]_vars

-----------------------------------------------------------------------------
(* Properties *)

Statuses == {"running", "done", "assert_casting_context", "assert_literal",
             "assert_enter_loop", "assert_inside_loop", "assert_enter_proc",
             "panic_loop_base", "panic_default", "panic_verify"}

\* Every variable holds a value of the type its C++ counterpart has.
TypeOK ==
    /\ status \in Statuses
    /\ procs \in 0..MaxProcs
    /\ curr_proc \in 0..MaxProcs
    /\ frames \in Seq(Frame)
    /\ deferred \in Seq(DeferredStackElement)
    /\ curr_loop \in Loop
    /\ casting \in BOOLEAN
    /\ blocks \in [Blocks -> Block]
    /\ nblocks \in 0..(1 + 4 * stmts)
    /\ insert \in 0..nblocks
    /\ stmts \in 0..MaxStmts
    /\ lit \in [Defers -> Literal]

\* The defer stack mirrors the open bodies: one element per activation, and
\* it is a loop base exactly when the activation is a loop (push_defers and
\* pop_defers pair up on every path through generate_*).
DeferStackMatchesBodies ==
    /\ Len(deferred) = Len(frames)
    /\ \A i \in DOMAIN frames :
           deferred[i].is_loop_base <=> frames[i].kind \in LoopKinds

\* The loop context of an activation, and "l is the context of the innermost
\* loop among the first n activations of fs".
LoopOf(f) == [after |-> f.other, merge |-> f.merge]

Innermost(fs, l, n) ==
    \/ /\ l = NoLoop
       /\ \A i \in 1..n : fs[i].kind \notin LoopKinds
    \/ \E i \in 1..n :
           /\ fs[i].kind \in LoopKinds
           /\ l = LoopOf(fs[i])
           /\ \A j \in (i + 1)..n : fs[j].kind \notin LoopKinds

\* curr_loop_ is the innermost open loop, so brk and cont branch where the
\* source says, and what each loop will restore is the loop around it.
LoopContextIsInnermost ==
    /\ Innermost(frames, curr_loop, Len(frames))
    /\ \A i \in DOMAIN frames :
           frames[i].kind \in LoopKinds =>
               Innermost(frames, frames[i].old, i - 1)

\* The asserts and panics about jumps and about entering a procedure hold for
\* every procedure the checker accepts: brk and cont find their loop and a loop
\* base on the defer stack, and no procedure is generated inside another.  It does
\* not cover the asserts about entering a loop and about the casting context:
\* every do-while whose end is reached fails the one (EndDoWhile), and `if x {ret;}'
\* the other (generate_ret).
JumpAndEntryAssertsHold ==
    status \notin {"assert_inside_loop", "panic_loop_base",
                   "assert_enter_proc"}

\* A block an activation still has to generate code into when it continues.
WaitsFor(f, b) ==
    \/ b = f.merge
    \/ b = f.other /\ (f.stage = "if" \/ f.kind = "dowhile")

\* No block is forgotten: one without a terminator is the block code is
\* inserted into, or an open activation will come back to it.
OpenBlocksAreWaitedFor ==
    \A b \in 1..nblocks :
        blocks[b].term = "none" =>
            b = insert \/ \E i \in DOMAIN frames : WaitsFor(frames[i], b)

\* LLVM accepts every function: the panic after verifyFunction "should never
\* happen" (codegen/declarations.cpp:72).
VerifierAccepts == status # "panic_verify"

\* A procedure leaves nothing behind: when the next one is generated there is
\* no open scope, loop, procedure or casting context of the one before.
NoContextBetweenProcedures ==
    status = "running" /\ frames = <<>> =>
        deferred = <<>> /\ curr_loop = NoLoop /\ curr_proc = 0 /\ ~casting

\* Nothing is emitted into a block behind its terminator (a new function
\* starts from fresh blocks).
SealedBlocksStaySealed ==
    [][procs' = procs =>
          \A b \in Blocks : blocks[b].term # "none" => blocks'[b] = blocks[b]]_vars

\* Erasing the quotes of a literal happens once: every exit that runs a
\* deferred call passes it the same text (constants.cpp:140).
DeferredLiteralIsStable ==
    [][procs' = procs =>
          \A d \in Defers : lit[d].stripped => lit'[d] = lit[d]]_vars
=============================================================================
