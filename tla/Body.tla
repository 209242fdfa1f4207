-------------------------------- MODULE Body --------------------------------
(***************************************************************************)
(* One procedure and the globals before it, from the checker to the code   *)
(* generator (support/do_compile.cpp, evaluate_procdecl, generate_procdecl)*)
(* The program grows one declaration or statement at a time and is checked *)
(* as it grows; an accepted one is then generated in the same order.       *)
(***************************************************************************)
EXTENDS Fragment

CONSTANTS Symbols,      \* the symbol table the parser left: name -> [type, flags]
          Locals,       \* the procedure's parameters
          Returns,      \* the return types tried: sequences of at most one type
          Globals,      \* the global declarations tried
          Statements,   \* the statements tried
          Lone,         \* the expressions tried alone, each the only statement
          MaxNodes      \* the declarations and statements of a program

ASSUME BodyAssumption == MaxNodes \in Nat /\ Locals \subseteq DOMAIN Symbols

VARIABLES phase, top, body, chk, gen, pc,
          inFragment    \* of an accepted program; no step depends on it
vars == <<phase, top, body, chk, gen, pc, inFragment>>

Phases == {"globals", "body", "checked", "generate", "rejected", "done", "stopped"}

Init ==
    /\ phase = "globals" /\ top = <<>> /\ body = <<>> /\ pc = 1
    /\ chk = NewChecker(Symbols, <<>>)
    /\ gen = NewCodegen(Symbols, <<>>, Locals)
    /\ inFragment = FALSE

CheckGlobal ==
    /\ phase = "globals" /\ Len(top) < MaxNodes /\ ~chk.bad
    /\ \E d \in Globals :
           /\ top' = Append(top, d)
           /\ chk' = evaluate(d, chk)
    /\ UNCHANGED <<phase, body, gen, pc, inFragment>>

EnterProcedure(ret) ==
    /\ phase = "globals" /\ ~chk.bad
    /\ phase' = "body"
    /\ chk' = [chk EXCEPT !.ret = ret]
    /\ UNCHANGED <<top, body, gen, pc, inFragment>>

\* One child of evaluate_procdecl.  An error is never taken back, so a program
\* with one is not grown further.
CheckStatement ==
    /\ phase = "body" /\ Len(top) + Len(body) < MaxNodes /\ ~chk.bad
    /\ \E s \in Statements :
           /\ body' = Append(body, s)
           /\ chk' = evaluate(s, chk)
    /\ UNCHANGED <<phase, top, gen, pc, inFragment>>

\* The same for an expression that is the whole program, which ends with it.
CheckExpression ==
    /\ phase = "body" /\ top = <<>> /\ body = <<>> /\ chk.ret = <<>>
    /\ \E e \in Lone :
           /\ body' = <<e>>
           /\ chk' = evaluate(e, chk)
    /\ phase' = "checked"
    /\ UNCHANGED <<top, gen, pc, inFragment>>

Reject ==
    /\ phase \in {"globals", "body", "checked"} /\ chk.bad
    /\ phase' = "rejected"
    /\ UNCHANGED <<top, body, chk, gen, pc, inFragment>>

\* do_check found no error; do_codegen starts on the table it left.
StartCodegen ==
    /\ phase \in {"body", "checked"} /\ ~chk.bad
    /\ phase' = "generate"
    /\ gen' = NewCodegen(chk.syms, chk.ret, Locals)
    /\ inFragment' = \A n \in ToSet(top \o body) : FaithfulStatement(n, chk)
    /\ UNCHANGED <<top, body, chk, pc>>

\* do_codegen's loop.  Nothing takes the casting context away between two
\* declarations at the top level.
GenerateGlobal ==
    /\ phase = "generate" /\ gen.out = "ok" /\ pc <= Len(top)
    /\ gen' = generate(top[pc], gen)
    /\ pc' = pc + 1
    /\ UNCHANGED <<phase, top, body, chk, inFragment>>

\* A child of generate_procdecl, and what it does to the context after it.
GenerateStatement ==
    /\ phase = "generate" /\ gen.out = "ok"
    /\ pc > Len(top) /\ pc <= Len(top) + Len(body)
    /\ gen' = delete_casting_context(
                  generate(body[pc - Len(top)], [gen EXCEPT !.inside = TRUE]))
    /\ pc' = pc + 1
    /\ UNCHANGED <<phase, top, body, chk, inFragment>>

\* The default return value is a zero of the return type.
FinishProcedure ==
    /\ phase = "generate" /\ gen.out = "ok" /\ pc > Len(top) + Len(body)
    /\ phase' = "done"
    /\ gen' = [gen EXCEPT !.inside = FALSE, !.term = TRUE]
    /\ UNCHANGED <<top, body, chk, pc, inFragment>>

\* An assertion, a panic or the verifier ends the compiler.
Stop ==
    /\ phase = "generate" /\ gen.out # "ok"
    /\ phase' = "stopped"
    /\ UNCHANGED <<top, body, chk, gen, pc, inFragment>>

Next ==
    \/ CheckGlobal
    \/ \E r \in Returns : EnterProcedure(r)
    \/ CheckStatement \/ CheckExpression
    \/ Reject \/ StartCodegen
    \/ GenerateGlobal \/ GenerateStatement \/ FinishProcedure \/ Stop

Spec == Init /\ [][Next]_vars

-----------------------------------------------------------------------------
(* Properties *)

\* Codegen ran, to its end or to where it stopped: what went wrong on the way
\* is kept in gen.
Accepted == phase \in {"stopped", "done"}

\* What the checker accepts is generated: no assertion or panic of the code
\* generator is reached and the verifier finds every instruction well typed,
\* for every program in the fragment.
AcceptedIsGenerated == Accepted /\ gen.out # "ok" => ~inFragment

\* Converting a value to the casting context, which some earlier operand left
\* behind, never takes bits from what the checker took for a wider integer.
IntegersKeepTheirWidth == Accepted /\ "narrowed" \in gen.events => ~inFragment

\* A store writes exactly as many bytes as its destination has, and no load or
\* index takes the address of a variable for the pointer that it holds.
MemoryIsTyped ==
    Accepted /\ gen.events \cap {"store of another size", "load of an address",
                                 "index from an address"} # {} => ~inFragment

\* An expression that is generated while a casting context exists leaves that
\* context as it was, whatever its operands did to it: the context belongs to
\* the expression around it, which has not been converted yet.
ContextIsKept == "context lost" \notin gen.events

\* Every part of an expression or statement, itself included.
RECURSIVE Parts(_)
Parts(n) ==
    LET inside ==
            CASE n.node = "binexpr"   -> {n.left, n.right}
              [] n.node = "unaryexpr" -> {n.operand}
              [] n.node = "subscript" -> {n.operand, n.value}
              [] n.node \in {"member", "cast"} -> {n.target}
              [] n.node = "call"      -> {n.target} \cup ToSet(n.arguments)
              [] n.node = "braced"    -> ToSet(n.members)
              [] OTHER -> {}
    IN {n} \cup UNION {Parts(k) : k \in inside}

\* The variable a place is part of, when no pointer is followed to reach it.
RECURSIVE Variable(_, _)
Variable(n, c) ==
    CASE n.node = "ident" -> {n.sym}
      [] n.node = "member" /\ TypesOf(n.target, c)[1].ptr = 0 -> Variable(n.target, c)
      [] n.node = "subscript" /\ TypesOf(n.operand, c)[1].lens # <<>> ->
             Variable(n.operand, c)
      [] OTHER -> {}

Written(n) ==
    CASE n.node = "binexpr" /\ n.op \in ArithAssign \cup BwAssign \cup {"="} -> {n.left}
      [] n.node = "unaryexpr" /\ n.op \in {"++", "--"} -> {n.operand}
      [] OTHER -> {}

\* No accepted program writes to a variable declared constant, nor to a member
\* or an element of one.
ConstantsAreNotWritten ==
    Accepted => \A i \in DOMAIN body : \A n \in Parts(body[i]) :
        \A place \in Written(n) : \A v \in Variable(place, chk) :
            "const" \notin Symbols[v].type.flags

\* Once a program is accepted, every variable it declares has a type LLVM can
\* lay out: no type is still to be inferred and no array length is missing.
DeclaredTypesAreKnown ==
    Accepted => \A n \in ToSet(top \o body) :
        n.node = "vardecl" =>
            LET t == chk.syms[n.sym].type
            IN HasLLVMType(t) /\ "inferred" \notin t.flags /\ ~array_has_inferred_sizes(t)
=============================================================================
