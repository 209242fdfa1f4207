---------------------------- MODULE ExprCodegen ----------------------------
(***************************************************************************)
(* Code generation for expressions, declarations and statements            *)
(* (codegen/expressions.cpp, wrapped.cpp, constants.cpp, declarations.cpp, *)
(* controlflow.cpp): which LLVM type every value has, which instruction is *)
(* built on it, and what each function does to the casting context.        *)
(*                                                                         *)
(* generate takes a node and a codegen state and leaves a codegen state:   *)
(*   syms, ret  as the checker left them                                   *)
(*   inside     inside_procedure()                                         *)
(*   locals     the names set_local has been called with                   *)
(*   loop       inside_loop()                                              *)
(*   term       the current block has a terminator                         *)
(*   ctx        casting_context_: [ll, tak], or nothing                    *)
(*   w          the wrapped value returned: its LLVM type, its TypeData,   *)
(*              whether it must be loaded, and what kind of value it is    *)
(*   checked    the type the checker gave the expression generated last    *)
(*   out        "ok", or how the compiler stopped                          *)
(*   events     what the instructions built so far did wrong               *)
(* The blocks and the defers of a procedure are ProcCodegen's.             *)
(***************************************************************************)
EXTENDS Checker

NoValue == [ll |-> LL("void"), tak |-> TypeData("none", "void", 0, {}),
            loadable |-> FALSE, kind |-> "null"]

NewCodegen(syms, ret, params) ==
    [syms |-> syms, ret |-> ret, inside |-> FALSE, locals |-> params,
     loop |-> FALSE, term |-> FALSE, ctx |-> <<>>, w |-> NoValue,
     checked |-> <<>>, out |-> "ok", events |-> {}]

Demand(g, ok, why) == IF g.out = "ok" /\ ~ok THEN [g EXCEPT !.out = why] ELSE g
Typed(g, ok)       == Demand(g, ok, "ill-typed")    \* what verifyFunction checks
Note(g, what)      == [g EXCEPT !.events = @ \cup {what}]

get_empty(g) == [g EXCEPT !.w = NoValue]
Value(g, ll, tak, kind) ==
    [g EXCEPT !.w = [ll |-> ll, tak |-> tak, loadable |-> FALSE, kind |-> kind]]
Place(g, tak, kind) ==
    [g EXCEPT !.w = [ll |-> LL("ptr"), tak |-> tak, loadable |-> TRUE, kind |-> kind]]
Bool(g) == Value(g, LL("i1"), get_const_bool, "inst")

set_casting_context(g, t) ==
    [g EXCEPT !.ctx = << [ll |-> generate_type(t), tak |-> t] >>]
delete_casting_context(g) == [g EXCEPT !.ctx = <<>>]
Restore(g, og) == [g EXCEPT !.ctx = og]
RestoreIfAny(g, og) == IF og = <<>> THEN g ELSE Restore(g, og)
ContextOf(g, t) == IF is_primitive(t) THEN set_casting_context(g, t) ELSE g
ContextIfNone(g, t) == IF g.ctx = <<>> THEN ContextOf(g, t) ELSE g

IsInt(ll)   == ll.dims = <<>> /\ ll.base \in IntTypes
IsFloat(ll) == ll.dims = <<>> /\ ll.base \in FloatTypes

CreateStore(g, dst) ==
    LET h == Demand(g, g.w.kind # "null", "no value")
    IN IF h.w.ll = dst THEN h ELSE Note(h, "store of another size")

-----------------------------------------------------------------------------
(* maybe_adjust: load what is in memory, then convert a primitive to the   *)
(* type of the casting context.                                            *)

CreateLoad(g) ==
    LET h == Demand(g, HasLLVMType(g.w.tak), "no LLVM type")
    IN IF g.w.loadable /\ h.out = "ok"
       THEN Value(h, generate_type(g.w.tak), g.w.tak, "inst") ELSE h

Convert(g, to) ==
    LET from == g.w.ll
        ok == IF is_floating_point(to.tak)
              THEN is_floating_point(g.w.tak) => from.base = "float" /\ to.ll.base = "double"
              ELSE IsInt(from)                   \* SExtOrTrunc, ZExtOrTrunc
    IN Value(Typed(g, ok), to.ll, to.tak, "inst")

maybe_adjust(g) ==
    LET InContext(u) ==
            IF ~is_primitive(u.w.tak) \/ u.ctx = <<>> \/ u.out # "ok" THEN u
            ELSE IF u.w.ll = u.ctx[1].ll THEN u
            ELSE Convert(u, u.ctx[1])
        Loaded(v) == IF v.out # "ok" \/ v.w.tak.lens # <<>> THEN v
                     ELSE InContext(IF v.w.loadable THEN CreateLoad(v) ELSE v)
    IN Loaded(Demand(g, g.w.kind # "null", "no value"))

RECURSIVE generate(_, _)

\* A value that the checker took for an integer and that its conversion makes
\* smaller.
Observe(n, h) ==
    IF /\ h.out = "ok" /\ IsInt(h.w.ll) /\ n.node # "lit"
       /\ h.checked # <<>> /\ is_integer(h.checked[1])
       /\ Bits[h.w.ll.base] < Bits[generate_primitive_type[h.checked[1].name]]
    THEN Note(h, "narrowed") ELSE h

adjusted(n, g) ==
    LET Plain(h) == [Observe(n, h) EXCEPT !.w.loadable = FALSE]
    IN Plain(maybe_adjust(generate(n, g)))

generate_to_i1(g) ==
    LET t == g.w.tak
        h == Demand(g, is_integer(t) \/ is_floating_point(t) \/ t.ptr > 0, "panic")
    IN Bool(Typed(h, CASE is_boolean(t) -> g.w.ll = LL("i1")
                       [] is_floating_point(t) -> IsFloat(g.w.ll)
                       [] OTHER -> IsInt(g.w.ll) \/ g.w.ll = LL("ptr")))

-----------------------------------------------------------------------------
(* Leaves *)

generate_singleton_literal(n, g) ==
    LET default == IF n.lit \in {"float32", "float64"} THEN get_const_double
                   ELSE get_const_uint64
        h == IF g.ctx = <<>> THEN set_casting_context(g, default) ELSE g
        ctx == h.ctx[1]
    IN CASE n.lit = "string"  -> Value(g, LL("ptr"), get_const_string, "const")
         [] n.lit = "nullptr" -> Value(g, LL("ptr"), get_const_voidptr, "const")
         [] n.lit \in {"float32", "float64"} ->
                Value(Demand(h, IsFloat(ctx.ll), "literal"), ctx.ll, ctx.tak, "const")
         [] OTHER -> Value(h, ctx.ll, ctx.tak, "const")

\* Mutant: a variable leaves no context.
generate_identifier_no_context(n, g) ==
    LET t == g.syms[n.sym].type
    IN IF t.kind = "proc" /\ t.ptr = 0 THEN Value(g, LL("ptr"), t, "fn") ELSE Place(g, t, "alloca")
generate_identifier(n, g) ==
    LET sym == g.syms[n.sym]
        t == sym.type
        v == CASE t.kind = "proc" /\ t.ptr = 0 -> Value(g, LL("ptr"), t, "fn")
               [] "global" \in sym.flags -> Place(g, t, "global")
               [] OTHER -> Place(Demand(g, n.sym \in g.locals, "local"), t, "alloca")
    IN ContextIfNone(v, t)

-----------------------------------------------------------------------------
(* Addresses *)

AddressKinds == {"alloca", "gep", "global", "fn"}

generate_address_of(n, g) ==
    LET Address(h) ==
            IF h.out # "ok" THEN h
            ELSE [h EXCEPT !.w.tak = get_pointer_to(h.w.tak)[1], !.w.loadable = FALSE]
        Of(v) == Address(Demand(v, v.w.kind \in AddressKinds, "address"))
    IN Of(generate(n.operand, g))

generate_dereference(n, g) ==
    LET Contained(v, inner) ==
            IF v.out # "ok" THEN v
            ELSE IF v.w.tak.lens # <<>> THEN Place(v, inner, "gep")
            ELSE [v EXCEPT !.w.tak = inner, !.w.loadable = TRUE]
        Of(v) == Contained(v, get_contained(v.w.tak)[1])
    IN Of(adjusted(n.operand, g))

\* Mutant: the context of the element replaces the one around it.
AfterSubscript_no_restore(g, h, inner) == ContextOf(h, inner)
AfterSubscript(g, h, inner) ==
    IF g.ctx # <<>> THEN Restore(h, g.ctx) ELSE ContextOf(h, inner)

generate_subscript(n, g) ==
    LET Element(h, inner) ==
            IF h.out # "ok" THEN h ELSE Place(AfterSubscript(g, h, inner), inner, "gep")
        Index(v, t) == Element(Typed(Demand(v, HasLLVMType(t), "no LLVM type"), IsInt(v.w.ll)),
                               get_contained(t)[1])
        Operand(o) == Index(adjusted(n.value, set_casting_context(o, get_const_int32)), o.w.tak)
    IN Operand(adjusted(n.operand, delete_casting_context(g)))

\* A target of pointer type is loaded from its value, loadable or not.
generate_member_access(n, g) ==
    LET Member(v, h, member) ==
            IF v.out # "ok" THEN v
            ELSE Place(ContextIfNone(Restore(h, g.ctx), member), member, "gep")
        Target(v, t) ==
            Member(v, IF t.ptr > 0 /\ ~v.w.loadable THEN Note(v, "load of an address") ELSE v,
                   get_struct_member_type_data(n.path, t.name)[1])
        Of(v) == Target(v, v.w.tak)
    IN Of(generate(n.target, delete_casting_context(g)))

-----------------------------------------------------------------------------
(* Operators.  A binary one sets the casting context aside; its left       *)
(* operand sets the context the right one is converted to.                 *)

\* The class of the instruction follows the TypeData of the left operand, ll
\* is the LLVM type it works on.
Instruction(l, r, ll) ==
    LET t == l.w.tak
        h == Demand(r, t.ptr > 0 \/ is_primitive(t), "panic")
    IN Typed(h, IF t.ptr > 0 THEN IsInt(r.w.ll)
                ELSE /\ ll = r.w.ll
                     /\ IF is_floating_point(t) THEN IsFloat(ll) ELSE IsInt(ll))

\* The right operand of pointer arithmetic is a u64 whatever the context.
RightOperand(n, l) ==
    IF n.op \in PtrArith /\ l.w.tak.ptr > 0
    THEN Restore(adjusted(n.right, set_casting_context(l, get_const_uint64)), l.ctx)
    ELSE adjusted(n.right, l)

\* Both operands as values, and the instruction on them.
ValueOperator(g, l, r) ==
    RestoreIfAny(Value(Instruction(l, r, l.w.ll), l.w.ll, l.w.tak, "inst"), g.ctx)

\* The left operand as a place, loaded for the instruction and stored to.
StoreOperator(g, l, r) ==
    LET Store(h) ==
            IF h.out # "ok" THEN h
            ELSE RestoreIfAny([Instruction(l, h, generate_type(l.w.tak)) EXCEPT !.w = l.w],
                              g.ctx)
    IN Store(Demand(Demand(r, l.w.loadable, "loadable"), HasLLVMType(l.w.tak), "no LLVM type"))

ByOperator(n, g) ==
    LET stores == n.op \in ArithAssign \cup BwAssign
        outside == delete_casting_context(g)
        Left(l) == IF stores THEN StoreOperator(g, l, RightOperand(n, l))
                   ELSE ValueOperator(g, l, RightOperand(n, l))
    IN Left(IF stores THEN generate(n.left, outside) ELSE adjusted(n.left, outside))

\* In the operators up to generate_shift, h is what ByOperator left and t the
\* type of the left operand.
generate_add(h) == h

\* The element type is needed; -= indexes from the address of the variable, not
\* from the pointer that it holds.
generate_sub(n, h, t) ==
    LET Sub(v) == IF n.op = "-=" /\ t.ptr > 0 THEN Note(v, "index from an address") ELSE v
    IN Sub(Demand(h, t.ptr > 0 => HasLLVMType(t), "no LLVM type"))

generate_mul(h, t) == Demand(h, t.ptr = 0, "panic")
generate_div(h, t) == Demand(h, t.ptr = 0, "panic")
generate_mod(h, t) == Demand(h, t.ptr = 0, "panic")
generate_bitwise(h, t) == Demand(h, is_integer(t), "panic")
generate_shift(h, t) == Demand(h, is_integer(t), "panic")

Compare(n, g) ==
    LET Compatible(l, r) ==
            /\ l.w.ll = r.w.ll
            /\ IF is_floating_point(l.w.tak) THEN IsFloat(l.w.ll)
               ELSE IsInt(l.w.ll) \/ l.w.ll = LL("ptr")
        Both(l, r) == Restore(Bool(Typed(r, Compatible(l, r))), g.ctx)
        Left(l)    == Both(l, adjusted(n.right, l))
    IN Left(adjusted(n.left, delete_casting_context(g)))

generate_equality(h) == h
generate_ordering(h, t) == Demand(h, t.ptr > 0 \/ is_primitive(t), "panic")

\* The right side of && is converted to the type of the left one.
generate_conditional_and(n, g) ==
    LET l == generate_to_i1(adjusted(n.left, delete_casting_context(g)))
        r == generate_to_i1(adjusted(n.right, l))
    IN Restore(Bool(r), g.ctx)

\* Mutant: the right side is converted to the type of the left one.
generate_conditional_or_in_context(n, g) ==
    LET l == generate_to_i1(adjusted(n.left, delete_casting_context(g)))
        r == generate_to_i1(adjusted(n.right, l))
    IN Restore(Bool(r), g.ctx)
generate_conditional_or(n, g) ==
    LET l == generate_to_i1(adjusted(n.left, delete_casting_context(g)))
        r == generate_to_i1(adjusted(n.right, delete_casting_context(l)))
    IN Restore(Bool(r), g.ctx)

generate_conditional_not(n, g) ==
    LET Not(v) == Bool(Typed(v, IsInt(v.w.ll) \/ v.w.ll = LL("ptr")))
    IN Not(adjusted(n.operand, g))

generate_bitwise_not(n, g) ==
    LET Not(v) == [Typed(v, IsInt(v.w.ll)) EXCEPT !.w.kind = "inst"]
    IN Not(adjusted(n.operand, g))

generate_unary_minus(n, g) ==
    LET Flipped(w, t) == IF t = <<>> THEN w.tak ELSE t[1]
        Negated(h) == IF h.out # "ok" THEN h
                      ELSE Value(h, h.w.ll, Flipped(h.w, flip_sign(h.w.tak)), "inst")
        Minus(v) == Negated(Typed(v, IF is_floating_point(v.w.tak) THEN IsFloat(v.w.ll)
                                     ELSE IsInt(v.w.ll)))
    IN Minus(adjusted(n.operand, g))

\* generate_increment and generate_decrement
generate_step(n, g) ==
    LET Step(v) == Demand(Demand(v, v.w.loadable, "loadable"),
                          HasLLVMType(v.w.tak), "no LLVM type")
    IN Step(generate(n.operand, g))

generate_unaryexpr(n, g) ==
    CASE n.op = "&" -> generate_address_of(n, g)
      [] n.op = "^" -> generate_dereference(n, g)
      [] n.op = "~" -> generate_bitwise_not(n, g)
      [] n.op = "!" -> generate_conditional_not(n, g)
      [] n.op = "-" -> generate_unary_minus(n, g)
      [] n.op = "+" -> adjusted(n.operand, g)
      [] n.op \in {"++", "--"} -> generate_step(n, g)

-----------------------------------------------------------------------------
(* Initializers *)

RECURSIVE generate_local_array_init(_, _, _)
generate_local_array_init(element, n, g) ==
    LET Element(acc, m) ==
            IF m.node = "braced" THEN generate_local_array_init(element, m, acc)
            ELSE CreateStore(adjusted(m, acc), generate_type(element))
    IN FoldLeft(Element, g, n.members)

\* A braced expression for a member that is a pointer to a structure is
\* written through the member, which LLVM cannot index.
RECURSIVE generate_local_struct_init(_, _, _)
generate_local_struct_init(name, n, g) ==
    LET Member(acc, i) ==
            LET t == Members[name][i].type
                m == n.members[i]
                lowest == get_lowest_array_type(t)
                h == CASE m.node = "braced" /\ t.lens # <<>> ->
                            generate_local_array_init(lowest, m, ContextOf(acc, lowest))
                       [] m.node = "braced" /\ t.lens = <<>> ->
                            generate_local_struct_init(t.name, m, Typed(acc, t.ptr = 0))
                       [] OTHER ->
                            CreateStore(adjusted(m, ContextOf(acc, t)), generate_type(t))
            IN delete_casting_context(h)
    IN FoldLeft(Member, g, [i \in DOMAIN n.members |-> i])

generate_assign(n, g) ==
    LET Stored(s, l) == RestoreIfAny([s EXCEPT !.w = l.w], g.ctx)
        Store(l, h) == IF h.out # "ok" THEN h
                       ELSE Stored(CreateStore(h, generate_type(l.w.tak)), l)
        Left(l) == Store(l, Demand(adjusted(n.right, l), l.w.loadable, "loadable"))
        Braced(b) == [generate_local_struct_init(b.w.tak.name, n.right, b) EXCEPT !.w = b.w]
    IN IF n.right.node = "braced" THEN Braced(generate(n.left, g))
       ELSE Left(generate(n.left, delete_casting_context(g)))

generate_binexpr(n, g) ==
    LET t == generate(n.left, delete_casting_context(g)).w.tak
        Operator(h) ==
            CASE n.op \in {"+", "+="} -> generate_add(h)
              [] n.op \in {"-", "-="} -> generate_sub(n, h, t)
              [] n.op \in {"*", "*="} -> generate_mul(h, t)
              [] n.op \in {"/", "/="} -> generate_div(h, t)
              [] n.op \in {"%", "%="} -> generate_mod(h, t)
              [] n.op \in {"<<", "<<=", ">>", ">>="} -> generate_shift(h, t)
              [] OTHER -> generate_bitwise(h, t)
    IN CASE n.op = "="  -> generate_assign(n, g)
         [] n.op = "&&" -> generate_conditional_and(n, g)
         [] n.op = "||" -> generate_conditional_or(n, g)
         [] n.op \in {"==", "!="} -> generate_equality(Compare(n, g))
         [] n.op \in Comparison \ {"==", "!="} -> generate_ordering(Compare(n, g), t)
         [] OTHER -> Operator(ByOperator(n, g))

\* The result goes through an alloca, so that it can be taken the address of.
generate_call(n, g) ==
    LET Argument(proc, acc, i) ==
            LET p == proc.params[i]
                known == i <= Len(proc.params)
                Passed(a) == delete_casting_context(
                                 Typed(a, known => a.w.ll = generate_type(p)))
            IN Passed(adjusted(n.arguments[i], IF known THEN ContextOf(acc, p) ELSE acc))
        Result(h, proc) ==
            IF h.out # "ok" THEN h
            ELSE IF proc.ret = <<>> THEN get_empty(h) ELSE Place(h, proc.ret[1], "alloca")
        Target(f, proc) ==
            Result(Restore(FoldLeft(LAMBDA acc, i : Argument(proc, acc, i),
                                    Demand(f, Len(proc.params) <= Len(n.arguments), "arguments"),
                                    [i \in DOMAIN n.arguments |-> i]),
                           g.ctx), proc)
        Of(f) == Target(f, f.w.tak)
    IN Of(adjusted(n.target, delete_casting_context(g)))

-----------------------------------------------------------------------------
(* Declarations *)

generate_vardecl_local(n, g0) ==
    LET t == g0.syms[n.sym].type
        g == [g0 EXCEPT !.locals = @ \cup {n.sym}]
        lowest == get_lowest_array_type(t)
        h == IF t.lens # <<>>
             THEN generate_local_array_init(lowest, n.init[1], ContextOf(g, lowest))
             ELSE IF is_aggregate(t) /\ n.init[1].node = "braced"
             THEN generate_local_struct_init(t.name, n.init[1], g)
             ELSE CreateStore(adjusted(n.init[1], ContextOf(g, t)), generate_type(t))
    IN IF n.init = <<>> THEN Value(g, LL("ptr"), t, "alloca")
       ELSE Value(delete_casting_context(h), LL("ptr"), t, "alloca")

RECURSIVE generate_constant_array(_, _, _)
generate_constant_array(element, n, g) ==
    LET Element(acc, m) ==
            IF m.node = "braced" THEN generate_constant_array(element, m, acc)
            ELSE LET e == generate(m, Demand(acc, m.node = "lit", "panic"))
                 IN Typed(e, e.w.ll = generate_type(element))
    IN FoldLeft(Element, g, n.members)

RECURSIVE generate_constant_struct(_, _, _)
generate_constant_struct(name, n, g) ==
    LET Member(acc, i) ==
            LET t == Members[name][i].type
                m == n.members[i]
                lowest == get_lowest_array_type(t)
                e == generate(m, ContextOf(Demand(acc, m.node = "lit", "literal"), t))
                h == CASE t.lens # <<>> ->
                            generate_constant_array(lowest, m, set_casting_context(acc, lowest))
                       [] t.lens = <<>> /\ ~is_aggregate(t) ->
                            Typed(e, e.w.ll = generate_type(t))
                       [] OTHER ->
                            generate_constant_struct(t.name, m,
                                Demand(acc, m.node = "braced", "braced"))
            IN IF acc.out # "ok" THEN acc ELSE delete_casting_context(h)
    IN FoldLeft(Member, g, [i \in DOMAIN n.members |-> i])

generate_global_array(n, t, g) ==
    LET lowest == get_lowest_array_type(t)
        h == IF lowest.ptr > 0 THEN g ELSE set_casting_context(g, lowest)
        v == generate_constant_array(lowest, n.init[1], h)
    IN IF lowest.ptr > 0 THEN v ELSE delete_casting_context(v)

generate_global_struct(n, t, g) ==
    generate_constant_struct(t.name, n.init[1],
        Demand(g, n.init[1].node = "braced", "braced"))

generate_global_primitive(n, t, g) ==
    LET h == ContextOf(Demand(g, n.init[1].node = "lit", "literal"), t)
        v == generate(n.init[1], h)
        s == Typed(v, v.w.ll = generate_type(t))
    IN IF t.ptr > 0 THEN s ELSE delete_casting_context(s)

generate_vardecl_global(n, g) ==
    LET t == g.syms[n.sym].type
    IN CASE n.init = <<>> -> get_empty(g)
         [] n.init # <<>> /\ t.lens # <<>> -> generate_global_array(n, t, g)
         [] n.init # <<>> /\ is_aggregate(t) /\ t.lens = <<>> ->
                generate_global_struct(n, t, g)
         [] OTHER -> generate_global_primitive(n, t, g)

generate_vardecl(n, g) ==
    IF "global" \in g.syms[n.sym].flags THEN generate_vardecl_global(n, g)
    ELSE generate_vardecl_local(n, g)

-----------------------------------------------------------------------------
(* Statements *)

NoContext(g) == Demand(g, g.ctx = <<>>, "context")   \* assert(!casting_context_exists())

\* The statements of a nested body: the context is deleted after each.
Block(nodes, g) ==
    FoldLeft(LAMBDA acc, n : delete_casting_context(generate(n, acc)),
             [g EXCEPT !.term = FALSE], nodes)

At(g) == get_empty([g EXCEPT !.term = FALSE])        \* SetInsertPoint(merge_blk)

enter_loop(g, in) == [Demand(g, ~g.loop, "loop") EXCEPT !.loop = in]
leave_curr_loop(g) == [g EXCEPT !.loop = FALSE]

generate_branch(n, g) ==
    LET c == generate_to_i1(adjusted(n.cond, NoContext(g)))
    IN At(Block(n.else, Block(n.body, c)))

generate_for(n, g) ==
    LET i == IF n.init = <<>> THEN NoContext(g) ELSE generate(n.init[1], NoContext(g))
        l == enter_loop(leave_curr_loop(i), TRUE)
        c == IF n.cond = <<>> THEN l
             ELSE delete_casting_context(generate_to_i1(adjusted(n.cond[1], l)))
        u == IF n.update = <<>> THEN c ELSE Block(n.update, c)
    IN At(enter_loop(leave_curr_loop(Block(n.body, u)), g.loop))

generate_while(n, g) ==
    LET c == generate_to_i1(adjusted(n.cond, leave_curr_loop(NoContext(g))))
        b == Block(n.body, delete_casting_context(enter_loop(c, TRUE)))
    IN At(enter_loop(leave_curr_loop(b), g.loop))

\* The loop is not left before the one around it is entered again.
generate_dowhile(n, g) ==
    LET b == Block(n.body, enter_loop(leave_curr_loop(NoContext(g)), TRUE))
        c == generate_to_i1(adjusted(n.cond, [b EXCEPT !.term = FALSE]))
    IN At(enter_loop(c, g.loop))

generate_ret(n, g) ==
    LET v == adjusted(n.value[1], ContextOf(NoContext(g), g.ret[1]))
        h == IF g.ret = <<>> THEN NoContext(g)
             ELSE Typed(v, v.w.ll = generate_type(g.ret[1]))
    IN get_empty([h EXCEPT !.term = TRUE])

generate_jump(g) == get_empty([Demand(g, g.loop, "loop") EXCEPT !.term = TRUE])

dispatch(n, g) ==
    CASE n.node = "lit"       -> generate_singleton_literal(n, g)
      [] n.node = "ident"     -> generate_identifier(n, g)
      [] n.node = "binexpr"   -> generate_binexpr(n, g)
      [] n.node = "unaryexpr" -> generate_unaryexpr(n, g)
      [] n.node = "subscript" -> generate_subscript(n, g)
      [] n.node = "member"    -> generate_member_access(n, g)
      [] n.node = "call"      -> generate_call(n, g)
      [] n.node = "vardecl"   -> generate_vardecl(n, g)
      [] n.node = "ret"       -> generate_ret(n, g)
      [] n.node = "branch"    -> generate_branch(n, g)
      [] n.node = "for"       -> generate_for(n, g)
      [] n.node = "while"     -> generate_while(n, g)
      [] n.node = "dowhile"   -> generate_dowhile(n, g)
      [] n.node \in {"brk", "cont"} -> generate_jump(g)
      [] n.node = "defer"     -> get_empty(g)      \* pushed: see ProcCodegen
      [] OTHER -> Demand(g, FALSE, "not dispatched")

Checked(n, g) == evaluate(n, [NewChecker(g.syms, g.ret) EXCEPT !.loops = 1]).t

Expressions == {"lit", "ident", "binexpr", "unaryexpr", "subscript", "member", "call"}

generate(n, g) ==
    LET Generated(h) ==
            IF n.node \notin Expressions THEN h
            ELSE [IF g.ctx # <<>> /\ g.ctx # h.ctx THEN Note(h, "context lost") ELSE h
                     EXCEPT !.checked = Checked(n, g)]
    IN IF g.out # "ok" \/ (g.inside /\ g.term) THEN get_empty(g)
       ELSE Generated(dispatch(n, g))
=============================================================================
