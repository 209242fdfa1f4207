------------------------------ MODULE Checker ------------------------------
(***************************************************************************)
(* The type checker (checker/evaluate.cpp, checker/convert.cpp) as a walk  *)
(* over the syntax tree.  evaluate takes a node and a checker state and    *)
(* leaves a checker state:                                                 *)
(*   syms   the symbol table: name -> [type, flags]                        *)
(*   ret    the return type of the procedure around the node, if any       *)
(*   loops  how many loops are around the node                             *)
(*   bad    an error has been raised                                       *)
(*   t      the type evaluate returned, or nothing                         *)
(* One operator stands for each evaluate_ function.                        *)
(***************************************************************************)
EXTENDS Types, SequencesExt

CONSTANT Members      \* user types: name -> sequence of [name, type]

NewChecker(syms, ret) ==
    [syms |-> syms, ret |-> ret, loops |-> 0, bad |-> FALSE, t |-> <<>>]

Nothing(c)      == [c EXCEPT !.t = <<>>]
Raise(c)        == [c EXCEPT !.bad = TRUE]
Fail(c)         == Raise(Nothing(c))
Require(c, ok)  == IF ok THEN c ELSE Raise(c)
Yield(c, t)     == [c EXCEPT !.t = <<t>>]
YieldIf(c, ts)  == IF ts = <<>> THEN Fail(c) ELSE [c EXCEPT !.t = ts]

RECURSIVE evaluate(_, _)

evaluate_children(nodes, c) ==
    Nothing(FoldLeft(LAMBDA acc, n : evaluate(n, acc), c, nodes))

-----------------------------------------------------------------------------
(* Leaves *)

LiteralKind == [int8 |-> "u8", int16 |-> "u16", int32 |-> "u32",
                float32 |-> "f32", float64 |-> "f64"]

LiteralType(lit) ==
    CASE lit = "string"  -> get_const_string
      [] lit = "nullptr" -> get_const_voidptr
      [] lit = "char"    -> get_const_char
      [] lit = "bool"    -> get_const_bool
      [] OTHER           -> TypeData("prim", LiteralKind[lit], 0, {})

evaluate_singleton_literal(n, c) ==
    Yield(c, [LiteralType(n.lit) EXCEPT
                 !.kind = "prim", !.flags = @ \cup ConstRvalue \cup {"nonconc"}])

evaluate_identifier(n, c) ==
    LET sym == c.syms[n.sym]
    IN IF \/ sym.flags \cap {"genbase", "placeholder"} # {}
          \/ "inferred" \in sym.type.flags
       THEN Fail(c) ELSE Yield(c, sym.type)

-----------------------------------------------------------------------------
(* Braced expressions *)

\* The array type of a braced expression; with lits, only literals may occur.
RECURSIVE get_bracedexpr_as_array_t(_, _, _)
get_bracedexpr_as_array_t(n, c, lits) ==
    LET Element(m, acc) ==
            IF m.node = "braced" THEN get_bracedexpr_as_array_t(m, acc, lits)
            ELSE evaluate(m, acc)
        Misplaced(m, t) == m.node # "braced" /\ t.lens # <<>>
        NotLiteral(m)   == lits /\ m.node \notin {"lit", "braced"}
        First(m, e) ==
            IF e.t = <<>> \/ is_invalid_in_inferred_context(e.t[1]) THEN Nothing(e)
            ELSE IF NotLiteral(m) \/ Misplaced(m, e.t[1]) THEN Fail(e) ELSE e
        Fits(array, m, t) ==
            IF m.node = "braced" THEN array.lens # <<>> /\ are_arrays_equivalent(array, t)
            ELSE is_coercion_permissible(array, t)
        After(acc, m, e) ==
            IF e.t = <<>> THEN e
            ELSE IF ~Fits(acc.t[1], m, e.t[1]) THEN Nothing(e)
            ELSE IF Misplaced(m, e.t[1]) \/ NotLiteral(m) THEN Fail(e)
            ELSE Yield(e, IF m.node = "braced" THEN acc.t[1] ELSE Coerced(acc.t[1], e.t[1]))
        Next(acc, m) == IF acc.t = <<>> THEN acc ELSE After(acc, m, Element(m, acc))
        Sized(all) ==
            IF all.t = <<>> THEN all
            ELSE Yield(all, [all.t[1] EXCEPT !.lens = <<Len(n.members)>> \o @])
    IN IF n.members = <<>> THEN Nothing(c)
       ELSE Sized(FoldLeft(Next, First(n.members[1], Element(n.members[1], c)),
                           Tail(n.members)))

RECURSIVE assign_bracedexpr_to_struct(_, _, _, _)
assign_bracedexpr_to_struct(type, n, c, lits) ==
    LET members == Members[type.name]
        Match(acc, i) ==
            LET m == n.members[i]
                want == members[i].type
                Array(a) == Require(a, a.t # <<>> /\ are_arrays_equivalent(want, a.t[1]))
                Value(e) == Require(e, /\ e.t # <<>> /\ (lits => m.node = "lit")
                                       /\ is_coercion_permissible(want, e.t[1]))
            IN CASE want.lens # <<>> ->
                      IF m.node # "braced" THEN Raise(acc)
                      ELSE Array(get_bracedexpr_as_array_t(m, acc, lits))
                 [] want.lens = <<>> /\ want.kind = "struct" /\ m.node = "braced" ->
                      assign_bracedexpr_to_struct(want, m, acc, lits)
                 [] OTHER -> Value(evaluate(m, acc))
    IN IF "rvalue" \in type.flags \/ Len(members) # Len(n.members) THEN Raise(c)
       ELSE FoldLeft(Match, c, [i \in DOMAIN members |-> i])

-----------------------------------------------------------------------------
(* Expressions *)

\* Each operand is typed even when the other has no type; an error does not
\* take the type away.
evaluate_binexpr(n, c) ==
    LET Operands(l, r, lt, rt) ==
            LET applies == can_operator_be_applied_to(n.op, lt)
                pointer == binexpr_ptr_arith_chk(lt, rt, n.op)
                short   == n.op \in {"&&", "||"}
                ok == IF short THEN can_operator_be_applied_to(n.op, rt)
                      ELSE pointer \/ is_coercion_permissible(lt, rt)
                struct == lt.kind = "struct" /\ lt.ptr = 0 /\ n.right.node = "braced"
            IN IF l.t # <<>> /\ n.op = "=" /\ struct /\ applies
               THEN Yield(assign_bracedexpr_to_struct(lt, n.right, r, FALSE), to_rvalue(lt))
               ELSE IF l.t = <<>> \/ r.t = <<>> THEN Fail(r)
               ELSE Yield(Require(r, applies /\ ok),
                          IF n.op \in Logical THEN get_const_bool
                          ELSE to_rvalue(IF pointer THEN lt ELSE Coerced(lt, rt)))
        Both(l, r) == Operands(l, r, l.t[1], r.t[1])
        Left(l)    == Both(l, evaluate(n.right, l))
    IN Left(evaluate(n.left, c))

evaluate_unaryexpr(n, c) ==
    LET e == evaluate(n.operand, c)
        t == e.t[1]
        If(ok, type) == IF ok THEN Yield(e, type) ELSE Fail(e)
        Signable == is_primitive(t) /\ t.kind = "prim"
    IN IF e.t = <<>> THEN e ELSE
       CASE n.op = "+" -> If(Signable, to_rvalue(t))
         [] n.op = "-" -> If(Signable /\ flip_sign(t) # <<>>, to_rvalue(flip_sign(t)[1]))
         [] n.op = "~" -> If(is_bwop_eligible(t), to_rvalue(t))
         [] n.op \in {"++", "--"} ->
                If(can_operator_be_applied_to(n.op, t), to_rvalue(t))
         [] n.op = "!" -> If(is_lop_eligible(t), get_const_bool)
         [] n.op = "^" -> YieldIf(e, get_contained(t))
         [] n.op = "&" -> YieldIf(e, get_pointer_to(t))

evaluate_subscript(n, c) ==
    LET v == evaluate(n.value, c)
        o == evaluate(n.operand, v)
    IN IF v.t = <<>> \/ o.t = <<>> THEN Fail(o)
       ELSE YieldIf(Require(o, is_bwop_eligible(v.t[1])), get_contained(o.t[1]))

\* A path of member names: every step but the last must be a structure, or
\* one pointer away from one.
RECURSIVE get_struct_member_type_data(_, _)
get_struct_member_type_data(path, name) ==
    LET found == SelectSeq(Members[name], LAMBDA m : m.name = Head(path))
    IN IF found = <<>> THEN <<>>
       ELSE IF Len(path) = 1 THEN <<found[1].type>>
       ELSE LET t == found[1].type IN
            IF t.name \in DOMAIN Members /\ t.lens = <<>> /\ t.ptr < 2
            THEN get_struct_member_type_data(Tail(path), t.name) ELSE <<>>

\* Mutant: a member of a constant is not constant.
evaluate_member_access_writable(n, c) ==
    LET e == evaluate(n.target, c)
        t == e.t[1]
        member == get_struct_member_type_data(n.path, t.name)
    IN IF e.t = <<>> \/ t.kind # "struct" \/ t.lens # <<>> \/ t.ptr > 1 THEN Fail(e)
       ELSE YieldIf(e, member)
evaluate_member_access(n, c) ==
    LET e == evaluate(n.target, c)
        t == e.t[1]
        member == get_struct_member_type_data(n.path, t.name)
    IN IF e.t = <<>> \/ t.kind # "struct" \/ t.lens # <<>> \/ t.ptr > 1 THEN Fail(e)
       ELSE IF member = <<>> THEN Fail(e)
       ELSE IF "const" \in t.flags THEN Yield(e, With(member[1], "const"))
       ELSE Yield(e, member[1])

evaluate_cast(n, c) ==
    LET e == evaluate(n.target, c)
    IN IF e.t = <<>> THEN e
       ELSE IF is_cast_permissible(e.t[1], n.type) THEN Yield(e, n.type) ELSE Fail(e)

evaluate_sizeof(n, c) ==
    LET e == evaluate(n.target, c)
    IN IF n.of # <<>> THEN Yield(c, get_const_int32)
       ELSE IF e.t = <<>> \/ (e.t[1].kind = "proc" /\ e.t[1].ptr = 0) THEN Fail(e)
       ELSE Yield(e, get_const_int32)

get_call_return_type(proc) ==
    IF proc.ret = <<>> \/ is_returntype_lvalue_eligible(proc.ret[1]) THEN proc.ret
    ELSE <<to_rvalue(proc.ret[1])>>

is_t_invalid_as_procarg(t) == t.lens # <<>> \/ (t.kind = "proc" /\ t.ptr = 0)

\* With a wrong number of arguments none of them is evaluated.
evaluate_call(n, c) ==
    LET e == evaluate(n.target, c)
        proc == e.t[1]
        takes == Len(proc.params)
        given == Len(n.arguments)
        Argument(acc, i) ==
            LET a == evaluate(n.arguments[i], acc)
            IN Require(a, /\ a.t # <<>> /\ ~is_t_invalid_as_procarg(a.t[1])
                          /\ i <= takes => is_coercion_permissible(proc.params[i], a.t[1]))
        counted == IF "varargs" \in proc.flags THEN takes <= given ELSE takes = given
        args == IF counted THEN FoldLeft(Argument, e, [i \in 1 .. given |-> i]) ELSE Raise(e)
    IN IF e.t = <<>> \/ proc.kind # "proc" \/ proc.ptr > 1 THEN Fail(e)
       ELSE [args EXCEPT !.t = get_call_return_type(proc)]

-----------------------------------------------------------------------------
(* Declarations *)

\* Mutant: the symbol keeps the lengths it was declared with.
DeclaredAsArray_sizes_forgotten(n, type, a) ==
    IF a.t = <<>> \/ ~are_arrays_equivalent(type, a.t[1]) THEN Fail(a)
    ELSE Yield(a, type)
DeclaredAsArray(n, type, a) ==
    IF a.t = <<>> \/ ~are_arrays_equivalent(type, a.t[1]) THEN Fail(a)
    ELSE LET t == [type EXCEPT !.lens = a.t[1].lens]
         IN Yield([a EXCEPT !.syms[n.sym].type = t], t)

evaluate_arraydecl(n, c) ==
    LET sym == c.syms[n.sym]
    IN IF n.init[1].node # "braced" THEN Fail(c)
       ELSE DeclaredAsArray(n, sym.type,
                get_bracedexpr_as_array_t(n.init[1], c, "global" \in sym.flags))

\* A literal takes the type an undeclared variable gets: i32 or f64.
Concrete(t) ==
    IF "nonconc" \notin t.flags \/ t.ptr > 0 THEN t
    ELSE IF Named(t, Floats) THEN [t EXCEPT !.name = "f64"]
    ELSE IF Named(t, Integral) /\ primitive_t_size_bytes[t.name] <= 4
    THEN [t EXCEPT !.name = "i32"] ELSE t

evaluate_inferred_decl(n, c) ==
    LET sym == c.syms[n.sym]
        init == n.init[1]
        lits == "global" \in sym.flags
        Typed(a, of) ==
            LET t == [Concrete(of) EXCEPT
                         !.flags = (@ \ {"const", "nonconc", "rvalue"})
                                   \cup (sym.type.flags \ {"inferred"})]
            IN Yield([a EXCEPT !.syms[n.sym].type = t], t)
        Invalid(t) == \/ lits /\ t.lens = <<>> /\ init.node # "lit"
                      \/ is_invalid_in_inferred_context(t)
                      \/ t.lens # <<>> /\ init.node # "braced"
        Infer(a) == IF a.t = <<>> \/ Invalid(a.t[1]) THEN Fail(a) ELSE Typed(a, a.t[1])
    IN Infer(IF init.node = "braced" THEN get_bracedexpr_as_array_t(init, c, lits)
             ELSE evaluate(init, c))

evaluate_vardecl(n, c0) ==
    LET sym == c0.syms[n.sym]
        lits == "global" \in sym.flags
        Value(e) ==
            IF e.t = <<>> THEN Fail(e)
            ELSE LET g == Require(e, lits => n.init[1].node = "lit")
                 IN IF is_coercion_permissible(sym.type, e.t[1])
                    THEN Yield(g, sym.type) ELSE Fail(g)
        Declare(c) ==
            CASE n.init = <<>> ->
                  IF array_has_inferred_sizes(sym.type) THEN Fail(c) ELSE Yield(c, sym.type)
             [] n.init # <<>> /\ "inferred" \in sym.type.flags -> evaluate_inferred_decl(n, c)
             [] n.init # <<>> /\ sym.type.lens # <<>> -> evaluate_arraydecl(n, c)
             [] OTHER ->
                  IF n.init[1].node = "braced" /\ is_aggregate(sym.type)
                  THEN Yield(assign_bracedexpr_to_struct(sym.type, n.init[1], c, lits), sym.type)
                  ELSE Value(evaluate(n.init[1], c))
    IN Declare(Require(c0, "foreign" \in sym.flags =>
                               "internal" \notin sym.flags /\ n.init = <<>>))

-----------------------------------------------------------------------------
(* Statements *)

Condition(n, c) ==
    LET e == evaluate(n, c)
    IN Require(e, e.t # <<>> /\ is_lop_eligible(e.t[1]))

InLoop(nodes, c) ==
    LET body == evaluate_children(nodes, [c EXCEPT !.loops = @ + 1])
    IN [body EXCEPT !.loops = c.loops]

evaluate_ret(n, c) ==
    LET e == evaluate(n.value[1], c)
    IN IF n.value = <<>> /\ c.ret = <<>> THEN Nothing(c)
       ELSE IF n.value = <<>> \/ c.ret = <<>> \/ e.t = <<>> THEN Fail(c)
       ELSE Require(e, is_coercion_permissible(c.ret[1], e.t[1]))

evaluate_branch(n, c) ==
    evaluate_children(n.else, evaluate_children(n.body, Condition(n.cond, c)))

\* The condition is looked at before the update and the body.
evaluate_for(n, c) ==
    LET i == IF n.init = <<>> THEN c
             ELSE LET e == evaluate(n.init[1], c) IN Require(e, e.t # <<>>)
        d == IF n.cond = <<>> THEN i ELSE Condition(n.cond[1], i)
    IN InLoop(n.body, evaluate_children(n.update, d))

evaluate_while(n, c) == InLoop(n.body, Condition(n.cond, c))

\* Mutant: brk and cont are allowed everywhere.
evaluate_brk_or_cont_anywhere(n, c) == Nothing(c)
evaluate_brk_or_cont(n, c) == Nothing(Require(c, c.loops > 0))

evaluate_switch(n, c) ==
    LET e == evaluate(n.target, c)
        Case(acc, k) ==
            LET v == evaluate(k.value, acc)
                target == acc.t[1]
                fits == is_coercion_permissible(target, v.t[1])
            IN IF v.t = <<>> THEN Yield(Raise(v), target)
               ELSE Yield(evaluate_children(k.body, Require(v, fits)),
                          Coerced(target, v.t[1]))
    IN IF e.t = <<>> \/ ~is_bwop_eligible(e.t[1]) THEN Fail(e)
       ELSE evaluate_children(n.default, FoldLeft(Case, e, n.cases))

\* A defer has the call in call and no condition, a defer_if has both.
evaluate_defer(n, c) ==
    LET e == IF n.cond = <<>> THEN c ELSE Condition(n.cond[1], c)
    IN evaluate(n.call, e)

evaluate(n, c) ==
    CASE n.node = "lit"       -> evaluate_singleton_literal(n, c)
      [] n.node = "ident"     -> evaluate_identifier(n, c)
      [] n.node = "binexpr"   -> evaluate_binexpr(n, c)
      [] n.node = "unaryexpr" -> evaluate_unaryexpr(n, c)
      [] n.node = "subscript" -> evaluate_subscript(n, c)
      [] n.node = "member"    -> evaluate_member_access(n, c)
      [] n.node = "call"      -> evaluate_call(n, c)
      [] n.node = "cast"      -> evaluate_cast(n, c)
      [] n.node = "sizeof"    -> evaluate_sizeof(n, c)
      [] n.node = "braced"    -> Nothing(c)
      [] n.node = "vardecl"   -> evaluate_vardecl(n, c)
      [] n.node = "ret"       -> evaluate_ret(n, c)
      [] n.node = "branch"    -> evaluate_branch(n, c)
      [] n.node = "for"       -> evaluate_for(n, c)
      [] n.node \in {"while", "dowhile"} -> evaluate_while(n, c)
      [] n.node = "switch"    -> evaluate_switch(n, c)
      [] n.node = "defer"     -> evaluate_defer(n, c)
      [] n.node = "block"     -> evaluate_children(n.body, c)
      [] n.node \in {"brk", "cont"} -> evaluate_brk_or_cont(n, c)
=============================================================================
