------------------------------ MODULE Fragment ------------------------------
(***************************************************************************)
(* The programs for which the code generator keeps what the checker        *)
(* promised.  The checker types an expression by its operands, the         *)
(* generator by the casting context its left operands leave behind, and    *)
(* the two agree only on part of the language.  Each clause below leaves   *)
(* out a form on which they are known to differ; the README lists them.    *)
(***************************************************************************)
EXTENDS ExprCodegen

TypesOf(n, c) == evaluate(n, [c EXCEPT !.loops = 1]).t
Context(t)    == IF is_primitive(t) THEN <<t>> ELSE <<>>

\* A value of type t can be converted to the context without loss.
Fits(t, ctx) ==
    ctx # <<>> /\ is_primitive(t) =>
        IF is_floating_point(ctx[1])
        THEN is_floating_point(t) => primitive_t_size_bytes[t.name]
                                        <= primitive_t_size_bytes[ctx[1].name]
        ELSE is_integer(t) /\ Bits[generate_primitive_type[t.name]]
                                 <= Bits[generate_primitive_type[ctx[1].name]]

\* The context n leaves when it is generated in none: calls, comparisons and
\* the logical operators leave none, a literal that of its default type.
RECURSIVE Leaves(_, _)
Leaves(n, c) ==
    CASE n.node = "lit" ->
            IF n.lit \in {"string", "nullptr"} THEN <<>>
            ELSE IF n.lit \in {"float32", "float64"} THEN <<get_const_double>>
            ELSE <<get_const_uint64>>
      [] n.node \in {"ident", "member", "subscript"} -> Context(TypesOf(n, c)[1])
      [] n.node = "unaryexpr" -> Leaves(n.operand, c)
      [] n.node = "binexpr" -> IF n.op \in Logical THEN <<>> ELSE Leaves(n.left, c)
      [] OTHER -> <<>>

IsString(n) == n.node = "lit" /\ n.lit = "string"

Whole(ctx) == ctx # <<>> => ~is_floating_point(ctx[1])

RECURSIVE Faithful(_, _, _)

\* ~ and ! see their operand already converted to the context, - of a float
\* is a float; what is not in memory has no address.
FaithfulUnary(n, ts, ctx) ==
    LET t == ts[1]
    IN /\ ts # <<>>
       /\ CASE n.op = "!" -> Fits(t, ctx) /\ ~is_floating_point(t) /\ Whole(ctx)
            [] n.op = "~" -> Whole(ctx)
            [] n.op = "-" -> Fits(t, ctx)
            [] n.op = "&" -> n.operand.node \in {"ident", "member", "subscript"}
            [] n.op = "^" -> ~IsString(n.operand)
            [] n.op \in {"++", "--"} -> n.operand.node # "call"
            [] OTHER -> TRUE

\* ctx is the context that the right operand is generated in.
FaithfulBinary(n, lt, rt, ctx) ==
    CASE n.op \in {"&&", "||"} -> TRUE
      [] lt.ptr > 0 /\ n.op \in PtrArith ->
             is_integer(rt) /\ n.op # "-=" /\ ~IsString(n.left)
      [] OTHER -> /\ lt.kind # "proc"
                  /\ is_primitive(lt) =>
                         /\ ctx # <<>>
                         /\ n.left.node # "lit" => generate_type(ctx[1]) = generate_type(lt)

RightContext(n, lt, c) ==
    IF lt.ptr > 0 /\ n.op \in PtrArith THEN <<get_const_uint64>>
    ELSE IF n.op = "||" THEN <<>> ELSE Leaves(n.left, c)

\* The operands whose types decide.
Operands(n) ==
    CASE n.node = "binexpr"   -> <<n.left, n.right>>
      [] n.node = "unaryexpr" -> <<n.operand>>
      [] n.node = "call"      -> <<n.target>>
      [] OTHER -> <<>>

\* n, generated in the given context, is typed and keeps the width of every
\* integer.
Faithful(n, ctx, c) ==
    LET kids == Operands(n)
        Is(k) == Faithful(k, <<>>, c)
        Argument(params, i) ==
            Faithful(n.arguments[i],
                     IF i \in DOMAIN params THEN Context(params[i]) ELSE <<>>, c)
        Arguments(params) == \A i \in DOMAIN n.arguments : Argument(params, i)
        Right(lt, rt, right) ==
            Faithful(n.right, right, c) /\ FaithfulBinary(n, lt, rt, right)
        Left(lt, rt) == Right(lt, rt, RightContext(n, lt, c))
        \* types holds the types of n and of its operands.
        ByTypes(types) ==
            LET fits == types[1] # <<>> => Fits(types[1][1], ctx)
            IN CASE n.node = "ident" -> fits
                 [] n.node = "member" ->
                      /\ n.target.node \in {"ident", "member", "subscript", "call"}
                      /\ fits /\ Is(n.target)
                 [] n.node = "subscript" ->
                      /\ fits /\ ~IsString(n.operand) /\ Is(n.operand)
                      /\ Faithful(n.value, <<get_const_int32>>, c)
                 [] n.node = "call" -> fits /\ Arguments(types[2][1].params)
                 [] n.node = "unaryexpr" ->
                      /\ FaithfulUnary(n, types[2], ctx)
                      /\ Faithful(n.operand, ctx, c) /\ (n.op = "^" => fits)
                 [] n.node = "binexpr" ->
                      /\ Is(n.left) /\ fits
                      /\ n.right.node # "braced" => Left(types[2][1], types[3][1])
                 [] OTHER -> FALSE
    IN IF n.node = "lit"
       THEN n.lit \in {"float32", "float64"} /\ ctx # <<>> => is_floating_point(ctx[1])
       ELSE ByTypes([i \in 1 .. Len(kids) + 1 |-> TypesOf(IF i = 1 THEN n ELSE kids[i - 1], c)])

-----------------------------------------------------------------------------
(* Initializers and statements: the expressions that they generate, each   *)
(* as a pair with its context.                                             *)

In(nodes, ctx) == {<<nodes[i], ctx>> : i \in DOMAIN nodes}
Excluded == {<< [node |-> "excluded"], <<>> >>}
Alone(ctx, pairs) == IF ctx = <<>> THEN pairs ELSE Excluded

\* The elements of an array are generated in the context of its element type;
\* a braced expression in a structure is for an array or a nested structure.
RECURSIVE Initializers(_, _)
Initializers(t, n) ==
    LET Of(i) == CASE t.lens # <<>> -> get_lowest_array_type(t)
                   [] t.lens = <<>> /\ t.kind = "struct" -> Members[t.name][i].type
                   [] OTHER -> t
    IN IF n.node # "braced" THEN {<<n, Context(t)>>}
       ELSE IF t.lens = <<>> /\ t.kind = "struct" /\ t.ptr > 0 THEN Excluded
       ELSE UNION {Initializers(Of(i), n.members[i]) : i \in DOMAIN n.members}

\* Statements are generated in no context, except the first of a branch: the
\* context its condition leaves is still there.
RECURSIVE Generated(_, _, _)
GeneratedBody(nodes, ctx, c) ==
    UNION {Generated(nodes[i], IF i = 1 THEN ctx ELSE <<>>, c) : i \in DOMAIN nodes}

Generated(n, ctx, c) ==
    LET After(nodes, x) == IF nodes = <<>> THEN x ELSE <<>>
        Branch(left) == GeneratedBody(n.body, left, c)
                            \cup GeneratedBody(n.else, After(n.body, left), c)
        For(i) == In(n.cond, i)
                      \cup GeneratedBody(n.update, After(n.cond, i), c)
                      \cup GeneratedBody(n.body, After(n.update, After(n.cond, i)), c)
        Leaving(nodes) == IF nodes = <<>> THEN <<>> ELSE Leaves(nodes[1], c)
    IN CASE n.node = "vardecl" ->
              UNION {Initializers(c.syms[n.sym].type, n.init[i]) : i \in DOMAIN n.init}
         [] n.node = "ret" ->
              Alone(ctx, UNION {Initializers(c.ret[1], n.value[i]) : i \in DOMAIN n.value})
         [] n.node = "branch" ->
              Alone(ctx, In(<<n.cond>>, <<>>) \cup Branch(Leaving(<<n.cond>>)))
         [] n.node = "while" ->
              Alone(ctx, In(<<n.cond>>, <<>>) \cup GeneratedBody(n.body, <<>>, c))
         [] n.node = "for" ->
              Alone(ctx, GeneratedBody(n.init, <<>>, c) \cup For(Leaving(n.init)))
         [] n.node \in {"braced", "dowhile", "switch", "block", "cast", "sizeof"} -> Excluded
         [] n.node \in {"brk", "cont", "defer"} -> {}
         [] OTHER -> {<<n, ctx>>}

FaithfulStatement(n, c) == \A p \in Generated(n, <<>>, c) : Faithful(p[1], p[2], c)
=============================================================================
