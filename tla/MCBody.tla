------------------------------- MODULE MCBody -------------------------------
(* Small programs for Body: a table of symbols of every sort of type, and  *)
(* every expression of depth one over them.                                *)
EXTENDS Body

Prim(name)    == TypeData("prim", name, 0, {})
Pointer(name) == TypeData("prim", name, 1, {})
Struct(ptr)   == TypeData("struct", "S", ptr, {})
Proc(params, ret) ==
    [TypeData("proc", "f", 0, {}) EXCEPT !.params = params, !.ret = ret]
Array(name, lens) == [Prim(name) EXCEPT !.lens = lens]

MCMembers == [S |-> << [name |-> "a", type |-> Prim("i32")],
                       [name |-> "b", type |-> Array("u8", <<2>>)],
                       [name |-> "next", type |-> Struct(1)] >>]

Sym(type, flags) == [type |-> type, flags |-> flags]
MCSymbols ==
    [y |-> Sym(Prim("u8"), {}), x |-> Sym(Prim("i32"), {}),
     l |-> Sym(Prim("u64"), {}), f |-> Sym(Prim("f32"), {}),
     d |-> Sym(Prim("f64"), {}), b |-> Sym(Prim("bool"), {}),
     k |-> Sym(With(Prim("i32"), "const"), {}),
     p |-> Sym(Pointer("i32"), {}), q |-> Sym(Pointer("u8"), {}),
     a |-> Sym(Array("i32", <<2>>), {}),
     s |-> Sym(Struct(0), {}), r |-> Sym(Struct(1), {}),
     c |-> Sym(With(Struct(0), "const"), {}),
     ka |-> Sym(With(Array("u8", <<2>>), "const"), {}),
     g |-> Sym(Prim("i32"), {"global"}),
     fn |-> Sym(Proc(<<Prim("u8"), Pointer("i32")>>, <<Prim("i32")>>), {}),
     mk |-> Sym(Proc(<<>>, <<Struct(0)>>), {}),
     pr |-> Sym(Proc(<<Prim("u64")>>, <<>>), {}),
     vi |-> Sym(TypeData("none", "void", 0, {"inferred"}), {}),
     vs |-> Sym(Struct(0), {}), va |-> Sym(Array("i32", <<0>>), {}),
     vp |-> Sym(Pointer("void"), {}),
     gi |-> Sym(Prim("u16"), {"global"}), gs |-> Sym(Struct(0), {"global"}),
     ga |-> Sym(Array("u8", <<0>>), {"global"}), gp |-> Sym(Pointer("i8"), {"global"}),
     gu |-> Sym(TypeData("none", "void", 0, {"inferred"}), {"global"})]
MCLocals == {"y", "x", "l", "f", "d", "b", "k", "p", "q", "a", "s", "r", "c", "ka"}

Lit(k)       == [node |-> "lit", lit |-> k]
Id(n)        == [node |-> "ident", sym |-> n]
Bin(o, l, r) == [node |-> "binexpr", op |-> o, left |-> l, right |-> r]
Un(o, e)     == [node |-> "unaryexpr", op |-> o, operand |-> e]
Sub(e, i)    == [node |-> "subscript", operand |-> e, value |-> i]
Mem(e, path) == [node |-> "member", target |-> e, path |-> path]
Call(f, as)  == [node |-> "call", target |-> Id(f), arguments |-> as]
Cast(e, t)   == [node |-> "cast", target |-> e, type |-> t]
Braced(ms)   == [node |-> "braced", members |-> ms]

Idents   == {Id(n) : n \in MCLocals \cup {"g", "fn", "mk", "pr"}}
Literals == {Lit(k) : k \in {"int8", "int32", "float64", "string", "nullptr", "bool"}}
Atoms    == Idents \cup Literals
BinOps   == {"+", "-", "/", "%", "+=", "-=", "*=", "&", "<<=", "==", "<", "&&", "||", "="}
UnOps    == {"+", "-", "~", "!", "^", "&", "++", "--"}

Depth1 ==
    {Bin(o, l, r) : o \in BinOps, l \in Atoms, r \in Atoms}
    \cup {Un(o, e) : o \in UnOps, e \in Atoms}
    \cup {Sub(e, i) : e \in Idents, i \in Atoms}
    \cup {Mem(e, <<m>>) : e \in Idents, m \in {"a", "b", "next"}}

Inner == {Un("^", Id("p")), Un("^", Id("q")), Un("&", Id("x")), Un("&", Id("f")), Un("!", Id("x")), Un("-", Id("y")), Un("-", Lit("int8")),
          Un("~", Id("x")), Un("++", Id("y")), Bin("+", Id("y"), Lit("int8")), Bin("+", Lit("int8"), Id("x")),
          Bin("+", Id("f"), Id("y")), Bin("==", Id("x"), Id("y")), Bin("&&", Id("b"), Id("p")), Bin("||", Id("y"), Id("x")), Bin("=", Id("x"), Id("y")),
          Bin("+=", Id("l"), Id("x")), Bin("+", Id("p"), Id("x")), Bin("-", Id("d"), Lit("float64")),
          Sub(Id("a"), Id("y")), Sub(Mem(Id("c"), <<"b">>), Id("y")), Mem(Id("r"), <<"a">>),
          Sub(Id("q"), Lit("int8")), Mem(Id("s"), <<"a">>), Mem(Id("r"), <<"b">>), Mem(Id("r"), <<"next">>),
          Mem(Id("c"), <<"a">>), Mem(Id("s"), <<"next", "a">>),
          Call("fn", <<Id("y"), Id("p")>>), Call("mk", <<>>), Call("pr", <<Id("x")>>), Cast(Id("x"), Prim("u8")),
          Braced(<<Lit("int8"), Lit("int8")>>)}
Few == {Id(n) : n \in {"y", "x", "f", "b", "p", "s"}} \cup {Lit("int8"), Lit("float64")}
FewOps == {"+", "-=", "%", "=", "&", "<<=", "<", "==", "&&", "||"}
Depth2 ==
    {Bin(o, l, r) : o \in FewOps, l \in Inner, r \in Few}
    \cup {Bin(o, l, r) : o \in FewOps, l \in Few, r \in Inner}
    \cup {Un(o, e) : o \in UnOps, e \in Inner}
    \cup {Sub(e, i) : e \in Inner, i \in Few} \cup {Sub(e, i) : e \in Idents, i \in Inner}
    \cup {Mem(e, <<m>>) : e \in Inner, m \in {"a", "b", "next"}}
    \cup {Call("fn", <<e, i>>) : e \in Inner \cup Few, i \in Inner \cup Few}


\* Statements
Decl(n, init) == [node |-> "vardecl", sym |-> n, init |-> init]
If(e, t, f) == [node |-> "branch", cond |-> e, body |-> t, else |-> f]
While(e, t) == [node |-> "while", cond |-> e, body |-> t]
DoWhile(e, t) == [node |-> "dowhile", cond |-> e, body |-> t]
For(i, e, u, t) ==
    [node |-> "for", init |-> i, cond |-> e, update |-> u, body |-> t]
Ret(v) == [node |-> "ret", value |-> v]
Switch(e, cases, d) == [node |-> "switch", target |-> e, cases |-> cases, default |-> d]
Case(v, t) == [value |-> v, body |-> t]
BlockOf(t) == [node |-> "block", body |-> t]
Defer(e, f) == [node |-> "defer", cond |-> e, call |-> f]
Sizeof(e, t) == [node |-> "sizeof", target |-> e, of |-> t]
Brk == [node |-> "brk"]
Cont == [node |-> "cont"]

\* The parser takes no declaration that infers its type without a value.
Initialized(d) == d.sym \in {"vi", "gu"} => d.init # <<>>

Declarations == {d \in
    {Decl(n, init) : n \in {"vi", "vs", "va", "vp"}, init \in
        {<<>>, <<Lit("int8")>>, <<Lit("nullptr")>>, <<Id("y")>>, <<Id("s")>>, <<Id("r")>>,
         <<Un("&", Id("x"))>>, <<Call("mk", <<>>)>>,
         <<Braced(<<Lit("int8"), Id("y")>>)>>, <<Braced(<<>>)>>,
         <<Braced(<<Id("y"), Braced(<<Lit("int8"), Id("y")>>), Id("r")>>)>>,
         <<Braced(<<Id("y"), Braced(<<Lit("int8"), Id("y")>>), Braced(<<>>)>>)>>}} : Initialized(d)}
Conds  == {Id("b"), Id("p"), Bin("<", Id("y"), Id("x"))}
Simple == {Ret(<<>>), Ret(<<Id("y")>>), Brk, Cont, Bin("=", Id("x"), Id("y")),
           Un("!", Id("x")), Decl("vi", <<Id("y")>>), Call("pr", <<Id("y")>>)}
Bodies == {<<>>} \cup {<<t>> : t \in Simple \ {Ret(<<>>), Cont}}
Nested == {If(Id("b"), <<Brk>>, <<>>), If(Id("p"), <<Brk>>, <<Cont>>), While(Id("p"), <<Brk>>),
           If(Id("p"), <<Ret(<<Id("y")>>)>>, <<>>), While(Id("b"), <<Ret(<<>>)>>)}
Control ==
    {If(e, t, f) : e \in Conds, t \in Bodies, f \in {<<>>, <<Ret(<<Id("y")>>)>>}}
    \cup {While(e, t) : e \in Conds, t \in Bodies \cup {<<u>> : u \in Nested}}
    \cup {If(e, <<t>>, <<>>) : e \in Conds, t \in Nested}
    \cup {DoWhile(Id("b"), <<>>), For(<<>>, <<>>, <<>>, <<If(Id("p"), <<Brk>>, <<>>)>>)}
    \cup {For(i, e, u, <<Bin("=", Id("x"), Id("y"))>>) :
               i \in {<<>>, <<Decl("vi", <<Lit("int8")>>)>>, <<Bin("=", Id("y"), Lit("int8"))>>},
               e \in {<<>>, <<Bin("<", Id("y"), Id("x"))>>},
               u \in {<<>>, <<Un("++", Id("x"))>>}}

Others ==
    {Switch(Id(e), <<Case(Lit(v), <<t>>), Case(Lit("int8"), <<>>)>>, <<u>>) :
          e \in {"y", "l", "f", "p"}, v \in {"int8", "int32", "float64"}, t \in {Brk, Ret(<<>>)},
          u \in {Cont, Decl("vi", <<Id("y")>>)}}
    \cup {BlockOf(<<t>>) : t \in Simple}
    \cup {Defer(e, Call("pr", <<Id(v)>>)) : e \in {<<>>, <<Id("b")>>, <<Id("a")>>}, v \in {"y", "s"}}
    \cup {Cast(Id(e), t) : e \in {"x", "p", "s"}, t \in {Prim("u8"), Prim("u64"), Pointer("u8")}}
    \cup {Sizeof(Id(e), t) : e \in {"s", "fn", "gu"}, t \in {<<>>, <<Prim("u8")>>}}

GlobalDecls == {d \in
    {Decl(n, init) : n \in {"gi", "gs", "ga", "gp", "gu"}, init \in
        {<<>>, <<Lit("int8")>>, <<Lit("float64")>>, <<Lit("nullptr")>>, <<Lit("string")>>, <<Un("-", Lit("int8"))>>,
         <<Braced(<<Lit("int8"), Lit("int8")>>)>>,
         <<Braced(<<Lit("int8"), Braced(<<Lit("int8"), Lit("int8")>>), Lit("nullptr")>>)>>,
         <<Braced(<<Lit("int8"), Braced(<<Lit("int8"), Lit("int8")>>), Braced(<<>>)>>)>>}} : Initialized(d)}

MCReturns == {<<>>, <<Prim("u8")>>}
MCGlobals == GlobalDecls
MCExpressions == Depth1 \cup Depth2
MCStatements == Control \cup Declarations \cup Simple \cup Others
=============================================================================
