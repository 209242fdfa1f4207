-------------------------- MODULE MCGenericStructs --------------------------
(* Values of the constants for checking GenericStructs.                       *)
EXTENDS GenericStructs

Type(kind, name, params) ==
    [kind |-> kind, name |-> name, depth |-> 0, array_lengths |-> <<>>,
     params |-> params, ret |-> <<>>]
Primitive(n)       == Type("primitive", <<n>>, <<>>)
Named(n)           == Type("struct", <<n>>, <<>>)
Generic(n, params) == Type("struct", <<n>>, params)
Procedure(p, r)    == [Type("procedure", <<"proc">>, p) EXCEPT !.depth = 1, !.ret = r]
Ptr(type)          == [type EXCEPT !.depth = 1]
Array(type, n)     == [type EXCEPT !.array_lengths = <<n>>]

T   == Named("T")
i32 == Primitive("i32")
f32 == Primitive("f32")

ABS == <<"A", "B", "S">>
TypeParams == [A |-> <<"T">>, B |-> <<"T">>, S |-> <<>>]
InstanceMembers ==
    [A |-> {T, Ptr(T), Generic("B", <<T>>), Ptr(Generic("A", <<Generic("A", <<T>>)>>)),
            Procedure(<<T>>, <<T>>)},
     B |-> {Ptr(Generic("A", <<Ptr(T)>>)), Generic("B", <<T>>), Array(T, 2)},
     S |-> {Generic("A", <<i32>>), Named("S"), Array(i32, 0)}]
InstanceSymbols == {Generic("A", <<i32>>),
                    Generic("A", <<Generic("B", <<Array(f32, 2)>>)>>),
                    Procedure(<<>>, <<Generic("B", <<f32>>)>>)}
InstanceNodes == {Generic("A", <<Procedure(<<>>, <<i32>>)>>), Generic("B", <<>>)}
=============================================================================
