--------------------------- MODULE MCGenericProcs ---------------------------
(* Values of the constants for checking GenericProcs.                         *)
EXTENDS GenericProcs

Type(n)     == [name |-> <<n>>, ptr |-> 0]
Pointer(n)  == [name |-> <<n>>, ptr |-> 1]
Use(n)      == [op |-> "use", name |-> <<n>>, args |-> NoArgs]
Global(n)   == [op |-> "use", name |-> <<Root, n>>, args |-> NoArgs]
Inst(n, t)  == [op |-> "use", name |-> <<n>>, args |-> t]
Local(n, t) == [op |-> "local", id |-> n, type |-> t]

PathAB      == {<<"A">>, <<"B">>, <<"A", "B">>, <<"A", "A">>}
OneParam    == {<<"T">>}
TwoParams   == {<<"T">>, <<"T", "T">>, <<"T", "U">>}
EnumE       == {<<"E", "m">>, <<"A", "m">>, <<"E", "E">>}

\* Generic procedures that ask for each other, and for themselves with a
\* larger type.
Asking == {<<>>,
           <<Inst("f", <<Type("i32")>>)>>,
           <<Inst("g", <<Type("T")>>)>>,
           <<Inst("f", <<Pointer("T")>>), Use("v")>>}
\* Names and types looked up from one of several namespaces.
Naming == {<<>>,
           <<Use("f"), Global("f")>>,
           <<Inst("f", <<Type("i32")>>), Inst("f", <<Pointer("i32")>>)>>,
           <<Inst("f", <<Type("i32"), Pointer("i32")>>)>>,
           <<Local("f", Type("i32")), Use("f")>>,
           <<Local("x", Type("T")), Inst("f", <<Type("S")>>)>>,
           <<[op |-> "use", name |-> <<"E", "m">>, args |-> NoArgs]>>}
=============================================================================
