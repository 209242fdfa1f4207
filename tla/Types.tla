------------------------------- MODULE Types -------------------------------
(***************************************************************************)
(* TypeData (typedata.hpp, support/typedata_util.cpp, checker/typedata.cpp)*)
(* and the LLVM type a TypeData stands for (codegen/llvm_types.cpp).       *)
(*                                                                         *)
(* A type is a record.  TYPE_POINTER and TYPE_ARRAY are set exactly when   *)
(* pointer_depth and array_lengths are not empty, so ptr and lens stand    *)
(* for them; the other flags the code tests are members of flags.  params  *)
(* holds a procedure's parameters, ret its return type, or nothing for     *)
(* void.  No parameter or return type is itself a procedure type.          *)
(***************************************************************************)
EXTENDS Integers, Sequences

Integral == {"u8", "i8", "u16", "i16", "u32", "i32", "u64", "i64"}
Floats   == {"f32", "f64"}
Signed   == {"i8", "i16", "i32", "i64"} \cup Floats
Primitives == Integral \cup Floats \cup {"bool", "void"}

primitive_t_size_bytes ==
    [p \in Primitives \ {"void"} |->
        CASE p \in {"bool", "u8", "i8"} -> 1
          [] p \in {"u16", "i16"} -> 2
          [] p \in {"u32", "i32", "f32"} -> 4
          [] OTHER -> 8]

TypeData(kind, name, ptr, flags) ==
    [kind |-> kind, name |-> name, ptr |-> ptr, flags |-> flags,
     lens |-> <<>>, params |-> <<>>, ret |-> <<>>]

ConstRvalue == {"const", "rvalue"}
get_const_bool    == TypeData("prim", "bool", 0, ConstRvalue)
get_const_int32   == TypeData("prim", "i32", 0, ConstRvalue)
get_const_uint64  == TypeData("prim", "u64", 0, ConstRvalue)
get_const_double  == TypeData("prim", "f64", 0, ConstRvalue)
get_const_char    == TypeData("prim", "i8", 0, ConstRvalue)
get_const_voidptr == TypeData("none", "void", 1, {})     \* kind is not set
get_const_string  == TypeData("none", "i8", 1, {})       \* kind is not set

With(t, flag)    == [t EXCEPT !.flags = @ \cup {flag}]
Without(t, flag) == [t EXCEPT !.flags = @ \ {flag}]
to_rvalue(t) == With(t, "rvalue")

-----------------------------------------------------------------------------
(* Predicates.  A primitive_t is held by the name of every type that is    *)
(* neither a structure nor a procedure.                                    *)

Named(t, names) == t.name \in names
Scalar(t) == t.ptr = 0 /\ t.lens = <<>>

is_primitive(t)          == Scalar(t) /\ Named(t, Primitives \ {"void"})
is_floating_point(t)     == Scalar(t) /\ Named(t, Floats)
is_signed_primitive(t)   == Scalar(t) /\ Named(t, Signed)
is_unsigned_primitive(t) == Scalar(t) /\ Named(t, Primitives \ Signed)
is_boolean(t)            == Scalar(t) /\ Named(t, {"bool"})
is_integer(t)            == Scalar(t) /\ Named(t, Integral \cup {"bool"})
is_f32(t)                == Scalar(t) /\ Named(t, {"f32"})
is_f64(t)                == Scalar(t) /\ Named(t, {"f64"})
is_aggregate(t) == t.lens # <<>> \/ (t.kind = "struct" /\ t.ptr = 0)
is_non_aggregate_pointer(t) == t.ptr > 0 /\ t.lens = <<>>

array_has_inferred_sizes(t) == \E i \in DOMAIN t.lens : t.lens[i] = 0
is_invalid_in_inferred_context(t) ==
    (t.kind = "proc" /\ t.ptr = 0) \/ "inferred" \in t.flags
is_returntype_lvalue_eligible(t) == t.kind = "struct" /\ Scalar(t)
is_cast_eligible(t) ==
    t.lens = <<>> /\ (t.kind \in {"proc", "struct"} => t.ptr > 0)
is_lop_eligible(t) == (t.ptr > 0 \/ t.kind = "prim") /\ t.lens = <<>>
is_bwop_eligible(t) == t.kind = "prim" /\ is_integer(t)

-----------------------------------------------------------------------------
(* Token classes (token.hpp) and the operators a type allows *)

PtrArith    == {"+", "+=", "-", "-=", "++", "--"}
ArithAssign == {"+=", "-=", "*=", "/=", "%=", "++", "--"}
Arithmetic  == ArithAssign \cup {"+", "-", "*", "/", "%"}
BwAssign    == {"&=", "|=", "^=", "<<=", ">>="}
Bitwise     == BwAssign \cup {"&", "|", "~", "^", "<<", ">>"}
Comparison  == {"==", "!=", "<", "<=", ">", ">="}
Logical     == Comparison \cup {"&&", "||", "!"}

is_arithmetic_eligible(t, op) ==
    /\ ~(t.kind = "proc" /\ t.ptr < 2) /\ t.lens = <<>>
    /\ ~(Named(t, {"void"}) /\ t.ptr < 2)
    /\ IF t.ptr > 0 THEN op \in PtrArith
       ELSE Named(t, Primitives) /\ (Named(t, Floats) => op \notin {"%", "%="})

Writable(t) == t.flags \cap ConstRvalue = {}

can_operator_be_applied_to(op, t) ==
    /\ t.lens = <<>>
    /\ CASE op = "="            -> Writable(t)
         [] op \in ArithAssign  -> is_arithmetic_eligible(t, op) /\ Writable(t)
         [] op \in Arithmetic   -> is_arithmetic_eligible(t, op)
         [] op \in BwAssign     -> is_bwop_eligible(t) /\ Writable(t)
         [] op \in Bitwise      -> is_bwop_eligible(t)
         [] op \in Logical      -> is_lop_eligible(t)

-----------------------------------------------------------------------------
(* Relations between two types *)

Shape(t) == <<t.kind, t.ptr, t.lens, t.name>>
SameShapes(s, u) ==
    Len(s) = Len(u) /\ \A i \in DOMAIN s : Shape(s[i]) = Shape(u[i])

identical(a, b) ==
    /\ Shape(a) = Shape(b)
    /\ a.kind = "proc" => SameShapes(a.params, b.params) /\ SameShapes(a.ret, b.ret)

is_cast_permissible(from, to) ==
    /\ is_cast_eligible(from) /\ is_cast_eligible(to)
    /\ \/ identical(from, to)
       \/ (from.ptr > 0) = (to.ptr > 0)
       \/ from.ptr > 0 /\ Named(to, {"u64"})
       \/ to.ptr > 0 /\ Named(from, {"u64"})

\* The type a literal takes from the operand it meets: the wider of the two,
\* made signed when either is.
type_promote_non_concrete(left, right) ==
    LET size == primitive_t_size_bytes
        wide == IF size[right.name] > size[left.name] THEN right ELSE left
        sign == [u8 |-> "i8", u16 |-> "i16", u32 |-> "i32", u64 |-> "i64"]
    IN IF {left.name, right.name} \cap Signed # {} /\ wide.name \in DOMAIN sign
       THEN [wide EXCEPT !.name = sign[@]] ELSE wide

Promotes(left) ==
    "nonconc" \in left.flags /\ left.ptr = 0 /\ ~Named(left, Floats)

CoercesPointer(left, right) ==
    /\ left.ptr > 0 /\ right.ptr > 0
    /\ (Named(left, {"void"}) /\ left.ptr = 1) \/ "nonconc" \in right.flags

CoercesValue(left, right) ==
    /\ left.ptr = 0 /\ right.ptr = 0
    /\ Named(left, Primitives) /\ Named(right, Primitives)
    /\ Named(right, Floats) => Named(left, Floats)
    /\ Promotes(left) \/ primitive_t_size_bytes[right.name]
                           <= primitive_t_size_bytes[left.name]

is_coercion_permissible(left, right) ==
    \/ identical(left, right)
    \/ /\ is_cast_eligible(left) /\ is_cast_eligible(right)
       /\ CoercesPointer(left, right) \/ CoercesValue(left, right)

\* What is_coercion_permissible leaves in its first argument.
Coerced(left, right) ==
    IF ~identical(left, right) /\ is_coercion_permissible(left, right)
         /\ Promotes(left)
    THEN type_promote_non_concrete(left, right) ELSE left

get_lowest_array_type(t) == [t EXCEPT !.lens = <<>>]

are_arrays_equivalent(a, b) ==
    /\ Len(a.lens) = Len(b.lens)
    /\ \A i \in DOMAIN a.lens : a.lens[i] \in {0, b.lens[i]}
    /\ is_coercion_permissible(get_lowest_array_type(a), get_lowest_array_type(b))

binexpr_ptr_arith_chk(left, right, op) ==
    /\ is_non_aggregate_pointer(left) /\ ~(Named(left, {"void"}) /\ left.ptr < 2)
    /\ Scalar(right) /\ Named(right, Integral)
    /\ op \in PtrArith

-----------------------------------------------------------------------------
(* Types made from types.  An optional result is a sequence of at most one. *)

SignFlip == [u8 |-> "i8", i8 |-> "u8", u16 |-> "i16", i16 |-> "u16",
             u32 |-> "i32", i32 |-> "u32", u64 |-> "i64", i64 |-> "u64"]

flip_sign(t) ==
    IF Named(t, {"bool", "void"}) THEN <<>>
    ELSE IF t.name \in DOMAIN SignFlip
         THEN << [t EXCEPT !.name = SignFlip[@]] >> ELSE <<t>>

get_contained(t) ==
    LET inner == IF t.lens # <<>>
                 THEN [t EXCEPT !.lens = SubSeq(@, 1, Len(@) - 1)]
                 ELSE [t EXCEPT !.ptr = @ - 1]
    IN IF \/ Scalar(t)
          \/ inner.ptr = 0 /\ (inner.kind = "proc" \/ Named(inner, {"void"}))
       THEN <<>> ELSE <<Without(inner, "rvalue")>>

get_pointer_to(t) ==
    IF t.lens # <<>> \/ "rvalue" \in t.flags THEN <<>>
    ELSE <<With([t EXCEPT !.ptr = @ + 1], "rvalue")>>

-----------------------------------------------------------------------------
(* LLVM types: a base type and the lengths of the arrays around it, the    *)
(* first outermost.                                                        *)

Bits == [i1 |-> 1, i8 |-> 8, i16 |-> 16, i32 |-> 32, i64 |-> 64,
         float |-> 32, double |-> 64]
IntTypes   == {"i1", "i8", "i16", "i32", "i64"}
FloatTypes == {"float", "double"}

generate_primitive_type ==
    [p \in Primitives |->
        CASE p \in {"u8", "i8"} -> "i8"     [] p \in {"u16", "i16"} -> "i16"
          [] p \in {"u32", "i32"} -> "i32"  [] p \in {"u64", "i64"} -> "i64"
          [] p = "f32" -> "float"           [] p = "f64" -> "double"
          [] p = "bool" -> "i1"             [] p = "void" -> "void"]

HasLLVMType(t) == t.kind # "none"           \* assert(gen_t != nullptr)

LL(base) == [base |-> base, dims |-> <<>>]

generate_type(t) ==
    [base |-> IF t.ptr > 0 THEN "ptr"
              ELSE IF t.kind = "prim" THEN generate_primitive_type[t.name]
              ELSE IF t.kind = "proc" THEN "fn" ELSE t.name,
     dims |-> t.lens]
=============================================================================
