--------------------------- MODULE GenericStructs ---------------------------
(***************************************************************************)
(* Generic structs, from their source to the verdict of the postparser     *)
(* (tak/src/parser/structdef.cpp and type.cpp, tak/src/postparser).        *)
(*                                                                         *)
(* The type arguments of a TypeData live in a vector behind a shared       *)
(* pointer.  A copy of a TypeData shares the vector, and the substitution  *)
(* of type parameters writes into it, so the vectors are objects here, and *)
(* a TypeData names the one it points to.  A type that is written in the   *)
(* source, or printed, holds the types themselves.                         *)
(***************************************************************************)
EXTENDS StructRecursion, SequencesExt

CONSTANTS
    Structs,       \* the structs of the source, in its order
    generic_type_names,  \* [struct -> Seq(type parameter)]
    MemberTypes,   \* [struct -> written types of its members]
    SymbolTypes,   \* the written types of variables
    NodeTypes,     \* the written types that a cast or a sizeof names
    MaxMembers,    \* bound: members of the structs of a program
    MaxUses,       \* bound: variables, casts and sizeofs of a program
    MaxNesting     \* bound: nested calls of try_create_permutation

VARIABLES
    source,   \* [struct -> Seq(written type)]: the definitions parsed so far
    uses,     \* the variables and nodes parsed so far, as they are written
    inspected \* how many of the additional nodes were inspected

vars == <<status, source, uses, tbl_, inspected>>

Null == 0

NewTable == [type_table |-> [n \in {} |-> {}], sym_table |-> <<>>,
             additional_generic_inspections_ |-> <<>>, vectors |-> <<>>,
             failed |-> FALSE, overflow |-> FALSE]

-----------------------------------------------------------------------------
(* The table of types.  The name of an instance is that of its struct with *)
(* the printed arguments.                                                  *)

UserType == [generics |-> <<>>, members |-> <<>>, placeholder |-> FALSE,
             norecheck |-> FALSE]

AddType(t, name, utype) ==
    [t EXCEPT !.type_table = [n \in DOMAIN @ \cup {name} |->
                                  IF n = name THEN utype ELSE @[n]]]
type_exists(t, name) == name \in DOMAIN t.type_table
create_type(t, name) == AddType(t, name, UserType)
create_placeholder_type(t, name) ==
    AddType(t, name, [UserType EXCEPT !.placeholder = TRUE])
delete_type(t, name) == Without(t, {name})

-----------------------------------------------------------------------------
(* Types.                                                                  *)

VectorOf(t, v) == IF v = Null THEN <<>> ELSE t.vectors[v]

RECURSIVE to_string(_, _)
\* to_string(false, false): the name that an instance gets.
PrintedName(t, type) ==
    IF type.kind # "struct" THEN type.name
    ELSE type.name \o [i \in DOMAIN VectorOf(t, type.params) |->
                           to_string(t, t.vectors[type.params][i])]
to_string(t, type) ==
    LET Printed(v) == [i \in DOMAIN VectorOf(t, v) |->
                           to_string(t, t.vectors[v][i])]
    IN [type EXCEPT !.name = PrintedName(t, type),
                    !.params = IF type.kind = "struct" THEN <<>>
                               ELSE Printed(type.params),
                    !.ret = Printed(type.ret)]

RECURSIVE parse_type(_, _)
\* The types of a list, each with the placeholder that its name needs, and the
\* vector they are put in.
ParseVector(written, t) ==
    LET all == FoldLeft(LAMBDA acc, w :
                            LET Add(p) == [t |-> p.t,
                                           types |-> Append(acc.types, p.type)]
                            IN Add(parse_type(w, acc.t)),
                        [t |-> t, types |-> <<>>], written)
    IN IF written = <<>> THEN [t |-> t, vector |-> Null]
       ELSE [t |-> [all.t EXCEPT !.vectors = Append(@, all.types)],
             vector |-> Len(all.t.vectors) + 1]
parse_type(w, t) ==
    LET named  == IF w.kind = "struct" /\ ~type_exists(t, w.name)
                  THEN create_placeholder_type(t, w.name) ELSE t
        params == ParseVector(w.params, named)
        ret    == ParseVector(w.ret, params.t)
    IN [t |-> ret.t,
        type |-> [w EXCEPT !.params = params.vector, !.ret = ret.vector]]

\* The size of an array member cannot be left to the compiler, and a procedure
\* is no member.
is_type_invalid_as_member(w) ==
    \/ 0 \in ToSet(w.array_lengths)
    \/ w.kind = "procedure" /\ w.depth = 0

-----------------------------------------------------------------------------
(* Instances.                                                              *)

\* Mutant: the array lengths of the argument are forgotten.
Substitute_no_lengths(old, arg) ==
    [kind          |-> arg.kind,
     name          |-> arg.name,
     depth         |-> IF arg.depth # 0 THEN arg.depth ELSE old.depth,
     array_lengths |-> old.array_lengths,
     params        |-> IF arg.params # Null THEN arg.params ELSE old.params,
     ret           |-> Null]
\* A type parameter, with its own postfixes, becomes the argument.  What a
\* procedure returns is not copied.
Substitute(old, arg) ==
    [kind          |-> arg.kind,
     name          |-> arg.name,
     depth         |-> IF arg.depth # 0 THEN arg.depth ELSE old.depth,
     array_lengths |-> IF arg.array_lengths # <<>> THEN arg.array_lengths
                       ELSE old.array_lengths,
     params        |-> IF arg.params # Null THEN arg.params ELSE old.params,
     ret           |-> Null]

CannotSubstitute(old, arg) ==
    \/ old.params # Null /\ arg.params # Null
    \/ old.depth # 0 /\ arg.depth # 0
    \/ old.array_lengths # <<>> /\ arg.array_lengths # <<>>

RECURSIVE try_permute_member(_, _, _, _), try_create_permutation(_, _, _, _)

\* The types of a vector are replaced where they are, whoever shares it.
PermuteVector(gen_map, v, t, n) ==
    FoldLeft(LAMBDA acc, i :
                 IF ~acc.ok \/ acc.t.vectors[v][i].kind = "primitive" THEN acc
                 ELSE LET Put(p) == [ok |-> p.ok,
                                     t  |-> IF ~p.ok THEN p.t
                                            ELSE [p.t EXCEPT !.vectors[v][i] = p.type]]
                      IN Put(try_permute_member(gen_map, acc.t.vectors[v][i],
                                                acc.t, n)),
             [ok |-> TRUE, t |-> t],
             [i \in DOMAIN VectorOf(t, v) |-> i])

try_permute_procptr_member(gen_map, new, t, n) ==
    LET Typed(p)       == [ok |-> p.ok, t |-> p.t, type |-> new]
        Return(params) == IF params.ok
                          THEN PermuteVector(gen_map, new.ret, params.t, n)
                          ELSE params
    IN Typed(Return(PermuteVector(gen_map, new.params, t, n)))

\* The instance with the name of this type: the one in the table, or a new one.
FindOrCreate(type, t, n) ==
    LET Perm(name) == IF type_exists(t, name) THEN [ok |-> TRUE, t |-> t]
                      ELSE try_create_permutation(name, type, t, n)
        Named(perm, name) == [ok |-> perm.ok, t |-> perm.t,
                              type |-> [type EXCEPT !.name = name, !.params = Null]]
        Of(name)          == Named(Perm(name), name)
    IN Of(PrintedName(t, type))

try_permute_struct_member(gen_map, new, t, n) ==
    LET used     == Len(VectorOf(t, new.params))
        recieves == Len(t.type_table[new.name].generics)
        Instance(params) == IF params.ok THEN FindOrCreate(new, params.t, n)
                            ELSE [ok |-> FALSE, t |-> params.t, type |-> new]
    IN CASE used # recieves -> [ok |-> FALSE, t |-> t, type |-> new]
         [] used = recieves /\ used = 0 -> [ok |-> TRUE, t |-> t, type |-> new]
         [] OTHER -> Instance(PermuteVector(gen_map, new.params, t, n))

try_permute_member(gen_map, old, t, n) ==
    LET mapped == old.kind = "struct" /\ old.name \in DOMAIN gen_map
        arg    == t.vectors[gen_map[old.name].vector][gen_map[old.name].index]
        Permute(new) ==
            CASE new.kind = "primitive" ->
                     [ok |-> new.params = Null, t |-> t, type |-> new]
              [] new.kind = "procedure" ->
                     try_permute_procptr_member(gen_map, new, t, n)
              [] new.kind = "struct" ->
                     try_permute_struct_member(gen_map, new, t, n)
    IN IF mapped /\ CannotSubstitute(old, arg)
       THEN [ok |-> FALSE, t |-> [t EXCEPT !.failed = TRUE], type |-> old]
       ELSE Permute(IF mapped THEN Substitute(old, arg) ELSE old)

\* Mutant: the instance is put in the table when its members are known.
try_create_permutation_late(name, to_conv, t, n) ==
    LET old_t   == t.type_table[to_conv.name]
        gen_map == [p \in {<<g>> : g \in ToSet(old_t.generics)} |->
                       [vector |-> to_conv.params, index |-> 1]]
        all     == FoldLeft(LAMBDA acc, member :
                                LET p == try_permute_member(gen_map, member,
                                                            acc.t, n - 1)
                                IN IF ~acc.ok THEN acc
                                   ELSE [ok |-> p.ok, t |-> p.t,
                                         members |-> IF p.ok THEN Append(acc.members, p.type)
                                                     ELSE acc.members],
                            [ok |-> TRUE, t |-> t, members |-> <<>>],
                            old_t.members)
    IN IF n = 0 THEN [ok |-> FALSE, t |-> [t EXCEPT !.overflow = TRUE]]
       ELSE [ok |-> all.ok,
             t |-> AddType(all.t, name, [UserType EXCEPT !.members = all.members])]
\* The instance is in the table before its members are, so that they can name
\* it.
try_create_permutation(name, to_conv, t, n) ==
    LET old_t   == t.type_table[to_conv.name]
        gen_map == [p \in {<<g>> : g \in ToSet(old_t.generics)} |->
                       [vector |-> to_conv.params,
                        index |-> CHOOSE i \in DOMAIN old_t.generics :
                                      <<old_t.generics[i]>> = p]]
        Add(p)  == [ok |-> p.ok,
                    t  |-> IF ~p.ok THEN p.t
                           ELSE [p.t EXCEPT !.type_table[name].members =
                                                Append(@, p.type)]]
    IN IF n = 0 THEN [ok |-> FALSE, t |-> [t EXCEPT !.overflow = TRUE]]
       ELSE FoldLeft(LAMBDA acc, member :
                         IF ~acc.ok THEN acc
                         ELSE Add(try_permute_member(gen_map, member, acc.t, n - 1)),
                     [ok |-> TRUE, t |-> create_type(t, name)],
                     old_t.members)

-----------------------------------------------------------------------------
(* The inspection of the types that a program uses.                        *)

inspect_struct_t(type, t) ==
    LET receives == Len(t.type_table[type.name].generics)
        used     == Len(VectorOf(t, type.params))
        Checked(found) == [type |-> IF found.ok THEN found.type
                                    ELSE [type EXCEPT !.params = Null],
                           t |-> [found.t EXCEPT !.failed = @ \/ ~found.ok]]
    IN CASE receives # used -> [type |-> [type EXCEPT !.params = Null],
                                t |-> [t EXCEPT !.failed = TRUE]]
         [] receives = used /\ used = 0 -> [type |-> type, t |-> t]
         [] OTHER -> Checked(FindOrCreate(type, t, MaxNesting))

RECURSIVE inspect_proc_t(_, _)
InspectVector(v, t) ==
    FoldLeft(LAMBDA acc, i :
                 LET type   == acc.vectors[v][i]
                     Put(s) == [s.t EXCEPT !.vectors[v][i] = s.type]
                 IN CASE type.kind = "struct" -> Put(inspect_struct_t(type, acc))
                      [] type.kind = "procedure" -> inspect_proc_t(type, acc)
                      [] OTHER -> acc,
             t, [i \in DOMAIN VectorOf(t, v) |-> i])
\* Mutant: the return type is not inspected.
inspect_proc_t_params(type, t) == InspectVector(type.params, t)
inspect_proc_t(type, t) == InspectVector(type.ret, InspectVector(type.params, t))

InspectType(type, t) ==
    CASE type.kind = "struct"    -> inspect_struct_t(type, t)
      [] type.kind = "procedure" -> [type |-> type, t |-> inspect_proc_t(type, t)]
      [] OTHER                   -> [type |-> type, t |-> t]

-----------------------------------------------------------------------------
Init ==
    /\ status = "parsing"
    /\ source = <<>>
    /\ uses = <<>>
    /\ tbl_ = NewTable
    /\ inspected = 0

Reject(error) ==
    /\ status' = error
    /\ UNCHANGED <<source, uses, tbl_, inspected>>

NextStruct == Structs[Len(source) + 1]

(***************************************************************************)
(* parse_structdef: the type, or its placeholder, gets the type parameters *)
(* and the members.  The parameters are placeholders meanwhile.  The       *)
(* structs of a program come before its uses, in the order of Structs: the *)
(* postparser does not see that order.                                     *)
(***************************************************************************)
WithMembers(t, name, written) ==
    LET generics == generic_type_names[name]
        params   == FoldLeft(LAMBDA acc, g : create_placeholder_type(acc, <<g>>),
                             AddType(t, <<name>>,
                                     [UserType EXCEPT !.generics = generics]),
                             generics)
        members  == FoldLeft(LAMBDA acc, w :
                                 LET p == parse_type(w, acc)
                                 IN [p.t EXCEPT !.type_table[<<name>>].members =
                                                    Append(@, p.type)],
                             params, written)
    IN FoldLeft(LAMBDA acc, g : delete_type(acc, <<g>>), members, generics)

parse_structdef ==
    /\ status = "parsing"
    /\ uses = <<>>
    /\ Len(source) < Len(Structs)
    /\ \E written \in BoundedSeq(MemberTypes[NextStruct],
                                 MaxMembers - Len(FlattenSeq(source))) :
           IF \E w \in ToSet(written) : is_type_invalid_as_member(w)
           THEN Reject("invalid")
           ELSE /\ source' = Append(source, written)
                /\ tbl_' = WithMembers(tbl_, NextStruct, written)
                /\ UNCHANGED <<status, uses, inspected>>

\* A variable, whose symbol gets the type.
parse_decl ==
    /\ status = "parsing"
    /\ Len(uses) < MaxUses
    /\ \E w \in SymbolTypes :
           LET p == parse_type(w, tbl_)
           IN /\ tbl_' = [p.t EXCEPT !.sym_table =
                              Append(@, [type |-> p.type, norecheck |-> FALSE])]
              /\ uses' = Append(uses, [type |-> w, of |-> "symbol"])
    /\ UNCHANGED <<status, source, inspected>>

\* A cast, or the sizeof of a type: the node is kept for the inspection.
parse_node ==
    /\ status = "parsing"
    /\ Len(uses) < MaxUses
    /\ \E w \in NodeTypes :
           LET p == parse_type(w, tbl_)
           IN /\ tbl_' = [p.t EXCEPT !.additional_generic_inspections_ =
                              Append(@, p.type)]
              /\ uses' = Append(uses, [type |-> w, of |-> "node"])
    /\ UNCHANGED <<status, source, inspected>>

check_leftover_placeholders ==
    /\ status = "parsing"
    /\ status' = IF \E n \in DOMAIN tbl_.type_table : tbl_.type_table[n].placeholder
                 THEN "unresolved" ELSE "verifying"
    /\ UNCHANGED <<source, uses, tbl_, inspected>>

-----------------------------------------------------------------------------
(* permute_generic_structures: the symbols, in the order of a hash table,  *)
(* then the types that take no type parameters, those included that were   *)
(* made meanwhile, then the nodes.                                         *)

UncheckedSymbols ==
    {i \in DOMAIN tbl_.sym_table : /\ ~tbl_.sym_table[i].norecheck
                                   /\ tbl_.sym_table[i].type.kind # "primitive"}
UncheckedTypes ==
    {n \in DOMAIN tbl_.type_table : /\ ~tbl_.type_table[n].norecheck
                                    /\ tbl_.type_table[n].generics = <<>>}

InspectSymbol ==
    /\ status = "verifying"
    /\ \E i \in UncheckedSymbols :
           LET Put(r) == [r.t EXCEPT !.sym_table[i] =
                                         [type |-> r.type, norecheck |-> TRUE]]
           IN tbl_' = Put(InspectType(tbl_.sym_table[i].type, tbl_))
    /\ UNCHANGED <<status, source, uses, inspected>>

InspectMembers(name, t) ==
    FoldLeft(LAMBDA acc, i :
                 LET Put(r) == [r.t EXCEPT !.type_table[name].members[i] = r.type]
                 IN Put(InspectType(acc.type_table[name].members[i], acc)),
             [t EXCEPT !.type_table[name].norecheck = TRUE],
             [i \in DOMAIN t.type_table[name].members |-> i])

InspectUserType ==
    /\ status = "verifying"
    /\ UncheckedSymbols = {}
    /\ \E name \in UncheckedTypes : tbl_' = InspectMembers(name, tbl_)
    /\ UNCHANGED <<status, source, uses, inspected>>

InspectNode ==
    /\ status = "verifying"
    /\ UncheckedSymbols = {}
    /\ UncheckedTypes = {}
    /\ inspected < Len(tbl_.additional_generic_inspections_)
    /\ LET i == inspected + 1
           Put(r) == [r.t EXCEPT !.additional_generic_inspections_[i] = r.type]
       IN tbl_' = Put(InspectType(tbl_.additional_generic_inspections_[i], tbl_))
    /\ inspected' = inspected + 1
    /\ UNCHANGED <<status, source, uses>>

\* The errors of the inspection are reported at its end.
Verdict ==
    /\ status = "verifying"
    /\ UncheckedSymbols = {}
    /\ UncheckedTypes = {}
    /\ inspected = Len(tbl_.additional_generic_inspections_)
    /\ Judge
    /\ UNCHANGED <<source, uses, inspected>>

\* The process has ended, or the stack is exhausted.
Terminated == status \in Final \cup {"overflow"} /\ UNCHANGED vars

Next ==
    \/ parse_structdef
    \/ parse_decl
    \/ parse_node
    \/ check_leftover_placeholders
    \/ InspectSymbol
    \/ InspectUserType
    \/ InspectNode
    \/ Verdict
    \/ Terminated

\* The postparser does not stop between two calls: this is weak fairness of its
\* steps, which are the only ones of a state that is "verifying", one of them
\* being possible in each (there is no deadlock).
Fairness == <>[](status = "verifying") => []<><<status = "verifying">>_vars

Spec == Init /\ [][Next]_vars /\ Fairness

-----------------------------------------------------------------------------
(* Properties.                                                             *)

RECURSIVE Meaning(_, _)
\* The type that is written, with arguments for the type parameters, as
\* to_string prints it.
Meaning(w, args) ==
    LET Each(ws) == [i \in DOMAIN ws |-> Meaning(ws[i], args)]
    IN IF w.kind = "struct" /\ w.name \in DOMAIN args
       THEN [args[w.name] EXCEPT
               !.depth = IF @ = 0 THEN w.depth ELSE @,
               !.array_lengths = IF @ = <<>> THEN w.array_lengths ELSE @]
       ELSE IF w.kind = "struct"
       THEN [w EXCEPT !.name = @ \o Each(w.params), !.params = <<>>]
       ELSE [w EXCEPT !.params = Each(@), !.ret = Each(@)]

StructOf(name) == CHOOSE i \in DOMAIN source : <<Structs[i]>> = <<Head(name)>>
ArgumentsOf(name) ==
    LET generics == generic_type_names[Head(name)]
    IN [p \in {<<g>> : g \in ToSet(generics)} |->
            name[1 + CHOOSE i \in DOMAIN generics : <<generics[i]>> = p]]
Instances(struct) == {n \in DOMAIN tbl_.type_table : Head(n) = struct /\ Len(n) > 1}

\* A vector that the members of several instances share has the types of the
\* first, and a procedure put in for a type parameter loses what it returns.
LosesItsMeaning(name, w) ==
    \/ w.params \o w.ret # <<>> /\ Cardinality(Instances(Head(name))) > 1
    \/ /\ w.kind # "primitive"
       /\ \E p \in DOMAIN ArgumentsOf(name) : ArgumentsOf(name)[p].ret # <<>>

\* Every type of a program without errors is the one that was written, with
\* the arguments of the instance put in for the type parameters: of variables,
\* of casts, and of the members of structs and instances, in whatever order
\* the hash tables gave them to the inspection; except for the members whose
\* vector of types is shared by several instances.
TypesMeanTheirSource ==
    Judged =>
        /\ LET Written(of) == SelectSeq(uses, LAMBDA u : u.of = of)
           IN /\ \A i \in DOMAIN tbl_.sym_table :
                     to_string(tbl_, tbl_.sym_table[i].type)
                         = Meaning(Written("symbol")[i].type, <<>>)
              /\ \A i \in DOMAIN tbl_.additional_generic_inspections_ :
                     to_string(tbl_, tbl_.additional_generic_inspections_[i])
                         = Meaning(Written("node")[i].type, <<>>)
        /\ \A name \in DOMAIN tbl_.type_table :
               LET written == source[StructOf(name)]
                   members == tbl_.type_table[name].members
               IN /\ Len(members) = Len(written)
                  /\ \A i \in DOMAIN written :
                         \/ LosesItsMeaning(name, written[i])
                         \/ to_string(tbl_, members[i])
                               = Meaning(written[i], ArgumentsOf(name))

RECURSIVE Resolves(_)
Resolves(type) ==
    /\ type.kind = "struct" => /\ type_exists(tbl_, type.name)
                               /\ type.params = Null
    /\ \A v \in {type.params, type.ret} :
           \A x \in ToSet(VectorOf(tbl_, v)) : Resolves(x)

\* In a program without errors every variable, cast and member has a type that
\* is in the table, not a generic struct, a type parameter or one that still
\* has arguments to be put in: lookup_type asserts it in every later phase.
AcceptedTypesResolve ==
    /\ StructsAreKnown
    /\ Judged =>
        /\ \A s \in ToSet(tbl_.sym_table) : Resolves(s.type)
        /\ \A type \in ToSet(tbl_.additional_generic_inspections_) : Resolves(type)
        /\ \A n \in DOMAIN tbl_.type_table :
               \A m \in ToSet(tbl_.type_table[n].members) : Resolves(m)

\* The inspection comes to an end, with a verdict and with a bounded nesting of
\* calls, also when a generic struct names an instance of itself whose argument
\* is another instance of itself.
InspectionEnds == status = "verifying" ~> status \in Final
=============================================================================
