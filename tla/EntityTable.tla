----------------------------- MODULE EntityTable -----------------------------
(***************************************************************************)
(* EntityTable (entity_table.hpp, src/entity_table/): the stacks of open   *)
(* namespaces and scopes, the table of symbols, the user types and the     *)
(* type aliases.  Each operation is an operator from a table to the table  *)
(* it leaves behind, so that a handler that makes several calls composes   *)
(* them.                                                                   *)
(*                                                                         *)
(* A name is the sequence of its components.  One that begins with the     *)
(* separator, here the component Root, is absolute; every key of the       *)
(* symbol and the user type tables is.  The key of an instance of a        *)
(* generic procedure is the name of the procedure followed by the printed  *)
(* type arguments: the pair <<name, args>>, with no args for any other     *)
(* symbol.  A symbol's index is its place in sym_table_, and a scope is    *)
(* the set of the indices it maps names to.                                *)
(***************************************************************************)
EXTENDS Integers, Sequences, FiniteSets, FiniteSetsExt

CONSTANT PointerBits      \* width of TypeData::pointer_depth

ASSUME PointerAssumption == PointerBits \in Nat \ {0}

Root == "\\"
NoSymbol == 0
NoArgs == <<>>

EmptyTable == [namespace_stack |-> <<>>,
               scope_stack     |-> << {} >>,
               sym_table       |-> <<>>,
               type_table      |-> [n \in {} |-> {}],
               type_aliases    |-> [n \in {} |-> {}]]

-----------------------------------------------------------------------------
(* Scopes and symbols *)

push_scope(t) == [t EXCEPT !.scope_stack = Append(@, {})]
pop_scope(t)  == [t EXCEPT !.scope_stack = SubSeq(@, 1, Len(@) - 1)]

Keyed(t, i, name, args) ==
    t.sym_table[i].name = name /\ t.sym_table[i].args = args

ScopesWith(t, name, args) ==
    {k \in DOMAIN t.scope_stack :
        \E i \in t.scope_stack[k] : Keyed(t, i, name, args)}

scoped_symbol_exists(t, name, args) == ScopesWith(t, name, args) # {}

scoped_symbol_exists_at_current_scope(t, name) ==
    Len(t.scope_stack) \in ScopesWith(t, name, NoArgs)

lookup_scoped_symbol(t, name, args) ==
    IF scoped_symbol_exists(t, name, args)
    THEN CHOOSE i \in t.scope_stack[Max(ScopesWith(t, name, args))] :
             Keyed(t, i, name, args)
    ELSE NoSymbol

namespace_as_string(t) == <<Root>> \o t.namespace_stack

NewIndex(t) == Len(t.sym_table) + 1

\* What a new Symbol holds before its creator sets anything.
BlankSymbol(t, name, pos) ==
    [name |-> name, args |-> NoArgs, namespace |-> namespace_as_string(t),
     pos |-> pos, kind |-> "none", placeholder |-> FALSE, global |-> FALSE,
     genbase |-> FALSE, genperm |-> FALSE, internal |-> FALSE,
     generic_type_names |-> <<>>, text |-> <<>>,
     sym_ref |-> NoSymbol]

AddSymbol(t, sym, scope) ==
    [t EXCEPT !.sym_table = Append(@, sym),
              !.scope_stack[scope] = @ \cup {NewIndex(t)}]

create_placeholder_symbol(t, name, pos) ==
    AddSymbol(t, [BlankSymbol(t, name, pos) EXCEPT !.placeholder = TRUE], 1)

create_symbol(t, name, pos, kind) ==
    AddSymbol(t, [BlankSymbol(t, name, pos) EXCEPT !.kind = kind],
              Len(t.scope_stack))

\* Mutant: a new instance for every use.
create_generic_proc_permutation_always(t, original, args) ==
    LET base == t.sym_table[original] IN
    AddSymbol(t, [BlankSymbol(t, base.name, base.pos) EXCEPT
                     !.args = args, !.namespace = base.namespace,
                     !.kind = "proc", !.genperm = TRUE,
                     !.sym_ref = original], 1)
\* An instance that some scope in sight already has under this key is taken
\* for it; a new one goes to the global scope.
create_generic_proc_permutation(t, original, args) ==
    LET base == t.sym_table[original] IN
    IF scoped_symbol_exists(t, base.name, args)
    THEN t
    ELSE AddSymbol(t, [BlankSymbol(t, base.name, base.pos) EXCEPT
                          !.args = args, !.namespace = base.namespace,
                          !.kind = "proc", !.genperm = TRUE,
                          !.sym_ref = original], 1)

-----------------------------------------------------------------------------
(* Namespaces and names *)

namespace_exists(t, n) == \E i \in DOMAIN t.namespace_stack : t.namespace_stack[i] = n

leave_namespaces(t, n) ==
    [t EXCEPT !.namespace_stack = SubSeq(@, 1, Len(@) - n)]

\* The open namespaces a relative name is looked for in, outermost first, end
\* before the one that the name itself begins with.
SearchDepth(t, name) ==
    Min({i - 1 : i \in {j \in DOMAIN t.namespace_stack :
                            t.namespace_stack[j] = Head(name)}}
            \cup {Len(t.namespace_stack)})

Candidate(t, name, depth) ==
    <<Root>> \o SubSeq(t.namespace_stack, 1, depth) \o name

\* The innermost candidate that exists, otherwise the innermost one.
get_canonical_name(t, name, existing) ==
    IF Head(name) = Root
    THEN name
    ELSE LET depths == 0..SearchDepth(t, name)
             found  == {d \in depths : Candidate(t, name, d) \in existing}
         IN  Candidate(t, name, IF found = {} THEN Max(depths) ELSE Max(found))

SymbolNames(t) ==
    {t.sym_table[i].name :
        i \in {j \in UNION {t.scope_stack[k] : k \in DOMAIN t.scope_stack} :
                   t.sym_table[j].args = NoArgs}}

get_canonical_sym_name(t, name) ==
    IF scoped_symbol_exists(t, name, NoArgs)
    THEN name
    ELSE get_canonical_name(t, name, SymbolNames(t))

-----------------------------------------------------------------------------
(* User types and type aliases *)

type_exists(t, name) == name \in DOMAIN t.type_table
type_alias_exists(t, name) == name \in DOMAIN t.type_aliases

Bind(f, key, value) ==
    [k \in DOMAIN f \cup {key} |-> IF k = key THEN value ELSE f[k]]

create_type(t, name) == [t EXCEPT !.type_table = Bind(@, name, "struct")]
create_placeholder_type(t, name) ==
    [t EXCEPT !.type_table = Bind(@, name, "placeholder")]
create_type_alias(t, name, type) ==
    [t EXCEPT !.type_aliases = Bind(@, name, type)]
delete_type_aliases(t, names) ==
    [t EXCEPT !.type_aliases = [k \in DOMAIN @ \ names |-> @[k]]]

get_canonical_type_name(t, name) ==
    IF type_exists(t, name) \/ type_alias_exists(t, name)
    THEN name
    ELSE get_canonical_name(t, name,
                            DOMAIN t.type_table \cup DOMAIN t.type_aliases)

\* parse_type: a type name with ptr pointer signs behind it.  An unknown name
\* makes a placeholder type.  pointer_depth is counted up from the alias's.
I32 == <<"i32">>
TypeCanonical(t, e) ==
    IF e.name = I32 THEN I32 ELSE get_canonical_type_name(t, e.name)
TypeTable(t, e) ==
    LET c == TypeCanonical(t, e) IN
    IF c = I32 \/ type_alias_exists(t, c) \/ type_exists(t, c)
    THEN t
    ELSE create_placeholder_type(t, c)
\* Mutant: the pointer signs of the alias are lost.
TypeValue_depth_assigned(t, e) ==
    LET c == TypeCanonical(t, e)
        of == IF type_alias_exists(t, c) THEN t.type_aliases[c]
              ELSE [name |-> c, ptr |-> 0]
    IN  [of EXCEPT !.ptr = e.ptr % 2^PointerBits]
TypeValue(t, e) ==
    LET c == TypeCanonical(t, e)
        of == IF type_alias_exists(t, c) THEN t.type_aliases[c]
              ELSE [name |-> c, ptr |-> 0]
    IN  [of EXCEPT !.ptr = (@ + e.ptr) % 2^PointerBits]
=============================================================================
