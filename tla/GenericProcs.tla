---------------------------- MODULE GenericProcs ----------------------------
(***************************************************************************)
(* From source to the set of procedure bodies that reach the back end:     *)
(* declarations and uses of names in nested namespaces, in any order       *)
(* (src/parser/), the worklist that parses the body of a generic procedure *)
(* again for every list of type arguments it is used with                  *)
(* (generic_procedures.cpp), and the checker's verdict on every use.       *)
(*                                                                         *)
(* The source is the environment: any sequence of the top-level constructs *)
(* below.  The text of a procedure is the sequence of the uses of names    *)
(* and declarations of locals in it; the parameters are its first locals.  *)
(***************************************************************************)
EXTENDS EntityTable, SequencesExt

CONSTANTS
    Ids,             \* identifiers of procedures and variables
    NamespacePaths,  \* the A\B of a namespace declaration, as sequences
    Texts,           \* texts a procedure may have
    GenericParams,   \* lists of type parameter names
    Structs,         \* identifiers of struct types
    Enums,           \* pairs <<name, member>>
    Interns,         \* whether generic procedures have an intern directive
    WarnIsErr,       \* CONFIG_WARN_IS_ERR
    MaxItems         \* bound on the top-level constructs of a source

\* Strings; the two that the model itself puts into names are named for the
\* provers.
Words     == STRING \cup {Root, "i32"}
Names     == Seq(Words) \ {<<>>}
TypeExprs == [name : Names, ptr : Nat]
TextItems == [op : {"use"}, name : Names, args : Seq(TypeExprs)]
                 \cup [op : {"local"}, id : Words, type : TypeExprs]

ASSUME SourceBounds ==
    /\ MaxItems \in Nat
    /\ WarnIsErr \in BOOLEAN
    /\ Interns \subseteq BOOLEAN
    /\ Ids \cup Structs \subseteq Words
    /\ Enums \subseteq Words \X Words
    /\ NamespacePaths \cup GenericParams \subseteq Names
    /\ Texts \subseteq Seq(TextItems)

VARIABLES
    status,          \* parsing, permuting, or the outcome
    error,           \* what ended the compilation, if anything did
    tbl_,            \* Parser::tbl_
    open,            \* the namespace declarations being parsed
    proc,            \* the procedure whose text is being parsed
    rest,            \* what is left of that text
    uses,            \* the identifiers in it so far
    toplevel_decls,  \* the procedures of Parser::toplevel_decls_
    errs_failed,     \* errs of postparse_permute_generic_procedures
    items            \* number of top-level constructs before this one

vars == <<status, error, tbl_, open, proc, rest, uses, toplevel_decls,
          errs_failed, items>>

Final == {"accepted", "rejected", "aborted"}

Init ==
    /\ status = "parsing"
    /\ error = "none"
    /\ tbl_ = EmptyTable
    /\ open = <<>>
    /\ proc = NoSymbol
    /\ rest = <<>>
    /\ uses = <<>>
    /\ toplevel_decls = <<>>
    /\ errs_failed = FALSE
    /\ items = 0

Sym(i) == tbl_.sym_table[i]
GlobalScope == tbl_.scope_stack[1]

-----------------------------------------------------------------------------
(* Outcomes of a handler *)

Stop(outcome, why) ==
    /\ status' = outcome
    /\ error' = why
    /\ UNCHANGED <<tbl_, open, proc, rest, uses, toplevel_decls, errs_failed,
                   items>>

\* nullptr up to do_parse, or false up to postparse_verify.
Reject(why) == Stop("rejected", why)
Abort(why)  == Stop("aborted", why)

Construct ==
    /\ status = "parsing"
    /\ proc = NoSymbol
    /\ items < MaxItems

Parsed(t) ==
    /\ tbl_' = t
    /\ items' = items + 1
    /\ UNCHANGED <<status, error, errs_failed>>

-----------------------------------------------------------------------------
(* Namespaces *)

(***************************************************************************)
(* parse_namespace up to its body.  Each component is entered in turn and  *)
(* must not be open already, an earlier one of the same path included.     *)
(***************************************************************************)
EnterNamespace(path) ==
    /\ Construct
    /\ IF \E i \in DOMAIN path :
              \/ namespace_exists(tbl_, path[i])
              \/ \E j \in 1..(i - 1) : path[j] = path[i]
       THEN Reject("nested namespace")
       ELSE /\ open' = Append(open, path)
            /\ Parsed([tbl_ EXCEPT !.namespace_stack = @ \o path])
            /\ UNCHANGED <<proc, rest, uses, toplevel_decls>>

\* The end of parse_namespace leaves as many as the declaration has names.
LeaveNamespace ==
    /\ status = "parsing"
    /\ proc = NoSymbol
    /\ open # <<>>
    /\ tbl_' = leave_namespaces(tbl_, Len(open[Len(open)]))
    /\ open' = SubSeq(open, 1, Len(open) - 1)
    /\ UNCHANGED <<status, error, proc, rest, uses, toplevel_decls,
                   errs_failed, items>>

-----------------------------------------------------------------------------
(* Declarations *)

\* Mutant: the name is relative to the root.
FullName_relative(id) == Append(tbl_.namespace_stack, id)
FullName(id) == Append(namespace_as_string(tbl_), id)

(***************************************************************************)
(* parse_decl up to the type.  A placeholder of this name in the current   *)
(* scope becomes the symbol that is declared: it keeps its index, its      *)
(* instances and the namespace it was first mentioned in.  The check that  *)
(* the name is not that of an open namespace looks at the token behind the *)
(* identifier, a colon, and never fails.                                   *)
(***************************************************************************)
Redeclared(id) ==
    /\ scoped_symbol_exists_at_current_scope(tbl_, FullName(id))
    /\ ~Sym(lookup_scoped_symbol(tbl_, FullName(id), NoArgs)).placeholder

WithSymbol(name, kind) ==
    IF scoped_symbol_exists_at_current_scope(tbl_, name)
    THEN tbl_
    ELSE create_symbol(tbl_, name, items, kind)
AsDeclared(t, i, kind) ==
    [t EXCEPT !.sym_table[i].placeholder = FALSE,
              !.sym_table[i].kind = kind,
              !.sym_table[i].pos = items,
              !.sym_table[i].global = Len(tbl_.scope_stack) <= 1]
parse_decl(id, kind) ==
    LET t == WithSymbol(FullName(id), kind)
        i == lookup_scoped_symbol(t, FullName(id), NoArgs)
    IN  [tbl |-> AsDeclared(t, i, kind), index |-> i]

\* A global variable of a primitive type.
DeclareGlobal(id) ==
    /\ Construct
    /\ IF Redeclared(id)
       THEN Reject("redeclaration")
       ELSE /\ Parsed(parse_decl(id, "var").tbl)
            /\ UNCHANGED <<open, proc, rest, uses, toplevel_decls>>

\* parse_procdecl up to the body of a procedure without type parameters.
BeginProc(id, text) ==
    /\ Construct
    /\ IF Redeclared(id)
       THEN Reject("redeclaration")
       ELSE LET d == parse_decl(id, "proc") IN
            /\ Parsed(push_scope(d.tbl))
            /\ proc' = d.index
            /\ rest' = text
            /\ UNCHANGED <<open, uses, toplevel_decls>>

(***************************************************************************)
(* A procedure with type parameters, maybe behind an intern directive.     *)
(* Its text is skipped: what stays of it is where it begins.  The node is  *)
(* a declaration without a body.                                           *)
(***************************************************************************)
DeclareGenericProc(id, params, text, intern) ==
    /\ Construct
    /\ IF Redeclared(id)
       THEN Reject("redeclaration")
       ELSE IF intern /\ WarnIsErr
       THEN Reject("redundant intern")
       ELSE LET d == parse_decl(id, "proc")
                i == d.index
            IN  /\ Parsed([d.tbl EXCEPT
                              !.sym_table[i].genbase = TRUE,
                              !.sym_table[i].generic_type_names = params,
                              !.sym_table[i].text = text,
                              !.sym_table[i].internal = intern,
                              !.sym_table[i].pos = IF intern THEN items + 1
                                                             ELSE items])
                /\ toplevel_decls' =
                       Append(toplevel_decls, [sym |-> i, uses |-> <<>>])
                /\ UNCHANGED <<open, proc, rest, uses>>

\* parse_structdef: a placeholder type of this name becomes the struct.
DeclareStruct(id) ==
    /\ Construct
    /\ IF \/ /\ type_exists(tbl_, FullName(id))
             /\ tbl_.type_table[FullName(id)] # "placeholder"
          \/ type_alias_exists(tbl_, FullName(id))
       THEN Reject("type exists")
       ELSE /\ Parsed(create_type(tbl_, FullName(id)))
            /\ UNCHANGED <<open, proc, rest, uses, toplevel_decls>>

(***************************************************************************)
(* parse_enumdef for an enum with one member.  The enum is a namespace for *)
(* its members and an alias for its type.  A name that only a placeholder  *)
(* has counts as taken, for the enum and for the member.                   *)
(***************************************************************************)
EnumNameTaken(id) ==
    \/ namespace_exists(tbl_, id)
    \/ type_alias_exists(tbl_, FullName(id))
    \/ type_exists(tbl_, FullName(id))

DeclareEnum(id, member) ==
    LET full   == Append(FullName(id), member)
        inside == [create_type_alias(tbl_, FullName(id),
                                     [name |-> I32, ptr |-> 0])
                       EXCEPT !.namespace_stack = Append(@, id)]
        done   == [create_symbol(inside, full, items, "var")
                       EXCEPT !.sym_table[NewIndex(inside)].global = TRUE]
    IN  /\ Construct
        /\ IF EnumNameTaken(id)
           THEN Reject("enum name")
           ELSE IF scoped_symbol_exists_at_current_scope(inside, full)
           THEN Reject("enum member")
           ELSE IF namespace_exists(inside, member)
           THEN Reject("member is a namespace")
           ELSE /\ Parsed(leave_namespaces(done, 1))
                /\ UNCHANGED <<open, proc, rest, uses, toplevel_decls>>

-----------------------------------------------------------------------------
(* The text of a procedure: parse_proc_signature_and_body *)

InText ==
    /\ status \in {"parsing", "permuting"}
    /\ proc # NoSymbol

\* parse_type for each type argument in turn: the table after k of them.
TablesAfter(t, args) ==
    LET after[k \in 0..Len(args)] ==
            IF k = 0 THEN t ELSE TypeTable(after[k - 1], args[k])
    IN after
parse_types(t, args) ==
    LET after == TablesAfter(t, args)
    IN  [tbl   |-> [t EXCEPT !.type_table = after[Len(args)].type_table],
         types |-> [j \in 1..Len(args) |-> TypeValue(after[j - 1], args[j])]]

(***************************************************************************)
(* parse_identifier: a name nothing in sight has becomes a placeholder,    *)
(* and type arguments behind the name make it an instance.                 *)
(***************************************************************************)
parse_identifier(name, args) ==
    LET canonical == get_canonical_sym_name(tbl_, name)
        named == IF scoped_symbol_exists(tbl_, canonical, NoArgs)
                 THEN tbl_
                 ELSE create_placeholder_symbol(tbl_, canonical, items)
        sym   == lookup_scoped_symbol(named, canonical, NoArgs)
        typed == parse_types(named, args)
        t     == IF args = NoArgs
                 THEN named
                 ELSE create_generic_proc_permutation(typed.tbl, sym,
                                                      typed.types)
        to    == lookup_scoped_symbol(t, t.sym_table[sym].name, typed.types)
    IN  [tbl |-> t,
         use |-> [to |-> to, name |-> name, args |-> typed.types,
                  namespaces |-> tbl_.namespace_stack]]

Identifier ==
    /\ InText
    /\ rest # <<>>
    /\ Head(rest).op = "use"
    /\ LET p == parse_identifier(Head(rest).name, Head(rest).args) IN
       /\ tbl_' = p.tbl
       /\ uses' = Append(uses, p.use)
    /\ rest' = Tail(rest)
    /\ UNCHANGED <<status, error, open, proc, toplevel_decls, errs_failed,
                   items>>

\* parse_decl in the scope of the procedure, and parse_parameterized_vardecl
\* for a parameter, whose name is never that of an open namespace here.
LocalVariable ==
    /\ InText
    /\ rest # <<>>
    /\ Head(rest).op = "local"
    /\ LET id == Head(rest).id IN
       IF Redeclared(id)
       THEN Reject("redeclaration")
       ELSE /\ tbl_' = TypeTable(parse_decl(id, "var").tbl, Head(rest).type)
            /\ rest' = Tail(rest)
            /\ UNCHANGED <<status, error, open, proc, uses, toplevel_decls,
                           errs_failed, items>>

\* The node of the procedure is complete, and its scope is popped.
EndText(t) ==
    /\ InText
    /\ rest = <<>>
    /\ tbl_' = pop_scope(t)
    /\ toplevel_decls' = Append(toplevel_decls, [sym |-> proc, uses |-> uses])
    /\ proc' = NoSymbol
    /\ uses' = <<>>
    /\ UNCHANGED <<status, error, open, rest, errs_failed, items>>

EndProc == status = "parsing" /\ EndText(tbl_)

-----------------------------------------------------------------------------
(* Postparsing *)

\* postparse_check_leftover_placeholders
EndOfSource ==
    /\ status = "parsing"
    /\ proc = NoSymbol
    /\ open = <<>>
    /\ IF \/ \E i \in DOMAIN tbl_.sym_table : Sym(i).placeholder
          \/ \E n \in DOMAIN tbl_.type_table :
                 tbl_.type_table[n] = "placeholder"
       THEN Reject("unresolved")
       ELSE /\ status' = "permuting"
            /\ UNCHANGED <<error, tbl_, open, proc, rest, uses,
                           toplevel_decls, errs_failed, items>>

TypeParams(base) == Sym(base).generic_type_names
ParamAlias(p) == <<p>>

TakesNone(base) == TypeParams(base) = <<>> \/ Sym(base).kind # "proc"

\* The assertions of a re-parse that a program can reach.
CreatesAliasTwice(base) ==
    \E j \in DOMAIN TypeParams(base) :
        \/ type_alias_exists(tbl_, ParamAlias(TypeParams(base)[j]))
        \/ \E k \in 1..(j - 1) : TypeParams(base)[k] = TypeParams(base)[j]
EntersTwice(names) ==
    \E j \in DOMAIN names : \E k \in 1..(j - 1) : names[k] = names[j]

(***************************************************************************)
(* postparse_reparse_procedure_permutation up to the text: the instance    *)
(* gets the flags of the procedure but for GENBASE; the type parameters    *)
(* become aliases, and the namespaces of the procedure are entered.        *)
(* ENTITY_INTERNAL is set in the flags of the type, which are not kept.    *)
(***************************************************************************)
AsInstance(sym, base) ==
    [sym EXCEPT !.genperm = FALSE,
                !.global = Sym(base).global,
                !.internal = Sym(base).internal,
                !.pos = Sym(base).pos,
                !.namespace = Sym(base).namespace,
                !.sym_ref = base]

ParamAliases(params) == {ParamAlias(params[j]) : j \in DOMAIN params}
BindParams(t, params, args) ==
    LET bound == {ParamAlias(params[j]) : j \in DOMAIN args}
    IN  [t EXCEPT !.type_aliases =
             [n \in DOMAIN @ \cup bound |->
                  IF n \in bound
                  THEN args[CHOOSE j \in DOMAIN args : ParamAlias(params[j]) = n]
                  ELSE @[n]]]

\* Mutant: too few type arguments are let through.
WrongArity_too_many(i, base) == Len(TypeParams(base)) < Len(Sym(i).args)
WrongArity(i, base) == Len(TypeParams(base)) # Len(Sym(i).args)

\* Mutant: the body is parsed in the global namespace.
NamespacesOf_none(base) == <<>>
NamespacesOf(base) == Tail(Sym(base).namespace)

BeginReparse(i, base) ==
    LET names == NamespacesOf(base) IN
    IF tbl_.namespace_stack # <<>> \/ Len(tbl_.scope_stack) # 1
    THEN Abort("unclean parser")
    ELSE IF Sym(base).pos = 0
    THEN Abort("source position")
    ELSE IF WrongArity(i, base)
    THEN Reject("wrong number of type arguments")
    ELSE IF CreatesAliasTwice(base)
    THEN Abort("type parameter")
    ELSE IF EntersTwice(names)
    THEN Abort("unclean parser")
    ELSE /\ tbl_' = BindParams([push_scope(tbl_) EXCEPT
                                   !.sym_table[i] = AsInstance(@, base),
                                   !.namespace_stack = @ \o names],
                               TypeParams(base), Sym(i).args)
         /\ proc' = i
         /\ rest' = Sym(base).text
         /\ UNCHANGED <<status, error, open, uses, toplevel_decls,
                        errs_failed, items>>

\* One turn of postparse_permute_generic_procedures: sym_table_ is unordered,
\* so any instance that has not been parsed may be the next.
Permute(i) ==
    /\ status = "permuting"
    /\ proc = NoSymbol
    /\ Sym(i).genperm
    /\ LET base == Sym(i).sym_ref IN
       IF TakesNone(base)
       THEN /\ tbl_' = [tbl_ EXCEPT !.sym_table[i].genperm = FALSE]
            /\ errs_failed' = TRUE
            /\ UNCHANGED <<status, error, open, proc, rest, uses,
                           toplevel_decls, items>>
       ELSE BeginReparse(i, base)

\* The deferred clean-up of a re-parse.
CleanedUp ==
    [delete_type_aliases(tbl_, ParamAliases(TypeParams(Sym(proc).sym_ref)))
         EXCEPT !.namespace_stack = <<>>]

\* Mutant: the type parameters stay aliases.
EndReparse_with_aliases ==
    /\ status = "permuting"
    /\ EndText([tbl_ EXCEPT !.namespace_stack = <<>>])
\* Mutant: the instance is marked again instead of getting its node.
EndReparse_marked_again ==
    /\ status = "permuting"
    /\ InText
    /\ rest = <<>>
    /\ tbl_' = [pop_scope(CleanedUp) EXCEPT !.sym_table[proc].genperm = TRUE]
    /\ proc' = NoSymbol
    /\ uses' = <<>>
    /\ UNCHANGED <<status, error, open, rest, toplevel_decls, errs_failed,
                   items>>
EndReparse == status = "permuting" /\ EndText(CleanedUp)

\* evaluate_identifier
UseIsValid(use) == ~Sym(use.to).genbase /\ ~Sym(use.to).placeholder

(***************************************************************************)
(* No instance is left: the errors so far decide, then do_check evaluates  *)
(* every node of toplevel_decls_.                                          *)
(***************************************************************************)
Check ==
    /\ status = "permuting"
    /\ proc = NoSymbol
    /\ \A i \in DOMAIN tbl_.sym_table : ~Sym(i).genperm
    /\ IF errs_failed
       THEN Reject("takes no type arguments")
       ELSE IF \E d \in DOMAIN toplevel_decls :
                   \E u \in DOMAIN toplevel_decls[d].uses :
                       ~UseIsValid(toplevel_decls[d].uses[u])
       THEN Reject("checker")
       ELSE Stop("accepted", "none")

-----------------------------------------------------------------------------
Source ==
    \/ \E path \in NamespacePaths : EnterNamespace(path)
    \/ LeaveNamespace
    \/ \E id \in Ids : DeclareGlobal(id)
    \/ \E id \in Ids, text \in Texts : BeginProc(id, text)
    \/ \E id \in Ids, params \in GenericParams, text \in Texts,
          intern \in Interns : DeclareGenericProc(id, params, text, intern)
    \/ \E id \in Structs : DeclareStruct(id)
    \/ \E e \in Enums : DeclareEnum(e[1], e[2])
    \/ EndOfSource

Compile ==
    \/ Identifier
    \/ LocalVariable
    \/ EndProc
    \/ \E i \in DOMAIN tbl_.sym_table : Permute(i)
    \/ EndReparse
    \/ Check

\* The process has ended.
Terminated == status \in Final /\ UNCHANGED vars

Next == Source \/ Compile \/ Terminated

\* In these states no step of Source is enabled and, as there is no deadlock,
\* one of Compile is: inside a procedure, and from the end of the source on.
Compiling == status = "permuting" \/ InText

\* Weak fairness of Compile, with its enabling condition written out.  The
\* compiler runs as long as it can; a source need not have an end here.
CompilerRuns == []<>~Compiling \/ []<><<Compile>>_vars

Spec == Init /\ [][Next]_vars /\ CompilerRuns

-----------------------------------------------------------------------------
(* Properties *)

Instances == {i \in DOMAIN tbl_.sym_table : Sym(i).args # NoArgs}
Nodes == ToSet(toplevel_decls)
UsesIn(S) == UNION {ToSet(n.uses) : n \in {m \in Nodes : m.sym \in S}}

TypeOK ==
    /\ status \in {"parsing", "permuting"} \cup Final
    /\ proc \in {NoSymbol} \cup DOMAIN tbl_.sym_table
    /\ errs_failed \in BOOLEAN
    /\ items \in 0..MaxItems
    /\ \A i \in DOMAIN tbl_.sym_table :
           /\ Head(Sym(i).name) = Root
           /\ Sym(i).kind \in {"none", "var", "proc"}
           /\ Sym(i).sym_ref \in {NoSymbol} \cup DOMAIN tbl_.sym_table
    /\ \A k \in DOMAIN tbl_.scope_stack :
           tbl_.scope_stack[k] \subseteq DOMAIN tbl_.sym_table
    /\ \A n \in DOMAIN tbl_.type_table :
           tbl_.type_table[n] \in {"placeholder", "struct"}
    /\ \A n \in Nodes : n.sym \in DOMAIN tbl_.sym_table

\* Between two top-level constructs, and between two instances, the parser is
\* as it was before the first: the namespaces are those of the declarations
\* around, only the global scope is open, and no type parameter is an alias.
\* Every re-parse asserts the first two (generic_procedures.cpp:13-15, 56).
ParserIsClean ==
    /\ error # "unclean parser"
    /\ status \in {"parsing", "permuting"} /\ proc = NoSymbol =>
           /\ tbl_.namespace_stack = FlattenSeq(open)
           /\ Len(tbl_.scope_stack) = 1
           /\ \A n \in DOMAIN tbl_.type_aliases : Head(n) = Root

\* generate_procedure_signatures makes one function per procedure symbol, and
\* generate_procdecl finds it by its name and fills it: no two symbols of the
\* global scope share a name, and in an accepted program every procedure
\* symbol has exactly one node.
OneBodyPerProcedure ==
    /\ \A i, j \in GlobalScope :
           Keyed(tbl_, i, Sym(j).name, Sym(j).args) => i = j
    /\ status = "accepted" =>
           \A i \in DOMAIN tbl_.sym_table :
               Sym(i).kind = "proc" =>
                   \E d \in DOMAIN toplevel_decls :
                       \A b \in DOMAIN toplevel_decls :
                           toplevel_decls[b].sym = i <=> b = d

\* What an accepted program uses is there: an identifier denotes a symbol that
\* was declared, or an instance with a body of a generic procedure that has as
\* many type parameters as it was given arguments.
AcceptedUsesAreDeclared ==
    status = "accepted" =>
        \A u \in UsesIn(DOMAIN tbl_.sym_table) :
            IF u.to \in Instances
            THEN /\ Sym(Sym(u.to).sym_ref).genbase
                 /\ Len(TypeParams(Sym(u.to).sym_ref)) = Len(Sym(u.to).args)
                 /\ \E n \in Nodes : n.sym = u.to
            ELSE Sym(u.to).kind # "none" /\ ~Sym(u.to).genbase

\* The uses of names in a text, by their places, and their number up to a place.
UsesOf(text) == {j \in DOMAIN text : text[j].op = "use"}
UsesUpTo(text, k) == Cardinality({j \in UsesOf(text) : j <= k})

\* A use is one of the text with the type arguments put in.
Substituted(item, params, args, use) ==
    /\ use.name = item.name
    /\ Len(use.args) = Len(item.args)
    /\ \A a \in DOMAIN item.args, j \in DOMAIN params :
           item.args[a].name = ParamAlias(params[j]) =>
               /\ use.args[a].name = args[j].name
               /\ use.args[a].ptr = (args[j].ptr + item.args[a].ptr) % 2^PointerBits

\* In the body of an instance each type parameter stands for the argument the
\* instance was made with, and nothing of an earlier instance is left: the
\* uses are those of the text, in their order, with the arguments put in.
BodiesAreSubstituted ==
    \A n \in Nodes :
        n.sym \in Instances =>
            LET base == Sym(n.sym).sym_ref
                text == Sym(base).text
            IN  /\ Len(n.uses) = UsesUpTo(text, Len(text))
                /\ \A j \in UsesOf(text) :
                       Substituted(text[j], TypeParams(base), Sym(n.sym).args,
                                   n.uses[UsesUpTo(text, j)])

\* The names in the body of an instance are looked up from the namespace its
\* procedure is declared in, wherever the instance is asked for, if the symbol
\* was not first mentioned in another namespace.
InstanceInItsNamespace ==
    \A n \in Nodes :
        LET base   == Sym(n.sym).sym_ref
            around == SubSeq(Sym(base).name, 2, Len(Sym(base).name) - 1)
        IN  n.sym \in Instances /\ Sym(base).namespace = <<Root>> \o around =>
                \A u \in ToSet(n.uses) : u.namespaces = around

\* The instances of this program as GenericInstances sees them, by their keys.
Key(i) == <<Sym(i).name, Sym(i).args>>
AsksFor(used) == {Key(u.to) : u \in {v \in used : v.to \in Instances}}
NotAnInstance == <<>>
BegunInstances == Instances \cap ({proc} \cup {n.sym : n \in Nodes})
BodyUses(i) == UsesIn({i}) \cup (IF proc = i THEN ToSet(uses) ELSE {})
BodiesOf(key) ==
    IF key = NotAnInstance THEN (DOMAIN tbl_.sym_table) \ Instances
    ELSE {i \in BegunInstances : Key(i) = key}

Stage ==
    CASE status = "parsing"   -> "source"
      [] status = "permuting" -> "building"
      [] status = "accepted"  -> "accepted"
      [] OTHER                -> "failed"
Wants ==
    [b \in {NotAnInstance} \cup {Key(i) : i \in BegunInstances} |->
        UNION {AsksFor(BodyUses(i)) : i \in BodiesOf(b)}]
Built == {Key(n.sym) : n \in {m \in Nodes : m.sym \in Instances}}

Promise == INSTANCE GenericInstances WITH
    Source <- NotAnInstance, stage <- Stage, wants <- Wants, built <- Built

\* The parser, the tables and the worklist keep what GenericInstances promises:
\* every step is one of its steps or changes nothing it sees.  In particular
\* the worklist takes no instance twice, leaves none out when it accepts, and
\* comes to an end, also when a body asks for its own procedure with a larger
\* type: the depth of a pointer is a number of PointerBits bits.
KeepsThePromise == Promise!Spec

=============================================================================
