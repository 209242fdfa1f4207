-------------------------- MODULE StructRecursion --------------------------
(***************************************************************************)
(* The end of the postparser (tak/src/postparser/other.cpp): the generic   *)
(* structs are deleted, and the structs that are left must not contain     *)
(* themselves.                                                             *)
(***************************************************************************)
EXTENDS Naturals, FiniteSets

VARIABLES
    status,   \* "parsing", "verifying", "overflow" or one of Final
    tbl_      \* the entity table, the types of the additional nodes, the vectors

Final == {"accepted", "unresolved", "invalid", "not instantiable", "recursive"}

Without(t, names) ==
    [t EXCEPT !.type_table = [n \in DOMAIN @ \ names |-> @[n]]]
WithoutGarbage(t) ==
    Without(t, {n \in DOMAIN t.type_table : t.type_table[n].generics # <<>>})

\* Mutant: pointers to structs are followed.
ByValue_pointers(members) == {i \in DOMAIN members : members[i].kind = "struct"}
\* The places of the members that are structs by value.
ByValue(members) ==
    {i \in DOMAIN members : members[i].kind = "struct" /\ members[i].depth = 0}

SubStructs(t, name) ==
    LET members == t.type_table[name].members
    IN {members[i].name : i \in {j \in DOMAIN members :
                                     members[j].kind = "struct" /\ members[j].depth = 0}}

\* Only the first member that is a struct by value is followed.
FirstSubStruct(t, name) ==
    LET members == t.type_table[name].members
    IN members[CHOOSE i \in ByValue(members) : \A j \in ByValue(members) : i <= j].name

Recurses(t, name) ==
    LET Names == DOMAIN t.type_table
        recurse[already_seen \in SUBSET Names] == [of \in Names |->
            /\ ByValue(t.type_table[of].members) # {}
            /\ \/ FirstSubStruct(t, of) \in already_seen
               \/ recurse[already_seen \cup {FirstSubStruct(t, of)}][FirstSubStruct(t, of)]]
    IN recurse[{name}][name]

check_recursive_structures(t) == \E name \in DOMAIN t.type_table : Recurses(t, name)

\* The errors of the inspection are reported at its end.
Judge ==
    /\ tbl_' = IF tbl_.failed THEN tbl_ ELSE WithoutGarbage(tbl_)
    /\ status' = CASE tbl_.overflow -> "overflow"
                   [] tbl_.failed /\ ~tbl_.overflow -> "not instantiable"
                   [] ~tbl_.failed /\ check_recursive_structures(tbl_') -> "recursive"
                   [] OTHER -> "accepted"

\* The phases before change the table as they like, but only Judge ends them
\* without an error, and nothing comes after it.
Judged == status \in {"accepted", "recursive"}
JudgeSpec ==
    /\ ~Judged
    /\ [][~Judged /\ (Judged' => Judge)]_<<status, tbl_>>

-----------------------------------------------------------------------------
(* Properties.                                                             *)

\* The table that is judged is finite and has every struct that is a member by
\* value: lookup_type asserts it (AcceptedTypesResolve of GenericStructs).
StructsAreKnown ==
    Judged =>
        /\ IsFiniteSet(DOMAIN tbl_.type_table)
        /\ \A n \in DOMAIN tbl_.type_table :
               /\ DOMAIN tbl_.type_table[n].members \subseteq Nat
               /\ SubStructs(tbl_, n) \subseteq DOMAIN tbl_.type_table

\* Structs of which each has one of the others in it have no finite size.
HasRecursiveStructs ==
    \E names \in (SUBSET DOMAIN tbl_.type_table) \ {{}} :
        \A n \in names : SubStructs(tbl_, n) \cap names # {}

\* Only recursive structs are reported, and they are when no struct has two
\* members that are structs.
RecursionIsFound ==
    /\ status = "recursive" => HasRecursiveStructs
    /\ /\ status = "accepted"
       /\ \A n \in DOMAIN tbl_.type_table : Cardinality(SubStructs(tbl_, n)) <= 1
       => ~HasRecursiveStructs
=============================================================================
