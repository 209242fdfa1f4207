------------------------------ MODULE FrontEnd ------------------------------
(***************************************************************************)
(* The parse loop of tak (do_compile.cpp: do_parse, get_next_include) with *)
(* what outlives a file: the list of included files, which @include        *)
(* appends to and the loop works off; the table of global symbols, in      *)
(* which a name used before its declaration is a placeholder until a       *)
(* declaration in this or a later file replaces it; and the counter of     *)
(* open parentheses, which nothing resets between two files.               *)
(*                                                                         *)
(* The source files are the environment.  A file is the sequence of the    *)
(* top-level constructs parse() finds in it, one action each.              *)
(***************************************************************************)
EXTENDS Integers, Sequences

CONSTANTS
    Names,        \* path names an @include can produce
    Files,        \* files of the file system
    FileOf,       \* the file a path name denotes (two names may denote one)
    Main,         \* the name given on the command line
    Syms,         \* global symbols
    Sources,      \* the contents the files may have, each in [Files -> Seq(Item)]
    Absent,       \* names of files that do not exist (or are not regular)
    Unreadable    \* sets of files Lexer::init may fail on: empty, not opened

(***************************************************************************)
(* How a construct ends.  When it is complete,                             *)
(*   "none_needed"  it never needs a terminal and has none in it,          *)
(*   "body"         it never needs one, but the statements in it have,     *)
(*   "terminal"     a semicolon or a comma follows,                        *)
(*   "rparen"       so it does behind a `)' that was not opened in it.     *)
(* When it is not,                                                         *)
(*   "missing"      no terminal follows,                                   *)
(*   "newline"      nor anything else but the line break at the end of     *)
(*                  the file,                                              *)
(*   "cut"          the operand, argument, index or member that an         *)
(*                  operator, `(', `[' or `.' behind it asks for is not    *)
(*                  there, as in `f(1' or `1 +'.                           *)
(* What parse() cannot go on with is in the constructs that follow.        *)
(***************************************************************************)
Complete   == {"none_needed", "body", "terminal"}
Incomplete == {"missing", "newline", "cut"}
Ends       == Complete \cup {"rparen"} \cup Incomplete

\* open is the number of parentheses an incomplete construct has not closed.  A
\* malformed construct fails before begin.cpp:53: in its first token or in what
\* parse() calls for it.
Item == [op : {"include"}, name : Names,
         ends : Ends \ {"none_needed", "body"}, open : Nat]
            \cup [op : {"decl"}, sym : Syms, uses : SUBSET Syms,
                  ends : Ends, open : Nat]
            \cup [op : {"not_toplevel"}, uses : SUBSET Syms,
                  ends : Ends, open : Nat]
            \cup [op : {"malformed"}]

ASSUME FileSystemAssumption ==
    /\ FileOf \in [Names -> Files]
    /\ Main \in Names \ Absent
    /\ Absent \subseteq Names
    /\ Sources \subseteq [Files -> Seq(Item)]
    /\ Unreadable \subseteq SUBSET Files

VARIABLES
    source,          \* what stands in each file
    unreadable,      \* the files Lexer::init fails on
    included_files,  \* Parser::included_files_
    lexing,          \* the file the lexer was last initialised with
    rest,            \* the constructs of it that are not parsed yet
    table,           \* global scope of the EntityTable
    toplevel_decls,  \* symbols with a declaration in Parser::toplevel_decls_
    inside_parenthesized_expression_,  \* Parser's, as it is between constructs
    status           \* do_parse runs, or the value it returned

vars == <<source, unreadable, included_files, lexing, rest, table,
          toplevel_decls, inside_parenthesized_expression_, status>>

IncludedFile == [name : Names, state : {"PENDING", "DONE"}]

-----------------------------------------------------------------------------
(* Outcomes of parse() *)

\* The next construct of the current file.
parse(op) == status = "parsing" /\ rest # <<>> /\ Head(rest).op = op

\* do_parse returns false, or raise_error ends the process, and nothing reads
\* what the construct has changed.
Reject ==
    /\ status' = "rejected"
    /\ UNCHANGED <<source, unreadable, included_files, lexing, rest, table,
                   toplevel_decls, inside_parenthesized_expression_>>

(***************************************************************************)
(* parse() returns the node.  Every terminal it meets, the statements of a *)
(* body included, is an error while a parenthesis is open; one `)' closes  *)
(* one that was left open before.                                          *)
(***************************************************************************)
Returned(item) ==
    \/ item.ends = "none_needed"
    \/ /\ item.ends \in {"terminal", "body"}
       /\ inside_parenthesized_expression_ = 0
    \/ /\ item.ends = "rparen"
       /\ inside_parenthesized_expression_ = 1

(***************************************************************************)
(* parse() returns nullptr and the current token is the end of the file:   *)
(* the node is deleted, but do_parse goes on as if the file had no further *)
(* construct.  With the line break at the end of the file it does not come *)
(* to that, since raise_error calls exit(1) for an empty line.             *)
(***************************************************************************)
TakenForEndOfFile(item) ==
    item.ends \in {"missing", "cut"} /\ Tail(rest) = <<>>

\* Mutant: do_parse appends the null node and goes on.
EndOfConstruct_null_appended(item, decls) ==
    /\ rest' = Tail(rest)
    /\ toplevel_decls' = toplevel_decls \cup
           IF Returned(item) THEN decls ELSE {"nullptr"}
    /\ UNCHANGED <<inside_parenthesized_expression_, status>>
\* The construct up to begin.cpp:53 is parsed; decls are the nodes it adds.
EndOfConstruct(item, decls) ==
    /\ rest' = Tail(rest)
    /\ \/ /\ Returned(item)
          /\ toplevel_decls' = toplevel_decls \cup decls
          /\ inside_parenthesized_expression_' =
                 IF item.ends = "rparen" THEN 0
                 ELSE inside_parenthesized_expression_
          /\ UNCHANGED status
       \/ /\ TakenForEndOfFile(item)
          /\ inside_parenthesized_expression_' =
                 inside_parenthesized_expression_ + item.open
          /\ UNCHANGED <<toplevel_decls, status>>
       \/ /\ ~Returned(item)
          /\ ~TakenForEndOfFile(item)
          /\ status' = "rejected"
          /\ UNCHANGED <<toplevel_decls, inside_parenthesized_expression_>>

\* The token is marked as illegal, or no construct begins with it: do_parse
\* does not take it for the end of the file, even if it was that.
ParseMalformed == parse("malformed") /\ Reject

\* A name that is looked up and not found becomes a placeholder.
create_placeholder_symbols(t, uses) ==
    [s \in Syms |-> IF s \in uses /\ t[s] = "absent" THEN "placeholder"
                    ELSE t[s]]

\* An expression, or a statement of a body: an error when parse() returns it,
\* but a part of one at the end of a file is passed over.
ParseNotToplevel ==
    /\ parse("not_toplevel")
    /\ LET item == Head(rest) IN
       IF Returned(item) THEN Reject
       ELSE /\ table' = create_placeholder_symbols(table, item.uses)
            /\ EndOfConstruct(item, {})
            /\ UNCHANGED <<source, unreadable, included_files, lexing>>

-----------------------------------------------------------------------------
(* @include *)

IncludedNames == {included_files[i].name : i \in DOMAIN included_files}

\* Mutant: the list is not searched for the name.
include_append_always(name) ==
    Append(included_files, [name |-> name, state |-> "PENDING"])
include(name) ==
    IF name \in IncludedNames THEN included_files
    ELSE Append(included_files, [name |-> name, state |-> "PENDING"])

parse_include ==
    /\ parse("include")
    /\ LET item == Head(rest) IN
       IF item.name \in Absent THEN Reject
       ELSE /\ included_files' = include(item.name)
            /\ EndOfConstruct(item, {})
            /\ UNCHANGED <<source, unreadable, lexing, table>>

-----------------------------------------------------------------------------
(* Declarations *)

declare(t, sym) == [t EXCEPT ![sym] = "declared"]

\* Mutant: any symbol of that name is an error, a placeholder too.
redeclaration_of_placeholder(sym) == table[sym] # "absent"
redeclaration(sym) == table[sym] = "declared"

\* parse_decl with the initialiser or the body behind it: the symbol exists
\* before the names in them are looked up.
parse_decl ==
    /\ parse("decl")
    /\ LET item == Head(rest) IN
       IF redeclaration(item.sym) THEN Reject
       ELSE /\ table' = create_placeholder_symbols(
                            declare(table, item.sym), item.uses)
            /\ EndOfConstruct(item, {item.sym})
            /\ UNCHANGED <<source, unreadable, included_files, lexing>>

-----------------------------------------------------------------------------
(* The loop of do_parse *)

EndOfFile == status = "parsing" /\ rest = <<>>

Pending == {i \in DOMAIN included_files : included_files[i].state = "PENDING"}
next_include == CHOOSE i \in Pending : \A j \in Pending : i <= j

\* Mutant: the file stays PENDING when its parse starts.
mark_done_forgotten(i) == included_files
\* Mutant: every file found so far is taken for parsed.
mark_done_all(i) ==
    [j \in DOMAIN included_files |-> [included_files[j] EXCEPT !.state = "DONE"]]
mark_done(i) == [included_files EXCEPT ![i].state = "DONE"]

\* get_next_include returns true: the lexer is at the start of a file.
get_next_include ==
    /\ EndOfFile
    /\ Pending # {}
    /\ LET f == FileOf[included_files[next_include].name] IN
        /\ f \notin unreadable
        /\ included_files' = mark_done(next_include)
        /\ lexing' = f
        /\ rest' = source[f]
    /\ UNCHANGED <<source, unreadable, table, toplevel_decls,
                   inside_parenthesized_expression_, status>>

\* get_next_include returns false: no file is left, or Lexer::init failed on
\* the next one.
no_next_include ==
    \/ Pending = {}
    \/ /\ Pending # {}
       /\ FileOf[included_files[next_include].name] \in unreadable

leftover_placeholders == {s \in Syms : table[s] = "placeholder"}

\* The loop ends and postparse_verify decides.
FinishParse ==
    /\ EndOfFile
    /\ no_next_include
    /\ status' = IF leftover_placeholders = {} THEN "accepted" ELSE "rejected"
    /\ UNCHANGED <<source, unreadable, included_files, lexing, rest, table,
                   toplevel_decls, inside_parenthesized_expression_>>

Halted == status # "parsing" /\ UNCHANGED vars

\* do_create_ast has initialised the lexer with the main file, which is not
\* entered into included_files_.
Init ==
    /\ source \in Sources
    /\ unreadable \in Unreadable
    /\ included_files = <<>>
    /\ lexing = FileOf[Main]
    /\ rest = source[lexing]
    /\ table = [s \in Syms |-> "absent"]
    /\ toplevel_decls = {}
    /\ inside_parenthesized_expression_ = 0
    /\ status = IF lexing \in unreadable THEN "rejected" ELSE "parsing"

ParseNext ==
    \/ ParseMalformed
    \/ ParseNotToplevel
    \/ parse_include
    \/ parse_decl
    \/ get_next_include
    \/ FinishParse

Next == ParseNext \/ Halted

\* The loop is run by one thread that nothing suspends.
Spec == Init /\ [][Next]_vars /\ WF_vars(ParseNext)

-----------------------------------------------------------------------------
(* What the sources mean, whatever order they are parsed in *)

Items(f) == {source[f][i] : i \in DOMAIN source[f]}
Includes(f) == {item.name : item \in {it \in Items(f) : it.op = "include"}}
DeclsOf(f, s) == {i \in DOMAIN source[f] :
                     source[f][i].op = "decl" /\ source[f][i].sym = s}
UsesOf(f) == UNION {item.uses : item \in {it \in Items(f) : it.op = "decl"}}

\* The names the main file includes, the files of those include, ...
ClosedUnderInclude(S) ==
    /\ Includes(FileOf[Main]) \ Absent \subseteq S
    /\ \A n \in S : Includes(FileOf[n]) \ Absent \subseteq S
Reached == {n \in Names : \A S \in SUBSET Names :
                              ClosedUnderInclude(S) => n \in S}

\* The texts of the program: <<>>, the main file, and one for every name.
Texts == {<<>>} \cup {<<n>> : n \in Reached}
TextFile(t) == IF t = <<>> THEN FileOf[Main] ELSE FileOf[t[1]]

WellFormedText(f) ==
    /\ Includes(f) \cap Absent = {}
    /\ \A i \in DOMAIN source[f] :
           /\ source[f][i].op \in {"include", "decl"}
           /\ source[f][i].ends \in Complete

\* The last construct of the file is incomplete, and the file ends with it.
BrokenOff(f) ==
    /\ source[f] # <<>>
    /\ LET last == source[f][Len(source[f])] IN
       last.op # "malformed" /\ last.ends \in {"missing", "cut"}

WellFormed ==
    /\ \A t \in Texts : WellFormedText(TextFile(t))
    /\ \A s \in Syms, t1, t2 \in Texts :
           \A i \in DeclsOf(TextFile(t1), s), j \in DeclsOf(TextFile(t2), s) :
               t1 = t2 /\ i = j
    /\ \A t \in Texts : \A s \in UsesOf(TextFile(t)) :
           \E d \in Texts : DeclsOf(TextFile(d), s) # {}

-----------------------------------------------------------------------------
(* Properties *)

\* Every variable holds a value of the type its C++ counterpart has.
TypeOK ==
    /\ source \in [Files -> Seq(Item)]
    /\ unreadable \subseteq Files
    /\ included_files \in Seq(IncludedFile)
    /\ lexing \in Files
    /\ rest \in Seq(Item)
    /\ table \in [Syms -> {"absent", "placeholder", "declared"}]
    /\ toplevel_decls \subseteq Syms
    /\ inside_parenthesized_expression_ \in Nat
    /\ status \in {"parsing", "accepted", "rejected"}

\* parse_include keeps the names in included_files_ distinct, however the
\* files include one another (directive.cpp:111).
IncludedOnce ==
    \A i, j \in DOMAIN included_files :
        included_files[i].name = included_files[j].name => i = j

\* Lexer::init succeeds for every file of the program.
AllReadable == \A t \in Texts : TextFile(t) \notin unreadable
NoneBrokenOff == \A t \in Texts : ~BrokenOff(TextFile(t))

\* What do_parse accepts does not depend on the order it reaches the files
\* in: it is exactly the programs all of whose texts consist of complete
\* declarations and includes, with one declaration for every name that is
\* declared and at least one for every name that is used, before or behind its
\* use, in whatever file.  Programs with a file that is broken off are under
\* BrokenOffIsRejected, those with one that cannot be read under
\* InitFailureIsFatal: some of them are accepted.
VerdictIsCorrect ==
    status # "parsing" /\ AllReadable /\ NoneBrokenOff =>
        (status = "accepted" <=> WellFormed)

\* begin.cpp:109 and do_compile.cpp:44: an expression needs its terminal, and a
\* file whose parse does not come to its end ends the compilation.  So the last
\* construct of a file of an accepted program is complete.
BrokenOffIsRejected == status = "accepted" /\ AllReadable => NoneBrokenOff

\* The files parsed, DONE or being parsed, are files of the program, and the
\* program accepted is no less than those reached by @include.
ParsedIsReached ==
    /\ IncludedNames \subseteq Reached
    /\ status = "accepted" /\ Pending = {} => Reached \subseteq IncludedNames

\* The loop ends although files may include one another in cycles.
ParseTerminates == <>(status # "parsing")

\* init.cpp:47: a file that cannot be read is FATAL.
InitFailureIsFatal == status = "accepted" => Pending = {}
=============================================================================
