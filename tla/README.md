# Formal models of the tak compiler

tak compiles a small systems language to LLVM IR. It is one C++ process with one
thread: `main` reads the configuration and calls `do_compile`, which builds the
AST (`do_create_ast`: lexer, `do_parse`, `postparse_verify`, `do_check`) and
then generates code (`do_codegen`). `CMakeLists.txt` defines no `NDEBUG`, so an
`assert` that fails ends the compiler, like `panic` does. The repository has no
documentation beyond its comments, assertions and error messages; they are what
the runs that expect a violation quote.

Nothing here runs concurrently and nothing is persisted. What is hard is state
that several recursive functions share by convention: a context that each
handler must set, clear and restore in the right order, a list of files that
grows while it is worked off, a symbol table in which names exist before they
are declared, an AST that is changed while it is read.

## Inventory

| Part | State it keeps | Operations | Interacts with | Correct when |
|---|---|---|---|---|
| lexer (`lexer/`) | `src_`, `src_index_`, `curr_line_`, `current_` | `init`, `advance`, `peek`, one function per token | driven by the parser; reset for each file and for each generic body | tokens are the longest ones, nothing between them is lost, `peek` leaves no trace |
| parser (`parser/`) | `included_files_`, `toplevel_decls_`, `inside_parenthesized_expression_`, the AST | `parse` and one function per construct | creates symbols and types; opens and closes scopes and namespaces | scopes are balanced; a construct is accepted or reported, never dropped |
| entity table (`entity_table/`) | `scope_stack_`, `namespace_stack_`, `sym_table_`, `type_table_`, `type_aliases_` | lookup, create, placeholder, permutation | parser, postparser, checker, codegen | a name means the same wherever its declaration stands |
| postparser (`postparser/`) | worklists of generic permutations | the five passes of `postparse_verify` | parses generic bodies again with the parser's lexer and table | each permutation gets one body; unresolved names and recursive structs are rejected |
| checker (`checker/`) | types written into symbols and nodes, `SemanticErrorHandler` | `evaluate` per node | reads the AST, decides what code generation sees | accepts only what code generation can generate |
| codegen (`codegen/`) | `CodegenContext`: defer stack, loop, procedure and casting context; LLVM builder | `generate` per node | reads AST and symbols | well-formed functions; defers run once on each path |
| support (`support/`) | configuration | `do_parse`, `get_next_include`, `do_codegen`; error limit | all of them | the verdict does not depend on the order of files |

Order of importance: wrong code without a message is the worst a compiler can
do, so the control flow of code generation comes first, then acceptance of
programs that should be rejected, then the generics and the types.

## Modules

| Module | Models |
|---|---|
| `ProcCodegen` | `generate_procdecl`, `generate_branch`, the loops, `brk`, `cont`, `ret`, `defer`, and the `CodegenContext` (`codegen/controlflow.cpp`, `context.cpp`, `defer.cpp`, `begin.cpp`, `declarations.cpp` 9-78, `constants.cpp` 137-149) |
| `ProcCodegenFlow` | what the emitted control-flow graph does when it runs: the meaning of `defer`, stated without the compiler's data structures |
| `MCProcCodegen` | values of the constants for both |
| `ProcCodegen_proofs` | theorems about `ProcCodegen`: its contexts, its blocks |
| `ProcCodegenFlow_proofs` | theorem about the paths of `ProcCodegenFlow` |
| `FrontEnd`, `MCFrontEnd` | `do_parse`, `get_next_include`, `parse_include`, `parse_decl` and placeholders at the global scope (`support/do_compile.cpp`, `parser/directive.cpp`, `parser/declarations.cpp`, `entity_table/symbols.cpp`, `postparser/other.cpp` 9-29) |
| `FrontEnd_proofs` | theorems about `FrontEnd` |
| `EntityTable` | the operations of `EntityTable` as operators from a table to a table: scopes, symbols, placeholders, generic instances, namespaces and name lookup, user types, aliases (`entity_table/`, `parser/type.cpp`) |
| `GenericProcs`, `MCGenericProcs` | declarations in nested namespaces, uses with and without type arguments, the worklist of generic instances and the second parse of a body, the checker's verdict on uses (`parser/namespace.cpp`, `declarations.cpp`, `ident.cpp`, `enumdef.cpp`, `structdef.cpp`, `postparser/generic_procedures.cpp`) |
| `GenericInstances` | abstract: the instances of a program and their bodies, without parser, table or worklist. `GenericProcs` implements it |
| `EntityTable_proofs` | lemmas about the operations of `EntityTable`, composed as `GenericProcs` composes them |
| `GenericProcs_proofs` | theorems about `GenericProcs`, among them that each of its steps is one of `GenericInstances` or unseen there |
| `GenericStructs`, `MCGenericStructs` | struct definitions, types and their type arguments, the instantiation of generic structs (`parser/structdef.cpp`, `parser/type.cpp`, `postparser/generic_structs.cpp`) |
| `StructRecursion` | what is left of `postparse_verify` after that: the clean-up and the recursion check (`postparser/other.cpp`) |
| `StructRecursion_proofs` | theorem about the recursion check |
| `Lexer`, `MCLexer` | the cursor and every token (`lexer/`) |
| `Lexer_proofs` | theorems about `Lexer` |
| `Syntax` | the recursive descent through expressions and statements, on tokens (`parser/begin.cpp`, `expressions.cpp`, `controlflow.cpp`) |
| `ExprSyntax`, `ExprTrees`, `MCExprSyntax` | texts of expressions for it, and the trees they have without a parser |
| `ExprSyntax_proofs` | theorems about the parser of expressions |
| `StatementSyntax`, `MCStatementSyntax` | programs for it, and what they mean without a parser |
| `Types` | `TypeData` and its relations (`checker/typedata.cpp`, `support/typedata_util.cpp`), the LLVM type it stands for (`codegen/llvm_types.cpp`) |
| `Checker` | the type checker as one operator per `evaluate_` function (`checker/evaluate.cpp`, `convert.cpp`) |
| `ExprCodegen` | code generation for expressions, declarations and statements: LLVM types, instructions, casting context (`codegen/expressions.cpp`, `wrapped.cpp`, `constants.cpp`, `declarations.cpp`, `controlflow.cpp`) |
| `Fragment` | the programs for which the two agree |
| `Body`, `MCBody` | one procedure and the globals before it, through `do_check` and `do_codegen` |

`Body` composes `Checker` and `ExprCodegen` over `Types`; `GenericProcs` composes
parser, postparser and the checker over `EntityTable`; `ExprSyntax` and
`StatementSyntax` each put an environment around `Syntax`. Modules meet where one
phase hands data to the next: `Lexer` leaves the tokens `Syntax` starts from,
`Syntax` the trees `Checker` walks, `Body` the programs whose control flow
`ProcCodegen` generates. No module spans all phases; each takes what the phase
before it can deliver as its environment.

### ProcCodegen

The AST is the environment: at each point any statement the front end accepts
may be the next child. The C++ call stack is the variable `frames`, one record
for each open `generate_*`; an action is the part of a handler between two
children. `BeginBranch` is `generate_branch` up to the first child of the if
body, `EndIfBeginElse` goes from its end into the else body, `EndBranch` to the
return; loops and procedures are cut the same way. An assertion that fails or a
panic is a value of `status` and stops the system.

| Variable | Code |
|---|---|
| `curr_proc`, `deferred`, `curr_loop`, `casting` | `CodegenContext::curr_proc_`, `deferred_stmts_`, `curr_loop_`, `casting_context_.has_value()` |
| `blocks`, `nblocks`, `insert` | the LLVM function: events, terminator and successors of each block; the insert point |
| `frames` | activations, with the blocks and the old loop context they keep in locals |
| `lit` | text length of the literal a deferred call passes, which the code changes in the AST |
| `procs`, `stmts` | how much of the source has been visited; they only bound the source |

`JumpAndEntryAssertsHold` covers the assertions about jumps and about entering a
procedure. Those about entering a loop and about the casting context fail for
accepted programs, and so does the default of `generate()` (below, under further
disagreements): the system stops there, and the other properties hold in the states
up to there.

Abstracted: expressions emit nothing that matters here, so a block records only
the place of each `defer` and the deferred calls emitted. A condition, and a
`defer_if`, is a diamond with one entry and one exit and is folded into its
block. Whether a condition leaves a casting context is an input (`CondLeaves`),
because it depends on the kind of expression only; `ExprCodegen` has which.

### FrontEnd

A file is a sequence of the constructs `parse()` finds in it, each with how it ends
(`Ends`): complete, or with what is missing and how many parentheses stay open. There
is one action for each construct, and `get_next_include` and `FinishParse` for the loop
in `do_parse`. `table` is the global scope (absent, placeholder, declared).
Several path names may denote one file, since `included_files_` compares path
strings. `Sources`, `Absent` and `Unreadable` are the file systems considered;
a file may be there when `@include` looks and unreadable when its turn comes.
The main file is not entered into `included_files_`, so it can be parsed twice.

`EndOfConstruct` is `parse()` from its postfix loop on. There it returns the node
(`Returned`), which depends on the counter of open parentheses, or nullptr. An error
before that marks the token as illegal (`ParseMalformed`); one behind it does not, and
when the token is then the end of the file, `do_parse` takes the null node for it
(`TakenForEndOfFile`). So a program with a file that is broken off may be accepted,
which `broken_off` shows; `VerdictIsCorrect` is about the programs without such a
file and without one that `Lexer::init` fails on, and calls no incomplete construct
well formed.

A `sizeof` or `cast` in a construct that is dropped stays in
`additional_generic_inspections_`; that is left out here, as generics are.
Not in this module: generics, structs and local scopes, hence of
`postparse_verify` only the check for leftover placeholders.

### GenericProcs, EntityTable and GenericInstances

`tbl_` is `Parser::tbl_`, a record of the five containers of `EntityTable`. A
full name is the sequence of its components, and the printed name of an instance
is the pair of the name and the type arguments. The source is the environment
again: any sequence of the top-level constructs. A procedure's text is a sequence
of uses and local declarations, taken one at a time, and what `src_pos` keeps of
a generic procedure is its text. `open` is the C++ stack of `parse_namespace`,
`proc` and `rest` the procedure being parsed.

`EndOfSource` is `postparse_check_leftover_placeholders`; `Permute(i)` is one
turn of the worklist, for any marked symbol, because `sym_table_` is unordered;
`BeginReparse` goes up to the text, and `EndReparse` is the deferred clean-up.
`Check` is `do_check` on the identifiers. An assertion that fails ends in status
`aborted`, a message in `rejected`.

`GenericInstances` knows bodies, what each body asks for, and which instances
have a body. It begins one instance at a time, never one a second time, accepts
only when exactly the instances that are asked for have been built, and ends. The
refinement maps an instance to its key (name and type arguments), what a body
asks for to the uses recorded so far in its node or in `uses`, and an instance
that is built to one with a node in `toplevel_decls_`; `sym_table_` marks and the
worklist itself are hidden. That no two symbols have one key is part of what the
mapping shows.

Abstracted: expressions and types other than the names they mention; arrays and
procedure types; structs have no members and enums one. Positions count
constructs, which is enough to tell the first byte of the file from the rest.
Not here: several files, `@alias`, `@extern`, procedure pointers, inferred types.

### GenericStructs

The type arguments of a `TypeData`, and the parameters of a procedure type, are
behind a `shared_ptr` to a vector. A copy of a `TypeData` shares the vector, and
`try_permute_member` and `inspect_proc_t` write into it. So `tbl_.vectors` is a
heap: a type names its vector, a substitution replaces elements in place, and
whoever shares the vector sees it. A type as written in the source is a value
without sharing, and `Meaning` is what it denotes under type arguments.

| Variable | Code |
|---|---|
| `source`, `uses` | what has been parsed, as written |
| `tbl_` | `type_table_`, the types of `sym_table_`, `additional_generic_inspections_`, the vectors; `failed` is `SemanticErrorHandler::failed()` |
| `inspected` | the loop over the additional nodes |
| `status` | the phase and the verdict |

`parse_structdef`, `parse_decl` and `parse_node` are the environment, with structs
before their uses and in a fixed order, which the postparser cannot see.
`InspectSymbol` and `InspectUserType` are one turn of the first two loops of
`postparse_permute_generic_structures`, on any entry of the hash table;
`InspectNode` one turn of the third; `Verdict` the rest of
`postparse_verify`, which is `Judge` of `StructRecursion`.
Instantiation is recursive; `MaxNesting` bounds its depth, and a program that
needs more would end in `overflow`, which `InspectionEnds` excludes.

### Lexer

`src_` is a text of characters, and `lx` the cursor, with the token in `current_`.
`Advance`, `Peek` and `Reparse` are what the parser and the postparser do with it,
in any order; `tokens` records the tokens in front of the cursor, for the
properties only. `exit` is the `exit(1)` of `skip_utf8_sequence`. Characters are
representatives of their classes: two digits, one more letter that is a
hexadecimal digit, a letter that is not, the two bytes of a UTF-8 sequence, NUL.
Words are not told apart by their letters, the two quotes `"` and `` ` `` are one,
and the byte-order mark that `init` skips is not in the texts. A `while` of the code
is its body as a function on the cursor and `Loop`, which applies it once more than
the text has characters; that each loop has come to its end by then is a lemma.

The definitions after the specification say what a token is without a cursor, in
terms of the characters between two positions: for each type (`Lexeme`), what is
blank (`Blank`), and comments. The properties are about texts in which each first
byte of a UTF-8 sequence has its second byte (`WellEncoded`): behind any other the
lexer takes the next character for it, whatever it is.

### Syntax

`parse` and the functions it calls take and leave a parser state: the place in the
token sequence, `inside_parenthesized_expression_`, the scope stack, and the scopes
each declaration was entered in. They are mutually recursive in the code; here
`Parsed` is a function of the depth of the calls, and what the calls of a routine
return is in its context, `cx.call`, one level deeper. A call that calls again has
taken a token before, so the texts have more levels than any parse needs
(`Len(ts) + 2`); if one did not, it would be refused and `TextsAreParsed` violated.
A `while` of the code is its body as an operator, the turn, and `Loop`.

`ExprSyntax` writes a text token by token, whose brackets nest (`open` has those it
has still to close), and submits it; `Tree` in `ExprTrees` is the tree it has by the
places of its operators and brackets, found from the outside in, without a counter and
without reading left to right. `StatementSyntax` writes programs statement by statement,
keeps the blocks it has open, and expects to be given back what it wrote.

Abstracted: the tokens of one identifier path, of one type, and of a declaration up
to its initializer are one token each; messages.

### Types, Checker, ExprCodegen, Fragment and Body

`Types` is the record `TypeData` and every relation on it, and the LLVM type it
stands for. `Checker` evaluates a node in a checker state (`syms` is `sym_table_`,
`ret` the procedure around, `loops` the loops around the node), `ExprCodegen`
generates it in a codegen state: the casting context, the wrapped value with its
LLVM type, and `events`, what the instructions built so far did (narrowed a value,
stored another size than the place has, lost a context). `Typed` is what the
assertions of `IRBuilder` and `verifyFunction` demand of an instruction.

`Body` grows a program one declaration at a time through `do_check`, then generates
it in the same order. `GenerateStatement` stops at the first assertion, panic or
ill-typed instruction. `Fragment` is needed because the checker types an expression
by its operands and the generator by the casting context that the left operands
leave behind: outside the fragment they are known to differ (below, under types).
It is a condition on the source, computed from the checker's types and never from
what the generator did; the properties hold for every accepted program in it.
`ContextIsKept`, `ConstantsAreNotWritten` and `DeclaredTypesAreKnown` need no
fragment.

## Runs

Passing, with the number of distinct states:

| Run | States | Shows |
|---|---|---|
| `proc_codegen` | 705k | two procedures, up to four statements of every kind, deferred literals: `TypeOK`, `NoContextBetweenProcedures`, `DeferStackMatchesBodies`, `LoopContextIsInnermost`, `JumpAndEntryAssertsHold`, `OpenBlocksAreWaitedFor`, `VerifierAccepts`, `EveryPathRunsItsDefers`, `SealedBlocksStaySealed` |
| `front_end` | 512k | three files, four names and one that is absent, include cycles, a file that may be unreadable, constructs that are broken off or leave a parenthesis open: `IncludedOnce`, `VerdictIsCorrect`, `ParsedIsReached`, `TypeOK`, `ParseTerminates` |
| `generic_procs` | 19k | three names that ask for each other and for themselves with larger types: `TypeOK`, `OneBodyPerProcedure`, `BodiesAreSubstituted`, and the refinement `KeepsThePromise` |
| `generic_names` | 587k | namespaces that are nested and named twice, up to two type parameters, structs, enums, locals, `@intern`: `ParserIsClean`, `InstanceInItsNamespace`, `AcceptedUsesAreDeclared` |
| `generic_structs` | 423k | two generic structs and an ordinary one that contain each other and larger instances of themselves, procedure types and arrays as arguments, two uses: `TypesMeanTheirSource`, `AcceptedTypesResolve`, `RecursionIsFound`, `InspectionEnds` |
| `lexer` | 175k | every text of up to five characters over six alphabets, with peeks and re-parses anywhere: `TokensAreLongest`, `NothingIsSkipped`, `LinesAreCounted` |
| `expression_syntax` | 1.6M | every text of up to eight tokens whose brackets nest: `TextsAreParsed`, `ParenthesesAreReturned`, `NoOperandIsLost` |
| `statement_syntax` | 500k | programs of three statements nested in every way: `ProgramsAreParsed`, `NamesAreInTheirBlocks` |
| `body` | 191k | every expression of depth one over 27 symbols of all sorts of types, and a selection of depth two, each as a program; two declarations or statements of every kind, global and local, with nested bodies: `AcceptedIsGenerated`, `IntegersKeepTheirWidth`, `MemoryIsTyped`, `ContextIsKept`, `ConstantsAreNotWritten`, `DeclaredTypesAreKnown` |

`EveryPathRunsItsDefers` is the property the whole of `defer.cpp` is for: along
every path through the finished function each deferred call runs once for each
time its `defer` is passed, deepest body first and in source order within a
body, at the exit from that body. It is evaluated on the graph alone.
`VerdictIsCorrect` compares what `do_parse` returns with a definition of the
well-formed programs that knows no order, no list and no placeholders.
`KeepsThePromise` says that the worklist computes a least fixed point, in whatever
order it takes the instances: each step adds an instance some body asks for, none
twice, and it accepts when none is missing. `TypesMeanTheirSource` compares the
types the postparser leaves with the types as written, in every order of the two
hash tables.

Expected violations, each a statement of the code itself that the code breaks:

| Run | What happens |
|---|---|
| `deferred_literal` | each exit of a scope strips two more characters from the literal of a deferred call (`constants.cpp:140`) |
| `init_failure` | an included file that is empty (`init.cpp:47`, "FATAL") ends the loop; the rest of the files is never parsed and the program is accepted |
| `broken_off` | the last construct of a file has no terminal, or `f(1` or `1 +` is all there is of it: it is dropped, with the message of `begin.cpp:123` or none, and the program is accepted (`do_compile.cpp:44`) |

### Further disagreements

Met while modelling and not among the runs. The models take the paths in question
unless it says otherwise.

Statements and declarations:

- `generate_dowhile` enters the old loop context without leaving its own, and
  `enter_loop` asserts that none is set (`context.cpp:94`): no do-while whose end is
  reached compiles.
- `if x { ret; }` on a variable: the casting context of the condition is still set
  when the body starts, and `generate_ret` asserts that it is not
  (`controlflow.cpp:307`); a branch or a loop in that place fails its own assertion.
  The context of the initializer of a `for` leaks into its body in the same way.
- `blk`, `switch`, `cast`, `sizeof` and `enum` pass the front end and reach the
  default of `generate()`, a panic (`codegen/begin.cpp:48`). `generate_cast` and
  `generate_sizeof` have no caller.
- A file that ends in `f(1` leaves `inside_parenthesized_expression_` raised
  (`expressions.cpp:395`), and nothing lowers it before the next file: there every
  terminal is an error, and a `)` too many is let pass and closes it.
- Whether a missing terminal at the end of a file is let pass depends on the line
  break behind it: `raise_error` calls `exit(1)` when the last line is empty
  (`lexer/errors.cpp:33`).
- String and character literals lose their quotes each time they are generated.

Names and generics:

- An undeclared type that only the body of an instance names is accepted, because
  placeholders are checked before bodies are parsed again (`other.cpp:12`, 90).
- `parse_decl` compares the `:` behind a name with the open namespaces, so its
  message about a variable named like its namespace never appears
  (`declarations.cpp:562`; `parse_parameterized_vardecl` checks before it advances).
- An enum member that is used before its enum counts as redeclared: only its
  placeholder is there (`enumdef.cpp:136`).
- `proc$[T, T]` is accepted and fails an assertion at its first use
  (`generic_procedures.cpp:50`); a generic procedure at byte 0 of its file fails one
  when it is used (`generic_procedures.cpp:14`).
- `f$[i32]` on a local variable `f` is answered with the instance of a global
  generic procedure `f`, because instances are found by their printed name
  (`symbols.cpp:96`), instead of the message at `generic_procedures.cpp:123`.
- Generic symbols "are implied to be internal" (`directive.cpp:259`), but
  `generic_procedures.cpp:19` sets `ENTITY_INTERNAL` in the flags of the type.

Structs:

- The vector of type arguments of a member is shared by the generic struct and all
  its instances and written in place: members that pass the type parameter on
  (`B$[T]`, a procedure pointer over `T`) have the types of the first instance in
  every later one. `A$[A$[T]]` inside `A` therefore comes to an end, with wrong types.
  `TypesMeanTheirSource` excepts these members once there are two instances.
- The recursion check follows the first member that is a struct by value and no
  other (`other.cpp:57`): `struct S { a: A$[i32], b: S }` is accepted when `A` does
  not lead back to `S`. `RecursionIsFound` is stated for structs whose members by
  value are of one struct.
- A procedure type put in for a type parameter loses its return type: it is copied
  only when nothing is substituted (`generic_structs.cpp:127-135`).
- `T^` with an array as argument is an array of pointers, not a pointer to an array.
- A type parameter with the name of an existing type, or given twice, fails the
  assertion in `create_placeholder_type`; a struct whose parse fails leaves its type
  parameters behind as placeholders. Neither is in the model.

Lexer:

- Line breaks inside string and character literals are not counted, and a string
  literal's position is its closing quote (`tokens.cpp:625`).
- A backslash before a quote keeps the string open even if the backslash itself is
  escaped; `/*/` is a complete comment; `''` is a character; `1.e5` is a float.
- A NUL byte ends the file silently; an end of file asked for again has line 1.
- The first byte of an incomplete UTF-8 sequence swallows the characters behind it,
  among them the quote or `*/` that should end a literal or comment, and line breaks,
  which are then not counted. In a word it is an illegal token if the last character
  it swallowed is one that ends words, and part of the word otherwise. The three
  properties leave these texts out (`WellEncoded`).

Parser:

- `+` binds tighter than `*`, the bitwise `|`, `^` and `&` bind tightest of all, and
  operators of equal precedence group to the right, `-` and `/` included.
- The operand of a `sizeof` takes the closing parenthesis of the text around it:
  `f(sizeof b) + c` is parsed as `f(sizeof b + c)`. Mismatched brackets can be
  accepted, with the counter left at 1.
- Separators in calls and braces are optional; `{(a, b)}`, `brk + 3` and
  `x: i32 + 5` are accepted; `1 : 2` panics in `precedence_of`; the bound of a range
  loop may be any node.
- The body of an `if` on one line that starts with an operator or a parenthesis is
  taken into the condition; `parse_branch` leaves its scope open on its error paths.

Types and code generation, the reasons for `Fragment`:

- Operands are converted to a context that is not theirs: `b && 1.5` fails an
  assertion, `y && x` with `y: u8` narrows `x`, `y = !x` and `bool op u8` truncate, an
  index of type `u64` becomes `i32`, `-literal` under a boolean context is narrowed,
  operators on two literals are typed `u64` or `f64`.
- Floats: `!f`, `f = ~x` and `int && float` are ill-typed.
- Pointers: pointer plus or minus pointer, `nullptr` or a string is accepted and
  ill-typed; `+` and `+=` move by bytes while `-` and `--` scale by the element;
  `p -= n` indexes from the variable's own address; `^p = 5` stores the width of the
  literal; `^p + 1` is ill-typed.
- Values without an address: `&^p`, `&pr(x)`, `(&s).a`, `++mk()`; `&f(1)` is a slot
  shared by all calls; `"abc"[0]` has no LLVM type.
- `fn = fn`, an operator on a call that returns nothing, and a braced initializer for
  a pointer to a struct are accepted and fail an assertion.
- The stride of an array with three dimensions.

### Bounds

`MaxStmts` is the number of statements of a program. Every interaction of the
handlers needs at most a defer, two nested bodies, and a jump, which is four.
`MaxProcs = 2` is enough for state left to the next procedure, which depends on one
predecessor only. `LiteralSizes` has a literal that disappears after one erasure (3
with quotes, then the assertion fails) and one that survives two.

`FrontEnd`: the main file and the first include have up to two constructs and the
third up to one; two symbols suffice for mutual use, two names of one file for
aliasing, and the main file can include itself. The main file can end in `f(`, the
first include close the parenthesis, meet it at a terminal, or not notice it, and the
second end in each of the ways a file can be broken off.

`GenericProcs`: `PointerBits` is the width of `TypeData::pointer_depth`, 16 in the
code; with 1 the wrap-around that ends the growing instances comes after two
pointer signs. `MaxItems = 3` gives a caller, a generic procedure and one it asks
for, or two of them and the namespace around, in every order. The texts in
`MCGenericProcs` are one for each way two names can depend on each other.

`GenericStructs`: `MaxMembers = 3` over three structs gives a chain through all of
them, or a struct with two members and one that leads back; `MaxUses = 2` two
instances of one struct, or a variable and a cast. Six nested instantiations are
more than any program with these members reaches.

`Lexer`: no decision looks further than three characters; `MaxLength = 5` leaves room
for a token before and a character after the longest of them. Each alphabet has the
characters that interact; the others are separators for each other.

`ExprSyntax`: eight tokens are two nested brackets with a binary operator in each,
or three operators in a row; `=`, `+`, `*` are three precedences. `StatementSyntax`:
three statements are a body in a body behind a sibling; simple statements are taken
in turn, since what matters is where they stand.

`Body`: depth one over all symbols meets every pair of types with every operator;
depth two adds what an operand leaves behind for the expression around it. These are
programs by themselves (`CheckExpression`). Contexts are passed between at most two
neighbours, hence two declarations or statements in the other programs.

The proofs remove the bounds for the properties they cover.

### Fairness

`ProcCodegen`, `Body`, `Syntax` and `Lexer` have none: their properties are about
safety. `FrontEnd` has weak fairness on its loop as a whole: `do_parse` is a loop in
the only thread, which nothing suspends, so it goes on while it can; no choice within
the loop is assumed to be fair. Termination (`ParseTerminates`) then follows from the
code: a name enters the list once and is marked when it is taken.

`GenericProcs` has the same fairness for `Compile`, the steps the compiler takes by
itself inside a procedure and after the end of the source. It is written with its
enabling condition (`CompilerRuns`) because TLC evaluates `ENABLED` of these actions
slowly; the runs check for deadlock, and with it that one of these steps is always
possible where `Compiling` holds. `Permute` is not fair to any one instance:
the worklist ends (`Ends` of `GenericInstances`) because each turn unmarks one, and
the instances that bodies ask for are finitely many only since the pointer depth is a
finite number.

`GenericStructs` states the fairness of the postparser's steps in the same form: in a
state that is `verifying` they are the only steps and one of them is always possible.
`InspectionEnds` then rests on the table: an instance is in it before its members
are, so it is found by those, and the write to a shared vector keeps the types a
struct asks for from growing.

## Proofs

The constants are arbitrary up to the assumptions that are named in the modules:
`SourceAssumption` (statement kinds and bounds of `ProcCodegen`),
`FileSystemAssumption` (a path name denotes a file, and a file is a sequence of
constructs), `SourceBounds` (identifiers are strings, names are not empty, a text
is a sequence of uses and locals), `PointerAssumption` (a pointer depth has at
least one bit) and `OperatorsAssumption` (the texts of `ExprSyntax` are made of tokens
the parser knows). `Lexer` needs none. So the theorems hold for any number of
statements, procedures, constructs and files, any nesting, any names and any texts.

### Control flow

- `TypeCorrect`, `DeferStackCorrect`, `LoopContextCorrect`,
  `JumpAndEntryAssertsCorrect`, `ProceduresAreIndependent`. The inductive invariant
  (`ContextInv`, theorem `ContextInvariance`) ties the contexts to `frames`: the
  stack of activations starts with the procedure and only there, each element of
  the defer stack belongs to the activation at the same depth, and what each loop
  saved is the loop around it. Neither the defer stack nor the loop context is
  inductive alone: what a handler restores is a local of the activation, so the
  statement has to range over all of `frames`.
- `OpenBlocksCorrect`, `VerifierCorrect`, `SealedCorrect`. The strengthening
  (`BlocksInv`) says that every unterminated block is the current one or one that an
  activation waits for, that no block branches to the entry, and that a block that is
  not allocated yet is empty, so a step finds the blocks it creates as it needs them.
  The case of `EndDoWhile` is closed by the lemma `DoWhileContext`: its end always
  fails the assertion, so it hands on no block.
- `EveryPathRunsItsDefersHolds`. The property is about paths, so the strengthening
  (`FlowInv`) is about blocks: there is an assignment `P` of pending deferred calls to
  the head of each block with which every branch arrives with the calls of its
  target, and nothing is pending at a return (`Edges`). To keep it, a step has to know
  what is pending where it emits code, the calls of all open bodies (`Here`), and
  where an activation continues, those of the bodies around it (`Waits`). So the
  theorem says why a jump may leave several bodies at once: it emits the calls of the
  bodies it leaves, in the order in which they are pending, and arrives with exactly
  those that `Waits` promises its target. One step extends or keeps `P` for each kind of
  action (`PushFlow`, `PopFlow`, `JumpFlow`, `DeferFlow` and so on), and a path then
  meets `P` in each block it enters (`ReachedAgree`). Code, lists of calls and paths are
  data of any length; what the recursive functions over them compute is proved from
  the least index at which it could fail (`StepsTyped`, `RunExists`).

### The parse loop

- `FrontEndTypeCorrect`, `FrontEndIncludesOnce`, `FrontEndParsesTheProgram`. The
  invariant `ReachInv` says that the includes of a file that is DONE are in the
  list or still in `rest`. That every reached file is parsed then holds because
  the set of names in the list is closed under inclusion when nothing is left,
  and `Reached` is the least such set.
- `FrontEndVerdictIsCorrect`: of the programs whose files can be read and are not
  broken off, `do_parse` accepts exactly the well-formed ones. A file that is not
  broken off never ends in a construct that is taken for its end
  (`NotTakenForEndOfFile`), so no parenthesis stays open and a construct is parsed iff
  it is complete. For those programs `VerdictInv` compares the table with what has been parsed, text by text: a name
  is declared in the table iff a parsed construct declares it, and then only one
  does; it is there at all iff a parsed construct declares or mentions it; and
  every parsed construct is one that parses. A text is an occurrence of a file, not
  a file, since the main file can be parsed a second time as an include. Acceptance
  is then about all texts of the program by `ReachInv`, and each way to be rejected
  exhibits a construct, or two, for which the program is not well formed.

### Generic procedures

`ProcsInv` (theorem `ProcsInvariant`) is one inductive invariant for five
properties. Its parts hold each other up:

- `TableInv`: one symbol for a key in each scope; the flags of a symbol agree with
  each other; an instance is in the global scope and refers to the symbol it is an
  instance of, which is none itself and has the same name. `EntityTable_proofs` shows
  for each operation (`create_symbol`, `create_placeholder_symbol`,
  `create_generic_proc_permutation`, a declaration that takes over a placeholder,
  types and aliases, scopes and namespaces) what it changes and that it keeps
  `TableInv`.
- `NodesInv` and `WorkInv`: until an error is noted, a procedure symbol is in
  exactly one of three states: being parsed, marked for the worklist, or with one
  node in `toplevel_decls_`. A declared procedure cannot become a
  placeholder again, and an instance is marked once; otherwise it would get a second
  body.
- `ParserInv`: the namespaces, the scopes and the aliases, with what
  the clean-up has yet to take away. While an instance is parsed, the aliases that
  are not absolute are those of its type parameters: that is why the clean-up, which
  deletes these names only, is complete.
- `UsesInv`, `WantedInv`: an identifier denotes a symbol with the arguments
  it was written with, and no instance is in the table that no body asks for.
- `NamespaceInv`, `AcceptedInv`: what the properties say of a finished body and of a
  finished run.

From it follow `TypeCorrect`, `OneBodyPerProcedureHolds`, `ParserIsCleanHolds`,
`AcceptedUsesAreDeclaredHolds` and `InstanceInItsNamespaceHolds`.

- `BodiesAreSubstitutedHolds`. The strengthening (`BodiesInv`) is about the instance
  that is being parsed: some prefix of its text is in `uses` with the arguments put
  in, what is left is the rest of the text, and each type parameter is an alias for
  its argument (`Bound`). The step for a use rests on what `parse_type` makes of a
  name that is an alias (`AliasValue`, `ParsedValues`); all other steps must leave
  alone the arguments, the text and the type parameters of every instance that has
  a node or is being parsed.
- `CompilerKeepsThePromise`: `Spec => Promise!Safety`, the safety half of the
  refinement. Initial states map to initial states; `Identifier` is `Ask` when its
  symbol is an instance its body has not asked for before; `Permute` is `Begin`
  when the text is parsed, and `Fail` when it stops; `EndReparse` is `Complete`;
  `EndOfSource` is `EndOfSource`; `Check` is `Accept` or `Fail`; every message and
  every failed assertion is `Fail`; anything else is unseen. What is asked for is
  compared by key, so `KeysKept` is proved along with the invariant: no step changes
  the key of an instance, which is also an action property by itself
  (`KeysAreKept`). That `Begin` starts only what is asked for is `WantedInv`,
  and that `Accept` finds nothing missing is `WorkInv`.

### The lexer

`LexerReadsLongestTokens`, `LexerSkipsNothing` and `LexerCountsLines` state the three
properties of the run for texts of any length over any characters, and any sequence of
`advance`, `peek` and re-parses. The argument has three layers.

- Loops. A loop whose turns stay in a set, and move the cursor on or end, has ended
  after as many turns as the text has characters (`LoopEnds`, `ScanEnds`). The set is
  the loop's invariant: what lies between the start and the cursor is the beginning of
  a comment, string, word, number or hexadecimal literal (`StringPart`, `WordPart`,
  `NumberPart`, `HexPart`). So each token function gives a `Lexeme`, and none
  that begins there is longer, which takes for each type that the character behind the
  token cannot continue it, and that no other type begins with the same character
  (`OneType`). Numbers need the most: `Shape` says what a part of a number
  is by the places of its dot, its exponent and its sign, and `MantissaTyped` and `ExponentTyped` when it
  has the right type.
- One call of `advance`. Each turn of `_advance_impl` finds a blank or comment, the end,
  or the longest token (`TurnFound`); blanks follow one another (`BlankGoesOn`) and
  their lines add up (`LinesAddUp`), so the loop comes to the next token behind blanks
  (`NextTokenReaches`). `peek` comes back to where it was or to this token
  (`PeekComesBack`).
- The tokens. `LexerInv` says that each token fits behind the one before it
  (`TokenFits`), and that the cursor is behind blanks after the last token and has
  counted the line breaks outside of tokens (`Placed`), or is at a NUL if
  that was the end of the file. The properties are not inductive without the cursor,
  and it is not without the order of the tokens: when the lexer is set back to a
  token, the line stored there has to be the count for the tokens before it, none of which
  reaches over it.

### The parser of expressions

`ParenthesesAreReturnedHolds` and `NoOperandIsLostHolds` hold for texts of any length
with any operators, inside the grammar and outside it.

- Runs. `Run(ts, p, q, T, m)` says what the parser does on the stretch of the text from
  the place of `p` to that of `q`: its counter moves by the parentheses the stretch
  opens and does not close, and the trees `T` hold the operands of the stretch, once
  and in their order, and have `m` nodes at most. Runs of neighbouring stretches make a
  run (`RunGoesOn`), and a node over the trees of one is a run (`RunMakesNode`). The
  number of nodes is needed because `Operands` visits one node at a time and stops
  after as many as the text has tokens.
- Routines. Each routine is a run from where it begins to where it ends, or fails, if
  the calls it makes are (`SubscriptSucceeds`, `CallIsParsed`, `RightSucceeds` and so
  on). No routine keeps the counter: `parse_call` and `parse_parenthesized_expression`
  raise it, and some call of `parse` further down lowers it, so an invariant of one
  routine by itself does not exist. The claim about stretches is one that each routine
  keeps, whichever of them takes the closing parenthesis. A loop is a run after each
  turn (`LoopReaches`), and the depth of the calls is the induction (`ParsedSucceeds`),
  in which nothing is assumed of the text but its tokens.
- Texts. `WriterInv` (theorem `WriterInvHolds`) says that the parentheses a text opens
  and does not close are those in `open`. An accepted expression is a run over the
  whole text with nothing open, so the counter is back where it began, at zero.

That the tree is the one of the operators (`TextsAreParsed`) stays with TLC: `Tree` is a
recursive operator over trees.

### Recursive structs

`RecursionIsFoundHolds` is about the last pass, for a table with any number of
structs. The search of `check_recursive_structures` is a recursive function of the
structs seen so far; that it has a value is shown first (`SearchExists`: one turn is
monotone in the rest, so the least closed set solves the equation). Of the places of a
search that would refute the theorem one has seen the most structs (`LeastLeft`), and
the search goes on from there, to one that has seen more. What has been seen is a path
(`OnTheWay`), so a struct that comes up again makes it recursive; and where structs have
one struct in them at most, the path cannot leave recursive structs. The theorem is
about `JudgeSpec`, in which any step may change the table before the verdict, since
instantiation is a recursive operator: that `Verdict` is `Judge` and nothing else ends
in its verdicts is read off `GenericStructs`. It assumes `StructsAreKnown`, that the
structs in the structs of the table are in the table, which `AcceptedTypesResolve` checks.

### Only model-checked

- Liveness: `ParseTerminates`, `InspectionEnds`, and `Ends` in `KeepsThePromise`.
- `TextsAreParsed`, the statements of `Syntax`, `GenericStructs` but for its verdict, and
  `Body`: what they compute, or are compared with, is given by recursive operators over
  trees and types, which the prover's back ends do not take. Over numbers, positions and
  levels of calls, as in `ProcCodegenFlow`, `Lexer` and `ExprSyntax`, recursive functions
  and the least index replace them; over trees that would take a measure for each.

## Not modelled

- The error handler (`support/semantic_error_handler.cpp`, `lexer/errors.cpp`): it
  collects and prints. It ends the process one error before `MAX_ERROR_COUNT`; all
  that later phases see of it, whether an error was raised, is in each module, and so
  is the `exit(1)` of `raise_error` at the end of a file (`newline` in `FrontEnd`).
- `parse_type_alias` and `parse_visibility_extern` (`parser/directive.cpp`): the one
  enters an alias, an operation of `EntityTable`; the other sets linkage flags.
- The text of a type (`parser/type.cpp`) token by token: types are values in
  `GenericProcs` and `GenericStructs`.
- Dump output, AST destructors, configuration, printing: no state another part reads.
- LLVM: the instructions and the verifier are modelled from how `codegen/` uses them;
  targets, object files and `codegen/init.cpp` are not.

## Plan

1. Theorems about `Types`: coercion never narrows, `get_contained` undoes
   `get_pointer_to`, which relations are symmetric.
2. Theorems about `GenericStructs` once its recursive operators are functions:
   which entries are in `type_table_`, and that an instance is entered before its members.
3. Several files, `@alias` and `@extern` in `GenericProcs`.
