--------------------------- MODULE MCProcCodegen ---------------------------
(* Values of the constants for checking ProcCodegen. *)
EXTENDS ProcCodegenFlow

AllStatements == {"plain", "undispatched", "defer", "branch", "while", "for",
                  "dowhile", "brk", "cont", "ret"}
Structured    == {"defer", "branch", "for", "brk", "cont", "ret"}

EitherLeaves == BOOLEAN
ShortLiteral == {0, 3, 6}     \* none, "a" and "abcd", with their quotes
=============================================================================
