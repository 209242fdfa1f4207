CONSTANTS
    Statements <- Structured
    MaxStmts = 4
    MaxProcs = 1
    CondLeaves <- EitherLeaves
    LiteralSizes <- ShortLiteral
SPECIFICATION Spec
PROPERTY DeferredLiteralIsStable
