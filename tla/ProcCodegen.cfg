CONSTANTS
    Statements <- AllStatements
    MaxStmts = 4
    MaxProcs = 2
    CondLeaves <- EitherLeaves
    LiteralSizes <- ShortLiteral
SPECIFICATION Spec
INVARIANTS
    TypeOK
    NoContextBetweenProcedures
    DeferStackMatchesBodies
    LoopContextIsInnermost
    JumpAndEntryAssertsHold
    OpenBlocksAreWaitedFor
    VerifierAccepts
    EveryPathRunsItsDefers
PROPERTIES
    SealedBlocksStaySealed
