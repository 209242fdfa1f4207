SPECIFICATION Spec
CONSTANTS
    Members <- MCMembers
    Symbols <- MCSymbols
    Locals <- MCLocals
    Returns <- MCReturns
    Globals <- MCGlobals
    Statements <- MCStatements
    Lone <- MCExpressions
    MaxNodes = 2
INVARIANTS
    AcceptedIsGenerated
    IntegersKeepTheirWidth
    MemoryIsTyped
    ContextIsKept
    ConstantsAreNotWritten
    DeclaredTypesAreKnown
CHECK_DEADLOCK FALSE
