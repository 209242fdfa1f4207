SPECIFICATION Spec
CONSTANTS
    Simple <- MCSimple
    Heads <- MCHeads
    MaxStatements = 3
INVARIANTS ProgramsAreParsed NamesAreInTheirBlocks
CHECK_DEADLOCK FALSE
