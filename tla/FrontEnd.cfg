CONSTANTS
    MainT = MainT
    FileA = FileA
    DotA = DotA
    FileB = FileB
    Gone = Gone
    fm = fm
    fa = fa
    fb = fb
    x = x
    y = y
    Names <- AllNames
    Files <- AllFiles
    FileOf <- NameFile
    Main = MainT
    Syms = {x, y}
    Sources <- AnySources
    Absent <- AbsentNames
    Unreadable <- MaybeUnreadable
SPECIFICATION Spec
INVARIANTS
    IncludedOnce
    VerdictIsCorrect
    ParsedIsReached
    TypeOK
PROPERTIES
    ParseTerminates
