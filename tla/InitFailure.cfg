CONSTANTS
    MainT = MainT
    FileA = FileA
    DotA = DotA
    FileB = FileB
    Gone = Gone
    fm = fm
    fa = fa
    fb = fb
    x = x
    y = y
    Names <- AllNames
    Files <- AllFiles
    FileOf <- NameFile
    Main = MainT
    Syms = {x, y}
    Sources <- SoundSources
    Absent <- AbsentNames
    Unreadable <- AnyUnreadable
SPECIFICATION Spec
INVARIANTS
    InitFailureIsFatal
