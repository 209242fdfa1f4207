CONSTANTS
    PointerBits = 1
    Ids = {"f", "g", "v"}
    NamespacePaths = {}
    Texts <- Asking
    GenericParams <- OneParam
    Structs = {}
    Enums = {}
    Interns = {FALSE, TRUE}
    WarnIsErr = TRUE
    MaxItems = 3
SPECIFICATION Spec
INVARIANTS
    TypeOK
    OneBodyPerProcedure
    BodiesAreSubstituted
PROPERTIES
    KeepsThePromise
