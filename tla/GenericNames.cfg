CONSTANTS
    PointerBits = 1
    Ids = {"f", "g"}
    NamespacePaths <- PathAB
    Texts <- Naming
    GenericParams <- TwoParams
    Structs = {"S"}
    Enums <- EnumE
    Interns = {FALSE, TRUE}
    WarnIsErr = FALSE
    MaxItems = 3
SPECIFICATION Spec
INVARIANTS
    ParserIsClean
    InstanceInItsNamespace
    AcceptedUsesAreDeclared
