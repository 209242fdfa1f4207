CONSTANTS
    Structs <- ABS
    generic_type_names <- TypeParams
    MemberTypes <- InstanceMembers
    SymbolTypes <- InstanceSymbols
    NodeTypes <- InstanceNodes
    MaxMembers = 3
    MaxUses = 2
    MaxNesting = 6
SPECIFICATION Spec
INVARIANTS
    TypesMeanTheirSource
    AcceptedTypesResolve
    RecursionIsFound
PROPERTIES
    InspectionEnds
