SPECIFICATION Spec
CONSTANTS
    a = a
    b = b
    c = c
    Structs <- MCStructs
    Idents <- MCIdents
    Words <- MCWords
    Plain = Plain
    Unit = Unit
    None = None
    Versions = {"1.0"}
    Scenarios <- MCScenarios
CHECK_DEADLOCK FALSE
INVARIANTS
    SchemaMatches
