SPECIFICATION Spec
CONSTANTS
    SampleCount = 3
    Positions = {p1, p2}
    GateBlocks = TRUE
INVARIANTS
    TypeOK
    GateCoversInterruption
PROPERTIES
    NoControlWhileOwed
    ClearedAtRest
    OperationsReturn
