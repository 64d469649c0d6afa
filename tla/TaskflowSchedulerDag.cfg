SPECIFICATION Spec
CONSTANTS
    Nodes = {n1, n2, n3, n4}
    Start = n1
    None = None
    Iterations = 1
INVARIANTS
    ParsedIsDag
CHECK_DEADLOCK FALSE
