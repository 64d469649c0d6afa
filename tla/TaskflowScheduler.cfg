SPECIFICATION Spec
CONSTANTS
    Nodes = {n1, n2, n3, n4}
    Start = n1
    None = None
    Iterations = 2
INVARIANTS
    TypeOK
    BudgetSuffices
    RunsAsWritten
    ReportsSettled
    CancelledSoon
PROPERTIES
    Terminates
CHECK_DEADLOCK FALSE
