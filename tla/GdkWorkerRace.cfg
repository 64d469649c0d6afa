SPECIFICATION Spec
CONSTANTS
    Callers = {t1}
    Main = main
    MaxCommands = 2
INVARIANT
    CancelledReported
CHECK_DEADLOCK FALSE
