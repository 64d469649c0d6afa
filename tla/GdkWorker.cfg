SPECIFICATION Spec
CONSTANTS
    Callers = {t1}
    Main = main
    MaxCommands = 3
INVARIANTS
    TypeOK
    SingleWorker
    IdleBetweenCommands
    CancelHitsLiveCommand
    InterruptedNeverSucceeds
    ShutdownLeavesNoWorker
PROPERTY
    EveryCommandReturns
    ServiceSpec
CHECK_DEADLOCK FALSE
