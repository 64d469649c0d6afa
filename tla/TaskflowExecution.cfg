SPECIFICATION Spec
CONSTANTS
    Apps = {a1, a2}
    NoApp = NoApp
    Steps = 2
    MaxRuns = 2
    MaxCancels = 2
INVARIANTS
    TypeOK
    CancelStopsRun
    OverIsEarned
    UnconfirmedIsTold
PROPERTIES
    KillEndsRun
    RunsEnd
CHECK_DEADLOCK FALSE
