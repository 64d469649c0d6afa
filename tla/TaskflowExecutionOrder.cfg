SPECIFICATION Spec
CONSTANTS
    Apps = {a1, a2}
    NoApp = NoApp
    Steps = 2
    MaxRuns = 2
    MaxCancels = 1
PROPERTY
    FinalIsLast
CHECK_DEADLOCK FALSE
