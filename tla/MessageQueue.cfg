SPECIFICATION Spec
CONSTANTS
    MaxSize = 2
    MaxMessages = 4
INVARIANTS
    TypeOK
    SnapshotAccounts
    StoppedIsQuiet
PROPERTIES
    ServiceSpec
    CallsReturn
    AcceptedIsServed
CHECK_DEADLOCK FALSE
