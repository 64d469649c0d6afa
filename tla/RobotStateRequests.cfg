SPECIFICATION Spec
CONSTANTS
    None = None
    m1 = m1
    m2 = m2
    t1 = t1
    w1 = w1
    w2 = w2
    Targets = {t1}
    Waypoints = {w1, w2}
    Maps = {m1, m2}
    Arms = {left, right}
    MaxImages = 1
    Stale = 1
    Distances = {0, 5, 9}
    Rotations = {0, 5, 6}
    MaxStep = 2
    Limit = 8
    Hold = 1
    Budget = 6
    Loads <- MCLoads
INVARIANTS
    TypeOK
    OneManifestWriter
    StopTellsImages
    RecordingConsistent
    ArmCommands
PROPERTIES
    SessionSpec
    ChangesOnlyAsked
    RequestsAnswered
    CaptureReturnsLease
