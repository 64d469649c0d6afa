SPECIFICATION Spec
CONSTANTS
    SampleCount = 2
    Positions = {p1, p2}
    GateBlocks = TRUE
PROPERTY
    ClearNeedsFreshSamples
