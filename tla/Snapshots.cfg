SPECIFICATION FairSpec
CONSTANTS
    None = None
    Keep = 1
    MaxParts = 2
    Lag = 1
    MaxDelay = 1
    MaxNet = 2
    MaxEnter = 1
INVARIANTS
    Faithful
    PointersHeld
PROPERTY
    CatchesUp
