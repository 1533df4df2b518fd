SPECIFICATION RingSpec
CONSTANTS
    single = single
    double = double
    half = half
    whole = whole
    oversize = oversize
    Units = 8
    Unit = 4
    Items = {single, double, half, whole, oversize}
    Bytes <- MCBytes
    Null = Null
INVARIANTS
    Tiles
    WalksBothWays
PROPERTIES
    FifoSpec
