\* A tick is 2^29 ns: m_Timeout has eight values, five seconds are nine ticks.
CONSTANTS
    MaxIds = 3
    Delay = 9
    Word = 8
    MaxTime = 6
SPECIFICATION Spec
INVARIANTS Exclusive ListsExact
PROPERTY PoolSpec
