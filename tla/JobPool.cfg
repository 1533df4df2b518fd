\* Two workers, three jobs; thread schedules are fair.
SPECIFICATION FairSpec
CONSTANTS
    a1 = a1
    a2 = a2
    u1 = u1
    w1 = w1
    w2 = w2
    NoJob = NoJob
    Jobs = {a1, a2, u1}
    Abortables = {a1, a2}
    Workers = {w1, w2}
INVARIANTS
    ListServed
    UnabortableComplete
PROPERTIES
    AbortIsFinal
    JobsComplete
    ShutdownReturns
