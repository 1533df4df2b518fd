SPECIFICATION FairSpec
CONSTANTS
    p1 = p1
    p2 = p2
    Players = {p1, p2}
    None = None
    ScoreLimit = 1
    Warmup = 2
    EndTicks = 2
    ForceReady = 2
    StartCountdowns = {0, 1}
    UnpauseCountdown = 1
    MaxScore = 2
INVARIANTS
    TimersAgree
PROPERTIES
    EndsByPlay
    WaitsForSomebody
    NeverFrozen
