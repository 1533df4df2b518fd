SPECIFICATION FairSpec
CONSTANTS
    v4 = v4
    v6 = v6
    Protocols = {v4, v6}
    Exempt = {v6}
    Configs = {{v4, v6}, {v4}, {v6}}
    MaxLife = 2
    MaxSerial = 1
    MaxAge = 1
    MaxFlight <- MCMaxFlight
    MaxTrouble = 1
INVARIANTS
    ListsAgree
    StatusOfNewest
PROPERTIES
    InfoAdvances
    ComesToSettle
CHECK_DEADLOCK FALSE
