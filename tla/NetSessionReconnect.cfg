\* A player with two addresses who connects from one of them twice.
CONSTANTS
    player1 = player1
    player2 = player2
    guest = guest
    home = home
    away = away
    codeP = codeP
    codeG = codeG
    Clients = {player1, player2}
    Ip <- MCIp
    Code <- MCCode
    NoCode = NoCode
    NoClient = NoClient
    NumSlots = 2
    PerIp = 2
    PackMax = 1
    MaxEpoch <- MCTwice
    MaxNet = 1
SPECIFICATION FairSpec
 
PROPERTY ErrorsEnd
CHECK_DEADLOCK FALSE
