\* Three clients for two slots, one for each address.
CONSTANTS
    player1 = player1
    player2 = player2
    guest = guest
    home = home
    away = away
    codeP = codeP
    codeG = codeG
    Clients = {player1, player2, guest}
    Ip <- MCIp
    Code <- MCCode
    NoCode = NoCode
    NoClient = NoClient
    NumSlots = 2
    PerIp = 1
    PackMax = 2
    MaxEpoch <- MCOnce
    MaxNet = 1
SPECIFICATION Spec
INVARIANTS PerIpHolds ChunksAttributed TeeOwned
CHECK_DEADLOCK FALSE
