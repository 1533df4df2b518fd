\* Six sequence numbers, so that seven chunks use some twice; packets overtake
\* each other.
CONSTANTS
    client = client
    server = server
    Ends = {client, server}
    Peer <- MCPeer
    MaxSeq = 6
    Cap = 2
    PackMax = 1
    Limit <- MCLimit
    Window = 2
    MaxNet = 2
SPECIFICATION ChannelSpec
INVARIANT NothingForgotten
PROPERTY LinkSpec
CHECK_DEADLOCK FALSE
