\* Up to two chunks to a packet, and a resend buffer that may be full.
CONSTANTS
    client = client
    server = server
    Ends = {client, server}
    Peer <- MCPeer
    MaxSeq = 8
    Cap = 2
    PackMax = 2
    Limit <- MCLimitLive
    Window = 3
    MaxNet = 1
SPECIFICATION FairChannelSpec
PROPERTIES Delivered
CHECK_DEADLOCK FALSE
