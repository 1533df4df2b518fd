---------------------------- MODULE MCNetChannel ----------------------------
(* A client and a server for model checking NetChannel.                     *)
EXTENDS NetChannel

CONSTANTS client, server

MCPeer(e) == IF e = client THEN server ELSE client
MCLimit == [e \in Ends |-> IF e = server THEN 7 ELSE 0]
MCLimitLive == [e \in Ends |-> IF e = server THEN 3 ELSE 0]
=============================================================================
