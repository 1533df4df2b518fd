----------------------------- MODULE NetSession -----------------------------
(***************************************************************************)
(* Connections as CNetServer keeps them (network_server.cpp) with the      *)
(* parts of CNetConnection (network_conn.cpp) that open, close and time    *)
(* out a connection, the callbacks of CServer (server.cpp) and the chat    *)
(* command that reclaims a timed out player (ddracechat.cpp, ConTimeout).  *)
(* Clients are CNetClient (network_client.cpp), each at an address of its  *)
(* own, over a network that loses, repeats and reorders messages.          *)
(*                                                                         *)
(* Tokens depend on the address alone, and every client here knows its     *)
(* own.  Sequence numbers and acknowledgements are those of NetChannel: a  *)
(* message the code rejects for them counts as lost.                       *)
(***************************************************************************)
EXTENDS Integers, FiniteSets, FiniteSetsExt

CONSTANTS
    Clients,    \* client programs; also their addresses
    Ip(_),      \* the address without the port
    Code(_),    \* the timeout code a client sends
    NoCode,     \* the empty timeout code
    NoClient,   \* the address of a slot never used
    NumSlots,   \* m_MaxClients
    PerIp,      \* m_MaxClientsPerIp
    PackMax,    \* chunks in one packet
    MaxEpoch,   \* bound: how often each client connects
    MaxNet      \* bound: messages the network keeps while others pass

Slots == 0..(NumSlots - 1)
NoSlot == -1

ASSUME NetSessionAssumption ==
    /\ NumSlots \in Nat /\ PerIp \in Nat \ {0} /\ PackMax \in Nat
    /\ MaxEpoch \in [Clients -> Nat] /\ MaxNet \in Nat
    /\ NoClient \notin Clients
    /\ \A c \in Clients : Code(c) # NoCode

VARIABLES
    cstate,     \* m_State of each client's connection
    epoch,      \* history: how often each client has called Connect
    conn,       \* m_State of each slot's connection
    addr,       \* its m_PeerAddr
    protected,  \* its m_TimeoutProtected
    situation,  \* its m_TimeoutSituation
    closed,     \* its m_RemoteClosed
    peer,       \* history: the epoch of the client it was set up for
    app,        \* CServer::CClient::m_State of each slot, in three stages
    code,       \* CPlayer::m_aTimeoutCode of each slot
    unpack,     \* m_RecvUnpacker: the slot, the sender and the chunks left
    net         \* messages on their way

clientVars == <<cstate, epoch>>
connVars   == <<conn, addr, protected, situation, closed, peer>>
appVars    == <<app, code>>
vars == <<clientVars, connVars, appVars, unpack, net>>

ToServer == {"connect", "accept", "data", "close"}
ToClient == {"connectaccept", "refuse"}
Msg(type, c, e) == [type |-> type, client |-> c, epoch |-> e]

Init ==
    /\ cstate = [c \in Clients |-> "offline"]
    /\ epoch = [c \in Clients |-> 0]
    /\ conn = [s \in Slots |-> "offline"]
    /\ addr = [s \in Slots |-> NoClient]
    /\ protected = [s \in Slots |-> FALSE]
    /\ situation = [s \in Slots |-> FALSE]
    /\ closed = [s \in Slots |-> FALSE]
    /\ peer = [s \in Slots |-> 0]
    /\ app = [s \in Slots |-> "empty"]
    /\ code = [s \in Slots |-> NoCode]
    /\ unpack = [slot |-> NoSlot, from |-> NoClient, left |-> 0]
    /\ net = {}

Sent(S) == net' = IF Cardinality(net \cup S) <= MaxNet THEN net \cup S ELSE S

-----------------------------------------------------------------------------
(* Clients.                                                                 *)

Connect(c) ==
    /\ cstate[c] = "offline"
    /\ epoch[c] < MaxEpoch[c]
    /\ cstate' = [cstate EXCEPT ![c] = "connect"]
    /\ epoch' = [epoch EXCEPT ![c] = @ + 1]
    /\ Sent({Msg("connect", c, epoch[c] + 1)})
    /\ UNCHANGED <<connVars, appVars, unpack>>

\* Update: another SendConnect after half a second, or anything an online
\* client has to say.
ClientSend(c) ==
    /\ \/ cstate[c] = "connect" /\ Sent({Msg("connect", c, epoch[c])})
       \/ cstate[c] = "online" /\ Sent({Msg("data", c, epoch[c])})
    /\ UNCHANGED <<clientVars, connVars, appVars, unpack>>

\* Disconnect tells the peer, if there is one by now.
ClientDisconnect(c) ==
    /\ cstate[c] # "offline"
    /\ cstate' = [cstate EXCEPT ![c] = "offline"]
    /\ IF cstate[c] = "online" THEN Sent({Msg("close", c, epoch[c])}) ELSE net' = net
    /\ UNCHANGED <<epoch, connVars, appVars, unpack>>

\* Nothing was heard from the server for too long.  The server is not told.
ClientTimeout(c) ==
    /\ cstate[c] = "online"
    /\ cstate' = [cstate EXCEPT ![c] = "offline"]
    /\ UNCHANGED <<epoch, connVars, appVars, unpack, net>>

\* Feed: the first CONNECTACCEPT brings the client online, and only that one
\* is answered with ACCEPT.
ClientAccepted(c) ==
    \E m \in net :
        /\ m.type = "connectaccept" /\ m.client = c
        /\ cstate[c] = "connect"
        /\ cstate' = [cstate EXCEPT ![c] = "online"]
        /\ Sent({Msg("accept", c, epoch[c])})
        /\ UNCHANGED <<epoch, connVars, appVars, unpack>>

ClientRefused(c) ==
    \E m \in net :
        /\ m.type = "refuse" /\ m.client = c
        /\ cstate[c] # "offline"
        /\ cstate' = [cstate EXCEPT ![c] = "offline"]
        /\ net' = net \ {m}
        /\ UNCHANGED <<epoch, connVars, appVars, unpack>>

-----------------------------------------------------------------------------
(* The server's slots.                                                      *)

Matching(c) == {s \in Slots : conn[s] \notin {"offline", "error"} /\ addr[s] = c}

GetClientSlot(c) == IF Matching(c) = {} THEN NoSlot ELSE Max(Matching(c))

\* A slot in error that Update keeps for its player.
Waiting(s) == conn[s] = "error" /\ protected[s] /\ situation[s]

NumClientsWithAddr(c) ==
    Cardinality({s \in Slots : /\ conn[s] = "online" \/ Waiting(s)
                               /\ Ip(addr[s]) = Ip(c)})

Offline == {s \in Slots : conn[s] = "offline"}

\* DirectInit on the first slot that is offline, and NewClientCallback.
Accept(c, e) ==
    LET s == Min(Offline)
    IN  /\ conn' = [conn EXCEPT ![s] = "online"]
        /\ addr' = [addr EXCEPT ![s] = c]
        /\ peer' = [peer EXCEPT ![s] = e]
        /\ protected' = [protected EXCEPT ![s] = FALSE]
        /\ situation' = [situation EXCEPT ![s] = FALSE]
        /\ closed' = [closed EXCEPT ![s] = FALSE]
        /\ app' = [app EXCEPT ![s] = "join"]

\* Mutant: slots that wait for their player are not counted.
MayAccept_OnlineOnly(c) ==
    /\ Cardinality({s \in Slots : conn[s] = "online" /\ Ip(addr[s]) = Ip(c)}) + 1 <= PerIp
    /\ Offline # {}

MayAccept(c) ==
    /\ NumClientsWithAddr(c) + 1 <= PerIp
    /\ Offline # {}

\* TryAcceptClient; Connlimit may refuse at any time.
TryAcceptClient(m) ==
    /\ \/ /\ MayAccept(m.client)
          /\ Accept(m.client, m.epoch)
          /\ net' = net
       \/ /\ Sent({Msg("refuse", m.client, m.epoch)})
          /\ UNCHANGED <<connVars, app>>
    /\ UNCHANGED <<code, unpack>>

\* Reset(true) and ClientRejoinCallback, which sends the map again.
Rejoin(s, m) ==
    /\ closed' = [closed EXCEPT ![s] = FALSE]
    /\ peer' = [peer EXCEPT ![s] = m.epoch]
    /\ UNCHANGED <<conn, addr, protected, situation, appVars, unpack>>

\* Mutant: packets are read without regard to the chunks of the last one.
Drained_Always == TRUE

\* No chunk is left of the last packet.
Drained == unpack.left = 0

\* One turn of Recv: a message arrives while no chunk is left of the last
\* one.  The network may repeat it.
ServerRecv(m) ==
    LET s == GetClientSlot(m.client)
    IN  /\ Drained
        /\ \/ /\ m.type = "connect"
              /\ Sent({Msg("connectaccept", m.client, m.epoch)})
              /\ UNCHANGED <<connVars, appVars, unpack>>
           \/ /\ m.type = "accept" /\ s = NoSlot
              /\ TryAcceptClient(m)
           \/ /\ m.type = "accept" /\ s # NoSlot
              /\ Rejoin(s, m)
              /\ net' = net
           \/ /\ m.type = "data" /\ s # NoSlot
              /\ unpack' = [slot |-> s, from |-> m.client, left |-> PackMax]
              /\ UNCHANGED <<connVars, appVars, net>>
           \/ /\ m.type = "close" /\ s # NoSlot
              /\ conn' = [conn EXCEPT ![s] = "error"]
              /\ closed' = [closed EXCEPT ![s] = TRUE]
              /\ UNCHANGED <<addr, protected, situation, peer, appVars,
                             unpack, net>>
    /\ UNCHANGED clientVars

Lose(m) ==
    /\ net' = net \ {m}
    /\ UNCHANGED <<clientVars, connVars, appVars, unpack>>

-----------------------------------------------------------------------------
(* Closing and timing out.                                                  *)

\* The slots of D go offline with sit in m_TimeoutSituation: DelClientCallback
\* and Disconnect, which tells those that did not close and did not time out.
Dropped(D, c, sit, cl) ==
    /\ conn' = [s \in Slots |-> IF s \in D THEN "offline" ELSE c[s]]
    /\ protected' = [s \in Slots |-> protected[s] /\ s \notin D]
    /\ situation' = [s \in Slots |-> sit[s] /\ s \notin D]
    /\ closed' = [s \in Slots |-> cl[s] /\ s \notin D]
    /\ app' = [s \in Slots |-> IF s \in D THEN "empty" ELSE app[s]]
    /\ code' = [s \in Slots |-> IF s \in D THEN NoCode ELSE code[s]]
    /\ LET told == {s \in D : ~cl[s] /\ ~sit[s]}
       IN  IF told = {} THEN net' = net
           ELSE Sent({Msg("refuse", addr[s], peer[s]) : s \in told})
    /\ UNCHANGED <<addr, peer>>

Online == {s \in Slots : conn[s] = "online"}

\* Mutant: the protection of a player who timed out is never over.
NextSituation_Forever(T, P) ==
    [s \in Slots |-> s \in T \/ (situation[s] /\ s \notin Online)]

\* m_TimeoutSituation after Update has seen every slot.
NextSituation(T, P) ==
    [s \in Slots |-> s \in T \/ (situation[s] /\ s \notin Online \cup P)]

\* Update for every slot: those of T have heard nothing for m_ConnTimeout, the
\* timeout protection of those of P is over.
Update(T, P) ==
    LET c == [s \in Slots |-> IF s \in T THEN "error" ELSE conn[s]]
        sit == NextSituation(T, P)
        dead == {s \in Slots : c[s] = "error" /\ ~(protected[s] /\ sit[s])}
    IN  /\ Drained
        /\ T \subseteq Online
        /\ P \subseteq {s \in Slots : conn[s] = "error" /\ situation[s]}
        /\ \/ T \cup P \cup dead # {}
           \/ \E s \in Online : situation[s]
        /\ Dropped(dead, c, sit, closed)
        /\ UNCHANGED <<clientVars, unpack>>

\* Kick: Drop on a slot that is in use, also by the handler of a chunk.
Kick(s) ==
    /\ app[s] # "empty"
    /\ Dropped({s}, conn, situation, closed)
    /\ UNCHANGED <<clientVars, unpack>>

-----------------------------------------------------------------------------
(* Chunks.                                                                  *)

\* Those of a slot that went offline while it was being read find no client.
FetchChunk ==
    /\ unpack.left > 0
    /\ unpack' = [unpack EXCEPT !.left = @ - 1]

Ignore ==
    /\ FetchChunk
    /\ UNCHANGED <<clientVars, connVars, appVars, net>>

\* The client is ready to play: OnClientConnected.
Enter ==
    /\ FetchChunk
    /\ app[unpack.slot] = "join"
    /\ app' = [app EXCEPT ![unpack.slot] = "play"]
    /\ UNCHANGED <<clientVars, connVars, code, net>>

\* Mutant: any player in error will do.
Reclaimable_Any(s, k) == {i \in Slots \ {s} : app[i] = "play" /\ conn[i] = "error"}

\* The players in error with this timeout code.
Reclaimable(s, k) ==
    {i \in Slots \ {s} : app[i] = "play" /\ code[i] = k /\ conn[i] = "error"}

\* Mutant: the server's client is not told that the slot is free.
SetTimedOut_NoCallback(i, s) ==
    /\ conn' = [conn EXCEPT ![i] = "online", ![s] = "offline"]
    /\ addr' = [addr EXCEPT ![i] = addr[s]]
    /\ peer' = [peer EXCEPT ![i] = peer[s]]
    /\ protected' = [protected EXCEPT ![s] = FALSE]
    /\ situation' = [situation EXCEPT ![s] = FALSE]
    /\ closed' = [closed EXCEPT ![i] = FALSE, ![s] = FALSE]
    /\ UNCHANGED appVars

\* SetTimedOut: slot i takes over the connection of slot s.
SetTimedOut(i, s) ==
    /\ conn' = [conn EXCEPT ![i] = "online", ![s] = "offline"]
    /\ addr' = [addr EXCEPT ![i] = addr[s]]
    /\ peer' = [peer EXCEPT ![i] = peer[s]]
    /\ protected' = [protected EXCEPT ![s] = FALSE]
    /\ situation' = [situation EXCEPT ![s] = FALSE]
    /\ closed' = [closed EXCEPT ![i] = FALSE, ![s] = FALSE]
    /\ app' = [app EXCEPT ![s] = "empty"]
    /\ code' = [code EXCEPT ![s] = NoCode]

\* ConTimeout with an argument, or without one for the player's own code.
ConTimeout ==
    LET s == unpack.slot
    IN  /\ FetchChunk
        /\ app[s] = "play"
        /\ \E arg \in {Code(addr[s]), NoCode} :
              LET k == IF arg = NoCode THEN code[s] ELSE arg
              IN  IF Reclaimable(s, k) # {}
                    THEN SetTimedOut(Min(Reclaimable(s, k)), s)
                    ELSE /\ protected' = [protected EXCEPT ![s] = TRUE]
                         /\ code' = [code EXCEPT ![s] = arg]
                         /\ UNCHANGED <<conn, addr, situation, closed, peer, app>>
        /\ UNCHANGED <<clientVars, net>>

-----------------------------------------------------------------------------

ClientStep(c) ==
    \/ Connect(c) \/ ClientSend(c) \/ ClientDisconnect(c) \/ ClientTimeout(c)
    \/ ClientAccepted(c) \/ ClientRefused(c)

Chunk == Ignore \/ Enter \/ ConTimeout

Next ==
    \/ \E c \in Clients : ClientStep(c)
    \/ \E m \in net : ServerRecv(m) \/ Lose(m)
    \/ \E T, P \in SUBSET Slots : Update(T, P)
    \/ \E s \in Slots : Kick(s)
    \/ Chunk

Spec == Init /\ [][Next]_vars

\* An Update that finds the protection of slot s, if it has any, over.
Settle(s) == \E T, P \in SUBSET Slots : (Waiting(s) => s \in P) /\ Update(T, P)

\* The server's loop calls Update and reads its packets again and again, and
\* time goes by.
FairSpec ==
    /\ Spec
    /\ WF_vars(Chunk)
    /\ \A s \in Slots : SF_vars(Settle(s))

-----------------------------------------------------------------------------

TypeOK ==
    /\ cstate \in [Clients -> {"offline", "connect", "online"}]
    /\ epoch \in [Clients -> Nat] /\ \A c \in Clients : epoch[c] <= MaxEpoch[c]
    /\ conn \in [Slots -> {"offline", "online", "error"}]
    /\ addr \in [Slots -> Clients \cup {NoClient}]
    /\ protected \in [Slots -> BOOLEAN]
    /\ situation \in [Slots -> BOOLEAN]
    /\ closed \in [Slots -> BOOLEAN]
    /\ peer \in [Slots -> Nat]
    /\ app \in [Slots -> {"empty", "join", "play"}]
    /\ code \in [Slots -> {NoCode} \cup {Code(c) : c \in Clients}]
    /\ unpack \in [slot : Slots \cup {NoSlot}, from : Clients \cup {NoClient}, left : 0..PackMax]
    /\ net \subseteq [type : ToServer \cup ToClient, client : Clients, epoch : Nat]

\* The network and the game agree about which slots are taken, none is used by
\* one of them and free for the other one; and an address has at most one live
\* connection, so that GetClientSlot has no choice.
SlotsAgree ==
    /\ TypeOK
    /\ \A s \in Slots : conn[s] = "offline" <=> app[s] = "empty"
    /\ \A c \in Clients : Cardinality(Matching(c)) <= 1

\* sv_max_clients_per_ip holds at all times, players that are waited for and
\* connections that were handed over included.
PerIpHolds == \A c \in Clients : NumClientsWithAddr(c) <= PerIp

\* A chunk is never taken for one of another client, even when the slot it
\* came in by was dropped or handed over since its packet arrived.
ChunksAttributed ==
    unpack.left > 0 /\ conn[unpack.slot] # "offline"
        => addr[unpack.slot] = unpack.from

\* A player protected by a timeout code is only ever controlled by a client
\* that knows the code.
TeeOwned ==
    \A s \in Slots : app[s] = "play" /\ code[s] # NoCode => Code(addr[s]) = code[s]

\* A connection in error does not stay so: its player comes back, or it is
\* dropped in the end.
ErrorsEnd == \A s \in Slots : (conn[s] = "error") ~> (conn[s] # "error")
=============================================================================
