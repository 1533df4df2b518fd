----------------------------- MODULE NetChannel -----------------------------
(***************************************************************************)
(* Vital chunks on an established connection: CNetConnection (queueing,    *)
(* acknowledging and resending, src/engine/shared/network_conn.cpp) and    *)
(* CNetRecvUnpacker::FetchChunk (network.cpp), both ends of it, over a     *)
(* network that loses, repeats and reorders packets.                       *)
(*                                                                         *)
(* A chunk is its position among the vital chunks of its sender and an     *)
(* acknowledgement is such a position too; the code sees both modulo       *)
(* MaxSeq.  Chunks that are not vital carry no sequence number and are     *)
(* left out, except that any packet carries an acknowledgement.            *)
(***************************************************************************)
EXTENDS Integers, Sequences, FiniteSets, Functions

CONSTANTS
    Ends,       \* the two ends
    Peer(_),    \* the other end
    MaxSeq,     \* NET_MAX_SEQUENCE (1024)
    Cap,        \* chunks the resend buffer has room for (NET_CONN_BUFFERSIZE)
    PackMax,    \* chunks that fit into one packet
    Limit,      \* bound: vital chunks each end queues
    Window,     \* bound: chunks an end sends ahead of the last acknowledgement
    MaxNet      \* bound: packets the network keeps for each end while others pass

ASSUME NetChannelAssumption ==
    /\ IsFiniteSet(Ends) /\ Cardinality(Ends) = 2
    /\ \A e \in Ends : Peer(e) \in Ends /\ Peer(e) # e /\ Peer(Peer(e)) = e
    /\ MaxSeq \in Nat \ {0} /\ Cap \in Nat /\ PackMax \in Nat \ {0}
    /\ Limit \in [Ends -> Nat] /\ Window \in Nat /\ MaxNet \in Nat

VARIABLES
    queued,     \* m_Sequence, counted from the start of the connection
    ack,        \* m_Ack, counted likewise: the last chunk taken in sequence
    peerAck,    \* m_PeerAck
    buffer,     \* m_Buffer: the chunks kept for resending
    unsaved,    \* history: the chunks that found no room in m_Buffer
    pack,       \* the chunks in m_Construct
    asking,     \* NET_PACKETFLAG_RESEND in m_Construct
    inbox,      \* the chunks FetchChunk has yet to look at
    got,        \* history: the chunks handed to the program
    net         \* the packets on their way to each end

sender   == <<queued, buffer, unsaved>>
receiver == <<inbox, got>>
channelVars == <<sender, ack, peerAck, pack, asking, receiver, net>>

Packet(chunks, a, resend) == [chunks |-> chunks, ack |-> a, resend |-> resend]

ChannelInit ==
    /\ queued = [e \in Ends |-> 0]
    /\ ack = [e \in Ends |-> 0]
    /\ peerAck = [e \in Ends |-> 0]
    /\ buffer = [e \in Ends |-> <<>>]
    /\ unsaved = [e \in Ends |-> {}]
    /\ pack = [e \in Ends |-> <<>>]
    /\ asking = [e \in Ends |-> FALSE]
    /\ inbox = [e \in Ends |-> <<>>]
    /\ got = [e \in Ends |-> <<>>]
    /\ net = [e \in Ends |-> {}]

-----------------------------------------------------------------------------
(* Sequence numbers.                                                        *)

Num(i) == i % MaxSeq
Half == MaxSeq \div 2

\* CNetBase::IsSeqInBackroom, on numbers.
InBackroom(seq, a) ==
    LET bottom == a - Half
    IN  IF bottom < 0
          THEN seq <= a \/ seq >= bottom + MaxSeq
          ELSE seq <= a /\ seq >= bottom

\* Feed: "check if actual ack value is valid (own sequence..latest peer ack)".
AckValid(e, a) ==
    LET own == Num(queued[e])
        last == Num(peerAck[e])
    IN  IF own >= last
          THEN last <= Num(a) /\ Num(a) <= own
          ELSE ~(Num(a) < last /\ Num(a) > own)

\* AckChunks: the chunks left in b when those at its front that a
\* acknowledges are gone.
Unacked(b, a) ==
    LET acked(i) == InBackroom(Num(b[i]), Num(a))
        n == CHOOSE k \in 0..Len(b) :
                 /\ \A i \in 1..k : acked(i)
                 /\ k < Len(b) => ~acked(k + 1)
    IN  SubSeq(b, n + 1, Len(b))

\* QueueChunkEx for each chunk of s: a full m_Construct is flushed first.
\* Only the first packet sent carries the request to resend.
FlushedBy(e, s) == IF pack[e] \o s = <<>> THEN 0
                   ELSE (Len(pack[e] \o s) - 1) \div PackMax
FlushedPackets(e, s) ==
    {Packet(SubSeq(pack[e] \o s, PackMax * (k - 1) + 1, PackMax * k), ack[e],
            k = 1 /\ asking[e]) : k \in 1..FlushedBy(e, s)}

Enqueue(e, s) ==
    /\ pack' = [pack EXCEPT
                  ![e] = SubSeq(@ \o s, PackMax * FlushedBy(e, s) + 1, Len(@ \o s))]
    /\ asking' = [asking EXCEPT ![e] = @ /\ FlushedBy(e, s) = 0]

\* What exceeds MaxNet pushes out the packets that were there before.
Add(S, T) == IF Cardinality(S \cup T) <= MaxNet THEN S \cup T ELSE T

\* A packet is lost for good before the numbers it carries come up again,
\* which e's next chunk would make happen.
Timely(e, S) ==
    {p \in S : \A c \in Range(p.chunks) : queued[e] + 2 - c < MaxSeq}
TimelyAck(e, S) ==
    {p \in S : queued[e] + 1 - p.ack < MaxSeq}

-----------------------------------------------------------------------------
(* Sending.                                                                 *)

\* Mutant: the chunk is kept only if it was not flushed at once.
QueueChunk_KeepUnflushed(e) ==
    LET i == queued[e] + 1
    IN  /\ queued[e] < Limit[e]
        /\ queued[e] - peerAck[e] < Window
        /\ queued' = [queued EXCEPT ![e] = i]
        /\ Enqueue(e, <<i>>)
        /\ IF Len(buffer[e]) < Cap /\ FlushedBy(e, <<i>>) = 0
             THEN buffer' = [buffer EXCEPT ![e] = Append(@, i)]
             ELSE buffer' = buffer
        /\ unsaved' = IF Len(buffer[e]) < Cap THEN unsaved
                      ELSE [unsaved EXCEPT ![e] = @ \cup {i}]
        /\ net' = [net EXCEPT
                     ![Peer(e)] = Add(Timely(e, @), FlushedPackets(e, <<i>>)),
                     ![e] = TimelyAck(e, @)]
        /\ UNCHANGED <<ack, peerAck, receiver>>

\* QueueChunk with NET_CHUNKFLAG_VITAL: the chunk takes the next number, goes
\* into the packet under construction, and is kept for resending if there is
\* room ("hope nobody will ask for resend" otherwise).
QueueChunk(e) ==
    LET i == queued[e] + 1
    IN  /\ queued[e] < Limit[e]
        /\ queued[e] - peerAck[e] < Window
        /\ queued' = [queued EXCEPT ![e] = i]
        /\ Enqueue(e, <<i>>)
        /\ IF Len(buffer[e]) < Cap
             THEN /\ buffer' = [buffer EXCEPT ![e] = Append(@, i)]
                  /\ unsaved' = unsaved
             ELSE /\ unsaved' = [unsaved EXCEPT ![e] = @ \cup {i}]
                  /\ buffer' = buffer
        /\ net' = [net EXCEPT
                     ![Peer(e)] = Add(Timely(e, @), FlushedPackets(e, <<i>>)),
                     ![e] = TimelyAck(e, @)]
        /\ UNCHANGED <<ack, peerAck, receiver>>

Flush(e) ==
    /\ pack[e] # <<>> \/ asking[e]
    /\ net' = [net EXCEPT ![Peer(e)] =
                  Add(@, {Packet(pack[e], ack[e], asking[e])})]
    /\ pack' = [pack EXCEPT ![e] = <<>>]
    /\ asking' = [asking EXCEPT ![e] = FALSE]
    /\ UNCHANGED <<sender, ack, peerAck, receiver>>

\* Update: the oldest chunk has not been acknowledged for a second.  Flush
\* runs twice a second, so the chunk is no longer in m_Construct.
ResendOldest(e) ==
    /\ buffer[e] # <<>>
    /\ Head(buffer[e]) \notin Range(pack[e])
    /\ Enqueue(e, <<Head(buffer[e])>>)
    /\ net' = [net EXCEPT ![Peer(e)] =
                  Add(@, FlushedPackets(e, <<Head(buffer[e])>>))]
    /\ UNCHANGED <<sender, ack, peerAck, receiver>>

\* Mutant: an end that waits for no acknowledgement stays silent.
KeepAlive_Waiting(e) ==
    /\ pack[e] = <<>> /\ ~asking[e] /\ buffer[e] # <<>>
    /\ net' = [net EXCEPT ![Peer(e)] = Add(@, {Packet(<<>>, ack[e], FALSE)})]
    /\ UNCHANGED <<sender, ack, peerAck, pack, asking, receiver>>

\* Update: nothing was sent for a second, and Flush left nothing behind.
KeepAlive(e) ==
    /\ pack[e] = <<>> /\ ~asking[e]
    /\ net' = [net EXCEPT ![Peer(e)] = Add(@, {Packet(<<>>, ack[e], FALSE)})]
    /\ UNCHANGED <<sender, ack, peerAck, pack, asking, receiver>>

-----------------------------------------------------------------------------
(* Receiving.                                                               *)

\* Feed: a packet with an impossible acknowledgement is ignored altogether.
\* Otherwise what it asks to be resent is queued, what it acknowledges is
\* forgotten, and its chunks are left to FetchChunk.
Feed(e, p) ==
    IF AckValid(e, p.ack)
      THEN /\ peerAck' = [peerAck EXCEPT ![e] = p.ack]
           /\ IF p.resend THEN Enqueue(e, buffer[e]) ELSE UNCHANGED <<pack, asking>>
           /\ buffer' = [buffer EXCEPT ![e] = Unacked(@, p.ack)]
           /\ inbox' = [inbox EXCEPT ![e] = p.chunks]
      ELSE UNCHANGED <<peerAck, pack, asking, buffer, inbox>>

Resent(e, p) ==
    IF AckValid(e, p.ack) /\ p.resend THEN FlushedPackets(e, buffer[e]) ELSE {}

\* A packet arrives; the network may hold back a copy.
Recv(e, p, again) ==
    /\ inbox[e] = <<>>
    /\ Feed(e, p)
    /\ net' = [net EXCEPT ![e] = IF again THEN @ ELSE @ \ {p},
                          ![Peer(e)] = Add(@, Resent(e, p))]
    /\ UNCHANGED <<queued, unsaved, ack, got>>

\* Mutant: a chunk that is not old is taken, gaps or not.
FetchChunk_SkipGaps(e) ==
    /\ inbox[e] # <<>>
    /\ LET i == Head(inbox[e])
       IN  IF InBackroom(Num(i), Num(ack[e]))
             THEN UNCHANGED <<ack, got, asking>>
             ELSE /\ ack' = [ack EXCEPT ![e] = i]
                  /\ got' = [got EXCEPT ![e] = Append(@, i)]
                  /\ asking' = asking
    /\ inbox' = [inbox EXCEPT ![e] = Tail(@)]
    /\ UNCHANGED <<sender, peerAck, pack, net>>

\* FetchChunk on one chunk: next in sequence, old, or after a gap.
FetchChunk(e) ==
    /\ inbox[e] # <<>>
    /\ LET i == Head(inbox[e])
       IN  \/ /\ Num(i) = Num(Num(ack[e]) + 1)
              /\ ack' = [ack EXCEPT ![e] = i]
              /\ got' = [got EXCEPT ![e] = Append(@, i)]
              /\ asking' = asking
           \/ /\ Num(i) # Num(Num(ack[e]) + 1)
              /\ asking' = [asking EXCEPT
                              ![e] = @ \/ ~InBackroom(Num(i), Num(ack[e]))]
              /\ UNCHANGED <<ack, got>>
    /\ inbox' = [inbox EXCEPT ![e] = Tail(@)]
    /\ UNCHANGED <<sender, peerAck, pack, net>>

Lose(e, p) ==
    /\ net' = [net EXCEPT ![e] = @ \ {p}]
    /\ UNCHANGED <<sender, ack, peerAck, pack, asking, receiver>>

-----------------------------------------------------------------------------

ChannelNext ==
    \E e \in Ends :
        \/ QueueChunk(e) \/ Flush(e) \/ ResendOldest(e) \/ KeepAlive(e)
        \/ FetchChunk(e)
        \/ \E p \in net[e] : \/ \E again \in BOOLEAN : Recv(e, p, again)
                             \/ Lose(e, p)

ChannelSpec == ChannelInit /\ [][ChannelNext]_channelVars

\* A packet with acknowledgement a, and with chunk i if i > 0, arrives at e.
Heard(e, i, a) ==
    \E p \in net[e] :
        /\ p.ack = a
        /\ i = 0 \/ i \in Range(p.chunks)
        /\ Recv(e, p, FALSE)

\* Each end's Update runs again and again, FetchChunk runs until the packet
\* is used up, and a packet sent over and over gets through at times.
ChannelFairness ==
    \A e \in Ends :
        /\ WF_channelVars(Flush(e)) /\ WF_channelVars(ResendOldest(e))
        /\ WF_channelVars(KeepAlive(e)) /\ WF_channelVars(FetchChunk(e))
        /\ \A i \in 0..Limit[Peer(e)], a \in 0..Limit[e] : SF_channelVars(Heard(e, i, a))

\* A packet is used up before the network has dropped others for this end.
Prompt == \A e \in Ends : inbox[e] # <<>> => net'[e] = net[e]

FairChannelSpec == ChannelInit /\ [][ChannelNext /\ Prompt]_channelVars /\ ChannelFairness

-----------------------------------------------------------------------------

ChannelTypeOK ==
    \A e \in Ends :
        /\ queued[e] \in Nat /\ ack[e] \in Nat /\ peerAck[e] \in Nat
        /\ buffer[e] \in Seq(Nat) /\ Len(buffer[e]) <= Cap
        /\ unsaved[e] \subseteq Nat
        /\ pack[e] \in Seq(Nat) /\ Len(pack[e]) <= PackMax
        /\ asking[e] \in BOOLEAN
        /\ inbox[e] \in Seq(Nat) /\ got[e] \in Seq(Nat)
        /\ \A p \in net[e] :
              p.chunks \in Seq(Nat) /\ p.ack \in Nat /\ p.resend \in BOOLEAN

\* The connection is a reliable link for vital chunks.
Link == INSTANCE ReliableLink
LinkSpec == Link!LinkSpec

\* A chunk the peer has not got can still be resent, unless there was no room
\* to keep it: no acknowledgement, however late or repeated, drops it.
NothingForgotten ==
    /\ ChannelTypeOK
    /\ \A e \in Ends :
        (ack[Peer(e)] + 1)..queued[e] \subseteq Range(buffer[e]) \cup unsaved[e]

\* A vital chunk reaches the program at the other end, unless the resend
\* buffer was full when some chunk was queued.
Delivered ==
    \A e \in Ends : \A i \in 1..Limit[e] :
        queued[e] >= i ~> Len(got[Peer(e)]) >= i \/ unsaved[e] # {}
=============================================================================
