---------------------------- MODULE ReliableLink ----------------------------
(***************************************************************************)
(* What a connection promises its two ends about vital chunks: each end    *)
(* gets what the other one queued, in that order, nothing twice and        *)
(* nothing left out.                                                       *)
(***************************************************************************)
EXTENDS Naturals, Sequences

CONSTANTS
    Ends,       \* the two ends of the connection
    Peer(_)     \* the other end

VARIABLES
    queued,     \* number of vital chunks each end has queued; chunk i is the i-th
    got         \* the chunks handed to each end's program

linkVars == <<queued, got>>

LinkInit ==
    /\ queued = [e \in Ends |-> 0]
    /\ got = [e \in Ends |-> <<>>]

LinkSend(e) ==
    /\ queued' = [queued EXCEPT ![e] = @ + 1]
    /\ got' = got

LinkReceive(e) ==
    /\ Len(got[e]) < queued[Peer(e)]
    /\ got' = [got EXCEPT ![e] = Append(@, Len(@) + 1)]
    /\ queued' = queued

LinkNext == \E e \in Ends : LinkSend(e) \/ LinkReceive(e)

LinkSpec == LinkInit /\ [][LinkNext]_linkVars
=============================================================================
