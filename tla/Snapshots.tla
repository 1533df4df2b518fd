------------------------------ MODULE Snapshots ------------------------------
(* Snapshots of the world on their way to one client: the server stores the    *)
(* last ones and sends each as a difference to the last one acknowledged       *)
(* (engine/server/server.cpp, CSnapshotStorage in engine/shared/snapshot.cpp), *)
(* the client puts the parts together, looks the base up among those it holds, *)
(* acknowledges with its input and moves on from one to the next               *)
(* (engine/client/client.cpp).  Neither the parts nor the inputs are vital:    *)
(* they are lost, repeated and overtake each other.                            *)
(*                                                                             *)
(* Ticks only matter relative to the present one: the age of a tick is the     *)
(* number of snapshots' ticks gone by since, Old standing for all that no      *)
(* message mentions any more.  What a snapshot holds only matters as far as it *)
(* is what the server sent for its tick: it is right, or it is not.            *)
EXTENDS Integers, Sequences, FiniteSets

CONSTANTS None,      \* the tick -1
          Keep,      \* the three seconds the server keeps a snapshot
          MaxParts,  \* CSnapshot::MAX_PARTS
          Lag,       \* the client shows what is older than this
          MaxDelay,  \* bound: the ticks a message is under way
          MaxNet,    \* bound: messages under way, each way
          MaxEnter   \* bound: how often the client enters the game again

ASSUME SnapshotsAssumption ==
    /\ {Keep, MaxParts, Lag, MaxNet} \subseteq Nat \ {0}
    /\ {MaxDelay, MaxEnter} \subseteq Nat
    /\ None \notin Nat

Old == Keep + MaxDelay + 1
Ages == 0..Old
Ticks == Ages \cup {None}

VARIABLES
    stored,   \* server: the ages of m_Snapshots that are kept
    acked,    \* server: m_LastAckedSnapshot
    rate,     \* server: m_SnapRate
    snaps,    \* the parts of snapshots under way
    inputs,   \* the inputs under way
    recv,     \* client: m_aCurrentRecvTick (Old for 0)
    have,     \* client: m_aSnapshotParts, each with the tick its data is of
    ack,      \* client: m_aAckGameTick
    store,    \* client: m_aSnapshotStorage, oldest first
    prev,     \* client: SNAP_PREV, its place in the storage, 0 for nullptr
    cur,      \* client: SNAP_CURRENT, likewise
    received, \* client: m_aReceivedSnapshots, up to two
    enters    \* history: entered again so far

serverVars == <<stored, acked, rate>>
clientVars == <<recv, have, ack, store, prev, cur, received>>
vars == <<serverVars, snaps, inputs, clientVars, enters>>

Least(S) == CHOOSE s \in S : \A t \in S : s <= t

Init ==
    /\ stored = {} /\ acked = None /\ rate = "init"
    /\ snaps = {} /\ inputs = {}
    /\ recv = Old /\ have = {} /\ ack = None
    /\ store = <<>> /\ prev = 0 /\ cur = 0 /\ received = 0
    /\ enters = 0

(***************************************************************************)
(* The server: DoSnapshot.                                                 *)
(***************************************************************************)
Aged(t) == IF t \in {None, Old} THEN t ELSE t + 1

(* What m_Snapshots holds after PurgeUntil, a tick later. *)
Kept(S) == {a + 1 : a \in S} \cap 0..Keep

(* The acknowledged snapshot if it is still there, else the empty one. *)
DeltaTick(t) == IF t \in stored' THEN t ELSE None

Message(base, empty, n, part) ==
    [age |-> 0, base |-> base, empty |-> empty, num |-> n, part |-> part]
Parts(base, empty, n) == {Message(base, empty, n, part) : part \in 1..n}

(* The network takes what is sent and loses what it likes. *)
Passes(S, new) == {T \in SUBSET (S \cup new) : Cardinality(T) <= MaxNet}

OlderSnaps == {[m EXCEPT !.age = @ + 1, !.base = Aged(@)] : m \in {n \in snaps : n.age < MaxDelay}}
OlderInputs == {[i EXCEPT !.age = @ + 1, !.ack = Aged(@)] : i \in {j \in inputs : j.age < MaxDelay}}

(* The client has shown what is due: the frames are shorter than the ticks. *)
UpToDate == cur \in 1..Len(store) - 1 => store[cur].age < Lag

(* Snapshots that are older than any base are only held until the next purge. *)
Aging ==
    LET gone == IF prev = 0 THEN 0
                ELSE Cardinality({i \in 1..prev - 1 : Aged(store[i].age) = Old})
        kept == SubSeq(store, gone + 1, Len(store))
    IN  /\ store' = [i \in DOMAIN kept |-> [kept[i] EXCEPT !.age = Aged(@)]]
        /\ prev' = IF prev = 0 THEN 0 ELSE prev - gone
        /\ cur' = IF cur = 0 THEN 0 ELSE cur - gone
        /\ recv' = Aged(recv)
        /\ have' = {[h EXCEPT !.age = Aged(@)] : h \in have}
        /\ ack' = Aged(ack)
        /\ UNCHANGED received

(* A tick without a snapshot for the client: only one in ten is sent at first  *)
(* and one in a second while it recovers.                                      *)
SkipTick ==
    /\ UpToDate
    /\ rate \in {"init", "recover"}
    /\ stored' = Kept(stored)
    /\ acked' = Aged(acked)
    /\ snaps' = OlderSnaps /\ inputs' = OlderInputs
    /\ Aging
    /\ UNCHANGED <<rate, enters>>

(* A tick with one, of n parts; it is empty when nothing has changed. *)
DoSnapshot(n, empty) ==
    /\ UpToDate
    /\ empty => n = 1
    /\ stored' = Kept(stored) \cup {0}
    /\ acked' = Aged(acked)
    /\ rate' = IF rate = "full" /\ DeltaTick(acked') = None THEN "recover" ELSE rate
    /\ snaps' \in Passes(OlderSnaps, Parts(DeltaTick(acked'), empty, n))
    /\ inputs' = OlderInputs
    /\ Aging
    /\ UNCHANGED enters

(* NETMSG_INPUT *)
OnInput(i, again) ==
    /\ i \in inputs
    /\ inputs' = IF again THEN inputs ELSE inputs \ {i}
    /\ acked' = i.ack
    /\ rate' = IF i.ack # None THEN "full" ELSE rate
    /\ UNCHANGED <<stored, snaps, clientVars, enters>>

(***************************************************************************)
(* The client: NETMSG_SNAP, NETMSG_SNAPSINGLE and NETMSG_SNAPEMPTY.         *)
(***************************************************************************)
(* SendInput with the acknowledgement a, once the client is online. *)
SendInput(a) ==
    inputs' \in IF received = 2 THEN Passes(inputs, {[age |-> 0, ack |-> a]}) ELSE {inputs}

(* Mutant: newer than the snapshot being received. *)
Wanted_Newer(m) == m.age < recv /\ ack \notin 0..m.age
(* At least as new as the snapshot being received, newer than the last one. *)
Wanted(m) == m.age <= recv /\ ack \notin 0..m.age

(* The parts received, m included. *)
Received(m) ==
    {h \in have : h.part # m.part /\ m.age = recv} \cup {[part |-> m.part, age |-> m.age]}
Final(m) == {h.part : h \in Received(m)} = 1..m.num

(* The place of the base of m in the storage: 0 for the empty snapshot, None   *)
(* if it is not there.                                                         *)
Places(t) == {i \in DOMAIN store : store[i].age = t}
(* Mutant: the base stays the empty snapshot when it is not found. *)
Base_Empty(m) == IF Places(m.base) = {} THEN 0 ELSE Least(Places(m.base))
Base(m) == IF m.base = None THEN 0
           ELSE IF Places(m.base) # {} THEN Least(Places(m.base)) ELSE None

(* What is unpacked is what the server sent; else the checksum tells, except   *)
(* for an empty one, which has none.                                           *)
Unpacks(m) ==
    /\ Base(m) \in IF m.base = None THEN {0} ELSE {i \in Places(m.base) : store[i].right}
    /\ \A h \in Received(m) : h.age = m.age

(* Mutant: all before the base. *)
FirstKept_Base(b) == IF b = 0 THEN 1 ELSE b
(* PurgeUntil: all before the base and the two that are shown. *)
FirstKept(b) == IF b = 0 THEN 1 ELSE Least({b} \cup {i \in {prev, cur} : i # 0})

Accept(m) ==
    LET gone == FirstKept(Base(m)) - 1
        added == Append(SubSeq(store, gone + 1, Len(store)),
                        [age |-> m.age, right |-> Unpacks(m)])
    IN  /\ store' = added
        /\ received' = IF received < 2 THEN received + 1 ELSE 2
        /\ prev' = IF received = 1 THEN 1 ELSE IF prev = 0 THEN 0 ELSE prev - gone
        /\ cur' = IF received = 1 THEN Len(added) ELSE IF cur = 0 THEN 0 ELSE cur - gone
        /\ ack' = m.age
        /\ UNCHANGED inputs

(* The base is not there: the server is told to start afresh. *)
Resync == /\ ack' = None
          /\ SendInput(None)
          /\ UNCHANGED <<store, prev, cur, received>>

OnSnap(m, again) ==
    /\ m \in snaps
    /\ snaps' = IF again THEN snaps ELSE snaps \ {m}
    /\ \/ ~Wanted(m) /\ UNCHANGED <<clientVars, inputs>>
       \/ /\ Wanted(m)
          /\ recv' = m.age
          /\ have' = IF Final(m) THEN {} ELSE Received(m)
          /\ \/ Final(m) /\ Base(m) = None /\ Resync
             \/ Final(m) /\ Base(m) # None /\ (m.empty \/ Unpacks(m)) /\ Accept(m)
             \/ /\ ~Final(m) \/ (Base(m) # None /\ ~m.empty /\ ~Unpacks(m))
                /\ UNCHANGED <<ack, store, prev, cur, received, inputs>>
    /\ UNCHANGED <<serverVars, enters>>

(* The client goes on to the next snapshot. *)
Advance ==
    /\ cur \in 1..Len(store) - 1
    /\ prev' = cur /\ cur' = cur + 1
    /\ UNCHANGED <<serverVars, snaps, inputs, recv, have, ack, store, received, enters>>

(* The input of a new tick. *)
Predict ==
    /\ received = 2
    /\ SendInput(ack)
    /\ UNCHANGED <<serverVars, snaps, clientVars, enters>>

(* The client comes back after its connection broke down: CClient::Reset at    *)
(* the server, OnEnterGame at the client.  Messages are still under way.       *)
Reenter ==
    /\ enters < MaxEnter
    /\ enters' = enters + 1
    /\ stored' = {} /\ acked' = None /\ rate' = "init"
    /\ recv' = Old /\ have' = {} /\ ack' = None
    /\ store' = <<>> /\ prev' = 0 /\ cur' = 0 /\ received' = 0
    /\ UNCHANGED <<snaps, inputs>>

-----------------------------------------------------------------------------
Next ==
    \/ SkipTick
    \/ \E n \in 1..MaxParts, empty \in BOOLEAN : DoSnapshot(n, empty)
    \/ \E i \in inputs, again \in BOOLEAN : OnInput(i, again)
    \/ \E m \in snaps, again \in BOOLEAN : OnSnap(m, again)
    \/ Advance \/ Predict \/ Reenter

Spec == Init /\ [][Next]_vars

(* The parts of the snapshot that m belongs to, other than m, are under way. *)
Siblings(m) == \A p \in 1..m.num \ {m.part} : [m EXCEPT !.part = p] \in snaps

(* Frames and ticks go on; again and again a snapshot gets through as a whole, *)
(* and an input does.                                                          *)
FairSpec ==
    /\ Spec
    /\ WF_vars(Advance)
    /\ SF_vars(\E n \in 1..MaxParts, empty \in BOOLEAN :
                  DoSnapshot(n, empty) /\ \E m \in snaps' : m.age = 0 /\ Siblings(m)')
    /\ SF_vars(\E m \in snaps : Wanted(m) /\ ~Final(m) /\ Siblings(m) /\ OnSnap(m, FALSE))
    /\ SF_vars(\E m \in snaps : Wanted(m) /\ Final(m) /\ OnSnap(m, FALSE))
    /\ SF_vars(Predict /\ inputs' # {})
    /\ SF_vars(\E i \in inputs : OnInput(i, FALSE))

-----------------------------------------------------------------------------
TypeOK ==
    /\ stored \subseteq 0..Keep /\ acked \in Ticks /\ rate \in {"init", "recover", "full"}
    /\ recv \in Ages /\ have \subseteq [part : 1..MaxParts, age : Ages] /\ ack \in Ticks
    /\ store \in Seq([age : Ages, right : BOOLEAN])
    /\ prev \in Nat /\ cur \in Nat /\ received \in 0..2 /\ enters \in 0..MaxEnter

(* Whatever is lost, repeated or late, what the client holds for a tick is     *)
(* what the server sent for it, in the order of the ticks, even where no       *)
(* checksum is sent (NETMSG_SNAPEMPTY).                                         *)
Faithful ==
    /\ TypeOK
    /\ \A i \in DOMAIN store : store[i].right
    /\ \A i, j \in DOMAIN store : i < j /\ store[j].age # Old => store[i].age > store[j].age

(* The snapshots that are shown have not been purged (they are pointers into   *)
(* the storage), nor has the one that is acknowledged: the server may use it.  *)
PointersHeld ==
    /\ received = 2 => 1 <= prev /\ prev < cur /\ cur <= Len(store)
    /\ ack # None => store # <<>> /\ store[Len(store)].age = ack

(* The client never stays behind: in spite of lost acknowledgements, of bases  *)
(* purged on either side and of old inputs, it gets recent snapshots again and *)
(* again.                                                                      *)
CatchesUp == []<>(store # <<>> /\ store[Len(store)].age <= MaxDelay)
=============================================================================
