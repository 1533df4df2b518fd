-------------------------- MODULE NetSessionProofs --------------------------
(***************************************************************************)
(* Proofs about NetSession, for any clients, addresses, timeout codes and  *)
(* number of slots.  The safety properties need each other: a packet's     *)
(* chunks stay with their sender (ReadingOne) because no packet is read    *)
(* while some are left, so that the slot they came in by can only be       *)
(* dropped meanwhile; so a slot that hands its connection over is online,  *)
(* which keeps the addresses apart (OneEach) and the count of each network *)
(* (PerIpHolds); and a code is only set by a client at play (CodesKnown).  *)
(***************************************************************************)
EXTENDS NetSession, FiniteSetTheorems, WellFoundedInduction, TLAPS

AppAgrees == \A s \in Slots : conn[s] = "offline" <=> app[s] = "empty"

\* A slot in use has a client's address.
AddrKnown == \A s \in Slots : conn[s] # "offline" => addr[s] \in Clients

OneEach ==
    \A s, t \in Slots :
        conn[s] = "online" /\ conn[t] = "online" /\ addr[s] = addr[t] => s = t

CodesKnown ==
    \A s \in Slots : code[s] # NoCode => app[s] = "play" /\ Code(addr[s]) = code[s]

\* While chunks are left, their slot is online for their sender or dropped.
ReadingOne ==
    unpack.left > 0 =>
        /\ unpack.slot \in Slots
        /\ conn[unpack.slot] \in {"online", "offline"}
        /\ conn[unpack.slot] = "online" => addr[unpack.slot] = unpack.from

IInv ==
    /\ TypeOK
    /\ AppAgrees
    /\ AddrKnown
    /\ OneEach
    /\ CodesKnown
    /\ ReadingOne
    /\ PerIpHolds

USE DEF Slots, NoSlot

-----------------------------------------------------------------------------
(* About the operators.                                                     *)

\* The least-number principle, without which Min is nothing.
LEMMA Least ==
    ASSUME NEW T \in SUBSET Nat, T # {}
    PROVE  \E m \in T : \A n \in T : m <= n
<1> DEFINE R == {ss \in Nat \X Nat : ss[1] < ss[2]}
<1>1. IsWellFoundedOn(R, Nat)
  BY NatLessThanWellFounded DEF OpToRel
<1> HIDE DEF R
<1>2. PICK m \in T : \A n \in T : ~ (<<n, m>> \in R)
  BY <1>1, WFMin
<1>3. \A n \in T : <<n, m>> \in Nat \X Nat
  OBVIOUS
<1>4. \A n \in T : ~(n < m)
  BY <1>2, <1>3 DEF R
<1>5. QED
  BY <1>4

LEMMA MinInSet ==
    ASSUME NEW S \in SUBSET Slots, S # {}
    PROVE  Min(S) \in S
<1>1. S \in SUBSET Nat
  BY NetSessionAssumption
<1>2. \E m \in S : \A n \in S : m <= n
  BY <1>1, Least
<1>3. QED
  BY <1>2 DEF Min

\* With OneEach the packet's slot is the one online at its address.
LEMMA SlotOfClient ==
    ASSUME TypeOK, OneEach, NEW c \in Clients
    PROVE  LET s == GetClientSlot(c)
           IN  IF s = NoSlot
               THEN \A t \in Slots : ~(conn[t] = "online" /\ addr[t] = c)
               ELSE s \in Slots /\ conn[s] = "online" /\ addr[s] = c
<1> DEFINE M == Matching(c)
<1>1. M = {t \in Slots : conn[t] = "online" /\ addr[t] = c}
  BY DEF Matching, TypeOK
<1> HIDE DEF M
<1>2. CASE M = {}
  <2>1. GetClientSlot(c) = NoSlot
    BY <1>2 DEF GetClientSlot, M
  <2>2. QED
    BY <1>1, <1>2, <2>1
<1>3. CASE M # {}
  <2>1. PICK x \in M : TRUE
    BY <1>3
  <2>2. \A y \in M : y = x
    BY <1>1 DEF OneEach
  <2>3. x \in Nat /\ Max(M) = x
    BY <1>1, <2>1, <2>2, NetSessionAssumption DEF Max
  <2>4. GetClientSlot(c) = x
    BY <1>3, <2>3 DEF GetClientSlot, M
  <2>5. QED
    BY <1>1, <2>1, <2>3, <2>4
<1>4. QED
  BY <1>2, <1>3

\* What is on its way after Sent was sent now or before.
LEMMA SentKeeps ==
    ASSUME TypeOK, NEW S, Sent(S),
           S \subseteq [type : ToServer \cup ToClient, client : Clients, epoch : Nat]
    PROVE  net' \subseteq [type : ToServer \cup ToClient, client : Clients, epoch : Nat]
<1>1. net' \subseteq net \cup S
  BY DEF Sent
<1>2. QED
  BY <1>1 DEF TypeOK

LEMMA MsgTyped ==
    ASSUME NEW type \in ToServer \cup ToClient, NEW c \in Clients, NEW e \in Nat
    PROVE  {Msg(type, c, e)} \subseteq [type : ToServer \cup ToClient, client : Clients, epoch : Nat]
BY DEF Msg

\* The slots NumClientsWithAddr counts, and how a change bounds their number.
Counted(c) == {s \in Slots : (conn[s] = "online" \/ Waiting(s)) /\ Ip(addr[s]) = Ip(c)}

LEMMA CountedFinite ==
    ASSUME NEW S \in SUBSET Slots
    PROVE  IsFiniteSet(S) /\ Cardinality(S) \in Nat
<1>1. IsFiniteSet(Slots)
  BY NetSessionAssumption, FS_Interval
<1>2. QED
  BY <1>1, FS_Subset, FS_CardinalityType

LEMMA FewerKeepLimit ==
    ASSUME PerIpHolds, \A c \in Clients : Counted(c)' \subseteq Counted(c)
    PROVE  PerIpHolds'
<1> SUFFICES ASSUME NEW c \in Clients PROVE Cardinality(Counted(c)') <= PerIp
  BY DEF PerIpHolds, NumClientsWithAddr, Counted
<1>1. Counted(c) \in SUBSET Slots /\ Counted(c)' \subseteq Counted(c)
  BY DEF Counted
<1>2. Cardinality(Counted(c)') <= Cardinality(Counted(c))
      /\ Cardinality(Counted(c)) \in Nat /\ Cardinality(Counted(c)') \in Nat
  BY <1>1, CountedFinite, FS_Subset
<1>3. Cardinality(Counted(c)) <= PerIp
  BY DEF PerIpHolds, NumClientsWithAddr, Counted
<1>4. QED
  BY <1>2, <1>3, NetSessionAssumption

-----------------------------------------------------------------------------
(* The steps.                                                               *)

LEMMA InitInv == Init => IInv
<1> SUFFICES ASSUME Init PROVE IInv
  OBVIOUS
<1>1. TypeOK
  BY NetSessionAssumption DEF Init, TypeOK
<1>2. PerIpHolds
  <2> SUFFICES ASSUME NEW c \in Clients PROVE Cardinality(Counted(c)) <= PerIp
    BY DEF PerIpHolds, NumClientsWithAddr, Counted
  <2>1. Counted(c) = {}
    BY DEF Counted, Init, Waiting
  <2>2. QED
    BY <2>1, FS_EmptySet, NetSessionAssumption
<1>3. QED
  BY <1>1, <1>2 DEF Init, IInv, AppAgrees, AddrKnown, OneEach, CodesKnown, ReadingOne

\* The clients touch nothing of the server's.
LEMMA ServerUntouched ==
    ASSUME IInv, TypeOK', UNCHANGED <<connVars, appVars, unpack>>
    PROVE  IInv'
<1>1. AppAgrees' /\ AddrKnown' /\ OneEach' /\ CodesKnown' /\ ReadingOne'
  BY DEF IInv, AppAgrees, AddrKnown, OneEach, CodesKnown, ReadingOne, connVars, appVars
<1>2. \A c \in Clients : Counted(c)' = Counted(c)
  BY DEF Counted, Waiting, connVars
<1>3. PerIpHolds'
  BY <1>2, FewerKeepLimit DEF IInv
<1>4. QED
  BY <1>1, <1>3 DEF IInv

LEMMA ClientStepInv ==
    ASSUME IInv, NEW c \in Clients, ClientStep(c)
    PROVE  IInv'
<1> DEFINE M == [type : ToServer \cup ToClient, client : Clients, epoch : Nat]
<1>1. TypeOK /\ epoch[c] \in Nat /\ epoch[c] + 1 \in Nat
  BY DEF IInv, TypeOK
<1>2. UNCHANGED <<connVars, appVars, unpack>>
  BY DEF ClientStep, Connect, ClientSend, ClientDisconnect, ClientTimeout,
         ClientAccepted, ClientRefused
<1>3. net' \subseteq M
  <2>1. CASE Connect(c)
    BY <1>1, <2>1, SentKeeps, MsgTyped DEF Connect, ToServer
  <2>2. CASE ClientSend(c)
    BY <1>1, <2>2, SentKeeps, MsgTyped DEF ClientSend, ToServer
  <2>3. CASE ClientDisconnect(c)
    <3>1. CASE Sent({Msg("close", c, epoch[c])})
      BY <1>1, <3>1, SentKeeps, MsgTyped DEF ToServer
    <3>2. CASE net' = net
      BY <1>1, <3>2 DEF TypeOK
    <3>3. QED
      BY <2>3, <3>1, <3>2 DEF ClientDisconnect
  <2>4. CASE ClientTimeout(c)
    BY <1>1, <2>4 DEF ClientTimeout, TypeOK
  <2>5. CASE ClientAccepted(c)
    <3>1. Sent({Msg("accept", c, epoch[c])})
      BY <2>5 DEF ClientAccepted
    <3>2. QED
      BY <1>1, <3>1, SentKeeps, MsgTyped DEF ToServer
  <2>6. CASE ClientRefused(c)
    BY <1>1, <2>6 DEF ClientRefused, TypeOK
  <2>7. QED
    BY <2>1, <2>2, <2>3, <2>4, <2>5, <2>6 DEF ClientStep
<1>4. /\ cstate' \in [Clients -> {"offline", "connect", "online"}]
      /\ epoch' \in [Clients -> Nat] /\ \A d \in Clients : epoch'[d] <= MaxEpoch[d]
  <2>1. CASE Connect(c)
    <3>1. /\ cstate' = [cstate EXCEPT ![c] = "connect"]
          /\ epoch' = [epoch EXCEPT ![c] = epoch[c] + 1] /\ epoch[c] < MaxEpoch[c]
      BY <2>1 DEF Connect
    <3>2. epoch' \in [Clients -> Nat] /\ \A d \in Clients \ {c} : epoch'[d] = epoch[d]
      BY <1>1, <3>1 DEF TypeOK
    <3>3. epoch'[c] <= MaxEpoch[c]
      <4>1. MaxEpoch[c] \in Nat /\ epoch'[c] = epoch[c] + 1
        BY <1>1, <3>1, NetSessionAssumption DEF TypeOK
      <4>2. QED
        BY <1>1, <3>1, <4>1
    <3>4. QED
      BY <1>1, <3>1, <3>2, <3>3 DEF TypeOK
  <2>2. CASE ~Connect(c)
    <3>1. epoch' = epoch /\ cstate' \in {cstate, [cstate EXCEPT ![c] = "offline"], [cstate EXCEPT ![c] = "online"]}
      BY <2>2 DEF ClientStep, ClientSend, ClientDisconnect, ClientTimeout,
                  ClientAccepted, ClientRefused, clientVars
    <3>2. QED
      BY <1>1, <3>1 DEF TypeOK
  <2>3. QED
    BY <2>1, <2>2
<1>5. TypeOK'
  BY <1>1, <1>2, <1>3, <1>4 DEF TypeOK, connVars, appVars
<1>6. QED
  BY <1>2, <1>5, ServerUntouched

\* A connection on a slot that was offline, from an address that has none.
LEMMA AcceptInv ==
    ASSUME IInv, NEW m \in net, m.type = "accept", Drained,
           GetClientSlot(m.client) = NoSlot, MayAccept(m.client),
           Accept(m.client, m.epoch), net' = net, UNCHANGED <<code, unpack, clientVars>>
    PROVE  IInv'
<1> DEFINE s == Min(Offline)
           c == m.client
<1>1. TypeOK /\ c \in Clients /\ m.epoch \in Nat
  BY DEF IInv, TypeOK
<1>2. s \in Slots /\ conn[s] = "offline"
  BY MinInSet DEF MayAccept, Offline
<1>3. /\ conn' = [conn EXCEPT ![s] = "online"] /\ addr' = [addr EXCEPT ![s] = c]
      /\ peer' = [peer EXCEPT ![s] = m.epoch]
      /\ protected' = [protected EXCEPT ![s] = FALSE]
      /\ situation' = [situation EXCEPT ![s] = FALSE]
      /\ closed' = [closed EXCEPT ![s] = FALSE]
      /\ app' = [app EXCEPT ![s] = "join"]
      /\ cstate' = cstate /\ epoch' = epoch /\ code' = code /\ unpack' = unpack /\ net' = net
  BY DEF Accept, clientVars
<1> HIDE DEF s
<1>4. TypeOK'
  BY <1>1, <1>2, <1>3 DEF TypeOK
<1>5. AppAgrees' /\ AddrKnown'
  BY <1>1, <1>2, <1>3 DEF IInv, TypeOK, AppAgrees, AddrKnown
<1>6. OneEach'
  <2>1. \A t \in Slots : ~(conn[t] = "online" /\ addr[t] = c)
    BY <1>1, SlotOfClient DEF IInv
  <2>2. QED
    BY <1>1, <1>2, <1>3, <2>1 DEF IInv, TypeOK, OneEach
<1>7. CodesKnown'
  <2>1. code[s] = NoCode
    BY <1>2 DEF IInv, AppAgrees, CodesKnown
  <2>2. QED
    BY <1>1, <1>2, <1>3, <2>1 DEF IInv, TypeOK, CodesKnown
<1>8. ReadingOne'
  BY <1>1, <1>3 DEF Drained, ReadingOne
<1>9. PerIpHolds'
  <2> SUFFICES ASSUME NEW d \in Clients PROVE Cardinality(Counted(d)') <= PerIp
    BY DEF PerIpHolds, NumClientsWithAddr, Counted
  <2>1. Counted(d) \in SUBSET Slots /\ Counted(d)' \in SUBSET Slots
    BY DEF Counted
  <2>2. /\ IsFiniteSet(Counted(d)) /\ Cardinality(Counted(d)) \in Nat
        /\ Cardinality(Counted(d)') \in Nat
    BY <2>1, CountedFinite
  <2>3. Cardinality(Counted(d)) <= PerIp
    BY DEF IInv, PerIpHolds, NumClientsWithAddr, Counted
  <2>4. CASE Ip(d) = Ip(c)
    <3>1. Counted(d) = Counted(c)
      BY <2>4 DEF Counted
    <3>2. Cardinality(Counted(d)) + 1 <= PerIp
      BY <3>1 DEF MayAccept, NumClientsWithAddr, Counted
    <3>3. Counted(d)' \subseteq Counted(d) \cup {s}
      BY <1>1, <1>2, <1>3 DEF Counted, Waiting, TypeOK
    <3>4. /\ IsFiniteSet(Counted(d) \cup {s})
          /\ Cardinality(Counted(d) \cup {s}) <= Cardinality(Counted(d)) + 1
          /\ Cardinality(Counted(d) \cup {s}) \in Nat
      <4>1. IsFiniteSet(Counted(d) \cup {s})
        BY <2>2, FS_AddElement
      <4>2. Cardinality(Counted(d) \cup {s}) = IF s \in Counted(d) THEN Cardinality(Counted(d))
                                               ELSE Cardinality(Counted(d)) + 1
        BY <2>2, FS_AddElement
      <4>3. QED
        BY <2>2, <4>1, <4>2
    <3>5. Cardinality(Counted(d)') <= Cardinality(Counted(d) \cup {s})
      BY <3>3, <3>4, FS_Subset
    <3>6. QED
      BY <2>2, <3>2, <3>4, <3>5, NetSessionAssumption
  <2>5. CASE Ip(d) # Ip(c)
    <3>1. Counted(d)' \subseteq Counted(d)
      BY <1>1, <1>2, <1>3, <2>5 DEF Counted, Waiting, TypeOK
    <3>2. Cardinality(Counted(d)') <= Cardinality(Counted(d))
      BY <2>2, <3>1, FS_Subset
    <3>3. QED
      BY <2>2, <2>3, <3>2, NetSessionAssumption
  <2>6. QED
    BY <2>4, <2>5
<1>10. QED
  BY <1>4, <1>5, <1>6, <1>7, <1>8, <1>9 DEF IInv

LEMMA ServerRecvInv ==
    ASSUME IInv, NEW m \in net, ServerRecv(m)
    PROVE  IInv'
<1> DEFINE c == m.client
           s == GetClientSlot(c)
           M == [type : ToServer \cup ToClient, client : Clients, epoch : Nat]
<1>1. TypeOK /\ c \in Clients /\ m.epoch \in Nat /\ m \in M
  BY DEF IInv, TypeOK
<1>2. Drained /\ UNCHANGED clientVars
  BY DEF ServerRecv
<1>3. s # NoSlot => s \in Slots /\ conn[s] = "online" /\ addr[s] = c
  BY <1>1, SlotOfClient DEF IInv
<1>4. CASE m.type = "connect" /\ Sent({Msg("connectaccept", c, m.epoch)})
           /\ UNCHANGED <<connVars, appVars, unpack>>
  <2>1. net' \subseteq M
    <3>1. {Msg("connectaccept", c, m.epoch)} \subseteq M
      <4>1. "connectaccept" \in ToServer \cup ToClient
        BY DEF ToClient
      <4>2. QED
        BY <1>1, <4>1, MsgTyped
    <3>2. QED
      BY <1>1, <1>4, <3>1, SentKeeps
  <2>2. TypeOK'
    BY <1>1, <1>2, <1>4, <2>1 DEF TypeOK, clientVars, connVars, appVars
  <2>3. QED
    BY <1>4, <2>2, ServerUntouched
<1>5. CASE m.type = "accept" /\ s = NoSlot /\ TryAcceptClient(m)
  <2>1. CASE MayAccept(c) /\ Accept(c, m.epoch) /\ net' = net
    BY <1>2, <1>5, <2>1, AcceptInv DEF TryAcceptClient
  <2>2. CASE Sent({Msg("refuse", c, m.epoch)}) /\ UNCHANGED <<connVars, app>>
    <3>1. net' \subseteq M
      <4>1. {Msg("refuse", c, m.epoch)} \subseteq M
        <5>1. "refuse" \in ToServer \cup ToClient
          BY DEF ToClient
        <5>2. QED
          BY <1>1, <5>1, MsgTyped
      <4>2. QED
        BY <1>1, <2>2, <4>1, SentKeeps
    <3>2. UNCHANGED <<connVars, appVars, unpack>>
      BY <1>5, <2>2 DEF TryAcceptClient, appVars
    <3>3. TypeOK'
      BY <1>1, <1>2, <3>1, <3>2 DEF TypeOK, clientVars, connVars, appVars
    <3>4. QED
      BY <3>2, <3>3, ServerUntouched
  <2>3. QED
    BY <1>5, <2>1, <2>2 DEF TryAcceptClient
<1>6. CASE m.type = "accept" /\ s # NoSlot /\ Rejoin(s, m) /\ net' = net
  <2> HIDE DEF s
  <2>1. /\ conn' = conn /\ addr' = addr /\ protected' = protected /\ situation' = situation
        /\ app' = app /\ code' = code /\ unpack' = unpack /\ net' = net
        /\ cstate' = cstate /\ epoch' = epoch
        /\ closed' = [closed EXCEPT ![s] = FALSE] /\ peer' = [peer EXCEPT ![s] = m.epoch]
    BY <1>2, <1>6 DEF Rejoin, clientVars, appVars
  <2>2. TypeOK'
    BY <1>1, <1>3, <2>1 DEF TypeOK
  <2>3. AppAgrees' /\ AddrKnown' /\ OneEach' /\ CodesKnown' /\ ReadingOne'
    BY <2>1 DEF IInv, AppAgrees, AddrKnown, OneEach, CodesKnown, ReadingOne
  <2>4. \A d \in Clients : Counted(d)' = Counted(d)
    BY <2>1 DEF Counted, Waiting
  <2>5. PerIpHolds'
    BY <2>4, FewerKeepLimit DEF IInv
  <2>6. QED
    BY <2>2, <2>3, <2>5 DEF IInv
<1>7. CASE m.type = "data" /\ s # NoSlot
           /\ unpack' = [slot |-> s, from |-> c, left |-> PackMax]
           /\ UNCHANGED <<connVars, appVars, net>>
  <2> HIDE DEF s
  <2>1. unpack' \in [slot : Slots \cup {NoSlot}, from : Clients \cup {NoClient}, left : 0..PackMax]
    BY <1>1, <1>3, <1>7, NetSessionAssumption
  <2>2. TypeOK'
    BY <1>1, <1>2, <1>7, <2>1 DEF TypeOK, clientVars, connVars, appVars
  <2>3. AppAgrees' /\ AddrKnown' /\ OneEach' /\ CodesKnown'
    BY <1>7 DEF IInv, AppAgrees, AddrKnown, OneEach, CodesKnown, connVars, appVars
  <2>4. ReadingOne'
    BY <1>3, <1>7 DEF ReadingOne, connVars
  <2>5. \A d \in Clients : Counted(d)' = Counted(d)
    BY <1>7 DEF Counted, Waiting, connVars
  <2>6. PerIpHolds'
    BY <2>5, FewerKeepLimit DEF IInv
  <2>7. QED
    BY <2>2, <2>3, <2>4, <2>6 DEF IInv
<1>8. CASE m.type = "close" /\ s # NoSlot
           /\ conn' = [conn EXCEPT ![s] = "error"]
           /\ closed' = [closed EXCEPT ![s] = TRUE]
           /\ UNCHANGED <<addr, protected, situation, peer, appVars, unpack, net>>
  <2> HIDE DEF s
  <2>1. TypeOK'
    BY <1>1, <1>2, <1>3, <1>8 DEF TypeOK, clientVars, appVars
  <2>2. AppAgrees' /\ AddrKnown'
    BY <1>1, <1>3, <1>8 DEF IInv, TypeOK, AppAgrees, AddrKnown, appVars
  <2>3. OneEach' /\ CodesKnown'
    BY <1>1, <1>3, <1>8 DEF IInv, TypeOK, OneEach, CodesKnown, appVars
  <2>4. ReadingOne'
    BY <1>2, <1>8 DEF Drained, ReadingOne
  <2>5. \A d \in Clients : Counted(d)' \subseteq Counted(d)
    BY <1>1, <1>3, <1>8 DEF Counted, Waiting, TypeOK
  <2>6. PerIpHolds'
    BY <2>5, FewerKeepLimit DEF IInv
  <2>7. QED
    BY <2>1, <2>2, <2>3, <2>4, <2>6 DEF IInv
<1>9. QED
  BY <1>4, <1>5, <1>6, <1>7, <1>8 DEF ServerRecv

\* Slots drop out and others go into error; the situation of a slot may only
\* become TRUE if it was online.
LEMMA DroppedInv ==
    ASSUME IInv, NEW D \in SUBSET Slots, NEW T \in SUBSET Online,
           NEW sit \in [Slots -> BOOLEAN], NEW cl \in [Slots -> BOOLEAN],
           \A s \in D : conn[s] # "offline",
           \A s \in Slots : sit[s] => s \in T \/ situation[s],
           T = {} \/ Drained,
           Dropped(D, [s \in Slots |-> IF s \in T THEN "error" ELSE conn[s]], sit, cl),
           UNCHANGED <<clientVars, unpack>>
    PROVE  IInv'
<1> DEFINE M == [type : ToServer \cup ToClient, client : Clients, epoch : Nat]
<1>1. TypeOK
  BY DEF IInv
<1>2. /\ conn' = [s \in Slots |-> IF s \in D THEN "offline"
                                 ELSE IF s \in T THEN "error" ELSE conn[s]]
      /\ protected' = [s \in Slots |-> protected[s] /\ s \notin D]
      /\ situation' = [s \in Slots |-> sit[s] /\ s \notin D]
      /\ closed' = [s \in Slots |-> cl[s] /\ s \notin D]
      /\ app' = [s \in Slots |-> IF s \in D THEN "empty" ELSE app[s]]
      /\ code' = [s \in Slots |-> IF s \in D THEN NoCode ELSE code[s]]
      /\ addr' = addr /\ peer' = peer
      /\ cstate' = cstate /\ epoch' = epoch /\ unpack' = unpack
  BY DEF Dropped, clientVars
<1>3. net' \subseteq M
  <2> DEFINE told == {s \in D : ~cl[s] /\ ~sit[s]}
             S == {Msg("refuse", addr[s], peer[s]) : s \in told}
  <2>1. net' = net \/ Sent(S)
    BY DEF Dropped
  <2>2. S \subseteq M
    <3> SUFFICES ASSUME NEW s \in told PROVE Msg("refuse", addr[s], peer[s]) \in M
      OBVIOUS
    <3>1. addr[s] \in Clients /\ peer[s] \in Nat
      BY <1>1 DEF IInv, AddrKnown, TypeOK
    <3>2. "refuse" \in ToServer \cup ToClient
      BY DEF ToClient
    <3>3. QED
      BY <3>1, <3>2, MsgTyped
  <2> HIDE DEF S
  <2>3. CASE Sent(S)
    BY <1>1, <2>2, <2>3, SentKeeps
  <2>4. CASE net' = net
    BY <1>1, <2>4 DEF TypeOK
  <2>5. QED
    BY <2>1, <2>3, <2>4
<1>4. TypeOK'
  <2>1. /\ conn' \in [Slots -> {"offline", "online", "error"}]
        /\ app' \in [Slots -> {"empty", "join", "play"}]
    BY <1>1, <1>2 DEF TypeOK
  <2>2. code' \in [Slots -> {NoCode} \cup {Code(c) : c \in Clients}]
    BY <1>1, <1>2 DEF TypeOK
  <2>3. /\ protected' \in [Slots -> BOOLEAN] /\ situation' \in [Slots -> BOOLEAN]
        /\ closed' \in [Slots -> BOOLEAN]
    BY <1>1, <1>2 DEF TypeOK
  <2>4. QED
    BY <1>1, <1>2, <1>3, <2>1, <2>2, <2>3 DEF TypeOK
<1>5. T \subseteq Slots /\ \A s \in T : conn[s] = "online"
  BY DEF Online
<1>6. AppAgrees' /\ AddrKnown'
  BY <1>1, <1>2, <1>5 DEF IInv, AppAgrees, AddrKnown, TypeOK
<1>7. OneEach'
  BY <1>1, <1>2 DEF IInv, OneEach, TypeOK
<1>8. CodesKnown'
  BY <1>1, <1>2 DEF IInv, CodesKnown, TypeOK
<1>9. ReadingOne'
  <2>1. CASE unpack.left > 0
    <3>1. T = {}
      BY <2>1 DEF Drained
    <3>2. QED
      BY <1>1, <1>2, <2>1, <3>1 DEF IInv, ReadingOne
  <2>2. CASE ~(unpack.left > 0)
    BY <1>2, <2>2 DEF ReadingOne
  <2>3. QED
    BY <2>1, <2>2
<1>10. PerIpHolds'
  <2> SUFFICES ASSUME NEW d \in Clients, NEW s \in Counted(d)' PROVE s \in Counted(d)
    BY FewerKeepLimit DEF IInv
  <2>1. s \in Slots /\ Ip(addr[s]) = Ip(d) /\ (conn'[s] = "online" \/ Waiting(s)')
    BY <1>2 DEF Counted
  <2>2. CASE conn'[s] = "online"
    BY <1>2, <2>1, <2>2 DEF Counted
  <2>3. CASE Waiting(s)'
    <3>1. s \notin D /\ protected[s] /\ sit[s] /\ (s \in T \/ conn[s] = "error")
      BY <1>2, <2>1, <2>3 DEF Waiting
    <3>2. CASE s \in T
      BY <1>5, <2>1, <3>2 DEF Counted
    <3>3. CASE s \notin T
      BY <2>1, <3>1, <3>3 DEF Counted, Waiting
    <3>4. QED
      BY <3>2, <3>3
  <2>4. QED
    BY <2>1, <2>2, <2>3
<1>11. QED
  BY <1>4, <1>6, <1>7, <1>8, <1>9, <1>10 DEF IInv

LEMMA UpdateInv ==
    ASSUME IInv, NEW T \in SUBSET Slots, NEW P \in SUBSET Slots, Update(T, P)
    PROVE  IInv'
<1> DEFINE c == [s \in Slots |-> IF s \in T THEN "error" ELSE conn[s]]
           sit == NextSituation(T, P)
           dead == {s \in Slots : c[s] = "error" /\ ~(protected[s] /\ sit[s])}
<1>1. /\ Drained /\ T \in SUBSET Online
      /\ Dropped(dead, c, sit, closed) /\ UNCHANGED <<clientVars, unpack>>
  BY DEF Update
<1>2. \A s \in dead : conn[s] # "offline"
  BY <1>1 DEF Online
<1>3. /\ sit \in [Slots -> BOOLEAN]
      /\ \A s \in Slots : sit[s] => s \in T \/ situation[s]
  BY DEF NextSituation
<1>4. closed \in [Slots -> BOOLEAN] /\ dead \in SUBSET Slots
  BY DEF IInv, TypeOK
<1> HIDE DEF dead, sit
<1>5. QED
  BY <1>1, <1>2, <1>3, <1>4, DroppedInv

LEMMA KickInv ==
    ASSUME IInv, NEW s \in Slots, Kick(s)
    PROVE  IInv'
<1> DEFINE D == {s}
           T == {}
<1>1. conn \in [Slots -> {"offline", "online", "error"}]
      /\ situation \in [Slots -> BOOLEAN] /\ closed \in [Slots -> BOOLEAN]
  BY DEF IInv, TypeOK
<1>2. conn = [i \in Slots |-> IF i \in T THEN "error" ELSE conn[i]]
  BY <1>1
<1>3. Dropped(D, [i \in Slots |-> IF i \in T THEN "error" ELSE conn[i]], situation, closed)
      /\ UNCHANGED <<clientVars, unpack>>
  BY <1>2 DEF Kick
<1>4. D \in SUBSET Slots /\ T \in SUBSET Online /\ T = {} /\ \A i \in D : conn[i] # "offline"
  BY DEF Kick, IInv, AppAgrees
<1> HIDE DEF D, T
<1>5. QED
  BY <1>1, <1>3, <1>4, DroppedInv

LEMMA FetchTyped ==
    ASSUME TypeOK, FetchChunk
    PROVE  /\ unpack' \in [slot : Slots \cup {NoSlot}, from : Clients \cup {NoClient}, left : 0..PackMax]
           /\ unpack'.slot = unpack.slot /\ unpack'.from = unpack.from
           /\ unpack.left > 0
<1>1. unpack.left - 1 \in 0..PackMax
  BY NetSessionAssumption DEF FetchChunk, TypeOK
<1>2. QED
  BY <1>1 DEF FetchChunk, TypeOK

LEMMA IgnoreInv == ASSUME IInv, Ignore PROVE IInv'
<1>1. TypeOK /\ FetchChunk /\ UNCHANGED <<clientVars, connVars, appVars, net>>
  BY DEF IInv, Ignore
<1>2. TypeOK'
  BY <1>1, FetchTyped DEF TypeOK, clientVars, connVars, appVars
<1>3. AppAgrees' /\ AddrKnown' /\ OneEach' /\ CodesKnown'
  BY <1>1 DEF IInv, AppAgrees, AddrKnown, OneEach, CodesKnown, connVars, appVars
<1>4. ReadingOne'
  BY <1>1, FetchTyped DEF IInv, ReadingOne, connVars
<1>5. \A d \in Clients : Counted(d)' = Counted(d)
  BY <1>1 DEF Counted, Waiting, connVars
<1>6. PerIpHolds'
  BY <1>5, FewerKeepLimit DEF IInv
<1>7. QED
  BY <1>2, <1>3, <1>4, <1>6 DEF IInv

LEMMA EnterInv == ASSUME IInv, Enter PROVE IInv'
<1> DEFINE s == unpack.slot
<1>1. /\ TypeOK /\ FetchChunk /\ app[s] = "join" /\ app' = [app EXCEPT ![s] = "play"]
      /\ UNCHANGED <<clientVars, connVars, code, net>>
  BY DEF IInv, Enter
<1>2. s \in Slots
  BY <1>1, FetchTyped DEF IInv, ReadingOne
<1>3. TypeOK'
  BY <1>1, FetchTyped DEF TypeOK, clientVars, connVars
<1>4. AppAgrees' /\ AddrKnown' /\ OneEach' /\ CodesKnown'
  BY <1>1, <1>2 DEF IInv, TypeOK, AppAgrees, AddrKnown, OneEach, CodesKnown, connVars
<1>5. ReadingOne'
  BY <1>1, FetchTyped DEF IInv, ReadingOne, connVars
<1>6. \A d \in Clients : Counted(d)' = Counted(d)
  BY <1>1 DEF Counted, Waiting, connVars
<1>7. PerIpHolds'
  BY <1>6, FewerKeepLimit DEF IInv
<1>8. QED
  BY <1>3, <1>4, <1>5, <1>7 DEF IInv

\* A slot in error takes over an online connection, whose own slot goes.
LEMMA SetTimedOutInv ==
    ASSUME IInv, NEW s \in Slots, NEW i \in Slots, i # s, s = unpack.slot,
           conn[s] = "online", conn[i] = "error", app[i] = "play",
           code[i] # NoCode => code[i] = Code(addr[s]),
           FetchChunk, SetTimedOut(i, s), UNCHANGED <<clientVars, net>>
    PROVE  IInv'
<1>1. TypeOK
  BY DEF IInv
<1>2. /\ conn' = [conn EXCEPT ![i] = "online", ![s] = "offline"]
      /\ addr' = [addr EXCEPT ![i] = addr[s]]
      /\ peer' = [peer EXCEPT ![i] = peer[s]]
      /\ protected' = [protected EXCEPT ![s] = FALSE]
      /\ situation' = [situation EXCEPT ![s] = FALSE]
      /\ closed' = [closed EXCEPT ![i] = FALSE, ![s] = FALSE]
      /\ app' = [app EXCEPT ![s] = "empty"]
      /\ code' = [code EXCEPT ![s] = NoCode]
      /\ cstate' = cstate /\ epoch' = epoch /\ net' = net
  BY DEF SetTimedOut, clientVars
<1>3. TypeOK'
  <2>1. /\ conn' \in [Slots -> {"offline", "online", "error"}]
        /\ addr' \in [Slots -> Clients \cup {NoClient}]
        /\ peer' \in [Slots -> Nat]
    BY <1>1, <1>2 DEF TypeOK
  <2>2. /\ protected' \in [Slots -> BOOLEAN] /\ situation' \in [Slots -> BOOLEAN]
        /\ closed' \in [Slots -> BOOLEAN]
    BY <1>1, <1>2 DEF TypeOK
  <2>3. /\ app' \in [Slots -> {"empty", "join", "play"}]
        /\ code' \in [Slots -> {NoCode} \cup {Code(c) : c \in Clients}]
    BY <1>1, <1>2 DEF TypeOK
  <2>4. QED
    BY <1>1, <1>2, <2>1, <2>2, <2>3, FetchTyped DEF TypeOK
<1>4. AppAgrees'
  BY <1>1, <1>2 DEF IInv, AppAgrees, TypeOK
<1>5. AddrKnown'
  BY <1>1, <1>2 DEF IInv, AddrKnown, TypeOK
<1>6. OneEach'
  BY <1>1, <1>2 DEF IInv, OneEach, TypeOK
<1>7. CodesKnown'
  BY <1>1, <1>2 DEF IInv, CodesKnown, TypeOK
<1>8. ReadingOne'
  BY <1>1, <1>2, FetchTyped DEF ReadingOne, TypeOK
<1>9. PerIpHolds'
  <2> SUFFICES ASSUME NEW d \in Clients PROVE Cardinality(Counted(d)') <= PerIp
    BY DEF PerIpHolds, NumClientsWithAddr, Counted
  <2> DEFINE A == Counted(d)
             B == A \ {s}
             C == B \cup {i}
  <2>1. A \in SUBSET Slots /\ Counted(d)' \in SUBSET Slots
    BY DEF Counted
  <2>2. Cardinality(A) <= PerIp
    BY DEF IInv, PerIpHolds, NumClientsWithAddr, Counted
  <2>3. CASE Ip(addr[s]) = Ip(d)
    <3>1. s \in A
      BY <2>3 DEF Counted
    <3>2. Counted(d)' \subseteq C
      BY <1>1, <1>2 DEF Counted, Waiting, TypeOK
    <3> HIDE DEF A
    <3>3. IsFiniteSet(A) /\ Cardinality(A) \in Nat
      BY <2>1, CountedFinite
    <3>4. IsFiniteSet(B) /\ Cardinality(B) = Cardinality(A) - 1
      BY <3>1, <3>3, FS_RemoveElement
    <3> HIDE DEF B
    <3>5. IsFiniteSet(C) /\ Cardinality(C) = IF i \in B THEN Cardinality(B) ELSE Cardinality(B) + 1
      BY <3>4, FS_AddElement
    <3> HIDE DEF C
    <3>6. Cardinality(Counted(d)') <= Cardinality(C)
      BY <3>2, <3>5, FS_Subset
    <3>7. Cardinality(Counted(d)') \in Nat
      BY <2>1, CountedFinite
    <3>8. QED
      BY <2>2, <3>3, <3>4, <3>5, <3>6, <3>7, NetSessionAssumption
  <2>4. CASE Ip(addr[s]) # Ip(d)
    <3>1. Counted(d)' \subseteq A
      BY <1>1, <1>2, <2>4 DEF Counted, Waiting, TypeOK
    <3> HIDE DEF A
    <3>2. /\ IsFiniteSet(A) /\ Cardinality(A) \in Nat /\ Cardinality(Counted(d)') \in Nat
      BY <2>1, CountedFinite
    <3>3. Cardinality(Counted(d)') <= Cardinality(A)
      BY <3>1, <3>2, FS_Subset
    <3>4. QED
      BY <2>2, <3>2, <3>3, NetSessionAssumption
  <2>5. QED
    BY <2>3, <2>4
<1>10. QED
  BY <1>3, <1>4, <1>5, <1>6, <1>7, <1>8, <1>9 DEF IInv

LEMMA ConTimeoutInv == ASSUME IInv, ConTimeout PROVE IInv'
<1> DEFINE s == unpack.slot
<1>1. TypeOK /\ FetchChunk /\ app[s] = "play" /\ UNCHANGED <<clientVars, net>>
  BY DEF IInv, ConTimeout
<1>2. s \in Slots /\ unpack.left > 0 /\ conn[s] = "online"
  <2>1. unpack.left > 0 /\ s \in Slots /\ conn[s] \in {"online", "offline"}
    BY <1>1, FetchTyped DEF IInv, ReadingOne
  <2>2. QED
    BY <1>1, <2>1 DEF IInv, AppAgrees
<1>3. addr[s] \in Clients
  BY <1>2 DEF IInv, AddrKnown
<1>4. PICK arg \in {Code(addr[s]), NoCode} :
        LET k == IF arg = NoCode THEN code[s] ELSE arg
        IN  IF Reclaimable(s, k) # {}
              THEN SetTimedOut(Min(Reclaimable(s, k)), s)
              ELSE /\ protected' = [protected EXCEPT ![s] = TRUE]
                   /\ code' = [code EXCEPT ![s] = arg]
                   /\ UNCHANGED <<conn, addr, situation, closed, peer, app>>
  BY DEF ConTimeout
<1> DEFINE k == IF arg = NoCode THEN code[s] ELSE arg
           i == Min(Reclaimable(s, k))
<1>5. k # NoCode => k = Code(addr[s])
  BY <1>2 DEF IInv, CodesKnown
<1>6. CASE Reclaimable(s, k) # {}
  <2>1. SetTimedOut(i, s)
    BY <1>4, <1>6
  <2> HIDE DEF k
  <2>2. i \in Reclaimable(s, k)
    <3>1. Reclaimable(s, k) \in SUBSET Slots
      BY DEF Reclaimable
    <3>2. QED
      BY <1>6, <3>1, MinInSet
  <2>3. i \in Slots /\ i # s /\ app[i] = "play" /\ code[i] = k /\ conn[i] = "error"
    BY <2>2 DEF Reclaimable
  <2> HIDE DEF i
  <2>4. QED
    BY <1>1, <1>2, <1>5, <2>1, <2>3, SetTimedOutInv
<1>7. CASE Reclaimable(s, k) = {}
  <2> HIDE DEF s
  <2>1. /\ protected' = [protected EXCEPT ![s] = TRUE] /\ code' = [code EXCEPT ![s] = arg]
        /\ conn' = conn /\ addr' = addr /\ situation' = situation /\ closed' = closed
        /\ peer' = peer /\ app' = app /\ cstate' = cstate /\ epoch' = epoch /\ net' = net
    BY <1>1, <1>4, <1>7 DEF clientVars
  <2>2. code' \in [Slots -> {NoCode} \cup {Code(c) : c \in Clients}]
    BY <1>1, <1>2, <1>3, <2>1 DEF TypeOK
  <2>3. TypeOK'
    BY <1>1, <1>2, <2>1, <2>2, FetchTyped DEF TypeOK
  <2>4. AppAgrees' /\ AddrKnown' /\ OneEach'
    BY <2>1 DEF IInv, AppAgrees, AddrKnown, OneEach
  <2>5. CodesKnown'
    BY <1>1, <1>2, <1>3, <2>1, NetSessionAssumption DEF IInv, CodesKnown, TypeOK
  <2>6. ReadingOne'
    BY <1>1, <2>1, FetchTyped DEF IInv, ReadingOne
  <2>7. \A d \in Clients : Counted(d)' \subseteq Counted(d)
    BY <1>1, <1>2, <2>1 DEF Counted, Waiting, TypeOK
  <2>8. PerIpHolds'
    BY <2>7, FewerKeepLimit DEF IInv
  <2>9. QED
    BY <2>3, <2>4, <2>5, <2>6, <2>8 DEF IInv
<1>8. QED
  BY <1>6, <1>7

LEMMA NextInv == IInv /\ [Next]_vars => IInv'
<1> SUFFICES ASSUME IInv, [Next]_vars PROVE IInv'
  OBVIOUS
<1>1. CASE \E c \in Clients : ClientStep(c)
  BY <1>1, ClientStepInv
<1>2. CASE \E m \in net : ServerRecv(m)
  BY <1>2, ServerRecvInv
<1>3. CASE \E m \in net : Lose(m)
  <2>1. UNCHANGED <<clientVars, connVars, appVars, unpack>> /\ net' \subseteq net
    BY <1>3 DEF Lose
  <2>2. TypeOK'
    BY <2>1 DEF IInv, TypeOK, clientVars, connVars, appVars
  <2>3. QED
    BY <2>1, <2>2, ServerUntouched
<1>4. CASE \E T, P \in SUBSET Slots : Update(T, P)
  BY <1>4, UpdateInv
<1>5. CASE \E s \in Slots : Kick(s)
  BY <1>5, KickInv
<1>6. CASE Chunk
  BY <1>6, IgnoreInv, EnterInv, ConTimeoutInv DEF Chunk
<1>7. CASE UNCHANGED vars
  <2>1. TypeOK'
    BY <1>7 DEF IInv, TypeOK, vars, clientVars, connVars, appVars
  <2>2. QED
    BY <1>7, <2>1, ServerUntouched DEF vars
<1>8. QED
  BY <1>1, <1>2, <1>3, <1>4, <1>5, <1>6, <1>7 DEF Next

-----------------------------------------------------------------------------
(* The theorems.                                                            *)

THEOREM Invariance == Spec => []IInv
<1>1. QED
  BY InitInv, NextInv, PTL DEF Spec

\* The network and the game agree about the slots in use, and no address has
\* two live connections.
THEOREM SlotsAlwaysAgree == Spec => []SlotsAgree
<1>1. IInv => SlotsAgree
  <2> SUFFICES ASSUME IInv, NEW c \in Clients PROVE Cardinality(Matching(c)) <= 1
    BY DEF IInv, SlotsAgree, AppAgrees
  <2>1. Matching(c) = {} \/ \E x : Matching(c) = {x}
    <3>1. \A s \in Matching(c) : s \in Slots /\ conn[s] = "online" /\ addr[s] = c
      BY DEF Matching, IInv, TypeOK
    <3>2. \A s, t \in Matching(c) : s = t
      BY <3>1 DEF IInv, OneEach
    <3>3. QED
      BY <3>2
  <2>2. Cardinality(Matching(c)) \in {0, 1}
    <3>1. CASE Matching(c) = {}
      BY <3>1, FS_EmptySet
    <3>2. CASE \E x : Matching(c) = {x}
      BY <3>2, FS_Singleton
    <3>3. QED
      BY <2>1, <3>1, <3>2
  <2>3. QED
    BY <2>2
<1>2. QED
  BY <1>1, Invariance, PTL

\* sv_max_clients_per_ip holds at all times, players that are waited for and
\* connections that were handed over included.
THEOREM PerIpAlwaysHolds == Spec => []PerIpHolds
<1>1. IInv => PerIpHolds
  BY DEF IInv
<1>2. QED
  BY <1>1, Invariance, PTL

\* No chunk is taken for one of another client, even when its slot was dropped
\* or handed over since its packet arrived.
THEOREM ChunksAlwaysAttributed == Spec => []ChunksAttributed
<1>1. IInv => ChunksAttributed
  BY DEF IInv, ReadingOne, ChunksAttributed
<1>2. QED
  BY <1>1, Invariance, PTL

\* Only a client that knows the timeout code of a player controls the player.
THEOREM TeeAlwaysOwned == Spec => []TeeOwned
<1>1. IInv => TeeOwned
  BY DEF IInv, CodesKnown, TeeOwned
<1>2. QED
  BY <1>1, Invariance, PTL
=============================================================================
