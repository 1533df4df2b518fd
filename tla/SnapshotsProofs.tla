--------------------------- MODULE SnapshotsProofs ---------------------------
(***************************************************************************)
(* Proofs about Snapshots, for any number of parts and messages and any    *)
(* delay.  A snapshot is only taken when it is newer than the one that is  *)
(* acknowledged; after a resynchronisation, when nothing is, it is the     *)
(* tick being received (recv) that keeps an old message out: Reached says  *)
(* that it has passed the newest snapshot in the storage.                  *)
(***************************************************************************)
EXTENDS Snapshots, FiniteSetTheorems, SequenceTheorems, WellFoundedInduction, TLAPS

Snaps == [age : Ages, right : BOOLEAN]

\* A message of the server: Message for one of its parts, some ticks later.
Sent(m) ==
    /\ m \in [age : 0 .. MaxDelay, base : Ticks, empty : BOOLEAN,
              num : 1 .. MaxParts, part : 1 .. MaxParts]
    /\ m.part <= m.num
    /\ m.empty => m.num = 1

Server ==
    /\ stored \subseteq 0 .. Keep /\ acked \in Ticks /\ rate \in {"init", "recover", "full"}
    /\ enters \in 0 .. MaxEnter
    /\ \A m \in snaps : Sent(m)
    /\ inputs \subseteq [age : 0 .. MaxDelay, ack : Ticks]

ClientType ==
    /\ recv \in Ages /\ have \subseteq [part : 1 .. MaxParts, age : Ages] /\ ack \in Ticks
    /\ store \in Seq(Snaps) /\ prev \in Nat /\ cur \in Nat /\ received \in 0 .. 2

\* The storage is right and in the order of the ticks, those too old to tell at
\* the front.
InOrder ==
    /\ \A i \in 1 .. Len(store) : store[i].right
    /\ \A i, j \in 1 .. Len(store) :
          i < j => /\ store[j].age <= store[i].age
                   /\ store[j].age # Old => store[j].age < store[i].age

\* The first two snapshots wait for each other; then they are shown.
Filling ==
    /\ received = 0 <=> Len(store) = 0
    /\ received = 1 => Len(store) = 1
    /\ received < 2 => prev = 0 /\ cur = 0
    /\ received = 2 => 1 <= prev /\ prev < cur /\ cur <= Len(store)

\* The newest snapshot is the one acknowledged, and none is held that is newer
\* than the tick being received, nor as new once the client has asked to start
\* afresh.
Reached ==
    /\ ack # None => Len(store) # 0 /\ store[Len(store)].age = ack
    /\ Len(store) # 0 =>
         /\ recv <= store[Len(store)].age
         /\ ack = None => recv < store[Len(store)].age \/ store[Len(store)].age = Old

Client == ClientType /\ InOrder /\ Filling /\ Reached

IInv == Server /\ Client

------------------------------------------------------------------------------
(* About the operators.                                                     *)

LEMMA Numbers ==
    /\ Keep \in Nat /\ MaxParts \in Nat /\ 1 <= MaxParts
    /\ MaxDelay \in Nat /\ MaxEnter \in Nat
    /\ Old \in Nat /\ Keep < Old /\ MaxDelay < Old
    /\ None \notin Nat
BY SnapshotsAssumption DEF Old

LEMMA AgedType == \A t \in Ticks : Aged(t) \in Ticks /\ (Aged(t) = None <=> t = None)
BY Numbers DEF Aged, Ticks, Ages

\* A tick later the order is the same, but for those that are too old to tell.
LEMMA AgedOrder ==
    ASSUME NEW s \in Ages, NEW t \in Ages
    PROVE  /\ Aged(t) \in Ages
           /\ s <= t => Aged(s) <= Aged(t)
           /\ s < t => Aged(s) < Aged(t) \/ Aged(t) = Old
           /\ t = Old => Aged(t) = Old
           /\ s < t /\ Aged(s) # Old => Aged(s) < Aged(t)
           /\ s = Old => Aged(s) = Old
BY Numbers DEF Aged, Ages

\* The least-number principle, without which Least is nothing.
LEMMA LeastInSet ==
    ASSUME NEW T \in SUBSET Nat, T # {}
    PROVE  Least(T) \in T /\ \A n \in T : Least(T) <= n
<1> DEFINE R == {ss \in Nat \X Nat : ss[1] < ss[2]}
<1>1. IsWellFoundedOn(R, Nat)
  BY NatLessThanWellFounded DEF OpToRel
<1> HIDE DEF R
<1>2. PICK m \in T : \A n \in T : ~ (<<n, m>> \in R)
  BY <1>1, WFMin
<1>3. \A n \in T : <<n, m>> \in Nat \X Nat
  OBVIOUS
<1>4. \A n \in T : ~(n < m)
  BY <1>2, <1>3 DEF R
<1>5. \A n \in T : m <= n
  BY <1>4
<1>6. QED
  BY <1>5 DEF Least

\* What is left when the first snapshots are purged.
LEMMA Purged ==
    ASSUME NEW s \in Seq(Snaps), NEW gone \in 0 .. Len(s)
    PROVE  /\ SubSeq(s, gone + 1, Len(s)) \in Seq(Snaps)
           /\ Len(SubSeq(s, gone + 1, Len(s))) = Len(s) - gone
           /\ \A i \in 1 .. (Len(s) - gone) :
                 /\ i + gone \in 1 .. Len(s)
                 /\ SubSeq(s, gone + 1, Len(s))[i] = s[i + gone]
<1>1. Len(s) \in Nat
  OBVIOUS
<1>2. \A i \in (gone + 1) .. Len(s) : s[i] \in Snaps
  BY <1>1
<1>3. QED
  BY <1>1, <1>2, SubSeqProperties

\* The snapshots too old to tell that are purged are all before the first shown.
LEMMA FewTooOld ==
    ASSUME NEW n \in Nat, 1 <= n, NEW T \in SUBSET (1 .. (n - 1))
    PROVE  Cardinality(T) \in 0 .. (n - 1)
<1>1. IsFiniteSet(1 .. (n - 1)) /\ Cardinality(1 .. (n - 1)) = n - 1
  BY FS_Interval
<1>2. IsFiniteSet(T) /\ Cardinality(T) <= n - 1
  BY <1>1, FS_Subset
<1>3. Cardinality(T) \in Nat
  BY <1>2, FS_CardinalityType
<1>4. QED
  BY <1>2, <1>3

------------------------------------------------------------------------------
(* The client, a tick later.                                                *)

LEMMA AgingClient ==
    ASSUME Client, Aging
    PROVE  Client'
<1> DEFINE gone == IF prev = 0 THEN 0
                   ELSE Cardinality({i \in 1 .. (prev - 1) : Aged(store[i].age) = Old})
           kept == SubSeq(store, gone + 1, Len(store))
<1>1. /\ store' = [i \in DOMAIN kept |-> [kept[i] EXCEPT !.age = Aged(@)]]
      /\ prev' = IF prev = 0 THEN 0 ELSE prev - gone
      /\ cur' = IF cur = 0 THEN 0 ELSE cur - gone
      /\ recv' = Aged(recv)
      /\ have' = {[h EXCEPT !.age = Aged(@)] : h \in have}
      /\ ack' = Aged(ack)
      /\ received' = received
  BY DEF Aging
<1>2. /\ store \in Seq(Snaps) /\ Len(store) \in Nat
      /\ prev \in Nat /\ cur \in Nat /\ received \in 0 .. 2
  BY DEF Client, ClientType
<1>3. /\ gone \in 0 .. Len(store)
      /\ prev = 0 => gone = 0
      /\ prev # 0 => gone < prev
  <2>1. CASE prev = 0
    BY <1>2, <2>1
  <2>2. CASE prev # 0
    <3>1. gone \in 0 .. (prev - 1)
      BY <1>2, <2>2, FewTooOld
    <3>2. prev <= Len(store)
      BY <1>2, <2>2 DEF Client, Filling
    <3> HIDE DEF gone
    <3>3. QED
      BY <1>2, <2>2, <3>1, <3>2
  <2>3. QED
    BY <2>1, <2>2
<1> HIDE DEF gone
<1>4. /\ kept \in Seq(Snaps) /\ Len(kept) = Len(store) - gone
      /\ \A i \in 1 .. Len(kept) : i + gone \in 1 .. Len(store) /\ kept[i] = store[i + gone]
  BY <1>2, <1>3, Purged
<1> HIDE DEF kept
<1>5. \A i \in 1 .. Len(store) :
        store[i] \in Snaps /\ store[i].age \in Ages /\ Aged(store[i].age) \in Ages
  <2>1. \A i \in 1 .. Len(store) : store[i] \in Snaps
    BY <1>2
  <2>2. \A i \in 1 .. Len(store) : store[i].age \in Ages
    BY <2>1 DEF Snaps
  <2>3. QED
    BY <2>1, <2>2, AgedOrder
<1>6. \A i \in 1 .. Len(kept) : [kept[i] EXCEPT !.age = Aged(@)] \in Snaps
  BY <1>4, <1>5 DEF Snaps
<1>7. /\ store' \in Seq(Snaps) /\ Len(store') = Len(store) - gone
      /\ DOMAIN store' = 1 .. (Len(store) - gone)
  <2>1. Len(kept) \in Nat /\ DOMAIN kept = 1 .. Len(kept)
    BY <1>4
  <2>2. store' \in [1 .. Len(kept) -> Snaps]
    BY <1>1, <1>6, <2>1
  <2>3. QED
    BY <1>4, <2>1, <2>2
<1>8. \A i \in 1 .. Len(store') :
        /\ i + gone \in 1 .. Len(store)
        /\ store'[i].age = Aged(store[i + gone].age)
        /\ store'[i].right = store[i + gone].right
  BY <1>1, <1>4, <1>5, <1>7 DEF Snaps
<1>9. ClientType'
  <2>1. recv' \in Ages /\ ack' \in Ticks
    BY <1>1, AgedOrder, AgedType DEF Client, ClientType
  <2>2. have' \subseteq [part : 1 .. MaxParts, age : Ages]
    BY <1>1, AgedOrder DEF Client, ClientType
  <2>3. prev' \in Nat /\ cur' \in Nat
    BY <1>1, <1>2, <1>3 DEF Client, Filling
  <2>4. QED
    BY <1>1, <1>2, <1>7, <2>1, <2>2, <2>3 DEF ClientType
<1>10. InOrder'
  <2>1. \A i \in 1 .. Len(store') : store'[i].right
    BY <1>8 DEF Client, InOrder
  <2>2. ASSUME NEW i \in 1 .. Len(store'), NEW j \in 1 .. Len(store'), i < j
        PROVE  /\ store'[j].age <= store'[i].age
               /\ store'[j].age # Old => store'[j].age < store'[i].age
    <3>1. /\ i + gone \in 1 .. Len(store) /\ j + gone \in 1 .. Len(store)
          /\ i + gone < j + gone
      BY <1>3, <1>8, <2>2
    <3>2. /\ store[j + gone].age <= store[i + gone].age
          /\ store[j + gone].age # Old => store[j + gone].age < store[i + gone].age
      BY <3>1 DEF Client, InOrder
    <3>3. store[j + gone].age \in Ages /\ store[i + gone].age \in Ages
      BY <1>5, <3>1
    <3>4. QED
      BY <1>8, <3>2, <3>3, AgedOrder
  <2>3. QED
    BY <2>1, <2>2 DEF InOrder
<1>11. Filling'
  <2>1. CASE received = 2
    <3>1. 1 <= prev /\ prev < cur /\ cur <= Len(store) /\ gone < prev /\ gone \in Nat
      BY <1>2, <1>3, <2>1 DEF Client, Filling
    <3>2. received' = 2 /\ prev' = prev - gone /\ cur' = cur - gone
      BY <1>1, <1>2, <2>1, <3>1
    <3>3. QED
      BY <1>2, <1>7, <3>1, <3>2 DEF Filling
  <2>2. CASE received < 2
    <3>1. prev = 0 /\ cur = 0 /\ gone = 0
      BY <1>3, <2>2 DEF Client, Filling
    <3>2. received' = received /\ prev' = 0 /\ cur' = 0 /\ Len(store') = Len(store)
      BY <1>1, <1>2, <1>7, <3>1
    <3>3. (received = 0 <=> Len(store) = 0) /\ (received = 1 => Len(store) = 1)
      BY DEF Client, Filling
    <3>4. QED
      BY <2>2, <3>2, <3>3 DEF Filling
  <2>3. QED
    BY <1>2, <2>1, <2>2
<1>12. Reached'
  <2>1. CASE Len(store) = 0
    <3>0. ack = None
      BY <2>1 DEF Client, Reached
    <3>1. Len(store') = 0
      <4>1. gone = 0
        BY <1>3, <2>1
      <4>2. QED
        BY <1>7, <2>1, <4>1
    <3>2. ack' = None
      BY <1>1, <3>0 DEF Aged
    <3>3. QED
      BY <3>1, <3>2 DEF Reached
  <2>2. CASE Len(store) # 0
    <3>1. Len(store') \in 1 .. Len(store') /\ Len(store') + gone = Len(store)
      BY <1>2, <1>3, <1>7, <2>2 DEF Client, Filling
    <3>2. store'[Len(store')].age = Aged(store[Len(store)].age)
      BY <1>8, <3>1
    <3>3. store[Len(store)].age \in Ages /\ recv \in Ages /\ ack \in Ticks
      BY <1>2, <1>5, <2>2 DEF Client, ClientType
    <3>4. /\ ack # None => store[Len(store)].age = ack
          /\ recv <= store[Len(store)].age
          /\ ack = None => recv < store[Len(store)].age \/ store[Len(store)].age = Old
      BY <2>2 DEF Client, Reached
    <3>5. ack' = None <=> ack = None
      BY <1>1, <3>3, AgedType
    <3>6. /\ recv' <= store'[Len(store')].age
          /\ ack' = None => recv' < store'[Len(store')].age \/ store'[Len(store')].age = Old
      BY <1>1, <3>2, <3>3, <3>4, <3>5, AgedOrder
    <3>7. QED
      BY <1>1, <3>1, <3>2, <3>4, <3>5, <3>6 DEF Reached
  <2>3. QED
    BY <2>1, <2>2
<1>13. QED
  BY <1>9, <1>10, <1>11, <1>12 DEF Client
------------------------------------------------------------------------------
(* A message at the client.                                                 *)

\* The base of a message is in the storage where Base says.
LEMMA BaseHeld ==
    ASSUME ClientType, NEW m, Sent(m), Base(m) # None
    PROVE  /\ Base(m) \in 0 .. Len(store)
           /\ Base(m) = 0 <=> m.base = None
           /\ Base(m) # 0 => Base(m) \in Places(m.base)
<1>1. store \in Seq(Snaps) /\ DOMAIN store = 1 .. Len(store) /\ Len(store) \in Nat
  BY DEF ClientType
<1>2. Places(m.base) \subseteq 1 .. Len(store) /\ Places(m.base) \in SUBSET Nat
  BY <1>1 DEF Places
<1>3. CASE m.base = None
  BY <1>1, <1>3 DEF Base
<1>4. CASE m.base # None
  <2>1. Places(m.base) # {} /\ Base(m) = Least(Places(m.base))
    BY <1>4 DEF Base
  <2>2. Base(m) \in Places(m.base)
    BY <1>2, <2>1, LeastInSet
  <2>3. QED
    BY <1>1, <1>2, <1>4, <2>2
<1>5. QED
  BY <1>3, <1>4

\* An empty snapshot has a single part, so none of another tick is mixed in:
\* it is right because its base is.
LEMMA EmptyUnpacks ==
    ASSUME ClientType, InOrder, NEW m, Sent(m), m.empty, Final(m), Base(m) # None
    PROVE  Unpacks(m)
<1>1. m.part = 1 /\ m.num = 1
  BY Numbers DEF Sent
<1>2. \A h \in Received(m) : h.part = 1
  BY <1>1 DEF Final
<1>3. \A h \in Received(m) : h.age = m.age
  BY <1>1, <1>2 DEF Received
<1>4. Base(m) # 0 => Base(m) \in {i \in Places(m.base) : store[i].right}
  <2>1. Places(m.base) \subseteq 1 .. Len(store)
    BY DEF Places, ClientType
  <2>2. QED
    BY <2>1, BaseHeld DEF InOrder
<1>5. QED
  BY <1>3, <1>4, BaseHeld DEF Unpacks

\* The purge keeps what is shown, and the base.
LEMMA PurgeKeeps ==
    ASSUME ClientType, Filling, NEW b \in 0 .. Len(store)
    PROVE  LET gone == FirstKept(b) - 1
           IN  /\ gone \in 0 .. Len(store)
               /\ Len(store) # 0 => gone < Len(store)
               /\ prev # 0 => gone < prev
               /\ received < 2 => gone = 0
<1>1. Len(store) \in Nat /\ prev \in Nat /\ cur \in Nat /\ received \in 0 .. 2
  BY DEF ClientType
<1>2. CASE b = 0
  BY <1>1, <1>2 DEF FirstKept, Filling
<1>3. CASE b # 0
  <2> DEFINE T == {b} \cup {i \in {prev, cur} : i # 0}
  <2>1. T \in SUBSET Nat /\ T # {} /\ b \in T /\ 0 \notin T
    BY <1>1, <1>3
  <2>2. prev # 0 => prev \in T
    OBVIOUS
  <2>3. FirstKept(b) = Least(T)
    BY <1>3 DEF FirstKept
  <2> HIDE DEF T
  <2>4. Least(T) \in T /\ \A n \in T : Least(T) <= n
    BY <2>1, LeastInSet
  <2>5. /\ FirstKept(b) \in Nat /\ 1 <= FirstKept(b) /\ FirstKept(b) <= b
        /\ prev # 0 => FirstKept(b) <= prev
    <3>1. Least(T) \in Nat /\ Least(T) # 0
      BY <2>1, <2>4
    <3>2. Least(T) <= b /\ (prev # 0 => Least(T) <= prev)
      BY <2>1, <2>2, <2>4
    <3>3. QED
      BY <2>3, <3>1, <3>2
  <2>6. received < 2 => b = 1
    <3>1. Len(store) # 0
      BY <1>1, <1>3
    <3>2. received < 2 => Len(store) = 1
      BY <1>1, <3>1 DEF Filling
    <3>3. Len(store) = 1 => b = 1
      <4>1. Len(store) = 1 => b \in 0 .. 1
        OBVIOUS
      <4>2. QED
        BY <1>3, <4>1
    <3>4. QED
      BY <3>2, <3>3
  <2>7. QED
    BY <1>1, <1>3, <2>5, <2>6
<1>4. QED
  BY <1>2, <1>3

\* A wanted message is of a newer tick than all that is held.
LEMMA WantedNewer ==
    ASSUME Client, NEW m, Sent(m), Wanted(m)
    PROVE  \A i \in 1 .. Len(store) : m.age < store[i].age
<1>1. /\ m.age \in Nat /\ m.age < Old /\ recv \in Nat /\ m.age <= recv
      /\ Len(store) \in Nat /\ ack \in Ticks /\ ack \notin 0 .. m.age
  BY Numbers DEF Sent, Wanted, Client, ClientType, Ages
<1>2. \A i \in 1 .. Len(store) : store[i] \in Snaps
  BY DEF Client, ClientType
<1>3. \A i \in 1 .. Len(store) : store[i].age \in Nat
  BY <1>2, Numbers DEF Snaps, Ages
<1>4. CASE Len(store) # 0
  <2>1. Len(store) \in 1 .. Len(store)
    BY <1>1, <1>4
  <2>2. m.age < store[Len(store)].age
    <3>1. CASE ack = None
      <4>1. recv < store[Len(store)].age \/ store[Len(store)].age = Old
        BY <1>4, <3>1 DEF Client, Reached
      <4>2. QED
        BY <1>1, <1>3, <2>1, <4>1
    <3>2. CASE ack # None
      <4>1. store[Len(store)].age = ack
        BY <3>2 DEF Client, Reached
      <4>2. QED
        BY <1>1, <1>3, <2>1, <4>1
    <3>3. QED
      BY <3>1, <3>2
  <2>3. \A i \in 1 .. Len(store) : i # Len(store) => store[Len(store)].age <= store[i].age
    BY <1>1, <2>1 DEF Client, InOrder
  <2>4. QED
    BY <1>1, <1>3, <2>1, <2>2, <2>3
<1>5. QED
  BY <1>1, <1>4

\* The parts that are put together.
LEMMA ReceivedType ==
    ASSUME Client, NEW m, Sent(m)
    PROVE  Received(m) \subseteq [part : 1 .. MaxParts, age : Ages]
<1>1. m.part \in 1 .. MaxParts /\ m.age \in Ages
  BY Numbers DEF Sent, Ages
<1>2. have \subseteq [part : 1 .. MaxParts, age : Ages]
  BY DEF Client, ClientType
<1>3. QED
  BY <1>1, <1>2 DEF Received

LEMMA AcceptClient ==
    ASSUME Client, NEW m, Sent(m), Wanted(m), Final(m), Base(m) # None,
           m.empty \/ Unpacks(m), Accept(m), recv' = m.age, have' = {}
    PROVE  Client'
<1> DEFINE gone == FirstKept(Base(m)) - 1
           rest == SubSeq(store, gone + 1, Len(store))
           new == [age |-> m.age, right |-> Unpacks(m)]
<1>1. /\ store' = Append(rest, new)
      /\ received' = IF received < 2 THEN received + 1 ELSE 2
      /\ prev' = IF received = 1 THEN 1 ELSE IF prev = 0 THEN 0 ELSE prev - gone
      /\ cur' = IF received = 1 THEN Len(Append(rest, new))
                ELSE IF cur = 0 THEN 0 ELSE cur - gone
      /\ ack' = m.age
  BY DEF Accept
<1>2. /\ store \in Seq(Snaps) /\ Len(store) \in Nat
      /\ prev \in Nat /\ cur \in Nat /\ received \in 0 .. 2
      /\ m.age \in 0 .. MaxDelay /\ m.age \in Ages /\ m.age \in Ticks /\ m.age # Old
      /\ m.age # None
  BY Numbers DEF Client, ClientType, Sent, Ages, Ticks
<1>3. /\ gone \in 0 .. Len(store)
      /\ Len(store) # 0 => gone < Len(store)
      /\ prev # 0 => gone < prev
      /\ received < 2 => gone = 0
  BY BaseHeld, PurgeKeeps DEF Client
<1>4. Unpacks(m)
  BY EmptyUnpacks DEF Client
<1>5. new \in Snaps /\ new.age = m.age /\ new.right
  BY <1>2, <1>4 DEF Snaps
<1> HIDE DEF gone, new
<1>6. /\ rest \in Seq(Snaps) /\ Len(rest) = Len(store) - gone
      /\ \A i \in 1 .. Len(rest) : i + gone \in 1 .. Len(store) /\ rest[i] = store[i + gone]
  BY <1>2, <1>3, Purged
<1> HIDE DEF rest
<1>7. /\ store' \in Seq(Snaps) /\ Len(store') = Len(rest) + 1
      /\ \A i \in 1 .. Len(rest) : store'[i] = rest[i]
      /\ store'[Len(rest) + 1] = new
  BY <1>1, <1>5, <1>6, AppendProperties
<1>8. Len(rest) \in Nat /\ Len(store') # 0 /\ store'[Len(store')] = new
  BY <1>2, <1>3, <1>6, <1>7
<1>9. \A i \in 1 .. Len(store') :
        \/ i = Len(store') /\ store'[i] = new
        \/ i < Len(store') /\ i + gone \in 1 .. Len(store) /\ store'[i] = store[i + gone]
  BY <1>6, <1>7, <1>8
<1>10. Filling'
  <2>1. CASE received = 0
    BY <1>1, <1>2, <1>3, <1>6, <1>7, <2>1 DEF Client, Filling
  <2>2. CASE received = 1
    <3>1. Len(store) = 1 /\ gone = 0
      BY <1>3, <2>2 DEF Client, Filling
    <3>2. received' = 2 /\ prev' = 1 /\ cur' = Len(store') /\ Len(store') = 2
      BY <1>1, <1>6, <1>7, <2>2, <3>1
    <3>3. QED
      BY <3>2 DEF Filling
  <2>3. CASE received = 2
    <3>1. 1 <= prev /\ prev < cur /\ cur <= Len(store) /\ gone < prev
      BY <1>2, <1>3, <2>3 DEF Client, Filling
    <3>2. received' = 2 /\ prev' = prev - gone /\ cur' = cur - gone
      BY <1>1, <1>2, <2>3, <3>1
    <3>3. QED
      BY <1>2, <1>3, <1>6, <1>7, <3>1, <3>2 DEF Filling
  <2>4. QED
    BY <1>2, <2>1, <2>2, <2>3
<1>11. ClientType'
  <2>1. prev' \in Nat /\ cur' \in Nat
    <3>1. CASE received = 1
      BY <1>1, <1>7, <1>8, <3>1
    <3>2. CASE received = 2
      <4>1. 1 <= prev /\ prev < cur /\ gone < prev
        BY <1>2, <1>3, <3>2 DEF Client, Filling
      <4>2. QED
        BY <1>1, <1>2, <1>3, <3>2, <4>1
    <3>3. CASE received = 0
      <4>1. prev = 0 /\ cur = 0
        BY <3>3 DEF Client, Filling
      <4>2. QED
        BY <1>1, <3>3, <4>1
    <3>4. QED
      BY <1>2, <3>1, <3>2, <3>3
  <2>2. received' \in 0 .. 2
    BY <1>1, <1>2
  <2>3. QED
    BY <1>1, <1>2, <1>7, <2>1, <2>2 DEF ClientType
<1>12. InOrder'
  <2>1. \A i \in 1 .. Len(store') : store'[i].right
    BY <1>5, <1>9 DEF Client, InOrder
  <2>2. ASSUME NEW i \in 1 .. Len(store'), NEW j \in 1 .. Len(store'), i < j
        PROVE  /\ store'[j].age <= store'[i].age
               /\ store'[j].age # Old => store'[j].age < store'[i].age
    <3>1. i < Len(store') /\ i + gone \in 1 .. Len(store) /\ store'[i] = store[i + gone]
      BY <1>7, <1>8, <1>9, <2>2
    <3>2. CASE j = Len(store')
      <4>1. m.age < store[i + gone].age
        BY <3>1, WantedNewer
      <4>2. store[i + gone] \in Snaps
        BY <1>2, <3>1
      <4>3. store[i + gone].age \in Nat /\ m.age \in Nat
        BY <1>2, <4>2, Numbers DEF Snaps, Ages
      <4>4. QED
        BY <1>5, <1>8, <3>1, <3>2, <4>1, <4>3
    <3>3. CASE j # Len(store')
      <4>1. j + gone \in 1 .. Len(store) /\ store'[j] = store[j + gone]
        BY <1>9, <3>3
      <4>2. i + gone < j + gone
        BY <1>3, <2>2
      <4>3. QED
        BY <3>1, <4>1, <4>2 DEF Client, InOrder
    <3>4. QED
      BY <3>2, <3>3
  <2>3. QED
    BY <2>1, <2>2 DEF InOrder
<1>13. Reached'
  BY <1>1, <1>2, <1>5, <1>8 DEF Reached
<1>14. QED
  BY <1>10, <1>11, <1>12, <1>13 DEF Client

\* The part of a snapshot that is not taken: what is held stays.
LEMMA RejectClient ==
    ASSUME Client, NEW m, Sent(m), Wanted(m), recv' = m.age,
           have' \subseteq [part : 1 .. MaxParts, age : Ages],
           ack' \in {ack, None},
           UNCHANGED <<store, prev, cur, received>>
    PROVE  Client'
<1>1. m.age \in Ages /\ m.age \in Nat /\ Len(store) \in Nat /\ None \in Ticks
  BY Numbers DEF Sent, Ages, Ticks, Client, ClientType
<1>2. ClientType'
  BY <1>1 DEF Client, ClientType
<1>3. InOrder' /\ Filling'
  BY DEF Client, InOrder, Filling
<1>4. Reached'
  <2>1. ack' # None => Len(store') # 0 /\ store'[Len(store')].age = ack'
    BY DEF Client, Reached
  <2>2. Len(store') # 0 => recv' < store'[Len(store')].age
    <3>1. Len(store) # 0 => Len(store) \in 1 .. Len(store)
      BY <1>1
    <3>2. QED
      BY <3>1, WantedNewer
  <2>3. Len(store') # 0 => store'[Len(store')] \in Snaps
    BY <1>1 DEF Client, ClientType
  <2>4. Len(store') # 0 => store'[Len(store')].age \in Nat
    BY <2>3, Numbers DEF Snaps, Ages
  <2>5. QED
    BY <1>1, <2>1, <2>2, <2>4 DEF Reached
<1>5. QED
  BY <1>2, <1>3, <1>4 DEF Client

------------------------------------------------------------------------------
(* The network.                                                             *)

LEMMA OlderSent ==
    ASSUME Server
    PROVE  /\ \A m \in OlderSnaps : Sent(m)
           /\ OlderInputs \subseteq [age : 0 .. MaxDelay, ack : Ticks]
<1>1. ASSUME NEW m \in OlderSnaps
      PROVE  Sent(m)
  <2>1. PICK n \in snaps : n.age < MaxDelay /\ m = [n EXCEPT !.age = n.age + 1, !.base = Aged(n.base)]
    BY DEF OlderSnaps
  <2>2. /\ n \in [age : 0 .. MaxDelay, base : Ticks, empty : BOOLEAN,
                  num : 1 .. MaxParts, part : 1 .. MaxParts]
        /\ n.part <= n.num
        /\ n.empty => n.num = 1
    BY <2>1 DEF Server, Sent
  <2>3. n.age + 1 \in 0 .. MaxDelay /\ Aged(n.base) \in Ticks
    BY <2>1, <2>2, Numbers, AgedType
  <2>4. /\ m \in [age : 0 .. MaxDelay, base : Ticks, empty : BOOLEAN,
                  num : 1 .. MaxParts, part : 1 .. MaxParts]
        /\ m.part = n.part /\ m.num = n.num /\ m.empty = n.empty
    BY <2>1, <2>2, <2>3
  <2>5. QED
    BY <2>2, <2>4 DEF Sent
<1>2. ASSUME NEW i \in OlderInputs
      PROVE  i \in [age : 0 .. MaxDelay, ack : Ticks]
  <2>1. PICK j \in inputs : j.age < MaxDelay /\ i = [j EXCEPT !.age = j.age + 1, !.ack = Aged(j.ack)]
    BY DEF OlderInputs
  <2>2. j \in [age : 0 .. MaxDelay, ack : Ticks]
    BY <2>1 DEF Server
  <2>3. j.age + 1 \in 0 .. MaxDelay /\ Aged(j.ack) \in Ticks
    BY <2>1, <2>2, Numbers, AgedType
  <2>4. QED
    BY <2>1, <2>2, <2>3
<1>3. QED
  BY <1>1, <1>2

LEMMA SendInputType ==
    ASSUME Server, NEW a \in Ticks, SendInput(a)
    PROVE  inputs' \subseteq [age : 0 .. MaxDelay, ack : Ticks]
<1>1. [age |-> 0, ack |-> a] \in [age : 0 .. MaxDelay, ack : Ticks]
  BY Numbers
<1>2. inputs' \subseteq inputs \cup {[age |-> 0, ack |-> a]}
  BY DEF SendInput, Passes
<1>3. QED
  BY <1>1, <1>2 DEF Server

------------------------------------------------------------------------------
(* The steps.                                                               *)

LEMMA InitInv == Init => IInv
<1> SUFFICES ASSUME Init PROVE IInv
  OBVIOUS
<1>1. Server
  BY Numbers DEF Init, Server, Ticks
<1>2. store = <<>> /\ Len(store) = 0 /\ store \in Seq(Snaps)
  BY DEF Init
<1>3. ClientType
  BY <1>2, Numbers DEF Init, ClientType, Ticks, Ages
<1>4. InOrder /\ Filling /\ Reached
  BY <1>2 DEF Init, InOrder, Filling, Reached
<1>5. QED
  BY <1>1, <1>3, <1>4 DEF IInv, Client

LEMMA KeptType == ASSUME stored \subseteq 0 .. Keep PROVE Kept(stored) \subseteq 0 .. Keep
BY DEF Kept

LEMMA SkipTickInv == IInv /\ SkipTick => IInv'
<1> SUFFICES ASSUME IInv, SkipTick PROVE IInv'
  OBVIOUS
<1>1. Client'
  BY AgingClient DEF IInv, SkipTick
<1>2. stored' \subseteq 0 .. Keep /\ acked' \in Ticks
  BY KeptType, AgedType DEF IInv, Server, SkipTick
<1>3. /\ \A m \in snaps' : Sent(m)
      /\ inputs' \subseteq [age : 0 .. MaxDelay, ack : Ticks]
  BY OlderSent DEF IInv, SkipTick
<1>4. Server'
  BY <1>2, <1>3 DEF IInv, Server, SkipTick
<1>5. QED
  BY <1>1, <1>4 DEF IInv

LEMMA DoSnapshotInv ==
    ASSUME IInv, NEW n \in 1 .. MaxParts, NEW empty \in BOOLEAN, DoSnapshot(n, empty)
    PROVE  IInv'
<1>1. Client'
  BY AgingClient DEF IInv, DoSnapshot
<1>2. stored' \subseteq 0 .. Keep /\ acked' \in Ticks
  BY Numbers, KeptType, AgedType DEF IInv, Server, DoSnapshot
<1>3. DeltaTick(acked') \in Ticks
  BY <1>2, Numbers DEF DeltaTick, Ticks
<1>4. ASSUME NEW part \in 1 .. n
      PROVE  Sent(Message(DeltaTick(acked'), empty, n, part))
  <2> DEFINE d == DeltaTick(acked')
             m == Message(d, empty, n, part)
  <2>1. m = [age |-> 0, base |-> d, empty |-> empty, num |-> n, part |-> part]
    BY DEF Message
  <2> HIDE DEF d, m
  <2>2. part \in 1 .. MaxParts /\ 0 \in 0 .. MaxDelay /\ d \in Ticks
    BY <1>3, Numbers DEF d
  <2>3. /\ m \in [age : 0 .. MaxDelay, base : Ticks, empty : BOOLEAN,
                  num : 1 .. MaxParts, part : 1 .. MaxParts]
        /\ m.part = part /\ m.num = n /\ m.empty = empty
    BY <2>1, <2>2
  <2>4. m.part <= m.num /\ (m.empty => m.num = 1)
    BY <2>3 DEF DoSnapshot
  <2>5. Sent(m)
    BY <2>3, <2>4 DEF Sent
  <2>6. QED
    BY <2>5 DEF m, d
<1>5. \A m \in snaps' : Sent(m)
  <2>1. snaps' \subseteq OlderSnaps \cup Parts(DeltaTick(acked'), empty, n)
    BY DEF DoSnapshot, Passes
  <2>2. \A m \in Parts(DeltaTick(acked'), empty, n) : Sent(m)
    BY <1>4 DEF Parts
  <2>3. QED
    BY <2>1, <2>2, OlderSent DEF IInv
<1>6. inputs' \subseteq [age : 0 .. MaxDelay, ack : Ticks]
  BY OlderSent DEF IInv, DoSnapshot
<1>7. rate' \in {"init", "recover", "full"} /\ enters' \in 0 .. MaxEnter
  BY DEF IInv, Server, DoSnapshot
<1>8. QED
  BY <1>1, <1>2, <1>5, <1>6, <1>7 DEF IInv, Server

\* The client does not take part.
LEMMA SameClient ==
    ASSUME Client, UNCHANGED clientVars
    PROVE  Client'
BY DEF Client, ClientType, InOrder, Filling, Reached, clientVars

LEMMA OnInputInv ==
    ASSUME IInv, NEW i \in inputs, NEW again \in BOOLEAN, OnInput(i, again)
    PROVE  IInv'
<1>1. Client'
  BY SameClient DEF IInv, OnInput
<1>2. acked' \in Ticks /\ rate' \in {"init", "recover", "full"}
  BY DEF IInv, Server, OnInput
<1>3. inputs' \subseteq inputs
  BY DEF OnInput
<1>4. QED
  BY <1>1, <1>2, <1>3 DEF IInv, Server, OnInput

LEMMA OnSnapInv ==
    ASSUME IInv, NEW m \in snaps, NEW again \in BOOLEAN, OnSnap(m, again)
    PROVE  IInv'
<1>1. Sent(m)
  BY DEF IInv, Server
<1>2. UNCHANGED <<stored, acked, rate, enters>> /\ snaps' \subseteq snaps
  BY DEF OnSnap, serverVars
<1>3. CASE ~Wanted(m) /\ UNCHANGED <<clientVars, inputs>>
  BY <1>2, <1>3, SameClient DEF IInv, Server
<1>4. CASE /\ Wanted(m)
           /\ recv' = m.age
           /\ have' = IF Final(m) THEN {} ELSE Received(m)
           /\ \/ Final(m) /\ Base(m) = None /\ Resync
              \/ Final(m) /\ Base(m) # None /\ (m.empty \/ Unpacks(m)) /\ Accept(m)
              \/ /\ ~Final(m) \/ (Base(m) # None /\ ~m.empty /\ ~Unpacks(m))
                 /\ UNCHANGED <<ack, store, prev, cur, received, inputs>>
  <2>1. have' \subseteq [part : 1 .. MaxParts, age : Ages]
    BY <1>1, <1>4, ReceivedType DEF IInv
  <2>2. CASE Final(m) /\ Base(m) = None /\ Resync
    <3>1. Client'
      BY <1>1, <1>4, <2>1, <2>2, RejectClient DEF IInv, Resync
    <3>2. inputs' \subseteq [age : 0 .. MaxDelay, ack : Ticks]
      <4>1. None \in Ticks
        BY DEF Ticks
      <4>2. QED
        BY <2>2, <4>1, SendInputType DEF IInv, Resync
    <3>3. QED
      BY <1>2, <3>1, <3>2 DEF IInv, Server
  <2>3. CASE Final(m) /\ Base(m) # None /\ (m.empty \/ Unpacks(m)) /\ Accept(m)
    <3>1. Client'
      BY <1>1, <1>4, <2>3, AcceptClient DEF IInv
    <3>2. inputs' = inputs
      BY <2>3 DEF Accept
    <3>3. QED
      BY <1>2, <3>1, <3>2 DEF IInv, Server
  <2>4. CASE UNCHANGED <<ack, store, prev, cur, received, inputs>>
    <3>1. Client'
      BY <1>1, <1>4, <2>1, <2>4, RejectClient DEF IInv
    <3>2. QED
      BY <1>2, <2>4, <3>1 DEF IInv, Server
  <2>5. QED
    BY <1>4, <2>2, <2>3, <2>4
<1>5. QED
  BY <1>3, <1>4 DEF OnSnap

LEMMA AdvanceInv == IInv /\ Advance => IInv'
<1> SUFFICES ASSUME IInv, Advance PROVE IInv'
  OBVIOUS
<1>1. Len(store) \in Nat /\ prev \in Nat /\ cur \in Nat /\ received \in 0 .. 2
  BY DEF IInv, Client, ClientType
<1>2. /\ 1 <= cur /\ cur + 1 <= Len(store) /\ prev' = cur /\ cur' = cur + 1
      /\ UNCHANGED <<stored, acked, rate, snaps, inputs, recv, have, ack, store, received, enters>>
  BY <1>1 DEF Advance, serverVars
<1>3. received = 2
  BY <1>1, <1>2 DEF IInv, Client, Filling
<1>4. Server' /\ InOrder' /\ Reached'
  BY <1>2 DEF IInv, Server, Client, InOrder, Reached
<1>5. ClientType'
  BY <1>1, <1>2 DEF IInv, Client, ClientType
<1>6. Filling'
  BY <1>1, <1>2, <1>3 DEF IInv, Client, Filling
<1>7. QED
  BY <1>4, <1>5, <1>6 DEF IInv, Client

LEMMA PredictInv == IInv /\ Predict => IInv'
<1> SUFFICES ASSUME IInv, Predict PROVE IInv'
  OBVIOUS
<1>1. Client'
  BY SameClient DEF IInv, Predict
<1>2. inputs' \subseteq [age : 0 .. MaxDelay, ack : Ticks]
  BY SendInputType DEF IInv, Client, ClientType, Predict
<1>3. QED
  BY <1>1, <1>2 DEF IInv, Server, Predict, serverVars

LEMMA ReenterInv == IInv /\ Reenter => IInv'
<1> SUFFICES ASSUME IInv, Reenter PROVE IInv'
  OBVIOUS
<1>1. Server'
  BY Numbers DEF IInv, Server, Reenter, Ticks
<1>2. store' = <<>> /\ Len(store') = 0 /\ store' \in Seq(Snaps)
  BY DEF Reenter
<1>3. ClientType'
  BY <1>2, Numbers DEF Reenter, ClientType, Ticks, Ages
<1>4. InOrder' /\ Filling' /\ Reached'
  BY <1>2 DEF Reenter, InOrder, Filling, Reached
<1>5. QED
  BY <1>1, <1>3, <1>4 DEF IInv, Client

THEOREM Inductive == IInv /\ [Next]_vars => IInv'
<1> SUFFICES ASSUME IInv, [Next]_vars PROVE IInv'
  OBVIOUS
<1>1. CASE SkipTick
  BY <1>1, SkipTickInv
<1>2. CASE \E n \in 1 .. MaxParts, empty \in BOOLEAN : DoSnapshot(n, empty)
  BY <1>2, DoSnapshotInv
<1>3. CASE \E i \in inputs, again \in BOOLEAN : OnInput(i, again)
  BY <1>3, OnInputInv
<1>4. CASE \E m \in snaps, again \in BOOLEAN : OnSnap(m, again)
  BY <1>4, OnSnapInv
<1>5. CASE Advance \/ Predict \/ Reenter
  BY <1>5, AdvanceInv, PredictInv, ReenterInv
<1>6. CASE UNCHANGED vars
  BY <1>6, SameClient DEF IInv, Server, vars, serverVars
<1>7. QED
  BY <1>1, <1>2, <1>3, <1>4, <1>5, <1>6 DEF Next

THEOREM Invariance == Spec => []IInv
BY InitInv, Inductive, PTL DEF Spec

\* What the client holds for a tick is what the server sent for it, and in the
\* order of the ticks, whatever the network loses, repeats or delays
\* (client.cpp, the handling of NETMSG_SNAP and its kin).
THEOREM AlwaysFaithful == Spec => []Faithful
<1>1. IInv => Faithful
  <2> SUFFICES ASSUME IInv PROVE Faithful
    OBVIOUS
  <2>1. TypeOK
    BY DEF IInv, Server, Client, ClientType, TypeOK, Snaps
  <2>2. DOMAIN store = 1 .. Len(store)
    BY DEF IInv, Client, ClientType
  <2>3. \A i \in 1 .. Len(store) : store[i] \in Snaps
    BY DEF IInv, Client, ClientType
  <2>4. \A i \in 1 .. Len(store) : store[i].age \in Int
    BY <2>3, Numbers DEF Snaps, Ages
  <2>5. QED
    BY <2>1, <2>2, <2>4 DEF IInv, Client, InOrder, Faithful
<1>2. QED
  BY <1>1, Invariance, PTL

\* The snapshots that are shown, and the acknowledged one, are still in the
\* storage (CSnapshotStorage::PurgeUntil in client.cpp).
THEOREM PointersAlwaysHeld == Spec => []PointersHeld
<1>1. IInv => PointersHeld
  BY DEF IInv, Client, ClientType, Filling, Reached, PointersHeld
<1>2. QED
  BY <1>1, Invariance, PTL
=============================================================================
