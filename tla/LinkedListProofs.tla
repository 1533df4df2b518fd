-------------------------- MODULE LinkedListProofs --------------------------
(***************************************************************************)
(* Proofs about the two components that keep linked lists in one array:    *)
(* SnapIdPool and RingBuffer.                                              *)
(*                                                                         *)
(* SnapIdPool, for any number of ids and any clock.  That the lists lead   *)
(* to the right ids is a statement about walks of any length.  Its local   *)
(* form is enough for who holds an id: every link of the free list stays   *)
(* among the free ids, no two links meet, none leads to the first one; and *)
(* likewise for the timed list, whose last id is the only one that leads   *)
(* nowhere.  For the walks themselves each list is taken as a sequence of  *)
(* ids without repetition (Lists).  Three lemmas say what taking the first *)
(* id, putting one in front and appending one do to it, and a walk yields  *)
(* that sequence.  It is the order of the resting ids in IdPool.           *)
(*                                                                         *)
(* RingBuffer, for a memory of any length and items of any sizes.  The     *)
(* list of blocks covers the memory (Shape), no two free blocks are next   *)
(* to one another (NoPair), and the blocks in use are a sequence from      *)
(* m_pConsume to m_pProduce, where one may only be skipped that is free    *)
(* and at the end of the memory (Queue).  Its items are the contents.      *)
(***************************************************************************)
EXTENDS SnapIdPool, RingBuffer, SequenceTheorems, FiniteSetTheorems, WellFoundedInduction, TLAPS

\* NatInductiveDef and the like take operators, so induction is by the least
\* number that something is false of.
LEMMA LeastNumber ==
    ASSUME NEW T \in SUBSET Nat, T # {}
    PROVE  \E m \in T : \A n \in T : ~(n < m)
<1> DEFINE R == {ss \in Nat \X Nat : ss[1] < ss[2]}
<1>1. IsWellFoundedOn(R, Nat)
  BY NatLessThanWellFounded DEF OpToRel
<1> HIDE DEF R
<1>2. PICK m \in T : \A n \in T : ~ (<<n, m>> \in R)
  BY <1>1, WFMin
<1>3. \A n \in T : <<n, m>> \in Nat \X Nat
  OBVIOUS
<1>4. QED
  BY <1>2, <1>3 DEF R

-----------------------------------------------------------------------------
(* SnapIdPool: who holds an id.                                            *)

Threaded(s, first) ==
    /\ first # Nil => state[first] = s
    /\ \A i \in Ids : state[i] = s /\ next[i] # Nil => /\ state[next[i]] = s
                                                       /\ next[i] # first
    /\ \A i, j \in Ids : state[i] = s /\ state[j] = s /\ next[i] # Nil
                            /\ next[i] = next[j] => i = j

Ended ==
    /\ firstTimed = Nil <=> lastTimed = Nil
    /\ lastTimed # Nil => state[lastTimed] = "timed" /\ next[lastTimed] = Nil
    /\ \A i \in Ids : state[i] = "timed" /\ next[i] = Nil => i = lastTimed

IInv ==
    /\ TypeOK
    /\ Threaded("free", firstFree)
    /\ Threaded("timed", firstTimed)
    /\ Ended
    /\ Exclusive

-----------------------------------------------------------------------------

LEMMA NilNotId == Nil \notin Ids
  BY DEF Nil, Ids

LEMMA AsIntInt == ASSUME NEW t \in Int PROVE AsInt(t) \in Int
<1>1. Word \in Int /\ Word > 0
  BY SnapIdPoolAssumption
<1>2. Word \div 2 \in Int
  BY <1>1
<1>3. (t + Word \div 2) % Word \in Int
  BY <1>1, <1>2
<1> QED
  BY <1>2, <1>3 DEF AsInt

LEMMA InitInv == Init => IInv
<1> SUFFICES ASSUME Init PROVE IInv
  OBVIOUS
<1> USE SnapIdPoolAssumption DEF Init
<1>1. TypeOK
  BY DEF TypeOK, Ids, Nil
<1>2. Threaded("free", firstFree)
  <2>1. /\ MaxIds \in Nat /\ 0 \in Ids
        /\ \A i \in Ids : /\ i \in Nat /\ i < MaxIds
                          /\ next[i] # Nil => next[i] = i + 1 /\ i + 1 \in Ids
    BY DEF Ids, Nil
  <2>2. \A i \in Ids : next[i] # Nil => next[i] # firstFree
    BY <2>1
  <2>3. \A i, j \in Ids : next[i] # Nil /\ next[i] = next[j] => i = j
    BY <2>1
  <2> QED
    BY <2>1, <2>2, <2>3 DEF Threaded
<1>3. Threaded("timed", firstTimed)
  BY DEF Threaded
<1>4. Ended /\ Exclusive
  BY DEF Ended, Exclusive
<1> QED
  BY <1>1, <1>2, <1>3, <1>4 DEF IInv

\* Both loops move the first timed id to the front of the free list.
LEMMA RemoveInv ==
    ASSUME IInv, firstTimed # Nil, RemoveFirstTimeout,
           UNCHANGED <<timeout, inUsage, now, history>>,
           pc' \in {"idle", "new", "flush"}
    PROVE  IInv'
<1> USE NilNotId DEF RemoveFirstTimeout, IInv, TypeOK, history
<1>0. /\ firstTimed \in Ids /\ state[firstTimed] = "timed"
      /\ next[firstTimed] \in Ids \cup {Nil} /\ next[firstTimed] # firstTimed
  BY DEF Threaded
<1>1. TypeOK'
  BY <1>0
<1>2. Threaded("free", firstFree)'
  BY <1>0 DEF Threaded
<1>3. Threaded("timed", firstTimed)'
  BY <1>0 DEF Threaded
<1>4. Ended'
  BY <1>0 DEF Threaded, Ended
<1>5. Exclusive'
  BY <1>0 DEF Exclusive
<1> QED
  BY <1>1, <1>2, <1>3, <1>4, <1>5

LEMMA NewIdTakeInv == IInv /\ NewIdTake => IInv'
<1> SUFFICES ASSUME IInv, NewIdTake PROVE IInv'
  OBVIOUS
<1> USE NilNotId DEF NewIdTake, IInv, TypeOK
<1>0. /\ firstFree \in Ids /\ state[firstFree] = "free"
      /\ next[firstFree] \in Ids \cup {Nil} /\ next[firstFree] # firstFree
  BY DEF Threaded
<1>1. TypeOK'
  BY <1>0
<1>2. Threaded("free", firstFree)'
  BY <1>0 DEF Threaded
<1>3. Threaded("timed", firstTimed)'
  BY <1>0 DEF Threaded
<1>4. Ended'
  BY <1>0 DEF Ended
<1>5. Exclusive'
  BY <1>0 DEF Exclusive
<1> QED
  BY <1>1, <1>2, <1>3, <1>4, <1>5

LEMMA FreeIdInv == ASSUME IInv, NEW i \in Ids, FreeId(i) PROVE IInv'
<1> USE NilNotId DEF FreeId, IInv, TypeOK
<1>0. state[i] = "allocated" /\ owners[i] = 1
  BY DEF Exclusive
<1>1. TypeOK'
  <2>1. AsInt(now + Delay) \in Int
    BY AsIntInt, SnapIdPoolAssumption
  <2>2. next' \in [Ids -> Ids \cup {Nil}] /\ firstTimed' \in Ids \cup {Nil}
    OBVIOUS
  <2>3. owners' \in [Ids -> Nat]
    BY <1>0
  <2> QED
    BY <2>1, <2>2, <2>3
<1>2. Threaded("free", firstFree)'
  BY <1>0 DEF Threaded, Ended
<1>3. Threaded("timed", firstTimed)'
  <2>1. CASE lastTimed # Nil
    BY <1>0, <2>1 DEF Threaded, Ended
  <2>2. CASE lastTimed = Nil
    BY <1>0, <2>2 DEF Threaded, Ended
  <2> QED
    BY <2>1, <2>2
<1>4. Ended'
  BY <1>0 DEF Ended
<1>5. Exclusive'
  BY <1>0 DEF Exclusive
<1> QED
  BY <1>1, <1>2, <1>3, <1>4, <1>5

\* The inductive step.
THEOREM Inductive == IInv /\ [Next]_vars => IInv'
<1> SUFFICES ASSUME IInv, [Next]_vars PROVE IInv'
  OBVIOUS
<1> USE DEF vars, lists, counts, history
<1>1. ASSUME NEW p \in {"new", "flush"}, Call(p) PROVE IInv'
  BY <1>1 DEF Call, IInv, TypeOK, Threaded, Ended, Exclusive
<1>2. CASE NewIdExpire
  BY <1>2, RemoveInv DEF NewIdExpire, IInv, TypeOK
<1>3. CASE NewIdTake
  BY <1>3, NewIdTakeInv
<1>4. CASE NewIdNone
  BY <1>4 DEF NewIdNone, IInv, TypeOK, Threaded, Ended, Exclusive
<1>5. CASE TimeoutIds
  <2>1. CASE firstTimed # Nil
    BY <1>5, <2>1, RemoveInv DEF TimeoutIds, IInv, TypeOK
  <2>2. CASE firstTimed = Nil
    BY <1>5, <2>2 DEF TimeoutIds, IInv, TypeOK, Threaded, Ended, Exclusive
  <2> QED
    BY <2>1, <2>2
<1>6. ASSUME NEW i \in Ids, FreeId(i) PROVE IInv'
  BY <1>6, FreeIdInv
<1>7. CASE Tick
  BY <1>7 DEF Tick, IInv, TypeOK, Threaded, Ended, Exclusive
<1>8. CASE UNCHANGED vars
  BY <1>8 DEF IInv, TypeOK, Threaded, Ended, Exclusive
<1> QED
  BY <1>1, <1>2, <1>3, <1>4, <1>5, <1>6, <1>7, <1>8 DEF Next

THEOREM Invariance == Spec => []IInv
<1> QED
  BY InitInv, Inductive, PTL DEF Spec

\* Every variable keeps its type.
THEOREM TypeCorrect == Spec => []TypeOK
<1>1. IInv => TypeOK
  BY DEF IInv
<1> QED
  BY <1>1, Invariance, PTL

\* NewId never hands out an id that is held, and FreeId is never called for
\* an id that fails its assertion.
THEOREM IdsExclusive == Spec => []Exclusive
<1>1. IInv => Exclusive
  BY DEF IInv
<1> QED
  BY <1>1, Invariance, PTL

-----------------------------------------------------------------------------
(* SnapIdPool: the counters.                                               *)

LEMMA WithFinite ==
    ASSUME NEW s
    PROVE  IsFiniteSet(With(s)) /\ Cardinality(With(s)) \in Nat
<1>1. IsFiniteSet(Ids)
  BY SnapIdPoolAssumption, FS_Interval DEF Ids
<1> QED
  BY <1>1, FS_Subset, FS_CardinalityType DEF With

\* The id i goes from one state to another one.
Moves(i, from, to) ==
    /\ state[i] = from
    /\ state' = [state EXCEPT ![i] = to]

LEMMA MovesCount ==
    ASSUME TypeOK, NEW i \in Ids, NEW from, NEW to, from # to, Moves(i, from, to),
           NEW s
    PROVE  Cardinality(With(s)') = Cardinality(With(s))
              + (IF s = to THEN 1 ELSE 0) - (IF s = from THEN 1 ELSE 0)
<1>1. CASE s = to
  <2>1. With(s)' = With(s) \cup {i} /\ i \notin With(s)
    BY <1>1 DEF Moves, TypeOK, With
  <2>2. Cardinality(With(s)') = Cardinality(With(s)) + 1
    BY <2>1, WithFinite, FS_AddElement
  <2> QED
    BY <1>1, <2>2, WithFinite
<1>2. CASE s = from
  <2>1. With(s)' = With(s) \ {i} /\ i \in With(s)
    BY <1>2 DEF Moves, TypeOK, With
  <2>2. Cardinality(With(s)') = Cardinality(With(s)) - 1
    BY <2>1, WithFinite, FS_RemoveElement
  <2> QED
    BY <1>2, <2>2, WithFinite
<1>3. CASE s # to /\ s # from
  <2>1. With(s)' = With(s)
    BY <1>3 DEF Moves, TypeOK, With
  <2> QED
    BY <1>3, <2>1, WithFinite
<1> QED
  BY <1>1, <1>2, <1>3

LEMMA InitCounted == Init => Counted
<1> SUFFICES ASSUME Init PROVE Counted
  OBVIOUS
<1>1. With("allocated") = {} /\ With("timed") = {}
  BY DEF Init, With
<1> QED
  BY <1>1, FS_EmptySet DEF Init, Counted

LEMMA RemoveCounted ==
    ASSUME IInv, Counted, firstTimed # Nil, RemoveFirstTimeout, UNCHANGED inUsage
    PROVE  Counted'
<1>1. firstTimed \in Ids /\ Moves(firstTimed, "timed", "free")
  BY DEF IInv, TypeOK, Threaded, RemoveFirstTimeout, Moves
<1>2. /\ Cardinality(With("timed")') = Cardinality(With("timed")) - 1
      /\ Cardinality(With("allocated")') = Cardinality(With("allocated"))
  BY <1>1, MovesCount, WithFinite DEF IInv
<1> QED
  BY <1>2, WithFinite DEF Counted, RemoveFirstTimeout

LEMMA CountedStep == IInv /\ Counted /\ [Next]_vars => Counted'
<1> SUFFICES ASSUME IInv, Counted, [Next]_vars PROVE Counted'
  OBVIOUS
<1>1. CASE UNCHANGED <<lists, counts>>
  BY <1>1 DEF Counted, With, lists, counts
<1>2. CASE NewIdExpire
  BY <1>2, RemoveCounted DEF NewIdExpire
<1>3. CASE NewIdTake
  <2>1. firstFree \in Ids /\ Moves(firstFree, "free", "allocated")
    BY <1>3 DEF NewIdTake, IInv, TypeOK, Threaded, Moves
  <2>2. /\ Cardinality(With("allocated")') = Cardinality(With("allocated")) + 1
        /\ Cardinality(With("timed")') = Cardinality(With("timed"))
    BY <2>1, MovesCount, WithFinite DEF IInv
  <2> QED
    BY <1>3, <2>2, WithFinite DEF Counted, NewIdTake
<1>4. CASE TimeoutIds
  <2>1. CASE firstTimed # Nil
    BY <1>4, <2>1, RemoveCounted DEF TimeoutIds
  <2>2. CASE firstTimed = Nil
    BY <1>4, <2>2 DEF TimeoutIds, Counted, With, lists
  <2> QED
    BY <2>1, <2>2
<1>5. ASSUME NEW i \in Ids, FreeId(i) PROVE Counted'
  <2>1. Moves(i, "allocated", "timed")
    BY <1>5 DEF FreeId, IInv, TypeOK, Exclusive, Moves
  <2>2. /\ Cardinality(With("allocated")') = Cardinality(With("allocated")) - 1
        /\ Cardinality(With("timed")') = Cardinality(With("timed")) + 1
    BY <2>1, MovesCount, WithFinite DEF IInv
  <2> QED
    BY <1>5, <2>2, WithFinite DEF Counted, FreeId
<1> QED
  BY <1>1, <1>2, <1>3, <1>4, <1>5
     DEF Next, Call, NewIdNone, Tick, vars

\* m_Usage and m_InUsage always say how many ids are taken and held.
THEOREM CountsRight == Spec => []Counted
<1> QED
  BY InitCounted, CountedStep, Invariance, PTL DEF Spec

-----------------------------------------------------------------------------
(* SnapIdPool: the lists as sequences.                                     *)

\* w is the list that starts at first, with the links nx, and S is what it holds.
Lists(w, S, first, nx) ==
    /\ w \in Seq(Ids)
    /\ \A k \in 1 .. Len(w) : w[k] \in S
    /\ \A i \in S : \E k \in 1 .. Len(w) : w[k] = i
    /\ \A j, k \in 1 .. Len(w) : w[j] = w[k] => j = k
    /\ first = IF Len(w) = 0 THEN Nil ELSE w[1]
    /\ \A k \in 1 .. Len(w) : nx[w[k]] = IF k = Len(w) THEN Nil ELSE w[k + 1]

\* The recursion of Nth has one solution: the list, and then nothing.
LEMMA NthOfList ==
    ASSUME NEW w, NEW s, NEW first, Lists(w, With(s), first, next)
    PROVE  Nth(first) = [k \in 1 .. (MaxIds + 1) |-> IF k <= Len(w) THEN w[k] ELSE Nil]
<1> DEFINE D == 1 .. (MaxIds + 1)
           G == [k \in D |-> IF k <= Len(w) THEN w[k] ELSE Nil]
           Turn(f) == [k \in D |-> IF k = 1 THEN first
                                   ELSE IF f[k - 1] = Nil THEN Nil ELSE next[f[k - 1]]]
<1>1. Nth(first) = CHOOSE f : f = Turn(f)
  BY DEF Nth
<1>2. /\ Len(w) \in Nat /\ MaxIds \in Nat
      /\ \A k \in 1 .. Len(w) : w[k] \in Ids /\ w[k] # Nil
  BY SnapIdPoolAssumption, NilNotId DEF Lists
<1>3. ASSUME NEW k \in D
      PROVE  G[k] = IF k = 1 THEN first ELSE IF G[k - 1] = Nil THEN Nil ELSE next[G[k - 1]]
  <2>1. CASE k = 1
    BY <1>2, <2>1 DEF Lists
  <2>2. CASE k # 1
    <3>1. k - 1 \in D /\ k \in Nat
      BY <1>2, <2>2
    <3>2. CASE k <= Len(w)
      <4>1. k - 1 \in 1 .. Len(w) /\ k \in 1 .. Len(w) /\ G[k - 1] = w[k - 1] /\ G[k] = w[k]
        BY <1>2, <2>2, <3>1, <3>2
      <4>2. next[w[k - 1]] = w[k]
        BY <1>2, <4>1 DEF Lists
      <4>3. QED
        BY <1>2, <2>2, <4>1, <4>2
    <3>3. CASE k = Len(w) + 1
      <4>1. k - 1 \in 1 .. Len(w) /\ k - 1 = Len(w) /\ G[k - 1] = w[k - 1] /\ G[k] = Nil
        BY <1>2, <2>2, <3>1, <3>3
      <4>2. next[w[k - 1]] = Nil
        BY <4>1 DEF Lists
      <4>3. QED
        BY <1>2, <2>2, <4>1, <4>2
    <3>4. CASE k > Len(w) + 1
      BY <1>2, <2>2, <3>1, <3>4
    <3>5. QED
      BY <1>2, <3>1, <3>2, <3>3, <3>4
  <2>3. QED
    BY <2>1, <2>2
<1>4. G = Turn(G)
  BY <1>3
<1>5. ASSUME NEW f, f = Turn(f)
      PROVE  f = G
  <2> DEFINE T == {k \in D : f[k] # G[k]}
  <2>1. /\ DOMAIN f = D /\ f = [k \in D |-> f[k]]
        /\ \A k \in D : f[k] = IF k = 1 THEN first
                               ELSE IF f[k - 1] = Nil THEN Nil ELSE next[f[k - 1]]
    BY <1>5
  <2> HIDE DEF G
  <2>2. CASE T = {}
    BY <2>1, <2>2 DEF G
  <2>3. CASE T # {}
    <3>1. T \in SUBSET Nat
      BY <1>2
    <3>2. PICK m \in T : \A n \in T : ~(n < m)
      BY <2>3, <3>1, LeastNumber
    <3>3. m \in D /\ m # 1
      BY <1>3, <2>1, <3>2
    <3>4. m - 1 \in D /\ m - 1 < m
      BY <1>2, <3>3
    <3>5. f[m - 1] = G[m - 1]
      BY <3>2, <3>4
    <3>6. f[m] = G[m]
      BY <1>3, <2>1, <3>3, <3>5
    <3>7. QED
      BY <3>2, <3>6
  <2>4. QED
    BY <2>2, <2>3
<1> HIDE DEF G, Turn
<1>6. (CHOOSE f : f = Turn(f)) = G
  BY <1>4, <1>5
<1>7. QED
  BY <1>1, <1>6 DEF G

\* A list is no longer than there are ids, so the walk sees all of it.
LEMMA ListShort ==
    ASSUME NEW w, NEW s, NEW first, Lists(w, With(s), first, next)
    PROVE  /\ Len(w) <= MaxIds
           /\ {w[k] : k \in DOMAIN w} = With(s)
           /\ Cardinality(With(s)) = Len(w)
<1>1. Len(w) \in Nat /\ DOMAIN w = 1 .. Len(w) /\ w \in [1 .. Len(w) -> Ids]
  BY LenProperties DEF Lists
<1>2. {w[k] : k \in DOMAIN w} = With(s)
  BY <1>1 DEF Lists
<1>3. w \in Surjection(1 .. Len(w), With(s)) /\ w \in Injection(1 .. Len(w), With(s))
  <2>1. w \in [1 .. Len(w) -> With(s)]
    BY <1>1 DEF Lists
  <2>2. IsInjective(w)
    BY <1>1 DEF Lists, IsInjective
  <2>3. \A i \in With(s) : \E k \in 1 .. Len(w) : w[k] = i
    BY DEF Lists
  <2>4. QED
    BY <2>1, <2>2, <2>3 DEF Surjection, Injection
<1>4. IsFiniteSet(1 .. Len(w)) /\ Cardinality(1 .. Len(w)) = Len(w)
  BY <1>1, FS_Interval
<1>5. Cardinality(With(s)) = Len(w)
  <2> DEFINE K == 1 .. Len(w)
             T == With(s)
  <2>1. w \in Surjection(K, T) /\ w \in Injection(K, T) /\ IsFiniteSet(K)
    BY <1>3, <1>4
  <2> HIDE DEF K, T
  <2>2. Cardinality(T) = Cardinality(K) <=> w \in Injection(K, T)
    BY <2>1, FS_Surjection
  <2>3. Cardinality(With(s)) = Cardinality(1 .. Len(w))
    BY <2>1, <2>2 DEF K, T
  <2>4. QED
    BY <1>4, <2>3
<1>6. IsFiniteSet(Ids) /\ Cardinality(Ids) = MaxIds
  BY SnapIdPoolAssumption, FS_Interval DEF Ids
<1>7. Cardinality(With(s)) <= MaxIds
  <2>1. With(s) \in SUBSET Ids
    BY DEF With
  <2>2. QED
    BY <1>6, <2>1, FS_Subset
<1>8. QED
  BY <1>2, <1>5, <1>7

LEMMA WalkOfList ==
    ASSUME NEW w, NEW s, NEW first, Lists(w, With(s), first, next)
    PROVE  Walk(first) = w
<1> DEFINE at == Nth(first)
           J == {j \in DOMAIN at : at[j] # Nil}
<1>1. Len(w) \in Nat /\ MaxIds \in Nat /\ Len(w) <= MaxIds
      /\ \A k \in 1 .. Len(w) : w[k] \in Ids /\ w[k] # Nil
  <2>1. w \in Seq(Ids)
    BY DEF Lists
  <2>2. Len(w) <= MaxIds
    BY ListShort
  <2>3. QED
    BY <2>1, <2>2, SnapIdPoolAssumption, NilNotId
<1>2. /\ DOMAIN at = 1 .. (MaxIds + 1)
      /\ \A k \in 1 .. (MaxIds + 1) : at[k] = IF k <= Len(w) THEN w[k] ELSE Nil
  BY NthOfList
<1>3. J = 1 .. Len(w)
  BY <1>1, <1>2
<1>4. Cardinality(J) = Len(w)
  <2>1. Len(w) \in Nat
    BY <1>1
  <2>2. Cardinality(1 .. Len(w)) = IF 1 > Len(w) THEN 0 ELSE Len(w) - 1 + 1
    BY <2>1, FS_Interval
  <2>3. Cardinality(1 .. Len(w)) = Len(w)
    BY <2>1, <2>2
  <2>4. QED
    BY <1>3, <2>3
<1>5. Walk(first) = [k \in 1 .. Cardinality(J) |-> at[k]]
  BY DEF Walk
<1> HIDE DEF at, J
<1>6. \A k \in 1 .. Len(w) : at[k] = w[k]
  BY <1>1, <1>2
<1>7. w = [k \in 1 .. Len(w) |-> w[k]]
  BY LenProperties DEF Lists
<1>8. QED
  BY <1>4, <1>5, <1>6, <1>7


-----------------------------------------------------------------------------
(* SnapIdPool: what the operations do to a list.                           *)

SameLinks(S, nx, ny) == \A i \in S : ny[i] = nx[i]

LEMMA SameList ==
    ASSUME NEW w, NEW S, NEW first, NEW nx, NEW ny, Lists(w, S, first, nx),
           SameLinks(S, nx, ny)
    PROVE  Lists(w, S, first, ny)
BY DEF Lists, SameLinks

\* The first id leaves the list.
LEMMA FirstLeaves ==
    ASSUME NEW w, NEW S, NEW first, NEW nx, NEW ny, Lists(w, S, first, nx), first # Nil,
           SameLinks(S \ {first}, nx, ny)
    PROVE  /\ w # <<>> /\ Head(w) = first /\ first \in S /\ first \in Ids
           /\ Lists(Tail(w), S \ {first}, nx[first], ny)
<1>1. /\ w \in Seq(Ids) /\ Len(w) \in Nat
      /\ \A k \in 1 .. Len(w) : w[k] \in Ids /\ w[k] \in S
  BY ElementOfSeq, LenProperties DEF Lists
<1>2. first = w[1] /\ Len(w) # 0 /\ 1 \in 1 .. Len(w)
  BY <1>1 DEF Lists
<1>3. w # <<>> /\ Head(w) = first /\ first \in S /\ first \in Ids
  BY <1>1, <1>2
<1> DEFINE t == Tail(w)
<1>4. t \in Seq(Ids) /\ Len(t) = Len(w) - 1 /\ \A i \in 1 .. Len(t) : t[i] = w[i + 1]
  BY <1>1, <1>3, HeadTailProperties
<1> HIDE DEF t
<1>5. \A j, k \in 1 .. Len(w) : w[j] = w[k] => j = k
  BY DEF Lists
<1>6. ASSUME NEW k \in 1 .. Len(t)
      PROVE  /\ k + 1 \in 1 .. Len(w) /\ t[k] = w[k + 1]
             /\ t[k] \in S \ {first}
             /\ ny[t[k]] = IF k = Len(t) THEN Nil ELSE t[k + 1]
  <2>1. k + 1 \in 1 .. Len(w) /\ k + 1 # 1 /\ t[k] = w[k + 1]
    BY <1>1, <1>4
  <2>2. t[k] \in S /\ t[k] # first
    BY <1>1, <1>2, <1>5, <2>1
  <2>3. nx[w[k + 1]] = IF k + 1 = Len(w) THEN Nil ELSE w[(k + 1) + 1]
    BY <2>1 DEF Lists
  <2>4. k # Len(t) => t[k + 1] = w[(k + 1) + 1]
    <3>1. k # Len(t) => k + 1 \in 1 .. Len(t)
      BY <1>1, <1>4
    <3>2. QED
      BY <1>4, <3>1
  <2>5. k + 1 = Len(w) <=> k = Len(t)
    BY <1>1, <1>4
  <2>6. ny[t[k]] = nx[t[k]]
    BY <2>2 DEF SameLinks
  <2>7. QED
    BY <2>1, <2>2, <2>3, <2>4, <2>5, <2>6
<1>7. ASSUME NEW i \in S \ {first}
      PROVE  \E k \in 1 .. Len(t) : t[k] = i
  <2>1. PICK k \in 1 .. Len(w) : w[k] = i
    BY DEF Lists
  <2>2. k # 1
    BY <1>2, <2>1
  <2>3. k - 1 \in 1 .. Len(t) /\ (k - 1) + 1 = k
    BY <1>1, <1>4, <2>2
  <2>4. t[k - 1] = w[(k - 1) + 1]
    BY <1>4, <2>3
  <2>5. QED
    BY <2>1, <2>3, <2>4
<1>8. ASSUME NEW j \in 1 .. Len(t), NEW k \in 1 .. Len(t), t[j] = t[k]
      PROVE  j = k
  <2>1. j + 1 = k + 1
    BY <1>5, <1>6, <1>8
  <2>2. QED
    BY <2>1
<1>9. nx[first] = IF Len(t) = 0 THEN Nil ELSE t[1]
  <2>1. nx[w[1]] = IF 1 = Len(w) THEN Nil ELSE w[1 + 1]
    BY <1>2 DEF Lists
  <2>2. Len(t) # 0 => t[1] = w[1 + 1]
    <3>1. Len(t) # 0 => 1 \in 1 .. Len(t)
      BY <1>1, <1>4
    <3>2. QED
      BY <1>4, <3>1
  <2>3. 1 = Len(w) <=> Len(t) = 0
    BY <1>1, <1>4
  <2>4. QED
    BY <1>2, <2>1, <2>2, <2>3
<1>10. Lists(t, S \ {first}, nx[first], ny)
  BY <1>4, <1>6, <1>7, <1>8, <1>9 DEF Lists
<1>11. QED
  BY <1>3, <1>10 DEF t

\* An id comes to the front.
LEMMA FirstComes ==
    ASSUME NEW w, NEW S, NEW first, NEW nx, NEW ny, Lists(w, S, first, nx),
           NEW i \in Ids, i \notin S, ny[i] = first, SameLinks(S, nx, ny)
    PROVE  Lists(<<i>> \o w, S \cup {i}, i, ny)
<1> DEFINE u == <<i>> \o w
<1>1. /\ w \in Seq(Ids) /\ Len(w) \in Nat
      /\ \A k \in 1 .. Len(w) : w[k] \in Ids /\ w[k] \in S
  BY ElementOfSeq, LenProperties DEF Lists
<1>2. <<i>> \in Seq(Ids) /\ Len(<<i>>) = 1 /\ <<i>>[1] = i
  OBVIOUS
<1>3. /\ u \in Seq(Ids) /\ Len(u) = 1 + Len(w)
      /\ \A k \in 1 .. 1 + Len(w) : u[k] = IF k <= 1 THEN <<i>>[k] ELSE w[k - 1]
  BY <1>1, <1>2, ConcatProperties
<1> HIDE DEF u
<1>4. 1 \in 1 .. Len(u) /\ u[1] = i
  <2>1. 1 \in 1 .. 1 + Len(w)
    BY <1>1
  <2>2. QED
    BY <1>2, <1>3, <2>1
<1>5. ASSUME NEW k \in 1 .. Len(u), k # 1
      PROVE  k - 1 \in 1 .. Len(w) /\ u[k] = w[k - 1] /\ u[k] \in S /\ u[k] # i
  <2>1. k - 1 \in 1 .. Len(w) /\ ~(k <= 1) /\ k \in 1 .. 1 + Len(w)
    BY <1>1, <1>3, <1>5
  <2>2. QED
    BY <1>1, <1>3, <2>1
<1>6. ASSUME NEW k \in 1 .. Len(w)
      PROVE  k + 1 \in 1 .. Len(u) /\ u[k + 1] = w[k]
  <2>1. k + 1 \in 1 .. Len(u) /\ k + 1 # 1 /\ (k + 1) - 1 = k
    BY <1>1, <1>3
  <2>2. u[k + 1] = w[(k + 1) - 1]
    BY <1>5, <2>1
  <2>3. QED
    BY <2>1, <2>2
<1>7. \A j \in S \cup {i} : \E k \in 1 .. Len(u) : u[k] = j
  <2>1. \A j \in S : \E k \in 1 .. Len(w) : w[k] = j
    BY DEF Lists
  <2>2. QED
    BY <1>4, <1>6, <2>1
<1>8. ASSUME NEW j \in 1 .. Len(u), NEW k \in 1 .. Len(u), u[j] = u[k]
      PROVE  j = k
  <2>1. CASE j = 1 \/ k = 1
    BY <1>4, <1>5, <1>8, <2>1
  <2>2. CASE j # 1 /\ k # 1
    <3>1. /\ j - 1 \in 1 .. Len(w) /\ k - 1 \in 1 .. Len(w)
          /\ w[j - 1] = w[k - 1]
      BY <1>5, <1>8, <2>2
    <3>2. j - 1 = k - 1
      BY <3>1 DEF Lists
    <3>3. QED
      BY <3>2
  <2>3. QED
    BY <2>1, <2>2
<1>9. ASSUME NEW k \in 1 .. Len(u)
      PROVE  ny[u[k]] = IF k = Len(u) THEN Nil ELSE u[k + 1]
  <2>1. CASE k = 1
    <3>1. first = IF Len(w) = 0 THEN Nil ELSE w[1]
      BY DEF Lists
    <3>2. Len(w) # 0 => 1 \in 1 .. Len(w)
      BY <1>1
    <3>3. Len(w) # 0 => u[1 + 1] = w[1]
      BY <1>6, <3>2
    <3>4. 1 = Len(u) <=> Len(w) = 0
      BY <1>1, <1>3
    <3>5. QED
      BY <1>4, <2>1, <3>1, <3>3, <3>4
  <2>2. CASE k # 1
    <3>1. k - 1 \in 1 .. Len(w) /\ u[k] = w[k - 1] /\ ny[u[k]] = nx[w[k - 1]]
      BY <1>5, <2>2 DEF SameLinks
    <3>2. nx[w[k - 1]] = IF k - 1 = Len(w) THEN Nil ELSE w[(k - 1) + 1]
      BY <3>1 DEF Lists
    <3>3. (k - 1) + 1 = k /\ (k - 1 = Len(w) <=> k = Len(u))
          /\ (k # Len(u) => k \in 1 .. Len(w))
      BY <1>1, <1>3
    <3>4. k # Len(u) => u[k + 1] = w[k]
      BY <1>6, <3>3
    <3>5. QED
      BY <3>1, <3>2, <3>3, <3>4
  <2>3. QED
    BY <2>1, <2>2
<1>10. \A k \in 1 .. Len(u) : u[k] \in S \cup {i}
  BY <1>4, <1>5
<1>11. i = IF Len(u) = 0 THEN Nil ELSE u[1]
  BY <1>1, <1>3, <1>4
<1>12. Lists(u, S \cup {i}, i, ny)
  BY <1>3, <1>7, <1>8, <1>9, <1>10, <1>11 DEF Lists
<1>13. QED
  BY <1>12 DEF u

\* An id comes to the end, behind the last one.
LEMMA LastComes ==
    ASSUME NEW w, NEW S, NEW first, NEW nx, NEW ny, Lists(w, S, first, nx),
           NEW i \in Ids, i \notin S, ny[i] = Nil,
           \A j \in S : ny[j] = IF nx[j] = Nil THEN i ELSE nx[j]
    PROVE  Lists(Append(w, i), S \cup {i}, IF Len(w) = 0 THEN i ELSE first, ny)
<1> DEFINE u == Append(w, i)
<1>1. /\ w \in Seq(Ids) /\ Len(w) \in Nat
      /\ \A k \in 1 .. Len(w) : w[k] \in Ids /\ w[k] \in S /\ w[k] # Nil
  BY ElementOfSeq, LenProperties, NilNotId DEF Lists
<1>2. /\ u \in Seq(Ids) /\ Len(u) = Len(w) + 1
      /\ \A k \in 1 .. Len(w) : u[k] = w[k]
      /\ u[Len(w) + 1] = i
  BY <1>1, AppendProperties
<1> HIDE DEF u
<1>3. ASSUME NEW k \in 1 .. Len(u), k # Len(u)
      PROVE  k \in 1 .. Len(w) /\ u[k] = w[k] /\ u[k] \in S /\ u[k] # i
  <2>1. k \in 1 .. Len(w)
    BY <1>1, <1>2, <1>3
  <2>2. QED
    BY <1>1, <1>2, <2>1
<1>4. Len(u) \in 1 .. Len(u) /\ u[Len(u)] = i
  BY <1>1, <1>2
<1>5. \A k \in 1 .. Len(u) : u[k] \in S \cup {i}
  BY <1>3, <1>4
<1>6. \A j \in S \cup {i} : \E k \in 1 .. Len(u) : u[k] = j
  <2>1. \A j \in S : \E k \in 1 .. Len(w) : w[k] = j
    BY DEF Lists
  <2>2. \A k \in 1 .. Len(w) : k \in 1 .. Len(u)
    BY <1>1, <1>2
  <2>3. QED
    BY <1>2, <1>4, <2>1, <2>2
<1>7. ASSUME NEW j \in 1 .. Len(u), NEW k \in 1 .. Len(u), u[j] = u[k]
      PROVE  j = k
  <2>1. CASE j = Len(u) \/ k = Len(u)
    BY <1>3, <1>4, <1>7, <2>1
  <2>2. CASE j # Len(u) /\ k # Len(u)
    BY <1>3, <1>7, <2>2 DEF Lists
  <2>3. QED
    BY <2>1, <2>2
<1>8. ASSUME NEW k \in 1 .. Len(u)
      PROVE  ny[u[k]] = IF k = Len(u) THEN Nil ELSE u[k + 1]
  <2>1. CASE k = Len(u)
    BY <1>4, <2>1
  <2>2. CASE k # Len(u)
    <3>1. k \in 1 .. Len(w) /\ u[k] = w[k] /\ u[k] \in S
      BY <1>3, <2>2
    <3>2. nx[w[k]] = IF k = Len(w) THEN Nil ELSE w[k + 1]
      BY <3>1 DEF Lists
    <3>3. CASE k = Len(w)
      BY <1>2, <2>2, <3>1, <3>2, <3>3
    <3>4. CASE k # Len(w)
      <4>1. k + 1 \in 1 .. Len(w)
        BY <1>1, <3>1, <3>4
      <4>2. nx[u[k]] = u[k + 1] /\ u[k + 1] # Nil
        BY <1>1, <1>2, <3>1, <3>2, <3>4, <4>1
      <4>3. QED
        BY <2>2, <3>1, <4>2
    <3>5. QED
      BY <3>3, <3>4
  <2>3. QED
    BY <2>1, <2>2
<1>9. (IF Len(w) = 0 THEN i ELSE first) = IF Len(u) = 0 THEN Nil ELSE u[1]
  <2>1. CASE Len(w) = 0
    BY <1>2, <2>1
  <2>2. CASE Len(w) # 0
    <3>1. 1 \in 1 .. Len(w) /\ first = w[1]
      BY <1>1, <2>2 DEF Lists
    <3>2. QED
      BY <1>1, <1>2, <2>2, <3>1
  <2>3. QED
    BY <2>1, <2>2
<1>10. Lists(u, S \cup {i}, IF Len(w) = 0 THEN i ELSE first, ny)
  BY <1>2, <1>5, <1>6, <1>7, <1>8, <1>9 DEF Lists
<1>11. QED
  BY <1>10 DEF u

-----------------------------------------------------------------------------
(* SnapIdPool: the two lists of the pool.                                  *)

Chained ==
    /\ \E w : Lists(w, With("free"), firstFree, next)
    /\ \E w : Lists(w, With("timed"), firstTimed, next)

LEMMA InitChained == Init => Chained
<1> SUFFICES ASSUME Init PROVE Chained
  OBVIOUS
<1> DEFINE w == [k \in 1 .. MaxIds |-> k - 1]
<1>1. MaxIds \in Nat /\ 1 <= MaxIds
  BY SnapIdPoolAssumption
<1>2. w \in Seq(Ids) /\ Len(w) = MaxIds /\ \A k \in 1 .. MaxIds : w[k] = k - 1
  BY <1>1 DEF Ids
<1> HIDE DEF w
<1>3. Lists(w, With("free"), firstFree, next)
  <2>1. With("free") = Ids
    BY DEF Init, With
  <2>2. \A k \in 1 .. MaxIds : w[k] \in Ids
    BY <1>1, <1>2 DEF Ids
  <2>3. \A i \in Ids : i + 1 \in 1 .. MaxIds /\ w[i + 1] = i
    BY <1>1, <1>2 DEF Ids
  <2>4. ASSUME NEW k \in 1 .. MaxIds
        PROVE  next[w[k]] = IF k = MaxIds THEN Nil ELSE w[k + 1]
    <3>1. k - 1 \in Ids /\ w[k] = k - 1
      BY <1>1, <1>2 DEF Ids
    <3>2. next[k - 1] = IF k - 1 = MaxIds - 1 THEN Nil ELSE (k - 1) + 1
      BY <3>1 DEF Init
    <3>3. k # MaxIds => k + 1 \in 1 .. MaxIds /\ w[k + 1] = k
      BY <1>1, <1>2
    <3>4. QED
      BY <1>1, <3>1, <3>2, <3>3
  <2>5. firstFree = w[1]
    BY <1>1, <1>2 DEF Init
  <2>6. \A j, k \in 1 .. MaxIds : w[j] = w[k] => j = k
    BY <1>1, <1>2
  <2>7. QED
    BY <1>1, <1>2, <2>1, <2>2, <2>3, <2>4, <2>5, <2>6 DEF Lists
<1>4. Lists(<<>>, With("timed"), firstTimed, next)
  <2>1. With("timed") = {} /\ firstTimed = Nil
    BY DEF Init, With
  <2>2. <<>> \in Seq(Ids) /\ Len(<<>>) = 0
    BY EmptySeq
  <2>3. QED
    BY <2>1, <2>2 DEF Lists
<1>5. QED
  BY <1>3, <1>4 DEF Chained

\* The first of the timed ids becomes the first of the free ones.
LEMMA RemoveLists ==
    ASSUME IInv, firstTimed # Nil, RemoveFirstTimeout,
           NEW v, Lists(v, With("free"), firstFree, next),
           NEW w, Lists(w, With("timed"), firstTimed, next)
    PROVE  /\ w # <<>> /\ Head(w) = firstTimed
           /\ With("free")' = With("free") \cup {firstTimed}
           /\ Lists(Tail(w), With("timed")', firstTimed', next')
           /\ Lists(<<firstTimed>> \o v, With("free")', firstFree', next')
<1>1. firstTimed \in Ids /\ firstTimed \in With("timed") /\ firstTimed \notin With("free")
  BY DEF IInv, TypeOK, Threaded, With
<1>2. /\ With("timed")' = With("timed") \ {firstTimed}
      /\ With("free")' = With("free") \cup {firstTimed}
  BY <1>1 DEF RemoveFirstTimeout, IInv, TypeOK, With
<1>3. /\ \A i \in Ids : i # firstTimed => next'[i] = next[i]
      /\ next'[firstTimed] = firstFree
      /\ firstFree' = firstTimed /\ firstTimed' = next[firstTimed]
  BY <1>1 DEF RemoveFirstTimeout, IInv, TypeOK
<1>4. SameLinks(With("timed") \ {firstTimed}, next, next')
  BY <1>3 DEF With, SameLinks
<1>5. /\ w # <<>> /\ Head(w) = firstTimed
      /\ Lists(Tail(w), With("timed") \ {firstTimed}, next[firstTimed], next')
  BY <1>4, FirstLeaves
<1>6. SameLinks(With("free"), next, next')
  BY <1>1, <1>3 DEF With, SameLinks
<1>7. Lists(<<firstTimed>> \o v, With("free") \cup {firstTimed}, firstTimed, next')
  BY <1>1, <1>3, <1>6, FirstComes
<1>8. QED
  BY <1>2, <1>3, <1>5, <1>7

\* The first of the free ids is handed out.
LEMMA TakeLists ==
    ASSUME IInv, NewIdTake,
           NEW v, Lists(v, With("free"), firstFree, next),
           NEW w, Lists(w, With("timed"), firstTimed, next)
    PROVE  /\ firstFree \in With("free")
           /\ With("free")' = With("free") \ {firstFree}
           /\ Lists(Tail(v), With("free")', firstFree', next')
           /\ Lists(w, With("timed")', firstTimed', next')
<1>1. firstFree \in With("free") /\ firstFree # Nil
  BY DEF NewIdTake, IInv, TypeOK, Threaded, With
<1>2. /\ With("free")' = With("free") \ {firstFree}
      /\ With("timed")' = With("timed")
  BY <1>1 DEF NewIdTake, IInv, TypeOK, With
<1>3. next' = next /\ firstFree' = next[firstFree] /\ firstTimed' = firstTimed
  BY DEF NewIdTake
<1>4. Lists(Tail(v), With("free") \ {firstFree}, next[firstFree], next)
  <2>1. SameLinks(With("free") \ {firstFree}, next, next)
    BY DEF SameLinks
  <2>2. QED
    BY <1>1, <2>1, FirstLeaves
<1>5. QED
  BY <1>1, <1>2, <1>3, <1>4

\* An id that is given back becomes the last of the timed ones.
LEMMA FreeLists ==
    ASSUME IInv, NEW i \in Ids, FreeId(i),
           NEW v, Lists(v, With("free"), firstFree, next),
           NEW w, Lists(w, With("timed"), firstTimed, next)
    PROVE  /\ Lists(v, With("free")', firstFree', next')
           /\ Lists(Append(w, i), With("timed")', firstTimed', next')
<1>1. state[i] = "allocated"
  BY DEF FreeId, IInv, Exclusive
<1>2. /\ With("free")' = With("free")
      /\ With("timed")' = With("timed") \cup {i} /\ i \notin With("timed")
  BY <1>1 DEF FreeId, IInv, TypeOK, With
<1>3. /\ firstTimed = Nil <=> lastTimed = Nil
      /\ lastTimed # Nil => lastTimed \in Ids /\ state[lastTimed] = "timed" /\ next[lastTimed] = Nil
      /\ \A j \in Ids : state[j] = "timed" /\ next[j] = Nil => j = lastTimed
  BY DEF IInv, TypeOK, Ended
<1>4. Len(w) = 0 <=> firstTimed = Nil
  <2>1. /\ w \in Seq(Ids) /\ Len(w) \in Nat
        /\ \A k \in 1 .. Len(w) : w[k] # Nil
    BY ElementOfSeq, LenProperties, NilNotId DEF Lists
  <2>2. Len(w) # 0 => 1 \in 1 .. Len(w)
    BY <2>1
  <2>3. QED
    BY <2>1, <2>2 DEF Lists
<1>5. /\ next'[i] = Nil /\ firstFree' = firstFree
      /\ \A j \in Ids : j # i => next'[j] = IF j = lastTimed THEN i ELSE next[j]
      /\ firstTimed' = IF Len(w) = 0 THEN i ELSE firstTimed
  <2>1. CASE lastTimed # Nil
    <3>1. lastTimed # i
      BY <1>1, <1>3, <2>1
    <3>2. next' = [next EXCEPT ![i] = Nil, ![lastTimed] = i] /\ firstTimed' = firstTimed
          /\ firstFree' = firstFree
      BY <2>1 DEF FreeId
    <3>3. QED
      BY <1>3, <1>4, <2>1, <3>1, <3>2 DEF IInv, TypeOK
  <2>2. CASE lastTimed = Nil
    <3>1. next' = [next EXCEPT ![i] = Nil] /\ firstTimed' = i /\ firstFree' = firstFree
      BY <2>2 DEF FreeId
    <3>2. QED
      BY <1>3, <1>4, <2>2, <3>1, NilNotId DEF IInv, TypeOK
  <2>3. QED
    BY <2>1, <2>2
<1>6. SameLinks(With("free"), next, next')
  <2>1. \A j \in With("free") : j \in Ids /\ j # i /\ j # lastTimed
    BY <1>1, <1>3, NilNotId DEF With
  <2>2. QED
    BY <1>5, <2>1 DEF SameLinks
<1>7. \A j \in With("timed") : next'[j] = IF next[j] = Nil THEN i ELSE next[j]
  <2>1. \A j \in With("timed") : j \in Ids /\ j # i /\ (next[j] = Nil <=> j = lastTimed)
    BY <1>1, <1>3, NilNotId DEF With
  <2>2. QED
    BY <1>5, <2>1
<1>8. Lists(v, With("free"), firstFree, next')
  BY <1>6, SameList
<1>9. Lists(Append(w, i), With("timed") \cup {i}, IF Len(w) = 0 THEN i ELSE firstTimed, next')
  BY <1>2, <1>5, <1>7, LastComes
<1>10. QED
  BY <1>2, <1>5, <1>8, <1>9

LEMMA ChainedStep == IInv /\ Chained /\ [Next]_vars => Chained'
<1> SUFFICES ASSUME IInv, Chained, [Next]_vars PROVE Chained'
  OBVIOUS
<1>1. PICK v : Lists(v, With("free"), firstFree, next)
  BY DEF Chained
<1>2. PICK w : Lists(w, With("timed"), firstTimed, next)
  BY DEF Chained
<1>3. CASE UNCHANGED lists
  BY <1>1, <1>2, <1>3 DEF Chained, lists, With
<1>4. CASE firstTimed # Nil /\ RemoveFirstTimeout
  BY <1>1, <1>2, <1>4, RemoveLists DEF Chained
<1>5. CASE NewIdTake
  BY <1>1, <1>2, <1>5, TakeLists DEF Chained
<1>6. CASE \E i \in Ids : FreeId(i)
  BY <1>1, <1>2, <1>6, FreeLists DEF Chained
<1>7. QED
  BY <1>3, <1>4, <1>5, <1>6
     DEF Next, Call, NewIdExpire, NewIdNone, TimeoutIds, Tick, vars

THEOREM AlwaysChained == Spec => []Chained
BY InitChained, ChainedStep, Invariance, PTL DEF Spec

\* No id is ever lost: the two lists of the pool hold exactly the ids that are
\* marked free and timed, each of them once (snap_id_pool.cpp, all operations).
THEOREM ListsAlwaysExact == Spec => []ListsExact
<1>1. Chained => ListsExact
  <2> SUFFICES ASSUME Chained PROVE ListsExact
    OBVIOUS
  <2>1. ASSUME NEW w, NEW s, NEW first, Lists(w, With(s), first, next)
        PROVE  /\ {Walk(first)[k] : k \in DOMAIN Walk(first)} = With(s)
               /\ Cardinality(With(s)) = Cardinality(DOMAIN Walk(first))
    <3>1. Walk(first) = w
      BY <2>1, WalkOfList
    <3>2. /\ {w[k] : k \in DOMAIN w} = With(s)
          /\ Cardinality(With(s)) = Len(w)
      BY <2>1, ListShort
    <3>3. DOMAIN w = 1 .. Len(w) /\ Len(w) \in Nat
      BY <2>1, LenProperties DEF Lists
    <3>4. Cardinality(1 .. Len(w)) = IF 1 > Len(w) THEN 0 ELSE Len(w) - 1 + 1
      BY <3>3, FS_Interval
    <3>5. Cardinality(1 .. Len(w)) = Len(w)
      BY <3>3, <3>4
    <3>6. QED
      BY <3>1, <3>2, <3>3, <3>5
  <2>2. QED
    BY <2>1 DEF Chained, ListsExact
<1>2. QED
  BY <1>1, AlwaysChained, PTL

-----------------------------------------------------------------------------
(* SnapIdPool implements IdPool.                                           *)

\* What the walk along the timed ids sees.
LEMMA Resting == \A w : Lists(w, With("timed"), firstTimed, next) => Walk(firstTimed) = w
BY WalkOfList

LEMMA RestingNext ==
    (\A w : Lists(w, With("timed"), firstTimed, next) => Walk(firstTimed) = w)'
BY Resting, PTL

Held == {i \in Ids : owners[i] > 0}

LEMMA PoolStep ==
    IInv /\ Chained /\ [Next]_vars =>
      [Pool!HandOut \/ Pool!GiveBack \/ Pool!Release]_<<With("free"), Held, Walk(firstTimed)>>
<1> SUFFICES ASSUME IInv, Chained, [Next]_vars
             PROVE  \/ Pool!HandOut \/ Pool!GiveBack \/ Pool!Release
                    \/ UNCHANGED <<With("free"), Held, Walk(firstTimed)>>
  OBVIOUS
<1>1. PICK v : Lists(v, With("free"), firstFree, next)
  BY DEF Chained
<1>2. PICK w : Lists(w, With("timed"), firstTimed, next)
  BY DEF Chained
<1>3. Walk(firstTimed) = w
  BY <1>2, Resting
<1>4. \A u : Lists(u, With("timed")', firstTimed', next') => Walk(firstTimed)' = u
  BY RestingNext
<1>5. CASE UNCHANGED <<lists, owners>>
  <2>1. With("timed")' = With("timed") /\ With("free")' = With("free") /\ Held' = Held
        /\ firstTimed' = firstTimed /\ next' = next
    BY <1>5 DEF lists, With, Held
  <2>2. Walk(firstTimed)' = w
    BY <1>2, <1>4, <2>1
  <2>3. QED
    BY <1>3, <2>1, <2>2
<1>6. CASE firstTimed # Nil /\ RemoveFirstTimeout /\ owners' = owners
  <2>1. /\ w # <<>> /\ Head(w) = firstTimed
        /\ With("free")' = With("free") \cup {firstTimed}
        /\ Lists(Tail(w), With("timed")', firstTimed', next')
    BY <1>1, <1>2, <1>6, RemoveLists
  <2>2. Walk(firstTimed)' = Tail(w)
    BY <1>4, <2>1
  <2>3. Pool!Release
    BY <1>3, <1>6, <2>1, <2>2 DEF Pool!Release
  <2>4. QED
    BY <2>3
<1>7. CASE NewIdTake
  <2>1. /\ firstFree \in With("free")
        /\ With("free")' = With("free") \ {firstFree}
        /\ Lists(w, With("timed")', firstTimed', next')
    BY <1>1, <1>2, <1>7, TakeLists
  <2>2. Walk(firstTimed)' = w
    BY <1>4, <2>1
  <2>3. {i \in Ids : owners'[i] > 0} = {i \in Ids : owners[i] > 0} \cup {firstFree}
    <3>1. firstFree \in Ids /\ owners' = [owners EXCEPT ![firstFree] = @ + 1]
      BY <2>1, <1>7 DEF NewIdTake, With
    <3>2. QED
      BY <3>1 DEF IInv, TypeOK
  <2>4. Pool!HandOut
    BY <1>3, <2>1, <2>2, <2>3 DEF Pool!HandOut
  <2>5. QED
    BY <2>4
<1>8. ASSUME NEW i \in Ids, FreeId(i)
      PROVE  Pool!GiveBack
  <2>1. /\ Lists(Append(w, i), With("timed")', firstTimed', next')
        /\ With("free")' = With("free")
    <3>1. state[i] = "allocated"
      BY <1>8 DEF FreeId, IInv, Exclusive
    <3>2. With("free")' = With("free")
      BY <1>8, <3>1 DEF FreeId, IInv, TypeOK, With
    <3>3. QED
      BY <1>1, <1>2, <1>8, <3>2, FreeLists
  <2>2. Walk(firstTimed)' = Append(w, i)
    BY <1>4, <2>1
  <2>3. /\ i \in {j \in Ids : owners[j] > 0}
        /\ {j \in Ids : owners'[j] > 0} = {j \in Ids : owners[j] > 0} \ {i}
    <3>1. owners[i] = 1 /\ owners' = [owners EXCEPT ![i] = @ - 1]
      BY <1>8 DEF FreeId, IInv, Exclusive
    <3>2. QED
      BY <3>1 DEF IInv, TypeOK
  <2>4. QED
    BY <1>3, <2>1, <2>2, <2>3 DEF Pool!GiveBack
<1>9. QED
  BY <1>5, <1>6, <1>7, <1>8
     DEF Next, Call, NewIdExpire, NewIdNone, TimeoutIds, Tick, vars, history

LEMMA PoolStart == Init => Pool!PoolInit
<1> SUFFICES ASSUME Init PROVE Pool!PoolInit
  OBVIOUS
<1>1. With("free") = Ids /\ Held = {}
  BY DEF Init, With, Held
<1>2. Walk(firstTimed) = <<>>
  <2>1. With("timed") = {} /\ firstTimed = Nil
    BY DEF Init, With
  <2>2. <<>> \in Seq(Ids) /\ Len(<<>>) = 0
    BY EmptySeq
  <2>3. Lists(<<>>, With("timed"), firstTimed, next)
    BY <2>1, <2>2 DEF Lists
  <2>4. QED
    BY <2>3, Resting
<1>3. QED
  BY <1>1, <1>2 DEF Pool!PoolInit, Held

\* The array with its two lists is a pool: it hands out free ids only, takes
\* back those that are held, and frees them in the order they came back.
THEOREM ImplementsPool == Spec => PoolSpec
<1>1. IInv /\ Chained /\ [Next]_vars =>
        [Pool!HandOut \/ Pool!GiveBack \/ Pool!Release]_Pool!poolVars
  BY PoolStep DEF Pool!poolVars, Held
<1>2. QED
  BY <1>1, PoolStart, Invariance, AlwaysChained, PTL DEF Spec, PoolSpec, Pool!PoolSpec

-----------------------------------------------------------------------------
(* RingBuffer: the blocks of the memory.                                   *)

Rings == [block : [Address -> Block \cup {Null}],
          produce : Address, consume : Address, last : Address]

On(r) == {b \in Address : r.block[b] # Null}

\* A block ends where the next one starts, or at the end of the memory.
Linked(r, b) ==
    LET n == r.block[b].next
        end == b + r.block[b].size
    IN  IF n = Null THEN end = Units /\ r.last = b
        ELSE n = end /\ n \in On(r) /\ r.block[n].prev = b

\* The block before a block is the one that ends there.
BackLinked(r, b) ==
    LET p == r.block[b].prev IN
    IF b = First THEN p = Null ELSE p \in On(r) /\ p < b /\ r.block[p].next = b

\* A block has room for its item and the header.
Roomy(r, b) == ~Free(r, b) => r.block[b].size * Unit >= Unit + Bytes[r.block[b].item]

Apart(r) == \A b, c \in On(r) : b < c => b + r.block[b].size <= c

Shape(r) ==
    /\ r \in Rings /\ Apart(r)
    /\ {First, r.produce, r.consume, r.last} \subseteq On(r)
    /\ r.block[r.last].next = Null
    /\ \A b \in On(r) : Linked(r, b) /\ BackLinked(r, b) /\ Roomy(r, b)

\* The only blocks to join are b and the one before it.
OnlyPair(r, b) == \A c \in On(r) : Joins(r, c) => c = b
NoPair(r) == \A c \in On(r) : ~Joins(r, c)

LEMMA RingDivMod ==
    ASSUME NEW a \in Nat, NEW S \in Nat \ {0}
    PROVE  /\ a % S \in 0..(S - 1) /\ a \div S \in Int
           /\ a = S * (a \div S) + (a % S)
<1>1. a % S \in 0..(S - 1)
  BY SMT
<1>2. a \div S \in Int
  BY SMT
<1>3. a = S * (a \div S) + (a % S)
  BY SMT
<1>4. QED
  BY <1>1, <1>2, <1>3

LEMMA RingNumbers ==
    /\ Units \in Nat \ {0} /\ Unit \in Nat \ {0} /\ First \in Address
    /\ Null \notin Address /\ Null \notin 0..Units /\ Null \notin Items /\ Null \notin Block
    /\ Address \subseteq Int
    /\ \A a \in Address : 0 <= a /\ a < Units
BY UnitsAssumption, NullAssumption DEF Address, First

LEMMA BlockOf ==
    ASSUME NEW r \in Rings, NEW b \in On(r)
    PROVE  /\ r.block[b] \in Block /\ b \in Address
           /\ r.block[b].prev \in Address \cup {Null} /\ r.block[b].next \in Address \cup {Null}
           /\ r.block[b].size \in 1..Units /\ r.block[b].item \in Items \cup {Null}
<1>1. b \in Address /\ r.block[b] \in Block \cup {Null} /\ r.block[b] # Null
  BY DEF Rings, On
<1>2. QED
  BY <1>1 DEF Block

\* A block ends within the memory.
LEMMA EndIs ==
    ASSUME NEW r, Shape(r), NEW b \in On(r)
    PROVE  b \in Int /\ r.block[b].size \in Int /\ b + r.block[b].size <= Units
<1>1. r \in Rings /\ Linked(r, b)
  BY DEF Shape
<1>2. b \in Address /\ r.block[b].size \in 1..Units
  BY <1>1, BlockOf
<1>3. r.block[b].next # Null => r.block[b].next \in Address
  BY <1>1 DEF Linked, On
<1>4. QED
  BY <1>1, <1>2, <1>3, RingNumbers DEF Linked

\* What Merge makes of r when b is joined with the block before it.
Joined(r, b, m) ==
    LET p == r.block[b].prev
        n == r.block[b].next
    IN  /\ p \in On(r) /\ p < b /\ r.block[p].next = b /\ b = p + r.block[p].size
        /\ n # Null => n \in On(r) /\ b < n /\ n = b + r.block[b].size
        /\ m \in Rings /\ On(m) = On(r) \ {b}
        /\ \A a \in On(m) :
              /\ m.block[a].prev = IF a = n THEN p ELSE r.block[a].prev
              /\ m.block[a].next = IF a = p THEN n ELSE r.block[a].next
              /\ m.block[a].size = IF a = p THEN r.block[p].size + r.block[b].size
                                   ELSE r.block[a].size
              /\ m.block[a].item = r.block[a].item
        /\ m.produce = IF r.produce = b THEN p ELSE r.produce
        /\ m.consume = IF r.consume = b THEN p ELSE r.consume
        /\ m.last = IF n = Null THEN p ELSE r.last

LEMMA MergeIs ==
    ASSUME NEW r, Shape(r), NEW b \in On(r), Joins(r, b)
    PROVE  Joined(r, b, Merge(r, b))
<1> DEFINE p == r.block[b].prev
           n == r.block[b].next
<1>1. r \in Rings /\ b \in Address /\ p # Null /\ Linked(r, b) /\ BackLinked(r, b)
  BY DEF Shape, Joins, On
<1>2. p \in On(r) /\ p \in Address /\ p < b /\ r.block[p].next = b
  BY <1>1 DEF BackLinked, On
<1>3. Linked(r, p)
  BY <1>2 DEF Shape
<1>4. b = p + r.block[p].size
  BY <1>1, <1>2, <1>3, RingNumbers DEF Linked
<1>5. r.block[b] \in Block /\ r.block[p] \in Block /\ r.block[b].size \in 1..Units
      /\ r.block[p].size \in 1..Units /\ b + r.block[b].size <= Units
  BY <1>1, <1>2, BlockOf, EndIs
<1>6. n # Null => n \in On(r) /\ n \in Address /\ n = b + r.block[b].size /\ b < n
                  /\ r.block[n] \in Block
  BY <1>1, <1>2, <1>5, BlockOf, RingNumbers DEF Linked, On
<1>7. n \in Address \cup {Null} /\ n # b /\ n # p /\ p # b
  BY <1>1, <1>2, <1>6, BlockOf, RingNumbers
<1> DEFINE B0 == r.block
           B1 == [B0 EXCEPT ![p] = [B0[p] EXCEPT !.size = B0[p].size + B0[b].size]]
           B2 == [B1 EXCEPT ![p] = [B1[p] EXCEPT !.next = n]]
           B3 == [B2 EXCEPT ![n] = [B2[n] EXCEPT !.prev = p]]
           B4 == [B3 EXCEPT ![b] = Null]
           m == Merge(r, b)
<1>8. /\ m.block = B4
      /\ m.produce = IF r.produce = b THEN p ELSE r.produce
      /\ m.consume = IF r.consume = b THEN p ELSE r.consume
      /\ m.last = IF n = Null THEN p ELSE r.last
      /\ m = [block |-> m.block, produce |-> m.produce, consume |-> m.consume, last |-> m.last]
  BY <1>1 DEF Merge, Redirect, Rings
<1> HIDE DEF m, p, n
<1>9. /\ DOMAIN B4 = Address
      /\ B4[b] = Null
      /\ B4[p] = [[B0[p] EXCEPT !.size = B0[p].size + B0[b].size] EXCEPT !.next = n]
      /\ n # Null => B4[n] = [B0[n] EXCEPT !.prev = p]
      /\ \A a \in Address : a # b /\ a # p /\ a # n => B4[a] = B0[a]
  BY <1>1, <1>2, <1>6, <1>7 DEF Rings
<1> HIDE DEF B1, B2, B3, B4
<1>10. /\ B4[p] \in Block /\ B4[p].prev = B0[p].prev /\ B4[p].next = n
       /\ B4[p].size = B0[p].size + B0[b].size /\ B4[p].item = B0[p].item
  <2>1. B0[p].size + B0[b].size \in 1..Units
    <3>1. p \in Int /\ 0 <= p /\ b \in Int /\ Units \in Int
      BY <1>1, <1>2, RingNumbers
    <3> DEFINE sp == B0[p].size
               sb == B0[b].size
    <3>2. sp \in Int /\ sb \in Int /\ 1 <= sp /\ 1 <= sb /\ b = p + sp /\ b + sb <= Units
      BY <1>4, <1>5, RingNumbers
    <3> HIDE DEF sp, sb
    <3>3. sp + sb \in 1..Units
      BY <3>1, <3>2
    <3>4. QED
      BY <3>3 DEF sp, sb
  <2>2. QED
    BY <1>5, <1>7, <1>9, <2>1 DEF Block
<1>11. n # Null => /\ B4[n] \in Block /\ B4[n].prev = p /\ B4[n].next = B0[n].next
                   /\ B4[n].size = B0[n].size /\ B4[n].item = B0[n].item
  BY <1>2, <1>6, <1>9 DEF Block
<1>12. \A a \in Address : B4[a] \in Block \cup {Null} /\ (B4[a] # Null <=> a \in On(r) \ {b})
  <2> SUFFICES ASSUME NEW a \in Address
               PROVE  B4[a] \in Block \cup {Null} /\ (B4[a] # Null <=> a \in On(r) \ {b})
    OBVIOUS
  <2>1. CASE a = b
    BY <1>9, <2>1
  <2>2. CASE a = p
    BY <1>2, <1>7, <1>10, <2>2, RingNumbers
  <2>3. CASE a = n
    BY <1>6, <1>7, <1>11, <2>3, RingNumbers
  <2>4. CASE a # b /\ a # p /\ a # n
    <3>1. B4[a] = B0[a] /\ B0[a] \in Block \cup {Null}
      BY <1>1, <1>9, <2>4 DEF Rings
    <3>2. QED
      BY <2>4, <3>1 DEF On
  <2>5. QED
    BY <2>1, <2>2, <2>3, <2>4
<1>13. m \in Rings /\ On(m) = On(r) \ {b}
  <2>1. \A a \in On(m) : a \in Address
    BY DEF On
  <2>2. On(m) = On(r) \ {b}
    BY <1>8, <1>12 DEF On
  <2>3. B4 = [a \in DOMAIN B4 |-> B4[a]]
    BY DEF B4
  <2>4. B4 \in [Address -> Block \cup {Null}]
    BY <1>9, <1>12, <2>3
  <2>5. m.produce \in Address /\ m.consume \in Address /\ m.last \in Address
    BY <1>1, <1>2, <1>8 DEF Rings
  <2> HIDE DEF B4
  <2>6. QED
    BY <1>8, <2>2, <2>4, <2>5 DEF Rings
<1>14. \A a \in On(m) :
          /\ m.block[a].prev = IF a = n THEN p ELSE r.block[a].prev
          /\ m.block[a].next = IF a = p THEN n ELSE r.block[a].next
          /\ m.block[a].size = IF a = p THEN r.block[p].size + r.block[b].size
                               ELSE r.block[a].size
          /\ m.block[a].item = r.block[a].item
  <2> SUFFICES ASSUME NEW a \in On(r), a # b, a \in Address
               PROVE  /\ B4[a].prev = IF a = n THEN p ELSE B0[a].prev
                      /\ B4[a].next = IF a = p THEN n ELSE B0[a].next
                      /\ B4[a].size = IF a = p THEN B0[p].size + B0[b].size
                                      ELSE B0[a].size
                      /\ B4[a].item = B0[a].item
    BY <1>8, <1>13 DEF On
  <2>1. CASE a = p
    BY <1>7, <1>10, <2>1
  <2>2. CASE a = n
    BY <1>6, <1>7, <1>11, <2>2, RingNumbers
  <2>3. CASE a # p /\ a # n
    BY <1>9, <2>3
  <2>4. QED
    BY <2>1, <2>2, <2>3
<1>15. QED
  BY <1>2, <1>4, <1>6, <1>8, <1>13, <1>14 DEF Joined, m, p, n

\* Merge leaves blocks that tile the memory, and b and the one before it apart
\* from no other.
LEMMA MergeShape ==
    ASSUME NEW r, Shape(r), NEW b \in On(r)
    PROVE  /\ Shape(Merge(r, b))
           /\ \A c \in On(Merge(r, b)) : c \in On(r) /\ (Joins(Merge(r, b), c) => Joins(r, c) /\ c # b)
<1>1. CASE ~Joins(r, b)
  BY <1>1 DEF Merge
<1>2. CASE Joins(r, b)
  <2> DEFINE m == Merge(r, b)
             p == r.block[b].prev
             n == r.block[b].next
  <2>1. Joined(r, b, m)
    BY <1>2, MergeIs
  <2> HIDE DEF m
  <2>2. /\ p \in On(r) /\ p < b /\ r.block[p].next = b /\ b = p + r.block[p].size
        /\ n # Null => n \in On(r) /\ b < n /\ n = b + r.block[b].size
        /\ m \in Rings /\ On(m) = On(r) \ {b}
    BY <2>1 DEF Joined
  <2>3. \A a \in On(m) :
              /\ m.block[a].prev = IF a = n THEN p ELSE r.block[a].prev
              /\ m.block[a].next = IF a = p THEN n ELSE r.block[a].next
              /\ m.block[a].size = IF a = p THEN r.block[p].size + r.block[b].size
                                   ELSE r.block[a].size
              /\ m.block[a].item = r.block[a].item
    BY <2>1 DEF Joined
  <2>4. /\ m.produce = IF r.produce = b THEN p ELSE r.produce
        /\ m.consume = IF r.consume = b THEN p ELSE r.consume
        /\ m.last = IF n = Null THEN p ELSE r.last
    BY <2>1 DEF Joined
  <2>5. /\ b \in Int /\ p \in Int /\ r.block[p].size \in Int /\ r.block[b].size \in Int
        /\ \A a \in On(r) : a \in Int /\ r.block[a].size \in Int /\ a \in Address /\ a # Null
    BY <2>2, EndIs, RingNumbers DEF On
  <2>6. r \in Rings /\ Apart(r) /\ First \in On(r)
        /\ \A a \in On(r) : Linked(r, a) /\ BackLinked(r, a) /\ Roomy(r, a)
    BY DEF Shape
  <2>7. Free(r, b) /\ Free(r, p) /\ p # Null
    BY <1>2 DEF Joins
  <2> HIDE DEF p, n
  <2>8. Apart(m)
    <3> SUFFICES ASSUME NEW a \in On(m), NEW c \in On(m), a < c PROVE a + m.block[a].size <= c
      BY DEF Apart
    <3>1. a \in On(r) /\ c \in On(r) /\ c # b /\ a # b /\ a + r.block[a].size <= c
      BY <2>2, <2>6 DEF Apart
    <3>2. CASE a = p
      <4>1. b < c
        <5>1. b <= c /\ b # c
          BY <2>2, <3>1, <3>2
        <5>2. c \in Int
          BY <2>5, <3>1
        <5>3. QED
          BY <2>5, <5>1, <5>2
      <4>2. b + r.block[b].size <= c
        BY <2>6, <3>1, <4>1 DEF Apart
      <4>3. m.block[a].size = r.block[p].size + r.block[b].size
        BY <2>3, <3>2
      <4>4. QED
        BY <2>2, <2>5, <3>2, <4>2, <4>3
    <3>3. CASE a # p
      BY <2>3, <3>1, <3>3
    <3>4. QED
      BY <3>2, <3>3
  <2>9. First # b
    BY <2>6, <2>7 DEF BackLinked, p
  <2>10. {First, m.produce, m.consume, m.last} \subseteq On(m)
    <3>1. {First, r.produce, r.consume, r.last} \subseteq On(r)
      BY DEF Shape
    <3>2. p \in On(m)
      BY <2>2, <2>5
    <3>3. n # Null => r.last # b
      BY DEF Shape, n
    <3>4. QED
      BY <2>2, <2>4, <2>9, <3>1, <3>2, <3>3
  <2>11. ASSUME NEW a \in On(m) PROVE Linked(m, a)
    <3>1. a \in On(r) /\ a # b /\ Linked(r, a)
      BY <2>2, <2>6
    <3>2. CASE a = p
      <4>1. m.block[a].next = n /\ m.block[a].size = r.block[p].size + r.block[b].size
        BY <2>3, <3>2
      <4>2. a + m.block[a].size = b + r.block[b].size
        BY <2>2, <2>5, <3>2, <4>1
      <4>3. CASE n = Null
        <5>1. b + r.block[b].size = Units
          BY <2>6, <4>3 DEF Linked, n
        <5>2. QED
          BY <2>4, <3>2, <4>1, <4>2, <4>3, <5>1 DEF Linked
      <4>4. CASE n # Null
        <5>1. n \in On(m) /\ m.block[n].prev = p
          BY <2>2, <2>3, <2>5, <4>4
        <5>2. QED
          BY <2>2, <3>2, <4>1, <4>2, <4>4, <5>1 DEF Linked
      <4>5. QED
        BY <4>3, <4>4
    <3>3. CASE a # p
      <4> DEFINE k == r.block[a].next
      <4>1. m.block[a].next = k /\ m.block[a].size = r.block[a].size
        BY <2>3, <3>3
      <4>2. CASE k = Null
        <5>1. a + r.block[a].size = Units /\ r.last = a
          BY <3>1, <4>2 DEF Linked
        <5>2. n # Null
          BY <2>6, <3>1, <5>1 DEF Linked, n
        <5>3. QED
          BY <2>4, <4>1, <4>2, <5>1, <5>2 DEF Linked
      <4>3. CASE k # Null
        <5>1. k = a + r.block[a].size /\ k \in On(r) /\ r.block[k].prev = a
          BY <3>1, <4>3 DEF Linked
        <5>2. k # b /\ k # n
          <6>1. k # b
            BY <3>3, <5>1 DEF p
          <6>2. CASE k = n
            <7>1. r.block[n].prev = b
              BY <2>6, <4>3, <6>2 DEF Linked, n
            <7>2. QED
              BY <3>1, <5>1, <6>2, <7>1
          <6>3. QED
            BY <6>1, <6>2
        <5>3. k \in On(m) /\ m.block[k].prev = a
          BY <2>2, <2>3, <5>1, <5>2
        <5>4. QED
          BY <4>1, <4>3, <5>1, <5>3 DEF Linked
      <4>4. QED
        BY <4>2, <4>3
    <3>4. QED
      BY <3>2, <3>3
  <2>12. ASSUME NEW a \in On(m) PROVE BackLinked(m, a)
    <3>1. a \in On(r) /\ a # b /\ BackLinked(r, a)
      BY <2>2, <2>6
    <3>2. CASE a = n
      <4>1. n # Null /\ n # First
        <5>1. n # Null /\ r.block[n].prev = b /\ b # Null
          BY <2>2, <2>5, <2>6, <3>1, <3>2 DEF Linked, n
        <5>2. QED
          BY <2>6, <5>1 DEF BackLinked
      <4>2. m.block[a].prev = p /\ p \in On(m) /\ p < a /\ m.block[p].next = n
        BY <2>2, <2>3, <2>5, <3>2, <4>1
      <4>3. QED
        BY <3>2, <4>1, <4>2 DEF BackLinked
    <3>3. CASE a # n
      <4>1. m.block[a].prev = r.block[a].prev
        BY <2>3, <3>3
      <4>2. CASE a = First
        BY <3>1, <4>1, <4>2 DEF BackLinked
      <4>3. CASE a # First
        <5> DEFINE k == r.block[a].prev
        <5>1. k \in On(r) /\ k < a /\ r.block[k].next = a
          BY <3>1, <4>3 DEF BackLinked
        <5>2. k # b /\ k # p
          BY <2>2, <3>1, <3>3, <5>1 DEF n
        <5>3. k \in On(m) /\ m.block[k].next = a
          BY <2>2, <2>3, <5>1, <5>2
        <5>4. QED
          BY <4>1, <4>3, <5>1, <5>3 DEF BackLinked
      <4>4. QED
        BY <4>2, <4>3
    <3>4. QED
      BY <3>2, <3>3
  <2>13. ASSUME NEW a \in On(m) PROVE Roomy(m, a)
    <3>1. a \in On(r) /\ a # b /\ Roomy(r, a) /\ m.block[a].item = r.block[a].item
      BY <2>2, <2>3, <2>6
    <3>2. CASE a = p
      BY <2>7, <3>1, <3>2 DEF Roomy, Free
    <3>3. CASE a # p
      BY <2>3, <3>1, <3>3 DEF Roomy, Free
    <3>4. QED
      BY <3>2, <3>3
  <2>14. ASSUME NEW c \in On(m) PROVE c \in On(r) /\ c # b /\ (Joins(m, c) => Joins(r, c))
    <3>1. c \in On(r) /\ c # b /\ m.block[c].item = r.block[c].item
      BY <2>2, <2>3
    <3>2. CASE c = n
      <4>1. r.block[c].prev = b
        BY <2>5, <2>6, <3>1, <3>2 DEF Linked, n
      <4>2. QED
        BY <2>5, <2>7, <3>1, <4>1 DEF Joins, Free
    <3>3. CASE c # n
      <4>1. m.block[c].prev = r.block[c].prev
        BY <2>3, <3>3
      <4>2. CASE c = First
        BY <3>1, <2>6, <4>1, <4>2 DEF BackLinked, Joins
      <4>3. CASE c # First
        <5>1. r.block[c].prev \in On(m)
          BY <2>12, <4>1, <4>3 DEF BackLinked
        <5>2. QED
          BY <2>3, <3>1, <4>1, <5>1 DEF Joins, Free
      <4>4. QED
        BY <4>2, <4>3
    <3>4. QED
      BY <3>2, <3>3
  <2>15. m.block[m.last].next = Null
    <3>1. r.last \in On(r) /\ r.block[r.last].next = Null
      BY DEF Shape
    <3>2. CASE n = Null
      BY <2>2, <2>3, <2>4, <2>5, <3>2
    <3>3. CASE n # Null
      <4>1. m.last = r.last /\ r.last # b /\ r.last # p
        BY <2>2, <2>4, <2>5, <3>1, <3>3 DEF n
      <4>2. QED
        BY <2>2, <2>3, <3>1, <4>1
    <3>4. QED
      BY <3>2, <3>3
  <2>16. Shape(m)
    BY <2>2, <2>8, <2>10, <2>11, <2>12, <2>13, <2>15 DEF Shape
  <2>17. QED
    BY <2>14, <2>16 DEF m
<1>3. QED
  BY <1>1, <1>2

\* What Cut makes of r when block b is larger than w.
CutOf(r, b, w, m) ==
    LET n == r.block[b].next
        new == b + w
    IN  /\ new \in Address /\ new \notin On(r) /\ b < new /\ new < b + r.block[b].size
        /\ m \in Rings /\ On(m) = On(r) \cup {new}
        /\ m.block[new].prev = b /\ m.block[new].next = n
        /\ m.block[new].size = r.block[b].size - w /\ m.block[new].item = Null
        /\ \A a \in On(r) :
              /\ m.block[a].prev = IF a = n THEN new ELSE r.block[a].prev
              /\ m.block[a].next = IF a = b THEN new ELSE r.block[a].next
              /\ m.block[a].size = IF a = b THEN w ELSE r.block[a].size
              /\ m.block[a].item = r.block[a].item
        /\ m.produce = r.produce /\ m.consume = r.consume
        /\ m.last = IF n = Null THEN new ELSE r.last

LEMMA CutIs ==
    ASSUME NEW r, Shape(r), NEW b \in On(r), NEW w \in Nat \ {0}, w < r.block[b].size
    PROVE  CutOf(r, b, w, Cut(r, b, w))
<1> DEFINE n == r.block[b].next
           new == b + w
           B0 == r.block
           rest == [prev |-> b, next |-> n, size |-> B0[b].size - w, item |-> Null]
           B1 == [B0 EXCEPT ![b] = [B0[b] EXCEPT !.next = new]]
           B2 == [B1 EXCEPT ![b] = [B1[b] EXCEPT !.size = w]]
           B3 == [B2 EXCEPT ![new] = rest]
           B4 == [B3 EXCEPT ![n] = [B3[n] EXCEPT !.prev = new]]
           m == Cut(r, b, w)
<1>1. r \in Rings /\ b \in Address /\ b \in Int /\ Linked(r, b) /\ Apart(r)
      /\ B0[b] \in Block /\ B0[b].size \in 1..Units /\ b + B0[b].size <= Units
  BY BlockOf, EndIs DEF Shape, On
<1>2. new \in Address /\ b < new /\ new < b + B0[b].size
  BY <1>1, RingNumbers DEF Address
<1>3. new \notin On(r)
  BY <1>1, <1>2 DEF Apart
<1>4. n \in Address \cup {Null} /\ (n # Null => n \in On(r) /\ n = b + B0[b].size /\ B0[n] \in Block)
  BY <1>1, BlockOf DEF Linked
<1>5. n # b /\ n # new
  BY <1>1, <1>2, <1>4, RingNumbers
<1>0. m = [r EXCEPT !.block[b].next = new, !.block[b].size = w, !.block[new] = rest,
                    !.block[n].prev = new, !.last = IF n = Null THEN new ELSE r.last]
  BY DEF Cut
<1> HIDE DEF rest, n, new, m
<1>6. /\ m.block = B4
      /\ m.produce = r.produce /\ m.consume = r.consume
      /\ m.last = IF n = Null THEN new ELSE r.last
      /\ m = [block |-> m.block, produce |-> m.produce, consume |-> m.consume, last |-> m.last]
  BY <1>1, <1>0 DEF Rings
<1>7. /\ DOMAIN B4 = Address
      /\ B4[new] = rest
      /\ B4[b] = [[B0[b] EXCEPT !.next = new] EXCEPT !.size = w]
      /\ n # Null => B4[n] = [B0[n] EXCEPT !.prev = new]
      /\ \A a \in Address : a # b /\ a # new /\ a # n => B4[a] = B0[a]
      /\ B4 = [a \in Address |-> B4[a]]
  <2>1. B0 = [a \in Address |-> B0[a]]
    BY <1>1 DEF Rings
  <2> HIDE DEF B0
  <2>2. /\ B1 = [a \in Address |-> B1[a]] /\ B1[b] = [B0[b] EXCEPT !.next = new]
        /\ \A a \in Address : a # b => B1[a] = B0[a]
    BY <1>1, <2>1
  <2> HIDE DEF B1
  <2>3. /\ B2 = [a \in Address |-> B2[a]] /\ B2[b] = [B1[b] EXCEPT !.size = w]
        /\ \A a \in Address : a # b => B2[a] = B1[a]
    BY <1>1, <2>2
  <2> HIDE DEF B2
  <2>4. /\ B3 = [a \in Address |-> B3[a]] /\ B3[new] = rest
        /\ \A a \in Address : a # new => B3[a] = B2[a]
    BY <1>2, <2>3
  <2> HIDE DEF B3
  <2>5. /\ B4 = [a \in Address |-> B4[a]]
        /\ n # Null => B4[n] = [B3[n] EXCEPT !.prev = new]
        /\ \A a \in Address : a # n => B4[a] = B3[a]
    BY <1>4, <2>4
  <2> HIDE DEF B4
  <2>6. b # new /\ b \in Address /\ new \in Address /\ (n # Null => n \in Address)
    BY <1>1, <1>2, <1>4
  <2>7. DOMAIN B4 = Address
    BY <2>5
  <2>8. B4[new] = rest
    BY <1>5, <2>4, <2>5, <2>6
  <2>9. B4[b] = [[B0[b] EXCEPT !.next = new] EXCEPT !.size = w]
    BY <1>5, <2>2, <2>3, <2>4, <2>5, <2>6
  <2>10. n # Null => B4[n] = [B0[n] EXCEPT !.prev = new]
    BY <1>5, <2>2, <2>3, <2>4, <2>5, <2>6
  <2>11. \A a \in Address : a # b /\ a # new /\ a # n => B4[a] = B0[a]
    BY <2>2, <2>3, <2>4, <2>5
  <2>12. QED
    BY <2>5, <2>7, <2>8, <2>9, <2>10, <2>11
<1> HIDE DEF B1, B2, B3, B4
<1>8. /\ B4[b] \in Block /\ B4[b].prev = B0[b].prev /\ B4[b].next = new
      /\ B4[b].size = w /\ B4[b].item = B0[b].item
  <2>1. w \in 1..Units
    BY <1>1, RingNumbers
  <2>2. QED
    BY <1>1, <1>2, <1>7, <2>1 DEF Block
<1>9. n # Null => /\ B4[n] \in Block /\ B4[n].prev = new /\ B4[n].next = B0[n].next
                  /\ B4[n].size = B0[n].size /\ B4[n].item = B0[n].item
  BY <1>2, <1>4, <1>7 DEF Block
<1>10. /\ B4[new] \in Block /\ B4[new].prev = b /\ B4[new].next = n
       /\ B4[new].size = B0[b].size - w /\ B4[new].item = Null
  <2>1. B0[b].size - w \in 1..Units
    BY <1>1, RingNumbers
  <2>2. QED
    BY <1>1, <1>4, <1>7, <2>1 DEF Block, rest
<1>11. \A a \in Address : B4[a] \in Block \cup {Null} /\ (B4[a] # Null <=> a \in On(r) \cup {new})
  <2> SUFFICES ASSUME NEW a \in Address
               PROVE  B4[a] \in Block \cup {Null} /\ (B4[a] # Null <=> a \in On(r) \cup {new})
    OBVIOUS
  <2>1. CASE a = b
    BY <1>8, <2>1, RingNumbers
  <2>2. CASE a = new
    BY <1>10, <2>2, RingNumbers
  <2>3. CASE a = n
    BY <1>4, <1>9, <2>3, RingNumbers
  <2>4. CASE a # b /\ a # new /\ a # n
    <3>1. B4[a] = B0[a] /\ B0[a] \in Block \cup {Null}
      BY <1>1, <1>7, <2>4 DEF Rings
    <3>2. QED
      BY <2>4, <3>1 DEF On
  <2>5. QED
    BY <2>1, <2>2, <2>3, <2>4
<1>12. m \in Rings /\ On(m) = On(r) \cup {new}
  <2>1. On(m) = On(r) \cup {new}
    BY <1>2, <1>6, <1>11 DEF On
  <2>2. B4 = [a \in Address |-> B4[a]]
    BY <1>7
  <2>3. B4 \in [Address -> Block \cup {Null}]
    BY <1>11, <2>2
  <2>4. m.produce \in Address /\ m.consume \in Address /\ m.last \in Address
    BY <1>1, <1>2, <1>6 DEF Rings
  <2>5. QED
    BY <1>6, <2>1, <2>3, <2>4 DEF Rings
<1>13. \A a \in On(r) :
          /\ m.block[a].prev = IF a = n THEN new ELSE r.block[a].prev
          /\ m.block[a].next = IF a = b THEN new ELSE r.block[a].next
          /\ m.block[a].size = IF a = b THEN w ELSE r.block[a].size
          /\ m.block[a].item = r.block[a].item
  <2> SUFFICES ASSUME NEW a \in On(r), a # new, a \in Address
               PROVE  /\ B4[a].prev = IF a = n THEN new ELSE B0[a].prev
                      /\ B4[a].next = IF a = b THEN new ELSE B0[a].next
                      /\ B4[a].size = IF a = b THEN w ELSE B0[a].size
                      /\ B4[a].item = B0[a].item
    BY <1>3, <1>6 DEF On
  <2>1. CASE a = b
    BY <1>5, <1>8, <2>1
  <2>2. CASE a = n
    BY <1>4, <1>5, <1>9, <2>2, RingNumbers
  <2>3. CASE a # b /\ a # n
    BY <1>7, <2>3
  <2>4. QED
    BY <2>1, <2>2, <2>3
<1>14. QED
  BY <1>2, <1>3, <1>6, <1>10, <1>12, <1>13 DEF CutOf, m, n, new

LEMMA CutShape ==
    ASSUME NEW r, Shape(r), NEW b \in On(r), NEW w \in Nat \ {0}, w < r.block[b].size,
           Free(r, b)
    PROVE  Shape(Cut(r, b, w))
<1> DEFINE n == r.block[b].next
           new == b + w
           m == Cut(r, b, w)
<1>1. CutOf(r, b, w, m)
  BY CutIs
<1> HIDE DEF m
<1>2. /\ new \in Address /\ new \notin On(r) /\ b < new /\ new < b + r.block[b].size
      /\ m \in Rings /\ On(m) = On(r) \cup {new}
      /\ m.block[new].prev = b /\ m.block[new].next = n
      /\ m.block[new].size = r.block[b].size - w /\ m.block[new].item = Null
  BY <1>1 DEF CutOf
<1>3. \A a \in On(r) :
        /\ m.block[a].prev = IF a = n THEN new ELSE r.block[a].prev
        /\ m.block[a].next = IF a = b THEN new ELSE r.block[a].next
        /\ m.block[a].size = IF a = b THEN w ELSE r.block[a].size
        /\ m.block[a].item = r.block[a].item
  BY <1>1 DEF CutOf
<1>4. m.produce = r.produce /\ m.consume = r.consume /\ m.last = IF n = Null THEN new ELSE r.last
  BY <1>1 DEF CutOf
<1>5. /\ b \in Int /\ new \in Int /\ new = b + w /\ new # Null
      /\ \A a \in On(r) : a \in Int /\ r.block[a].size \in Int /\ a \in Address /\ a # Null
  BY <1>2, EndIs, RingNumbers DEF On
<1>6. /\ r \in Rings /\ Apart(r) /\ {First, r.produce, r.consume, r.last} \subseteq On(r)
      /\ r.block[r.last].next = Null
      /\ \A a \in On(r) : Linked(r, a) /\ BackLinked(r, a) /\ Roomy(r, a)
  BY DEF Shape
<1> HIDE DEF n, new
<1>7. n # Null => n \in On(r) /\ n = b + r.block[b].size /\ r.block[n].prev = b /\ n # b
  <2>1. Linked(r, b) /\ r.block[b].size \in 1..Units
    BY <1>6, BlockOf
  <2>2. QED
    BY <1>5, <2>1, RingNumbers DEF Linked, n
<1>8. Apart(m)
  <2> SUFFICES ASSUME NEW a \in On(m), NEW c \in On(m), a < c PROVE a + m.block[a].size <= c
    BY DEF Apart
  <2>1. CASE a \in On(r) /\ c \in On(r)
    <3>1. a + r.block[a].size <= c
      BY <1>6, <2>1 DEF Apart
    <3>2. a # b => m.block[a].size = r.block[a].size
      BY <1>3, <2>1
    <3>3. a = b => m.block[a].size = w /\ w < r.block[a].size
      BY <1>3, <2>1
    <3>4. QED
      BY <1>5, <2>1, <3>1, <3>2, <3>3
  <2>2. CASE a \in On(r) /\ c = new
    <3>1. CASE a = b
      BY <1>3, <1>5, <2>2, <3>1
    <3>2. CASE a # b
      <4>1. a < b
        <5>1. ~(b < a)
          <6>1. b < a => b + r.block[b].size <= a
            BY <1>6, <2>2 DEF Apart
          <6> DEFINE z == r.block[b].size
          <6>2. z \in Int /\ w \in Int /\ w < z
            BY <1>5
          <6>3. b \in Int /\ a \in Int /\ a < b + w
            BY <1>5, <2>2
          <6>4. b < a => b + z <= a
            BY <6>1
          <6> HIDE DEF z
          <6>5. QED
            BY <6>2, <6>3, <6>4
        <5>2. QED
          BY <1>5, <2>2, <3>2, <5>1
      <4>2. a + r.block[a].size <= b
        BY <1>6, <2>2, <4>1 DEF Apart
      <4>3. m.block[a].size = r.block[a].size
        BY <1>3, <2>2, <3>2
      <4>4. QED
        BY <1>2, <1>5, <2>2, <4>2, <4>3
    <3>3. QED
      BY <3>1, <3>2
  <2>3. CASE a = new /\ c \in On(r)
    <3>1. b < c
      BY <1>2, <1>5, <2>3
    <3>2. b + r.block[b].size <= c
      BY <1>6, <2>3, <3>1 DEF Apart
    <3>3. QED
      BY <1>2, <1>5, <2>3, <3>2
  <2>4. CASE a = new /\ c = new
    BY <1>5, <2>4
  <2>5. QED
    BY <1>2, <2>1, <2>2, <2>3, <2>4
<1>9. ASSUME NEW a \in On(m) PROVE Linked(m, a)
  <2>1. CASE a = new
    <3>1. m.block[a].next = n /\ a + m.block[a].size = b + r.block[b].size
      BY <1>2, <1>5, <2>1
    <3>2. CASE n = Null
      <4>1. b + r.block[b].size = Units
        BY <1>6, <3>2 DEF Linked, n
      <4>2. QED
        BY <1>4, <2>1, <3>1, <3>2, <4>1 DEF Linked
    <3>3. CASE n # Null
      BY <1>2, <1>3, <1>7, <2>1, <3>1, <3>3 DEF Linked
    <3>4. QED
      BY <3>2, <3>3
  <2>2. CASE a = b
    <3>1. m.block[a].next = new /\ a + m.block[a].size = new /\ m.block[new].prev = a /\ new \in On(m)
      BY <1>2, <1>3, <1>5, <2>2
    <3>2. QED
      BY <1>5, <3>1 DEF Linked
  <2>3. CASE a # new /\ a # b
    <3> DEFINE k == r.block[a].next
    <3>1. a \in On(r) /\ Linked(r, a) /\ m.block[a].next = k /\ m.block[a].size = r.block[a].size
      BY <1>2, <1>3, <1>6, <2>3
    <3>2. CASE k = Null
      <4>1. a + r.block[a].size = Units /\ r.last = a
        BY <3>1, <3>2 DEF Linked
      <4>2. n # Null
        BY <1>6, <2>3, <4>1 DEF Linked, n
      <4>3. QED
        BY <1>4, <3>1, <3>2, <4>1, <4>2 DEF Linked
    <3>3. CASE k # Null
      <4>1. k = a + r.block[a].size /\ k \in On(r) /\ r.block[k].prev = a
        BY <3>1, <3>3 DEF Linked
      <4>2. k # n
        BY <1>7, <2>3, <3>3, <4>1
      <4>3. k \in On(m) /\ m.block[k].prev = a
        BY <1>2, <1>3, <4>1, <4>2
      <4>4. QED
        BY <3>1, <3>3, <4>1, <4>3 DEF Linked
    <3>4. QED
      BY <3>2, <3>3
  <2>4. QED
    BY <2>1, <2>2, <2>3
<1>10. ASSUME NEW a \in On(m) PROVE BackLinked(m, a)
  <2>1. CASE a = new
    BY <1>2, <1>3, <1>5, <1>6, <2>1 DEF BackLinked
  <2>2. CASE a = n /\ n \in On(r)
    <3>1. n # Null
      BY <1>5, <2>2
    <3>2. m.block[a].prev = new /\ m.block[new].next = a /\ new \in On(m)
      BY <1>2, <1>3, <2>2
    <3>3. a # First
      BY <1>6, <1>7, <2>2, <3>1, <1>5 DEF BackLinked
    <3>4. new < a
      BY <1>2, <1>7, <2>2, <3>1
    <3>5. QED
      BY <3>2, <3>3, <3>4 DEF BackLinked
  <2>3. CASE a # new /\ a # n
    <3>1. a \in On(r) /\ BackLinked(r, a) /\ m.block[a].prev = r.block[a].prev
      BY <1>2, <1>3, <1>6, <2>3
    <3>2. CASE a = First
      BY <3>1, <3>2 DEF BackLinked
    <3>3. CASE a # First
      <4> DEFINE k == r.block[a].prev
      <4>1. k \in On(r) /\ k < a /\ r.block[k].next = a
        BY <3>1, <3>3 DEF BackLinked
      <4>2. k # b
        BY <2>3, <4>1 DEF n
      <4>3. k \in On(m) /\ m.block[k].next = a
        BY <1>2, <1>3, <4>1, <4>2
      <4>4. QED
        BY <3>1, <3>3, <4>1, <4>3 DEF BackLinked
    <3>4. QED
      BY <3>2, <3>3
  <2>4. QED
    BY <1>2, <2>1, <2>2, <2>3
<1>11. ASSUME NEW a \in On(m) PROVE Roomy(m, a)
  <2>1. CASE a = new
    BY <1>2, <2>1 DEF Roomy, Free
  <2>2. CASE a = b
    BY <1>3, <2>2 DEF Roomy, Free
  <2>3. CASE a # new /\ a # b
    <3>1. a \in On(r) /\ Roomy(r, a)
      BY <1>2, <1>6, <2>3
    <3>2. QED
      BY <1>3, <2>3, <3>1 DEF Roomy, Free
  <2>4. QED
    BY <2>1, <2>2, <2>3
<1>12. {First, m.produce, m.consume, m.last} \subseteq On(m)
  BY <1>2, <1>4, <1>6
<1>13. m.block[m.last].next = Null
  <2>1. CASE n = Null
    BY <1>2, <1>4, <2>1
  <2>2. CASE n # Null
    <3>1. m.last = r.last /\ r.last \in On(r) /\ r.last # b
      BY <1>4, <1>6, <2>2 DEF n
    <3>2. QED
      BY <1>3, <1>6, <3>1
  <2>3. QED
    BY <2>1, <2>2
<1>14. Shape(m)
  BY <1>2, <1>8, <1>9, <1>10, <1>11, <1>12, <1>13 DEF Shape
<1>15. QED
  BY <1>14 DEF m

\* The same blocks, with other items and pointers.
SameBlocks(r, m) ==
    /\ m \in Rings /\ On(m) = On(r) /\ m.last = r.last
    /\ m.produce \in On(r) /\ m.consume \in On(r)
    /\ \A a \in On(r) : /\ m.block[a].prev = r.block[a].prev
                        /\ m.block[a].next = r.block[a].next
                        /\ m.block[a].size = r.block[a].size

LEMMA SameShape ==
    ASSUME NEW r, Shape(r), NEW m, SameBlocks(r, m), \A a \in On(r) : Roomy(m, a)
    PROVE  Shape(m)
<1>1. /\ r \in Rings /\ Apart(r) /\ {First, r.produce, r.consume, r.last} \subseteq On(r)
      /\ r.block[r.last].next = Null
      /\ \A a \in On(r) : Linked(r, a) /\ BackLinked(r, a)
  BY DEF Shape
<1>2. /\ m \in Rings /\ On(m) = On(r) /\ m.last = r.last
      /\ m.produce \in On(r) /\ m.consume \in On(r)
      /\ \A a \in On(r) : /\ m.block[a].prev = r.block[a].prev
                          /\ m.block[a].next = r.block[a].next
                          /\ m.block[a].size = r.block[a].size
  BY DEF SameBlocks
<1>3. Apart(m)
  BY <1>1, <1>2 DEF Apart
<1>4. \A a \in On(m) : Linked(m, a)
  BY <1>1, <1>2 DEF Linked
<1>5. \A a \in On(m) : BackLinked(m, a)
  BY <1>1, <1>2 DEF BackLinked
<1>6. QED
  BY <1>1, <1>2, <1>3, <1>4, <1>5 DEF Shape

LEMMA NextIs ==
    ASSUME NEW r, Shape(r), NEW b \in On(r)
    PROVE  NextBlock(r, b) \in On(r)
<1>1. Linked(r, b) /\ First \in On(r)
  BY DEF Shape
<1>2. QED
  BY <1>1 DEF Linked, NextBlock

\* Block b with another item i, and another m_pProduce.
SetItem(r, b, i, q) == [r EXCEPT !.produce = q, !.block[b].item = i]

LEMMA ItemSet ==
    ASSUME NEW r, Shape(r), NEW b \in On(r), NEW i \in Items \cup {Null}, NEW q \in On(r),
           i # Null => r.block[b].size * Unit >= Unit + Bytes[i],
           NEW m, m = SetItem(r, b, i, q)
    PROVE  /\ Shape(m) /\ SameBlocks(r, m) /\ m.produce = q /\ m.consume = r.consume
           /\ \A a \in On(r) : m.block[a].item = IF a = b THEN i ELSE r.block[a].item
<1> DEFINE B1 == [r.block EXCEPT ![b] = [r.block[b] EXCEPT !.item = i]]
<1>1. r \in Rings /\ b \in Address /\ r.block[b] \in Block /\ q \in Address
      /\ r.consume \in On(r) /\ r.last \in On(r)
  BY BlockOf DEF Shape, On
<1>2. /\ m.block = B1 /\ m.produce = q /\ m.consume = r.consume /\ m.last = r.last
      /\ m = [block |-> m.block, produce |-> m.produce, consume |-> m.consume, last |-> m.last]
  BY <1>1 DEF Rings, SetItem
<1>3. /\ B1 = [a \in Address |-> B1[a]] /\ B1[b] = [r.block[b] EXCEPT !.item = i]
      /\ \A a \in Address : a # b => B1[a] = r.block[a]
  BY <1>1 DEF Rings
<1> HIDE DEF B1
<1>4. /\ B1[b] \in Block /\ B1[b].prev = r.block[b].prev /\ B1[b].next = r.block[b].next
      /\ B1[b].size = r.block[b].size /\ B1[b].item = i
  BY <1>1, <1>3 DEF Block
<1>5. \A a \in Address : B1[a] \in Block \cup {Null} /\ (B1[a] # Null <=> a \in On(r))
  BY <1>1, <1>3, <1>4, RingNumbers DEF Rings, On
<1>6. B1 \in [Address -> Block \cup {Null}]
  BY <1>3, <1>5
<1>7. On(m) = On(r)
  BY <1>2, <1>5 DEF On
<1>8. m \in Rings
  <2>1. m.produce \in Address /\ m.consume \in Address /\ m.last \in Address
    BY <1>1, <1>2 DEF Rings
  <2>2. QED
    BY <1>2, <1>6, <2>1 DEF Rings
<1>9. \A a \in On(r) : /\ m.block[a].prev = r.block[a].prev
                       /\ m.block[a].next = r.block[a].next
                       /\ m.block[a].size = r.block[a].size
                       /\ m.block[a].item = IF a = b THEN i ELSE r.block[a].item
  BY <1>2, <1>3, <1>4 DEF On
<1>10. SameBlocks(r, m)
  BY <1>1, <1>2, <1>7, <1>8, <1>9 DEF SameBlocks
<1>11. ASSUME NEW a \in On(r) PROVE Roomy(m, a)
  <2>1. CASE a = b
    BY <1>9, <2>1 DEF Roomy, Free
  <2>2. CASE a # b
    <3>1. Roomy(r, a)
      BY DEF Shape
    <3>2. QED
      BY <1>9, <2>2, <3>1 DEF Roomy, Free
  <2>3. QED
    BY <2>1, <2>2
<1>12. Shape(m)
  BY <1>10, <1>11, SameShape
<1>13. QED
  BY <1>2, <1>9, <1>10, <1>12

\* Block b with its item taken out.
Emptied(r, b) == [r EXCEPT !.block[b].item = Null]

LEMMA ItemFreed ==
    ASSUME NEW r, Shape(r), NEW b \in On(r),
           NEW m, m = Emptied(r, b)
    PROVE  /\ Shape(m) /\ SameBlocks(r, m) /\ m.produce = r.produce /\ m.consume = r.consume
           /\ \A a \in On(r) : m.block[a].item = IF a = b THEN Null ELSE r.block[a].item
<1>1. r \in Rings /\ r.produce \in On(r)
  BY DEF Shape
<1> DEFINE q == r.produce
           i == Null
<1>2. m = SetItem(r, b, i, q)
  BY <1>1 DEF Rings, SetItem, Emptied
<1>3. q = r.produce /\ i = Null
  BY DEF q
<1> HIDE DEF q, i
<1>4. q \in On(r) /\ i \in Items \cup {Null} /\ (i # Null => r.block[b].size * Unit >= Unit + Bytes[i])
  BY <1>1, <1>3
<1>5. /\ Shape(m) /\ SameBlocks(r, m) /\ m.produce = q /\ m.consume = r.consume
      /\ \A a \in On(r) : m.block[a].item = IF a = b THEN i ELSE r.block[a].item
  BY <1>2, <1>4, ItemSet
<1>6. QED
  BY <1>3, <1>5

\* The block that Allocate wants has room for the header and the item.
LEMMA WantedIs ==
    ASSUME NEW x \in Items
    PROVE  Wanted(x) \in Nat \ {0} /\ Wanted(x) * Unit >= Unit + Bytes[x]
<1> DEFINE a == Bytes[x] + Unit + Unit - 1
           q == a \div Unit
<1>1. Unit \in Nat /\ Unit >= 1 /\ Bytes[x] \in Nat
  BY RingNumbers, BytesAssumption
<1>2. a \in Nat /\ a = Bytes[x] + 2 * Unit - 1
  BY <1>1
<1> HIDE DEF a
<1>3. a % Unit \in 0..(Unit - 1) /\ q \in Int /\ a = Unit * q + (a % Unit)
  <2>1. Unit \in Nat \ {0}
    BY <1>1
  <2>2. a % Unit \in 0..(Unit - 1) /\ a \div Unit \in Int /\ a = Unit * (a \div Unit) + (a % Unit)
    BY <1>2, <2>1, RingDivMod
  <2>3. QED
    BY <2>2
<1>4. Wanted(x) = q
  BY DEF Wanted, a
<1> HIDE DEF q
<1>5. Unit * q \in Int /\ q * Unit = Unit * q
  BY <1>1, <1>3, SMT
<1> DEFINE y == Unit * q
<1>6. y \in Int /\ y >= Bytes[x] + Unit
  BY <1>1, <1>2, <1>3, <1>5
<1>7. q <= 0 => y <= 0
  <2>1. \A d \in Int : d <= 0 => Unit * d <= 0
    BY <1>1, SMT
  <2>2. QED
    BY <1>3, <2>1
<1> HIDE DEF y
<1>8. q >= 1
  BY <1>1, <1>3, <1>6, <1>7
<1>9. QED
  BY <1>1, <1>3, <1>4, <1>5, <1>6, <1>8 DEF y

\* NextBlock and PrevBlock undo one another.
LEMMA RoundIs ==
    ASSUME NEW r, Shape(r), NEW b \in On(r)
    PROVE  /\ NextBlock(r, b) \in On(r) /\ PrevBlock(r, NextBlock(r, b)) = b
           /\ PrevBlock(r, b) \in On(r) /\ NextBlock(r, PrevBlock(r, b)) = b
<1>1. /\ First \in On(r) /\ r.last \in On(r) /\ r.block[First].prev = Null
      /\ r.block[r.last].next = Null /\ Linked(r, b) /\ BackLinked(r, b)
  BY DEF Shape, BackLinked
<1>2. \A a \in On(r) : a # Null
  BY RingNumbers DEF On
<1>3. NextBlock(r, b) \in On(r) /\ PrevBlock(r, NextBlock(r, b)) = b
  BY <1>1, <1>2 DEF Linked, NextBlock, PrevBlock
<1>4. PrevBlock(r, b) \in On(r) /\ NextBlock(r, PrevBlock(r, b)) = b
  BY <1>1, <1>2 DEF BackLinked, NextBlock, PrevBlock
<1>5. QED
  BY <1>3, <1>4

\* Joins, by PrevBlock.
LEMMA JoinsIs ==
    ASSUME NEW r, Shape(r), NEW b \in On(r)
    PROVE  Joins(r, b) <=> Free(r, b) /\ b # First /\ Free(r, PrevBlock(r, b))
<1>1. BackLinked(r, b)
  BY DEF Shape
<1>2. \A a \in On(r) : a # Null
  BY RingNumbers DEF On
<1>3. QED
  BY <1>1, <1>2 DEF Joins, BackLinked, PrevBlock

\* The ring after Merge, by NextBlock.
LEMMA MergeNext ==
    ASSUME NEW r, Shape(r), NEW b \in On(r), Joins(r, b)
    PROVE  LET m == Merge(r, b)
               p == PrevBlock(r, b)
           IN  /\ p \in On(r) /\ p # b /\ Free(r, p) /\ On(m) = On(r) \ {b}
               /\ \A a \in On(m) :
                     /\ NextBlock(m, a) = IF a = p THEN NextBlock(r, b) ELSE NextBlock(r, a)
                     /\ m.block[a].item = r.block[a].item
               /\ m.produce = IF r.produce = b THEN p ELSE r.produce
               /\ m.consume = IF r.consume = b THEN p ELSE r.consume
<1> DEFINE m == Merge(r, b)
<1>1. Joined(r, b, m)
  BY MergeIs
<1> HIDE DEF m
<1>2. PrevBlock(r, b) = r.block[b].prev /\ Free(r, r.block[b].prev)
  BY DEF Joins, PrevBlock
<1>3. r.block[b].prev \in Int /\ r.block[b].prev < b /\ b \in Int
  BY <1>1, EndIs DEF Joined
<1>4. \A a \in On(m) : NextBlock(m, a) = IF a = r.block[b].prev THEN NextBlock(r, b) ELSE NextBlock(r, a)
  BY <1>1 DEF Joined, NextBlock
<1>5. QED
  BY <1>1, <1>2, <1>3, <1>4 DEF Joined, m

\* The ring after an item is stored in block b.
LEMMA StoredIs ==
    ASSUME NEW r, Shape(r), NoPair(r), NEW x \in Items, NEW b \in On(r), Big(r, b, x),
           NEW t, t = Stored(r, b, x)
    PROVE  /\ Shape(t) /\ NoPair(t) /\ On(r) \subseteq On(t)
           /\ t.consume = r.consume /\ t.produce = NextBlock(t, b) /\ t.block[b].item = x
           /\ \A a \in On(r) : a # b => /\ NextBlock(t, a) = NextBlock(r, a)
                                        /\ t.block[a].item = r.block[a].item
           /\ \A a \in On(t) \ On(r) : Free(t, a)
<1> DEFINE w == Wanted(x)
           s == Split(r, b, w)
           q == NextBlock(s, b)
<1>1. w \in Nat \ {0} /\ w * Unit >= Unit + Bytes[x] /\ Free(r, b) /\ r.block[b].size >= w
      /\ r.block[b].size \in Nat /\ r \in Rings /\ b \in Address
  BY WantedIs, BlockOf DEF Big, Shape, On
<1> HIDE DEF w
<1>2. CASE r.block[b].size > w + 1
  <2> DEFINE new == b + w
             n == r.block[b].next
  <2>1. s = Cut(r, b, w) /\ w < r.block[b].size
    BY <1>1, <1>2 DEF Split
  <2>2. Shape(s) /\ CutOf(r, b, w, s)
    BY <1>1, <2>1, CutShape, CutIs
  <2> HIDE DEF s, new
  <2>3. /\ On(s) = On(r) \cup {new} /\ new \notin On(r) /\ b \in On(s)
        /\ s.block[b].size = w /\ s.block[b].next = new /\ s.block[new].prev = b
        /\ s.block[new].item = Null /\ new # Null
        /\ s.consume = r.consume
        /\ \A a \in On(r) : /\ s.block[a].item = r.block[a].item
                            /\ a # b => s.block[a].next = r.block[a].next
                            /\ s.block[a].prev = IF a = n THEN new ELSE r.block[a].prev
    BY <2>2, RingNumbers DEF CutOf, new
  <2>4. q \in On(s)
    BY <2>2, <2>3, RoundIs
  <2>5. t = SetItem(s, b, x, q) /\ x \in Items \cup {Null}
    BY DEF Stored, s, w, SetItem
  <2>6. s.block[b].size * Unit >= Unit + Bytes[x]
    BY <1>1, <2>3
  <2> HIDE DEF q
  <2>7. /\ Shape(t) /\ SameBlocks(s, t) /\ t.produce = q /\ t.consume = s.consume
        /\ \A a \in On(s) : t.block[a].item = IF a = b THEN x ELSE s.block[a].item
    BY <2>2, <2>3, <2>4, <2>5, <2>6, ItemSet
  <2>8. /\ On(t) = On(s)
        /\ \A a \in On(s) : t.block[a].prev = s.block[a].prev /\ t.block[a].next = s.block[a].next
    BY <2>7 DEF SameBlocks
  <2>9. ASSUME NEW c \in On(t), Joins(t, c) PROVE FALSE
    <3>1. x # Null /\ t.block[c].item = Null /\ t.block[t.block[c].prev].item = Null /\ t.block[c].prev # Null
      BY <2>9, RingNumbers DEF Joins, Free
    <3>2. c # b /\ t.block[c].prev # b
      BY <2>3, <2>7, <3>1
    <3>3. c # new
      BY <2>3, <2>8, <3>2
    <3>4. c \in On(r) /\ r.block[c].item = Null
      BY <2>3, <2>7, <2>8, <3>1, <3>2, <3>3
    <3>5. CASE c = n
      <4>1. Linked(r, b) /\ n # Null
        BY <3>4, <3>5, RingNumbers DEF Shape, On
      <4>2. r.block[n].prev = b
        BY <4>1 DEF Linked
      <4>3. Joins(r, c)
        BY <1>1, <3>4, <3>5, <4>2, RingNumbers DEF Joins, Free
      <4>4. QED
        BY <3>4, <4>3 DEF NoPair
    <3>6. CASE c # n
      <4>1. t.block[c].prev = r.block[c].prev
        BY <2>3, <2>8, <3>4, <3>6
      <4>2. r.block[c].prev \in On(r)
        <5>1. BackLinked(r, c)
          BY <3>4 DEF Shape
        <5>2. QED
          BY <3>1, <4>1, <5>1 DEF BackLinked
      <4>3. r.block[r.block[c].prev].item = Null
        BY <2>3, <2>7, <3>1, <3>2, <4>1, <4>2
      <4>4. Joins(r, c)
        BY <3>1, <3>4, <4>1, <4>3 DEF Joins, Free
      <4>5. QED
        BY <3>4, <4>4 DEF NoPair
    <3>7. QED
      BY <3>5, <3>6
  <2>10. NoPair(t)
    BY <2>9 DEF NoPair
  <2>11. t.produce = NextBlock(t, b) /\ \A a \in On(r) : a # b => NextBlock(t, a) = NextBlock(r, a)
    BY <2>3, <2>7, <2>8 DEF NextBlock, q
  <2>12. /\ t.block[b].item = x /\ t.consume = r.consume /\ On(r) \subseteq On(t)
         /\ \A a \in On(r) : a # b => t.block[a].item = r.block[a].item
         /\ \A a \in On(t) \ On(r) : Free(t, a)
    BY <2>3, <2>7, <2>8 DEF Free
  <2>13. QED
    BY <2>7, <2>10, <2>11, <2>12
<1>3. CASE ~(r.block[b].size > w + 1)
  <2>1. s = r
    BY <1>3 DEF Split
  <2>2. q \in On(r)
    BY <2>1, RoundIs
  <2>3. t = SetItem(r, b, x, q) /\ x \in Items \cup {Null}
    BY <2>1 DEF Stored, w, SetItem
  <2>4. r.block[b].size * Unit >= Unit + Bytes[x]
    <3> DEFINE z == r.block[b].size
    <3>1. \A i, j \in Nat : i >= j => i * Unit >= j * Unit
      BY RingNumbers, SMT
    <3>2. z \in Nat /\ w \in Nat /\ z >= w
      BY <1>1
    <3> HIDE DEF z
    <3>3. z * Unit >= w * Unit
      BY <3>1, <3>2
    <3>4. z * Unit \in Nat /\ w * Unit \in Nat /\ Unit + Bytes[x] \in Nat
      BY <3>2, RingNumbers, BytesAssumption, SMT
    <3>5. z * Unit >= Unit + Bytes[x]
      BY <1>1, <3>3, <3>4
    <3>6. QED
      BY <3>5 DEF z
  <2> HIDE DEF s, q
  <2>5. /\ Shape(t) /\ SameBlocks(r, t) /\ t.produce = q /\ t.consume = r.consume
        /\ \A a \in On(r) : t.block[a].item = IF a = b THEN x ELSE r.block[a].item
    BY <2>2, <2>3, <2>4, ItemSet
  <2>6. /\ On(t) = On(r)
        /\ \A a \in On(r) : t.block[a].prev = r.block[a].prev /\ t.block[a].next = r.block[a].next
    BY <2>5 DEF SameBlocks
  <2>7. ASSUME NEW c \in On(t), Joins(t, c) PROVE FALSE
    <3>1. x # Null /\ t.block[c].item = Null /\ t.block[t.block[c].prev].item = Null /\ t.block[c].prev # Null
      BY <2>7, RingNumbers DEF Joins, Free
    <3>2. c \in On(r) /\ c # b /\ r.block[c].item = Null /\ t.block[c].prev = r.block[c].prev
      BY <2>5, <2>6, <3>1
    <3>3. r.block[c].prev \in On(r)
      <4>1. BackLinked(r, c)
        BY <3>2 DEF Shape
      <4>2. QED
        BY <3>1, <3>2, <4>1 DEF BackLinked
    <3>4. r.block[r.block[c].prev].item = Null
      BY <2>5, <3>1, <3>2, <3>3
    <3>5. Joins(r, c)
      BY <3>1, <3>2, <3>4 DEF Joins, Free
    <3>6. QED
      BY <3>2, <3>5 DEF NoPair
  <2>8. NoPair(t)
    BY <2>7 DEF NoPair
  <2>9. t.produce = NextBlock(t, b) /\ \A a \in On(r) : NextBlock(t, a) = NextBlock(r, a)
    BY <2>1, <2>5, <2>6 DEF NextBlock, q
  <2>10. QED
    BY <2>5, <2>6, <2>8, <2>9
<1>4. QED
  BY <1>2, <1>3

-----------------------------------------------------------------------------
(* RingBuffer: the loops, as functions of the number of rounds.            *)

HasRounds(S, G, a, N) ==
    \E f \in [0..N -> S] : f[0] = a /\ \A n \in 1..N : f[n] = G[f[n - 1]]

LEMMA RingIterate ==
    ASSUME NEW S, NEW G \in [S -> S], NEW a \in S, NEW N \in Nat
    PROVE  HasRounds(S, G, a, N)
<1> DEFINE Runs(k) == \E f \in [0..k -> S] : f[0] = a /\ \A n \in 1..k : f[n] = G[f[n - 1]]
           T == {k \in Nat : ~Runs(k)}
<1>1. CASE N \notin T
  BY <1>1 DEF HasRounds
<1>2. CASE N \in T
  <2>1. PICK m \in T : \A n \in T : ~(n < m)
    <3>1. T \in SUBSET Nat /\ T # {}
      BY <1>2
    <3> HIDE DEF T
    <3>2. QED
      BY <3>1, LeastNumber
  <2>2. Runs(0)
    <3> DEFINE z == [k \in 0..0 |-> a]
    <3>1. z \in [0..0 -> S] /\ z[0] = a
      OBVIOUS
    <3>2. \A n \in 1..0 : z[n] = G[z[n - 1]]
      OBVIOUS
    <3> HIDE DEF z
    <3>3. QED
      BY <3>1, <3>2
  <2>3. m \in Nat /\ m # 0 /\ ~Runs(m)
    BY <2>1, <2>2
  <2>4. m - 1 \in Nat /\ m - 1 < m
    BY <2>3
  <2>5. Runs(m - 1)
    BY <2>1, <2>4
  <2>6. PICK f \in [0..(m - 1) -> S] : f[0] = a /\ \A n \in 1..(m - 1) : f[n] = G[f[n - 1]]
    BY <2>5
  <2> DEFINE g == [k \in 0..m |-> IF k = m THEN G[f[m - 1]] ELSE f[k]]
  <2>7. ASSUME NEW k \in 0..m PROVE g[k] \in S
    <3>1. f[m - 1] \in S
      BY <2>3, <2>4, <2>6
    <3>2. k # m => f[k] \in S
      BY <2>3, <2>6
    <3>3. QED
      BY <3>1, <3>2
  <2>8. g \in [0..m -> S] /\ g[0] = a
    BY <2>3, <2>6, <2>7
  <2>9. ASSUME NEW n \in 1..m PROVE g[n] = G[g[n - 1]]
    <3>1. n \in 0..m /\ n - 1 \in 0..m /\ n - 1 # m /\ (n # m => n \in 1..(m - 1))
      BY <2>3
    <3>2. g[n - 1] = f[n - 1]
      BY <3>1
    <3>3. g[n] = IF n = m THEN G[f[m - 1]] ELSE f[n]
      BY <3>1
    <3> HIDE DEF g
    <3>4. QED
      BY <2>6, <3>1, <3>2, <3>3
  <2> HIDE DEF g
  <2>10. Runs(m)
    BY <2>8, <2>9
  <2>11. QED
    BY <2>3, <2>10
<1>3. QED
  BY <1>1, <1>2

\* The rounds of PopFirst's loop, in a set S that they do not leave.
LEMMA WalkIs ==
    ASSUME NEW r, NEW S, Onward(Emptied(r, r.consume)) \in S,
           \A w \in S : Passes(w) => Onward(w) \in S
    PROVE  \E f \in [0..Units -> S] :
              /\ f[0] = Onward(Emptied(r, r.consume)) /\ Walked(r) = f[Units]
              /\ \A n \in 1..Units : f[n] = IF Passes(f[n - 1]) THEN Onward(f[n - 1]) ELSE f[n - 1]
<1> DEFINE D == 0..Units
           a == Onward([r EXCEPT !.block[r.consume].item = Null])
           G == [w \in S |-> IF Passes(w) THEN Onward(w) ELSE w]
           Turn(f) == [n \in D |-> IF n = 0 THEN a
                                   ELSE LET w == f[n - 1] IN IF Passes(w) THEN Onward(w) ELSE w]
<1>1. Walked(r) = (CHOOSE f : f = Turn(f))[Units]
  BY DEF Walked
<1>2. a = Onward(Emptied(r, r.consume)) /\ a \in S
  BY DEF Emptied
<1>3. Units \in Nat
  BY RingNumbers
<1> HIDE DEF a
<1>4. G \in [S -> S] /\ \A w \in S : G[w] = IF Passes(w) THEN Onward(w) ELSE w
  OBVIOUS
<1> HIDE DEF G
<1>5. PICK h \in [D -> S] : h[0] = a /\ \A n \in 1..Units : h[n] = G[h[n - 1]]
  <2>1. HasRounds(S, G, a, Units)
    BY <1>2, <1>3, <1>4, RingIterate
  <2>2. QED
    BY <2>1 DEF HasRounds
<1>6. ASSUME NEW n \in 1..Units
      PROVE  h[n] = IF Passes(h[n - 1]) THEN Onward(h[n - 1]) ELSE h[n - 1]
  <2>1. n - 1 \in D
    BY <1>3
  <2>2. QED
    BY <1>4, <1>5, <2>1
<1>7. h = Turn(h)
  <2>1. \A n \in D : n = 0 \/ n \in 1..Units
    BY <1>3
  <2>2. \A n \in D : h[n] = IF n = 0 THEN a ELSE IF Passes(h[n - 1]) THEN Onward(h[n - 1]) ELSE h[n - 1]
    BY <1>5, <1>6, <2>1
  <2>3. h = [n \in D |-> h[n]]
    BY <1>5
  <2> HIDE DEF D
  <2>4. QED
    BY <2>2, <2>3
<1>8. ASSUME NEW f, f = Turn(f)
      PROVE  f = h
  <2> DEFINE T == {k \in D : f[k] # h[k]}
  <2>1. /\ f = [k \in D |-> f[k]] /\ h = [k \in D |-> h[k]]
        /\ \A k \in D : f[k] = IF k = 0 THEN a
                               ELSE IF Passes(f[k - 1]) THEN Onward(f[k - 1]) ELSE f[k - 1]
    BY <1>5, <1>8
  <2>2. CASE T = {}
    BY <2>1, <2>2
  <2>3. CASE T # {}
    <3>1. T \in SUBSET Nat
      BY <1>3
    <3>2. PICK m \in T : \A n \in T : ~(n < m)
      BY <2>3, <3>1, LeastNumber
    <3>3. m \in D /\ m # 0 /\ f[m] # h[m]
      BY <1>3, <1>5, <2>1, <3>2
    <3>4. m \in 1..Units /\ m - 1 \in D /\ m - 1 < m
      BY <1>3, <3>3
    <3>5. f[m - 1] = h[m - 1]
      BY <3>2, <3>4
    <3>6. f[m] = h[m]
      BY <1>6, <2>1, <3>3, <3>4, <3>5
    <3>7. QED
      BY <3>3, <3>6
  <2>4. QED
    BY <2>2, <2>3
<1> HIDE DEF Turn
<1>9. (CHOOSE f : f = Turn(f)) = h
  BY <1>7, <1>8
<1>10. QED
  BY <1>1, <1>2, <1>5, <1>6, <1>9

\* The pops of Allocate, in a set S that they do not leave.
Recycles(x, S) ==
    \E f \in [0..Units -> S] :
       /\ f[0] = [ring |-> ring, popped |-> <<>>] /\ Recycled(x) = f[Units]
       /\ \A n \in 1..Units :
             f[n] = IF Place(f[n - 1].ring, x) # Null \/ Empty(f[n - 1].ring)
                    THEN f[n - 1] ELSE PopOne(f[n - 1])

LEMMA RecycledIs ==
    ASSUME NEW x, NEW S, [ring |-> ring, popped |-> <<>>] \in S,
           \A p \in S : Place(p.ring, x) = Null /\ ~Empty(p.ring) => PopOne(p) \in S
    PROVE  Recycles(x, S)
<1> DEFINE D == 0..Units
           a == [ring |-> ring, popped |-> <<>>]
           Stop(p) == Place(p.ring, x) # Null \/ Empty(p.ring)
           G == [p \in S |-> IF Stop(p) THEN p ELSE PopOne(p)]
           Turn(f) == [n \in D |-> IF n = 0 THEN a
                                   ELSE LET p == f[n - 1] IN IF Stop(p) THEN p ELSE PopOne(p)]
<1>1. Recycled(x) = (CHOOSE f : f = Turn(f))[Units]
  BY DEF Recycled
<1>2. a \in S
  OBVIOUS
<1>3. Units \in Nat
  BY RingNumbers
<1>4. G \in [S -> S] /\ \A p \in S : G[p] = IF Stop(p) THEN p ELSE PopOne(p)
  OBVIOUS
<1>5. a = [ring |-> ring, popped |-> <<>>]
      /\ \A p : Stop(p) <=> Place(p.ring, x) # Null \/ Empty(p.ring)
  OBVIOUS
<1> HIDE DEF a, G, Stop
<1>6. PICK h \in [D -> S] : h[0] = a /\ \A n \in 1..Units : h[n] = G[h[n - 1]]
  <2>1. HasRounds(S, G, a, Units)
    BY <1>2, <1>3, <1>4, RingIterate
  <2>2. QED
    BY <2>1 DEF HasRounds
<1>7. ASSUME NEW n \in 1..Units
      PROVE  h[n] = IF Stop(h[n - 1]) THEN h[n - 1] ELSE PopOne(h[n - 1])
  <2>1. n - 1 \in D
    BY <1>3
  <2>2. QED
    BY <1>4, <1>6, <2>1
<1>8. h = Turn(h)
  <2>1. \A n \in D : n = 0 \/ n \in 1..Units
    BY <1>3
  <2>2. \A n \in D : h[n] = IF n = 0 THEN a ELSE IF Stop(h[n - 1]) THEN h[n - 1] ELSE PopOne(h[n - 1])
    BY <1>6, <1>7, <2>1
  <2>3. h = [n \in D |-> h[n]]
    BY <1>6
  <2> HIDE DEF D
  <2>4. QED
    BY <2>2, <2>3
<1>9. ASSUME NEW f, f = Turn(f)
      PROVE  f = h
  <2> DEFINE T == {k \in D : f[k] # h[k]}
  <2>1. /\ f = [k \in D |-> f[k]] /\ h = [k \in D |-> h[k]]
        /\ \A k \in D : f[k] = IF k = 0 THEN a
                               ELSE IF Stop(f[k - 1]) THEN f[k - 1] ELSE PopOne(f[k - 1])
    BY <1>6, <1>9
  <2>2. CASE T = {}
    BY <2>1, <2>2
  <2>3. CASE T # {}
    <3>1. T \in SUBSET Nat
      BY <1>3
    <3>2. PICK m \in T : \A n \in T : ~(n < m)
      BY <2>3, <3>1, LeastNumber
    <3>3. m \in D /\ m # 0 /\ f[m] # h[m]
      BY <1>3, <1>6, <2>1, <3>2
    <3>4. m \in 1..Units /\ m - 1 \in D /\ m - 1 < m
      BY <1>3, <3>3
    <3>5. f[m - 1] = h[m - 1]
      BY <3>2, <3>4
    <3>6. f[m] = h[m]
      BY <1>7, <2>1, <3>3, <3>4, <3>5
    <3>7. QED
      BY <3>3, <3>6
  <2>4. QED
    BY <2>2, <2>3
<1> HIDE DEF Turn
<1>10. (CHOOSE f : f = Turn(f)) = h
  BY <1>8, <1>9
<1>11. ASSUME NEW n \in 1..Units
       PROVE  h[n] = IF Place(h[n - 1].ring, x) # Null \/ Empty(h[n - 1].ring)
                     THEN h[n - 1] ELSE PopOne(h[n - 1])
  BY <1>5, <1>7
<1>12. h \in [0..Units -> S] /\ h[0] = [ring |-> ring, popped |-> <<>>] /\ Recycled(x) = h[Units]
  BY <1>1, <1>5, <1>6, <1>10
<1>13. QED
  BY <1>11, <1>12 DEF Recycles

-----------------------------------------------------------------------------
(* RingBuffer: PopFirst.                                                   *)

\* m_pConsume goes on from b to the next block; q is the block b is joined into.
OnTo(r, b, q, o) ==
    /\ Shape(o) /\ q \in On(o)
    /\ On(o) = IF Joins(r, b) THEN On(r) \ {b} ELSE On(r)
    /\ NextBlock(o, q) = NextBlock(r, b)
    /\ \A a \in On(o) : /\ a # q => NextBlock(o, a) = NextBlock(r, a)
                        /\ o.block[a].item = r.block[a].item
                        /\ Joins(o, a) => Joins(r, a) /\ a # b
    /\ o.consume = NextBlock(r, b)
    /\ o.produce = IF r.produce = b THEN q ELSE r.produce

LEMMA OnwardIs ==
    ASSUME NEW r, Shape(r)
    PROVE  OnTo(r, r.consume,
                IF Joins(r, r.consume) THEN PrevBlock(r, r.consume) ELSE r.consume, Onward(r))
<1> DEFINE b == r.consume
           q == IF Joins(r, b) THEN PrevBlock(r, b) ELSE b
           m == Merge(r, b)
           o == Onward(r)
<1>1. b \in On(r) /\ r \in Rings
  BY DEF Shape
<1>2. Shape(m) /\ \A c \in On(m) : c \in On(r) /\ (Joins(m, c) => Joins(r, c) /\ c # b)
  BY <1>1, MergeShape
<1>3. /\ q \in On(m) /\ m.consume = q
      /\ On(m) = IF Joins(r, b) THEN On(r) \ {b} ELSE On(r)
      /\ NextBlock(m, q) = NextBlock(r, b)
      /\ \A a \in On(m) : /\ a # q => NextBlock(m, a) = NextBlock(r, a)
                          /\ m.block[a].item = r.block[a].item
      /\ m.produce = IF r.produce = b THEN q ELSE r.produce
  <2>1. CASE Joins(r, b)
    <3>1. /\ q \in On(r) /\ q # b /\ Free(r, q) /\ On(m) = On(r) \ {b}
          /\ \A a \in On(m) :
                /\ NextBlock(m, a) = IF a = q THEN NextBlock(r, b) ELSE NextBlock(r, a)
                /\ m.block[a].item = r.block[a].item
          /\ m.produce = IF r.produce = b THEN q ELSE r.produce
          /\ m.consume = IF r.consume = b THEN q ELSE r.consume
      BY <1>1, <2>1, MergeNext
    <3> HIDE DEF m, q
    <3>2. QED
      BY <2>1, <3>1
  <2>2. CASE ~Joins(r, b)
    <3>1. m = r /\ q = b
      BY <2>2 DEF Merge
    <3>2. QED
      BY <1>1, <2>2, <3>1
  <2>3. QED
    BY <2>1, <2>2
<1> DEFINE k == NextBlock(m, m.consume)
<1>4. o = [m EXCEPT !.consume = k]
  BY <1>2 DEF Onward, Shape, Rings
<1>5. k = NextBlock(r, b) /\ k \in On(m)
  BY <1>2, <1>3, NextIs
<1> HIDE DEF m, o, q, k, b
<1>6. m \in Rings
  BY <1>2 DEF Shape
<1>7. /\ o.block = m.block /\ o.consume = k /\ o.produce = m.produce /\ o.last = m.last
      /\ o \in Rings
  <2>1. k \in Address
    BY <1>5 DEF On
  <2>2. QED
    BY <1>4, <1>6, <2>1 DEF Rings
<1>8. On(o) = On(m) /\ m.produce \in On(m)
  BY <1>2, <1>7 DEF On, Shape
<1>9. SameBlocks(m, o)
  BY <1>5, <1>7, <1>8 DEF SameBlocks
<1>10. Shape(o)
  <2>1. \A a \in On(m) : Roomy(o, a)
    BY <1>2, <1>7 DEF Shape, Roomy, Free
  <2>2. QED
    BY <1>2, <1>9, <2>1, SameShape
<1>11. \A a \in On(o) : NextBlock(o, a) = NextBlock(m, a) /\ (Joins(o, a) => Joins(m, a))
  BY <1>7 DEF NextBlock, Joins, Free
<1>12. OnTo(r, b, q, o)
  BY <1>2, <1>3, <1>5, <1>7, <1>8, <1>10, <1>11 DEF OnTo
<1>13. QED
  BY <1>12 DEF b, q, o

LEMMA EmptiedIs ==
    ASSUME NEW r, Shape(r), NoPair(r), NEW e, e = Emptied(r, r.consume)
    PROVE  /\ Shape(e) /\ SameBlocks(r, e) /\ e.produce = r.produce /\ e.consume = r.consume
           /\ \A a \in On(r) : e.block[a].item = IF a = r.consume THEN Null ELSE r.block[a].item
           /\ \A a \in On(r) : NextBlock(e, a) = NextBlock(r, a) /\ PrevBlock(e, a) = PrevBlock(r, a)
           /\ \A a \in On(e) : Joins(e, a) => a = e.consume \/ a = NextBlock(e, e.consume)
<1>1. r.consume \in On(r)
  BY DEF Shape
<1>2. /\ Shape(e) /\ SameBlocks(r, e) /\ e.produce = r.produce /\ e.consume = r.consume
      /\ \A a \in On(r) : e.block[a].item = IF a = r.consume THEN Null ELSE r.block[a].item
  BY <1>1, ItemFreed
<1>3. \A a \in On(r) : NextBlock(e, a) = NextBlock(r, a) /\ PrevBlock(e, a) = PrevBlock(r, a)
  BY <1>2 DEF SameBlocks, NextBlock, PrevBlock
<1>4. On(e) = On(r)
  BY <1>2 DEF SameBlocks
<1>5. ASSUME NEW a \in On(e), Joins(e, a), a # e.consume
      PROVE  a = NextBlock(e, e.consume)
  <2>1. Free(e, a) /\ a # First /\ Free(e, PrevBlock(e, a)) /\ PrevBlock(e, a) \in On(e)
        /\ NextBlock(e, PrevBlock(e, a)) = a
    BY <1>2, <1>5, JoinsIs, RoundIs
  <2>2. CASE PrevBlock(e, a) = e.consume
    BY <2>1, <2>2
  <2>3. CASE PrevBlock(e, a) # e.consume
    <3>1. Free(r, a) /\ Free(r, PrevBlock(r, a))
      BY <1>2, <1>3, <1>4, <1>5, <2>1, <2>3 DEF Free
    <3>2. Joins(r, a)
      BY <1>4, <2>1, <3>1, JoinsIs
    <3>3. QED
      BY <1>4, <3>2 DEF NoPair
  <2>4. QED
    BY <2>2, <2>3
<1>6. QED
  BY <1>2, <1>3, <1>5

\* A pop leaves blocks that tile the memory, no two free ones side by side.
LEMMA PoppedShape ==
    ASSUME NEW r, Shape(r), NoPair(r)
    PROVE  Shape(Popped(r)) /\ NoPair(Popped(r))
<1> DEFINE e == Emptied(r, r.consume)
           Near(w) == \A a \in On(w) : Joins(w, a) => a = w.consume
           S == {w \in Rings : Shape(w) /\ Near(w)}
           Pre(w) == \A a \in On(w) : Joins(w, a) => a = w.consume \/ a = NextBlock(w, w.consume)
<1>1. Shape(e) /\ Pre(e)
  BY EmptiedIs
<1> HIDE DEF e
<1>2. ASSUME NEW w, Shape(w), Pre(w)
      PROVE  Onward(w) \in S
  <2> DEFINE o == Onward(w)
  <2>1. PICK q : OnTo(w, w.consume, q, o)
    BY <1>2, OnwardIs
  <2> HIDE DEF o
  <2>2. Shape(o) /\ o.consume = NextBlock(w, w.consume)
    BY <2>1 DEF OnTo
  <2>3. \A a \in On(o) : Joins(o, a) => a \in On(w) /\ Joins(w, a) /\ a # w.consume
    BY <2>1 DEF OnTo
  <2>4. Near(o)
    BY <1>2, <2>2, <2>3
  <2>5. o \in Rings
    BY <2>2 DEF Shape
  <2>6. QED
    BY <2>2, <2>4, <2>5 DEF o
<1>3. Onward(e) \in S
  BY <1>1, <1>2
<1>4. \A w \in S : Pre(w)
  OBVIOUS
<1>5. \A w \in S : Onward(w) \in S
  BY <1>2, <1>4
<1>6. Walked(r) \in S
  <2>1. Units \in 0..Units
    BY RingNumbers
  <2> HIDE DEF S
  <2>2. PICK f \in [0..Units -> S] : Walked(r) = f[Units]
    BY <1>3, <1>5, WalkIs DEF e
  <2>3. QED
    BY <2>1, <2>2
<1> DEFINE w == Walked(r)
           m == Merge(w, w.consume)
<1>7. Shape(w) /\ Near(w) /\ w.consume \in On(w)
  BY <1>6 DEF Shape
<1> HIDE DEF w
<1>8. Shape(m) /\ \A c \in On(m) : c \in On(w) /\ (Joins(m, c) => Joins(w, c) /\ c # w.consume)
  BY <1>7, MergeShape
<1>9. NoPair(m)
  BY <1>7, <1>8 DEF NoPair
<1>10. QED
  BY <1>8, <1>9 DEF Popped, w

\* Place gives a free block that is big enough.
LEMMA PlaceIs ==
    ASSUME NEW r, Shape(r), NEW x, Place(r, x) # Null
    PROVE  Place(r, x) \in On(r) /\ Big(r, Place(r, x), x)
BY DEF Place, Shape

LEMMA RecycledShape ==
    ASSUME Shape(ring), NoPair(ring), NEW x
    PROVE  Shape(Recycled(x).ring) /\ NoPair(Recycled(x).ring)
<1> DEFINE Records == [ring : Rings, popped : Seq(Items \cup {Null})]
           S == {p \in Records : Shape(p.ring) /\ NoPair(p.ring)}
<1>1. ring \in Rings
  BY DEF Shape
<1>2. [ring |-> ring, popped |-> <<>>] \in S
  <2>1. <<>> \in Seq(Items \cup {Null})
    OBVIOUS
  <2>2. [ring |-> ring, popped |-> <<>>] \in Records
    BY <1>1, <2>1
  <2>3. QED
    BY <2>2
<1>3. ASSUME NEW p \in S PROVE PopOne(p) \in S
  <2>1. Shape(p.ring) /\ NoPair(p.ring) /\ p.popped \in Seq(Items \cup {Null})
    OBVIOUS
  <2>2. Shape(Popped(p.ring)) /\ NoPair(Popped(p.ring))
    BY <2>1, PoppedShape
  <2>3. Popped(p.ring) \in Rings
    BY <2>2 DEF Shape
  <2>4. p.ring.block[p.ring.consume].item \in Items \cup {Null}
    BY <2>1, BlockOf DEF Shape
  <2> DEFINE y == p.ring.block[p.ring.consume].item
             v == Append(p.popped, y)
  <2> HIDE DEF y
  <2>5. v \in Seq(Items \cup {Null})
    BY <2>1, <2>4 DEF y
  <2> HIDE DEF v
  <2>6. PopOne(p) = [ring |-> Popped(p.ring), popped |-> v]
    BY DEF PopOne, y, v
  <2>7. PopOne(p) \in Records
    BY <2>3, <2>5, <2>6
  <2>8. QED
    BY <2>2, <2>6, <2>7
<1>4. \A p \in S : Shape(p.ring) /\ NoPair(p.ring)
  OBVIOUS
<1> HIDE DEF S
<1>5. PICK f \in [0..Units -> S] : Recycled(x) = f[Units]
  <2>1. Recycles(x, S)
    BY <1>2, <1>3, RecycledIs
  <2>2. QED
    BY <2>1 DEF Recycles
<1>6. Units \in 0..Units
  BY RingNumbers
<1>7. QED
  BY <1>4, <1>5, <1>6

-----------------------------------------------------------------------------
(* RingBuffer: the blocks always tile the memory.                          *)

RingShape == Shape(ring) /\ NoPair(ring)

LEMMA ClearedShape ==
    /\ Shape(Cleared) /\ NoPair(Cleared) /\ On(Cleared) = {First}
    /\ Cleared.block[First].item = Null
<1> DEFINE C == Cleared
           one == [prev |-> Null, next |-> Null, size |-> Units, item |-> Null]
<1>1. one \in Block
  BY RingNumbers DEF Block
<1>2. /\ C.block[First] = one /\ C.produce = First /\ C.consume = First /\ C.last = First
      /\ \A a \in Address : a # First => C.block[a] = Null
      /\ C.block \in [Address -> Block \cup {Null}]
      /\ C \in Rings
  BY <1>1, RingNumbers DEF Cleared, Rings
<1>3. On(C) = {First}
  BY <1>1, <1>2, RingNumbers DEF On
<1>4. /\ C.block[First].prev = Null /\ C.block[First].next = Null
      /\ C.block[First].size = Units /\ C.block[First].item = Null
  BY <1>2
<1> HIDE DEF C
<1>5. Apart(C)
  BY <1>3 DEF Apart, First
<1>6. Linked(C, First)
  BY <1>2, <1>4, RingNumbers DEF Linked, First
<1>7. BackLinked(C, First) /\ Roomy(C, First)
  BY <1>4 DEF BackLinked, Roomy, Free
<1>8. Shape(C) /\ NoPair(C)
  BY <1>2, <1>3, <1>4, <1>5, <1>6, <1>7 DEF Shape, NoPair, Joins
<1>9. QED
  BY <1>3, <1>4, <1>8 DEF C

LEMMA AllocateShape ==
    ASSUME RingShape, NEW x \in Items, Allocate(x)
    PROVE  RingShape'
<1>1. CASE UNCHANGED ring
  BY <1>1 DEF RingShape, Shape, NoPair, Rings, On, Linked, BackLinked, Roomy, Apart, Joins, Free
<1> DEFINE p == Recycled(x).ring
           b == Place(p, x)
<1>2. CASE ring' = IF b = Null THEN p ELSE Stored(p, b, x)
  <2>1. Shape(p) /\ NoPair(p)
    BY RecycledShape DEF RingShape
  <2> HIDE DEF p
  <2>2. b # Null => b \in On(p) /\ Big(p, b, x)
    BY <2>1, PlaceIs
  <2> HIDE DEF b
  <2>3. b # Null => Shape(Stored(p, b, x)) /\ NoPair(Stored(p, b, x))
    BY <2>1, <2>2, StoredIs
  <2>4. \E r : r = ring' /\ Shape(r) /\ NoPair(r)
    BY <1>2, <2>1, <2>3
  <2>5. QED
    BY <2>4 DEF RingShape, Shape, NoPair, Rings, On, Linked, BackLinked, Roomy, Apart, Joins, Free
<1>3. QED
  BY <1>1, <1>2 DEF Allocate, Refused

LEMMA PopFirstShape ==
    ASSUME RingShape, PopFirst
    PROVE  RingShape'
<1>1. CASE UNCHANGED ring
  BY <1>1 DEF RingShape, Shape, NoPair, Rings, On, Linked, BackLinked, Roomy, Apart, Joins, Free
<1>2. CASE ring' = Popped(ring)
  <2>1. Shape(Popped(ring)) /\ NoPair(Popped(ring))
    BY PoppedShape DEF RingShape
  <2>2. \E r : r = ring' /\ Shape(r) /\ NoPair(r)
    BY <1>2, <2>1
  <2>3. QED
    BY <2>2 DEF RingShape, Shape, NoPair, Rings, On, Linked, BackLinked, Roomy, Apart, Joins, Free
<1>3. QED
  BY <1>1, <1>2 DEF PopFirst, Refused, PopOne

THEOREM RingShapeInvariance == RingSpec => []RingShape
<1>1. RingInit => RingShape
  BY ClearedShape DEF RingInit, RingShape
<1>2. RingShape /\ [RingNext]_ringVars => RingShape'
  <2> SUFFICES ASSUME RingShape, [RingNext]_ringVars PROVE RingShape'
    OBVIOUS
  <2>1. ASSUME NEW x \in Items, Allocate(x) PROVE RingShape'
    BY <2>1, AllocateShape
  <2>2. CASE PopFirst
    BY <2>2, PopFirstShape
  <2>3. CASE Clear
    <3>1. \E r : r = ring' /\ Shape(r) /\ NoPair(r)
      BY <2>3, ClearedShape DEF Clear
    <3>2. QED
      BY <3>1 DEF RingShape, Shape, NoPair, Rings, On, Linked, BackLinked, Roomy, Apart, Joins, Free
  <2>4. CASE UNCHANGED ringVars
    BY <2>4 DEF ringVars, RingShape, Shape, NoPair, Rings, On, Linked, BackLinked, Roomy, Apart, Joins, Free
  <2>5. QED
    BY <2>1, <2>2, <2>3, <2>4 DEF RingNext
<1>3. QED
  BY <1>1, <1>2, PTL DEF RingSpec

\* A buffer without items is one free block.
LEMMA NoneHeld ==
    ASSUME NEW r, Shape(r), NoPair(r), \A b \in On(r) : Free(r, b)
    PROVE  r = Cleared /\ On(r) = {First}
<1>1. r \in Rings /\ {First, r.produce, r.consume, r.last} \subseteq On(r) /\ r.block[r.last].next = Null
      /\ Linked(r, First) /\ BackLinked(r, First)
  BY DEF Shape
<1>2. ASSUME NEW b \in On(r), b # First PROVE FALSE
  <2>1. PrevBlock(r, b) \in On(r)
    BY RoundIs
  <2>2. Joins(r, b)
    BY <1>2, <2>1, JoinsIs
  <2>3. QED
    BY <2>2 DEF NoPair
<1>3. On(r) = {First}
  BY <1>1, <1>2
<1>4. r.produce = First /\ r.consume = First /\ r.last = First
  BY <1>1, <1>3
<1>5. /\ r.block[First] \in Block /\ r.block[First].prev = Null /\ r.block[First].next = Null
      /\ r.block[First].item = Null /\ r.block[First].size = Units
  <2>1. r.block[First] \in Block /\ r.block[First].size \in 1..Units
    BY <1>1, BlockOf
  <2>2. First + r.block[First].size = Units
    BY <1>1, <1>4 DEF Linked
  <2>3. r.block[First].size = Units
    BY <2>1, <2>2, RingNumbers DEF First
  <2>4. QED
    BY <1>1, <1>4, <2>1, <2>3 DEF BackLinked, Free
<1>6. r.block[First] = [prev |-> Null, next |-> Null, size |-> Units, item |-> Null]
  BY <1>5 DEF Block
<1>7. \A b \in Address : b # First => r.block[b] = Null
  BY <1>3 DEF On
<1>8. r.block = Cleared.block
  BY <1>1, <1>6, <1>7 DEF Cleared, Rings
<1>9. r = Cleared
  BY <1>1, <1>4, <1>8 DEF Cleared, Rings
<1>10. QED
  BY <1>3, <1>9

\* The blocks always cover the memory in the order of their links, the items
\* fit in theirs, and an empty buffer is one block.
THEOREM AlwaysTiles == RingSpec => []Tiles
<1>1. RingShape => Tiles
  <2> SUFFICES ASSUME RingShape PROVE Tiles
    OBVIOUS
  <2>1. Shape(ring) /\ NoPair(ring) /\ ring \in Rings /\ Blocks = On(ring)
    BY DEF RingShape, Shape, Blocks, On
  <2>2. ring \in [block : [Address -> Block \cup {Null}], produce : Blocks,
                  consume : Blocks, last : Blocks]
    BY <2>1 DEF Rings, Shape
  <2>3. First \in Blocks /\ ring.block[First].prev = Null
    BY <2>1 DEF Shape, BackLinked
  <2>4. \A b \in Blocks : Linked(ring, b) /\ Roomy(ring, b)
    BY <2>1 DEF Shape
  <2>5. ASSUME Holds = {} PROVE ring = Cleared
    <3>1. \A b \in On(ring) : Free(ring, b)
      BY <2>1, <2>5 DEF Holds
    <3>2. QED
      BY <2>1, <3>1, NoneHeld
  <2>6. QED
    BY <2>1, <2>2, <2>3, <2>4, <2>5 DEF Tiles, Linked, Roomy
<1>2. QED
  BY <1>1, RingShapeInvariance, PTL

-----------------------------------------------------------------------------
(* RingBuffer: the items as a sequence of blocks.                          *)

\* Block c comes after block b, perhaps past a free block at the end of the
\* memory that was too small for the item of c.
Follows(r, b, c) ==
    LET k == NextBlock(r, b)
    IN  k = c \/ (Free(r, k) /\ c = First /\ NextBlock(r, k) = First)

\* The blocks in use are those of v, in this order, m_pProduce after the last.
Trail(r, v) ==
    /\ v \in Seq(On(r))
    /\ \A i, j \in 1..Len(v) : v[i] = v[j] => i = j
    /\ \A b \in On(r) : ~Free(r, b) <=> \E i \in 1..Len(v) : v[i] = b
    /\ v # <<>> => r.produce = NextBlock(r, v[Len(v)])
    /\ \A i \in 1..Len(v) - 1 : Follows(r, v[i], v[i + 1])

Queue(r, v) == Trail(r, v) /\ (v # <<>> => r.consume = v[1])

LEMMA TrailIs ==
    ASSUME NEW r, NEW v, Trail(r, v)
    PROVE  /\ Len(v) \in Nat /\ \A i \in 1..Len(v) : v[i] \in On(r) /\ ~Free(r, v[i])
           /\ v # <<>> <=> Len(v) >= 1
           /\ v # <<>> => Len(v) \in 1..Len(v)
BY DEF Trail

\* A free block that m_pConsume leaves changes nothing of that.
LEMMA TrailOn ==
    ASSUME NEW r, Shape(r), NEW v, Trail(r, v), Free(r, r.consume)
    PROVE  /\ Trail(Onward(r), v)
           /\ \A i \in 1..Len(v) : Onward(r).block[v[i]].item = r.block[v[i]].item
<1> DEFINE c == r.consume
           q == IF Joins(r, c) THEN PrevBlock(r, c) ELSE c
           o == Onward(r)
           L == Len(v)
<1>1. OnTo(r, c, q, o)
  BY OnwardIs
<1>2. c \in On(r) /\ Free(r, c)
  BY DEF Shape
<1>3. q \in On(r) /\ Free(r, q) /\ (q # c => NextBlock(r, q) = c /\ Joins(r, c))
  <2>1. Joins(r, c) => PrevBlock(r, c) \in On(r) /\ NextBlock(r, PrevBlock(r, c)) = c /\ Free(r, PrevBlock(r, c))
    BY <1>2, RoundIs, JoinsIs
  <2>2. QED
    BY <1>2, <2>1
<1>4. q = c => ~Joins(r, c)
  BY <1>1 DEF OnTo
<1> HIDE DEF o, q
<1>5. /\ Shape(o) /\ q \in On(o)
      /\ On(o) = IF Joins(r, c) THEN On(r) \ {c} ELSE On(r)
      /\ NextBlock(o, q) = NextBlock(r, c)
      /\ \A a \in On(o) : /\ a # q => NextBlock(o, a) = NextBlock(r, a)
                          /\ o.block[a].item = r.block[a].item
      /\ o.produce = IF r.produce = c THEN q ELSE r.produce
  BY <1>1 DEF OnTo
<1> HIDE DEF c
<1>6. L \in Nat /\ \A i \in 1..L : v[i] \in On(r) /\ ~Free(r, v[i])
  BY TrailIs
<1>7. \A i \in 1..L : v[i] \in On(o) /\ v[i] # q /\ v[i] # c /\ ~Free(o, v[i])
                      /\ NextBlock(o, v[i]) = NextBlock(r, v[i])
  <2> SUFFICES ASSUME NEW i \in 1..L
               PROVE  v[i] \in On(o) /\ v[i] # q /\ v[i] # c /\ ~Free(o, v[i])
                      /\ NextBlock(o, v[i]) = NextBlock(r, v[i])
    OBVIOUS
  <2>1. v[i] \in On(r) /\ ~Free(r, v[i])
    BY <1>6
  <2>2. v[i] # q /\ v[i] # c
    BY <1>2, <1>3, <2>1
  <2>3. v[i] \in On(o)
    BY <1>5, <2>1, <2>2
  <2>4. QED
    BY <1>5, <2>1, <2>2, <2>3 DEF Free
<1>8. v \in Seq(On(o))
  <2>1. v \in Seq(On(r))
    BY DEF Trail
  <2>2. \A i \in 1..Len(v) : v[i] \in On(o)
    BY <1>7
  <2>3. QED
    BY <2>1, <2>2
<1>9. \A b \in On(o) : ~Free(o, b) <=> \E i \in 1..L : v[i] = b
  <2> SUFFICES ASSUME NEW b \in On(o)
               PROVE  ~Free(o, b) <=> \E i \in 1..L : v[i] = b
    OBVIOUS
  <2>1. b \in On(r) /\ (Free(o, b) <=> Free(r, b))
    BY <1>5 DEF Free
  <2>2. QED
    BY <2>1 DEF Trail
<1>10. v # <<>> => o.produce = NextBlock(o, v[L])
  <2> SUFFICES ASSUME v # <<>> PROVE o.produce = NextBlock(o, v[L])
    OBVIOUS
  <2>1. L \in 1..L /\ r.produce = NextBlock(r, v[L])
    BY TrailIs DEF Trail
  <2>2. NextBlock(o, v[L]) = r.produce
    BY <1>7, <2>1
  <2>3. r.produce = c => q = c
    <3> SUFFICES ASSUME r.produce = c, q # c PROVE FALSE
      OBVIOUS
    <3>1. Free(r, PrevBlock(r, c))
      BY <1>2, <1>3, JoinsIs
    <3>2. PrevBlock(r, c) = v[L]
      BY <1>6, <2>1, RoundIs
    <3>3. QED
      BY <1>6, <2>1, <3>1, <3>2
  <2>4. QED
    BY <1>5, <2>2, <2>3
<1>11. ASSUME NEW i \in 1..L - 1 PROVE Follows(o, v[i], v[i + 1])
  <2> DEFINE k == NextBlock(r, v[i])
  <2>1. i \in 1..L /\ i + 1 \in 1..L
    BY <1>6
  <2>2. NextBlock(o, v[i]) = k /\ k \in On(o)
    BY <1>5, <1>7, <2>1, NextIs
  <2>3. Follows(r, v[i], v[i + 1])
    BY DEF Trail
  <2>4. CASE k = v[i + 1]
    BY <2>2, <2>4 DEF Follows
  <2>5. CASE Free(r, k) /\ v[i + 1] = First /\ NextBlock(r, k) = First
    <3>1. Free(o, k)
      BY <1>5, <2>2, <2>5 DEF Free
    <3>2. First # c
      BY <1>7, <2>1, <2>5
    <3>3. NextBlock(o, k) = First
      <4>1. CASE k # q
        BY <1>5, <2>2, <2>5, <4>1
      <4>2. CASE k = q
        <5>1. q = c
          BY <1>3, <2>5, <3>2, <4>2
        <5>2. QED
          BY <1>5, <2>5, <4>2, <5>1
      <4>3. QED
        BY <4>1, <4>2
    <3> HIDE DEF k
    <3>4. QED
      BY <2>2, <2>5, <3>1, <3>3 DEF Follows
  <2>6. QED
    BY <2>3, <2>4, <2>5 DEF Follows
<1>12. Trail(o, v)
  BY <1>8, <1>9, <1>10, <1>11 DEF Trail
<1>13. \A i \in 1..L : o.block[v[i]].item = r.block[v[i]].item
  BY <1>5, <1>7
<1>14. QED
  BY <1>12, <1>13 DEF o

\* The loop of PopFirst ends after two blocks.
LEMMA WalkedIs ==
    ASSUME NEW r, NEW s, s = Onward(Emptied(r, r.consume)),
           NEW t, t = IF Passes(s) THEN Onward(s) ELSE s, ~Passes(t)
    PROVE  Walked(r) = t
<1> DEFINE S == {s, t}
<1>1. PICK f \in [0..Units -> S] :
              /\ f[0] = Onward(Emptied(r, r.consume)) /\ Walked(r) = f[Units]
              /\ \A n \in 1..Units : f[n] = IF Passes(f[n - 1]) THEN Onward(f[n - 1]) ELSE f[n - 1]
  <2>1. Onward(Emptied(r, r.consume)) \in S
    OBVIOUS
  <2>2. \A u \in S : Passes(u) => Onward(u) \in S
    OBVIOUS
  <2> HIDE DEF S
  <2>3. QED
    BY <2>1, <2>2, WalkIs
<1>2. Units \in Nat \ {0}
  BY RingNumbers
<1> DEFINE T == {n \in 1..Units : f[n] # t}
<1>3. T = {}
  <2> SUFFICES ASSUME T # {} PROVE FALSE
    OBVIOUS
  <2>1. T \in SUBSET Nat
    OBVIOUS
  <2>2. PICK m \in T : \A n \in T : ~(n < m)
    BY <2>1, LeastNumber
  <2>3. m \in 1..Units /\ f[m] # t
    OBVIOUS
  <2>4. CASE m = 1
    BY <1>1, <1>2, <2>3, <2>4
  <2>5. CASE m # 1
    <3>1. m - 1 \in 1..Units /\ m - 1 < m
      BY <1>2, <2>3, <2>5
    <3>2. f[m - 1] = t
      BY <2>2, <3>1
    <3>3. QED
      BY <1>1, <2>3, <3>2
  <2>6. QED
    BY <2>4, <2>5
<1>4. QED
  BY <1>1, <1>2, <1>3

LEMMA QueueNone ==
    ASSUME NEW r, \A a \in On(r) : Free(r, a)
    PROVE  Queue(r, <<>>)
<1>1. <<>> \in Seq(On(r)) /\ Len(<<>>) = 0
  OBVIOUS
<1>2. QED
  BY <1>1 DEF Queue, Trail

\* A pop takes the first item and leaves the others as they are.
LEMMA PoppedIs ==
    ASSUME NEW r, Shape(r), NoPair(r), NEW w, Queue(r, w), w # <<>>
    PROVE  /\ Queue(Popped(r), Tail(w))
           /\ \A i \in 2..Len(w) : Popped(r).block[w[i]].item = r.block[w[i]].item
<1> DEFINE c == r.consume
           e == Emptied(r, c)
           s == Onward(e)
           t == IF Passes(s) THEN Onward(s) ELSE s
           v == Tail(w)
           L == Len(w)
           q == IF Joins(e, e.consume) THEN PrevBlock(e, e.consume) ELSE e.consume
<1>1. /\ L \in Nat /\ L >= 1 /\ c = w[1] /\ \A i \in 1..L : w[i] \in On(r) /\ ~Free(r, w[i])
      /\ \A i, j \in 1..L : w[i] = w[j] => i = j
      /\ r.produce = NextBlock(r, w[L])
      /\ \A b \in On(r) : ~Free(r, b) <=> \E i \in 1..L : w[i] = b
      /\ \A i \in 1..L - 1 : Follows(r, w[i], w[i + 1])
  BY TrailIs DEF Queue, Trail
<1>2. v \in Seq(On(r)) /\ Len(v) = L - 1 /\ \A i \in 1..L - 1 : v[i] = w[i + 1]
  BY <1>1 DEF Queue, Trail
<1>3. /\ Shape(e) /\ SameBlocks(r, e) /\ e.produce = r.produce /\ e.consume = c
      /\ \A a \in On(r) : e.block[a].item = IF a = c THEN Null ELSE r.block[a].item
      /\ \A a \in On(r) : NextBlock(e, a) = NextBlock(r, a) /\ PrevBlock(e, a) = PrevBlock(r, a)
  BY EmptiedIs
<1>4. OnTo(e, e.consume, q, s)
  BY <1>3, OnwardIs
<1> HIDE DEF e, v
<1>5. c \in On(r) /\ On(e) = On(r) /\ Free(e, c)
  BY <1>3 DEF Shape, SameBlocks, Free
<1>6. Trail(e, v)
  <2>1. v \in Seq(On(e))
    BY <1>2, <1>5
  <2>2. \A i, j \in 1..Len(v) : v[i] = v[j] => i = j
    <3> SUFFICES ASSUME NEW i \in 1..L - 1, NEW j \in 1..L - 1, v[i] = v[j] PROVE i = j
      BY <1>2
    <3>1. i + 1 \in 1..L /\ j + 1 \in 1..L
      BY <1>1
    <3>2. i + 1 = j + 1
      BY <1>1, <1>2, <3>1
    <3>3. QED
      BY <3>2
  <2>3. ASSUME NEW b \in On(e) PROVE ~Free(e, b) <=> \E i \in 1..Len(v) : v[i] = b
    <3>1. CASE b = c
      <4>1. ASSUME NEW i \in 1..L - 1, v[i] = b PROVE FALSE
        <5>1. i + 1 \in 1..L /\ 1 \in 1..L /\ w[i + 1] = w[1]
          BY <1>1, <1>2, <3>1, <4>1
        <5>2. i + 1 = 1
          BY <1>1, <5>1
        <5>3. QED
          BY <5>2
      <4>2. QED
        BY <1>2, <1>5, <3>1, <4>1
    <3>2. CASE b # c
      <4>1. b \in On(r) /\ (Free(e, b) <=> Free(r, b))
        BY <1>3, <1>5, <3>2 DEF Free
      <4>2. ASSUME NEW i \in 1..L, w[i] = b PROVE \E j \in 1..L - 1 : v[j] = b
        <5>1. i # 1
          BY <1>1, <3>2, <4>2
        <5>2. i - 1 \in 1..L - 1 /\ (i - 1) + 1 = i
          BY <1>1, <5>1
        <5>3. v[i - 1] = b
          BY <1>2, <4>2, <5>2
        <5>4. QED
          BY <5>2, <5>3
      <4>3. ASSUME NEW j \in 1..L - 1, v[j] = b PROVE \E i \in 1..L : w[i] = b
        <5>1. j + 1 \in 1..L /\ w[j + 1] = b
          BY <1>1, <1>2, <4>3
        <5>2. QED
          BY <5>1
      <4>4. ~Free(r, b) <=> \E i \in 1..L : w[i] = b
        BY <1>1, <4>1
      <4>5. QED
        BY <1>2, <4>1, <4>2, <4>3, <4>4
    <3>3. QED
      BY <3>1, <3>2
  <2>4. v # <<>> => e.produce = NextBlock(e, v[Len(v)])
    <3> SUFFICES ASSUME v # <<>> PROVE e.produce = NextBlock(e, v[Len(v)])
      OBVIOUS
    <3>1. L - 1 >= 1
      BY <1>1, <1>2
    <3>2. L - 1 \in 1..L - 1 /\ (L - 1) + 1 = L /\ L \in 1..L
      BY <1>1, <3>1
    <3>3. v[Len(v)] = w[L]
      BY <1>2, <3>2
    <3>4. QED
      BY <1>1, <1>3, <3>2, <3>3
  <2>5. ASSUME NEW i \in 1..Len(v) - 1 PROVE Follows(e, v[i], v[i + 1])
    <3>1. i + 1 \in 1..L - 1 /\ i \in 1..L - 1 /\ i + 1 \in 1..L
      BY <1>1, <1>2
    <3>2. v[i] = w[i + 1] /\ v[i + 1] = w[(i + 1) + 1]
      BY <1>2, <3>1
    <3>3. Follows(r, v[i], v[i + 1]) /\ v[i] \in On(r)
      BY <1>1, <3>1, <3>2
    <3> DEFINE k == NextBlock(r, v[i])
    <3>4. NextBlock(e, v[i]) = k /\ k \in On(r) /\ NextBlock(e, k) = NextBlock(r, k)
      BY <1>3, <3>3, NextIs
    <3>5. Free(r, k) => Free(e, k)
      BY <1>3, <3>4 DEF Free
    <3>6. QED
      BY <3>3, <3>4, <3>5 DEF Follows
  <2>6. QED
    BY <2>1, <2>2, <2>3, <2>4, <2>5 DEF Trail
<1>7. Trail(s, v) /\ \A i \in 1..Len(v) : s.block[v[i]].item = e.block[v[i]].item
  BY <1>3, <1>5, <1>6, TrailOn
<1>8. ASSUME NEW i \in 1..L - 1 PROVE e.block[v[i]].item = r.block[v[i]].item
  <2>1. i + 1 \in 1..L /\ 1 \in 1..L /\ v[i] = w[i + 1] /\ i + 1 # 1
    BY <1>1, <1>2
  <2>2. v[i] \in On(r) /\ v[i] # c
    BY <1>1, <2>1
  <2>3. QED
    BY <1>3, <2>2
<1>9. /\ Shape(s) /\ q \in On(s) /\ s.consume = NextBlock(r, c)
      /\ NextBlock(s, q) = NextBlock(r, c)
      /\ \A a \in On(s) : /\ a # q => NextBlock(s, a) = NextBlock(e, a)
                          /\ s.block[a].item = e.block[a].item
                          /\ a \in On(e)
      /\ s.produce = IF r.produce = c THEN q ELSE r.produce
  BY <1>3, <1>4, <1>5 DEF OnTo
<1>10. Free(e, q) /\ (q # c => NextBlock(r, q) = c)
  <2>1. Joins(e, c) => PrevBlock(e, c) \in On(e) /\ NextBlock(e, PrevBlock(e, c)) = c /\ Free(e, PrevBlock(e, c))
    BY <1>3, <1>5, RoundIs, JoinsIs
  <2>2. QED
    BY <1>3, <1>5, <2>1
<1> HIDE DEF s, q, c
<1>11. CASE L = 1
  <2>1. v = <<>> /\ Len(v) = 0
    BY <1>2, <1>11
  <2>2. \A a \in On(s) : Free(s, a)
    BY <1>7, <2>1 DEF Trail
  <2>3. s.produce = s.consume
    <3>1. r.produce = NextBlock(r, c)
      BY <1>1, <1>11
    <3>2. CASE r.produce = c
      <4>1. q = c
        <5>1. q # c => PrevBlock(r, c) = q
          BY <1>10, <3>2, <3>1, <1>5, RoundIs, <1>9
        <5>2. PrevBlock(r, c) = c
          <6>1. PrevBlock(r, NextBlock(r, c)) = c
            BY <1>5, RoundIs
          <6>2. NextBlock(r, c) = c
            BY <3>1, <3>2
          <6>3. QED
            BY <6>1, <6>2
        <5>3. QED
          BY <5>1, <5>2
      <4>2. QED
        BY <1>9, <3>1, <3>2, <4>1
    <3>3. CASE r.produce # c
      BY <1>9, <3>1, <3>3
    <3>4. QED
      BY <3>2, <3>3
  <2>4. ~Passes(s) /\ t = s
    BY <2>3 DEF Passes
  <2>5. Walked(r) = s
    BY <2>4, WalkedIs DEF s, e, c
  <2>6. Shape(Popped(r)) /\ NoPair(Popped(r))
    BY PoppedShape
  <2>7. \A a \in On(Popped(r)) : Free(Popped(r), a)
    <3> DEFINE m == Merge(s, s.consume)
    <3>1. s.consume \in On(s)
      BY <1>9 DEF Shape
    <3>2. CASE Joins(s, s.consume)
      <4>1. \A a \in On(m) : a \in On(s) /\ m.block[a].item = s.block[a].item
        BY <1>9, <3>1, <3>2, MergeNext
      <4>2. \A a \in On(m) : Free(m, a)
        BY <2>2, <4>1 DEF Free
      <4>3. QED
        BY <2>5, <4>2 DEF Popped
    <3>3. CASE ~Joins(s, s.consume)
      <4>1. m = s
        BY <3>3 DEF Merge
      <4>2. QED
        BY <2>2, <2>5, <4>1 DEF Popped
    <3>4. QED
      BY <3>2, <3>3
  <2>8. Queue(Popped(r), v)
    BY <2>1, <2>7, QueueNone
  <2>9. QED
    BY <1>11, <2>8 DEF v
<1>12. CASE L >= 2
  <2>1. 1 \in 1..L - 1 /\ v[1] = w[2] /\ 2 \in 1..L /\ 1 \in 1..L /\ v # <<>> /\ 1 \in 1..Len(v)
    BY <1>1, <1>2, <1>12
  <2> DEFINE k == NextBlock(r, c)
  <2>2. Follows(r, c, v[1]) /\ v[1] # c /\ k \in On(r)
    BY <1>1, <1>5, <2>1, NextIs
  <2>3. Trail(t, v) /\ ~Passes(t) /\ t.consume = v[1] /\ Shape(t)
        /\ \A i \in 1..Len(v) : t.block[v[i]].item = s.block[v[i]].item
    <3>1. CASE k = v[1]
      <4>1. ~Free(s, s.consume)
        BY <1>7, <1>9, <2>1, <3>1, TrailIs
      <4>2. ~Passes(s)
        BY <4>1 DEF Passes
      <4>3. QED
        BY <1>7, <1>9, <3>1, <4>2
    <3>2. CASE Free(r, k) /\ v[1] = First /\ NextBlock(r, k) = First
      <4>1. k # c
        BY <1>1, <2>1, <3>2
      <4>2. k # q
        BY <1>10, <2>2, <3>2, <4>1
      <4>3. k \in On(s) /\ s.consume = k
        BY <1>9 DEF Shape
      <4>4. Free(s, k) /\ NextBlock(s, k) = First
        BY <1>3, <1>9, <2>2, <3>2, <4>1, <4>2, <4>3 DEF Free
      <4>5. k # s.produce
        <5> SUFFICES ASSUME k = s.produce PROVE FALSE
          OBVIOUS
        <5>1. Len(v) \in 1..Len(v) /\ v[Len(v)] \in On(s) /\ ~Free(s, v[Len(v)])
              /\ k = NextBlock(s, v[Len(v)])
          BY <1>7, <2>1, TrailIs DEF Trail
        <5>2. PrevBlock(s, k) = v[Len(v)]
          BY <1>9, <5>1, RoundIs
        <5>3. PrevBlock(s, k) = q
          BY <1>9, RoundIs
        <5>4. Free(s, q)
          BY <1>9, <1>10 DEF Free
        <5>5. QED
          BY <5>1, <5>2, <5>3, <5>4
      <4>6. Passes(s)
        BY <4>3, <4>4, <4>5 DEF Passes
      <4>7. t = Onward(s)
        BY <4>6
      <4> HIDE DEF t
      <4>8. Trail(t, v) /\ \A i \in 1..Len(v) : t.block[v[i]].item = s.block[v[i]].item
        BY <1>7, <1>9, <4>3, <4>4, <4>7, TrailOn
      <4>9. Shape(t) /\ t.consume = v[1]
        <5>1. PICK z : OnTo(s, s.consume, z, t)
          BY <1>9, <4>7, OnwardIs
        <5>2. QED
          BY <3>2, <4>3, <4>4, <5>1 DEF OnTo
      <4>10. ~Passes(t)
        BY <2>1, <4>8, <4>9, TrailIs DEF Passes
      <4>11. QED
        BY <4>8, <4>9, <4>10
    <3>3. QED
      BY <2>2, <3>1, <3>2 DEF Follows
  <2>4. Walked(r) = t
    BY <2>3, WalkedIs DEF s, e, c
  <2> HIDE DEF t
  <2>5. Popped(r) = t
    <3>1. ~Joins(t, t.consume)
      BY <2>1, <2>3, TrailIs DEF Joins
    <3>2. QED
      BY <2>4, <3>1 DEF Popped, Merge
  <2>6. Queue(t, v)
    BY <2>3 DEF Queue
  <2>7. ASSUME NEW i \in 2..L PROVE t.block[w[i]].item = r.block[w[i]].item
    <3>1. i - 1 \in 1..L - 1 /\ (i - 1) + 1 = i
      BY <1>1
    <3>2. v[i - 1] = w[i] /\ i - 1 \in 1..Len(v)
      BY <1>2, <3>1
    <3>3. QED
      BY <1>7, <1>8, <2>3, <3>1, <3>2
  <2>8. QED
    BY <2>5, <2>6, <2>7 DEF v
<1>13. L = 1 \/ L >= 2
  <2>1. L \in Nat /\ L >= 1
    BY <1>1
  <2> HIDE DEF L
  <2>2. QED
    BY <2>1
<1> HIDE DEF L
<1>14. QED
  BY <1>11, <1>12, <1>13

-----------------------------------------------------------------------------
(* RingBuffer: Allocate.                                                   *)

\* Blocks in use one after the other, none of them the first, go up.
LEMMA TrailUp ==
    ASSUME NEW r, Shape(r), NEW v, Trail(r, v), Free(r, First), NEW i \in 1..Len(v)
    PROVE  v[1] <= v[i]
<1> DEFINE T == {j \in 1..Len(v) : ~(v[1] <= v[j])}
<1>1. Len(v) \in Nat /\ \A j \in 1..Len(v) : v[j] \in On(r) /\ ~Free(r, v[j]) /\ v[j] \in Int
  BY TrailIs, EndIs
<1>2. T = {}
  <2> SUFFICES ASSUME T # {} PROVE FALSE
    OBVIOUS
  <2>1. T \in SUBSET Nat
    OBVIOUS
  <2>2. PICK m \in T : \A n \in T : ~(n < m)
    BY <2>1, LeastNumber
  <2>3. m \in 1..Len(v) /\ ~(v[1] <= v[m])
    OBVIOUS
  <2>4. 1 \in 1..Len(v) /\ m # 1
    BY <1>1, <2>3
  <2>5. m - 1 \in 1..Len(v) /\ m - 1 \in 1..Len(v) - 1 /\ (m - 1) + 1 = m /\ m - 1 < m
    BY <1>1, <2>3, <2>4
  <2>6. v[1] <= v[m - 1]
    BY <2>2, <2>5
  <2>7. Follows(r, v[m - 1], v[m])
    BY <2>5 DEF Trail
  <2>8. v[m] # First /\ v[m - 1] \in On(r)
    BY <1>1, <2>3, <2>5
  <2>9. NextBlock(r, v[m - 1]) = v[m]
    BY <2>7, <2>8 DEF Follows
  <2>10. Linked(r, v[m - 1]) /\ r.block[v[m - 1]].next = v[m] /\ v[m] # Null
    BY <2>8, <2>9, RingNumbers DEF NextBlock, Shape
  <2>11. v[m] = v[m - 1] + r.block[v[m - 1]].size
    BY <2>10 DEF Linked
  <2> DEFINE z == r.block[v[m - 1]].size
  <2>12. z \in Int /\ z >= 1
    <3>1. r.block[v[m - 1]].size \in 1..Units
      BY <2>8, BlockOf DEF Shape
    <3>2. QED
      BY <3>1, RingNumbers
  <2> HIDE DEF z
  <2>13. v[m] = v[m - 1] + z
    BY <2>11 DEF z
  <2> DEFINE a == v[1]
             y == v[m - 1]
             u == v[m]
  <2>14. a \in Int /\ u \in Int /\ y \in Int /\ a <= y /\ u = y + z /\ ~(a <= u)
    BY <1>1, <2>3, <2>4, <2>5, <2>6, <2>13
  <2> HIDE DEF a, y, u
  <2>15. QED
    BY <2>12, <2>14
<1>3. QED
  BY <1>2

\* When an item goes to the first block instead of m_pProduce, m_pProduce is the
\* last one.
LEMMA PlaceEnd ==
    ASSUME NEW r, Shape(r), NoPair(r), NEW w, Queue(r, w), w # <<>>,
           NEW x, Place(r, x) # Null, Place(r, x) # r.produce
    PROVE  /\ Place(r, x) = First /\ Free(r, First)
           /\ Free(r, r.produce) /\ NextBlock(r, r.produce) = First
<1> DEFINE p == r.produce
           n == NextBlock(r, p)
           L == Len(w)
<1>1. Place(r, x) = First /\ Free(r, First) /\ Free(r, p) /\ p \in On(r) /\ First \in On(r) /\ p # First
  BY DEF Place, Big, Shape
<1>2. /\ L \in Nat /\ L \in 1..L /\ \A i \in 1..L : w[i] \in On(r) /\ ~Free(r, w[i])
      /\ r.produce = NextBlock(r, w[L])
      /\ \A b \in On(r) : ~Free(r, b) <=> \E i \in 1..L : w[i] = b
      /\ \A i \in 1..L - 1 : Follows(r, w[i], w[i + 1])
  BY TrailIs DEF Queue, Trail
<1>3. n \in On(r) /\ PrevBlock(r, n) = p
  BY <1>1, RoundIs
<1>4. ASSUME n # First PROVE FALSE
  <2>1. ~Free(r, n)
    <3>1. Free(r, n) => Joins(r, n)
      BY <1>1, <1>3, <1>4, JoinsIs
    <3>2. QED
      BY <1>3, <3>1 DEF NoPair
  <2>2. PICK i \in 1..L : w[i] = n
    BY <1>2, <1>3, <2>1
  <2>3. CASE i # 1
    <3>1. i - 1 \in 1..L - 1 /\ i - 1 \in 1..L /\ (i - 1) + 1 = i
      BY <1>2, <2>2, <2>3
    <3>2. NextBlock(r, w[i - 1]) = n
      BY <1>2, <1>4, <2>2, <3>1 DEF Follows
    <3>3. PrevBlock(r, n) = w[i - 1]
      BY <1>2, <3>1, <3>2, RoundIs
    <3>4. QED
      BY <1>1, <1>2, <1>3, <3>1, <3>3
  <2>4. CASE i = 1
    <3>1. w[1] <= w[L]
      BY <1>1, <1>2, TrailUp DEF Queue
    <3>2. /\ r.block[p].next = n /\ n = p + r.block[p].size /\ r.block[p].size \in 1..Units
      <4>1. r.block[p].next = n /\ n # Null /\ Linked(r, p)
        BY <1>1, <1>3, <1>4, RingNumbers DEF NextBlock, Shape, On
      <4>2. QED
        BY <1>1, <4>1, BlockOf DEF Linked, Shape
    <3>3. /\ r.block[w[L]].next = p /\ p = w[L] + r.block[w[L]].size /\ r.block[w[L]].size \in 1..Units
      <4>1. r.block[w[L]].next = p /\ p # Null /\ Linked(r, w[L])
        BY <1>1, <1>2, RingNumbers DEF NextBlock, Shape, On
      <4>2. QED
        BY <1>2, <4>1, BlockOf DEF Linked, Shape
    <3> DEFINE y == r.block[p].size
               z == r.block[w[L]].size
               a == w[L]
    <3>4. a \in Int /\ p \in Int /\ Units \in Int
      <4>1. a \in On(r) /\ p \in On(r)
        BY <1>1, <1>2
      <4>2. \A c \in On(r) : c \in Int
        BY EndIs
      <4> HIDE DEF a, p
      <4>3. QED
        BY <4>1, <4>2, RingNumbers
    <3>5. n = p + y /\ p = a + z /\ n <= a
      BY <2>2, <2>4, <3>1, <3>2, <3>3
    <3>6. y \in 1..Units /\ z \in 1..Units
      BY <3>2, <3>3
    <3> HIDE DEF y, z, a, p, n
    <3>7. QED
      BY <3>4, <3>5, <3>6
  <2>5. QED
    BY <2>3, <2>4
<1>5. QED
  BY <1>1, <1>4

\* An item stored goes to the end of the queue.
LEMMA StoredQueue ==
    ASSUME NEW r, Shape(r), NoPair(r), NEW w, Queue(r, w), NEW x \in Items,
           NEW b, b = Place(r, x), b # Null, NEW t, t = Stored(r, b, x)
    PROVE  /\ Shape(t) /\ NoPair(t) /\ Queue(t, Append(w, b)) /\ t.block[b].item = x
           /\ \A i \in 1..Len(w) : t.block[w[i]].item = r.block[w[i]].item
<1> DEFINE L == Len(w)
           v == Append(w, b)
<1>1. b \in On(r) /\ Big(r, b, x) /\ Free(r, b)
  BY PlaceIs DEF Big
<1>2. /\ Shape(t) /\ NoPair(t) /\ On(r) \subseteq On(t)
      /\ t.consume = r.consume /\ t.produce = NextBlock(t, b) /\ t.block[b].item = x
      /\ \A a \in On(r) : a # b => /\ NextBlock(t, a) = NextBlock(r, a)
                                   /\ t.block[a].item = r.block[a].item
      /\ \A a \in On(t) \ On(r) : Free(t, a)
  BY <1>1, StoredIs
<1>3. /\ L \in Nat /\ \A i \in 1..L : w[i] \in On(r) /\ ~Free(r, w[i]) /\ w[i] # b
      /\ w \in Seq(On(r))
      /\ \A i, j \in 1..L : w[i] = w[j] => i = j
      /\ \A a \in On(r) : ~Free(r, a) <=> \E i \in 1..L : w[i] = a
      /\ \A i \in 1..L - 1 : Follows(r, w[i], w[i + 1])
  BY <1>1, TrailIs DEF Queue, Trail
<1>4. v \in Seq(On(t)) /\ Len(v) = L + 1 /\ v[L + 1] = b /\ \A i \in 1..L : v[i] = w[i]
  <2>1. w \in Seq(On(t)) /\ b \in On(t)
    BY <1>1, <1>2, <1>3
  <2>2. QED
    BY <2>1
<1> HIDE DEF v
<1>5. \A i, j \in 1..L + 1 : v[i] = v[j] => i = j
  <2> SUFFICES ASSUME NEW i \in 1..L + 1, NEW j \in 1..L + 1, v[i] = v[j] PROVE i = j
    OBVIOUS
  <2>1. \A k \in 1..L + 1 : k \in 1..L \/ k = L + 1
    BY <1>3
  <2>2. QED
    BY <1>3, <1>4, <2>1
<1>6. ASSUME NEW a \in On(t) PROVE ~Free(t, a) <=> \E i \in 1..L + 1 : v[i] = a
  <2>1. \A k \in 1..L + 1 : k \in 1..L \/ k = L + 1
    BY <1>3
  <2>2. L + 1 \in 1..L + 1 /\ \A k \in 1..L : k \in 1..L + 1
    BY <1>3
  <2>3. CASE a = b
    <3>1. ~Free(t, a)
      BY <1>2, <2>3, RingNumbers DEF Free
    <3>2. QED
      BY <1>4, <2>2, <2>3, <3>1
  <2>4. CASE a # b /\ a \in On(r)
    <3>1. Free(t, a) <=> Free(r, a)
      BY <1>2, <2>4 DEF Free
    <3>2. (\E i \in 1..L + 1 : v[i] = a) <=> \E i \in 1..L : w[i] = a
      BY <1>4, <2>1, <2>2, <2>4
    <3>3. QED
      BY <1>3, <2>4, <3>1, <3>2
  <2>5. CASE a \notin On(r)
    <3>1. ~\E i \in 1..L + 1 : v[i] = a
      BY <1>1, <1>3, <1>4, <2>1, <2>5
    <3>2. QED
      BY <1>2, <2>5, <3>1
  <2>6. QED
    BY <2>3, <2>4, <2>5
<1>7. ASSUME NEW i \in 1..L PROVE Follows(t, v[i], v[i + 1])
  <2> DEFINE k == NextBlock(r, w[i])
  <2>1. w[i] \in On(r) /\ NextBlock(t, w[i]) = k /\ v[i] = w[i] /\ k \in On(r)
        /\ PrevBlock(r, k) = w[i]
    BY <1>2, <1>3, <1>4, RoundIs
  <2>2. L \in 1..L /\ w # <<>> /\ r.produce = NextBlock(r, w[L]) /\ w[L] \in On(r)
        /\ PrevBlock(r, r.produce) = w[L]
    <3>1. L \in 1..L /\ w # <<>>
      BY <1>3
    <3>2. r.produce = NextBlock(r, w[L]) /\ w[L] \in On(r)
      BY <1>3, <3>1 DEF Queue, Trail
    <3>3. QED
      BY <3>1, <3>2, RoundIs
  <2>3. CASE i # L
    <3>1. i \in 1..L - 1 /\ i + 1 \in 1..L
      BY <1>3, <2>3
    <3>2. Follows(r, w[i], w[i + 1]) /\ v[i + 1] = w[i + 1]
      BY <1>3, <1>4, <3>1
    <3>3. CASE k = w[i + 1]
      BY <2>1, <3>2, <3>3 DEF Follows
    <3>4. CASE Free(r, k) /\ w[i + 1] = First /\ NextBlock(r, k) = First
      <4>1. ~Free(r, First)
        BY <1>3, <3>1, <3>4
      <4>2. b = r.produce
        BY <1>1, <4>1 DEF Place, Big
      <4>3. k # b
        BY <1>3, <2>1, <2>2, <2>3, <4>2
      <4>4. Free(t, k) /\ NextBlock(t, k) = First
        BY <1>2, <2>1, <3>4, <4>3 DEF Free
      <4> HIDE DEF k
      <4>5. QED
        BY <2>1, <3>2, <3>4, <4>4 DEF Follows
    <3>5. QED
      BY <3>2, <3>3, <3>4 DEF Follows
  <2>4. CASE i = L
    <3>1. v[i + 1] = b /\ k = r.produce
      BY <1>4, <2>2, <2>4
    <3>2. CASE b = r.produce
      BY <2>1, <3>1, <3>2 DEF Follows
    <3>3. CASE b # r.produce
      <4>1. b = First /\ Free(r, r.produce) /\ NextBlock(r, r.produce) = First
        BY <2>2, <3>3, PlaceEnd
      <4>2. Free(t, k) /\ NextBlock(t, k) = First
        BY <1>2, <2>1, <3>1, <3>3, <4>1 DEF Free
      <4> HIDE DEF k
      <4>3. QED
        BY <2>1, <3>1, <4>1, <4>2 DEF Follows
    <3>4. QED
      BY <3>2, <3>3
  <2>5. QED
    BY <2>3, <2>4
<1>8. Trail(t, v)
  <2>1. (L + 1) - 1 = L
    BY <1>3
  <2>2. QED
    BY <1>2, <1>4, <1>5, <1>6, <1>7, <2>1 DEF Trail
<1>9. t.consume = v[1]
  <2>1. CASE w = <<>>
    <3>1. L = 0
      BY <2>1
    <3>2. \A a \in On(r) : Free(r, a)
      BY <1>3, <3>1
    <3>3. On(r) = {First} /\ r.consume \in On(r)
      BY <3>2, NoneHeld DEF Shape
    <3>4. QED
      BY <1>1, <1>2, <1>4, <3>1, <3>3
  <2>2. CASE w # <<>>
    <3>1. 1 \in 1..L /\ r.consume = w[1]
      BY <2>2, <1>3, TrailIs DEF Queue
    <3>2. QED
      BY <1>2, <1>4, <3>1
  <2>3. QED
    BY <2>1, <2>2
<1>10. \A i \in 1..L : t.block[w[i]].item = r.block[w[i]].item
  BY <1>2, <1>3
<1>11. QED
  BY <1>2, <1>8, <1>9, <1>10 DEF Queue, v

LEMMA IntervalIs ==
    ASSUME NEW n \in Nat
    PROVE  /\ IsFiniteSet(1..n) /\ Cardinality(1..n) = n
           /\ IsFiniteSet(0..n - 1) /\ Cardinality(0..n - 1) = n
<1>1. IsFiniteSet(1..n) /\ Cardinality(1..n) = IF 1 > n THEN 0 ELSE n - 1 + 1
  BY FS_Interval
<1>2. n - 1 \in Int
  OBVIOUS
<1> DEFINE m == n - 1
<1>3. m \in Int /\ m = n - 1
  BY <1>2
<1> HIDE DEF m
<1>4. IsFiniteSet(0..m) /\ Cardinality(0..m) = IF 0 > m THEN 0 ELSE m - 0 + 1
  BY <1>3, FS_Interval
<1>5. (IF 1 > n THEN 0 ELSE n - 1 + 1) = n /\ (IF 0 > m THEN 0 ELSE m - 0 + 1) = n
  BY <1>3
<1>6. QED
  BY <1>1, <1>3, <1>4, <1>5

\* There are no more blocks than units.
LEMMA QueueShort ==
    ASSUME NEW r, NEW v, Trail(r, v)
    PROVE  Len(v) <= Units
<1>1. Len(v) \in Nat /\ Units \in Nat
  BY TrailIs, RingNumbers
<1>2. IsFiniteSet(0..Units - 1) /\ Cardinality(0..Units - 1) = Units
  BY <1>1, IntervalIs
<1>3. IsFiniteSet(1..Len(v)) /\ Cardinality(1..Len(v)) = Len(v)
  BY <1>1, IntervalIs
<1>4. [i \in 1..Len(v) |-> v[i]] \in Injection(1..Len(v), 0..Units - 1)
  <2>1. \A i \in 1..Len(v) : v[i] \in 0..Units - 1
    BY TrailIs DEF On, Address
  <2>2. \A i, j \in 1..Len(v) : v[i] = v[j] => i = j
    BY DEF Trail
  <2>3. QED
    BY <2>1, <2>2 DEF Injection, IsInjective
<1>5. Cardinality(1..Len(v)) <= Cardinality(0..Units - 1)
  BY <1>2, <1>4, FS_Injection
<1>6. QED
  BY <1>2, <1>3, <1>5

\* What is left of w when the first k are gone.
After(w, k) == [i \in 1..Len(w) - k |-> w[i + k]]

\* p is the buffer with the items of w, less the first k, which were popped.
GivenUp(w, k, p) ==
    /\ Shape(p.ring) /\ NoPair(p.ring) /\ Queue(p.ring, After(w, k))
    /\ p.popped = [i \in 1..k |-> ring.block[w[i]].item]
    /\ \A i \in k + 1..Len(w) : p.ring.block[w[i]].item = ring.block[w[i]].item

LEMMA AfterIs ==
    ASSUME NEW T, NEW w \in Seq(T), NEW k \in 0..Len(w)
    PROVE  /\ After(w, k) \in Seq(T) /\ Len(After(w, k)) = Len(w) - k
           /\ \A i \in 1..Len(w) - k : After(w, k)[i] = w[i + k]
           /\ k < Len(w) => Tail(After(w, k)) = After(w, k + 1)
<1> DEFINE L == Len(w)
           u == After(w, k)
<1>1. L \in Nat /\ k \in Nat /\ L - k \in Nat
  OBVIOUS
<1>2. \A i \in 1..L - k : i + k \in 1..L
  BY <1>1
<1>3. u \in Seq(T) /\ Len(u) = L - k /\ u = [i \in 1..L - k |-> w[i + k]]
  BY <1>1, <1>2 DEF After
<1> HIDE DEF u
<1>4. ASSUME k < L PROVE Tail(u) = After(w, k + 1)
  <2>1. u # <<>> /\ Len(u) - 1 = L - (k + 1)
    <3> HIDE DEF L
    <3>1. Len(u) - 1 = L - (k + 1) /\ Len(u) # 0
      BY <1>1, <1>3, <1>4
    <3>2. QED
      BY <3>1
  <2>2. Tail(u) = [i \in 1..Len(u) - 1 |-> u[i + 1]]
    BY <1>3, <2>1
  <2>3. \A i \in 1..L - (k + 1) : i + 1 \in 1..L - k /\ (i + 1) + k = i + (k + 1)
    BY <1>1, <1>4
  <2>4. \A i \in 1..L - (k + 1) : u[i + 1] = w[i + (k + 1)]
    BY <1>3, <2>3
  <2>5. QED
    BY <2>1, <2>2, <2>4 DEF After
<1>5. QED
  BY <1>3, <1>4 DEF u

\* A buffer whose m_pConsume is free has no items.
LEMMA EmptyIs ==
    ASSUME NEW r, Shape(r), NEW v, Queue(r, v)
    PROVE  Empty(r) <=> v = <<>>
<1>1. CASE v = <<>>
  <2>1. Len(v) = 0
    BY <1>1
  <2>2. \A a \in On(r) : Free(r, a)
    BY <2>1 DEF Queue, Trail
  <2>3. QED
    BY <1>1, <2>2 DEF Empty, Shape
<1>2. CASE v # <<>>
  BY <1>2, TrailIs DEF Queue, Empty
<1>3. QED
  BY <1>1, <1>2

LEMMA GiveUpOne ==
    ASSUME NEW w \in Seq(Address), NEW k \in 0..Len(w),
           NEW p, GivenUp(w, k, p), ~Empty(p.ring)
    PROVE  k + 1 \in 0..Len(w) /\ GivenUp(w, k + 1, PopOne(p))
<1> DEFINE v == After(w, k)
           L == Len(w)
           g == PopOne(p)
           m == Popped(p.ring)
<1>1. v \in Seq(Address) /\ Len(v) = L - k /\ L \in Nat /\ k \in Nat
      /\ \A i \in 1..L - k : v[i] = w[i + k]
  <2>1. L \in Nat /\ k \in Nat
    OBVIOUS
  <2>2. After(w, k) \in Seq(Address) /\ Len(After(w, k)) = Len(w) - k
        /\ \A i \in 1..Len(w) - k : After(w, k)[i] = w[i + k]
    BY AfterIs
  <2>3. QED
    BY <2>1, <2>2
<1>2. /\ Shape(p.ring) /\ NoPair(p.ring) /\ Queue(p.ring, v)
      /\ p.popped = [i \in 1..k |-> ring.block[w[i]].item]
      /\ \A i \in k + 1..L : p.ring.block[w[i]].item = ring.block[w[i]].item
  BY DEF GivenUp
<1>3. v # <<>>
  BY <1>2, EmptyIs
<1> HIDE DEF v
<1>4. k < L /\ k + 1 \in 0..L /\ 1 \in 1..L - k
  <2>1. Len(v) # 0
    BY <1>1, <1>3
  <2>2. QED
    BY <1>1, <2>1
<1>5. /\ Queue(m, Tail(v))
      /\ \A i \in 2..Len(v) : m.block[v[i]].item = p.ring.block[v[i]].item
  BY <1>2, <1>3, PoppedIs
<1>6. Shape(m) /\ NoPair(m)
  BY <1>2, PoppedShape
<1>7. Tail(v) = After(w, k + 1)
  BY <1>4, AfterIs DEF v
<1>8. p.ring.block[p.ring.consume].item = ring.block[w[k + 1]].item
  <2>1. p.ring.consume = v[1] /\ v[1] = w[1 + k] /\ 1 + k = k + 1
    BY <1>1, <1>2, <1>3, <1>4 DEF Queue
  <2>2. k + 1 \in k + 1..L
    BY <1>1, <1>4
  <2>3. QED
    BY <1>2, <2>1, <2>2
<1> HIDE DEF m
<1>9. g.ring = m /\ g.popped = Append(p.popped, ring.block[w[k + 1]].item)
  BY <1>8 DEF PopOne, m
<1>10. g.popped = [i \in 1..k + 1 |-> ring.block[w[i]].item]
  <2> DEFINE It(i) == ring.block[w[i]].item
  <2>1. p.popped = [i \in 1..k |-> It(i)] /\ g.popped = Append(p.popped, It(k + 1))
    BY <1>2, <1>9
  <2> HIDE DEF It
  <2>2. g.popped = [i \in 1..k + 1 |-> It(i)]
    BY <1>1, <2>1
  <2>3. QED
    BY <2>2 DEF It
<1>11. ASSUME NEW i \in (k + 1) + 1..L PROVE m.block[w[i]].item = ring.block[w[i]].item
  <2>1. i - k \in 2..Len(v) /\ i - k \in 1..L - k /\ (i - k) + k = i /\ i \in k + 1..L
    BY <1>1, <1>4
  <2>2. v[i - k] = w[i]
    BY <1>1, <2>1
  <2>3. QED
    BY <1>2, <1>5, <2>1, <2>2
<1> HIDE DEF g
<1>12. GivenUp(w, k + 1, g)
  BY <1>5, <1>6, <1>7, <1>9, <1>10, <1>11 DEF GivenUp
<1>13. QED
  BY <1>4, <1>12 DEF g

LEMMA GiveUpNone ==
    ASSUME Shape(ring), NoPair(ring), NEW w \in Seq(Address), Queue(ring, w)
    PROVE  GivenUp(w, 0, [ring |-> ring, popped |-> <<>>])
<1> DEFINE p == [ring |-> ring, popped |-> <<>>]
           v == After(w, 0)
<1>1. 0 \in 0..Len(w) /\ Len(w) \in Nat
  OBVIOUS
<1>2. v \in Seq(Address) /\ Len(v) = Len(w) - 0 /\ \A i \in 1..Len(w) - 0 : v[i] = w[i + 0]
  BY <1>1, AfterIs
<1> HIDE DEF v
<1>3. v = w
  BY <1>1, <1>2
<1>4. p.popped = [i \in 1..0 |-> ring.block[w[i]].item]
  OBVIOUS
<1>5. QED
  BY <1>3, <1>4 DEF GivenUp, v

\* What Allocate pops: the first k items, as many as it takes to find a place
\* or to have none left.
LEMMA RecycledQueue ==
    ASSUME Shape(ring), NoPair(ring), NEW w \in Seq(Address), Queue(ring, w), NEW x
    PROVE  \E k \in 0..Len(w) :
              /\ GivenUp(w, k, Recycled(x))
              /\ Place(Recycled(x).ring, x) # Null \/ Empty(Recycled(x).ring)
              /\ Place(ring, x) # Null => k = 0 /\ Recycled(x) = [ring |-> ring, popped |-> <<>>]
<1> DEFINE Records == [ring : Rings, popped : Seq(Items \cup {Null})]
           L == Len(w)
           S == {p \in Records : \E k \in 0..L : GivenUp(w, k, p)}
           a == [ring |-> ring, popped |-> <<>>]
           Stop(p) == Place(p.ring, x) # Null \/ Empty(p.ring)
<1>1. L \in Nat /\ 0 \in 0..L /\ Units \in Nat /\ Units \in 0..Units
  BY RingNumbers
<1>2. GivenUp(w, 0, a)
  BY GiveUpNone
<1>3. a \in S
  <2>1. ring \in Rings
    BY DEF Shape
  <2>2. <<>> \in Seq(Items \cup {Null})
    OBVIOUS
  <2>3. a \in Records
    BY <2>1, <2>2
  <2> HIDE DEF a
  <2>4. QED
    BY <1>1, <1>2, <2>3
<1>4. ASSUME NEW p \in S, NEW k \in 0..L, GivenUp(w, k, p), ~Empty(p.ring)
      PROVE  PopOne(p) \in S /\ k + 1 \in 0..L /\ GivenUp(w, k + 1, PopOne(p))
  <2>1. k + 1 \in 0..L /\ GivenUp(w, k + 1, PopOne(p))
    BY <1>4, GiveUpOne
  <2>2. Shape(PopOne(p).ring) /\ PopOne(p).popped = Append(p.popped, p.ring.block[p.ring.consume].item)
        /\ PopOne(p) = [ring |-> PopOne(p).ring, popped |-> PopOne(p).popped]
    BY <2>1 DEF GivenUp, PopOne
  <2>3. p.ring.block[p.ring.consume].item \in Items \cup {Null}
    <3>1. Shape(p.ring)
      BY <1>4 DEF GivenUp
    <3>2. p.ring \in Rings /\ p.ring.consume \in On(p.ring)
      BY <3>1 DEF Shape
    <3>3. QED
      BY <3>2, BlockOf
  <2>4. p.popped \in Seq(Items \cup {Null})
    OBVIOUS
  <2> DEFINE i == p.ring.block[p.ring.consume].item
             g == PopOne(p)
  <2> HIDE DEF i, g
  <2>5. g.popped \in Seq(Items \cup {Null})
    <3>1. Append(p.popped, i) \in Seq(Items \cup {Null})
      BY <2>3, <2>4 DEF i
    <3>2. QED
      BY <2>2, <3>1 DEF i, g
  <2>6. g.ring \in Rings
    BY <2>2 DEF Shape, g
  <2>7. g \in Records
    BY <2>2, <2>5, <2>6 DEF g
  <2>8. QED
    BY <2>1, <2>7 DEF g
<1>5. ASSUME NEW p \in S, ~Empty(p.ring) PROVE PopOne(p) \in S
  BY <1>4, <1>5
<1>6. \A p \in S : \E k \in 0..L : GivenUp(w, k, p)
  OBVIOUS
<1> HIDE DEF S, a
<1>7. PICK f \in [0..Units -> S] :
              /\ f[0] = a /\ Recycled(x) = f[Units]
              /\ \A n \in 1..Units : f[n] = IF Stop(f[n - 1]) THEN f[n - 1] ELSE PopOne(f[n - 1])
  <2>1. a \in S /\ a = [ring |-> ring, popped |-> <<>>]
    BY <1>3 DEF a
  <2>2. \A p \in S : Place(p.ring, x) = Null /\ ~Empty(p.ring) => PopOne(p) \in S
    BY <1>5
  <2>3. Recycles(x, S)
    BY <2>1, <2>2, RecycledIs
  <2>4. QED
    BY <2>1, <2>3 DEF Recycles
<1> HIDE DEF Stop
<1>8. ASSUME NEW p, NEW k \in 0..L, GivenUp(w, k, p)
      PROVE  Len(p.popped) = k
  BY <1>1, <1>8 DEF GivenUp
<1> DEFINE Good(n) == Stop(f[n]) \/ Len(f[n].popped) = n
           T == {n \in 0..Units : ~Good(n)}
<1>9. T = {}
  <2> SUFFICES ASSUME T # {} PROVE FALSE
    OBVIOUS
  <2>1. PICK m \in T : \A n \in T : ~(n < m)
    <3>1. T \in SUBSET Nat
      OBVIOUS
    <3> HIDE DEF T
    <3>2. QED
      BY <3>1, LeastNumber
  <2>2. m \in 0..Units /\ ~Good(m)
    OBVIOUS
  <2>3. m # 0
    <3>1. Len(f[0].popped) = 0
      BY <1>1, <1>2, <1>7, <1>8
    <3>2. QED
      BY <2>2, <3>1
  <2>4. m \in 1..Units /\ m - 1 \in 0..Units /\ m - 1 < m
    BY <1>1, <2>2, <2>3
  <2>5. Good(m - 1)
    BY <2>1, <2>4
  <2>6. f[m] = IF Stop(f[m - 1]) THEN f[m - 1] ELSE PopOne(f[m - 1])
    BY <1>7, <2>4
  <2>7. ~Stop(f[m - 1])
    BY <2>2, <2>6
  <2>8. f[m - 1] \in S
    BY <1>7, <2>4
  <2>9. PICK k \in 0..L : GivenUp(w, k, f[m - 1])
    BY <1>6, <2>8
  <2>10. k = m - 1
    BY <1>8, <2>5, <2>7, <2>9
  <2>11. k + 1 \in 0..L /\ GivenUp(w, k + 1, f[m])
    BY <1>4, <2>6, <2>7, <2>8, <2>9 DEF Stop
  <2>12. Len(f[m].popped) = m
    BY <1>8, <2>4, <2>10, <2>11
  <2>13. QED
    BY <2>2, <2>12
<1>10. f[Units] \in S
  BY <1>1, <1>7
<1>11. PICK k \in 0..L : GivenUp(w, k, f[Units])
  BY <1>6, <1>10
<1>12. Stop(f[Units])
  <2> SUFFICES ASSUME ~Stop(f[Units]) PROVE FALSE
    OBVIOUS
  <2>1. Good(Units)
    BY <1>1, <1>9
  <2>2. k = Units
    BY <1>8, <1>11, <2>1
  <2>3. k + 1 \in 0..L
    BY <1>4, <1>10, <1>11 DEF Stop
  <2>4. L <= Units
    BY QueueShort DEF Queue
  <2>5. QED
    BY <1>1, <2>2, <2>3, <2>4
<1>13. ASSUME Stop(a) PROVE f[Units] = a
  <2> DEFINE Q == {n \in 0..Units : f[n] # a}
  <2>1. Q = {}
    <3> SUFFICES ASSUME Q # {} PROVE FALSE
      OBVIOUS
    <3>1. PICK m \in Q : \A n \in Q : ~(n < m)
      <4>1. Q \in SUBSET Nat
        OBVIOUS
      <4> HIDE DEF Q
      <4>2. QED
        BY <4>1, LeastNumber
    <3>2. m \in 0..Units /\ f[m] # a /\ m # 0
      BY <1>7
    <3>3. m \in 1..Units /\ m - 1 \in 0..Units /\ m - 1 < m
      BY <1>1, <3>2
    <3>4. f[m - 1] = a
      BY <3>1, <3>3
    <3>5. QED
      BY <1>7, <1>13, <3>2, <3>3, <3>4
  <2>2. QED
    BY <1>1, <2>1
<1>14. Place(ring, x) # Null => k = 0 /\ f[Units] = a
  <2> SUFFICES ASSUME Place(ring, x) # Null PROVE k = 0 /\ f[Units] = a
    OBVIOUS
  <2>1. Stop(a)
    BY DEF Stop, a
  <2>2. f[Units] = a
    BY <1>13, <2>1
  <2>3. Len(a.popped) = 0
    BY DEF a
  <2>4. QED
    BY <1>8, <1>11, <2>2, <2>3
<1>15. QED
  BY <1>7, <1>11, <1>12, <1>14 DEF Stop, a

-----------------------------------------------------------------------------
(* RingBuffer: the contents.                                               *)

LEMMA WrapIs ==
    ASSUME NEW S \in Nat \ {0}, NEW d \in Int, -S < d, d < S
    PROVE  d % S = IF d >= 0 THEN d ELSE d + S
<1>1. CASE d >= 0
  <2>1. d \in Nat
    BY <1>1
  <2>2. d % S \in 0..(S - 1) /\ d \div S \in Int /\ d = S * (d \div S) + (d % S)
    BY <2>1, RingDivMod
  <2> DEFINE q == d \div S
             m == d % S
  <2> HIDE DEF q, m
  <2>3. m \in 0..(S - 1) /\ q \in Int /\ d = S * q + m
    BY <2>2 DEF q, m
  <2>4. (\A e \in Int : e <= -1 => S * e <= -S) /\ (\A e \in Int : e >= 1 => S * e >= S)
    BY SMT
  <2>5. q = 0
    <3>1. S * q \in Int
      BY <2>3, SMT
    <3> DEFINE y == S * q
    <3>2. y \in Int /\ d = y + m /\ (q <= -1 => y <= -S) /\ (q >= 1 => y >= S)
      BY <2>3, <2>4, <3>1
    <3> HIDE DEF y
    <3>3. ~(q <= -1) /\ ~(q >= 1)
      BY <1>1, <2>3, <3>2
    <3>4. QED
      BY <2>3, <3>3
  <2>6. d = m
    <3>1. S * 0 = 0
      BY SMT
    <3>2. QED
      BY <2>3, <2>5, <3>1
  <2>7. QED
    BY <1>1, <2>6 DEF m
<1>2. CASE d < 0
  <2>1. d % S = d + S
    BY <1>2, SMT
  <2>2. QED
    BY <1>2, <2>1
<1>3. QED
  BY <1>1, <1>2

LEMMA AheadIs ==
    ASSUME Shape(ring), NEW b \in On(ring)
    PROVE  /\ b \in 0..Units - 1 /\ ring.consume \in 0..Units - 1
           /\ Ahead(b) = IF b >= ring.consume THEN b - ring.consume ELSE b - ring.consume + Units
           /\ Ahead(b) \in Nat
<1> DEFINE c == ring.consume
           d == b - c
<1>1. b \in 0..Units - 1 /\ c \in 0..Units - 1 /\ Units \in Nat \ {0}
  BY RingNumbers DEF Shape, On, Address
<1> HIDE DEF c
<1>2. d \in Int /\ -Units < d /\ d < Units /\ (d >= 0 <=> b >= c) /\ d = b - c
  BY <1>1
<1> HIDE DEF d
<1>3. d % Units = IF d >= 0 THEN d ELSE d + Units
  BY <1>1, <1>2, WrapIs
<1>4. Ahead(b) = d % Units
  BY DEF Ahead, d, c
<1>5. Ahead(b) = (IF b >= c THEN b - c ELSE b - c + Units) /\ Ahead(b) \in Nat
  BY <1>1, <1>2, <1>3, <1>4
<1>6. QED
  BY <1>1, <1>5 DEF c

\* A block that follows another one, and is not the one at m_pConsume, is
\* farther ahead of that one.
LEMMA AheadStep ==
    ASSUME Shape(ring), NEW b \in On(ring), NEW d \in On(ring), Follows(ring, b, d),
           d # ring.consume, ~Free(ring, ring.consume), Free(ring, d) => NextBlock(ring, b) = d
    PROVE  Ahead(b) < Ahead(d)
<1> DEFINE c == ring.consume
           B == ring.block
           s == B[b].size
           n == B[b].next
<1>1. /\ c \in On(ring) /\ ~Free(ring, c) /\ d # c /\ Apart(ring) /\ Linked(ring, b) /\ First \in On(ring)
      /\ \A a \in On(ring) : a # Null
  BY RingNumbers DEF Shape, On
<1>2. /\ b \in 0..Units - 1 /\ c \in 0..Units - 1 /\ d \in 0..Units - 1 /\ Units \in Nat
      /\ Ahead(b) = (IF b >= c THEN b - c ELSE b - c + Units)
      /\ Ahead(d) = (IF d >= c THEN d - c ELSE d - c + Units)
  BY AheadIs, RingNumbers
<1>3. s \in 1..Units /\ (b < c => b + s <= c)
  <2>1. s \in 1..Units
    BY BlockOf DEF Shape
  <2>2. b < c => b + s <= c
    BY <1>1 DEF Apart
  <2>3. QED
    BY <2>1, <2>2
<1> HIDE DEF c, s
<1>4. CASE n # Null /\ d = n
  <2>1. d = b + s
    BY <1>1, <1>4 DEF Linked, s
  <2>2. b < c => d < c
    BY <1>1, <1>2, <1>3, <2>1
  <2>3. QED
    BY <1>1, <1>2, <1>3, <2>1, <2>2
<1>5. CASE d = First /\ ~(b < c)
  BY <1>1, <1>2, <1>5 DEF First
<1>6. CASE NextBlock(ring, b) = d
  <2>1. CASE n # Null
    BY <1>4, <1>6, <2>1 DEF NextBlock
  <2>2. CASE n = Null
    <3>1. d = First /\ b + s = Units
      BY <1>1, <1>6, <2>2 DEF NextBlock, Linked, s
    <3>2. ~(b < c)
      BY <1>2, <1>3, <3>1
    <3>3. QED
      BY <1>5, <3>1, <3>2
  <2>3. QED
    BY <2>1, <2>2
<1>7. CASE NextBlock(ring, b) # d
  <2> DEFINE k == NextBlock(ring, b)
             z == B[k].size
  <2>1. Free(ring, k) /\ d = First /\ NextBlock(ring, k) = First /\ k # First /\ k \in On(ring)
    BY <1>7, NextIs DEF Follows
  <2>2. k = b + s /\ k # c
    BY <1>1, <2>1 DEF NextBlock, Linked, s
  <2>3. z \in 1..Units /\ k \in 0..Units - 1 /\ (k < c => k + z <= c)
    <3>1. z \in 1..Units
      BY <2>1, BlockOf DEF Shape
    <3>2. k < c => k + z <= c
      BY <1>1, <2>1 DEF Apart
    <3>3. k \in 0..Units - 1
      BY <2>1, AheadIs
    <3>4. QED
      BY <3>1, <3>2, <3>3
  <2>4. k + z = Units
    <3>1. Linked(ring, k)
      BY <2>1 DEF Shape
    <3>2. CASE B[k].next = Null
      BY <3>1, <3>2 DEF Linked
    <3>3. CASE B[k].next # Null
      <4>1. B[k].next = First
        BY <2>1, <3>3 DEF NextBlock
      <4>2. First = k + z
        BY <3>1, <3>3, <4>1 DEF Linked
      <4> HIDE DEF k, z
      <4>3. QED
        BY <1>2, <2>3, <4>2 DEF First
    <3>4. QED
      BY <3>2, <3>3
  <2> HIDE DEF k, z
  <2>5. ~(b < c)
    BY <1>2, <1>3, <2>2, <2>3, <2>4
  <2>6. QED
    BY <1>5, <2>1, <2>5
<1>8. QED
  BY <1>6, <1>7

\* The blocks of the queue are ever farther ahead of m_pConsume.
LEMMA AheadUp ==
    ASSUME Shape(ring), NEW w, Queue(ring, w), NEW j \in 1..Len(w), NEW i \in 1..Len(w), i < j
    PROVE  Ahead(w[i]) < Ahead(w[j])
<1> DEFINE L == Len(w)
           T == {n \in 1..L : i < n /\ ~(Ahead(w[i]) < Ahead(w[n]))}
<1>1. /\ L \in Nat /\ \A n \in 1..L : w[n] \in On(ring) /\ ~Free(ring, w[n]) /\ Ahead(w[n]) \in Nat
      /\ w # <<>> /\ ring.consume = w[1]
      /\ \A n, m \in 1..L : w[n] = w[m] => n = m
      /\ \A n \in 1..L - 1 : Follows(ring, w[n], w[n + 1])
  <2>1. /\ L \in Nat /\ (\A n \in 1..L : w[n] \in On(ring) /\ ~Free(ring, w[n]))
        /\ (w # <<>> <=> L >= 1)
    BY TrailIs DEF Queue
  <2>2. \A n \in 1..L : Ahead(w[n]) \in Nat
    BY <2>1, AheadIs
  <2>3. L >= 1
    BY <2>1
  <2>4. QED
    BY <2>1, <2>2, <2>3 DEF Queue, Trail
<1>2. T = {}
  <2> SUFFICES ASSUME T # {} PROVE FALSE
    OBVIOUS
  <2>1. PICK m \in T : \A n \in T : ~(n < m)
    <3>1. T \in SUBSET Nat
      OBVIOUS
    <3> HIDE DEF T
    <3>2. QED
      BY <3>1, LeastNumber
  <2>2. m \in 1..L /\ i < m /\ ~(Ahead(w[i]) < Ahead(w[m]))
    OBVIOUS
  <2>3. m - 1 \in 1..L /\ m - 1 \in 1..L - 1 /\ (m - 1) + 1 = m /\ m - 1 < m /\ 1 \in 1..L /\ m # 1
    BY <1>1, <2>2
  <2>4. Ahead(w[m - 1]) < Ahead(w[m])
    <3>1. w[m - 1] \in On(ring) /\ w[m] \in On(ring) /\ Follows(ring, w[m - 1], w[m])
          /\ ~Free(ring, w[m]) /\ ~Free(ring, ring.consume) /\ w[m] # ring.consume
      BY <1>1, <2>2, <2>3
    <3>2. QED
      BY <3>1, AheadStep
  <2>5. CASE m - 1 = i
    BY <2>2, <2>4, <2>5
  <2>6. CASE m - 1 # i
    <3>1. i < m - 1
      BY <2>2, <2>3, <2>6
    <3>2. Ahead(w[i]) < Ahead(w[m - 1])
      BY <2>1, <2>3, <3>1
    <3> DEFINE a == Ahead(w[i])
               y == Ahead(w[m - 1])
               z == Ahead(w[m])
    <3>3. a \in Nat /\ y \in Nat /\ z \in Nat /\ a < y /\ y < z /\ ~(a < z)
      BY <1>1, <2>2, <2>3, <2>4, <3>2
    <3> HIDE DEF a, y, z
    <3>4. QED
      BY <3>3
  <2>7. QED
    BY <2>5, <2>6
<1>3. QED
  BY <1>2

LEMMA ImageCount ==
    ASSUME NEW v, NEW n \in Nat, \A i, j \in 1..n : v[i] = v[j] => i = j,
           NEW T, \A t : t \in T <=> \E i \in 1..n : v[i] = t
    PROVE  Cardinality(T) = n
<1> DEFINE K == 1..n
           f == [i \in K |-> v[i]]
<1>1. IsFiniteSet(K) /\ Cardinality(K) = n
  BY IntervalIs
<1>2. f \in Surjection(K, T) /\ f \in Injection(K, T)
  <2>1. f \in [K -> T] /\ \A i \in K : f[i] = v[i]
    OBVIOUS
  <2>2. IsInjective(f)
    BY DEF IsInjective
  <2>3. \A t \in T : \E i \in K : f[i] = t
    OBVIOUS
  <2> HIDE DEF f, K
  <2>4. QED
    BY <2>1, <2>2, <2>3 DEF Surjection, Injection
<1> HIDE DEF K, f
<1>3. IsFiniteSet(T) /\ (Cardinality(T) = Cardinality(K) <=> f \in Injection(K, T))
  BY <1>1, <1>2, FS_Surjection
<1>4. QED
  BY <1>1, <1>2, <1>3 DEF K

\* All items are kept between m_pConsume and m_pProduce.
LEMMA KeptIs ==
    ASSUME Shape(ring), NEW w, Queue(ring, w)
    PROVE  /\ Kept = Holds /\ \A b : b \in Kept <=> \E i \in 1..Len(w) : w[i] = b
           /\ Blocks = On(ring) /\ Cardinality(Kept) = Len(w)
<1> DEFINE L == Len(w)
<1>1. /\ L \in Nat /\ \A n \in 1..L : w[n] \in On(ring) /\ ~Free(ring, w[n]) /\ Ahead(w[n]) \in Nat
      /\ \A n, m \in 1..L : w[n] = w[m] => n = m
      /\ \A b \in On(ring) : ~Free(ring, b) <=> \E i \in 1..L : w[i] = b
      /\ w # <<>> => ring.produce = NextBlock(ring, w[L]) /\ L \in 1..L /\ ring.consume = w[1]
  BY TrailIs, AheadIs DEF Queue, Trail
<1>2. Blocks = On(ring)
  BY DEF Blocks, On
<1>3. \A b : b \in Holds <=> \E i \in 1..L : w[i] = b
  BY <1>1, <1>2 DEF Holds
<1>4. ASSUME NEW i \in 1..L, ring.produce # ring.consume PROVE Ahead(w[i]) < Ahead(ring.produce)
  <2>1. L \in 1..L /\ 1 \in 1..L /\ w # <<>>
    BY <1>1
  <2>2. ring.produce \in On(ring) /\ Ahead(ring.produce) \in Nat
    BY AheadIs DEF Shape
  <2>3. Follows(ring, w[L], ring.produce) /\ NextBlock(ring, w[L]) = ring.produce
    BY <1>1, <2>1 DEF Follows
  <2>4. Ahead(w[L]) < Ahead(ring.produce)
    <3>1. w[L] \in On(ring) /\ ~Free(ring, ring.consume)
      BY <1>1, <2>1
    <3>2. QED
      BY <1>4, <2>2, <2>3, <3>1, AheadStep
  <2>5. i # L => Ahead(w[i]) < Ahead(w[L])
    <3>1. i # L => i < L
      BY <1>1
    <3>2. QED
      BY <2>1, <3>1, AheadUp
  <2> DEFINE a == Ahead(w[i])
             y == Ahead(w[L])
             z == Ahead(ring.produce)
  <2>6. a \in Nat /\ y \in Nat /\ z \in Nat /\ y < z /\ (a = y \/ a < y)
    BY <1>1, <2>1, <2>2, <2>4, <2>5
  <2> HIDE DEF a, y, z
  <2>7. a < z
    BY <2>6
  <2>8. QED
    BY <2>7 DEF a, z
<1>5. Kept = Holds
  BY <1>3, <1>4 DEF Kept
<1>6. Cardinality(Holds) = L
  <2>1. L \in Nat /\ (\A n, m \in 1..L : w[n] = w[m] => n = m)
        /\ \A b : b \in Holds <=> \E i \in 1..L : w[i] = b
    BY <1>1, <1>3
  <2> HIDE DEF L
  <2>2. QED
    BY <2>1, ImageCount
<1>7. QED
  BY <1>2, <1>3, <1>5, <1>6

\* So the contents are the items of the blocks, in their order.
LEMMA ContentsIs ==
    ASSUME Shape(ring), NEW w, Queue(ring, w)
    PROVE  Contents = [i \in 1..Len(w) |-> ring.block[w[i]].item]
<1> DEFINE L == Len(w)
           Rank(b) == Cardinality({c \in Kept : Ahead(c) < Ahead(b)})
<1>1. /\ L \in Nat /\ Cardinality(Kept) = L
      /\ \A b : b \in Kept <=> \E i \in 1..L : w[i] = b
      /\ \A n, m \in 1..L : w[n] = w[m] => n = m
      /\ \A n \in 1..L : Ahead(w[n]) \in Nat
  BY KeptIs, TrailIs, AheadIs DEF Queue, Trail
<1>2. ASSUME NEW i \in 1..L PROVE Rank(w[i]) = i - 1
  <2>1. ASSUME NEW j \in 1..L PROVE Ahead(w[j]) < Ahead(w[i]) <=> j < i
    <3>1. j < i => Ahead(w[j]) < Ahead(w[i])
      BY AheadUp
    <3>2. i < j => Ahead(w[i]) < Ahead(w[j])
      BY AheadUp
    <3> DEFINE a == Ahead(w[i])
               y == Ahead(w[j])
    <3>3. a \in Nat /\ y \in Nat /\ (j < i => y < a) /\ (i < j => a < y) /\ (i = j => a = y)
      BY <1>1, <3>1, <3>2
    <3> HIDE DEF a, y
    <3>4. y < a <=> j < i
      BY <1>1, <3>3
    <3>5. QED
      BY <3>4 DEF a, y
  <2> DEFINE n == i - 1
  <2>2. n \in Nat /\ n = i - 1
    BY <1>1
  <2> HIDE DEF n
  <2>3. \A j \in 1..L : j < i <=> j \in 1..n
    BY <1>1, <2>2
  <2>4. \A j \in 1..n : j \in 1..L
    BY <1>1, <2>2
  <2> DEFINE T == {c \in Kept : Ahead(c) < Ahead(w[i])}
  <2>5. \A c : c \in T <=> \E j \in 1..n : w[j] = c
    BY <1>1, <2>1, <2>3, <2>4
  <2> HIDE DEF T
  <2>6. Cardinality(T) = n
    <3>1. \A j, k \in 1..n : w[j] = w[k] => j = k
      BY <1>1, <2>4
    <3>2. QED
      BY <2>2, <2>5, <3>1, ImageCount
  <2>7. QED
    BY <2>2, <2>6 DEF T
<1> HIDE DEF Rank
<1>3. ASSUME NEW i \in 1..L PROVE (CHOOSE b \in Kept : Rank(b) = i - 1) = w[i]
  <2>1. w[i] \in Kept /\ Rank(w[i]) = i - 1
    BY <1>1, <1>2
  <2>2. ASSUME NEW b \in Kept, Rank(b) = i - 1 PROVE b = w[i]
    <3>1. PICK j \in 1..L : b = w[j]
      BY <1>1
    <3>2. j - 1 = i - 1
      BY <1>2, <2>2, <3>1
    <3>3. j = i
      BY <1>1, <3>2
    <3>4. QED
      BY <3>1, <3>3
  <2>3. QED
    BY <2>1, <2>2
<1> DEFINE At(i) == CHOOSE b \in Kept : Rank(b) = i - 1
<1>4. Contents = [i \in 1..L |-> ring.block[At(i)].item]
  BY <1>1 DEF Contents, Rank
<1>5. \A i \in 1..L : At(i) = w[i]
  BY <1>3
<1> HIDE DEF At
<1>6. QED
  BY <1>4, <1>5

-----------------------------------------------------------------------------
(* RingBuffer: the contents are a queue.                                   *)

ItemsOf(r, w) == [i \in 1..Len(w) |-> r.block[w[i]].item]

RingQueue == Shape(ring) /\ NoPair(ring) /\ \E w \in Seq(Address) : Queue(ring, w)

LEMMA ContentsOf == \A w : Shape(ring) /\ Queue(ring, w) => Contents = ItemsOf(ring, w)
BY ContentsIs DEF ItemsOf

LEMMA QueueSeq ==
    ASSUME NEW r, NEW w, Queue(r, w)
    PROVE  w \in Seq(Address) /\ Len(w) \in Nat
<1>1. w \in Seq(On(r)) /\ \A b \in On(r) : b \in Address
  BY DEF Queue, Trail, On
<1>2. QED
  BY <1>1

LEMMA SubSeqIs ==
    ASSUME NEW T, NEW u \in Seq(T), NEW k \in 0..Len(u)
    PROVE  /\ SubSeq(u, 1, k) = [i \in 1..k |-> u[i]]
           /\ SubSeq(u, k + 1, Len(u)) = [i \in 1..Len(u) - k |-> u[i + k]]
<1>1. Len(u) \in Nat /\ k \in Nat /\ k <= Len(u)
  OBVIOUS
<1>2. SubSeq(u, 1, k) = [i \in 1..k |-> u[i]]
  BY <1>1
<1>3. SubSeq(u, k + 1, Len(u)) = [i \in 1..Len(u) - k |-> u[i + k]]
  BY <1>1
<1>4. QED
  BY <1>2, <1>3

\* Every item fits in an empty buffer that is not too small for it.
LEMMA PlaceCleared ==
    ASSUME NEW x \in Items, ~TooBig(x)
    PROVE  Place(Cleared, x) = First /\ First # Null
<1>1. Wanted(x) \in Nat /\ Wanted(x) <= Units
  BY WantedIs, RingNumbers DEF TooBig
<1>2. Cleared.produce = First /\ Cleared.block[First].size = Units /\ Cleared.block[First].item = Null
  BY RingNumbers DEF Cleared
<1>3. Big(Cleared, First, x)
  BY <1>1, <1>2, RingNumbers DEF Big, Free
<1>4. QED
  BY <1>2, <1>3, RingNumbers DEF Place

\* What Allocate does when the item fits in the memory: it pops the first k items
\* and adds x, popping none when there is a place already.
\* Block b was found for x, the items of w that p.popped has are gone, and in
\* the buffer t with x stored it comes after the others.
Allocated(w, x, p, b, t) ==
    /\ b # Null
    /\ \E k \in 0..Len(w) : \E u :
          /\ Place(ring, x) # Null => k = 0
          /\ p.popped = [i \in 1..k |-> ring.block[w[i]].item]
          /\ Shape(t) /\ NoPair(t) /\ Queue(t, u)
          /\ ItemsOf(t, u) = Append([i \in 1..Len(w) - k |-> ring.block[w[i + k]].item], x)

LEMMA AllocateQueue ==
    ASSUME Shape(ring), NoPair(ring), NEW w \in Seq(Address), Queue(ring, w),
           NEW x \in Items, ~TooBig(x),
           NEW p, p = Recycled(x), NEW b, b = Place(p.ring, x), NEW t, t = Stored(p.ring, b, x)
    PROVE  Allocated(w, x, p, b, t)
<1> DEFINE L == Len(w)
<1>1. PICK k \in 0..L :
              /\ GivenUp(w, k, p)
              /\ Place(p.ring, x) # Null \/ Empty(p.ring)
              /\ Place(ring, x) # Null => k = 0 /\ p = [ring |-> ring, popped |-> <<>>]
  BY RecycledQueue
<1> DEFINE v == After(w, k)
<1>2. /\ Shape(p.ring) /\ NoPair(p.ring) /\ Queue(p.ring, v)
      /\ p.popped = [i \in 1..k |-> ring.block[w[i]].item]
      /\ \A i \in k + 1..L : p.ring.block[w[i]].item = ring.block[w[i]].item
  BY <1>1 DEF GivenUp
<1>3. L \in Nat /\ k \in Nat /\ L - k \in Nat /\ Len(v) = L - k /\ \A i \in 1..L - k : v[i] = w[i + k]
  BY AfterIs
<1>4. b # Null
  <2>1. CASE Empty(p.ring)
    <3>1. v = <<>>
      BY <1>2, <2>1, EmptyIs
    <3> HIDE DEF v
    <3>2. \A a \in On(p.ring) : Free(p.ring, a)
      <4>1. Len(v) = 0
        BY <3>1
      <4>2. QED
        BY <1>2, <4>1 DEF Queue, Trail
    <3>3. p.ring = Cleared
      BY <1>2, <3>2, NoneHeld
    <3>4. QED
      BY <3>3, PlaceCleared
  <2>2. QED
    BY <1>1, <2>1
<1> HIDE DEF v
<1>5. /\ Shape(t) /\ NoPair(t) /\ Queue(t, Append(v, b)) /\ t.block[b].item = x
      /\ \A i \in 1..Len(v) : t.block[v[i]].item = p.ring.block[v[i]].item
  BY <1>2, <1>4, StoredQueue
<1> DEFINE u == Append(v, b)
<1>6. v \in Seq(Address) /\ b \in Address
  <2>1. v \in Seq(Address)
    BY <1>2, QueueSeq
  <2>2. b \in On(p.ring)
    BY <1>2, <1>4, PlaceIs
  <2>3. QED
    BY <2>1, <2>2 DEF On
<1>7. Len(u) = (L - k) + 1 /\ u[(L - k) + 1] = b /\ \A i \in 1..L - k : u[i] = v[i]
  BY <1>3, <1>6
<1> HIDE DEF u
<1>8. ASSUME NEW i \in 1..L - k PROVE t.block[u[i]].item = ring.block[w[i + k]].item
  <2>1. i + k \in k + 1..L /\ i \in 1..Len(v)
    BY <1>3
  <2>2. u[i] = v[i] /\ v[i] = w[i + k]
    BY <1>3, <1>7
  <2>3. t.block[v[i]].item = p.ring.block[v[i]].item
    BY <1>5, <2>1
  <2>4. p.ring.block[w[i + k]].item = ring.block[w[i + k]].item
    BY <1>2, <2>1
  <2>5. QED
    BY <2>2, <2>3, <2>4
<1> DEFINE It(i) == ring.block[w[i + k]].item
           Jt(i) == t.block[u[i]].item
           n == L - k
<1>9. /\ n \in Nat /\ Len(u) = n + 1 /\ Jt(n + 1) = x /\ \A i \in 1..n : Jt(i) = It(i)
  BY <1>3, <1>5, <1>7, <1>8
<1>10. ItemsOf(t, u) = [i \in 1..Len(u) |-> Jt(i)]
  BY DEF ItemsOf
<1> HIDE DEF It, Jt, n
<1>11. [i \in 1..Len(u) |-> Jt(i)] = Append([i \in 1..n |-> It(i)], x)
  <2>1. Append([i \in 1..n |-> It(i)], x) = [i \in 1..n + 1 |-> IF i = n + 1 THEN x ELSE It(i)]
    BY <1>9
  <2>2. \A i \in 1..n + 1 : i = n + 1 \/ i \in 1..n
    BY <1>9
  <2>3. QED
    BY <1>9, <2>1, <2>2
<1>12. ItemsOf(t, u) = Append([i \in 1..L - k |-> ring.block[w[i + k]].item], x)
  BY <1>10, <1>11 DEF It, n
<1>13. Shape(t) /\ NoPair(t) /\ Queue(t, u)
  BY <1>5 DEF u
<1>14. QED
  BY <1>1, <1>2, <1>4, <1>12, <1>13 DEF Allocated

\* The new buffer r, with its items those of u.
LEMMA NewRing ==
    ASSUME NEW r, ring' = r, Shape(r), NoPair(r), NEW u, Queue(r, u)
    PROVE  RingQueue' /\ Contents' = ItemsOf(r, u)
<1>1. Shape(ring)' /\ NoPair(ring)' /\ Queue(ring, u)'
  BY DEF Shape, NoPair, Queue, Trail, Follows, NextBlock, Rings, On, Linked, BackLinked, Roomy,
         Apart, Joins, Free
<1>2. u \in Seq(Address)
  BY QueueSeq
<1>3. RingQueue'
  BY <1>1, <1>2 DEF RingQueue
<1>4. (\A w : Shape(ring) /\ Queue(ring, w) => Contents = ItemsOf(ring, w))'
  BY ContentsOf, PTL
<1>5. Contents' = ItemsOf(ring, u)'
  BY <1>1, <1>4
<1>6. ItemsOf(ring, u)' = ItemsOf(r, u)
  BY DEF ItemsOf
<1>7. QED
  BY <1>3, <1>5, <1>6

LEMMA SameRing ==
    ASSUME RingQueue, UNCHANGED ring
    PROVE  RingQueue' /\ UNCHANGED Contents
<1>1. PICK r : r = ring
  OBVIOUS
<1>2. PICK w : Queue(ring, w)
  BY DEF RingQueue
<1>3. Shape(r) /\ NoPair(r) /\ Queue(r, w) /\ ring' = r
  BY <1>1, <1>2 DEF RingQueue
<1>4. RingQueue' /\ Contents' = ItemsOf(r, w)
  BY <1>3, NewRing
<1>5. Contents = ItemsOf(r, w)
  BY <1>1, <1>2, ContentsOf DEF RingQueue
<1>6. QED
  BY <1>4, <1>5

\* The contents, as a sequence, and what remains of it when k items are gone.
LEMMA ContentsTail ==
    ASSUME Shape(ring), NEW w \in Seq(Address), Queue(ring, w), NEW k \in 0..Len(w)
    PROVE  /\ Len(Contents) = Len(w) /\ Len(w) \in Nat
           /\ SubSeq(Contents, 1, k) = [i \in 1..k |-> ring.block[w[i]].item]
           /\ SubSeq(Contents, k + 1, Len(Contents))
                = [i \in 1..Len(w) - k |-> ring.block[w[i + k]].item]
<1> DEFINE It(i) == ring.block[w[i]].item
           T == Items \cup {Null}
           L == Len(w)
           c == Contents
<1>1. L \in Nat /\ k \in 0..L
  OBVIOUS
<1>2. \A i \in 1..L : It(i) \in T
  <2>1. \A i \in 1..L : w[i] \in On(ring)
    BY TrailIs DEF Queue
  <2>2. \A b \in On(ring) : ring.block[b].item \in T
    BY BlockOf DEF Shape
  <2>3. QED
    BY <2>1, <2>2
<1>3. c = [i \in 1..L |-> It(i)]
  BY ContentsIs
<1> HIDE DEF It, T, c, L
<1>4. c \in Seq(T) /\ Len(c) = L
  BY <1>1, <1>2, <1>3
<1>5. /\ SubSeq(c, 1, k) = [i \in 1..k |-> c[i]]
      /\ SubSeq(c, k + 1, Len(c)) = [i \in 1..Len(c) - k |-> c[i + k]]
  BY <1>1, <1>4, SubSeqIs
<1>6. (\A i \in 1..k : c[i] = It(i)) /\ (\A i \in 1..L - k : c[i + k] = It(i + k))
  BY <1>1, <1>3
<1>7. /\ SubSeq(c, 1, k) = [i \in 1..k |-> It(i)]
      /\ SubSeq(c, k + 1, Len(c)) = [i \in 1..L - k |-> It(i + k)]
  BY <1>4, <1>5, <1>6
<1>8. QED
  BY <1>1, <1>4, <1>7 DEF It, L, c

LEMMA AllocateFifo ==
    ASSUME RingQueue, NEW x \in Items, Allocate(x)
    PROVE  RingQueue' /\ F!Next
<1>1. CASE Refused
  BY <1>1, SameRing DEF Refused, Allocate, F!Next, F!Refuse
<1>2. CASE ~TooBig(x) /\ (recycle \/ Place(ring, x) # Null) /\ ~Refused
  <2> DEFINE p == Recycled(x)
             b == Place(p.ring, x)
             t == Stored(p.ring, b, x)
  <2>1. PICK w \in Seq(Address) : Queue(ring, w)
    BY DEF RingQueue
  <2>2. Shape(ring) /\ NoPair(ring)
    BY DEF RingQueue
  <2>3. Allocated(w, x, p, b, t)
    <3>1. p = Recycled(x) /\ b = Place(p.ring, x) /\ t = Stored(p.ring, b, x)
      OBVIOUS
    <3> HIDE DEF p, b, t
    <3>2. ~TooBig(x)
      BY <1>2
    <3>3. QED
      BY <2>1, <2>2, <3>1, <3>2, AllocateQueue
  <2>4. UNCHANGED recycle /\ ring' = (IF b = Null THEN p.ring ELSE t) /\ popped' = p.popped
    BY <1>2 DEF Allocate
  <2> HIDE DEF p, b, t
  <2>5. PICK k \in 0..Len(w) : \E u :
              /\ Place(ring, x) # Null => k = 0
              /\ p.popped = [i \in 1..k |-> ring.block[w[i]].item]
              /\ Shape(t) /\ NoPair(t) /\ Queue(t, u)
              /\ ItemsOf(t, u) = Append([i \in 1..Len(w) - k |-> ring.block[w[i + k]].item], x)
    BY <2>3 DEF Allocated
  <2>6. PICK u :
              /\ Place(ring, x) # Null => k = 0
              /\ p.popped = [i \in 1..k |-> ring.block[w[i]].item]
              /\ Shape(t) /\ NoPair(t) /\ Queue(t, u)
              /\ ItemsOf(t, u) = Append([i \in 1..Len(w) - k |-> ring.block[w[i + k]].item], x)
    BY <2>5
  <2>7. RingQueue' /\ Contents' = ItemsOf(t, u)
    <3>1. ring' = t
      BY <2>3, <2>4 DEF Allocated
    <3>2. QED
      BY <2>6, <3>1, NewRing
  <2>8. /\ Len(Contents) = Len(w) /\ SubSeq(Contents, 1, k) = popped'
        /\ Contents' = Append(SubSeq(Contents, k + 1, Len(Contents)), x)
    BY <2>1, <2>2, <2>4, <2>6, <2>7, ContentsTail
  <2>9. k > 0 => recycle
    BY <1>2, <2>6
  <2>10. F!Put
    BY <2>4, <2>8, <2>9 DEF F!Put, F!TakeOut, F!Rest
  <2>11. QED
    BY <2>7, <2>10 DEF F!Next
<1>3. QED
  BY <1>1, <1>2 DEF Allocate

LEMMA PopFirstFifo ==
    ASSUME RingQueue, PopFirst
    PROVE  RingQueue' /\ F!Next
<1>1. CASE Empty(ring)
  BY <1>1, SameRing DEF Refused, PopFirst, F!Next, F!Refuse
<1>2. CASE ~Empty(ring)
  <2> DEFINE a == [ring |-> ring, popped |-> <<>>]
             p == PopOne(a)
  <2>1. PICK w \in Seq(Address) : Queue(ring, w)
    BY DEF RingQueue
  <2>2. Shape(ring) /\ NoPair(ring) /\ 0 \in 0..Len(w)
    BY DEF RingQueue
  <2>3. GivenUp(w, 0, a)
    BY <2>1, <2>2, GiveUpNone
  <2>4. 0 + 1 \in 0..Len(w) /\ GivenUp(w, 0 + 1, p)
    <3>1. ~Empty(a.ring)
      BY <1>2
    <3> HIDE DEF a
    <3>2. QED
      BY <2>1, <2>2, <2>3, <3>1, GiveUpOne
  <2>5. UNCHANGED recycle /\ ring' = p.ring /\ popped' = p.popped
    BY <1>2 DEF PopFirst
  <2> HIDE DEF p, a
  <2> DEFINE v == After(w, 1)
  <2>6. /\ 1 \in 0..Len(w) /\ Shape(p.ring) /\ NoPair(p.ring) /\ Queue(p.ring, v)
        /\ p.popped = [i \in 1..1 |-> ring.block[w[i]].item]
        /\ \A i \in 2..Len(w) : p.ring.block[w[i]].item = ring.block[w[i]].item
    BY <2>4 DEF GivenUp
  <2>7. Len(w) \in Nat /\ Len(v) = Len(w) - 1 /\ \A i \in 1..Len(w) - 1 : v[i] = w[i + 1]
    <3>1. Len(w) \in Nat /\ 1 \in 0..Len(w)
      BY <2>6
    <3>2. /\ Len(After(w, 1)) = Len(w) - 1
          /\ \A i \in 1..Len(w) - 1 : After(w, 1)[i] = w[i + 1]
      BY <3>1, AfterIs
    <3>3. QED
      BY <3>1, <3>2
  <2> HIDE DEF v
  <2>8. RingQueue' /\ Contents' = ItemsOf(p.ring, v)
    BY <2>5, <2>6, NewRing
  <2>9. /\ Len(Contents) = Len(w) /\ SubSeq(Contents, 1, 1) = popped'
        /\ SubSeq(Contents, 1 + 1, Len(Contents)) = [i \in 1..Len(w) - 1 |-> ring.block[w[i + 1]].item]
    BY <2>1, <2>2, <2>5, <2>6, ContentsTail
  <2>10. ASSUME NEW i \in 1..Len(w) - 1 PROVE p.ring.block[v[i]].item = ring.block[w[i + 1]].item
    <3>1. i + 1 \in 2..Len(w)
      BY <2>7
    <3>2. QED
      BY <2>6, <2>7, <3>1
  <2>11. ItemsOf(p.ring, v) = [i \in 1..Len(w) - 1 |-> ring.block[w[i + 1]].item]
    BY <2>7, <2>10 DEF ItemsOf
  <2>12. Contents # <<>>
    <3>1. Len(Contents) # 0
      BY <2>6, <2>7, <2>9
    <3>2. QED
      BY <3>1
  <2>13. F!Get
    BY <2>5, <2>8, <2>9, <2>11, <2>12 DEF F!Get, F!TakeOut, F!Rest
  <2>14. QED
    BY <2>8, <2>13 DEF F!Next
<1>3. QED
  BY <1>1, <1>2

LEMMA ClearedQueue ==
    Shape(Cleared) /\ NoPair(Cleared) /\ Queue(Cleared, <<>>) /\ ItemsOf(Cleared, <<>>) = <<>>
<1>1. Shape(Cleared) /\ NoPair(Cleared) /\ \A a \in On(Cleared) : Free(Cleared, a)
  BY ClearedShape DEF Free
<1>2. Queue(Cleared, <<>>)
  BY <1>1, QueueNone
<1>3. ItemsOf(Cleared, <<>>) = <<>>
  BY DEF ItemsOf
<1>4. QED
  BY <1>1, <1>2, <1>3

LEMMA RingStep ==
    ASSUME RingQueue, [RingNext]_ringVars
    PROVE  RingQueue' /\ [F!Next]_<<recycle, Contents, popped>>
<1>1. ASSUME NEW x \in Items, Allocate(x) PROVE RingQueue' /\ F!Next
  BY <1>1, AllocateFifo
<1>2. CASE PopFirst
  BY <1>2, PopFirstFifo
<1>3. CASE Clear
  <2> DEFINE r == Cleared
  <2>1. ring' = r /\ Shape(r) /\ NoPair(r) /\ Queue(r, <<>>) /\ ItemsOf(r, <<>>) = <<>>
    BY <1>3, ClearedQueue DEF Clear
  <2> HIDE DEF r
  <2>2. RingQueue' /\ Contents' = <<>>
    BY <2>1, NewRing
  <2>3. F!Forget
    BY <1>3, <2>2 DEF Clear, F!Forget
  <2>4. QED
    BY <2>2, <2>3 DEF F!Next
<1>4. CASE UNCHANGED ringVars
  BY <1>4, SameRing DEF ringVars
<1>5. QED
  BY <1>1, <1>2, <1>3, <1>4 DEF RingNext

LEMMA RingStart == RingInit => RingQueue /\ F!Init
<1> SUFFICES ASSUME RingInit PROVE RingQueue /\ F!Init
  OBVIOUS
<1>1. ring = Cleared /\ recycle \in BOOLEAN /\ popped = <<>>
  BY DEF RingInit
<1>2. Shape(ring) /\ NoPair(ring) /\ Queue(ring, <<>>) /\ ItemsOf(ring, <<>>) = <<>>
  BY <1>1, ClearedQueue
<1>3. <<>> \in Seq(Address)
  OBVIOUS
<1>4. Contents = <<>>
  BY <1>2, ContentsOf
<1>5. QED
  BY <1>1, <1>2, <1>3, <1>4 DEF RingQueue, F!Init

\* The buffer is a queue of the items stored: the oldest leave it first, to
\* PopFirst or, under FLAG_RECYCLE, to make room, and the callback sees them.
THEOREM RingIsFifo == RingSpec => FifoSpec
<1>1. RingSpec => []RingQueue
  BY RingStart, RingStep, PTL DEF RingSpec
<1>2. RingInit => F!Init
  BY RingStart
<1>3. RingQueue /\ [RingNext]_ringVars => [F!Next]_<<recycle, Contents, popped>>
  BY RingStep
<1>4. QED
  BY <1>1, <1>2, <1>3, PTL DEF RingSpec, FifoSpec, F!Spec

-----------------------------------------------------------------------------
(* RingBuffer: First/Next and Last/Prev.                                   *)

\* Next and Prev need to look at two blocks at most.
LEMMA SkipIs ==
    ASSUME NEW r, NEW b, NEW way, NEW y, y = Step(r, b, way),
           NEW z, z = (IF y = r.produce \/ ~Free(r, y) THEN y ELSE Step(r, y, way)),
           z = r.produce \/ ~Free(r, z)
    PROVE  Skip(r, b, way) = IF z = r.produce THEN Null ELSE z
<1> DEFINE D == 0..Units
           Go(c) == IF c = r.produce \/ ~Free(r, c) THEN c ELSE Step(r, c, way)
           Turn(f) == [n \in D |-> IF n = 0 THEN Step(r, b, way)
                                   ELSE LET c == f[n - 1]
                                        IN  IF c = r.produce \/ ~Free(r, c) THEN c ELSE Step(r, c, way)]
           h == [n \in D |-> IF n = 0 THEN y ELSE z]
           go == CHOOSE f : f = Turn(f)
<1>1. Skip(r, b, way) = IF go[Units] = r.produce THEN Null ELSE go[Units]
  BY DEF Skip
<1>2. Units \in Nat \ {0}
  BY RingNumbers
<1>3. Go(y) = z /\ Go(z) = z /\ Step(r, b, way) = y
  OBVIOUS
<1>4. \A f : Turn(f) = [n \in D |-> IF n = 0 THEN y ELSE Go(f[n - 1])]
  OBVIOUS
<1> HIDE DEF Go, Turn
<1>5. h = Turn(h)
  <2>1. ASSUME NEW n \in D, n # 0 PROVE n - 1 \in D /\ Go(h[n - 1]) = z
    <3>1. n - 1 \in D
      BY <1>2, <2>1
    <3>2. h[n - 1] = y \/ h[n - 1] = z
      BY <3>1
    <3>3. QED
      BY <1>3, <3>1, <3>2
  <2> DEFINE G(n) == IF n = 0 THEN y ELSE Go(h[n - 1])
  <2>2. \A n \in D : h[n] = G(n)
    BY <2>1
  <2>3. h = [n \in D |-> h[n]]
    OBVIOUS
  <2>4. Turn(h) = [n \in D |-> G(n)]
    BY <1>4
  <2> HIDE DEF h, G
  <2>5. QED
    BY <2>2, <2>3, <2>4
<1>6. ASSUME NEW f, f = Turn(f)
      PROVE  f = h
  <2> DEFINE T == {k \in D : f[k] # h[k]}
  <2>1. /\ f = [k \in D |-> f[k]] /\ h = [k \in D |-> h[k]]
        /\ \A k \in D : f[k] = IF k = 0 THEN y ELSE Go(f[k - 1])
    BY <1>4, <1>6
  <2>2. \A k \in D : h[k] = IF k = 0 THEN y ELSE z
    OBVIOUS
  <2> HIDE DEF h
  <2>3. CASE T = {}
    BY <2>1, <2>3
  <2>4. CASE T # {}
    <3>1. T \in SUBSET Nat
      BY <1>2
    <3>2. PICK m \in T : \A n \in T : ~(n < m)
      BY <2>4, <3>1, LeastNumber
    <3>3. m \in D /\ m # 0 /\ f[m] # h[m]
      BY <2>1, <2>2, <3>2
    <3>4. m - 1 \in D /\ m - 1 < m
      BY <1>2, <3>3
    <3>5. f[m - 1] = h[m - 1]
      BY <3>2, <3>4
    <3>6. f[m] = h[m]
      BY <1>3, <2>1, <2>2, <3>3, <3>4, <3>5
    <3>7. QED
      BY <3>3, <3>6
  <2>5. QED
    BY <2>3, <2>4
<1>7. h[Units] = z
  BY <1>2
<1> HIDE DEF h, Turn
<1>8. (CHOOSE f : f = Turn(f)) = h
  BY <1>5, <1>6
<1>9. QED
  BY <1>1, <1>7, <1>8

\* The walk from b on, when it is known which blocks Next or Prev gives.
LEMMA MetIs ==
    ASSUME NEW r, NEW b, NEW way, NEW m \in 0..Units, NEW v,
           \A n \in 1..m : v[n] # Null,
           b = (IF m = 0 THEN Null ELSE v[1]),
           \A n \in 1..m : Skip(r, v[n], way) = IF n = m THEN Null ELSE v[n + 1]
    PROVE  Met(r, b, way) = [i \in 1..m |-> r.block[v[i]].item]
<1> DEFINE D == 1..Units
           Go(c) == IF c = Null THEN Null ELSE Skip(r, c, way)
           Turn(f) == [n \in D |-> IF n = 1 THEN b
                                   ELSE LET c == f[n - 1] IN IF c = Null THEN Null ELSE Skip(r, c, way)]
           h == [n \in D |-> IF n <= m THEN v[n] ELSE Null]
           at == CHOOSE f : f = Turn(f)
<1>1. Met(r, b, way) = [i \in 1..Cardinality({n \in D : at[n] # Null}) |-> r.block[at[i]].item]
  BY DEF Met
<1>2. Units \in Nat \ {0} /\ m \in Nat /\ m <= Units
  BY RingNumbers
<1>3. \A f : Turn(f) = [n \in D |-> IF n = 1 THEN b ELSE Go(f[n - 1])]
  OBVIOUS
<1>4. Go(Null) = Null /\ \A n \in 1..m : Go(v[n]) = IF n = m THEN Null ELSE v[n + 1]
  OBVIOUS
<1> HIDE DEF Go, Turn
<1>5. \A n \in D : h[n] = IF n <= m THEN v[n] ELSE Null
  OBVIOUS
<1>6. DOMAIN h = D /\ h = [n \in D |-> h[n]]
  OBVIOUS
<1> HIDE DEF h
<1>7. ASSUME NEW n \in D PROVE h[n] = IF n = 1 THEN b ELSE Go(h[n - 1])
  <2>1. CASE n = 1
    BY <1>2, <1>5, <2>1
  <2>2. CASE n # 1
    <3>1. n - 1 \in D /\ (n - 1) + 1 = n
      BY <1>2, <2>2
    <3>2. CASE n - 1 <= m
      <4>1. n - 1 \in 1..m /\ (n - 1 = m <=> ~(n <= m))
        BY <1>2, <2>2, <3>2
      <4>2. Go(h[n - 1]) = IF n - 1 = m THEN Null ELSE v[n]
        BY <1>4, <1>5, <3>1, <3>2, <4>1
      <4>3. QED
        BY <1>5, <2>2, <4>1, <4>2
    <3>3. CASE ~(n - 1 <= m)
      <4>1. ~(n <= m)
        BY <1>2, <3>3
      <4>2. QED
        BY <1>4, <1>5, <2>2, <3>1, <3>3, <4>1
    <3>4. QED
      BY <3>2, <3>3
  <2>3. QED
    BY <2>1, <2>2
<1>8. h = Turn(h)
  BY <1>3, <1>6, <1>7
<1>9. ASSUME NEW f, f = Turn(f)
      PROVE  f = h
  <2> DEFINE T == {k \in D : f[k] # h[k]}
  <2>1. /\ f = [k \in D |-> f[k]]
        /\ \A k \in D : f[k] = IF k = 1 THEN b ELSE Go(f[k - 1])
    BY <1>3, <1>9
  <2>2. CASE T = {}
    BY <1>6, <2>1, <2>2
  <2>3. CASE T # {}
    <3>1. T \in SUBSET Nat
      BY <1>2
    <3>2. PICK k \in T : \A n \in T : ~(n < k)
      BY <2>3, <3>1, LeastNumber
    <3>3. k \in D /\ f[k] # h[k] /\ k # 1
      BY <1>7, <2>1, <3>2
    <3>4. k - 1 \in D /\ k - 1 < k
      BY <1>2, <3>3
    <3>5. f[k - 1] = h[k - 1]
      BY <3>2, <3>4
    <3>6. f[k] = h[k]
      BY <1>7, <2>1, <3>3, <3>5
    <3>7. QED
      BY <3>3, <3>6
  <2>4. QED
    BY <2>2, <2>3
<1>10. at = h
  <2> HIDE DEF Turn
  <2>1. (CHOOSE f : f = Turn(f)) = h
    BY <1>8, <1>9
  <2>2. QED
    BY <2>1
<1> HIDE DEF at
<1>11. {n \in D : h[n] # Null} = 1..m
  BY <1>2, <1>5
<1>12. Cardinality({n \in D : h[n] # Null}) = m
  BY <1>2, <1>11, IntervalIs
<1>13. Met(r, b, way) = [i \in 1..m |-> r.block[h[i]].item]
  BY <1>1, <1>10, <1>12
<1>14. \A i \in 1..m : h[i] = v[i]
  BY <1>2, <1>5
<1>15. QED
  BY <1>13, <1>14


\* Only the first item can be at m_pProduce, when no block is free, and only
\* the last one is before it.
LEMMA ProduceIs ==
    ASSUME NEW r, Shape(r), NEW w, Queue(r, w), NEW j \in 1..Len(w)
    PROVE  /\ NextBlock(r, w[j]) = r.produce <=> j = Len(w)
           /\ w[j] = r.produce <=> j = 1 /\ r.produce = r.consume
<1> DEFINE L == Len(w)
<1>1. /\ L \in Nat /\ \A i \in 1..L : w[i] \in On(r) /\ ~Free(r, w[i])
      /\ \A i, k \in 1..L : w[i] = w[k] => i = k
      /\ \A i \in 1..L - 1 : Follows(r, w[i], w[i + 1])
  BY TrailIs DEF Queue, Trail
<1>2. 1 \in 1..L /\ L \in 1..L /\ w # <<>>
  BY <1>1
<1>3. r.produce = NextBlock(r, w[L]) /\ r.consume = w[1]
  BY <1>2 DEF Queue, Trail
<1>4. \A i \in 1..L : PrevBlock(r, NextBlock(r, w[i])) = w[i]
  BY <1>1, RoundIs
<1>5. NextBlock(r, w[j]) = r.produce <=> j = L
  BY <1>1, <1>2, <1>3, <1>4
<1>6. ASSUME w[j] = r.produce, j # 1 PROVE FALSE
  <2>1. j - 1 \in 1..L /\ j - 1 \in 1..L - 1 /\ (j - 1) + 1 = j /\ j - 1 # L
    BY <1>1, <1>6
  <2>2. Follows(r, w[j - 1], w[j])
    BY <1>1, <2>1
  <2>3. CASE NextBlock(r, w[j - 1]) = w[j]
    <3>1. w[j - 1] = w[L]
      BY <1>2, <1>3, <1>4, <1>6, <2>1, <2>3
    <3>2. QED
      BY <1>1, <1>2, <2>1, <3>1
  <2>4. CASE NextBlock(r, w[j - 1]) # w[j]
    <3> DEFINE k == NextBlock(r, w[j - 1])
    <3>1. Free(r, k) /\ NextBlock(r, k) = w[j] /\ k \in On(r)
      BY <1>1, <2>1, <2>2, <2>4, NextIs DEF Follows
    <3>2. k = w[L]
      <4>1. PrevBlock(r, NextBlock(r, k)) = k
        BY <3>1, RoundIs
      <4>2. QED
        BY <1>2, <1>3, <1>4, <1>6, <3>1, <4>1
    <3>3. QED
      BY <1>1, <1>2, <3>1, <3>2
  <2>5. QED
    BY <2>3, <2>4
<1>7. QED
  BY <1>3, <1>5, <1>6

\* Next, from an item of the queue.
LEMMA SkipNext ==
    ASSUME NEW r, Shape(r), NEW w, Queue(r, w), NEW i \in 1..Len(w)
    PROVE  Skip(r, w[i], "next") = IF i = Len(w) THEN Null ELSE w[i + 1]
<1> DEFINE L == Len(w)
           y == NextBlock(r, w[i])
           z == IF y = r.produce \/ ~Free(r, y) THEN y ELSE NextBlock(r, y)
<1>1. /\ L \in Nat /\ \A k \in 1..L : w[k] \in On(r) /\ ~Free(r, w[k])
      /\ \A k \in 1..L - 1 : Follows(r, w[k], w[k + 1])
  BY TrailIs DEF Queue, Trail
<1>2. /\ y = Step(r, w[i], "next")
      /\ z = (IF y = r.produce \/ ~Free(r, y) THEN y ELSE Step(r, y, "next"))
  BY DEF Step
<1>3. y = r.produce <=> i = L
  BY ProduceIs
<1>4. i # L => z = w[i + 1] /\ ~Free(r, z) /\ z # r.produce
  <2> SUFFICES ASSUME i # L PROVE z = w[i + 1] /\ ~Free(r, z) /\ z # r.produce
    OBVIOUS
  <2>1. i \in 1..L - 1 /\ i + 1 \in 1..L /\ i + 1 # 1
    BY <1>1
  <2>2. Follows(r, w[i], w[i + 1]) /\ ~Free(r, w[i + 1]) /\ y # r.produce
    BY <1>1, <1>3, <2>1
  <2>3. w[i + 1] # r.produce
    BY <2>1, ProduceIs
  <2>4. z = w[i + 1]
    BY <2>2 DEF Follows
  <2>5. QED
    BY <2>2, <2>3, <2>4
<1> HIDE DEF y
<1>5. z = r.produce \/ ~Free(r, z)
  BY <1>3, <1>4
<1>6. z = r.produce <=> i = L
  BY <1>3, <1>4
<1> HIDE DEF z
<1>7. Skip(r, w[i], "next") = IF z = r.produce THEN Null ELSE z
  BY <1>2, <1>5, SkipIs
<1>8. QED
  BY <1>4, <1>6, <1>7

\* Going back from the first item, which is not at m_pProduce, leads to it.
LEMMA BackToProduce ==
    ASSUME NEW r, Shape(r), NoPair(r), NEW w, Queue(r, w), w # <<>>, r.produce # r.consume,
           NEW y, y = PrevBlock(r, r.consume),
           NEW z, z = (IF y = r.produce \/ ~Free(r, y) THEN y ELSE PrevBlock(r, y))
    PROVE  z = r.produce
<1> DEFINE L == Len(w)
<1>1. /\ L \in Nat /\ \A i \in 1..L : w[i] \in On(r) /\ ~Free(r, w[i])
      /\ \A i, k \in 1..L : w[i] = w[k] => i = k
      /\ \A b \in On(r) : ~Free(r, b) <=> \E i \in 1..L : w[i] = b
      /\ \A i \in 1..L - 1 : Follows(r, w[i], w[i + 1])
      /\ 1 \in 1..L /\ r.consume = w[1]
  BY TrailIs DEF Queue, Trail
<1>2. y \in On(r) /\ NextBlock(r, y) = w[1]
  BY <1>1, RoundIs
\* The block after one in use is m_pProduce, in use, or the gap before First.
<1>3. ASSUME NEW b \in On(r), ~Free(r, b), NextBlock(r, b) # r.produce
      PROVE  \E j \in 1..L : /\ j # 1 /\ Follows(r, b, w[j])
  <2>1. PICK j \in 1..L : w[j] = b
    BY <1>1, <1>3
  <2>2. j # L
    BY <1>3, <2>1, ProduceIs
  <2>3. j \in 1..L - 1 /\ j + 1 \in 1..L /\ j + 1 # 1
    BY <1>1, <2>2
  <2>4. QED
    BY <1>1, <2>1, <2>3
<1>4. SUFFICES ASSUME y # r.produce PROVE z = r.produce
  OBVIOUS
<1>5. Free(r, y)
  <2> SUFFICES ASSUME ~Free(r, y) PROVE FALSE
    OBVIOUS
  <2>1. NextBlock(r, y) # r.produce
    BY <1>1, <1>2
  <2>2. PICK j \in 1..L : j # 1 /\ Follows(r, y, w[j])
    BY <1>2, <1>3, <2>1
  <2>3. QED
    BY <1>1, <1>2, <2>2 DEF Follows
<1>6. z = PrevBlock(r, y) /\ z \in On(r) /\ NextBlock(r, z) = y
  BY <1>2, <1>4, <1>5, RoundIs
<1>7. y = First /\ Free(r, z)
  <2>1. ~Free(r, z) => FALSE
    <3> SUFFICES ASSUME ~Free(r, z) PROVE FALSE
      OBVIOUS
    <3>1. PICK j \in 1..L : j # 1 /\ Follows(r, z, w[j])
      BY <1>3, <1>4, <1>6
    <3>2. w[j] = NextBlock(r, y)
      BY <1>1, <1>5, <1>6, <3>1 DEF Follows
    <3>3. QED
      BY <1>1, <1>2, <3>1, <3>2
  <2>2. ~Joins(r, y)
    BY <1>2 DEF NoPair
  <2>3. QED
    BY <1>2, <1>5, <1>6, <2>1, <2>2, JoinsIs
<1>8. z # First
  BY <1>1, <1>2, <1>5, <1>6, <1>7
<1> DEFINE p == PrevBlock(r, z)
<1>9. p \in On(r) /\ NextBlock(r, p) = z /\ ~Free(r, p)
  <2>1. ~Joins(r, z)
    BY <1>6 DEF NoPair
  <2>2. QED
    BY <1>6, <1>7, <1>8, <2>1, JoinsIs, RoundIs
<1> SUFFICES ASSUME z # r.produce PROVE FALSE
  OBVIOUS
<1>10. PICK j \in 1..L : j # 1 /\ Follows(r, p, w[j])
  BY <1>3, <1>9
<1>11. w[j] = First
  BY <1>1, <1>7, <1>9, <1>10 DEF Follows
<1>12. QED
  BY <1>1, <1>5, <1>7, <1>11

\* Prev, from an item of the queue: past the oldest one there is m_pProduce, and
\* the oldest one itself is out of reach when m_pProduce is there.
LEMMA SkipPrev ==
    ASSUME NEW r, Shape(r), NoPair(r), NEW w, Queue(r, w), NEW i \in 1..Len(w),
           i = 1 => r.produce # r.consume
    PROVE  Skip(r, w[i], "prev") =
               IF i = 1 \/ (i = 2 /\ r.produce = r.consume) THEN Null ELSE w[i - 1]
<1> DEFINE L == Len(w)
           y == PrevBlock(r, w[i])
           z == IF y = r.produce \/ ~Free(r, y) THEN y ELSE PrevBlock(r, y)
<1>1. /\ L \in Nat /\ \A k \in 1..L : w[k] \in On(r) /\ ~Free(r, w[k])
      /\ \A k \in 1..L - 1 : Follows(r, w[k], w[k + 1])
      /\ 1 \in 1..L /\ r.consume = w[1] /\ w # <<>>
  BY TrailIs DEF Queue, Trail
<1>2. /\ y = Step(r, w[i], "prev")
      /\ z = (IF y = r.produce \/ ~Free(r, y) THEN y ELSE Step(r, y, "prev"))
  BY DEF Step
<1>3. i = 1 => z = r.produce
  BY <1>1, BackToProduce
<1>4. i # 1 => z = w[i - 1]
  <2> SUFFICES ASSUME i # 1 PROVE z = w[i - 1]
    OBVIOUS
  <2>1. i - 1 \in 1..L - 1 /\ i - 1 \in 1..L /\ (i - 1) + 1 = i /\ i - 1 # L
    BY <1>1
  <2> DEFINE b == w[i - 1]
             k == NextBlock(r, b)
  <2>2. Follows(r, b, w[i]) /\ b \in On(r) /\ ~Free(r, b)
    BY <1>1, <2>1
  <2>3. k # r.produce
    BY <2>1, ProduceIs
  <2>4. k \in On(r) /\ PrevBlock(r, k) = b
    BY <2>2, RoundIs
  <2>5. PrevBlock(r, NextBlock(r, k)) = k
    BY <2>4, RoundIs
  <2> HIDE DEF b, k
  <2>6. CASE k = w[i]
    BY <2>2, <2>4, <2>6 DEF b
  <2>7. CASE k # w[i]
    <3>1. Free(r, k) /\ y = k
      BY <2>2, <2>5, <2>7 DEF Follows, k
    <3>2. QED
      BY <2>3, <2>4, <3>1 DEF b
  <2>8. QED
    BY <2>6, <2>7
<1> HIDE DEF y
<1>5. i # 1 => i - 1 \in 1..L /\ (i - 1 = 1 <=> i = 2)
  BY <1>1
<1>6. i # 1 => (w[i - 1] = r.produce <=> i = 2 /\ r.produce = r.consume) /\ ~Free(r, w[i - 1])
  BY <1>1, <1>5, ProduceIs
<1>7. z = r.produce \/ ~Free(r, z)
  BY <1>3, <1>4, <1>6
<1> HIDE DEF z
<1>8. Skip(r, w[i], "prev") = IF z = r.produce THEN Null ELSE z
  BY <1>2, <1>7, SkipIs
<1>9. QED
  BY <1>3, <1>4, <1>6, <1>8

\* First gives the first item of the queue, Last the last one, but not the one
\* at m_pProduce.
LEMMA EndsAre ==
    ASSUME NEW r, Shape(r), NoPair(r), NEW w, Queue(r, w)
    PROVE  /\ FirstItem(r) = IF w = <<>> THEN Null ELSE w[1]
           /\ LastItem(r) = IF w = <<>> \/ (Len(w) = 1 /\ r.produce = r.consume)
                            THEN Null ELSE w[Len(w)]
<1> DEFINE L == Len(w)
           y == PrevBlock(r, r.produce)
<1>1. /\ L \in Nat /\ \A k \in 1..L : w[k] \in On(r) /\ ~Free(r, w[k])
      /\ \A b \in On(r) : ~Free(r, b) <=> \E k \in 1..L : w[k] = b
      /\ w # <<>> <=> L >= 1
      /\ w # <<>> => r.consume = w[1] /\ r.produce = NextBlock(r, w[L])
  BY TrailIs DEF Queue, Trail
<1>2. r.produce \in On(r) /\ r.consume \in On(r)
  BY DEF Shape
<1>3. y = Step(r, r.produce, "prev")
  BY DEF Step
<1>4. CASE w = <<>>
  <2>1. \A b \in On(r) : Free(r, b)
    BY <1>1, <1>4
  <2>2. r = Cleared
    BY <2>1, NoneHeld
  <2>3. Cleared.produce = First /\ Cleared.last = First /\ Cleared.block[First].prev = Null
    BY RingNumbers DEF Cleared
  <2>4. y = r.produce
    BY <2>2, <2>3 DEF PrevBlock
  <2>5. Skip(r, r.produce, "prev") = Null
    <3> HIDE DEF y
    <3> DEFINE z == IF y = r.produce \/ ~Free(r, y) THEN y ELSE Step(r, y, "prev")
    <3>1. z = r.produce /\ z = (IF y = r.produce \/ ~Free(r, y) THEN y ELSE Step(r, y, "prev"))
      BY <2>4
    <3> HIDE DEF z
    <3>2. QED
      BY <1>3, <3>1, SkipIs
  <2>6. QED
    BY <1>2, <1>4, <2>1, <2>5 DEF FirstItem, LastItem
<1>5. CASE w # <<>>
  <2>1. L \in 1..L /\ 1 \in 1..L
    BY <1>1, <1>5
  <2>2. y = w[L] /\ ~Free(r, y)
    BY <1>1, <1>5, <2>1, RoundIs
  <2>3. y = r.produce <=> L = 1 /\ r.produce = r.consume
    BY <2>1, <2>2, ProduceIs
  <2> HIDE DEF y
  <2> DEFINE z == IF y = r.produce \/ ~Free(r, y) THEN y ELSE Step(r, y, "prev")
  <2>4. z = y /\ z = (IF y = r.produce \/ ~Free(r, y) THEN y ELSE Step(r, y, "prev"))
        /\ (z = r.produce \/ ~Free(r, z))
    BY <2>2
  <2> HIDE DEF z
  <2>5. Skip(r, r.produce, "prev") = IF z = r.produce THEN Null ELSE z
    BY <1>3, <2>4, SkipIs
  <2>6. FirstItem(r) = w[1]
    BY <1>1, <1>5, <2>1 DEF FirstItem
  <2>7. QED
    BY <1>5, <2>2, <2>3, <2>4, <2>5, <2>6 DEF LastItem
<1>6. QED
  BY <1>4, <1>5

\* First and Next.
LEMMA ForwardIs ==
    ASSUME NEW r, Shape(r), NoPair(r), NEW w, Queue(r, w)
    PROVE  Met(r, FirstItem(r), "next") = [i \in 1..Len(w) |-> r.block[w[i]].item]
<1> DEFINE m == Len(w)
           b == FirstItem(r)
<1>1. m \in 0..Units /\ \A n \in 1..m : w[n] \in On(r)
  BY TrailIs, QueueShort, RingNumbers DEF Queue
<1>2. \A n \in 1..m : w[n] # Null
  BY <1>1, RingNumbers DEF On
<1>3. w = <<>> <=> m = 0
  BY TrailIs DEF Queue
<1>4. b = IF m = 0 THEN Null ELSE w[1]
  BY <1>3, EndsAre
<1>5. \A n \in 1..m : Skip(r, w[n], "next") = IF n = m THEN Null ELSE w[n + 1]
  BY SkipNext
<1> HIDE DEF m, b
<1>6. Met(r, b, "next") = [i \in 1..m |-> r.block[w[i]].item]
  BY <1>1, <1>2, <1>4, <1>5, MetIs
<1>7. QED
  BY <1>6 DEF m, b

\* Last and Prev, which leave out k items.
LEMMA BackwardIs ==
    ASSUME NEW r, Shape(r), NoPair(r), NEW w, Queue(r, w),
           NEW k, k = IF w # <<>> /\ r.produce = r.consume THEN 1 ELSE 0
    PROVE  Met(r, LastItem(r), "prev") =
               [i \in 1..Len(w) - k |-> r.block[w[Len(w) + 1 - i]].item]
<1> DEFINE L == Len(w)
           m == L - k
           b == LastItem(r)
           v == [n \in 1..m |-> w[L + 1 - n]]
<1>1. L \in Nat /\ L <= Units /\ Units \in Nat /\ (w = <<>> <=> L = 0) /\ k \in {0, 1}
      /\ (k = 1 => L >= 1) /\ \A n \in 1..L : w[n] \in On(r)
  BY TrailIs, QueueShort, RingNumbers DEF Queue
<1> HIDE DEF L
<1>2. m \in 0..Units /\ \A n \in 1..m : L + 1 - n \in 1..L /\ v[n] = w[L + 1 - n]
  BY <1>1
<1>3. \A n \in 1..m : v[n] # Null
  BY <1>1, <1>2, RingNumbers DEF On
<1>4. b = IF m = 0 THEN Null ELSE v[1]
  <2>1. b = IF L = 0 \/ (L = 1 /\ r.produce = r.consume) THEN Null ELSE w[L]
    BY <1>1, EndsAre DEF L
  <2>2. L = 0 \/ (L = 1 /\ r.produce = r.consume) <=> m = 0
    BY <1>1
  <2>3. m # 0 => v[1] = w[L]
    <3>1. m # 0 => 1 \in 1..m /\ L + 1 - 1 = L
      BY <1>1, <1>2
    <3>2. QED
      BY <1>2, <3>1
  <2>4. QED
    BY <2>1, <2>2, <2>3
<1>5. ASSUME NEW n \in 1..m PROVE Skip(r, v[n], "prev") = IF n = m THEN Null ELSE v[n + 1]
  <2> DEFINE i == L + 1 - n
  <2>1. /\ i \in 1..L /\ v[n] = w[i]
        /\ (i = 1 => r.produce # r.consume)
        /\ (i = 1 \/ (i = 2 /\ r.produce = r.consume)) <=> n = m
    <3>1. i \in 1..L /\ v[n] = w[i]
      BY <1>2
    <3>2. r.produce = r.consume <=> k = 1
      <4>1. L # 0
        BY <1>1, <3>1
      <4>2. QED
        BY <1>1, <4>1
    <3>3. i = L + 1 - n /\ n <= L - k /\ n \in Nat /\ (n = m <=> n = L - k)
      BY <1>1, <1>2
    <3> HIDE DEF i, m
    <3>4. QED
      BY <1>1, <3>1, <3>2, <3>3
  <2>2. n # m => v[n + 1] = w[i - 1]
    <3>1. n # m => n + 1 \in 1..m /\ L + 1 - (n + 1) = i - 1
      BY <1>1, <1>2
    <3>2. QED
      BY <1>2, <3>1
  <2> HIDE DEF i, v, m
  <2>3. Skip(r, w[i], "prev") =
            IF i = 1 \/ (i = 2 /\ r.produce = r.consume) THEN Null ELSE w[i - 1]
    BY <2>1, SkipPrev DEF L
  <2>4. QED
    BY <2>1, <2>2, <2>3
<1> HIDE DEF m, b, v
<1>6. Met(r, b, "prev") = [i \in 1..m |-> r.block[v[i]].item]
  <2>1. \A n \in 1..m : Skip(r, v[n], "prev") = IF n = m THEN Null ELSE v[n + 1]
    BY <1>5
  <2>2. m \in 0..Units /\ b = IF m = 0 THEN Null ELSE v[1]
    BY <1>2, <1>4
  <2> DEFINE way == "prev"
  <2>3. \A n \in 1..m : Skip(r, v[n], way) = IF n = m THEN Null ELSE v[n + 1]
    BY <2>1
  <2> HIDE DEF way
  <2>4. m \in 0..Units
    BY <2>2
  <2>5. b = IF m = 0 THEN Null ELSE v[1]
    BY <2>2
  <2>6. Met(r, b, way) = [i \in 1..m |-> r.block[v[i]].item]
    BY <1>3, <2>3, <2>4, <2>5, MetIs
  <2>7. QED
    BY <2>6 DEF way
<1>7. QED
  BY <1>2, <1>6 DEF m, b, L

\* The walks from First and from Last meet the contents, oldest and newest first.
LEMMA WalksAre == RingQueue => WalksBothWays
<1> SUFFICES ASSUME RingQueue PROVE WalksBothWays
  OBVIOUS
<1>1. PICK w : Queue(ring, w)
  BY DEF RingQueue
<1>2. Shape(ring) /\ NoPair(ring)
  BY DEF RingQueue
<1> DEFINE L == Len(w)
           n == Len(Contents)
           left == IF Holds # {} /\ ring.produce = ring.consume THEN 1 ELSE 0
<1>3. /\ L \in Nat /\ (w = <<>> <=> L = 0) /\ Blocks = On(ring) /\ Kept = Holds
      /\ \A b : b \in Kept <=> \E i \in 1..L : w[i] = b
  BY <1>1, <1>2, KeptIs, TrailIs DEF Queue
<1>4. Contents = [i \in 1..L |-> ring.block[w[i]].item]
  BY <1>1, <1>2, ContentsIs
<1>5. n = L
  <2> HIDE DEF L
  <2>1. Len([i \in 1..L |-> ring.block[w[i]].item]) = L
    BY <1>3, LenProperties, SMT
  <2>2. QED
    BY <1>4, <2>1
<1>6. {ring.produce, ring.consume} \subseteq Blocks
  BY <1>2, <1>3 DEF Shape
<1>7. Forward = Contents
  BY <1>1, <1>2, <1>4, ForwardIs DEF Forward
<1>8. left = IF w # <<>> /\ ring.produce = ring.consume THEN 1 ELSE 0
  <2>1. Holds # {} <=> w # <<>>
    <3>1. L # 0 => 1 \in 1..L
      BY <1>3
    <3>2. QED
      BY <1>3, <3>1
  <2>2. QED
    BY <2>1
<1>9. left \in {0, 1}
  OBVIOUS
<1> HIDE DEF left, n
<1>10. Backward = [i \in 1..L - left |-> ring.block[w[L + 1 - i]].item]
  BY <1>1, <1>2, <1>8, BackwardIs DEF Backward
<1>11. \A i \in 1..L - left : Contents[n + 1 - i] = ring.block[w[L + 1 - i]].item
  <2>1. \A i \in 1..L - left : L + 1 - i \in 1..L
    BY <1>3, <1>9
  <2>2. QED
    BY <1>4, <1>5, <2>1
<1>12. Backward = [i \in 1..n - left |-> Contents[n + 1 - i]]
  BY <1>5, <1>10, <1>11
<1>13. QED
  BY <1>3, <1>6, <1>7, <1>12 DEF WalksBothWays, left, n

\* First/Next and Last/Prev always go through all the items, in the order in
\* which they were stored and in the reverse, but for the oldest one when no
\* block is free.
THEOREM AlwaysWalksBothWays == RingSpec => []WalksBothWays
<1>1. RingSpec => []RingQueue
  BY RingStart, RingStep, PTL DEF RingSpec
<1>2. QED
  BY <1>1, WalksAre, PTL
=============================================================================
