----------------------------- MODULE SnapIdPool -----------------------------
(***************************************************************************)
(* CSnapIdPool (src/engine/server/snap_id_pool.cpp): the ids of the items  *)
(* in a snapshot, in two lists threaded through one array.  An id that is  *)
(* freed first goes to the end of the list of timed ids, from where NewId  *)
(* and TimeoutIds move it to the front of the list of free ones.           *)
(*                                                                         *)
(* The pool is used by the main thread only.  Its loops are steps of their *)
(* own, so that each of them is a single access to the array.              *)
(***************************************************************************)
EXTENDS Integers, FiniteSets

CONSTANTS
    MaxIds,     \* MAX_IDS (32768)
    Delay,      \* five seconds, in ticks of time_get
    Word,       \* number of values of the int m_Timeout, in the same ticks
    MaxTime     \* bound: the clock stops here

ASSUME SnapIdPoolAssumption ==
    /\ MaxIds \in Nat \ {0}
    /\ Delay \in Nat
    /\ Word \in Nat \ {0}
    /\ MaxTime \in Nat

VARIABLES
    next,       \* m_Next of each id
    state,      \* m_State of each id
    timeout,    \* m_Timeout of each id
    firstFree, firstTimed, lastTimed,
    usage, inUsage,
    pc,         \* the call the main thread is in
    now,        \* time_get()
    owners      \* history: how many entities hold each id

lists   == <<next, state, firstFree, firstTimed, lastTimed>>
counts  == <<usage, inUsage>>
history == <<owners>>
vars == <<lists, timeout, counts, pc, now, history>>

Ids == 0..(MaxIds - 1)
Nil == -1

\* The constructor, by Reset.
Init ==
    /\ next = [i \in Ids |-> IF i = MaxIds - 1 THEN Nil ELSE i + 1]
    /\ state = [i \in Ids |-> "free"]
    /\ timeout = [i \in Ids |-> 0]
    /\ firstFree = 0 /\ firstTimed = Nil /\ lastTimed = Nil
    /\ usage = 0 /\ inUsage = 0
    /\ pc = "idle"
    /\ now = 0
    /\ owners = [i \in Ids |-> 0]

\* The conversion of a time to the int m_Timeout.
AsInt(t) == ((t + Word \div 2) % Word) - Word \div 2

Expired == timeout[firstTimed] < now

\* Mutant: the last of the timed ids is not forgotten.
RemoveFirstTimeout_KeepLast ==
    /\ next' = [next EXCEPT ![firstTimed] = firstFree]
    /\ state' = [state EXCEPT ![firstTimed] = "free"]
    /\ firstFree' = firstTimed
    /\ firstTimed' = next[firstTimed]
    /\ lastTimed' = lastTimed
    /\ usage' = usage - 1

RemoveFirstTimeout ==
    /\ next' = [next EXCEPT ![firstTimed] = firstFree]
    /\ state' = [state EXCEPT ![firstTimed] = "free"]
    /\ firstFree' = firstTimed
    /\ firstTimed' = next[firstTimed]
    /\ lastTimed' = IF next[firstTimed] = Nil THEN Nil ELSE lastTimed
    /\ usage' = usage - 1

-----------------------------------------------------------------------------

Call(p) ==
    /\ pc = "idle"
    /\ pc' = p
    /\ UNCHANGED <<lists, timeout, counts, now, history>>

\* NewId, one turn of its loop.
NewIdExpire ==
    /\ pc = "new"
    /\ firstTimed # Nil /\ Expired
    /\ RemoveFirstTimeout
    /\ UNCHANGED <<timeout, inUsage, pc, now, history>>

\* Mutant: the id stays in the list.
NewIdTake_NoPop ==
    /\ pc = "new"
    /\ firstTimed # Nil => ~Expired
    /\ firstFree # Nil
    /\ state' = [state EXCEPT ![firstFree] = "allocated"]
    /\ usage' = usage + 1
    /\ inUsage' = inUsage + 1
    /\ owners' = [owners EXCEPT ![firstFree] = @ + 1]
    /\ pc' = "idle"
    /\ UNCHANGED <<next, firstFree, firstTimed, lastTimed, timeout, now>>

\* NewId, the rest: the first free id is handed out.
NewIdTake ==
    /\ pc = "new"
    /\ firstTimed # Nil => ~Expired
    /\ firstFree # Nil
    /\ firstFree' = next[firstFree]
    /\ state' = [state EXCEPT ![firstFree] = "allocated"]
    /\ usage' = usage + 1
    /\ inUsage' = inUsage + 1
    /\ owners' = [owners EXCEPT ![firstFree] = @ + 1]
    /\ pc' = "idle"
    /\ UNCHANGED <<next, firstTimed, lastTimed, timeout, now>>

\* "invalid id": the caller gets -1, which FreeId ignores.
NewIdNone ==
    /\ pc = "new"
    /\ firstTimed # Nil => ~Expired
    /\ firstFree = Nil
    /\ pc' = "idle"
    /\ UNCHANGED <<lists, timeout, counts, now, history>>

\* TimeoutIds, when a map is loaded.
TimeoutIds ==
    /\ pc = "flush"
    /\ IF firstTimed # Nil
         THEN RemoveFirstTimeout /\ pc' = pc
         ELSE pc' = "idle" /\ UNCHANGED <<lists, usage>>
    /\ UNCHANGED <<timeout, inUsage, now, history>>

\* Mutant: the id goes to the front of the list of timed ids.
FreeId_Front(i) ==
    /\ pc = "idle"
    /\ owners[i] > 0
    /\ state' = [state EXCEPT ![i] = "timed"]
    /\ timeout' = [timeout EXCEPT ![i] = AsInt(now + Delay)]
    /\ next' = [next EXCEPT ![i] = firstTimed]
    /\ firstTimed' = i
    /\ lastTimed' = IF lastTimed = Nil THEN i ELSE lastTimed
    /\ inUsage' = inUsage - 1
    /\ owners' = [owners EXCEPT ![i] = @ - 1]
    /\ UNCHANGED <<firstFree, usage, pc, now>>

\* FreeId, by the destructor of the entity that holds the id.
FreeId(i) ==
    /\ pc = "idle"
    /\ owners[i] > 0
    /\ state' = [state EXCEPT ![i] = "timed"]
    /\ timeout' = [timeout EXCEPT ![i] = AsInt(now + Delay)]
    /\ IF lastTimed # Nil
         THEN /\ next' = [next EXCEPT ![i] = Nil, ![lastTimed] = i]
              /\ firstTimed' = firstTimed
         ELSE /\ next' = [next EXCEPT ![i] = Nil]
              /\ firstTimed' = i
    /\ lastTimed' = i
    /\ inUsage' = inUsage - 1
    /\ owners' = [owners EXCEPT ![i] = @ - 1]
    /\ UNCHANGED <<firstFree, usage, pc, now>>

Tick ==
    /\ pc = "idle"
    /\ now < MaxTime
    /\ now' = now + 1
    /\ UNCHANGED <<lists, timeout, counts, pc, history>>

Next ==
    \/ Call("new") \/ Call("flush")
    \/ NewIdExpire \/ NewIdTake \/ NewIdNone
    \/ TimeoutIds
    \/ \E i \in Ids : FreeId(i)
    \/ Tick

Spec == Init /\ [][Next]_vars

-----------------------------------------------------------------------------

TypeOK ==
    /\ next \in [Ids -> Ids \cup {Nil}]
    /\ state \in [Ids -> {"free", "allocated", "timed"}]
    /\ timeout \in [Ids -> Int]
    /\ firstFree \in Ids \cup {Nil}
    /\ firstTimed \in Ids \cup {Nil} /\ lastTimed \in Ids \cup {Nil}
    /\ usage \in Int /\ inUsage \in Int
    /\ pc \in {"idle", "new", "flush"}
    /\ now \in Nat
    /\ owners \in [Ids -> Nat]

With(s) == {i \in Ids : state[i] = s}

\* An id has at most one holder, and FreeId's assertion "id is not allocated"
\* cannot fail: an id that is held is marked so.
Exclusive ==
    \A i \in Ids : owners[i] = IF state[i] = "allocated" THEN 1 ELSE 0

\* m_InUsage counts the ids that are held, m_Usage those that are not free.
Counted ==
    /\ inUsage = Cardinality(With("allocated"))
    /\ usage = Cardinality(With("allocated")) + Cardinality(With("timed"))

\* The k-th id of the list that starts at first.
Nth(first) ==
    LET at[k \in 1..(MaxIds + 1)] ==
            IF k = 1 THEN first
            ELSE IF at[k - 1] = Nil THEN Nil ELSE next[at[k - 1]]
    IN  at
Walk(first) ==
    LET at == Nth(first)
    IN  [k \in 1..Cardinality({j \in DOMAIN at : at[j] # Nil}) |-> at[k]]

\* No id is ever lost: the two lists hold exactly the ids marked free and
\* timed, each of them once.
ListsExact ==
    LET exact(w, s) == /\ {w[k] : k \in DOMAIN w} = With(s)
                       /\ Cardinality(With(s)) = Cardinality(DOMAIN w)
    IN  /\ exact(Walk(firstFree), "free")
        /\ exact(Walk(firstTimed), "timed")

\* The pool hands out free ids and takes back those that are held, in order.
Pool == INSTANCE IdPool WITH
            PoolIds <- Ids,
            free <- With("free"),
            holders <- {i \in Ids : owners[i] > 0},
            resting <- Walk(firstTimed)
PoolSpec == Pool!PoolSpec
=============================================================================
