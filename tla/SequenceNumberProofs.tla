------------------------ MODULE SequenceNumberProofs ------------------------
(***************************************************************************)
(* Proofs about the two components that number what they hand over with a  *)
(* counter that starts again: the slots of DbPool and the sequence numbers *)
(* of NetChannel.  Both invariants speak of positions that only grow; that *)
(* two positions near enough have different numbers is said once.          *)
(*                                                                         *)
(* DbPool, for a ring of any length, any queries and any outcome of their  *)
(* statements, as long as fewer queries are pending than the ring has      *)
(* slots (Room).  The code does not see to that, and without it            *)
(* ExitAfterAllJobs is false.  IInv says that the ring holds exactly the   *)
(* queries between the worker and the main thread (RingExact), that the    *)
(* semaphores count the queries each thread has ahead of it and the one    *)
(* signal for the end (BackupAt, WorkerAt), and that all queries behind    *)
(* the worker are answered.                                                *)
(*                                                                         *)
(* NetChannel, for any capacity, window and chunks, as long as all that is *)
(* under way is numbered apart (InNumbers).                                *)
(***************************************************************************)
EXTENDS DbPool, NetChannel, SequenceTheorems, FiniteSetTheorems, WellFoundedInduction, TLAPS

LEMMA DivMod ==
    ASSUME NEW a \in Nat, NEW S \in Nat \ {0}
    PROVE  /\ a % S \in 0..(S - 1) /\ a \div S \in Int
           /\ a = S * (a \div S) + (a % S)
<1>1. a % S \in 0..(S - 1)
  BY SMT
<1>2. a \div S \in Int
  BY SMT
<1>3. a = S * (a \div S) + (a % S)
  BY SMT
<1>4. QED
  BY <1>1, <1>2, <1>3

-----------------------------------------------------------------------------
(* DbPool: the invariant.                                                  *)

Room == MaxPending < Size

Positions ==
    /\ wNum <= bNum /\ bNum <= Len(log)
    /\ Len(log) - wNum <= MaxPending

Pending == wNum..(Len(log) - 1)

RingExact ==
    /\ \A k \in Pending : ring[k % Size] = log[k + 1]
    /\ \A i \in 0..(Size - 1) : ring[i] # NoQuery => \E k \in Pending : i = k % Size

LogDistinct == \A i, j \in 1..Len(log) : log[i] = log[j] => i = j

BackupAt ==
    /\ IF bpc \in {"exec", "pass"}
         THEN bNum < Len(log) /\ bcur = log[bNum + 1]
         ELSE bcur = NoQuery
    /\ IF bpc \in {"leave", "exit"}
         THEN mpc # "run" /\ bNum = Len(log) /\ numBackup = 0
         ELSE numBackup = Len(log) - bNum + (IF mpc = "run" THEN 0 ELSE 1)
                                          - (IF bpc = "wait" THEN 0 ELSE 1)

BusyPcs == {"exec", "unbackup", "keep", "keepDelete", "publish", "complete"}

WorkerAt ==
    /\ IF wpc \in BusyPcs THEN wNum > 0 /\ wcur = log[wNum] ELSE wcur = NoQuery
    /\ IF wpc = "exit"
         THEN bpc = "exit" /\ wNum = bNum
         ELSE numWorker = bNum - wNum + (IF bpc = "exit" THEN 1 ELSE 0)

AllDone ==
    \A k \in 1..wNum : HasResult(log[k]) => completed[log[k]] \/ wcur = log[k]

DoneBehind ==
    \A q \in Queries : completed[q] => q # wcur /\ \E k \in 1..wNum : log[k] = q

\* While a row moves from one table to another it is in the one it goes to
\* before it leaves the one it comes from.
RowMoves ==
    /\ wpc = "unbackup" => wcur \in remote
    /\ wpc = "keepDelete" /\ wcur \in tmp => wcur \in main

IInv ==
    /\ TypeOK
    /\ Positions
    /\ RingExact
    /\ LogDistinct
    /\ BackupAt
    /\ WorkerAt
    /\ AllDone
    /\ DoneBehind
    /\ RowMoves

-----------------------------------------------------------------------------
(* DbPool: slots of the ring.                                              *)

\* Two positions less than a ring's length apart have different slots.
LEMMA ModInjective ==
    ASSUME NEW S \in Nat \ {0}, NEW a \in Nat, NEW b \in Nat, a < b, b < a + S
    PROVE  a % S # b % S
<1> SUFFICES ASSUME a % S = b % S PROVE FALSE
  OBVIOUS
<1> DEFINE d == (b \div S) - (a \div S)
<1>1. /\ a = S * (a \div S) + (a % S) /\ a \div S \in Int /\ a % S \in 0..(S - 1)
      /\ b = S * (b \div S) + (b % S) /\ b \div S \in Int
  BY DivMod
<1>2. \A p, q \in Int : S * p - S * q = S * (p - q)
  BY SMT
<1>3. b - a = S * d /\ d \in Int
  BY <1>1, <1>2
<1>4. d <= 0 => S * d <= 0
  BY <1>3, SMT
<1>5. d >= 1 => S * d >= S
  BY <1>3, SMT
<1>6. QED
  BY <1>3, <1>4, <1>5

LEMMA SlotInRing == ASSUME NEW k \in Nat PROVE k % Size \in 0..(Size - 1)
BY DivMod, DbPoolAssumption

LEMMA SlotsDiffer ==
    ASSUME Room, NEW i \in Nat, NEW j \in Nat, i # j,
           i - j <= MaxPending, j - i <= MaxPending
    PROVE  i % Size # j % Size
<1>1. i < j + Size /\ j < i + Size
  BY DbPoolAssumption DEF Room
<1>2. CASE i < j
  BY <1>1, <1>2, ModInjective, DbPoolAssumption
<1>3. CASE j < i
  BY <1>1, <1>3, ModInjective, DbPoolAssumption
<1>4. QED
  BY <1>2, <1>3

\* The slot after the last query is empty: there a thread finds the end.
LEMMA EndEmpty ==
    ASSUME Room, IInv
    PROVE  ring[Len(log) % Size] = NoQuery
<1> SUFFICES ASSUME ring[Len(log) % Size] # NoQuery PROVE FALSE
  OBVIOUS
<1>1. Len(log) \in Nat /\ wNum \in Nat
  BY LenProperties DEF IInv, TypeOK
<1>2. PICK k \in Pending : Len(log) % Size = k % Size
  BY <1>1, SlotInRing DEF IInv, RingExact
<1>3. k \in Nat /\ k < Len(log) /\ Len(log) - k <= MaxPending
  BY <1>1, DbPoolAssumption DEF IInv, Positions, Pending
<1>4. QED
  BY <1>1, <1>2, <1>3, SlotsDiffer, DbPoolAssumption

LEMMA PendingQuery ==
    ASSUME IInv, NEW k \in Pending
    PROVE  ring[k % Size] = log[k + 1] /\ log[k + 1] \in Queries
<1>1. Len(log) \in Nat /\ wNum \in Nat
  BY LenProperties DEF IInv, TypeOK
<1>2. k + 1 \in 1..Len(log)
  BY <1>1 DEF Pending
<1>3. QED
  BY <1>2, ElementOfSeq DEF IInv, RingExact, TypeOK

-----------------------------------------------------------------------------
(* DbPool: every step preserves IInv.                                      *)

LEMMA InitInv == Init => IInv
<1> SUFFICES ASSUME Init PROVE IInv
  OBVIOUS
<1>1. log = <<>> /\ Len(log) = 0
  BY DEF Init
<1>2. TypeOK
  BY <1>1, EmptySeq DEF Init, TypeOK, BackupPcs, WorkerPcs
<1>3. Pending = {}
  BY <1>1 DEF Init, Pending
<1>4. QED
  BY <1>1, <1>2, <1>3, DbPoolAssumption
     DEF Init, IInv, Positions, RingExact, LogDistinct, BackupAt, WorkerAt,
         BusyPcs, AllDone, DoneBehind, RowMoves

\* A new query takes the empty slot at the end.
LEMMA SubmitInv == ASSUME Room, IInv, NEW q \in Queries, Submit(q) PROVE IInv'
<1> DEFINE n == Len(log)
<1>1. /\ n \in Nat /\ wNum \in Nat /\ bNum \in Nat
      /\ log' = Append(log, q) /\ log' \in Seq(Queries) /\ Len(log') = n + 1
      /\ \A i \in 1..n : log'[i] = log[i]
      /\ log'[n + 1] = q
      /\ wNum' = wNum /\ bNum' = bNum
  BY AppendProperties, LenProperties
     DEF IInv, TypeOK, Submit, workerVars, backupVars
<1>2. n % Size \in 0..(Size - 1)
  BY <1>1, SlotInRing
<1>3. TypeOK'
  BY <1>1, <1>2 DEF IInv, TypeOK, Submit, workerVars, backupVars, tables, results
<1>4. Positions' /\ n - wNum < MaxPending
  BY <1>1, DbPoolAssumption DEF IInv, Positions, Submit
<1>5. \A k \in Pending : k \in Nat /\ k % Size # n % Size
  <2> SUFFICES ASSUME NEW k \in Pending PROVE k \in Nat /\ k % Size # n % Size
    OBVIOUS
  <2>1. k \in Nat /\ k < n /\ n - k <= MaxPending /\ k - n <= MaxPending
    BY <1>1, <1>4, DbPoolAssumption DEF Pending
  <2>2. QED
    BY <1>1, <2>1, SlotsDiffer
<1>6. Pending' = Pending \cup {n}
  BY <1>1 DEF Pending, IInv, Positions
<1>7. /\ ring' = [ring EXCEPT ![n % Size] = q]
      /\ ring \in [0..(Size - 1) -> Queries \cup {NoQuery}]
  BY DEF IInv, TypeOK, Submit
<1>8. RingExact'
  <2>1. ASSUME NEW k \in Pending' PROVE ring'[k % Size] = log'[k + 1]
    <3>1. CASE k = n
      BY <1>1, <1>2, <1>7, <3>1
    <3>2. CASE k \in Pending
      <4>1. k % Size # n % Size /\ k % Size \in 0..(Size - 1) /\ k + 1 \in 1..n
        BY <1>1, <1>5, <3>2, SlotInRing DEF Pending
      <4>2. ring[k % Size] = log[k + 1]
        BY <3>2 DEF IInv, RingExact
      <4>3. QED
        BY <1>1, <1>7, <4>1, <4>2
    <3>3. QED
      BY <1>6, <2>1, <3>1, <3>2
  <2>2. ASSUME NEW i \in 0..(Size - 1), ring'[i] # NoQuery
        PROVE  \E k \in Pending' : i = k % Size
    <3>1. CASE i = n % Size
      BY <1>6, <3>1
    <3>2. CASE i # n % Size
      BY <1>6, <1>7, <2>2, <3>2 DEF IInv, RingExact
    <3>3. QED
      BY <3>1, <3>2
  <2>3. QED
    BY <2>1, <2>2 DEF RingExact
<1>9. LogDistinct'
  <2>1. \A i \in 1..n : log[i] # q
    BY <1>1, RangeOfSeq DEF Submit, submitted, Range, IInv, TypeOK
  <2>2. QED
    BY <1>1, <2>1 DEF IInv, LogDistinct
<1>10. BackupAt' /\ WorkerAt'
  <2>1. /\ UNCHANGED <<mpc, bpc, bNum, bcur, wpc, wNum, wcur, numWorker>>
        /\ mpc = "run" /\ numBackup \in Nat /\ numBackup' = numBackup + 1
    BY DEF IInv, TypeOK, Submit, workerVars, backupVars
  <2>2. bNum < n => log'[bNum + 1] = log[bNum + 1]
    BY <1>1
  <2>3. BackupAt'
    BY <1>1, <2>1, <2>2 DEF IInv, BackupAt
  <2>4. wNum > 0 => log'[wNum] = log[wNum]
    BY <1>1 DEF IInv, Positions
  <2>5. WorkerAt'
    BY <2>1, <2>4 DEF IInv, WorkerAt
  <2>6. QED
    BY <2>3, <2>5
<1>11. AllDone' /\ DoneBehind' /\ RowMoves'
  <2>1. \A k \in 1..wNum : log'[k] = log[k]
    BY <1>1 DEF IInv, Positions
  <2>2. UNCHANGED <<wNum, wcur, wpc, completed, remote, tmp, main>>
    BY DEF Submit, workerVars, results, tables
  <2>3. AllDone'
    BY <2>1, <2>2 DEF IInv, AllDone, HasResult
  <2>4. DoneBehind'
    BY <2>1, <2>2 DEF IInv, DoneBehind
  <2>5. RowMoves'
    BY <2>2 DEF IInv, RowMoves
  <2>6. QED
    BY <2>3, <2>4, <2>5
<1>12. QED
  BY <1>3, <1>4, <1>8, <1>9, <1>10, <1>11 DEF IInv

\* The main thread going down: one more signal, and nothing else IInv sees.
LEMMA ShutdownInv ==
    ASSUME IInv, OnShutdown \/ ShutdownSeen \/ Destroy
    PROVE  IInv'
<1>1. log' = log /\ Len(log) \in Nat /\ Pending' = Pending
  BY LenProperties
     DEF IInv, TypeOK, OnShutdown, ShutdownSeen, Destroy, workerVars, Pending
<1>2. TypeOK'
  <2>1. /\ UNCHANGED <<log, ring, numWorker, backupVars, workerVars, tables, results>>
        /\ mpc' \in {"run", "poll", "join", "down"}
        /\ stop' \in {stop, TRUE}
    BY DEF OnShutdown, ShutdownSeen, Destroy, queueVars
  <2>2. numBackup' \in Nat
    BY DEF IInv, TypeOK, OnShutdown, ShutdownSeen, Destroy, queueVars
  <2>3. QED
    BY <2>1, <2>2, Zenon DEF IInv, TypeOK, backupVars, workerVars, tables, results
<1>3. BackupAt'
  <2>1. UNCHANGED <<bpc, bNum, bcur>> /\ bNum \in Nat /\ numBackup \in Nat
    BY DEF IInv, TypeOK, OnShutdown, ShutdownSeen, Destroy, backupVars
  <2>2. \/ mpc = "run" /\ mpc' # "run" /\ numBackup' = numBackup + 1
        \/ mpc # "run" /\ mpc' # "run" /\ numBackup' = numBackup
    BY DEF OnShutdown, ShutdownSeen, Destroy, queueVars
  <2>3. QED
    <3>1. CASE bpc \in {"leave", "exit"}
      <4>1. mpc # "run" /\ bNum = Len(log) /\ numBackup = 0 /\ bcur = NoQuery
        BY <3>1 DEF IInv, BackupAt
      <4>2. mpc' # "run" /\ numBackup' = 0
        BY <2>2, <4>1
      <4>3. QED
        BY <1>1, <2>1, <3>1, <4>1, <4>2 DEF BackupAt
    <3>2. CASE bpc \notin {"leave", "exit"}
      <4>1. numBackup = Len(log) - bNum + (IF mpc = "run" THEN 0 ELSE 1)
                                        - (IF bpc = "wait" THEN 0 ELSE 1)
        BY <3>2 DEF IInv, BackupAt
      <4>2. numBackup' = Len(log) - bNum + (IF mpc' = "run" THEN 0 ELSE 1)
                                         - (IF bpc = "wait" THEN 0 ELSE 1)
        <5>1. mpc' # "run"
          BY <2>2
        <5>2. CASE mpc = "run"
          BY <1>1, <2>1, <2>2, <4>1, <5>1, <5>2
        <5>3. CASE mpc # "run"
          BY <1>1, <2>1, <2>2, <4>1, <5>1, <5>3
        <5>4. QED
          BY <5>2, <5>3
      <4>3. QED
        BY <1>1, <2>1, <3>2, <4>2 DEF IInv, BackupAt
    <3>3. QED
      BY <3>1, <3>2
<1>4. Positions' /\ RingExact' /\ LogDistinct' /\ WorkerAt'
  BY <1>1
     DEF IInv, Positions, RingExact, LogDistinct, WorkerAt, OnShutdown,
         ShutdownSeen, Destroy, workerVars, backupVars, queueVars
<1>5. AllDone' /\ DoneBehind' /\ RowMoves'
  BY <1>1
     DEF IInv, AllDone, DoneBehind, RowMoves, OnShutdown, ShutdownSeen, Destroy,
         workerVars, results, tables
<1>6. QED
  BY <1>2, <1>3, <1>4, <1>5 DEF IInv

\* The backup thread takes the query it has come to or, when it has passed on
\* all of them, an empty slot.
LEMMA BackupTakeInv == ASSUME Room, IInv, BackupTake PROVE IInv'
<1>1. /\ log' = log /\ Len(log) \in Nat /\ Pending' = Pending
      /\ bNum \in Nat /\ wNum \in Nat
  BY LenProperties DEF IInv, TypeOK, BackupTake, mainVars, workerVars, Pending
<1>2. CASE bNum < Len(log)
  <2>1. bcur' = log[bNum + 1] /\ bcur' \in Queries
    BY <1>1, <1>2, PendingQuery DEF BackupTake, Pending, IInv, Positions
  <2>2. bpc' = "exec"
    BY <2>1, DbPoolAssumption DEF BackupTake
  <2>3. QED
    BY <1>1, <1>2, <2>1, <2>2
       DEF IInv, TypeOK, Positions, RingExact, LogDistinct, BackupAt, WorkerAt, AllDone,
           DoneBehind, RowMoves, BackupPcs, BackupTake, mainVars, workerVars,
           tables, results
<1>3. CASE bNum = Len(log)
  <2>1. bcur' = NoQuery /\ bpc' = "leave"
    BY <1>3, EndEmpty DEF BackupTake
  <2>2. QED
    BY <1>1, <1>3, <2>1
       DEF IInv, TypeOK, Positions, RingExact, LogDistinct, BackupAt, WorkerAt, AllDone,
           DoneBehind, RowMoves, BackupPcs, BackupTake, mainVars, workerVars,
           tables, results
<1>4. QED
  BY <1>1, <1>2, <1>3 DEF IInv, Positions

\* The row the backup thread inserts is not the one the worker moves: the
\* worker is behind.
LEMMA BackupExecInv == ASSUME IInv, BackupExec PROVE IInv'
<1>1. /\ log' = log /\ Len(log) \in Nat /\ Pending' = Pending
      /\ bNum \in Nat /\ wNum \in Nat
  BY LenProperties DEF IInv, TypeOK, BackupExec, mainVars, workerVars, Pending
<1>2. wpc \in BusyPcs => wcur # bcur
  <2> SUFFICES ASSUME wpc \in BusyPcs PROVE wcur # bcur
    OBVIOUS
  <2>1. wcur = log[wNum] /\ wNum \in 1..Len(log) /\ wNum <= bNum
    BY <1>1 DEF IInv, WorkerAt, Positions
  <2>2. bcur = log[bNum + 1] /\ bNum + 1 \in 1..Len(log)
    BY <1>1 DEF IInv, BackupAt, BackupExec
  <2>3. QED
    BY <1>1, <2>1, <2>2 DEF IInv, LogDistinct
<1>3. tmp' \in {tmp, tmp \cup {bcur}} /\ tmp' \subseteq Queries
  BY DEF IInv, TypeOK, BackupExec, IsWrite
<1>4. TypeOK'
  BY <1>1, <1>3
     DEF IInv, TypeOK, BackupPcs, BackupExec, mainVars, workerVars, queueVars,
         results
<1>5. RowMoves'
  BY <1>2, <1>3 DEF IInv, RowMoves, BusyPcs, BackupExec, workerVars
<1>6. QED
  BY <1>1, <1>4, <1>5
     DEF IInv, Positions, RingExact, LogDistinct, BackupAt, WorkerAt, AllDone,
         DoneBehind, BackupExec, mainVars, workerVars, queueVars, results

LEMMA BackupPassInv == ASSUME IInv, BackupPass \/ BackupLeave PROVE IInv'
<1>1. /\ log' = log /\ Len(log) \in Nat /\ Pending' = Pending
      /\ bNum \in Nat /\ wNum \in Nat
  BY LenProperties
     DEF IInv, TypeOK, BackupPass, BackupLeave, mainVars, workerVars, Pending
<1>2. TypeOK'
  BY <1>1
     DEF IInv, TypeOK, BackupPcs, BackupPass, BackupLeave, mainVars, workerVars,
         tables, results
<1>3. Positions' /\ BackupAt' /\ WorkerAt'
  <2>1. /\ UNCHANGED <<mpc, wpc, wNum, wcur, numBackup>> /\ wpc # "exit"
        /\ numWorker \in Nat /\ numWorker' = numWorker + 1
    BY DEF IInv, TypeOK, WorkerAt, BackupPass, BackupLeave, mainVars, workerVars
  <2>2. CASE BackupPass
    <3>1. /\ bpc = "pass" /\ bpc' = "wait" /\ bNum' = bNum + 1 /\ bcur' = NoQuery
          /\ bNum < Len(log)
      BY <2>2 DEF IInv, BackupAt, BackupPass
    <3>2. Positions' /\ BackupAt'
      BY <1>1, <2>1, <3>1 DEF IInv, Positions, BackupAt
    <3>3. WorkerAt'
      BY <1>1, <2>1, <3>1 DEF IInv, WorkerAt
    <3>4. QED
      BY <3>2, <3>3
  <2>3. CASE BackupLeave
    <3>1. bpc = "leave" /\ bpc' = "exit" /\ UNCHANGED <<bNum, bcur>>
      BY <2>3 DEF BackupLeave
    <3>2. Positions' /\ BackupAt'
      BY <1>1, <2>1, <3>1 DEF IInv, Positions, BackupAt
    <3>3. WorkerAt'
      BY <1>1, <2>1, <3>1 DEF IInv, WorkerAt
    <3>4. QED
      BY <3>2, <3>3
  <2>4. QED
    BY <2>2, <2>3
<1>4. RingExact' /\ LogDistinct' /\ AllDone' /\ DoneBehind' /\ RowMoves'
  BY <1>1
     DEF IInv, RingExact, LogDistinct, AllDone, DoneBehind, RowMoves, BackupPass,
         BackupLeave, mainVars, workerVars, tables, results
<1>5. QED
  BY <1>2, <1>3, <1>4 DEF IInv

\* The worker takes the next query, which the backup thread has passed on,
\* and empties its slot; when it finds the slot empty the backup thread has
\* left and all is done.
LEMMA WorkerTakeInv == ASSUME Room, IInv, WorkerTake PROVE IInv'
<1>1. /\ log' = log /\ Len(log) \in Nat /\ bNum \in Nat /\ wNum \in Nat
      /\ bNum' = bNum
  BY LenProperties DEF IInv, TypeOK, WorkerTake, mainVars, backupVars
<1>2. CASE wNum < Len(log) /\ wNum < bNum
  <2>1. wcur' = log[wNum + 1] /\ wcur' \in Queries
    BY <1>1, <1>2, PendingQuery DEF WorkerTake, Pending
  <2>2. /\ wNum' = wNum + 1 /\ wpc' = "exec" /\ stop' = stop
        /\ ring' = [ring EXCEPT ![wNum % Size] = NoQuery]
    BY <2>1, DbPoolAssumption DEF WorkerTake
  <2>3. wNum % Size \in 0..(Size - 1)
    BY <1>1, SlotInRing
  <2>4. Pending' = Pending \ {wNum} /\ wNum \in Pending
    BY <1>1, <1>2, <2>2 DEF Pending
  <2>5. \A k \in Pending' : k \in Nat /\ k % Size # wNum % Size
    <3> SUFFICES ASSUME NEW k \in Pending' PROVE k \in Nat /\ k % Size # wNum % Size
      OBVIOUS
    <3>1. k \in Nat /\ wNum < k /\ k - wNum <= MaxPending /\ wNum - k <= MaxPending
      BY <1>1, <2>4, DbPoolAssumption DEF Pending, IInv, Positions
    <3>2. QED
      BY <1>1, <3>1, SlotsDiffer
  <2>6. RingExact'
    <3>1. ring \in [0..(Size - 1) -> Queries \cup {NoQuery}]
      BY DEF IInv, TypeOK
    <3>2. ASSUME NEW k \in Pending' PROVE ring'[k % Size] = log'[k + 1]
      BY <1>1, <2>2, <2>4, <2>5, <3>1, <3>2, SlotInRing DEF IInv, RingExact
    <3>3. ASSUME NEW i \in 0..(Size - 1), ring'[i] # NoQuery
          PROVE  \E k \in Pending' : i = k % Size
      BY <2>2, <2>3, <2>4, <3>1, <3>3 DEF IInv, RingExact
    <3>4. QED
      BY <3>2, <3>3 DEF RingExact
  <2>7. TypeOK'
    <3>1. wNum' \in Nat /\ numWorker' \in Nat /\ wpc' \in WorkerPcs
      BY <1>1, <2>2 DEF IInv, TypeOK, WorkerPcs, WorkerTake
    <3>2. ring' \in [0..(Size - 1) -> Queries \cup {NoQuery}]
      BY <2>2 DEF IInv, TypeOK
    <3>3. QED
      BY <2>1, <2>2, <3>1, <3>2, Zenon
         DEF IInv, TypeOK, WorkerTake, mainVars, backupVars, tables, results
  <2>8. Positions' /\ BackupAt' /\ WorkerAt' /\ LogDistinct'
    <3>1. UNCHANGED <<mpc, bpc, bcur, numBackup>> /\ wpc = "wait"
      BY DEF WorkerTake, mainVars, backupVars
    <3>2. numWorker \in Nat /\ numWorker' = numWorker - 1
      BY DEF IInv, TypeOK, WorkerTake
    <3>3. Positions' /\ LogDistinct'
      BY <1>1, <1>2, <2>2, DbPoolAssumption DEF IInv, Positions, LogDistinct
    <3>4. BackupAt'
      BY <1>1, <3>1 DEF IInv, BackupAt
    <3>5. WorkerAt'
      BY <1>1, <2>1, <2>2, <3>1, <3>2 DEF IInv, WorkerAt, BusyPcs
    <3>6. QED
      BY <3>3, <3>4, <3>5
  <2>9. AllDone'
    <3> SUFFICES ASSUME NEW k \in 1..wNum', HasResult(log[k]), wcur' # log[k]
                 PROVE  completed'[log[k]]
      BY <1>1 DEF AllDone, HasResult
    <3>1. k \in 1..wNum /\ log[k] \in Queries
      <4>1. k \in 1..wNum /\ k \in 1..Len(log)
        BY <1>1, <1>2, <2>1, <2>2
      <4>2. QED
        BY <4>1, ElementOfSeq DEF IInv, TypeOK
    <3>2. wcur = NoQuery
      BY DEF IInv, WorkerAt, BusyPcs, WorkerTake
    <3>3. QED
      BY <3>1, <3>2, DbPoolAssumption DEF IInv, AllDone, WorkerTake, results
  <2>10. DoneBehind'
    <3>1. \A k \in 1..wNum : log[k] # log[wNum + 1]
      BY <1>1, <1>2 DEF IInv, LogDistinct
    <3>2. completed' = completed /\ 1..wNum \subseteq 1..wNum'
      BY <1>1, <2>2 DEF WorkerTake, results
    <3>3. QED
      BY <1>1, <2>1, <3>1, <3>2 DEF IInv, DoneBehind
  <2>11. RowMoves'
    BY <2>2 DEF RowMoves
  <2>12. QED
    BY <2>6, <2>7, <2>8, <2>9, <2>10, <2>11 DEF IInv
<1>3. CASE ~(wNum < Len(log) /\ wNum < bNum)
  <2>1. bpc = "exit" /\ wNum = bNum /\ bNum = Len(log)
    <3>1. wNum = bNum
      BY <1>1, <1>3 DEF IInv, Positions
    <3>2. wpc # "exit" /\ numWorker # 0
      BY DEF WorkerTake, IInv, TypeOK
    <3>3. bpc = "exit"
      BY <1>1, <3>1, <3>2 DEF IInv, WorkerAt
    <3>4. bNum = Len(log)
      BY <3>3 DEF IInv, BackupAt
    <3>5. QED
      BY <3>1, <3>3, <3>4
  <2>2. wcur' = NoQuery
    BY <2>1, EndEmpty DEF WorkerTake
  <2>3. /\ wpc' = "exit" /\ stop' = FALSE /\ UNCHANGED <<ring, wNum>>
        /\ Pending' = Pending
    BY <1>1, <2>2 DEF WorkerTake, Pending
  <2>4. TypeOK'
    <3>1. numWorker' \in Nat /\ wpc' \in WorkerPcs
      BY <2>3 DEF IInv, TypeOK, WorkerPcs, WorkerTake
    <3>2. stop' \in BOOLEAN
      BY <2>3
    <3>3. QED
      BY <2>2, <2>3, <3>1, <3>2, Zenon
         DEF IInv, TypeOK, WorkerTake, mainVars, backupVars, tables, results
  <2>5. Positions' /\ BackupAt' /\ WorkerAt' /\ LogDistinct' /\ RingExact'
    BY <1>1, <2>1, <2>2, <2>3
       DEF IInv, Positions, BackupAt, WorkerAt, LogDistinct, RingExact, BusyPcs,
           WorkerTake, mainVars, backupVars
  <2>6. AllDone' /\ DoneBehind' /\ RowMoves'
    BY <1>1, <2>2, <2>3, DbPoolAssumption
       DEF IInv, AllDone, DoneBehind, RowMoves, WorkerAt, BusyPcs, WorkerTake, results
  <2>7. QED
    BY <2>4, <2>5, <2>6 DEF IInv
<1>4. QED
  BY <1>2, <1>3

\* The other steps of the worker leave the queue alone.
LEMMA WorkerStill ==
    ASSUME IInv, Worker, ~WorkerTake
    PROVE  /\ UNCHANGED <<log, mpc, queueVars, backupVars, wNum>>
           /\ Positions' /\ RingExact' /\ LogDistinct' /\ BackupAt'
<1>1. UNCHANGED <<log, mpc, queueVars, backupVars, wNum>>
  BY DEF Worker, WorkerLoop, WorkerRead, WorkerWrite, WorkerUnbackup, WorkerKeep,
         WorkerKeepDelete, WorkerAdd, WorkerPublish, WorkerComplete, mainVars
<1>2. QED
  BY <1>1
     DEF IInv, Positions, RingExact, LogDistinct, BackupAt, Pending, queueVars,
         backupVars

\* The worker goes on with the query it has.
LEMMA WorkerBusyInv ==
    ASSUME IInv,
           WorkerRead \/ WorkerWrite \/ WorkerUnbackup \/ WorkerKeep
               \/ WorkerKeepDelete \/ WorkerPublish
    PROVE  IInv'
<1>1. /\ UNCHANGED <<log, mpc, queueVars, backupVars, wNum>>
      /\ Positions' /\ RingExact' /\ LogDistinct' /\ BackupAt'
  BY WorkerStill DEF Worker, WorkerTake, WorkerRead, WorkerWrite, WorkerUnbackup,
         WorkerKeep, WorkerKeepDelete, WorkerPublish
<1>2. wpc \in BusyPcs /\ wpc' \in BusyPcs /\ wcur' = wcur /\ completed' = completed
  BY DEF BusyPcs, WorkerRead, WorkerWrite, WorkerUnbackup, WorkerKeep,
         WorkerKeepDelete, WorkerPublish, results
<1>3. wcur \in Queries
  <2>1. wNum \in 1..Len(log) /\ wcur = log[wNum] /\ log \in Seq(Queries)
    BY <1>2, LenProperties DEF IInv, TypeOK, WorkerAt, Positions
  <2>2. QED
    BY <2>1, ElementOfSeq
<1>4. TypeOK'
  <2>1. /\ wpc' \in WorkerPcs /\ failMode' \in BOOLEAN /\ ok' \in BOOLEAN
        /\ conns' = conns
    BY DEF IInv, TypeOK, WorkerPcs, WorkerRead, WorkerWrite, WorkerUnbackup,
           WorkerKeep, WorkerKeepDelete, WorkerPublish
  <2>2. remote' \subseteq Queries /\ tmp' \subseteq Queries /\ main' \subseteq Queries
    BY <1>3
       DEF IInv, TypeOK, tables, WorkerRead, WorkerWrite, WorkerUnbackup, WorkerKeep,
           WorkerKeepDelete, WorkerPublish
  <2>3. success' \in [Queries -> BOOLEAN]
    BY DEF IInv, TypeOK, results, WorkerRead, WorkerWrite, WorkerUnbackup, WorkerKeep,
           WorkerKeepDelete, WorkerPublish
  <2>4. QED
    BY <1>1, <1>2, <2>1, <2>2, <2>3 DEF IInv, TypeOK, queueVars, backupVars
<1>5. WorkerAt' /\ AllDone' /\ DoneBehind'
  BY <1>1, <1>2
     DEF IInv, WorkerAt, AllDone, DoneBehind, BusyPcs, queueVars, backupVars
<1>6. RowMoves'
  BY <1>2
     DEF IInv, RowMoves, tables, WorkerRead, WorkerWrite, WorkerUnbackup, WorkerKeep,
         WorkerKeepDelete, WorkerPublish
<1>7. QED
  BY <1>1, <1>4, <1>5, <1>6 DEF IInv

\* The worker is done with its query, or has none.
LEMMA WorkerDoneInv ==
    ASSUME IInv, WorkerLoop \/ WorkerAdd \/ WorkerComplete PROVE IInv'
<1>1. /\ UNCHANGED <<log, mpc, queueVars, backupVars, wNum>>
      /\ Positions' /\ RingExact' /\ LogDistinct' /\ BackupAt'
  BY WorkerStill DEF Worker, WorkerTake, WorkerLoop, WorkerAdd, WorkerComplete
<1>2. wNum \in Nat /\ wcur' = NoQuery /\ wpc' \in {"loop", "wait"} /\ wpc # "exit"
  BY DEF IInv, TypeOK, WorkerAt, BusyPcs, WorkerLoop, WorkerAdd, WorkerComplete
<1>3. wpc \in BusyPcs => wNum \in 1..wNum /\ wcur = log[wNum] /\ wcur \in Queries
  <2>1. wpc \in BusyPcs =>
            wNum \in 1..wNum /\ wNum \in 1..Len(log) /\ wcur = log[wNum]
    BY LenProperties DEF IInv, TypeOK, WorkerAt, Positions
  <2>2. QED
    BY <2>1, ElementOfSeq DEF IInv, TypeOK
<1>4. TypeOK'
  BY <1>1, <1>2, <1>3, DbPoolAssumption
     DEF IInv, TypeOK, BusyPcs, WorkerPcs, WorkerLoop, WorkerAdd, WorkerComplete,
         tables, results, queueVars, backupVars, HasResult
<1>5. WorkerAt'
  BY <1>1, <1>2 DEF IInv, WorkerAt, BusyPcs, queueVars, backupVars
<1>6. AllDone'
  <2> SUFFICES ASSUME NEW k \in 1..wNum, HasResult(log[k]) PROVE completed'[log[k]]
    BY <1>1 DEF AllDone, HasResult
  <2>1. completed[log[k]] \/ wcur = log[k]
    BY DEF IInv, AllDone
  <2>2. log[k] \in Queries
    BY <1>2, ElementOfSeq, LenProperties DEF IInv, TypeOK, Positions
  <2>3. QED
    BY <2>1, <2>2, DbPoolAssumption
       DEF IInv, TypeOK, WorkerAt, BusyPcs, WorkerLoop, WorkerAdd, WorkerComplete,
           results
<1>7. DoneBehind'
  BY <1>1, <1>2, <1>3, DbPoolAssumption
     DEF IInv, TypeOK, DoneBehind, BusyPcs, WorkerLoop, WorkerAdd, WorkerComplete,
         results
<1>8. RowMoves'
  BY <1>2 DEF RowMoves
<1>9. QED
  BY <1>1, <1>4, <1>5, <1>6, <1>7, <1>8 DEF IInv

-----------------------------------------------------------------------------
(* DbPool: the theorems.                                                   *)

LEMMA StepInv == ASSUME Room, IInv, [Next]_vars PROVE IInv'
<1>1. CASE \E q \in Queries : Submit(q)
  BY <1>1, SubmitInv
<1>2. CASE OnShutdown \/ ShutdownSeen \/ Destroy
  BY <1>2, ShutdownInv
<1>3. CASE Backup
  BY <1>3, BackupTakeInv, BackupExecInv, BackupPassInv DEF Backup
<1>4. CASE Worker
  BY <1>4, WorkerTakeInv, WorkerBusyInv, WorkerDoneInv DEF Worker
<1>5. CASE UNCHANGED vars
  BY <1>5
     DEF IInv, TypeOK, Positions, RingExact, Pending, LogDistinct, BackupAt, WorkerAt,
         AllDone, DoneBehind, RowMoves, HasResult, vars, mainVars, backupVars,
         workerVars, tables, results, queueVars
<1>6. QED
  BY <1>1, <1>2, <1>3, <1>4, <1>5 DEF Next

\* The inductive invariant holds in every state of a program that never has
\* as many queries pending as the ring of connection_pool.cpp has slots.
THEOREM Invariance == ASSUME Room PROVE Spec => []IInv
<1>1. Init => IInv
  BY InitInv
<1>2. IInv /\ [Next]_vars => IInv'
  BY StepInv
<1>3. QED
  BY <1>1, <1>2, PTL DEF Spec

\* Every variable of the pool stays in its domain: the semaphores never go
\* below zero and no thread takes anything but a query from the ring.
THEOREM TypeCorrect == ASSUME Room PROVE Spec => []TypeOK
<1>1. IInv => TypeOK
  BY DEF IInv
<1>2. QED
  BY <1>1, Invariance, PTL

\* CWorker and CBackup work through the queries in the order of submission,
\* the backup thread first.
THEOREM WorkInOrder == ASSUME Room PROVE Spec => []InOrder
<1>1. IInv => InOrder
  BY DbPoolAssumption DEF IInv, Positions, BackupAt, WorkerAt, InOrder
<1>2. QED
  BY <1>1, Invariance, PTL

\* When CWorker::ProcessQueries has returned, the shutdown has begun and every
\* query that was ever submitted has its result.
THEOREM ExitsWhenDone == ASSUME Room PROVE Spec => []ExitAfterAllJobs
<1>1. ASSUME IInv PROVE ExitAfterAllJobs
  <2> SUFFICES ASSUME wpc = "exit"
               PROVE  /\ mpc # "run"
                      /\ \A q \in submitted : HasResult(q) => completed[q]
    BY DEF ExitAfterAllJobs
  <2>1. wcur = NoQuery /\ bpc = "exit" /\ wNum = bNum
    BY <1>1 DEF IInv, WorkerAt, BusyPcs
  <2>2. mpc # "run" /\ wNum = Len(log)
    BY <1>1, <2>1 DEF IInv, BackupAt
  <2>3. ASSUME NEW q \in submitted, HasResult(q) PROVE completed[q]
    <3>1. log \in Seq(Queries)
      BY <1>1 DEF IInv, TypeOK
    <3>2. PICK k \in 1..wNum : log[k] = q
      BY <2>2, <3>1, LenProperties DEF submitted, Range
    <3>3. q \in Queries
      BY <2>2, <3>1, <3>2, ElementOfSeq
    <3>4. QED
      BY <1>1, <2>1, <2>3, <3>2, <3>3, DbPoolAssumption DEF IInv, AllDone
  <2>4. QED
    BY <2>2, <2>3
<1>2. QED
  BY <1>1, Invariance, PTL

\* No statement of CSqlStats::SaveFastcapWorker takes the last copy of a row
\* away, whichever of them fail: it is on the remote server or in the local
\* file after each of them.
THEOREM RanksKept == ASSUME Room PROVE Spec => NoRankLost
<1> DEFINE Kept == \A q \in remote \cup tmp \cup main :
                       q \in remote' \cup tmp' \cup main'
<1>1. ASSUME IInv, [Next]_vars PROVE [Kept]_vars
  <2> SUFFICES ASSUME Next PROVE Kept
    BY <1>1
  <2>1. CASE UNCHANGED tables
    BY <2>1 DEF tables
  <2>2. CASE BackupExec
    BY <2>2 DEF BackupExec
  <2>3. CASE WorkerWrite
    BY <2>3 DEF WorkerWrite
  <2>4. CASE WorkerUnbackup
    BY <1>1, <2>4 DEF WorkerUnbackup, IInv, RowMoves
  <2>5. CASE WorkerKeep
    BY <2>5 DEF WorkerKeep
  <2>6. CASE WorkerKeepDelete
    BY <1>1, <2>6 DEF WorkerKeepDelete, IInv, RowMoves
  <2>7. QED
    BY <2>1, <2>2, <2>3, <2>4, <2>5, <2>6
       DEF Next, Submit, OnShutdown, ShutdownSeen, Destroy, Backup, BackupTake,
           BackupPass, BackupLeave, Worker, WorkerLoop, WorkerTake, WorkerRead,
           WorkerAdd, WorkerPublish, WorkerComplete, tables
<1>2. Spec => [][Kept]_vars
  BY <1>1, Invariance, PTL DEF Spec
<1>3. QED
  BY <1>2 DEF NoRankLost

\* What the main thread reads from an ISqlResult once m_Completed is set is
\* not written again.
THEOREM ResultsFinal == ASSUME Room PROVE Spec => ResultFinal
<1> DEFINE Final == \A q \in Queries : completed[q] => /\ completed'[q]
                                                       /\ success'[q] = success[q]
<1>1. ASSUME IInv, [Next]_vars PROVE [Final]_vars
  <2> SUFFICES ASSUME Next PROVE Final
    BY <1>1
  <2>1. CASE UNCHANGED results
    BY <2>1 DEF results
  <2>2. CASE WorkerPublish
    BY <1>1, <2>2 DEF WorkerPublish, IInv, TypeOK, DoneBehind
  <2>3. CASE WorkerComplete
    BY <1>1, <2>3 DEF WorkerComplete, IInv, TypeOK, DoneBehind
  <2>4. QED
    BY <2>1, <2>2, <2>3
       DEF Next, Submit, OnShutdown, ShutdownSeen, Destroy, Backup, BackupTake,
           BackupExec, BackupPass, BackupLeave, Worker, WorkerLoop, WorkerTake,
           WorkerRead, WorkerWrite, WorkerUnbackup, WorkerKeep, WorkerKeepDelete,
           WorkerAdd, results
<1>2. Spec => [][Final]_vars
  BY <1>1, Invariance, PTL DEF Spec
<1>3. QED
  BY <1>2 DEF ResultFinal

-----------------------------------------------------------------------------
(* NetChannel: the invariant of a connection.                              *)

\* All that is under way is less than the numbers apart: fewer than half of
\* them are not acknowledged, and a packet's chunks leave before the others.
InNumbers == 2 * Window < MaxSeq /\ Window + PackMax < MaxSeq

ChannelTypes ==
    /\ queued \in [Ends -> Nat] /\ ack \in [Ends -> Nat] /\ peerAck \in [Ends -> Nat]
    /\ buffer \in [Ends -> Seq(Nat)] /\ unsaved \in [Ends -> SUBSET Nat]
    /\ pack \in [Ends -> Seq(Nat)] /\ asking \in [Ends -> BOOLEAN]
    /\ inbox \in [Ends -> Seq(Nat)] /\ got \in [Ends -> Seq(Nat)]
    /\ DOMAIN net = Ends
    /\ \A e \in Ends : net[e] \subseteq [chunks : Seq(Nat), ack : Nat, resend : BOOLEAN]
    /\ \A e \in Ends : Len(buffer[e]) <= Cap /\ Len(pack[e]) <= PackMax

\* What e sends is got by its peer up to ack, and acknowledged up to peerAck.
Acknowledged(e) ==
    /\ peerAck[e] <= ack[Peer(e)] /\ ack[Peer(e)] <= queued[e]
    /\ queued[e] <= peerAck[e] + Window

GotPrefix(e) == got[e] = [i \in 1..ack[e] |-> i]

\* The buffer has what is not acknowledged, in order.
Ascending(b, P, Q) ==
    /\ \A i \in 1..Len(b) : P < b[i] /\ b[i] <= Q
    /\ \A i, j \in 1..Len(b) : i < j => b[i] < b[j]
BufferExact(e) ==
    /\ Ascending(buffer[e], peerAck[e], queued[e])
    /\ (peerAck[e] + 1)..queued[e] \subseteq Range(buffer[e]) \cup unsaved[e]

\* A chunk in m_Construct is as far behind as the window and what follows it.
PackRecent(e) ==
    \A j \in 1..Len(pack[e]) :
        /\ pack[e][j] <= queued[e]
        /\ queued[e] + j < pack[e][j] + Window + Len(pack[e])

PacketsRecent(e) ==
    \A p \in net[Peer(e)] : \A c \in Range(p.chunks) : c <= queued[e] /\ queued[e] + 1 < c + MaxSeq

AcksRecent(e) ==
    \A p \in net[e] : p.ack <= ack[Peer(e)] /\ queued[e] < p.ack + MaxSeq

InboxRecent(e) ==
    LET r == Peer(e) IN
    \A c \in Range(inbox[r]) :
        /\ c <= queued[e] /\ ack[r] + 1 < c + MaxSeq
        /\ \A d \in Range(inbox[r]) : d + 1 < c + MaxSeq

ChannelInv ==
    /\ ChannelTypes
    /\ \A e \in Ends : /\ Acknowledged(e) /\ GotPrefix(e) /\ BufferExact(e)
                       /\ PackRecent(e) /\ PacketsRecent(e) /\ AcksRecent(e)
                       /\ InboxRecent(e)

-----------------------------------------------------------------------------
(* NetChannel: positions and their numbers.                                *)

LEMMA ChannelNumbers ==
    /\ MaxSeq \in Nat \ {0} /\ Cap \in Nat /\ PackMax \in Nat \ {0} /\ Window \in Nat
BY NetChannelAssumption

LEMMA PeerIs ==
    \A e \in Ends : Peer(e) \in Ends /\ Peer(e) # e /\ Peer(Peer(e)) = e
BY NetChannelAssumption

\* The numbers of two positions less than MaxSeq apart are as far apart as the
\* positions, or MaxSeq less when they have started again in between.
LEMMA NumShift ==
    ASSUME NEW a \in Nat, NEW b \in Nat, a <= b, b < a + MaxSeq
    PROVE  /\ Num(a) \in 0..(MaxSeq - 1) /\ Num(b) \in 0..(MaxSeq - 1)
           /\ Num(b) = Num(a) + (b - a) \/ Num(b) = Num(a) + (b - a) - MaxSeq
<1> USE ChannelNumbers
<1> DEFINE q == a \div MaxSeq
           r == b \div MaxSeq
           x == a % MaxSeq
           y == b % MaxSeq
           d == r - q
<1>1. /\ x \in 0..(MaxSeq - 1) /\ q \in Int /\ a = MaxSeq * q + x
      /\ y \in 0..(MaxSeq - 1) /\ r \in Int /\ b = MaxSeq * r + y
  BY DivMod
<1> HIDE DEF q, r, x, y
<1>2. MaxSeq * r - MaxSeq * q = MaxSeq * d /\ d \in Int
  BY <1>1, SMT
<1>3. MaxSeq * d = (b - a) - (y - x)
  BY <1>1, <1>2
<1>4. d <= -1 => MaxSeq * d <= 0 - MaxSeq
  BY <1>2, SMT
<1>5. d >= 2 => MaxSeq * d >= 2 * MaxSeq
  BY <1>2, SMT
<1>6. d = 0 \/ d = 1
  BY <1>1, <1>2, <1>3, <1>4, <1>5
<1>7. y = x + (b - a) \/ y = x + (b - a) - MaxSeq
  BY <1>1, <1>3, <1>6
<1>8. QED
  BY <1>1, <1>7 DEF Num, x, y

\* Positions less than MaxSeq apart have different numbers.
LEMMA NumInjective ==
    ASSUME NEW a \in Nat, NEW b \in Nat, a < b + MaxSeq, b < a + MaxSeq, Num(a) = Num(b)
    PROVE  a = b
<1>1. CASE a <= b
  <2>1. /\ Num(a) \in 0..(MaxSeq - 1)
        /\ Num(b) = Num(a) + (b - a) \/ Num(b) = Num(a) + (b - a) - MaxSeq
    BY <1>1, NumShift
  <2>2. QED
    BY <1>1, <2>1, ChannelNumbers
<1>2. CASE b <= a
  <2>1. /\ Num(b) \in 0..(MaxSeq - 1)
        /\ Num(a) = Num(b) + (a - b) \/ Num(a) = Num(b) + (a - b) - MaxSeq
    BY <1>2, NumShift
  <2>2. QED
    BY <1>2, <2>1, ChannelNumbers
<1>3. QED
  BY <1>1, <1>2

\* FetchChunk computes the number after that of m_Ack.
LEMMA NumSucc ==
    ASSUME NEW a \in Nat
    PROVE  Num(Num(a) + 1) = Num(a + 1)
<1> USE ChannelNumbers
<1>1. a + 1 \in Nat /\ Num(a) \in 0..(MaxSeq - 1)
  BY NumShift
<1>2. CASE MaxSeq = 1
  <2>1. \A k \in Nat : Num(k) \in 0..(MaxSeq - 1)
    <3> SUFFICES ASSUME NEW k \in Nat PROVE Num(k) \in 0..(MaxSeq - 1)
      OBVIOUS
    <3>1. k % MaxSeq \in 0..(MaxSeq - 1)
      BY DivMod
    <3>2. QED
      BY <3>1 DEF Num
  <2>2. Num(a) + 1 \in Nat
    BY <1>1
  <2>3. QED
    BY <1>1, <1>2, <2>1, <2>2
<1>3. CASE MaxSeq # 1
  <2>1. /\ Num(a + 1) \in 0..(MaxSeq - 1)
        /\ Num(a + 1) = Num(a) + 1 \/ Num(a + 1) = Num(a) + 1 - MaxSeq
    BY <1>1, <1>3, NumShift
  <2>2. Num(0) = 0 /\ 0 \in Nat
    BY SMT DEF Num
  <2>3. \A k \in 0..(MaxSeq - 1) : Num(k) = k
    <3> SUFFICES ASSUME NEW k \in 0..(MaxSeq - 1) PROVE Num(k) = k
      OBVIOUS
    <3>1. 0 <= k /\ k < 0 + MaxSeq /\ k \in Nat
      OBVIOUS
    <3>2. Num(k) \in 0..(MaxSeq - 1) /\ (Num(k) = Num(0) + (k - 0) \/ Num(k) = Num(0) + (k - 0) - MaxSeq)
      BY <2>2, <3>1, NumShift
    <3>3. QED
      BY <2>2, <3>1, <3>2
  <2>4. Num(MaxSeq) = 0
    <3>1. Num(MaxSeq) \in 0..(MaxSeq - 1)
      BY DivMod DEF Num
    <3>2. 1 <= MaxSeq /\ MaxSeq < 1 + MaxSeq /\ 1 \in 0..(MaxSeq - 1)
      BY <1>3
    <3>3. Num(MaxSeq) = Num(1) + (MaxSeq - 1) \/ Num(MaxSeq) = Num(1) + (MaxSeq - 1) - MaxSeq
      BY <3>2, NumShift
    <3>4. QED
      BY <2>3, <3>1, <3>2, <3>3
  <2>5. CASE Num(a) + 1 < MaxSeq
    BY <1>1, <2>1, <2>3, <2>5
  <2>6. CASE Num(a) + 1 = MaxSeq
    BY <1>1, <2>1, <2>4, <2>6
  <2>7. QED
    BY <1>1, <2>5, <2>6
<1>4. QED
  BY <1>2, <1>3

\* Feed takes an acknowledgement when it is none of a chunk that is already
\* acknowledged.
LEMMA AckValidIs ==
    ASSUME InNumbers, NEW e \in Ends, queued[e] \in Nat, peerAck[e] \in Nat,
           peerAck[e] <= queued[e], queued[e] <= peerAck[e] + Window,
           NEW a \in Nat, a <= queued[e], queued[e] < a + MaxSeq
    PROVE  AckValid(e, a) <=> peerAck[e] <= a
<1> DEFINE Q == queued[e]
           P == peerAck[e]
<1> USE ChannelNumbers
<1>1. /\ Num(P) \in 0..(MaxSeq - 1) /\ Num(Q) \in 0..(MaxSeq - 1)
      /\ Num(Q) = Num(P) + (Q - P) \/ Num(Q) = Num(P) + (Q - P) - MaxSeq
  BY NumShift DEF InNumbers
<1>2. /\ Num(a) \in 0..(MaxSeq - 1)
      /\ Num(Q) = Num(a) + (Q - a) \/ Num(Q) = Num(a) + (Q - a) - MaxSeq
  BY NumShift
<1>3. P <= a => Num(a) = Num(P) + (a - P) \/ Num(a) = Num(P) + (a - P) - MaxSeq
  BY NumShift DEF InNumbers
<1>4. a < P => Num(P) = Num(a) + (P - a) \/ Num(P) = Num(a) + (P - a) - MaxSeq
  BY NumShift DEF InNumbers
<1>5. AckValid(e, a) <=> IF Num(Q) >= Num(P)
                           THEN Num(P) <= Num(a) /\ Num(a) <= Num(Q)
                           ELSE ~(Num(a) < Num(P) /\ Num(a) > Num(Q))
  BY DEF AckValid
<1>6. QED
  BY <1>1, <1>2, <1>3, <1>4, <1>5 DEF InNumbers

\* Within a window, the backroom of an acknowledgement is what is not after it.
LEMMA BackroomIs ==
    ASSUME InNumbers, NEW c \in Nat, NEW a \in Nat, c <= a + Window, a <= c + Window
    PROVE  InBackroom(Num(c), Num(a)) <=> c <= a
<1> USE ChannelNumbers
<1>1. Half \in Nat /\ 2 * Half <= MaxSeq /\ MaxSeq <= 2 * Half + 1
  BY SMT DEF Half
<1>2. /\ Num(c) \in 0..(MaxSeq - 1) /\ Num(a) \in 0..(MaxSeq - 1)
      /\ c <= a => Num(a) = Num(c) + (a - c) \/ Num(a) = Num(c) + (a - c) - MaxSeq
      /\ a <= c => Num(c) = Num(a) + (c - a) \/ Num(c) = Num(a) + (c - a) - MaxSeq
  <2>1. c <= a => /\ Num(c) \in 0..(MaxSeq - 1) /\ Num(a) \in 0..(MaxSeq - 1)
                  /\ Num(a) = Num(c) + (a - c) \/ Num(a) = Num(c) + (a - c) - MaxSeq
    BY NumShift DEF InNumbers
  <2>2. a <= c => /\ Num(c) \in 0..(MaxSeq - 1) /\ Num(a) \in 0..(MaxSeq - 1)
                  /\ Num(c) = Num(a) + (c - a) \/ Num(c) = Num(a) + (c - a) - MaxSeq
    BY NumShift DEF InNumbers
  <2>3. QED
    BY <2>1, <2>2
<1> HIDE DEF Half
<1>3. InBackroom(Num(c), Num(a)) <=>
        IF Num(a) - Half < 0
          THEN Num(c) <= Num(a) \/ Num(c) >= Num(a) - Half + MaxSeq
          ELSE Num(c) <= Num(a) /\ Num(c) >= Num(a) - Half
  BY DEF InBackroom
<1>4. QED
  BY <1>1, <1>2, <1>3 DEF InNumbers

-----------------------------------------------------------------------------
(* NetChannel: the operators.                                              *)

\* The least-number principle.
LEMMA LeastNumber ==
    ASSUME NEW T \in SUBSET Nat, T # {}
    PROVE  \E m \in T : \A n \in T : ~(n < m)
<1> DEFINE R == {ss \in Nat \X Nat : ss[1] < ss[2]}
<1>1. IsWellFoundedOn(R, Nat)
  BY NatLessThanWellFounded DEF OpToRel
<1> HIDE DEF R
<1>2. PICK m \in T : \A n \in T : ~ (<<n, m>> \in R)
  BY <1>1, WFMin
<1>3. \A n \in T : <<n, m>> \in Nat \X Nat
  OBVIOUS
<1>4. QED
  BY <1>2, <1>3 DEF R

LEMMA RangeIs ==
    ASSUME NEW s \in Seq(Nat)
    PROVE  /\ \A c \in Range(s) : c \in Nat /\ \E i \in 1..Len(s) : c = s[i]
           /\ \A i \in 1..Len(s) : s[i] \in Range(s) /\ s[i] \in Nat
<1>1. Range(s) = {s[i] : i \in 1..Len(s)}
  BY RangeEquality
<1>2. \A i \in 1..Len(s) : s[i] \in Nat
  BY ElementOfSeq
<1>3. QED
  BY <1>1, <1>2

\* AckChunks removes from a buffer in order what a acknowledges, and only that.
LEMMA UnackedIs ==
    ASSUME InNumbers, NEW b \in Seq(Nat), NEW P \in Nat, NEW Q \in Nat, Q <= P + Window,
           NEW a \in P..Q, Ascending(b, P, Q)
    PROVE  LET u == Unacked(b, a)
           IN  /\ u \in Seq(Nat) /\ Len(u) <= Len(b)
               /\ Ascending(u, a, Q)
               /\ \A c \in Range(b) : c <= a \/ c \in Range(u)
<1> USE ChannelNumbers
<1> DEFINE acked(i) == InBackroom(Num(b[i]), Num(a))
           fits(k) == /\ \A i \in 1..k : acked(i)
                      /\ k < Len(b) => ~acked(k + 1)
           n == CHOOSE k \in 0..Len(b) : fits(k)
           u == Unacked(b, a)
<1>1. /\ Len(b) \in Nat /\ \A i \in 1..Len(b) : b[i] \in Nat
      /\ \A i \in 1..Len(b) : P < b[i] /\ b[i] <= Q
      /\ \A i, j \in 1..Len(b) : i < j => b[i] < b[j]
  BY LenProperties, ElementOfSeq DEF Ascending
<1>2. \A i \in 1..Len(b) : acked(i) <=> b[i] <= a
  <2> SUFFICES ASSUME NEW i \in 1..Len(b) PROVE InBackroom(Num(b[i]), Num(a)) <=> b[i] <= a
    OBVIOUS
  <2>1. b[i] \in Nat /\ a \in Nat /\ b[i] <= a + Window /\ a <= b[i] + Window
    BY <1>1
  <2>2. QED
    BY <2>1, BackroomIs
<1>3. u = SubSeq(b, n + 1, Len(b))
  BY DEF Unacked
<1> HIDE DEF acked, u
<1>4. \E k \in 0..Len(b) : fits(k)
  <2> DEFINE T == {k \in 0..Len(b) : k = Len(b) \/ ~acked(k + 1)}
  <2>1. T \in SUBSET Nat /\ Len(b) \in T
    BY <1>1
  <2>2. PICK k \in T : \A m \in T : ~(m < k)
    BY <2>1, LeastNumber
  <2>3. k \in 0..Len(b) /\ k < Len(b) => ~acked(k + 1)
    BY <1>1
  <2>4. ASSUME NEW i \in 1..k PROVE acked(i)
    <3>1. i - 1 \in 0..Len(b) /\ i - 1 < k /\ (i - 1) + 1 = i
      BY <1>1, <2>3
    <3>2. i - 1 \notin T
      BY <2>2, <3>1
    <3>3. QED
      BY <3>1, <3>2
  <2>5. k \in 0..Len(b)
    OBVIOUS
  <2>6. fits(k)
    BY <2>3, <2>4
  <2>7. QED
    BY <2>5, <2>6
<1>5. n \in 0..Len(b) /\ fits(n)
  BY <1>4
<1> HIDE DEF n
<1>6. /\ u \in Seq(Nat)
      /\ Len(u) = Len(b) - n
      /\ \A i \in 1..Len(u) : u[i] = b[n + i]
  <2>1. n + 1 \in Int /\ Len(b) \in Int /\ \A i \in (n + 1)..Len(b) : b[i] \in Nat
    BY <1>1, <1>5
  <2>2. /\ u \in Seq(Nat)
        /\ Len(u) = IF n + 1 <= Len(b) THEN Len(b) - (n + 1) + 1 ELSE 0
        /\ \A i \in 1..(Len(b) - (n + 1) + 1) : u[i] = b[(n + 1) + i - 1]
    BY <1>3, <2>1, SubSeqProperties
  <2>3. Len(u) = Len(b) - n
    BY <1>1, <1>5, <2>2
  <2>4. ASSUME NEW i \in 1..Len(u) PROVE u[i] = b[n + i]
    <3>1. i \in 1..(Len(b) - (n + 1) + 1) /\ (n + 1) + i - 1 = n + i
      BY <1>1, <1>5, <2>3
    <3>2. QED
      BY <2>2, <3>1
  <2>5. QED
    BY <2>2, <2>3, <2>4
<1>7. \A i \in 1..Len(u) : n + i \in 1..Len(b)
  BY <1>1, <1>5, <1>6
<1>8. \A i, j \in 1..Len(u) : i < j => u[i] < u[j]
  <2> SUFFICES ASSUME NEW i \in 1..Len(u), NEW j \in 1..Len(u), i < j PROVE u[i] < u[j]
    OBVIOUS
  <2>1. n + i < n + j /\ n + i \in 1..Len(b) /\ n + j \in 1..Len(b)
    BY <1>5, <1>7
  <2>2. b[n + i] < b[n + j]
    BY <1>1, <2>1
  <2>3. QED
    BY <1>6, <2>2
<1>9. \A i \in 1..Len(u) : a < u[i] /\ u[i] <= Q
  <2> SUFFICES ASSUME NEW i \in 1..Len(u) PROVE a < b[n + i] /\ b[n + i] <= Q
    BY <1>6
  <2>1. n + 1 \in 1..Len(b) /\ n < Len(b)
    BY <1>1, <1>5, <1>6
  <2>2. ~(b[n + 1] <= a)
    BY <1>2, <1>5, <2>1
  <2>3. b[n + 1] <= b[n + i]
    <3>1. n + i \in 1..Len(b) /\ (i = 1 \/ n + 1 < n + i)
      BY <1>5, <1>6, <1>7
    <3>2. n + 1 < n + i => b[n + 1] < b[n + i]
      BY <1>1, <2>1, <3>1
    <3>3. b[n + 1] \in Nat /\ b[n + i] \in Nat
      BY <1>1, <2>1, <3>1, ElementOfSeq
    <3>4. i = 1 => b[n + 1] = b[n + i]
      OBVIOUS
    <3>5. QED
      BY <3>1, <3>2, <3>3, <3>4
  <2>4. b[n + i] \in Nat /\ b[n + i] <= Q /\ b[n + 1] \in Nat
    BY <1>1, <1>7, <2>1
  <2>5. QED
    BY <2>2, <2>3, <2>4
<1>10. ASSUME NEW c \in Range(b) PROVE c <= a \/ c \in Range(u)
  <2>1. PICK i \in 1..Len(b) : c = b[i]
    BY RangeIs
  <2>2. CASE i <= n
    <3>1. acked(i)
      BY <1>1, <1>5, <2>2
    <3>2. QED
      BY <1>2, <2>1, <3>1
  <2>3. CASE n < i
    <3>1. i - n \in 1..Len(u) /\ n + (i - n) = i
      BY <1>1, <1>5, <1>6, <2>3
    <3>2. u[i - n] \in Range(u) /\ u[i - n] = b[i]
      BY <1>6, <3>1, RangeIs
    <3>3. QED
      BY <2>1, <3>2
  <2>4. QED
    BY <1>1, <1>5, <2>2, <2>3
<1>11. Len(u) <= Len(b)
  BY <1>1, <1>5, <1>6
<1>12. QED
  BY <1>6, <1>8, <1>9, <1>10, <1>11 DEF u, Ascending

\* A new chunk goes to the end of the buffer.
LEMMA AppendAscending ==
    ASSUME NEW b \in Seq(Nat), NEW P \in Nat, NEW Q \in Nat, P <= Q, Ascending(b, P, Q)
    PROVE  /\ Append(b, Q + 1) \in Seq(Nat)
           /\ Ascending(Append(b, Q + 1), P, Q + 1)
           /\ Range(b) \cup {Q + 1} \subseteq Range(Append(b, Q + 1))
<1> DEFINE u == Append(b, Q + 1)
           N == Len(b)
<1>1. /\ u \in Seq(Nat) /\ Len(u) = N + 1 /\ u[N + 1] = Q + 1
      /\ \A k \in 1..N : u[k] = b[k]
  BY AppendProperties
<1>2. N \in Nat /\ \A k \in 1..N : b[k] \in Nat /\ P < b[k] /\ b[k] <= Q
  BY LenProperties, ElementOfSeq DEF Ascending
<1>3. \A k, j \in 1..N : k < j => b[k] < b[j]
  BY DEF Ascending
<1> HIDE DEF u, N
<1>4. \A k \in 1..(N + 1) : k = N + 1 \/ k \in 1..N
  BY <1>2
<1>5. \A k \in 1..(N + 1) : P < u[k] /\ u[k] <= Q + 1
  <2> SUFFICES ASSUME NEW k \in 1..(N + 1) PROVE P < u[k] /\ u[k] <= Q + 1
    OBVIOUS
  <2>1. CASE k = N + 1
    BY <1>1, <2>1
  <2>2. CASE k \in 1..N
    <3>1. u[k] = b[k] /\ b[k] \in Nat /\ P < b[k] /\ b[k] <= Q
      BY <1>1, <1>2, <2>2
    <3>2. QED
      BY <3>1
  <2>3. QED
    BY <1>4, <2>1, <2>2
<1>6. \A k, j \in 1..(N + 1) : k < j => u[k] < u[j]
  <2> SUFFICES ASSUME NEW k \in 1..(N + 1), NEW j \in 1..(N + 1), k < j PROVE u[k] < u[j]
    OBVIOUS
  <2>1. k \in 1..N
    BY <1>2
  <2>2. u[k] = b[k] /\ b[k] \in Nat /\ b[k] <= Q
    BY <1>1, <1>2, <2>1
  <2>3. CASE j = N + 1
    BY <1>1, <2>2, <2>3
  <2>4. CASE j \in 1..N
    BY <1>1, <1>3, <2>1, <2>4
  <2>5. QED
    BY <1>4, <2>3, <2>4
<1>7. ASSUME NEW c \in Range(b) PROVE c \in Range(u)
  <2>1. PICK k \in 1..N : c = b[k]
    BY RangeIs DEF N
  <2>2. k \in 1..Len(u) /\ u[k] = c
    BY <1>1, <1>2, <2>1
  <2>3. QED
    BY <1>1, <2>2, RangeIs
<1>8. Q + 1 \in Range(u)
  <2>1. N + 1 \in 1..Len(u)
    BY <1>1, <1>2
  <2>2. u[N + 1] \in Range(u)
    BY <1>1, <2>1, RangeIs
  <2>3. QED
    BY <1>1, <2>2
<1>9. u \in Seq(Nat) /\ Ascending(u, P, Q + 1) /\ Range(b) \cup {Q + 1} \subseteq Range(u)
  BY <1>1, <1>5, <1>6, <1>7, <1>8 DEF Ascending
<1>10. QED
  BY <1>9 DEF u

LEMMA TwoEnds ==
    ASSUME NEW e \in Ends, NEW f \in Ends
    PROVE  f = e \/ f = Peer(e)
<1> DEFINE d == Peer(e)
           A == {e} \cup {d}
           B == A \cup {f}
<1>1. IsFiniteSet(Ends) /\ Cardinality(Ends) = 2 /\ d \in Ends /\ d # e
  BY NetChannelAssumption
<1>2. IsFiniteSet({e}) /\ Cardinality({e}) = 1 /\ d \notin {e}
  BY <1>1, FS_Singleton
<1> HIDE DEF d
<1>3. IsFiniteSet(A) /\ Cardinality(A) = IF d \in {e} THEN Cardinality({e}) ELSE Cardinality({e}) + 1
  BY <1>2, FS_AddElement
<1> HIDE DEF A
<1>4. IsFiniteSet(B) /\ Cardinality(B) = IF f \in A THEN Cardinality(A) ELSE Cardinality(A) + 1
  BY <1>3, FS_AddElement
<1>5. B \in SUBSET Ends
  BY <1>1 DEF A
<1> HIDE DEF B
<1>6. Cardinality(B) <= Cardinality(Ends)
  BY <1>1, <1>5, FS_Subset
<1>7. f \in A
  BY <1>1, <1>2, <1>3, <1>4, <1>6
<1>8. QED
  BY <1>7 DEF A, d

\* QueueChunkEx, chunk by chunk: what is flushed are full packets, and what
\* is left is the end of what there was.
LEMMA SplitIs ==
    ASSUME NEW L \in Seq(Nat), NEW F,
           F = IF L = <<>> THEN 0 ELSE (Len(L) - 1) \div PackMax
    PROVE  LET X == PackMax * F
               T == SubSeq(L, X + 1, Len(L))
           IN  /\ X \in Nat /\ F \in Nat
               /\ T \in Seq(Nat) /\ Len(T) <= PackMax /\ Len(T) = Len(L) - X
               /\ \A j \in 1..Len(T) : X + j \in 1..Len(L) /\ T[j] = L[X + j]
               /\ \A k \in 1..F :
                     LET S == SubSeq(L, PackMax * (k - 1) + 1, PackMax * k)
                     IN  S \in Seq(Nat) /\ Range(S) \subseteq Range(L)
<1> USE ChannelNumbers
<1> DEFINE X == PackMax * F
           T == SubSeq(L, X + 1, Len(L))
<1>1. Len(L) \in Nat /\ (\A i \in 1..Len(L) : L[i] \in Nat) /\ (L # <<>> => Len(L) >= 1)
  BY LenProperties, ElementOfSeq, EmptySeq
<1>2. F \in Nat /\ X \in Nat /\ X <= Len(L) /\ Len(L) - X <= PackMax
  <2>1. CASE L = <<>>
    BY <2>1
  <2>2. CASE L # <<>>
    <3> DEFINE N == Len(L) - 1
    <3>1. N \in Nat /\ Len(L) = N + 1
      BY <1>1, <2>2
    <3> HIDE DEF N
    <3>2. /\ N % PackMax \in 0..(PackMax - 1) /\ N \div PackMax \in Int
          /\ N = PackMax * (N \div PackMax) + (N % PackMax)
      BY <3>1, DivMod
    <3>3. F = N \div PackMax
      BY <2>2 DEF N
    <3>4. F <= -1 => PackMax * F <= 0 - PackMax
      <4>1. \A d \in Int : d <= -1 => PackMax * d <= 0 - PackMax
        BY SMT
      <4>2. QED
        BY <3>2, <3>3, <4>1
    <3>5. X \in Int
      BY <3>2, <3>3, SMT
    <3> HIDE DEF X
    <3>6. N = X + (N % PackMax)
      BY <3>2, <3>3 DEF X
    <3>7. F >= 0 /\ X >= 0
      <4>1. F <= -1 => X <= 0 - PackMax
        BY <3>4 DEF X
      <4>2. F \in Int
        BY <3>2, <3>3
      <4>3. F >= 0
        BY <3>1, <3>2, <3>5, <3>6, <4>1, <4>2
      <4>4. PackMax * F >= 0
        BY <4>2, <4>3, SMT
      <4>5. QED
        BY <4>3, <4>4 DEF X
    <3>8. QED
      BY <3>1, <3>2, <3>3, <3>5, <3>6, <3>7
  <2>3. QED
    BY <2>1, <2>2
<1>3. \A k \in 1..F : /\ PackMax * (k - 1) \in Nat /\ PackMax * k \in Nat
                      /\ PackMax * k <= X
  <2> SUFFICES ASSUME NEW k \in 1..F
               PROVE  /\ PackMax * (k - 1) \in Nat /\ PackMax * k \in Nat
                      /\ PackMax * k <= X
    OBVIOUS
  <2>1. k \in Nat /\ k - 1 \in Nat /\ F - k \in Nat
    BY <1>2
  <2>2. PackMax * (k - 1) \in Nat /\ PackMax * k \in Nat /\ PackMax * (F - k) \in Nat
    BY <2>1, SMT
  <2>3. PackMax * (F - k) = PackMax * F - PackMax * k
    BY <1>2, <2>1, SMT
  <2>4. QED
    BY <1>2, <2>2, <2>3
<1> HIDE DEF X
<1>4. /\ T \in Seq(Nat) /\ Len(T) = Len(L) - X
      /\ \A j \in 1..Len(T) : T[j] = L[X + j]
  <2>1. X + 1 \in Int /\ Len(L) \in Int /\ \A i \in (X + 1)..Len(L) : L[i] \in Nat
    BY <1>1, <1>2
  <2>2. /\ T \in Seq(Nat)
        /\ Len(T) = IF X + 1 <= Len(L) THEN Len(L) - (X + 1) + 1 ELSE 0
        /\ \A i \in 1..(Len(L) - (X + 1) + 1) : T[i] = L[(X + 1) + i - 1]
    BY <2>1, SubSeqProperties
  <2>3. Len(T) = Len(L) - X
    BY <1>1, <1>2, <2>2
  <2>4. ASSUME NEW j \in 1..Len(T) PROVE T[j] = L[X + j]
    <3>1. j \in 1..(Len(L) - (X + 1) + 1) /\ (X + 1) + j - 1 = X + j
      BY <1>1, <1>2, <2>3
    <3>2. QED
      BY <2>2, <3>1
  <2>5. QED
    BY <2>2, <2>3, <2>4
<1>5. \A j \in 1..Len(T) : X + j \in 1..Len(L)
  BY <1>1, <1>2, <1>4
<1>6. ASSUME NEW k \in 1..F
      PROVE  LET S == SubSeq(L, PackMax * (k - 1) + 1, PackMax * k)
             IN  S \in Seq(Nat) /\ Range(S) \subseteq Range(L)
  <2> DEFINE m == PackMax * (k - 1)
             n == PackMax * k
             S == SubSeq(L, m + 1, n)
  <2>1. m \in Nat /\ n \in Nat /\ n <= Len(L)
    BY <1>1, <1>2, <1>3
  <2> HIDE DEF m, n
  <2>2. m + 1 \in Int /\ n \in Int /\ \A i \in (m + 1)..n : L[i] \in Nat
    BY <1>1, <2>1
  <2>3. /\ S \in Seq(Nat)
        /\ Len(S) = IF m + 1 <= n THEN n - (m + 1) + 1 ELSE 0
        /\ \A i \in 1..(n - (m + 1) + 1) : S[i] = L[(m + 1) + i - 1]
    <3> DEFINE a == m + 1
    <3>1. a \in Int /\ n \in Int /\ \A i \in a..n : L[i] \in Nat
      BY <2>2
    <3> HIDE DEF a
    <3>2. /\ SubSeq(L, a, n) \in Seq(Nat)
          /\ Len(SubSeq(L, a, n)) = IF a <= n THEN n - a + 1 ELSE 0
          /\ \A i \in 1..(n - a + 1) : SubSeq(L, a, n)[i] = L[a + i - 1]
      BY <3>1, SubSeqProperties
    <3>3. QED
      BY <3>2 DEF a
  <2> HIDE DEF S
  <2>4. ASSUME NEW c \in Range(S) PROVE c \in Range(L)
    <3>1. PICK i \in 1..Len(S) : c = S[i]
      BY <2>3, RangeIs
    <3>2. i \in 1..(n - (m + 1) + 1) /\ (m + 1) + i - 1 \in 1..Len(L)
      BY <1>1, <2>1, <2>3
    <3>3. QED
      BY <2>3, <3>1, <3>2, RangeIs
  <2>5. S \in Seq(Nat) /\ Range(S) \subseteq Range(L)
    BY <2>3, <2>4
  <2>6. QED
    BY <2>5 DEF S, m, n
<1>7. QED
  BY <1>2, <1>4, <1>5, <1>6 DEF X

LEMMA AddIs ==
    ASSUME NEW S, NEW T
    PROVE  Add(S, T) \subseteq S \cup T
BY DEF Add

LEMMA ConcatIs ==
    ASSUME NEW s \in Seq(Nat), NEW t \in Seq(Nat)
    PROVE  /\ s \o t \in Seq(Nat) /\ Len(s \o t) = Len(s) + Len(t)
           /\ \A i \in 1..(Len(s) + Len(t)) :
                 (s \o t)[i] = IF i <= Len(s) THEN s[i] ELSE t[i - Len(s)]
BY ConcatProperties

\* Chunks of the window, of which at most one is new, after those of m_Construct.
LEMMA ConcatRecent ==
    ASSUME InNumbers, NEW K \in Seq(Nat), NEW s \in Seq(Nat), NEW Q \in Nat, NEW Q1 \in Nat,
           Len(K) <= PackMax, Q <= Q1, Q1 <= Q + 1, Q1 <= Q + Len(s),
           \A j \in 1..Len(K) : K[j] <= Q /\ Q + j < K[j] + Window + Len(K),
           \A j \in 1..Len(s) : s[j] <= Q1 /\ Q1 < s[j] + Window
    PROVE  /\ K \o s \in Seq(Nat)
           /\ \A i \in 1..Len(K \o s) :
                /\ (K \o s)[i] <= Q1
                /\ Q1 + i < (K \o s)[i] + Window + Len(K \o s)
                /\ Q1 + 1 < (K \o s)[i] + MaxSeq
<1> DEFINE L == K \o s
<1>1. /\ Len(K) \in Nat /\ \A i \in 1..Len(K) : K[i] \in Nat
  BY LenProperties, ElementOfSeq
<1>2. /\ Len(s) \in Nat /\ \A i \in 1..Len(s) : s[i] \in Nat
  BY LenProperties, ElementOfSeq
<1>3. /\ L \in Seq(Nat) /\ Len(L) = Len(K) + Len(s)
      /\ \A i \in 1..(Len(K) + Len(s)) :
            L[i] = IF i <= Len(K) THEN K[i] ELSE s[i - Len(K)]
  BY ConcatIs
<1> HIDE DEF L
<1> DEFINE M == Len(K)
           N == Len(s)
<1>4. M \in Nat /\ N \in Nat /\ Len(L) = M + N /\ M <= PackMax /\ Q1 <= Q + N
  BY <1>1, <1>2, <1>3
<1>5. Window \in Nat /\ PackMax \in Nat /\ MaxSeq \in Nat /\ 2 * Window < MaxSeq /\ Window + PackMax < MaxSeq
  BY ChannelNumbers DEF InNumbers
<1>6. ASSUME NEW i \in 1..Len(L)
      PROVE  L[i] <= Q1 /\ Q1 + i < L[i] + Window + Len(L) /\ Q1 + 1 < L[i] + MaxSeq
  <2>1. CASE i <= Len(K)
    <3>1. i \in 1..Len(K) /\ L[i] = K[i]
      BY <1>1, <1>2, <1>3, <2>1
    <3>2. K[i] \in Nat /\ K[i] <= Q /\ Q + i < K[i] + Window + Len(K)
      BY <1>1, <3>1
    <3> DEFINE x == K[i]
    <3> HIDE DEF x, M, N
    <3>3. x \in Nat /\ x <= Q /\ Q + i < x + Window + M
      BY <3>2 DEF x, M
    <3>4. i \in 1..M
      BY <3>1 DEF M
    <3>5. x <= Q1 /\ Q1 + i < x + Window + (M + N)
      BY <1>4, <1>5, <3>3, <3>4
    <3>6. Q1 + 1 < x + MaxSeq
      BY <1>4, <1>5, <3>3, <3>4
    <3>7. QED
      BY <1>4, <3>1, <3>5, <3>6 DEF x
  <2>2. CASE i > Len(K)
    <3>1. i - Len(K) \in 1..Len(s) /\ L[i] = s[i - Len(K)]
      BY <1>1, <1>2, <1>3, <2>2
    <3>2. s[i - Len(K)] \in Nat /\ s[i - Len(K)] <= Q1 /\ Q1 < s[i - Len(K)] + Window
      BY <1>2, <3>1
    <3> DEFINE x == s[i - Len(K)]
    <3> HIDE DEF x, M, N
    <3>3. x \in Nat /\ x <= Q1 /\ Q1 < x + Window
      BY <3>2 DEF x
    <3>4. i \in 1..(M + N)
      BY <1>4
    <3>5. Q1 + i < x + Window + (M + N)
      BY <1>4, <1>5, <3>3, <3>4
    <3>6. Q1 + 1 < x + MaxSeq
      BY <1>4, <1>5, <3>3
    <3>7. QED
      BY <1>4, <3>1, <3>3, <3>5, <3>6 DEF x
  <2>3. QED
    BY <1>1, <1>2, <1>3, <2>1, <2>2
<1>7. QED
  BY <1>3, <1>6 DEF L

\* What holds of the chunks in m_Construct and in the packets flushed then.
LEMMA EnqueueRecent ==
    ASSUME InNumbers, NEW e \in Ends, NEW s, NEW Q1 \in Nat,
           pack[e] \o s \in Seq(Nat), ack[e] \in Nat, asking[e] \in BOOLEAN,
           \A i \in 1..Len(pack[e] \o s) :
                /\ (pack[e] \o s)[i] <= Q1
                /\ Q1 + i < (pack[e] \o s)[i] + Window + Len(pack[e] \o s)
                /\ Q1 + 1 < (pack[e] \o s)[i] + MaxSeq
    PROVE  LET L == pack[e] \o s
               T == SubSeq(L, PackMax * FlushedBy(e, s) + 1, Len(L))
           IN  /\ T \in Seq(Nat) /\ Len(T) <= PackMax /\ FlushedBy(e, s) \in Nat
               /\ \A j \in 1..Len(T) : T[j] <= Q1 /\ Q1 + j < T[j] + Window + Len(T)
               /\ \A p \in FlushedPackets(e, s) :
                     /\ p \in [chunks : Seq(Nat), ack : Nat, resend : BOOLEAN]
                     /\ p.ack = ack[e]
                     /\ \A c \in Range(p.chunks) : c <= Q1 /\ Q1 + 1 < c + MaxSeq
<1> DEFINE L == pack[e] \o s
           F == FlushedBy(e, s)
           X == PackMax * F
           T == SubSeq(L, X + 1, Len(L))
<1>1. L \in Seq(Nat) /\ Len(L) \in Nat /\ \A i \in 1..Len(L) : L[i] \in Nat
  BY LenProperties, ElementOfSeq
<1>2. \A i \in 1..Len(L) : /\ L[i] <= Q1 /\ Q1 + i < L[i] + Window + Len(L)
                           /\ Q1 + 1 < L[i] + MaxSeq
  OBVIOUS
<1>3. F = IF L = <<>> THEN 0 ELSE (Len(L) - 1) \div PackMax
  BY DEF FlushedBy
<1>4. FlushedPackets(e, s) =
        {Packet(SubSeq(L, PackMax * (k - 1) + 1, PackMax * k), ack[e], k = 1 /\ asking[e]) :
            k \in 1..F}
  BY DEF FlushedPackets
<1> HIDE DEF L, F
<1>5. /\ X \in Nat /\ F \in Nat
      /\ T \in Seq(Nat) /\ Len(T) <= PackMax /\ Len(T) = Len(L) - X
      /\ \A j \in 1..Len(T) : X + j \in 1..Len(L) /\ T[j] = L[X + j]
      /\ \A k \in 1..F :
            LET S == SubSeq(L, PackMax * (k - 1) + 1, PackMax * k)
            IN  S \in Seq(Nat) /\ Range(S) \subseteq Range(L)
  BY <1>1, <1>3, SplitIs
<1> HIDE DEF X, T
<1>6. ASSUME NEW j \in 1..Len(T) PROVE T[j] <= Q1 /\ Q1 + j < T[j] + Window + Len(T)
  <2>1. X + j \in 1..Len(L) /\ T[j] = L[X + j] /\ L[X + j] \in Nat
    BY <1>1, <1>5
  <2>2. L[X + j] <= Q1 /\ Q1 + (X + j) < L[X + j] + Window + Len(L)
    BY <1>2, <2>1
  <2>3. Len(L) = Len(T) + X /\ Len(T) \in Nat
    BY <1>1, <1>5
  <2> DEFINE c == L[X + j]
             l == Len(L)
             k == Len(T)
  <2>4. X \in Nat /\ j \in Nat /\ Q1 \in Nat /\ Window \in Nat /\ c \in Nat /\ k \in Nat
        /\ l = k + X /\ c <= Q1 /\ Q1 + (X + j) < c + Window + l
    BY <1>2, <1>5, <2>1, <2>2, <2>3, ChannelNumbers
  <2> HIDE DEF c, l, k
  <2>5. c <= Q1 /\ Q1 + j < c + Window + k
    BY <2>4
  <2>6. QED
    BY <2>1, <2>5 DEF c, k
<1>7. ASSUME NEW p \in FlushedPackets(e, s)
      PROVE  /\ p \in [chunks : Seq(Nat), ack : Nat, resend : BOOLEAN]
             /\ p.ack = ack[e]
             /\ \A c \in Range(p.chunks) : c <= Q1 /\ Q1 + 1 < c + MaxSeq
  <2>1. PICK k \in 1..F :
          p = Packet(SubSeq(L, PackMax * (k - 1) + 1, PackMax * k), ack[e], k = 1 /\ asking[e])
    BY <1>4
  <2> DEFINE S == SubSeq(L, PackMax * (k - 1) + 1, PackMax * k)
  <2>2. S \in Seq(Nat) /\ Range(S) \subseteq Range(L)
    BY <1>5
  <2> HIDE DEF S
  <2>3. p = [chunks |-> S, ack |-> ack[e], resend |-> (k = 1 /\ asking[e])]
    BY <2>1 DEF Packet, S
  <2>4. p.chunks = S /\ p.ack = ack[e]
        /\ p \in [chunks : Seq(Nat), ack : Nat, resend : BOOLEAN]
    BY <2>2, <2>3
  <2>5. ASSUME NEW c \in Range(L) PROVE c <= Q1 /\ Q1 + 1 < c + MaxSeq
    <3>1. PICK i \in 1..Len(L) : c = L[i]
      BY <1>1, RangeIs
    <3>2. QED
      BY <1>2, <3>1
  <2>6. QED
    BY <2>2, <2>4, <2>5
<1>8. QED
  BY <1>5, <1>6, <1>7 DEF L, F, X, T

-----------------------------------------------------------------------------
(* NetChannel: the steps.                                                  *)

LEMMA InvAt ==
    ASSUME ChannelInv, NEW e \in Ends
    PROVE  /\ queued[e] \in Nat /\ ack[e] \in Nat /\ peerAck[e] \in Nat
           /\ buffer[e] \in Seq(Nat) /\ Len(buffer[e]) <= Cap /\ unsaved[e] \in SUBSET Nat
           /\ pack[e] \in Seq(Nat) /\ Len(pack[e]) <= PackMax /\ asking[e] \in BOOLEAN
           /\ inbox[e] \in Seq(Nat) /\ got[e] \in Seq(Nat)
           /\ net[e] \subseteq [chunks : Seq(Nat), ack : Nat, resend : BOOLEAN]
           /\ Acknowledged(e) /\ GotPrefix(e) /\ BufferExact(e)
           /\ PackRecent(e) /\ PacketsRecent(e) /\ AcksRecent(e) /\ InboxRecent(e)
BY DEF ChannelInv, ChannelTypes

\* A chunk joins m_Construct when it is of the window.
LEMMA QueuedRecent ==
    ASSUME InNumbers, ChannelInv, NEW e \in Ends, NEW s \in Seq(Nat), NEW Q1 \in Nat,
           queued[e] <= Q1, Q1 <= queued[e] + 1, Q1 <= queued[e] + Len(s),
           \A j \in 1..Len(s) : s[j] <= Q1 /\ Q1 < s[j] + Window
    PROVE  LET L == pack[e] \o s
               T == SubSeq(L, PackMax * FlushedBy(e, s) + 1, Len(L))
           IN  /\ T \in Seq(Nat) /\ Len(T) <= PackMax /\ FlushedBy(e, s) \in Nat
               /\ \A j \in 1..Len(T) : T[j] <= Q1 /\ Q1 + j < T[j] + Window + Len(T)
               /\ \A p \in FlushedPackets(e, s) :
                     /\ p \in [chunks : Seq(Nat), ack : Nat, resend : BOOLEAN]
                     /\ p.ack = ack[e]
                     /\ \A c \in Range(p.chunks) : c <= Q1 /\ Q1 + 1 < c + MaxSeq
<1>1. /\ pack[e] \in Seq(Nat) /\ Len(pack[e]) <= PackMax /\ queued[e] \in Nat
      /\ ack[e] \in Nat /\ asking[e] \in BOOLEAN /\ PackRecent(e)
  BY InvAt
<1>2. \A j \in 1..Len(pack[e]) :
         /\ pack[e][j] <= queued[e]
         /\ queued[e] + j < pack[e][j] + Window + Len(pack[e])
  BY <1>1 DEF PackRecent
<1>3. /\ pack[e] \o s \in Seq(Nat)
      /\ \A i \in 1..Len(pack[e] \o s) :
           /\ (pack[e] \o s)[i] <= Q1
           /\ Q1 + i < (pack[e] \o s)[i] + Window + Len(pack[e] \o s)
           /\ Q1 + 1 < (pack[e] \o s)[i] + MaxSeq
  BY <1>1, <1>2, ConcatRecent
<1>4. QED
  BY <1>1, <1>3, EnqueueRecent

LEMMA QueueChunkStep ==
    ASSUME InNumbers, ChannelInv, NEW e \in Ends, QueueChunk(e)
    PROVE  ChannelInv'
<1> DEFINE d == Peer(e)
           Q == queued[e]
           s == <<Q + 1>>
           T == SubSeq(pack[e] \o s, PackMax * FlushedBy(e, s) + 1, Len(pack[e] \o s))
           FP == FlushedPackets(e, s)
           PacketSet == [chunks : Seq(Nat), ack : Nat, resend : BOOLEAN]
<1>1. /\ d \in Ends /\ d # e /\ Peer(d) = e /\ Peer(e) = d
      /\ \A f \in Ends : f = e \/ f = d
  BY PeerIs, TwoEnds
<1>2. Q < Limit[e] /\ Q < peerAck[e] + Window
  BY InvAt, ChannelNumbers DEF QueueChunk
<1>3. /\ queued' = [queued EXCEPT ![e] = Q + 1]
      /\ pack' = [pack EXCEPT ![e] = T]
      /\ asking' = [asking EXCEPT ![e] = asking[e] /\ FlushedBy(e, s) = 0]
      /\ ack' = ack /\ peerAck' = peerAck /\ inbox' = inbox /\ got' = got
      /\ IF Len(buffer[e]) < Cap
           THEN buffer' = [buffer EXCEPT ![e] = Append(buffer[e], Q + 1)] /\ unsaved' = unsaved
           ELSE unsaved' = [unsaved EXCEPT ![e] = unsaved[e] \cup {Q + 1}] /\ buffer' = buffer
  BY DEF QueueChunk, Enqueue, receiver
<1>4. /\ DOMAIN net' = Ends
      /\ net'[d] = Add(Timely(e, net[d]), FP)
      /\ net'[e] = TimelyAck(e, net[e])
  <2>1. net' = [net EXCEPT ![d] = Add(Timely(e, @), FP), ![e] = TimelyAck(e, @)]
    BY DEF QueueChunk
  <2>2. DOMAIN net = Ends
    BY DEF ChannelInv, ChannelTypes
  <2> HIDE DEF d, FP
  <2>3. QED
    BY <1>1, <2>1, <2>2
<1>5. /\ s \in Seq(Nat) /\ Len(s) = 1 /\ s[1] = Q + 1 /\ Q \in Nat
  BY InvAt
<1>6. /\ T \in Seq(Nat) /\ Len(T) <= PackMax
      /\ \A j \in 1..Len(T) : T[j] <= Q + 1 /\ (Q + 1) + j < T[j] + Window + Len(T)
      /\ \A p \in FP : /\ p \in PacketSet /\ p.ack = ack[e]
                       /\ \A c \in Range(p.chunks) : c <= Q + 1 /\ (Q + 1) + 1 < c + MaxSeq
  <2>1. peerAck[e] \in Nat /\ peerAck[e] <= Q
    BY InvAt, PeerIs DEF Acknowledged
  <2>2. \A j \in 1..Len(s) : s[j] <= Q + 1 /\ Q + 1 < s[j] + Window
    BY <1>2, <1>5, <2>1, ChannelNumbers
  <2> DEFINE Q1 == Q + 1
  <2>3. Q1 \in Nat /\ queued[e] <= Q1 /\ Q1 <= queued[e] + 1 /\ Q1 <= queued[e] + Len(s)
    BY <1>5
  <2>4. s \in Seq(Nat) /\ \A j \in 1..Len(s) : s[j] <= Q1 /\ Q1 < s[j] + Window
    BY <1>5, <2>2
  <2> HIDE DEF s, Q1
  <2>5. /\ T \in Seq(Nat) /\ Len(T) <= PackMax
        /\ \A j \in 1..Len(T) : T[j] <= Q1 /\ Q1 + j < T[j] + Window + Len(T)
        /\ \A p \in FP : /\ p \in PacketSet /\ p.ack = ack[e]
                         /\ \A c \in Range(p.chunks) : c <= Q1 /\ Q1 + 1 < c + MaxSeq
    BY <2>3, <2>4, QueuedRecent
  <2>6. QED
    BY <2>5 DEF Q1
<1> HIDE DEF d, s, T, FP
<1>7. net'[d] \subseteq Timely(e, net[d]) \cup FP /\ net'[e] \subseteq net[e]
  BY <1>4, AddIs DEF TimelyAck
<1>8. ChannelTypes'
  <2>1. queued' \in [Ends -> Nat] /\ pack' \in [Ends -> Seq(Nat)] /\ asking' \in [Ends -> BOOLEAN]
    <3>1. queued \in [Ends -> Nat] /\ pack \in [Ends -> Seq(Nat)] /\ asking \in [Ends -> BOOLEAN]
      BY DEF ChannelInv, ChannelTypes
    <3> DEFINE y == Q + 1
               z == asking[e] /\ FlushedBy(e, s) = 0
    <3>2. y \in Nat /\ T \in Seq(Nat)
      BY <1>5, <1>6
    <3>3. z \in BOOLEAN
      OBVIOUS
    <3>4. /\ queued' = [queued EXCEPT ![e] = y] /\ pack' = [pack EXCEPT ![e] = T]
          /\ asking' = [asking EXCEPT ![e] = z]
      BY <1>3
    <3> HIDE DEF y, z
    <3>5. QED
      BY <3>1, <3>2, <3>3, <3>4
  <2>2. buffer' \in [Ends -> Seq(Nat)] /\ unsaved' \in [Ends -> SUBSET Nat]
    <3>1. Append(buffer[e], Q + 1) \in Seq(Nat) /\ unsaved[e] \cup {Q + 1} \in SUBSET Nat
      BY <1>5, InvAt, AppendProperties
    <3>2. QED
      BY <1>3, <3>1 DEF ChannelInv, ChannelTypes
  <2>3. \A f \in Ends : net'[f] \subseteq PacketSet
    <3>1. Timely(e, net[d]) \subseteq net[d] /\ net[d] \subseteq PacketSet /\ net[e] \subseteq PacketSet
      BY <1>1, InvAt DEF Timely
    <3>2. QED
      BY <1>1, <1>6, <1>7, <3>1
  <2>4. \A f \in Ends : Len(buffer'[f]) <= Cap /\ Len(pack'[f]) <= PackMax
    <3> SUFFICES ASSUME NEW f \in Ends PROVE Len(buffer'[f]) <= Cap /\ Len(pack'[f]) <= PackMax
      OBVIOUS
    <3>1. Len(buffer[f]) <= Cap /\ Len(pack[f]) <= PackMax
      BY InvAt
    <3>2. Len(Append(buffer[e], Q + 1)) = Len(buffer[e]) + 1 /\ Len(buffer[e]) \in Nat
      BY <1>5, InvAt, AppendProperties, LenProperties
    <3>3. pack'[f] = IF f = e THEN T ELSE pack[f]
      BY <1>3 DEF ChannelInv, ChannelTypes
    <3>4. \/ buffer'[f] = buffer[f]
          \/ f = e /\ buffer'[f] = Append(buffer[e], Q + 1) /\ Len(buffer[e]) < Cap
      BY <1>3 DEF ChannelInv, ChannelTypes
    <3>5. QED
      BY <1>6, <3>1, <3>2, <3>3, <3>4, ChannelNumbers
  <2>5. QED
    BY <1>3, <1>4, <2>1, <2>2, <2>3, <2>4 DEF ChannelInv, ChannelTypes
<1>9. /\ queued'[e] = Q + 1 /\ queued'[d] = queued[d]
      /\ pack'[e] = T /\ pack'[d] = pack[d] /\ buffer'[d] = buffer[d] /\ unsaved'[d] = unsaved[d]
      /\ \/ buffer'[e] = Append(buffer[e], Q + 1) /\ unsaved'[e] = unsaved[e]
         \/ buffer'[e] = buffer[e] /\ unsaved'[e] = unsaved[e] \cup {Q + 1}
  BY <1>1, <1>3 DEF ChannelInv, ChannelTypes
<1>10. Acknowledged(e)' /\ Acknowledged(d)' /\ GotPrefix(e)' /\ GotPrefix(d)'
  <2>1. peerAck[e] \in Nat /\ ack[d] \in Nat /\ Acknowledged(e) /\ Acknowledged(d) /\ GotPrefix(e) /\ GotPrefix(d)
    BY <1>1, InvAt
  <2>2. Acknowledged(e)'
    BY <1>1, <1>2, <1>3, <1>5, <1>9, <2>1, ChannelNumbers DEF Acknowledged
  <2>3. QED
    BY <1>1, <1>3, <1>9, <2>1, <2>2 DEF Acknowledged, GotPrefix
<1>11. BufferExact(e)' /\ BufferExact(d)'
  <2>1. BufferExact(d)'
    BY <1>1, <1>3, <1>9, InvAt DEF BufferExact
  <2>2. /\ BufferExact(e) /\ Acknowledged(e) /\ peerAck[e] \in Nat /\ buffer[e] \in Seq(Nat)
        /\ unsaved[e] \subseteq Nat /\ ack[d] \in Nat
    BY <1>1, InvAt
  <2>3. /\ Ascending(buffer[e], peerAck[e], Q) /\ peerAck[e] <= Q
        /\ (peerAck[e] + 1)..Q \subseteq Range(buffer[e]) \cup unsaved[e]
    BY <1>1, <1>5, <2>2 DEF BufferExact, Acknowledged
  <2>4. (peerAck[e] + 1)..(Q + 1) \subseteq ((peerAck[e] + 1)..Q) \cup {Q + 1}
    BY <1>5, <2>2
  <2>5. CASE buffer'[e] = Append(buffer[e], Q + 1) /\ unsaved'[e] = unsaved[e]
    <3>1. /\ Ascending(buffer'[e], peerAck[e], Q + 1)
          /\ Range(buffer[e]) \cup {Q + 1} \subseteq Range(buffer'[e])
      BY <1>5, <2>2, <2>3, <2>5, AppendAscending
    <3>2. (peerAck[e] + 1)..(Q + 1) \subseteq Range(buffer'[e]) \cup unsaved'[e]
      BY <2>3, <2>4, <2>5, <3>1
    <3>3. QED
      BY <1>3, <1>9, <2>1, <3>1, <3>2 DEF BufferExact
  <2>6. CASE buffer'[e] = buffer[e] /\ unsaved'[e] = unsaved[e] \cup {Q + 1}
    <3>1. Ascending(buffer'[e], peerAck[e], Q + 1)
      <4>1. \A k \in 1..Len(buffer[e]) : buffer[e][k] \in Nat
        BY <2>2, ElementOfSeq
      <4>2. \A k \in 1..Len(buffer[e]) : buffer[e][k] <= Q + 1
        BY <1>5, <2>3, <4>1 DEF Ascending
      <4>3. QED
        BY <2>3, <2>6, <4>2 DEF Ascending
    <3>2. (peerAck[e] + 1)..(Q + 1) \subseteq Range(buffer'[e]) \cup unsaved'[e]
      BY <2>3, <2>4, <2>6
    <3>3. QED
      BY <1>3, <1>9, <2>1, <3>1, <3>2 DEF BufferExact
  <2>7. QED
    BY <1>9, <2>5, <2>6
<1>12. PackRecent(e)' /\ PackRecent(d)'
  BY <1>1, <1>6, <1>9, InvAt DEF PackRecent
<1>13. PacketsRecent(e)' /\ PacketsRecent(d)'
  <2>1. PacketsRecent(d)'
    BY <1>1, <1>7, <1>9, InvAt DEF PacketsRecent
  <2>2. ASSUME NEW p \in net'[d], NEW c \in Range(p.chunks) PROVE c <= Q + 1 /\ (Q + 1) + 1 < c + MaxSeq
    <3>1. CASE p \in FP
      BY <1>6, <3>1
    <3>2. CASE p \in Timely(e, net[d])
      <4>1. p \in net[d] /\ Q + 2 - c < MaxSeq /\ p \in PacketSet
        BY <1>1, <3>2, InvAt DEF Timely
      <4>2. c <= Q
        BY <1>1, <4>1, InvAt DEF PacketsRecent
      <4>3. c \in Nat
        BY <4>1, RangeIs
      <4>4. QED
        BY <1>5, <4>1, <4>2, <4>3, ChannelNumbers
    <3>3. QED
      BY <1>7, <3>1, <3>2
  <2>3. QED
    BY <1>1, <1>9, <2>1, <2>2 DEF PacketsRecent
<1>14. AcksRecent(e)' /\ AcksRecent(d)'
  <2>1. ASSUME NEW p \in net'[e] PROVE p.ack <= ack[d] /\ Q + 1 < p.ack + MaxSeq
    <3>1. p \in net[e] /\ Q + 1 - p.ack < MaxSeq /\ p \in PacketSet
      BY <1>1, <1>4, InvAt DEF TimelyAck
    <3>2. p.ack <= ack[d] /\ p.ack \in Nat
      BY <1>1, <3>1, InvAt DEF AcksRecent
    <3>3. QED
      BY <1>5, <3>1, <3>2, ChannelNumbers
  <2>2. ASSUME NEW p \in net'[d] PROVE p.ack <= ack[e] /\ queued[d] < p.ack + MaxSeq
    <3>1. CASE p \in FP
      <4>1. p.ack = ack[e] /\ ack[e] \in Nat /\ queued[d] \in Nat /\ peerAck[d] \in Nat
        BY <1>1, <1>6, <3>1, InvAt
      <4>2. peerAck[d] <= ack[e] /\ queued[d] <= peerAck[d] + Window
        BY <1>1, InvAt DEF Acknowledged
      <4>3. QED
        BY <4>1, <4>2, ChannelNumbers DEF InNumbers
    <3>2. CASE p \in Timely(e, net[d])
      BY <1>1, <3>2, InvAt DEF Timely, AcksRecent
    <3>3. QED
      BY <1>7, <3>1, <3>2
  <2>3. QED
    BY <1>1, <1>3, <1>9, <2>1, <2>2 DEF AcksRecent
<1>15. InboxRecent(e)' /\ InboxRecent(d)'
  <2>1. InboxRecent(d)'
    BY <1>1, <1>3, <1>9, InvAt DEF InboxRecent
  <2>2. InboxRecent(e) /\ inbox[d] \in Seq(Nat)
    BY <1>1, InvAt
  <2>3. \A c \in Range(inbox[d]) : c \in Nat /\ c <= Q
    BY <1>1, <2>2, RangeIs DEF InboxRecent
  <2>4. \A c \in Range(inbox[d]) : c <= Q + 1
    BY <1>5, <2>3
  <2>5. QED
    BY <1>1, <1>3, <1>9, <2>1, <2>2, <2>4 DEF InboxRecent
<1>16. QED
  BY <1>1, <1>8, <1>10, <1>11, <1>12, <1>13, <1>14, <1>15 DEF ChannelInv

\* What goes for chunks and packets that an end sends.
SentBy(e, T, NP) ==
    /\ T \in Seq(Nat) /\ Len(T) <= PackMax
    /\ \A j \in 1..Len(T) : T[j] <= queued[e] /\ queued[e] + j < T[j] + Window + Len(T)
    /\ \A p \in NP : /\ p \in [chunks : Seq(Nat), ack : Nat, resend : BOOLEAN]
                     /\ p.ack = ack[e]
                     /\ \A c \in Range(p.chunks) : c <= queued[e] /\ queued[e] + 1 < c + MaxSeq

\* The packets on their way after e has sent some and lost others.
NetAfter(e, NP) ==
    /\ DOMAIN net' = Ends
    /\ net'[Peer(e)] \subseteq net[Peer(e)] \cup NP
    /\ net'[e] \subseteq net[e]

LEMMA SentPackets ==
    ASSUME InNumbers, ChannelInv, NEW e \in Ends, NEW T, NEW NP, SentBy(e, T, NP),
           NetAfter(e, NP), UNCHANGED <<queued, ack>>
    PROVE  /\ \A f \in Ends : net'[f] \subseteq [chunks : Seq(Nat), ack : Nat, resend : BOOLEAN]
           /\ PacketsRecent(e)' /\ PacketsRecent(Peer(e))'
           /\ AcksRecent(e)' /\ AcksRecent(Peer(e))'
<1> DEFINE d == Peer(e)
           PacketSet == [chunks : Seq(Nat), ack : Nat, resend : BOOLEAN]
<1>1. /\ d \in Ends /\ d # e /\ Peer(d) = e /\ Peer(e) = d
      /\ \A f \in Ends : f = e \/ f = d
  BY PeerIs, TwoEnds
<1>2. net'[d] \subseteq net[d] \cup NP /\ net'[e] \subseteq net[e]
  BY DEF NetAfter
<1>3. \A p \in NP : /\ p \in PacketSet /\ p.ack = ack[e]
                    /\ \A c \in Range(p.chunks) : c <= queued[e] /\ queued[e] + 1 < c + MaxSeq
  BY DEF SentBy
<1>4. queued' = queued /\ ack' = ack
  OBVIOUS
<1> HIDE DEF d
<1>5. net[d] \subseteq PacketSet /\ net[e] \subseteq PacketSet
  BY <1>1, InvAt
<1>6. \A f \in Ends : net'[f] \subseteq PacketSet
  BY <1>1, <1>2, <1>3, <1>5
<1> HIDE DEF PacketSet
<1>7. PacketsRecent(e)' /\ PacketsRecent(d)'
  <2>1. PacketsRecent(e) /\ PacketsRecent(d)
    BY <1>1, InvAt
  <2>2. \A p \in net'[d] : \A c \in Range(p.chunks) : c <= queued[e] /\ queued[e] + 1 < c + MaxSeq
    BY <1>1, <1>2, <1>3, <2>1 DEF PacketsRecent
  <2>3. \A p \in net'[e] : \A c \in Range(p.chunks) : c <= queued[d] /\ queued[d] + 1 < c + MaxSeq
    BY <1>1, <1>2, <2>1 DEF PacketsRecent
  <2>4. QED
    BY <1>1, <1>4, <2>2, <2>3 DEF PacketsRecent
<1>8. AcksRecent(e)' /\ AcksRecent(d)'
  <2>1. /\ ack[e] \in Nat /\ queued[d] \in Nat /\ peerAck[d] \in Nat
        /\ Acknowledged(d) /\ AcksRecent(e) /\ AcksRecent(d)
    BY <1>1, InvAt
  <2>2. queued[d] < ack[e] + MaxSeq /\ ack[e] <= ack[e]
    BY <1>1, <2>1, ChannelNumbers DEF Acknowledged, InNumbers
  <2>3. \A p \in net'[d] : p.ack <= ack[e] /\ queued[d] < p.ack + MaxSeq
    BY <1>1, <1>2, <1>3, <2>1, <2>2 DEF AcksRecent
  <2>4. \A p \in net'[e] : p.ack <= ack[d] /\ queued[e] < p.ack + MaxSeq
    BY <1>1, <1>2, <2>1 DEF AcksRecent
  <2>5. QED
    BY <1>1, <1>4, <2>3, <2>4 DEF AcksRecent
<1>9. QED
  BY <1>6, <1>7, <1>8 DEF d, PacketSet

LEMMA SendStep ==
    ASSUME InNumbers, ChannelInv, NEW e \in Ends, NEW T, NEW NP, SentBy(e, T, NP),
           NetAfter(e, NP), pack' = [pack EXCEPT ![e] = T], asking' \in [Ends -> BOOLEAN],
           UNCHANGED <<queued, buffer, unsaved, ack, peerAck, inbox, got>>
    PROVE  ChannelInv'
<1>1. \A f \in Ends : f = e \/ f = Peer(e)
  BY TwoEnds
<1>2. /\ \A f \in Ends : net'[f] \subseteq [chunks : Seq(Nat), ack : Nat, resend : BOOLEAN]
      /\ PacketsRecent(e)' /\ PacketsRecent(Peer(e))'
      /\ AcksRecent(e)' /\ AcksRecent(Peer(e))'
  BY SentPackets
<1>3. T \in Seq(Nat) /\ Len(T) <= PackMax /\ DOMAIN net' = Ends
  BY DEF SentBy, NetAfter
<1>4. \A f \in Ends : pack'[f] = IF f = e THEN T ELSE pack[f]
  BY DEF ChannelInv, ChannelTypes
<1>5. ChannelTypes'
  <2>1. pack' \in [Ends -> Seq(Nat)]
    BY <1>3 DEF ChannelInv, ChannelTypes
  <2>2. \A f \in Ends : Len(buffer[f]) <= Cap /\ Len(pack'[f]) <= PackMax
    BY <1>3, <1>4, InvAt
  <2>3. QED
    BY <1>2, <1>3, <2>1, <2>2 DEF ChannelInv, ChannelTypes
<1>6. ASSUME NEW f \in Ends
      PROVE  /\ Acknowledged(f)' /\ GotPrefix(f)' /\ BufferExact(f)' /\ PackRecent(f)'
             /\ InboxRecent(f)'
  <2>1. /\ Acknowledged(f) /\ GotPrefix(f) /\ BufferExact(f) /\ PackRecent(f) /\ InboxRecent(f)
    BY InvAt
  <2>2. PackRecent(f)'
    <3>1. CASE f = e
      BY <1>4, <3>1 DEF SentBy, PackRecent
    <3>2. CASE f # e
      BY <1>4, <2>1, <3>2 DEF PackRecent
    <3>3. QED
      BY <3>1, <3>2
  <2>3. QED
    BY <2>1, <2>2 DEF Acknowledged, GotPrefix, BufferExact, InboxRecent
<1>7. QED
  BY <1>1, <1>2, <1>5, <1>6 DEF ChannelInv

LEMMA NoPackets ==
    ASSUME ChannelInv, NEW e \in Ends
    PROVE  SentBy(e, pack[e], {})
<1>1. pack[e] \in Seq(Nat) /\ Len(pack[e]) <= PackMax /\ PackRecent(e)
  BY InvAt
<1>2. QED
  BY <1>1 DEF SentBy, PackRecent

\* A packet of what is in m_Construct.
LEMMA ConstructSent ==
    ASSUME InNumbers, ChannelInv, NEW e \in Ends, NEW k \in BOOLEAN,
           NEW chunks \in {<<>>, pack[e]}
    PROVE  SentBy(e, <<>>, {Packet(chunks, ack[e], k)})
<1> DEFINE p == Packet(chunks, ack[e], k)
<1>1. /\ pack[e] \in Seq(Nat) /\ Len(pack[e]) <= PackMax /\ queued[e] \in Nat /\ ack[e] \in Nat
      /\ PackRecent(e) /\ <<>> \in Seq(Nat) /\ Len(<<>>) = 0
  BY InvAt, EmptySeq
<1>2. p.chunks = chunks /\ p.ack = ack[e] /\ p \in [chunks : Seq(Nat), ack : Nat, resend : BOOLEAN]
  BY <1>1 DEF Packet
<1>3. ASSUME NEW c \in Range(chunks) PROVE c <= queued[e] /\ queued[e] + 1 < c + MaxSeq
  <2>1. chunks \in Seq(Nat)
    BY <1>1
  <2>2. c \in Nat /\ \E j \in 1..Len(chunks) : c = chunks[j]
    BY <2>1, RangeIs
  <2>3. PICK j \in 1..Len(pack[e]) : c = pack[e][j]
    BY <1>1, <2>2
  <2>4. c <= queued[e] /\ queued[e] + j < c + Window + Len(pack[e])
    BY <1>1, <2>3 DEF PackRecent
  <2> DEFINE N == Len(pack[e])
             Q == queued[e]
  <2>5. N \in Nat /\ N <= PackMax /\ Q \in Nat /\ c \in Nat /\ c <= Q /\ Q + j < c + Window + N /\ j \in 1..N
    BY <1>1, <2>2, <2>4, LenProperties
  <2>6. PackMax \in Nat /\ Window \in Nat /\ MaxSeq \in Nat /\ Window + PackMax < MaxSeq
    BY ChannelNumbers DEF InNumbers
  <2> HIDE DEF N, Q
  <2>7. c <= Q /\ Q + 1 < c + MaxSeq
    BY <2>5, <2>6
  <2>8. QED
    BY <2>7 DEF Q
<1> HIDE DEF p
<1>4. SentBy(e, <<>>, {p})
  BY <1>1, <1>2, <1>3, ChannelNumbers DEF SentBy
<1>5. QED
  BY <1>4 DEF p

LEMMA FlushStep ==
    ASSUME InNumbers, ChannelInv, NEW e \in Ends, Flush(e)
    PROVE  ChannelInv'
<1> DEFINE NP == {Packet(pack[e], ack[e], asking[e])}
<1>1. SentBy(e, <<>>, NP)
  BY InvAt, ConstructSent
<1>2. NetAfter(e, NP)
  <2>1. net' = [net EXCEPT ![Peer(e)] = Add(net[Peer(e)], NP)]
    BY DEF Flush
  <2> HIDE DEF NP
  <2>2. DOMAIN net = Ends /\ Peer(e) \in Ends /\ Peer(e) # e
    BY PeerIs DEF ChannelInv, ChannelTypes
  <2>3. QED
    BY <2>1, <2>2, AddIs DEF NetAfter
<1>3. pack' = [pack EXCEPT ![e] = <<>>] /\ asking' \in [Ends -> BOOLEAN]
  BY DEF Flush, ChannelInv, ChannelTypes
<1>4. UNCHANGED <<queued, buffer, unsaved, ack, peerAck, inbox, got>>
  BY DEF Flush, sender, receiver
<1> HIDE DEF NP
<1>5. QED
  BY <1>1, <1>2, <1>3, <1>4, SendStep

LEMMA KeepAliveStep ==
    ASSUME InNumbers, ChannelInv, NEW e \in Ends, KeepAlive(e)
    PROVE  ChannelInv'
<1> DEFINE NP == {Packet(<<>>, ack[e], FALSE)}
<1>1. SentBy(e, <<>>, NP)
  BY ConstructSent
<1>2. NetAfter(e, NP)
  <2>1. net' = [net EXCEPT ![Peer(e)] = Add(net[Peer(e)], NP)]
    BY DEF KeepAlive
  <2> HIDE DEF NP
  <2>2. DOMAIN net = Ends /\ Peer(e) \in Ends /\ Peer(e) # e
    BY PeerIs DEF ChannelInv, ChannelTypes
  <2>3. QED
    BY <2>1, <2>2, AddIs DEF NetAfter
<1>3. pack' = [pack EXCEPT ![e] = <<>>] /\ asking' \in [Ends -> BOOLEAN]
  BY DEF KeepAlive, ChannelInv, ChannelTypes
<1>4. UNCHANGED <<queued, buffer, unsaved, ack, peerAck, inbox, got>>
  BY DEF KeepAlive, sender, receiver
<1> HIDE DEF NP
<1>5. QED
  BY <1>1, <1>2, <1>3, <1>4, SendStep

\* The chunks of the buffer are of the window.
LEMMA BufferSent ==
    ASSUME InNumbers, ChannelInv, NEW e \in Ends, NEW s \in Seq(Nat),
           \A i \in 1..Len(s) : s[i] \in Range(buffer[e])
    PROVE  SentBy(e, SubSeq(pack[e] \o s, PackMax * FlushedBy(e, s) + 1, Len(pack[e] \o s)),
                  FlushedPackets(e, s))
<1>1. /\ buffer[e] \in Seq(Nat) /\ BufferExact(e) /\ Acknowledged(e)
      /\ queued[e] \in Nat /\ peerAck[e] \in Nat
  BY InvAt
<1>2. ASSUME NEW i \in 1..Len(s) PROVE s[i] <= queued[e] /\ queued[e] < s[i] + Window
  <2>1. PICK j \in 1..Len(buffer[e]) : s[i] = buffer[e][j]
    BY <1>1, RangeIs
  <2>2. s[i] \in Nat /\ peerAck[e] < s[i] /\ s[i] <= queued[e]
    BY <1>1, <2>1, RangeIs DEF BufferExact, Ascending
  <2>3. queued[e] <= peerAck[e] + Window
    BY <1>1 DEF Acknowledged
  <2>4. QED
    BY <1>1, <2>2, <2>3, ChannelNumbers
<1>3. Len(s) \in Nat
  BY LenProperties
<1>4. queued[e] <= queued[e] /\ queued[e] <= queued[e] + 1 /\ queued[e] <= queued[e] + Len(s)
  BY <1>1, <1>3
<1>5. QED
  BY <1>1, <1>2, <1>4, QueuedRecent DEF SentBy

LEMMA ResendOldestStep ==
    ASSUME InNumbers, ChannelInv, NEW e \in Ends, ResendOldest(e)
    PROVE  ChannelInv'
<1> DEFINE s == <<Head(buffer[e])>>
           T == SubSeq(pack[e] \o s, PackMax * FlushedBy(e, s) + 1, Len(pack[e] \o s))
           NP == FlushedPackets(e, s)
<1>1. buffer[e] \in Seq(Nat) /\ buffer[e] # <<>>
  BY InvAt DEF ResendOldest
<1>2. Head(buffer[e]) \in Nat /\ Head(buffer[e]) \in Range(buffer[e])
  <2>1. Head(buffer[e]) = buffer[e][1] /\ 1 \in 1..Len(buffer[e])
    BY <1>1, EmptySeq
  <2>2. QED
    BY <1>1, <2>1, RangeIs
<1>3. s \in Seq(Nat) /\ \A i \in 1..Len(s) : s[i] \in Range(buffer[e])
  BY <1>2
<1>4. /\ pack' = [pack EXCEPT ![e] = T]
      /\ asking' = [asking EXCEPT ![e] = asking[e] /\ FlushedBy(e, s) = 0]
      /\ net' = [net EXCEPT ![Peer(e)] = Add(net[Peer(e)], NP)]
      /\ UNCHANGED <<queued, buffer, unsaved, ack, peerAck, inbox, got>>
  BY DEF ResendOldest, Enqueue, sender, receiver
<1> HIDE DEF s
<1>5. SentBy(e, T, NP)
  BY <1>3, BufferSent
<1> HIDE DEF T, NP
<1>6. asking' \in [Ends -> BOOLEAN]
  BY <1>4 DEF ChannelInv, ChannelTypes
<1>7. NetAfter(e, NP)
  <2>1. DOMAIN net = Ends /\ Peer(e) \in Ends /\ Peer(e) # e
    BY PeerIs DEF ChannelInv, ChannelTypes
  <2>2. QED
    BY <1>4, <2>1, AddIs DEF NetAfter
<1>8. QED
  BY <1>4, <1>5, <1>6, <1>7, SendStep

LEMMA LoseStep ==
    ASSUME InNumbers, ChannelInv, NEW e \in Ends, NEW p, Lose(e, p)
    PROVE  ChannelInv'
<1>1. NetAfter(e, {})
  BY PeerIs DEF Lose, NetAfter, ChannelInv, ChannelTypes
<1>2. SentBy(e, pack[e], {})
  BY NoPackets
<1>3. pack' = [pack EXCEPT ![e] = pack[e]] /\ asking' \in [Ends -> BOOLEAN]
  BY DEF Lose, ChannelInv, ChannelTypes
<1>4. UNCHANGED <<queued, buffer, unsaved, ack, peerAck, inbox, got>>
  BY DEF Lose, sender, receiver
<1>5. QED
  BY <1>1, <1>2, <1>3, <1>4, SendStep

LEMMA FetchChunkStep ==
    ASSUME InNumbers, ChannelInv, NEW r \in Ends, FetchChunk(r)
    PROVE  ChannelInv'
<1> DEFINE e == Peer(r)
           i == Head(inbox[r])
           t == Tail(inbox[r])
           A == ack[r]
<1>1. /\ e \in Ends /\ e # r /\ Peer(e) = r /\ Peer(r) = e
      /\ \A f \in Ends : f = e \/ f = r
  BY PeerIs, TwoEnds
<1>2. /\ inbox[r] \in Seq(Nat) /\ inbox[r] # <<>>
      /\ inbox' = [inbox EXCEPT ![r] = t]
      /\ UNCHANGED <<queued, buffer, unsaved, peerAck, pack, net>>
      /\ \/ /\ Num(i) = Num(Num(A) + 1)
            /\ ack' = [ack EXCEPT ![r] = i]
            /\ got' = [got EXCEPT ![r] = Append(got[r], i)]
            /\ asking' = asking
         \/ /\ ack' = ack /\ got' = got
            /\ asking' = [asking EXCEPT ![r] = asking[r] \/ ~InBackroom(Num(i), Num(A))]
  BY InvAt DEF FetchChunk, sender
<1> HIDE DEF e
<1>3. i \in Nat /\ i \in Range(inbox[r]) /\ t \in Seq(Nat) /\ Range(t) \subseteq Range(inbox[r])
  <2>1. /\ t \in Seq(Nat) /\ Len(t) = Len(inbox[r]) - 1 /\ Len(inbox[r]) \in Nat
        /\ \A k \in 1..Len(t) : t[k] = inbox[r][k + 1]
    BY <1>2, HeadTailProperties, LenProperties
  <2>2. i = inbox[r][1] /\ 1 \in 1..Len(inbox[r])
    BY <1>2, EmptySeq
  <2> HIDE DEF t
  <2>3. ASSUME NEW c \in Range(t) PROVE c \in Range(inbox[r])
    <3>1. PICK k \in 1..Len(t) : c = t[k]
      BY <2>1, RangeIs
    <3>2. k + 1 \in 1..Len(inbox[r]) /\ c = inbox[r][k + 1]
      BY <2>1, <3>1
    <3>3. QED
      BY <1>2, <3>2, RangeIs
  <2>4. QED
    BY <1>2, <2>1, <2>2, <2>3, RangeIs
<1> HIDE DEF i, t
<1>4. /\ A \in Nat /\ queued[e] \in Nat /\ peerAck[e] \in Nat /\ peerAck[e] <= A
      /\ A <= queued[e] /\ queued[e] <= peerAck[e] + Window
  BY <1>1, InvAt DEF Acknowledged
<1>5. /\ \A c \in Range(inbox[r]) : /\ c <= queued[e] /\ A + 1 < c + MaxSeq
                                    /\ \A d \in Range(inbox[r]) : d + 1 < c + MaxSeq
  BY <1>1, InvAt DEF InboxRecent
<1>6. ASSUME Num(i) = Num(Num(A) + 1) PROVE i = A + 1
  <2>1. Num(i) = Num(A + 1)
    BY <1>4, <1>6, NumSucc
  <2>2. A + 1 \in Nat /\ i < (A + 1) + MaxSeq /\ A + 1 < i + MaxSeq
    <3>1. i <= queued[e] /\ A + 1 < i + MaxSeq
      BY <1>3, <1>5
    <3>2. MaxSeq \in Nat /\ Window \in Nat /\ 2 * Window < MaxSeq
      BY ChannelNumbers DEF InNumbers
    <3> DEFINE q == queued[e]
               a == peerAck[e]
    <3>3. i \in Nat /\ A \in Nat /\ q \in Nat /\ a \in Nat /\ a <= A /\ i <= q /\ q <= a + Window
      BY <1>3, <1>4, <3>1
    <3> HIDE DEF A, i, q, a
    <3>4. A + 1 \in Nat /\ i < (A + 1) + MaxSeq
      BY <3>2, <3>3
    <3>5. QED
      BY <3>1, <3>4
  <2>3. QED
    BY <1>3, <2>1, <2>2, NumInjective
<1>7. \/ /\ ack'[r] = A + 1 /\ A + 1 \in Range(inbox[r]) /\ got'[r] = Append(got[r], A + 1)
         /\ ack' = [ack EXCEPT ![r] = A + 1]
         /\ got' = [got EXCEPT ![r] = Append(got[r], A + 1)]
      \/ ack' = ack /\ got' = got
  <2>1. CASE ack' = ack /\ got' = got
    BY <2>1
  <2>2. CASE /\ Num(i) = Num(Num(A) + 1)
             /\ ack' = [ack EXCEPT ![r] = i]
             /\ got' = [got EXCEPT ![r] = Append(got[r], i)]
    <3>1. i = A + 1
      BY <1>6, <2>2
    <3>2. ack'[r] = i /\ got'[r] = Append(got[r], i)
      BY <2>2 DEF ChannelInv, ChannelTypes
    <3>3. QED
      BY <1>3, <2>2, <3>1, <3>2
  <2>3. QED
    BY <1>2, <2>1, <2>2
<1>8. ChannelTypes'
  <2>1. A + 1 \in Nat /\ Append(got[r], A + 1) \in Seq(Nat)
    BY <1>4, InvAt, AppendProperties
  <2>2. ack' \in [Ends -> Nat] /\ got' \in [Ends -> Seq(Nat)]
    <3>1. ack \in [Ends -> Nat] /\ got \in [Ends -> Seq(Nat)]
      BY DEF ChannelInv, ChannelTypes
    <3> DEFINE y == A + 1
               z == Append(got[r], A + 1)
    <3>2. y \in Nat /\ z \in Seq(Nat)
      BY <2>1
    <3>3. \/ ack' = [ack EXCEPT ![r] = y] /\ got' = [got EXCEPT ![r] = z]
          \/ ack' = ack /\ got' = got
      BY <1>7
    <3> HIDE DEF y, z
    <3>4. [ack EXCEPT ![r] = y] \in [Ends -> Nat] /\ [got EXCEPT ![r] = z] \in [Ends -> Seq(Nat)]
      BY <3>1, <3>2
    <3>5. QED
      BY <3>1, <3>3, <3>4
  <2>3. inbox' \in [Ends -> Seq(Nat)] /\ asking' \in [Ends -> BOOLEAN]
    BY <1>2, <1>3 DEF ChannelInv, ChannelTypes
  <2>4. QED
    BY <1>2, <2>2, <2>3 DEF ChannelInv, ChannelTypes
<1>9. /\ inbox'[r] = t /\ inbox'[e] = inbox[e] /\ ack'[e] = ack[e] /\ got'[e] = got[e]
      /\ ack'[r] \in Nat /\ A <= ack'[r] /\ ack'[r] <= queued[e]
      /\ \A c \in Range(inbox[r]) : ack'[r] + 1 < c + MaxSeq
  <2>1. inbox'[r] = t /\ inbox'[e] = inbox[e]
    BY <1>1, <1>2 DEF ChannelInv, ChannelTypes
  <2>2. ack'[e] = ack[e] /\ got'[e] = got[e]
    BY <1>1, <1>7 DEF ChannelInv, ChannelTypes
  <2>3. ack'[r] = A \/ (ack'[r] = A + 1 /\ A + 1 \in Range(inbox[r]))
    BY <1>7
  <2>4. QED
    BY <1>4, <1>5, <2>1, <2>2, <2>3
<1>10. GotPrefix(r)' /\ GotPrefix(e)'
  <2>1. GotPrefix(e) /\ GotPrefix(r) /\ got[r] \in Seq(Nat)
    BY <1>1, InvAt
  <2>2. GotPrefix(e)'
    BY <1>9, <2>1 DEF GotPrefix
  <2>3. CASE ack' = ack /\ got' = got
    BY <2>1, <2>2, <2>3 DEF GotPrefix
  <2>4. CASE ack'[r] = A + 1 /\ got'[r] = Append(got[r], A + 1)
    <3> DEFINE g == got[r]
               u == Append(g, A + 1)
    <3>1. g = [k \in 1..A |-> k]
      BY <2>1 DEF GotPrefix
    <3>2. Len(g) = A
      <4>1. DOMAIN g = 1..A /\ Len(g) \in Nat /\ DOMAIN g = 1..Len(g)
        BY <2>1, <3>1, LenProperties
      <4>2. QED
        BY <1>4, <4>1
    <3>3. /\ u \in Seq(Nat) /\ Len(u) = A + 1 /\ u[A + 1] = A + 1
          /\ \A k \in 1..A : u[k] = g[k]
      BY <1>4, <2>1, <3>2, AppendProperties
    <3> HIDE DEF u, g
    <3>4. DOMAIN u = 1..(A + 1) /\ u = [k \in DOMAIN u |-> u[k]]
      BY <3>3, LenProperties
    <3>5. \A k \in 1..(A + 1) : u[k] = k
      <4>1. \A k \in 1..(A + 1) : k = A + 1 \/ k \in 1..A
        BY <1>4
      <4>2. \A k \in 1..A : u[k] = k
        BY <3>1, <3>3
      <4>3. QED
        BY <3>3, <4>1, <4>2
    <3>6. u = [k \in 1..(A + 1) |-> k]
      BY <3>4, <3>5
    <3>7. QED
      BY <2>2, <2>4, <3>6 DEF GotPrefix, u, g
  <2>5. QED
    BY <1>7, <2>3, <2>4
<1>11. Acknowledged(e)' /\ Acknowledged(r)'
  <2>1. Acknowledged(r)
    BY InvAt
  <2>2. Acknowledged(r)'
    BY <1>1, <1>2, <1>9, <2>1 DEF Acknowledged
  <2>3. QED
    BY <1>1, <1>2, <1>4, <1>9, <2>2 DEF Acknowledged
<1>12. ASSUME NEW f \in Ends PROVE BufferExact(f)' /\ PackRecent(f)' /\ PacketsRecent(f)'
  BY <1>2, <1>12, InvAt DEF BufferExact, PackRecent, PacketsRecent
<1>13. AcksRecent(e)' /\ AcksRecent(r)'
  <2>1. AcksRecent(e) /\ AcksRecent(r) /\ net[e] \subseteq [chunks : Seq(Nat), ack : Nat, resend : BOOLEAN]
    BY <1>1, InvAt
  <2>2. AcksRecent(r)'
    BY <1>1, <1>2, <1>9, <2>1 DEF AcksRecent
  <2>3. ASSUME NEW p \in net[e] PROVE p.ack <= ack'[r] /\ queued[e] < p.ack + MaxSeq
    <3>1. p.ack \in Nat /\ p.ack <= A /\ queued[e] < p.ack + MaxSeq
      BY <1>1, <2>1 DEF AcksRecent
    <3>2. QED
      BY <1>4, <1>9, <3>1
  <2>4. QED
    BY <1>1, <1>2, <2>2, <2>3 DEF AcksRecent
<1>14. InboxRecent(e)' /\ InboxRecent(r)'
  <2>1. InboxRecent(r)
    BY InvAt
  <2>2. InboxRecent(r)'
    BY <1>1, <1>2, <1>9, <2>1 DEF InboxRecent
  <2>3. QED
    BY <1>1, <1>2, <1>3, <1>5, <1>9, <2>2 DEF InboxRecent
<1>15. QED
  BY <1>1, <1>8, <1>10, <1>11, <1>12, <1>13, <1>14 DEF ChannelInv

\* A packet with a late acknowledgement changes nothing, another one moves
\* the window on.
LEMMA RecvStep ==
    ASSUME InNumbers, ChannelInv, NEW e \in Ends, NEW p \in net[e], NEW again \in BOOLEAN,
           Recv(e, p, again)
    PROVE  ChannelInv'
<1> DEFINE d == Peer(e)
           NP == Resent(e, p)
           L == pack[e] \o buffer[e]
           T == IF AckValid(e, p.ack) /\ p.resend
                  THEN SubSeq(L, PackMax * FlushedBy(e, buffer[e]) + 1, Len(L))
                  ELSE pack[e]
           u == Unacked(buffer[e], p.ack)
<1>1. /\ d \in Ends /\ d # e /\ Peer(d) = e /\ Peer(e) = d
      /\ \A f \in Ends : f = e \/ f = d
  BY PeerIs, TwoEnds
<1>2. /\ DOMAIN net' = Ends
      /\ net'[e] = IF again THEN net[e] ELSE net[e] \ {p}
      /\ net'[d] = Add(net[d], NP)
  <2>1. net' = [net EXCEPT ![e] = IF again THEN @ ELSE @ \ {p}, ![d] = Add(@, NP)]
    BY DEF Recv
  <2>2. DOMAIN net = Ends
    BY DEF ChannelInv, ChannelTypes
  <2> HIDE DEF d, NP
  <2>3. QED
    BY <1>1, <2>1, <2>2
<1>3. UNCHANGED <<queued, unsaved, ack, got>>
  BY DEF Recv
<1>4. /\ p \in [chunks : Seq(Nat), ack : Nat, resend : BOOLEAN]
      /\ p.chunks \in Seq(Nat) /\ p.ack \in Nat /\ p.resend \in BOOLEAN
      /\ p.ack <= ack[d] /\ queued[e] < p.ack + MaxSeq
      /\ \A c \in Range(p.chunks) : c <= queued[d] /\ queued[d] + 1 < c + MaxSeq
  BY <1>1, InvAt DEF AcksRecent, PacketsRecent
<1>5. /\ queued[e] \in Nat /\ peerAck[e] \in Nat /\ ack[d] \in Nat /\ peerAck[e] <= ack[d]
      /\ ack[d] <= queued[e] /\ queued[e] <= peerAck[e] + Window /\ buffer[e] \in Seq(Nat)
      /\ queued[d] \in Nat /\ ack[e] \in Nat /\ ack[e] <= queued[d]
  BY <1>1, InvAt DEF Acknowledged
<1>6. AckValid(e, p.ack) <=> peerAck[e] <= p.ack
  BY <1>4, <1>5, AckValidIs
<1>7. SentBy(e, T, NP)
  <2>1. CASE AckValid(e, p.ack) /\ p.resend
    <3>1. \A j \in 1..Len(buffer[e]) : buffer[e][j] \in Range(buffer[e])
      BY <1>5, RangeIs
    <3>2. QED
      BY <1>5, <2>1, <3>1, BufferSent DEF Resent
  <2>2. CASE ~(AckValid(e, p.ack) /\ p.resend)
    BY <2>2, NoPackets DEF Resent
  <2>3. QED
    BY <2>1, <2>2
<1>8. NetAfter(e, NP)
  <2> HIDE DEF NP
  <2>1. QED
    BY <1>2, AddIs DEF NetAfter
<1>9. pack' = [pack EXCEPT ![e] = T] /\ asking' \in [Ends -> BOOLEAN]
  <2>1. pack' = pack \/ pack' = [pack EXCEPT ![e] = SubSeq(L, PackMax * FlushedBy(e, buffer[e]) + 1, Len(L))]
    BY DEF Recv, Feed, Enqueue
  <2>2. asking' = asking \/ asking' = [asking EXCEPT ![e] = asking[e] /\ FlushedBy(e, buffer[e]) = 0]
    BY DEF Recv, Feed, Enqueue
  <2>3. asking' \in [Ends -> BOOLEAN]
    BY <2>2 DEF ChannelInv, ChannelTypes
  <2>4. CASE AckValid(e, p.ack) /\ p.resend
    <3>1. pack' = [pack EXCEPT ![e] = SubSeq(L, PackMax * FlushedBy(e, buffer[e]) + 1, Len(L))]
      BY <2>4 DEF Recv, Feed, Enqueue
    <3>2. QED
      BY <2>3, <2>4, <3>1
  <2>5. CASE ~(AckValid(e, p.ack) /\ p.resend)
    <3>1. pack' = pack
      BY <2>5 DEF Recv, Feed
    <3>2. pack' = [pack EXCEPT ![e] = pack[e]]
      BY <3>1 DEF ChannelInv, ChannelTypes
    <3>3. QED
      BY <2>3, <2>5, <3>2
  <2>6. QED
    BY <2>4, <2>5
<1>10. CASE ~AckValid(e, p.ack)
  <2>1. UNCHANGED <<queued, buffer, unsaved, ack, peerAck, inbox, got>>
    BY <1>3, <1>10 DEF Recv, Feed
  <2> HIDE DEF T, NP
  <2>2. QED
    BY <1>7, <1>8, <1>9, <2>1, SendStep
<1>11. CASE AckValid(e, p.ack)
  <2>1. /\ peerAck' = [peerAck EXCEPT ![e] = p.ack]
        /\ buffer' = [buffer EXCEPT ![e] = u]
        /\ inbox' = [inbox EXCEPT ![e] = p.chunks]
    BY <1>11 DEF Recv, Feed
  <2>2. /\ u \in Seq(Nat) /\ Len(u) <= Len(buffer[e]) /\ Ascending(u, p.ack, queued[e])
        /\ \A c \in Range(buffer[e]) : c <= p.ack \/ c \in Range(u)
    <3>1. p.ack \in peerAck[e]..queued[e]
      BY <1>4, <1>5, <1>6, <1>11
    <3>2. Ascending(buffer[e], peerAck[e], queued[e])
      BY InvAt DEF BufferExact
    <3>3. QED
      BY <1>5, <3>1, <3>2, UnackedIs
  <2> HIDE DEF u, T, NP, d
  <2>3. /\ \A f \in Ends : net'[f] \subseteq [chunks : Seq(Nat), ack : Nat, resend : BOOLEAN]
        /\ PacketsRecent(e)' /\ PacketsRecent(d)' /\ AcksRecent(e)' /\ AcksRecent(d)'
    BY <1>1, <1>3, <1>7, <1>8, SentPackets
  <2>4. T \in Seq(Nat) /\ Len(T) <= PackMax
    BY <1>7 DEF SentBy
  <2>5. /\ peerAck'[e] = p.ack /\ peerAck'[d] = peerAck[d]
        /\ buffer'[e] = u /\ buffer'[d] = buffer[d]
        /\ inbox'[e] = p.chunks /\ inbox'[d] = inbox[d]
        /\ pack'[e] = T /\ pack'[d] = pack[d]
    BY <1>1, <1>9, <2>1 DEF ChannelInv, ChannelTypes
  <2>6. ChannelTypes'
    <3>1. /\ peerAck' \in [Ends -> Nat] /\ buffer' \in [Ends -> Seq(Nat)]
          /\ inbox' \in [Ends -> Seq(Nat)] /\ pack' \in [Ends -> Seq(Nat)]
      BY <1>4, <1>9, <2>1, <2>2, <2>4 DEF ChannelInv, ChannelTypes
    <3>2. Len(u) <= Cap
      <4>1. Len(buffer[e]) <= Cap /\ Len(buffer[e]) \in Nat /\ Len(u) \in Nat
        BY <1>5, <2>2, InvAt, LenProperties
      <4>2. QED
        BY <2>2, <4>1, ChannelNumbers
    <3>3. \A f \in Ends : Len(buffer'[f]) <= Cap /\ Len(pack'[f]) <= PackMax
      BY <1>1, <2>4, <2>5, <3>2, InvAt
    <3>4. QED
      BY <1>2, <1>3, <1>9, <2>3, <3>1, <3>3 DEF ChannelInv, ChannelTypes
  <2>7. Acknowledged(e)' /\ Acknowledged(d)'
    <3>1. Acknowledged(d)
      BY <1>1, InvAt
    <3>2. Acknowledged(d)'
      BY <1>3, <2>5, <3>1 DEF Acknowledged
    <3>3. peerAck[e] <= p.ack
      BY <1>6, <1>11
    <3>4. QED
      BY <1>1, <1>3, <1>4, <1>5, <2>5, <3>2, <3>3, ChannelNumbers DEF Acknowledged
  <2>8. GotPrefix(e)' /\ GotPrefix(d)'
    BY <1>1, <1>3, InvAt DEF GotPrefix
  <2>9. BufferExact(e)' /\ BufferExact(d)'
    <3>1. BufferExact(e) /\ BufferExact(d)
      BY <1>1, InvAt
    <3>2. BufferExact(d)'
      BY <1>3, <2>5, <3>1 DEF BufferExact
    <3>3. ASSUME NEW c \in (p.ack + 1)..queued[e] PROVE c \in Range(u) \cup unsaved[e]
      <4>1. c \in (peerAck[e] + 1)..queued[e] /\ ~(c <= p.ack)
        BY <1>4, <1>5, <1>6, <1>11
      <4>2. c \in Range(buffer[e]) \cup unsaved[e]
        BY <3>1, <4>1 DEF BufferExact
      <4>3. QED
        BY <2>2, <4>1, <4>2
    <3>4. (p.ack + 1)..queued[e] \subseteq Range(u) \cup unsaved[e]
      BY <3>3
    <3>5. QED
      BY <1>3, <2>2, <2>5, <3>2, <3>4 DEF BufferExact
  <2>10. PackRecent(e)' /\ PackRecent(d)'
    <3>1. PackRecent(d)
      BY <1>1, InvAt
    <3>2. PackRecent(d)'
      BY <1>3, <2>5, <3>1 DEF PackRecent
    <3>3. \A j \in 1..Len(T) : T[j] <= queued[e] /\ queued[e] + j < T[j] + Window + Len(T)
      BY <1>7 DEF SentBy
    <3>4. QED
      BY <1>3, <2>5, <3>2, <3>3 DEF PackRecent
  <2>11. InboxRecent(e)' /\ InboxRecent(d)'
    <3>1. InboxRecent(e)
      BY InvAt
    <3>2. InboxRecent(e)'
      BY <1>1, <1>3, <2>5, <3>1 DEF InboxRecent
    <3>3. ASSUME NEW c \in Range(p.chunks), NEW b \in Range(p.chunks)
          PROVE  c <= queued[d] /\ ack[e] + 1 < c + MaxSeq /\ b + 1 < c + MaxSeq
      <4>1. c \in Nat /\ b \in Nat /\ c <= queued[d] /\ b <= queued[d] /\ queued[d] + 1 < c + MaxSeq
        BY <1>4, RangeIs
      <4>2. QED
        BY <1>5, <4>1, ChannelNumbers
    <3>4. QED
      BY <1>1, <1>3, <2>5, <3>2, <3>3 DEF InboxRecent
  <2>12. QED
    BY <1>1, <2>3, <2>6, <2>7, <2>8, <2>9, <2>10, <2>11 DEF ChannelInv
<1>12. QED
  BY <1>10, <1>11

-----------------------------------------------------------------------------
(* NetChannel: the theorems.                                               *)

LEMMA ChannelInitInv == ChannelInit => ChannelInv
<1> SUFFICES ASSUME ChannelInit PROVE ChannelInv
  OBVIOUS
<1>1. <<>> \in Seq(Nat) /\ Len(<<>>) = 0 /\ <<>> = [i \in 1..0 |-> i]
  BY EmptySeq
<1>2. ChannelTypes
  BY <1>1, ChannelNumbers DEF ChannelInit, ChannelTypes
<1>3. ASSUME NEW e \in Ends
      PROVE  /\ Acknowledged(e) /\ GotPrefix(e) /\ BufferExact(e) /\ PackRecent(e)
             /\ PacketsRecent(e) /\ AcksRecent(e) /\ InboxRecent(e)
  <2>1. Peer(e) \in Ends
    BY PeerIs
  <2>2. /\ queued[e] = 0 /\ ack[Peer(e)] = 0 /\ ack[e] = 0 /\ peerAck[e] = 0
        /\ buffer[e] = <<>> /\ pack[e] = <<>> /\ inbox[Peer(e)] = <<>> /\ got[e] = <<>>
        /\ net[e] = {} /\ net[Peer(e)] = {}
    BY <2>1 DEF ChannelInit
  <2>3. Acknowledged(e)
    BY <2>2, ChannelNumbers DEF Acknowledged
  <2>4. GotPrefix(e)
    BY <1>1, <2>2 DEF GotPrefix
  <2>5. (0 + 1)..0 = {}
    OBVIOUS
  <2>6. BufferExact(e)
    BY <1>1, <2>2, <2>5 DEF BufferExact, Ascending
  <2>7. \A c \in Range(<<>>) : FALSE
    <3> DEFINE z == <<>>
    <3>1. z \in Seq(Nat) /\ 1..Len(z) = {}
      BY <1>1
    <3> HIDE DEF z
    <3>2. \A c \in Range(z) : FALSE
      BY <3>1, RangeIs
    <3>3. QED
      BY <3>2 DEF z
  <2>8. QED
    BY <1>1, <2>2, <2>3, <2>4, <2>6, <2>7
       DEF PackRecent, PacketsRecent, AcksRecent, InboxRecent
<1>4. QED
  BY <1>2, <1>3 DEF ChannelInv

LEMMA ChannelStutter ==
    ASSUME ChannelInv, UNCHANGED channelVars
    PROVE  ChannelInv'
BY DEF ChannelInv, ChannelTypes, Acknowledged, GotPrefix, BufferExact, PackRecent,
       PacketsRecent, AcksRecent, InboxRecent, channelVars, sender, receiver

\* The invariant of an established connection: an end's acknowledged, got and
\* queued chunks are in that order and within a window, its resend buffer is
\* exactly what is not acknowledged, in order, less what found no room, and
\* no chunk or acknowledgement that is still under way is so old that its
\* number means another one.
THEOREM ChannelInvariance ==
    ASSUME InNumbers
    PROVE  ChannelSpec => []ChannelInv
<1>1. ChannelInv /\ [ChannelNext]_channelVars => ChannelInv'
  <2> SUFFICES ASSUME ChannelInv, [ChannelNext]_channelVars PROVE ChannelInv'
    OBVIOUS
  <2>1. ASSUME NEW e \in Ends, QueueChunk(e) PROVE ChannelInv'
    BY <2>1, QueueChunkStep
  <2>2. ASSUME NEW e \in Ends, Flush(e) PROVE ChannelInv'
    BY <2>2, FlushStep
  <2>3. ASSUME NEW e \in Ends, ResendOldest(e) PROVE ChannelInv'
    BY <2>3, ResendOldestStep
  <2>4. ASSUME NEW e \in Ends, KeepAlive(e) PROVE ChannelInv'
    BY <2>4, KeepAliveStep
  <2>5. ASSUME NEW e \in Ends, FetchChunk(e) PROVE ChannelInv'
    BY <2>5, FetchChunkStep
  <2>6. ASSUME NEW e \in Ends, NEW p \in net[e], NEW again \in BOOLEAN, Recv(e, p, again)
        PROVE  ChannelInv'
    BY <2>6, RecvStep
  <2>7. ASSUME NEW e \in Ends, NEW p \in net[e], Lose(e, p) PROVE ChannelInv'
    BY <2>7, LoseStep
  <2>8. CASE UNCHANGED channelVars
    BY <2>8, ChannelStutter
  <2>9. QED
    BY <2>1, <2>2, <2>3, <2>4, <2>5, <2>6, <2>7, <2>8 DEF ChannelNext
<1>2. QED
  BY <1>1, ChannelInitInv, PTL DEF ChannelSpec

\* A chunk that the peer has not got is in the resend buffer, or there was no
\* room to keep it: AckChunks forgets no chunk too many, although it compares
\* numbers that start again after MaxSeq and the acknowledgement it is given
\* may be late, repeated or of a packet that overtook others.
THEOREM NothingForgottenAlways ==
    ASSUME InNumbers
    PROVE  ChannelSpec => []NothingForgotten
<1>1. ChannelInv => NothingForgotten
  <2> SUFFICES ASSUME ChannelInv PROVE NothingForgotten
    OBVIOUS
  <2>1. ASSUME NEW e \in Ends
        PROVE  (ack[Peer(e)] + 1)..queued[e] \subseteq Range(buffer[e]) \cup unsaved[e]
    <3>1. /\ ack[Peer(e)] \in Nat /\ queued[e] \in Nat /\ peerAck[e] \in Nat
          /\ peerAck[e] <= ack[Peer(e)]
          /\ (peerAck[e] + 1)..queued[e] \subseteq Range(buffer[e]) \cup unsaved[e]
      BY InvAt, PeerIs DEF Acknowledged, BufferExact
    <3>2. (ack[Peer(e)] + 1)..queued[e] \subseteq (peerAck[e] + 1)..queued[e]
      BY <3>1
    <3>3. QED
      BY <3>1, <3>2
  <2>2. ChannelTypeOK
    <3>1. ASSUME NEW e \in Ends
          PROVE  \A p \in net[e] : p.chunks \in Seq(Nat) /\ p.ack \in Nat /\ p.resend \in BOOLEAN
      BY InvAt
    <3>2. QED
      BY <3>1, InvAt DEF ChannelTypeOK
  <2>3. QED
    BY <2>1, <2>2 DEF NothingForgotten
<1>2. QED
  BY <1>1, ChannelInvariance, PTL

\* The connection implements the reliable link: whatever the network loses,
\* repeats or reorders, FetchChunk hands over the chunk that comes next and no
\* other.
THEOREM ChannelIsReliable ==
    ASSUME InNumbers
    PROVE  ChannelSpec => LinkSpec
<1>1. ChannelInit => Link!LinkInit
  BY DEF ChannelInit, Link!LinkInit
<1>2. ChannelInv /\ ChannelInv' /\ [ChannelNext]_channelVars => [Link!LinkNext]_(Link!linkVars)
  <2> SUFFICES ASSUME ChannelInv, ChannelInv', [ChannelNext]_channelVars
               PROVE  [Link!LinkNext]_(Link!linkVars)
    OBVIOUS
  <2>1. ASSUME NEW e \in Ends, QueueChunk(e) PROVE Link!LinkSend(e)
    BY <2>1 DEF QueueChunk, receiver, Link!LinkSend
  <2>2. ASSUME NEW e \in Ends, FetchChunk(e) PROVE Link!LinkReceive(e) \/ UNCHANGED <<queued, got>>
    <3>1. CASE got' = got
      BY <2>2, <3>1 DEF FetchChunk, sender
    <3>2. CASE got' # got
      <4> DEFINE i == Head(inbox[e])
                 N == Len(got[e])
      <4>1. /\ ack' = [ack EXCEPT ![e] = i] /\ got' = [got EXCEPT ![e] = Append(got[e], i)]
            /\ queued' = queued
        BY <2>2, <3>2 DEF FetchChunk, sender
      <4>2. /\ ack'[e] = i /\ got'[e] = Append(got[e], i)
        BY <4>1 DEF ChannelInv, ChannelTypes
      <4>3. /\ i \in Nat /\ got[e] \in Seq(Nat) /\ got'[e] = [k \in 1..i |-> k]
        <5>1. ack'[e] \in Nat
          BY DEF ChannelInv, ChannelTypes
        <5>2. GotPrefix(e)'
          BY DEF ChannelInv
        <5>3. QED
          BY <4>2, <5>1, <5>2, InvAt DEF GotPrefix
      <4> HIDE DEF i
      <4>4. N \in Nat /\ Len(Append(got[e], i)) = N + 1
        BY <4>3, AppendProperties, LenProperties
      <4>5. i = N + 1
        <5>1. DOMAIN Append(got[e], i) = 1..i
          BY <4>2, <4>3
        <5>2. DOMAIN Append(got[e], i) = 1..(N + 1)
          BY <4>3, <4>4, AppendProperties, LenProperties
        <5>3. QED
          BY <4>3, <4>4, <5>1, <5>2
      <4>6. i <= queued[Peer(e)] /\ queued[Peer(e)] \in Nat
        <5>1. Peer(e) \in Ends /\ Peer(Peer(e)) = e
          BY PeerIs
        <5>2. Acknowledged(Peer(e))'
          BY <5>1 DEF ChannelInv
        <5>3. QED
          BY <4>1, <4>2, <5>1, <5>2, InvAt DEF Acknowledged
      <4>7. N < queued[Peer(e)]
        BY <4>4, <4>5, <4>6
      <4>8. QED
        BY <4>1, <4>5, <4>7 DEF Link!LinkReceive
    <3>3. QED
      BY <3>1, <3>2
  <2>3. ASSUME NEW e \in Ends, Flush(e) \/ ResendOldest(e) \/ KeepAlive(e)
        PROVE  UNCHANGED <<queued, got>>
    BY <2>3 DEF Flush, ResendOldest, KeepAlive, sender, receiver
  <2>4. ASSUME NEW e \in Ends, NEW p, NEW again, Recv(e, p, again) \/ Lose(e, p)
        PROVE  UNCHANGED <<queued, got>>
    BY <2>4 DEF Recv, Lose, sender, receiver
  <2>5. CASE UNCHANGED channelVars
    BY <2>5 DEF channelVars, sender, receiver, Link!linkVars
  <2>6. CASE ChannelNext
    BY <2>1, <2>2, <2>3, <2>4, <2>6 DEF ChannelNext, Link!LinkNext, Link!linkVars
  <2>7. QED
    BY <2>5, <2>6
<1>3. QED
  BY <1>1, <1>2, ChannelInvariance, PTL DEF ChannelSpec, LinkSpec, Link!LinkSpec
=============================================================================
