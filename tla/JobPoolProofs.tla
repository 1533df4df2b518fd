--------------------------- MODULE JobPoolProofs ---------------------------
(***************************************************************************)
(* Proofs about JobPool, for any set of jobs and any finite set of         *)
(* workers.  IInv is the inductive invariant: while the pool accepts jobs  *)
(* the semaphore and the workers on their way to the list account for      *)
(* exactly the listed jobs (TokensExact), so a worker finds the list empty *)
(* only during a shutdown (IdleMeansEmpty), so when every worker has left, *)
(* each job that cannot be aborted has been run (Progress).                *)
(***************************************************************************)
EXTENDS JobPool, FiniteSetTheorems, SequenceTheorems, TLAPS

HoldingPcs == {"start", "register", "run", "unregister", "finish"}

Announced == IF mpc = "signal" THEN 1 ELSE 0

\* A worker has a job exactly while it is at a step that uses it.
HolderPcs ==
    \A w \in Workers :
        IF wpc[w] \in HoldingPcs THEN wjob[w] \in added ELSE wjob[w] = NoJob

OwnerPhase ==
    /\ mpc \in {"idle", "signal"} <=> ~shutdown
    /\ mpc = "down" => \A w \in Workers : wpc[w] = "exit"

TokensExact ==
    ~shutdown =>
        Cardinality(queue) = sem + Cardinality(WorkersAt("fetch")) + Announced

IdleMeansEmpty ==
    \A w \in Workers : wpc[w] \in {"check", "exit"} => shutdown /\ queue = {}

Progress ==
    \A j \in Jobs \ Abortables :
        \/ j \notin added /\ state[j] = "QUEUED"
        \/ j \in queue /\ state[j] = "QUEUED"
        \/ \E w \in Workers :
              /\ wjob[w] = j
              /\ \/ wpc[w] = "start" /\ state[j] = "QUEUED"
                 \/ wpc[w] \in HoldingPcs \ {"start"} /\ state[j] = "RUNNING"
        \/ state[j] = "DONE"

IInv ==
    /\ TypeOK
    /\ IsFiniteSet(queue)
    /\ HolderPcs
    /\ OneHolder
    /\ OwnerPhase
    /\ TokensExact
    /\ TokensCoverQueue
    /\ IdleMeansEmpty
    /\ Progress

-----------------------------------------------------------------------------

\* What Append does to the set of accepted jobs.
LEMMA AddedAppend ==
    ASSUME log \in Seq(Jobs), NEW j \in Jobs, log' = Append(log, j)
    PROVE  log' \in Seq(Jobs) /\ added' = added \cup {j}
<1>1. /\ log' \in Seq(Jobs)
      /\ DOMAIN log = 1..Len(log)
      /\ DOMAIN log' = 1..(Len(log) + 1)
      /\ \A i \in 1..Len(log) : log'[i] = log[i]
      /\ log'[Len(log) + 1] = j
      /\ Len(log) \in Nat
  BY AppendProperties, LenProperties
<1>2. added' \subseteq added \cup {j}
  BY <1>1 DEF added, Range
<1>3. added \subseteq added'
  BY <1>1 DEF added, Range
<1>4. j \in added'
  BY <1>1 DEF added, Range
<1>5. QED
  BY <1>1, <1>2, <1>3, <1>4

LEMMA AddedUnchanged == log' = log => added' = added
BY DEF added

LEMMA AddedTyped ==
    ASSUME log \in Seq(Jobs)
    PROVE  added \subseteq Jobs
BY RangeOfSeq DEF added

\* The workers at a given step are finitely many, and a Goto moves one of them.
LEMMA WorkersAtFinite ==
    ASSUME NEW pc
    PROVE  IsFiniteSet(WorkersAt(pc)) /\ Cardinality(WorkersAt(pc)) \in Nat
BY JobPoolAssumption, FS_Subset, FS_CardinalityType DEF WorkersAt

LEMMA Enter ==
    ASSUME TypeOK, NEW w \in Workers, NEW pc \in WorkerPcs,
           wpc[w] # pc, Goto(w, pc)
    PROVE  Cardinality(WorkersAt(pc)') = Cardinality(WorkersAt(pc)) + 1
<1>1. WorkersAt(pc)' = WorkersAt(pc) \cup {w} /\ w \notin WorkersAt(pc)
  BY DEF TypeOK, Goto, WorkersAt
<1>2. QED
  BY <1>1, WorkersAtFinite, FS_AddElement

LEMMA Leave ==
    ASSUME TypeOK, NEW w \in Workers, NEW from, wpc[w] = from,
           NEW pc \in WorkerPcs, from # pc, Goto(w, pc)
    PROVE  Cardinality(WorkersAt(from)') = Cardinality(WorkersAt(from)) - 1
<1>1. WorkersAt(from)' = WorkersAt(from) \ {w} /\ w \in WorkersAt(from)
  BY DEF TypeOK, Goto, WorkersAt
<1>2. QED
  BY <1>1, WorkersAtFinite, FS_RemoveElement

LEMMA Elsewhere ==
    ASSUME TypeOK, NEW w \in Workers, NEW pc \in WorkerPcs, NEW other,
           wpc[w] # other, pc # other, Goto(w, pc)
    PROVE  WorkersAt(other)' = WorkersAt(other)
BY DEF TypeOK, Goto, WorkersAt

LEMMA FrontInQueue == Front \subseteq queue
BY DEF Front

-----------------------------------------------------------------------------
(* The owner thread's steps preserve IInv.                                  *)

LEMMA InitInv == Init => IInv
<1> SUFFICES ASSUME Init PROVE IInv
  OBVIOUS
<1>1. log \in Seq(Jobs) /\ added = {}
  BY EmptySeq DEF Init, added, Range
<1>2. TypeOK
  BY <1>1 DEF Init, TypeOK, States, WorkerPcs, OwnerPcs
<1>3. IsFiniteSet(queue) /\ Cardinality(queue) = 0
  BY FS_EmptySet DEF Init
<1>4. WorkersAt("fetch") = {}
  BY DEF Init, WorkersAt
<1>5. HolderPcs /\ OneHolder /\ OwnerPhase /\ TokensExact /\ IdleMeansEmpty
  BY <1>1 DEF Init, HolderPcs, OneHolder, OwnerPhase, TokensExact,
              IdleMeansEmpty, HoldingPcs
<1>6. TokensCoverQueue
  BY <1>3, WorkersAtFinite DEF Init, TokensCoverQueue
<1>7. Progress
  BY <1>1 DEF Init, Progress
<1>8. QED
  BY <1>2, <1>3, <1>5, <1>6, <1>7 DEF IInv

LEMMA PoolInitInv == IInv /\ PoolInit => IInv'
<1> SUFFICES ASSUME IInv, PoolInit PROVE IInv'
  OBVIOUS
<1>1. added' = added /\ queue = {} /\ queue' = queue
  BY AddedUnchanged, JobPoolAssumption
     DEF IInv, PoolInit, OwnerPhase, IdleMeansEmpty, TypeOK
<1>2. /\ TypeOK' /\ HolderPcs' /\ OneHolder' /\ OwnerPhase' /\ IdleMeansEmpty'
      /\ IsFiniteSet(queue)'
  BY <1>1 DEF IInv, PoolInit, TypeOK, HolderPcs, OneHolder, OwnerPhase,
              IdleMeansEmpty, HoldingPcs, WorkerPcs, OwnerPcs
<1>3. WorkersAt("fetch")' = {} /\ Cardinality({}) = 0
  BY FS_EmptySet DEF PoolInit, WorkersAt
<1>4. TokensExact' /\ TokensCoverQueue'
  BY <1>1, <1>3 DEF PoolInit, TokensExact, TokensCoverQueue, Announced
<1>5. Progress'
  <2>1. \A w \in Workers : wpc[w] = "exit" /\ wjob[w] = NoJob
    BY DEF IInv, PoolInit, OwnerPhase, HolderPcs, HoldingPcs
  <2>2. QED
    BY <1>1, <2>1, JobPoolAssumption DEF IInv, PoolInit, Progress
<1>6. QED
  BY <1>2, <1>4, <1>5 DEF IInv

\* An abort changes the state of abortable jobs only, and Progress is about
\* the others; the two scans of Shutdown are covered too.
LEMMA AbortedInv ==
    ASSUME TypeOK, Progress, NEW S, state' = Aborted(S), log' = log,
           queue \ Abortables \subseteq queue', wpc' = wpc, wjob' = wjob
    PROVE  Progress' /\ state' \in [Jobs -> States]
<1>1. state' \in [Jobs -> States]
  BY DEF Aborted, TypeOK, States
<1>2. \A j \in Jobs \ Abortables : state'[j] = state[j]
  BY DEF Aborted
<1>3. added' = added
  BY AddedUnchanged
<1>4. Progress'
  <2> SUFFICES ASSUME NEW j \in Jobs \ Abortables PROVE Progress!(j)'
    BY DEF Progress
  <2>1. Progress!(j)
    BY DEF Progress
  <2>2. QED
    BY <1>2, <1>3, <2>1
<1>5. QED
  BY <1>1, <1>4

LEMMA AbortInv == ASSUME IInv, NEW j \in Jobs, Abort(j) PROVE IInv'
<1>1. added' = added
  BY AddedUnchanged DEF Abort
<1>2. Progress' /\ state' \in [Jobs -> States]
  BY AbortedInv DEF IInv, Abort
<1>3. TypeOK' /\ IsFiniteSet(queue)' /\ HolderPcs' /\ OneHolder' /\ OwnerPhase'
  BY <1>1, <1>2 DEF IInv, Abort, TypeOK, HolderPcs, OneHolder, OwnerPhase
<1>4. TokensExact' /\ TokensCoverQueue' /\ IdleMeansEmpty'
  BY DEF IInv, Abort, TokensExact, TokensCoverQueue, IdleMeansEmpty,
         WorkersAt, Announced
<1>5. QED
  BY <1>2, <1>3, <1>4 DEF IInv

LEMMA AddRefusedInv == ASSUME IInv, NEW j \in Jobs, AddRefused(j) PROVE IInv'
<1>1. Abort(j)
  BY DEF AddRefused, Abort
<1>2. QED
  BY <1>1, AbortInv

LEMMA AddEnqueueInv == ASSUME IInv, NEW j \in Jobs, AddEnqueue(j) PROVE IInv'
<1>1. log' \in Seq(Jobs) /\ added' = added \cup {j} /\ j \notin added
  BY AddedAppend DEF IInv, TypeOK, AddEnqueue
<1>2. j \notin queue /\ \A w \in Workers : wjob[w] # j
  <2>1. NoJob # j
    BY JobPoolAssumption
  <2>2. QED
    BY <1>1, <2>1 DEF IInv, TypeOK, HolderPcs
<1>3. /\ IsFiniteSet(queue')
      /\ Cardinality(queue') = Cardinality(queue) + 1
      /\ Cardinality(queue) \in Nat
  BY <1>2, FS_AddElement, FS_CardinalityType DEF IInv, AddEnqueue
<1>4. TypeOK' /\ HolderPcs' /\ OneHolder' /\ OwnerPhase' /\ IdleMeansEmpty'
  BY <1>1, <1>2 DEF IInv, AddEnqueue, TypeOK, HolderPcs, OneHolder, OwnerPhase,
                    IdleMeansEmpty, OwnerPcs
<1>5. TokensExact' /\ TokensCoverQueue'
  <2>1. WorkersAt("fetch")' = WorkersAt("fetch")
    BY DEF AddEnqueue, WorkersAt
  <2>2. QED
    BY <1>3, <2>1, WorkersAtFinite
       DEF IInv, AddEnqueue, TypeOK, TokensExact, TokensCoverQueue, Announced
<1>6. Progress'
  <2> SUFFICES ASSUME NEW i \in Jobs \ Abortables PROVE Progress!(i)'
    BY DEF Progress
  <2>1. Progress!(i)
    BY DEF IInv, Progress
  <2>2. CASE i = j
    BY <1>1, <1>2, <2>1, <2>2 DEF AddEnqueue, IInv, TypeOK
  <2>3. CASE i # j
    BY <1>1, <2>1, <2>3 DEF AddEnqueue
  <2>4. QED
    BY <2>2, <2>3
<1>7. QED
  BY <1>3, <1>4, <1>5, <1>6 DEF IInv

LEMMA AddSignalInv == IInv /\ AddSignal => IInv'
<1> SUFFICES ASSUME IInv, AddSignal PROVE IInv'
  OBVIOUS
<1>1. added' = added /\ WorkersAt("fetch")' = WorkersAt("fetch")
  BY AddedUnchanged DEF AddSignal, WorkersAt
<1>2. TypeOK' /\ HolderPcs' /\ OneHolder' /\ OwnerPhase' /\ IdleMeansEmpty'
  BY <1>1 DEF IInv, AddSignal, TypeOK, HolderPcs, OneHolder, OwnerPhase,
              IdleMeansEmpty, OwnerPcs
<1>3. TokensExact' /\ TokensCoverQueue'
  BY <1>1, WorkersAtFinite, FS_CardinalityType
     DEF IInv, AddSignal, TypeOK, TokensExact, TokensCoverQueue, Announced
<1>4. Progress' /\ IsFiniteSet(queue)'
  BY <1>1 DEF IInv, AddSignal, Progress
<1>5. QED
  BY <1>2, <1>3, <1>4 DEF IInv

LEMMA ShutdownInv == IInv /\ Shutdown => IInv'
<1> SUFFICES ASSUME IInv, Shutdown PROVE IInv'
  OBVIOUS
<1>1. added' = added /\ wpc' = wpc /\ wjob' = wjob /\ log' = log
  BY AddedUnchanged
     DEF Shutdown, ShutdownBegin, ShutdownAbortQueued, ShutdownAbortRunning,
         ShutdownWake, ShutdownJoin
<1>2. WorkersAt("fetch")' = WorkersAt("fetch") /\ Cardinality(Workers) \in Nat
  BY <1>1, JobPoolAssumption, FS_CardinalityType DEF WorkersAt
<1>3. shutdown' /\ queue' \subseteq queue /\ queue \ Abortables \subseteq queue'
  BY DEF IInv, OwnerPhase, Shutdown, ShutdownBegin, ShutdownAbortQueued,
         ShutdownAbortRunning, ShutdownWake, ShutdownJoin
<1>4. Progress' /\ state' \in [Jobs -> States]
  <2>1. CASE state' = state
    BY <1>1, <1>3, <2>1 DEF IInv, TypeOK, Progress
  <2>2. CASE state' = Aborted(queue)
    BY <1>1, <1>3, <2>2, AbortedInv DEF IInv
  <2>3. CASE state' = Aborted(running)
    BY <1>1, <1>3, <2>3, AbortedInv DEF IInv
  <2>4. QED
    BY <2>1, <2>2, <2>3
       DEF Shutdown, ShutdownBegin, ShutdownAbortQueued, ShutdownAbortRunning,
           ShutdownWake, ShutdownJoin
<1>5. TypeOK'
  <2>1. /\ sem' \in Nat /\ wake' \in Nat /\ mpc' \in OwnerPcs
        /\ running' \subseteq Jobs
    BY <1>2 DEF IInv, TypeOK, Shutdown, ShutdownBegin, ShutdownAbortQueued,
                ShutdownAbortRunning, ShutdownWake, ShutdownJoin, OwnerPcs
  <2>2. shutdown' \in BOOLEAN
    BY DEF IInv, TypeOK, Shutdown, ShutdownBegin, ShutdownAbortQueued,
           ShutdownAbortRunning, ShutdownWake, ShutdownJoin
  <2>3. QED
    BY <1>1, <1>3, <1>4, <2>1, <2>2 DEF IInv, TypeOK
<1>6. HolderPcs' /\ OneHolder' /\ IdleMeansEmpty' /\ TokensExact'
  BY <1>1, <1>3 DEF IInv, HolderPcs, OneHolder, IdleMeansEmpty, TokensExact
<1>7. OwnerPhase'
  BY <1>1 DEF IInv, OwnerPhase, Shutdown, ShutdownBegin, ShutdownAbortQueued,
              ShutdownAbortRunning, ShutdownWake, ShutdownJoin
<1>8. IsFiniteSet(queue') /\ Cardinality(queue') <= Cardinality(queue)
  BY <1>3, FS_Subset DEF IInv
<1>9. TokensCoverQueue'
  <2>1. mpc # "signal" /\ sem' >= sem
    BY DEF IInv, TypeOK, OwnerPhase, Shutdown, ShutdownBegin, ShutdownAbortQueued,
           ShutdownAbortRunning, ShutdownWake, ShutdownJoin
  <2>2. Cardinality(queue') \in Nat /\ Cardinality(queue) \in Nat
    BY <1>8, FS_CardinalityType DEF IInv
  <2>3. QED
    BY <1>2, <1>5, <1>8, <2>1, <2>2, WorkersAtFinite
       DEF IInv, TypeOK, TokensCoverQueue
<1>10. QED
  BY <1>4, <1>5, <1>6, <1>7, <1>8, <1>9 DEF IInv

-----------------------------------------------------------------------------
(* A worker's steps preserve IInv.                                          *)

\* A worker moving between steps at which it looks at neither the semaphore
\* nor the list.
LEMMA TokensKept ==
    ASSUME IInv, TypeOK', NEW w \in Workers, NEW pc \in WorkerPcs, Goto(w, pc),
           wpc[w] # "fetch", pc # "fetch",
           UNCHANGED <<queue, log, sem, shutdown, mpc>>
    PROVE  TokensExact' /\ TokensCoverQueue' /\ IsFiniteSet(queue)'
<1>1. WorkersAt("fetch")' = WorkersAt("fetch")
  BY Elsewhere DEF IInv
<1>2. QED
  BY <1>1 DEF IInv, TokensExact, TokensCoverQueue, Announced

LEMMA WaitInv == ASSUME IInv, NEW w \in Workers, Wait(w) PROVE IInv'
<1>1. added' = added
  BY AddedUnchanged DEF Wait
<1>2. TypeOK' /\ HolderPcs' /\ OneHolder' /\ IdleMeansEmpty'
  BY <1>1 DEF IInv, Wait, Goto, TypeOK, HolderPcs, OneHolder, IdleMeansEmpty,
              HoldingPcs, WorkerPcs
<1>3. OwnerPhase'
  BY DEF IInv, Wait, Goto, OwnerPhase
<1>4. Cardinality(WorkersAt("fetch")') = Cardinality(WorkersAt("fetch")) + 1
  BY Enter DEF IInv, Wait, WorkerPcs
<1>5. Cardinality(queue) \in Nat
  BY FS_CardinalityType DEF IInv
<1>6. TokensExact' /\ TokensCoverQueue' /\ IsFiniteSet(queue)'
  <2>1. Cardinality(WorkersAt("fetch")) \in Nat
    BY WorkersAtFinite
  <2>2. /\ sem \in Nat /\ sem > 0 /\ sem' = sem - 1
        /\ UNCHANGED <<queue, shutdown, mpc>>
    BY DEF IInv, TypeOK, Wait
  <2>3. sem' + Cardinality(WorkersAt("fetch")')
            = sem + Cardinality(WorkersAt("fetch"))
    BY <1>4, <2>1, <2>2
  <2>4. QED
    BY <2>2, <2>3 DEF IInv, TokensExact, TokensCoverQueue, Announced
<1>7. Progress'
  BY <1>1 DEF IInv, Wait, Goto, TypeOK, Progress, HoldingPcs
<1>8. QED
  BY <1>2, <1>3, <1>6, <1>7 DEF IInv

\* An empty list is seen only during a shutdown: w itself is one of the
\* workers TokensExact counts.
LEMMA FetchEmptyInv ==
    ASSUME IInv, NEW w \in Workers, Fetch(w), queue = {}
    PROVE  IInv'
<1>1. /\ Goto(w, "check") /\ wpc[w] = "fetch"
      /\ UNCHANGED <<log, queue, state, sem, shutdown, running, wjob, mpc, wake>>
  BY DEF Fetch
<1>2. added' = added
  BY <1>1, AddedUnchanged
<1>3. Cardinality(queue) = 0
  BY FS_EmptySet
<1>4. Cardinality(WorkersAt("fetch")) \in Nat \ {0}
  <2>1. w \in WorkersAt("fetch")
    BY <1>1 DEF WorkersAt
  <2>2. QED
    BY <2>1, WorkersAtFinite, FS_EmptySet
<1>5. shutdown
  BY <1>3, <1>4 DEF IInv, TypeOK, TokensExact, Announced
<1>6. TypeOK' /\ HolderPcs' /\ OneHolder' /\ IdleMeansEmpty' /\ OwnerPhase'
  BY <1>1, <1>2, <1>5
     DEF IInv, Goto, TypeOK, HolderPcs, OneHolder, IdleMeansEmpty, OwnerPhase,
         HoldingPcs, WorkerPcs
<1>7. TokensExact' /\ IsFiniteSet(queue)'
  BY <1>1, <1>5 DEF IInv, TokensExact
<1>8. TokensCoverQueue'
  <2>1. Cardinality(WorkersAt("fetch")') = Cardinality(WorkersAt("fetch")) - 1
    BY <1>1, Leave DEF IInv, WorkerPcs
  <2>2. QED
    BY <1>1, <1>3, <1>4, <2>1 DEF IInv, TypeOK, TokensCoverQueue
<1>9. Progress'
  BY <1>1, <1>2 DEF IInv, Goto, TypeOK, Progress, HoldingPcs
<1>10. QED
  BY <1>6, <1>7, <1>8, <1>9 DEF IInv

LEMMA FetchJobInv ==
    ASSUME IInv, NEW w \in Workers, Fetch(w), queue # {}
    PROVE  IInv'
<1>1. PICK j \in Front : /\ wjob' = [wjob EXCEPT ![w] = j]
                         /\ queue' = queue \ {j}
                         /\ Goto(w, "start")
  BY DEF Fetch
<1>2. /\ wpc[w] = "fetch"
      /\ UNCHANGED <<log, state, sem, shutdown, running, mpc, wake>>
  BY DEF Fetch
<1>3. j \in queue /\ j \in added /\ j \in Jobs /\ j # NoJob /\ wjob[w] = NoJob
  BY <1>2, FrontInQueue, AddedTyped, JobPoolAssumption
     DEF IInv, TypeOK, HolderPcs, HoldingPcs
<1>4. added' = added
  BY <1>2, AddedUnchanged
<1>5. TypeOK' /\ HolderPcs' /\ OwnerPhase'
  BY <1>1, <1>2, <1>3, <1>4
     DEF IInv, Goto, TypeOK, HolderPcs, OwnerPhase, HoldingPcs, WorkerPcs
<1>6. OneHolder'
  BY <1>1, <1>3 DEF IInv, TypeOK, OneHolder
<1>7. IdleMeansEmpty'
  BY <1>1, <1>2, <1>3 DEF IInv, Goto, TypeOK, IdleMeansEmpty
<1>8. TokensExact' /\ TokensCoverQueue' /\ IsFiniteSet(queue)'
  <2>1. Cardinality(WorkersAt("fetch")') = Cardinality(WorkersAt("fetch")) - 1
    BY <1>1, <1>2, Leave DEF IInv, WorkerPcs
  <2>2. /\ IsFiniteSet(queue')
        /\ Cardinality(queue') = Cardinality(queue) - 1
    BY <1>1, <1>3, FS_RemoveElement DEF IInv
  <2>3. Cardinality(WorkersAt("fetch")) \in Nat /\ Cardinality(queue) \in Nat
    BY WorkersAtFinite, FS_CardinalityType DEF IInv
  <2>4. QED
    BY <1>2, <2>1, <2>2, <2>3
       DEF IInv, TypeOK, TokensExact, TokensCoverQueue, Announced
<1>9. Progress'
  <2> SUFFICES ASSUME NEW i \in Jobs \ Abortables PROVE Progress!(i)'
    BY DEF Progress
  <2>1. Progress!(i)
    BY DEF IInv, Progress
  <2>2. CASE i = j
    <3>1. state[j] \in {"QUEUED", "DONE"}
      BY <1>3, <2>1, <2>2 DEF IInv, OneHolder
    <3>2. QED
      BY <1>1, <1>2, <2>2, <3>1 DEF IInv, TypeOK, Goto
  <2>3. CASE i # j
    BY <1>1, <1>2, <1>3, <1>4, <2>1, <2>3, JobPoolAssumption
       DEF IInv, TypeOK, Goto
  <2>4. QED
    BY <2>2, <2>3
<1>10. QED
  BY <1>5, <1>6, <1>7, <1>8, <1>9 DEF IInv

LEMMA FetchInv == ASSUME IInv, NEW w \in Workers, Fetch(w) PROVE IInv'
BY FetchEmptyInv, FetchJobInv

LEMMA CheckShutdownInv ==
    ASSUME IInv, NEW w \in Workers, CheckShutdown(w) PROVE IInv'
<1>1. /\ wpc[w] = "check" /\ shutdown /\ queue = {} /\ Goto(w, "exit")
      /\ UNCHANGED <<queue, state, log, sem, shutdown, running, wjob, mpc, wake>>
  BY DEF IInv, CheckShutdown, IdleMeansEmpty
<1>2. added' = added
  BY <1>1, AddedUnchanged
<1>3. TypeOK' /\ HolderPcs' /\ OneHolder' /\ OwnerPhase' /\ IdleMeansEmpty'
  BY <1>1, <1>2 DEF IInv, Goto, TypeOK, HolderPcs, OneHolder, OwnerPhase,
                    IdleMeansEmpty, HoldingPcs, WorkerPcs
<1>4. TokensExact' /\ TokensCoverQueue' /\ IsFiniteSet(queue)'
  BY <1>1, <1>3, TokensKept DEF WorkerPcs
<1>5. Progress'
  BY <1>1, <1>2 DEF IInv, Goto, TypeOK, Progress, HoldingPcs
<1>6. QED
  BY <1>3, <1>4, <1>5 DEF IInv

\* Register, Run and Unregister: the worker keeps its job, which stays RUNNING.
LEMMA KeepJobInv ==
    ASSUME IInv, NEW w \in Workers, NEW pc \in HoldingPcs \ {"start"}, Goto(w, pc),
           wpc[w] \in HoldingPcs \ {"start"}, running' \subseteq Jobs,
           UNCHANGED <<queue, log, sem, shutdown, state, wjob, mpc, wake>>
    PROVE  IInv'
<1>1. added' = added
  BY AddedUnchanged
<1>2. TypeOK' /\ HolderPcs' /\ OneHolder' /\ OwnerPhase' /\ IdleMeansEmpty'
  BY <1>1 DEF IInv, Goto, TypeOK, HolderPcs, OneHolder, OwnerPhase,
              IdleMeansEmpty, HoldingPcs, WorkerPcs
<1>3. TokensExact' /\ TokensCoverQueue' /\ IsFiniteSet(queue)'
  BY <1>2, TokensKept DEF HoldingPcs, WorkerPcs
<1>4. Progress'
  BY <1>1 DEF IInv, Goto, TypeOK, Progress, HoldingPcs
<1>5. QED
  BY <1>2, <1>3, <1>4 DEF IInv

LEMMA RegisterRunUnregisterInv ==
    ASSUME IInv, NEW w \in Workers, Register(w) \/ Run(w) \/ Unregister(w)
    PROVE  IInv'
<1>1. wjob[w] \in Jobs \/ wpc[w] \notin HoldingPcs
  BY AddedTyped DEF IInv, TypeOK, HolderPcs
<1>2. running' \subseteq Jobs
  BY <1>1 DEF IInv, TypeOK, Register, Run, Unregister, HoldingPcs
<1>3. CASE Register(w)
  BY <1>2, <1>3, KeepJobInv DEF Register, HoldingPcs
<1>4. CASE Run(w)
  BY <1>2, <1>4, KeepJobInv DEF Run, HoldingPcs
<1>5. CASE Unregister(w)
  BY <1>2, <1>5, KeepJobInv DEF Unregister, HoldingPcs
<1>6. QED
  BY <1>3, <1>4, <1>5

LEMMA StartInv == ASSUME IInv, NEW w \in Workers, Start(w) PROVE IInv'
<1>1. added' = added /\ wpc[w] = "start" /\ wjob[w] \in added
  BY AddedUnchanged DEF IInv, HolderPcs, HoldingPcs, Start
<1>2. wjob[w] \in Jobs /\ wjob[w] # NoJob /\ NoJob \notin added
  BY <1>1, AddedTyped, JobPoolAssumption DEF IInv, TypeOK
<1>3. CASE state[wjob[w]] = "QUEUED"
  <2>1. /\ state' = [state EXCEPT ![wjob[w]] = "RUNNING"]
        /\ Goto(w, "register")
        /\ UNCHANGED <<queue, log, sem, shutdown, running, wjob, mpc, wake>>
    BY <1>3 DEF Start
  <2>2. TypeOK' /\ HolderPcs' /\ OneHolder' /\ OwnerPhase' /\ IdleMeansEmpty'
    BY <1>1, <1>2, <2>1
       DEF IInv, Goto, TypeOK, HolderPcs, OneHolder, OwnerPhase, IdleMeansEmpty,
           HoldingPcs, WorkerPcs, States
  <2>3. TokensExact' /\ TokensCoverQueue' /\ IsFiniteSet(queue)'
    BY <1>1, <2>1, <2>2, TokensKept DEF WorkerPcs
  <2>4. Progress'
    <3> SUFFICES ASSUME NEW i \in Jobs \ Abortables PROVE Progress!(i)'
      BY DEF Progress
    <3>1. Progress!(i)
      BY DEF IInv, Progress
    <3>2. CASE i = wjob[w]
      BY <1>1, <1>2, <2>1, <3>2 DEF IInv, TypeOK, Goto, HoldingPcs
    <3>3. CASE i # wjob[w]
      BY <1>1, <1>2, <2>1, <3>1, <3>3 DEF IInv, TypeOK, Goto
    <3>4. QED
      BY <3>2, <3>3
  <2>5. QED
    BY <2>2, <2>3, <2>4 DEF IInv
<1>4. CASE state[wjob[w]] # "QUEUED"
  <2>1. /\ Goto(w, "wait") /\ wjob' = [wjob EXCEPT ![w] = NoJob]
        /\ UNCHANGED <<queue, log, sem, shutdown, running, state, mpc, wake>>
    BY <1>4 DEF Start
  <2>2. TypeOK' /\ HolderPcs' /\ OwnerPhase' /\ IdleMeansEmpty'
    BY <1>1, <1>2, <2>1
       DEF IInv, Goto, TypeOK, HolderPcs, OwnerPhase, IdleMeansEmpty,
           HoldingPcs, WorkerPcs
  <2>3. OneHolder'
    BY <1>2, <2>1 DEF IInv, TypeOK, OneHolder
  <2>4. TokensExact' /\ TokensCoverQueue' /\ IsFiniteSet(queue)'
    BY <1>1, <2>1, <2>2, TokensKept DEF WorkerPcs
  <2>5. Progress'
    BY <1>1, <1>2, <1>4, <2>1 DEF IInv, Goto, TypeOK, Progress, HoldingPcs
  <2>6. QED
    BY <2>2, <2>3, <2>4, <2>5 DEF IInv
<1>5. QED
  BY <1>3, <1>4

LEMMA FinishInv == ASSUME IInv, NEW w \in Workers, Finish(w) PROVE IInv'
<1>1. added' = added /\ wpc[w] = "finish" /\ wjob[w] \in added
  BY AddedUnchanged DEF IInv, HolderPcs, HoldingPcs, Finish
<1>2. wjob[w] \in Jobs /\ wjob[w] # NoJob /\ NoJob \notin added
  BY <1>1, AddedTyped, JobPoolAssumption DEF IInv, TypeOK
<1>3. /\ Goto(w, "wait") /\ wjob' = [wjob EXCEPT ![w] = NoJob]
      /\ UNCHANGED <<queue, log, sem, shutdown, running, mpc, wake>>
      /\ \/ state[wjob[w]] = "RUNNING"
            /\ state' = [state EXCEPT ![wjob[w]] = "DONE"]
         \/ state[wjob[w]] # "RUNNING" /\ state' = state
  BY DEF Finish
<1>4. TypeOK' /\ HolderPcs' /\ OwnerPhase' /\ IdleMeansEmpty'
  BY <1>1, <1>2, <1>3
     DEF IInv, Goto, TypeOK, HolderPcs, OwnerPhase, IdleMeansEmpty,
         HoldingPcs, WorkerPcs, States
<1>5. OneHolder'
  BY <1>2, <1>3 DEF IInv, TypeOK, OneHolder
<1>6. TokensExact' /\ TokensCoverQueue' /\ IsFiniteSet(queue)'
  BY <1>1, <1>3, <1>4, TokensKept DEF WorkerPcs
<1>7. Progress'
  <2> SUFFICES ASSUME NEW i \in Jobs \ Abortables PROVE Progress!(i)'
    BY DEF Progress
  <2>1. Progress!(i)
    BY DEF IInv, Progress
  <2>2. CASE i = wjob[w]
    <3>1. state[i] \in {"RUNNING", "DONE"}
      BY <1>1, <1>2, <2>1, <2>2 DEF IInv, OneHolder
    <3>2. state'[i] = "DONE"
      BY <1>2, <1>3, <2>2, <3>1 DEF IInv, TypeOK
    <3>3. QED
      BY <3>2
  <2>3. CASE i # wjob[w]
    BY <1>1, <1>2, <1>3, <2>1, <2>3 DEF IInv, TypeOK, Goto
  <2>4. QED
    BY <2>2, <2>3
<1>8. QED
  BY <1>4, <1>5, <1>6, <1>7 DEF IInv

-----------------------------------------------------------------------------
(* The theorems.                                                            *)

THEOREM Inductive == IInv /\ [Next]_vars => IInv'
<1> SUFFICES ASSUME IInv, [Next]_vars PROVE IInv'
  OBVIOUS
<1>1. CASE Owner
  BY <1>1, PoolInitInv, AbortInv, AddEnqueueInv, AddRefusedInv, AddSignalInv,
     ShutdownInv DEF Owner
<1>2. ASSUME NEW w \in Workers, Worker(w) PROVE IInv'
  BY <1>2, WaitInv, FetchInv, CheckShutdownInv, StartInv,
     RegisterRunUnregisterInv, FinishInv DEF Worker
<1>3. CASE UNCHANGED vars
  <2>1. added' = added /\ WorkersAt("fetch")' = WorkersAt("fetch")
    BY <1>3, AddedUnchanged DEF vars, WorkersAt
  <2>2. QED
    BY <1>3, <2>1
       DEF IInv, vars, TypeOK, HolderPcs, OneHolder, OwnerPhase, TokensExact,
           TokensCoverQueue, IdleMeansEmpty, Progress, Announced
<1>4. QED
  BY <1>1, <1>2, <1>3 DEF Next

THEOREM Invariance == Spec => []IInv
BY InitInv, Inductive, PTL DEF Spec

\* Every reachable state of the pool is well typed.
THEOREM TypeCorrect == Spec => []TypeOK
<1>1. IInv => TypeOK
  BY DEF IInv
<1>2. QED
  BY Invariance, <1>1, PTL

\* No wake-up is lost, for any number of jobs and workers.
THEOREM NoLostWakeup == Spec => []TokensCoverQueue
<1>1. IInv => TokensCoverQueue
  BY DEF IInv
<1>2. QED
  BY Invariance, <1>1, PTL

\* A job is never run by two workers, nor taken from the list twice.
THEOREM RunByOne == Spec => []OneHolder
<1>1. IInv => OneHolder
  BY DEF IInv
<1>2. QED
  BY Invariance, <1>1, PTL

\* Both together: the list of jobs is served, whatever the threads do.
THEOREM ListAlwaysServed == Spec => []ListServed
<1>1. IInv => ListServed
  BY DEF IInv, ListServed
<1>2. QED
  BY <1>1, Invariance, PTL

\* No worker leaves while jobs wait in the list.
THEOREM LeaveEmpty == Spec => []NoWorkLeftBehind
<1>1. IInv => NoWorkLeftBehind
  BY DEF IInv, IdleMeansEmpty, NoWorkLeftBehind, WorkersAt
<1>2. QED
  BY Invariance, <1>1, PTL

\* The promise of jobs.h about jobs that cannot be aborted: when the pool is
\* down the workers hold no job and the list is empty, so Progress leaves
\* only DONE.
THEOREM UnabortableJobsRun == Spec => []UnabortableComplete
<1>1. IInv => UnabortableComplete
  <2> SUFFICES ASSUME IInv, mpc = "down", NEW j \in added \ Abortables
               PROVE  state[j] = "DONE"
    BY DEF UnabortableComplete
  <2>1. j \in Jobs \ Abortables
    BY AddedTyped DEF IInv, TypeOK
  <2>2. PICK w \in Workers : wpc[w] = "exit"
    BY JobPoolAssumption DEF IInv, OwnerPhase
  <2>3. queue = {}
    BY <2>2 DEF IInv, IdleMeansEmpty
  <2>4. \A v \in Workers : wpc[v] = "exit"
    BY DEF IInv, OwnerPhase
  <2>5. QED
    BY <2>1, <2>3, <2>4 DEF IInv, Progress, HoldingPcs
<1>2. QED
  BY Invariance, <1>1, PTL

\* A worker writes only to a job it finds QUEUED or RUNNING.
THEOREM AbortsStick == Spec => AbortIsFinal
<1>1. IInv /\ [Next]_vars =>
          [\A j \in Jobs : state[j] = "ABORTED" => state'[j] = "ABORTED"]_vars
  <2> SUFFICES ASSUME IInv, Next, NEW j \in Jobs, state[j] = "ABORTED"
               PROVE  state'[j] = "ABORTED"
    OBVIOUS
  <2>1. state \in [Jobs -> States]
    BY DEF IInv, TypeOK
  <2>2. CASE Owner
    BY <2>1, <2>2
       DEF Owner, PoolInit, Abort, AddEnqueue, AddRefused, AddSignal, Shutdown,
           ShutdownBegin, ShutdownAbortQueued, ShutdownAbortRunning,
           ShutdownWake, ShutdownJoin, Aborted
  <2>3. ASSUME NEW w \in Workers, Worker(w) PROVE state'[j] = "ABORTED"
    BY <2>1, <2>3
       DEF Worker, Wait, Fetch, CheckShutdown, Start, Register, Run, Unregister,
           Finish
  <2>4. QED
    BY <2>2, <2>3 DEF Next
<1>2. QED
  BY Invariance, <1>1, PTL DEF Spec, AbortIsFinal
=============================================================================
