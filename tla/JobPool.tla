------------------------------- MODULE JobPool -------------------------------
(***************************************************************************)
(* CJobPool (src/engine/shared/jobs.cpp): a FIFO of jobs served by worker  *)
(* threads.  The thread that owns the pool (the main thread: every caller  *)
(* of AddJob, Abort and ShutdownJobs in the repository runs there) adds    *)
(* jobs, aborts them and finally shuts the pool down.                      *)
(*                                                                         *)
(* Each step below is one access to shared memory: a critical section, an  *)
(* atomic load, store or compare-exchange, or a semaphore operation.       *)
(***************************************************************************)
EXTENDS Naturals, FiniteSets, Sequences, Functions

CONSTANTS
    Jobs,       \* the jobs the program creates
    Abortables, \* the jobs whose constructor calls Abortable(true)
    Workers,    \* the threads started by CJobPool::Init
    NoJob       \* the null pointer

ASSUME JobPoolAssumption ==
    /\ Abortables \subseteq Jobs
    /\ NoJob \notin Jobs
    /\ IsFiniteSet(Workers)
    /\ Workers # {}

VARIABLES
    log,        \* history: the jobs accepted by Add, in that order
    queue,      \* the jobs linked in m_pFirstJob .. m_pLastJob; the list
                \*   order is that of log
    state,      \* IJob::m_State of every job
    sem,        \* m_Semaphore
    shutdown,   \* m_Shutdown
    running,    \* m_RunningJobs
    wpc,        \* where each worker is in RunLoop
    wjob,       \* the worker's pJob, or NoJob
    mpc,        \* where the owner thread is
    wake        \* sphore_signal calls left in Shutdown

vars == <<log, queue, state, sem, shutdown, running, wpc, wjob, mpc, wake>>

States == {"QUEUED", "RUNNING", "DONE", "ABORTED"}
WorkerPcs == {"wait", "fetch", "check", "start", "register", "run",
              "unregister", "finish", "exit"}
OwnerPcs == {"idle", "signal", "abortQueued", "abortRunning", "wake",
             "join", "down"}

\* The jobs accepted by Add so far, and the front of the list.
added == Range(log)
Front == {log[i] : i \in {k \in DOMAIN log :
                              /\ log[k] \in queue
                              /\ \A h \in 1..(k - 1) : log[h] \notin queue}}

\* The constructor: no thread yet, and m_Shutdown is true until Init.
Init ==
    /\ log = <<>>
    /\ queue = {}
    /\ state = [j \in Jobs |-> "QUEUED"]
    /\ sem = 0
    /\ shutdown = TRUE
    /\ running = {}
    /\ wpc = [w \in Workers |-> "exit"]
    /\ wjob = [w \in Workers |-> NoJob]
    /\ mpc = "down"
    /\ wake = 0

-----------------------------------------------------------------------------
(* The owner thread.                                                        *)

\* CJobPool::Init: fresh semaphore, empty list, one thread per worker.
PoolInit ==
    /\ mpc = "down"
    /\ shutdown' = FALSE
    /\ sem' = 0
    /\ queue' = {}
    /\ wpc' = [w \in Workers |-> "wait"]
    /\ mpc' = "idle"
    /\ UNCHANGED <<log, state, running, wjob, wake>>

\* IJob::Abort on every job of S: a no-op for a job that is not abortable,
\* and otherwise a plain store, whatever the job is doing.
Aborted(S) ==
    [j \in Jobs |-> IF j \in S \cap Abortables THEN "ABORTED" ELSE state[j]]

Abort(j) ==
    /\ mpc \in {"idle", "down"}
    /\ state' = Aborted({j})
    /\ UNCHANGED <<queue, log, sem, shutdown, running, wpc, wjob, mpc, wake>>

AddEnqueue(j) ==
    /\ mpc = "idle"
    /\ ~shutdown
    /\ j \notin added
    /\ log' = Append(log, j)
    /\ queue' = queue \cup {j}
    /\ mpc' = "signal"
    /\ UNCHANGED <<state, sem, shutdown, running, wpc, wjob, wake>>

\* Mutant: the new job is not announced to the workers.
AddSignal_NoSignal ==
    /\ mpc = "signal"
    /\ mpc' = "idle"
    /\ UNCHANGED <<queue, state, log, sem, shutdown, running, wpc, wjob, wake>>

AddSignal ==
    /\ mpc = "signal"
    /\ sem' = sem + 1
    /\ mpc' = "idle"
    /\ UNCHANGED <<queue, state, log, shutdown, running, wpc, wjob, wake>>

\* Add on a pool that is shut down: the job is not enqueued.
AddRefused(j) ==
    /\ mpc = "down"
    /\ shutdown
    /\ j \notin added
    /\ state' = Aborted({j})
    /\ UNCHANGED <<queue, log, sem, shutdown, running, wpc, wjob, mpc, wake>>

ShutdownBegin ==
    /\ mpc = "idle"
    /\ ~shutdown
    /\ shutdown' = TRUE
    /\ mpc' = "abortQueued"
    /\ UNCHANGED <<queue, state, log, sem, running, wpc, wjob, wake>>

\* Mutant: the walk unlinks every queued job, abortable or not.
ShutdownAbortQueued_DropAll ==
    /\ mpc = "abortQueued"
    /\ state' = Aborted(queue)
    /\ queue' = {}
    /\ mpc' = "abortRunning"
    /\ UNCHANGED <<log, sem, shutdown, running, wpc, wjob, wake>>

\* The walk over the queue, under m_Lock: only abortable jobs are unlinked.
ShutdownAbortQueued ==
    /\ mpc = "abortQueued"
    /\ state' = Aborted(queue)
    /\ queue' = queue \ Abortables
    /\ mpc' = "abortRunning"
    /\ UNCHANGED <<log, sem, shutdown, running, wpc, wjob, wake>>

\* Mutant: one wake-up for all the workers.
ShutdownAbortRunning_WakeOne ==
    /\ mpc = "abortRunning"
    /\ state' = Aborted(running)
    /\ mpc' = "wake"
    /\ wake' = 1
    /\ UNCHANGED <<queue, log, sem, shutdown, running, wpc, wjob>>

ShutdownAbortRunning ==
    /\ mpc = "abortRunning"
    /\ state' = Aborted(running)
    /\ mpc' = "wake"
    /\ wake' = Cardinality(Workers)
    /\ UNCHANGED <<queue, log, sem, shutdown, running, wpc, wjob>>

ShutdownWake ==
    /\ mpc = "wake"
    /\ IF wake > 0
         THEN wake' = wake - 1 /\ sem' = sem + 1 /\ mpc' = mpc
         ELSE mpc' = "join" /\ UNCHANGED <<wake, sem>>
    /\ UNCHANGED <<queue, state, log, shutdown, running, wpc, wjob>>

ShutdownJoin ==
    /\ mpc = "join"
    /\ \A w \in Workers : wpc[w] = "exit"
    /\ mpc' = "down"
    /\ UNCHANGED <<queue, state, log, sem, shutdown, running, wpc, wjob, wake>>

-----------------------------------------------------------------------------
(* A worker thread: one iteration of RunLoop.                               *)

Goto(w, pc) == wpc' = [wpc EXCEPT ![w] = pc]

Wait(w) ==
    /\ wpc[w] = "wait"
    /\ sem > 0
    /\ sem' = sem - 1
    /\ Goto(w, "fetch")
    /\ UNCHANGED <<queue, state, log, shutdown, running, wjob, mpc, wake>>

\* Mutant: the job stays at the front of the list.
Fetch_NoPop(w) ==
    /\ wpc[w] = "fetch"
    /\ IF queue = {}
         THEN Goto(w, "check") /\ wjob' = wjob
         ELSE \E j \in Front :
                  wjob' = [wjob EXCEPT ![w] = j] /\ Goto(w, "start")
    /\ UNCHANGED <<queue, state, log, sem, shutdown, running, mpc, wake>>

Fetch(w) ==
    /\ wpc[w] = "fetch"
    /\ IF queue = {}
         THEN Goto(w, "check") /\ UNCHANGED <<queue, wjob>>
         ELSE \E j \in Front :
                  /\ wjob' = [wjob EXCEPT ![w] = j]
                  /\ queue' = queue \ {j}
                  /\ Goto(w, "start")
    /\ UNCHANGED <<state, log, sem, shutdown, running, mpc, wake>>

\* No job: leave if the pool is shutting down, otherwise wait again.
CheckShutdown(w) ==
    /\ wpc[w] = "check"
    /\ Goto(w, IF shutdown THEN "exit" ELSE "wait")
    /\ UNCHANGED <<queue, state, log, sem, shutdown, running, wjob, mpc, wake>>

\* compare_exchange(QUEUED, RUNNING); a job aborted in the queue is dropped.
Start(w) ==
    /\ wpc[w] = "start"
    /\ IF state[wjob[w]] = "QUEUED"
         THEN /\ state' = [state EXCEPT ![wjob[w]] = "RUNNING"]
              /\ Goto(w, "register")
              /\ wjob' = wjob
         ELSE /\ Goto(w, "wait")
              /\ wjob' = [wjob EXCEPT ![w] = NoJob]
              /\ state' = state
    /\ UNCHANGED <<queue, log, sem, shutdown, running, mpc, wake>>

Register(w) ==
    /\ wpc[w] = "register"
    /\ running' = running \cup {wjob[w]}
    /\ Goto(w, "run")
    /\ UNCHANGED <<queue, state, log, sem, shutdown, wjob, mpc, wake>>

Run(w) ==
    /\ wpc[w] = "run"
    /\ Goto(w, "unregister")
    /\ UNCHANGED <<queue, state, log, sem, shutdown, running, wjob, mpc, wake>>

Unregister(w) ==
    /\ wpc[w] = "unregister"
    /\ running' = running \ {wjob[w]}
    /\ Goto(w, "finish")
    /\ UNCHANGED <<queue, state, log, sem, shutdown, wjob, mpc, wake>>

\* Mutant: a plain store instead of the compare-exchange.
Finish_Store(w) ==
    /\ wpc[w] = "finish"
    /\ state' = [state EXCEPT ![wjob[w]] = "DONE"]
    /\ wjob' = [wjob EXCEPT ![w] = NoJob]
    /\ Goto(w, "wait")
    /\ UNCHANGED <<queue, log, sem, shutdown, running, mpc, wake>>

\* compare_exchange(RUNNING, DONE): an aborted job stays aborted.
Finish(w) ==
    /\ wpc[w] = "finish"
    /\ IF state[wjob[w]] = "RUNNING"
         THEN state' = [state EXCEPT ![wjob[w]] = "DONE"]
         ELSE state' = state
    /\ wjob' = [wjob EXCEPT ![w] = NoJob]
    /\ Goto(w, "wait")
    /\ UNCHANGED <<queue, log, sem, shutdown, running, mpc, wake>>

-----------------------------------------------------------------------------

Shutdown ==
    \/ ShutdownBegin \/ ShutdownAbortQueued \/ ShutdownAbortRunning
    \/ ShutdownWake \/ ShutdownJoin

Owner ==
    \/ PoolInit
    \/ \E j \in Jobs : Abort(j) \/ AddEnqueue(j) \/ AddRefused(j)
    \/ AddSignal
    \/ Shutdown

Worker(w) ==
    \/ Wait(w) \/ Fetch(w) \/ CheckShutdown(w) \/ Start(w) \/ Register(w)
    \/ Run(w) \/ Unregister(w) \/ Finish(w)

Next == Owner \/ \E w \in Workers : Worker(w)

Spec == Init /\ [][Next]_vars

\* Threads are scheduled and IJob::Run returns.  The owner finishes an Add or
\* a Shutdown it has begun, but need never begin one.
Fairness ==
    /\ \A w \in Workers : WF_vars(Worker(w))
    /\ WF_vars(AddSignal)
    /\ WF_vars(ShutdownAbortQueued \/ ShutdownAbortRunning
               \/ ShutdownWake \/ ShutdownJoin)

FairSpec == Spec /\ Fairness

-----------------------------------------------------------------------------

TypeOK ==
    /\ log \in Seq(Jobs)
    /\ queue \subseteq added
    /\ state \in [Jobs -> States]
    /\ sem \in Nat
    /\ shutdown \in BOOLEAN
    /\ running \subseteq Jobs
    /\ wpc \in [Workers -> WorkerPcs]
    /\ wjob \in [Workers -> Jobs \cup {NoJob}]
    /\ mpc \in OwnerPcs
    /\ wake \in Nat

WorkersAt(pc) == {w \in Workers : wpc[w] = pc}

\* A wake-up is never lost: every job in the list has a semaphore token, a
\* worker already on its way to the list, or an Add about to signal.
TokensCoverQueue ==
    Cardinality(queue) <= sem + Cardinality(WorkersAt("fetch"))
                      + (IF mpc = "signal" THEN 1 ELSE 0)

\* A job is in one place only: in the list, or with one worker.
OneHolder ==
    /\ \A w \in Workers : wjob[w] \notin queue
    /\ \A v, w \in Workers : v # w /\ wjob[v] # NoJob => wjob[v] # wjob[w]

\* Each job in the list is in nobody's hands and somebody will come for it.
ListServed == TokensCoverQueue /\ OneHolder

\* "Scheduled jobs which are not abortable are guaranteed to fully complete
\* before the job pool is shut down" (jobs.h): when Shutdown has returned,
\* each of them is DONE.
UnabortableComplete ==
    mpc = "down" => \A j \in added \ Abortables : state[j] = "DONE"

\* A worker leaves RunLoop only when there is nothing left to run: no other
\* worker will come for a job added to the list behind its back.
NoWorkLeftBehind ==
    shutdown /\ WorkersAt("exit") # {} => queue = {}

\* An abort that was accepted is never overwritten by the worker's progress.
AbortIsFinal ==
    [][\A j \in Jobs : state[j] = "ABORTED" => state'[j] = "ABORTED"]_vars

\* Every job accepted by Add is eventually done or aborted, whether or not
\* the pool is shut down meanwhile.
JobsComplete ==
    \A j \in Jobs : j \in added ~> state[j] \in {"DONE", "ABORTED"}

\* Shutdown returns: no worker sleeps through it.
ShutdownReturns == mpc = "abortQueued" ~> mpc = "down"
=============================================================================
