------------------------------- MODULE DbPool -------------------------------
(***************************************************************************)
(* CDbConnectionPool (src/engine/server/databases/connection_pool.cpp): a  *)
(* ring of queries filled by the main thread, looked at first by a backup  *)
(* thread, which stores every write in a local file, and then executed by  *)
(* a worker thread on the remote database.  What a write does to the       *)
(* tables is that of CSqlStats::SaveFastcapWorker (sql_stats.cpp).         *)
(*                                                                         *)
(* No statement runs in a transaction, so each one is a step, and so the   *)
(* state invariants speak of a process killed between any two of them.     *)
(***************************************************************************)
EXTENDS Integers, Sequences, FiniteSets, Functions

CONSTANTS
    Queries,    \* the queries the program submits
    Kind,       \* CSqlExecData::m_Mode of each query
    NoQuery,    \* an empty slot
    Size,       \* length of m_aQueries (512)
    MaxPending  \* bound: queries submitted and not yet taken by the worker

Kinds == {"read", "write", "addRead", "addWrite", "addBackup"}

ASSUME DbPoolAssumption ==
    /\ Kind \in [Queries -> Kinds]
    /\ NoQuery \notin Queries
    /\ Size \in Nat \ {0}
    /\ MaxPending \in Nat

VARIABLES
    log,        \* history: the queries in the order they were submitted;
                \*   Len(log) % Size is m_InsertIdx
    ring,       \* m_aQueries
    numBackup,  \* m_NumBackup
    numWorker,  \* m_NumWorker
    stop,       \* m_pShared->m_Shutdown
    mpc,        \* where the main thread is
    bpc, bNum, bcur, bConn,     \* backup thread: step, JobNum, query, file open
    wpc, wNum, wcur, conns,     \* worker: step, JobNum, query, databases
    failMode,   \* the worker's FailMode
    ok,         \* the worker's Success
    remote,     \* rows of the table on the write server
    tmp,        \* rows of the "_backup" table of the backup file
    main,       \* rows of the table without suffix of the backup file
    success,    \* ISqlResult::m_Success
    completed   \* ISqlResult::m_Completed

mainVars   == <<log, mpc>>
backupVars == <<bpc, bNum, bcur, bConn>>
workerVars == <<wpc, wNum, wcur, conns, failMode, ok>>
tables     == <<remote, tmp, main>>
results    == <<success, completed>>
queueVars  == <<ring, numBackup, numWorker, stop>>
vars == <<mainVars, backupVars, workerVars, tables, results, queueVars>>

submitted == Range(log)
IsWrite(q) == q \in Queries /\ Kind[q] = "write"
HasResult(q) == Kind[q] \in {"read", "write"}

Init ==
    /\ log = <<>>
    /\ ring = [i \in 0..(Size - 1) |-> NoQuery]
    /\ numBackup = 0 /\ numWorker = 0
    /\ stop = FALSE
    /\ mpc = "run"
    /\ bpc = "wait" /\ bNum = 0 /\ bcur = NoQuery /\ bConn = FALSE
    /\ wpc = "loop" /\ wNum = 0 /\ wcur = NoQuery /\ conns = {}
    /\ failMode = FALSE /\ ok = FALSE
    /\ remote = {} /\ tmp = {} /\ main = {}
    /\ success = [q \in Queries |-> FALSE]
    /\ completed = [q \in Queries |-> FALSE]

-----------------------------------------------------------------------------
(* The main thread.                                                         *)

\* Execute, ExecuteWrite and the two Register calls.  Nothing in the code
\* looks whether the slot is free; MaxPending says how far ahead of the
\* worker the program gets.
Submit(q) ==
    /\ mpc = "run"
    /\ q \notin submitted
    /\ Len(log) - wNum < MaxPending
    /\ log' = Append(log, q)
    /\ ring' = [ring EXCEPT ![Len(log) % Size] = q]
    /\ numBackup' = numBackup + 1
    /\ UNCHANGED <<mpc, numWorker, stop, backupVars, workerVars, tables, results>>

OnShutdown ==
    /\ mpc = "run"
    /\ mpc' = "poll"
    /\ stop' = TRUE
    /\ numBackup' = numBackup + 1
    /\ UNCHANGED <<log, ring, numWorker, backupVars, workerVars, tables, results>>

\* The loop of OnShutdown sees the flag cleared by the worker.
ShutdownSeen ==
    /\ mpc = "poll"
    /\ ~stop
    /\ mpc' = "join"
    /\ UNCHANGED <<log, queueVars, backupVars, workerVars, tables, results>>

\* The destructor waits for both threads.
Destroy ==
    /\ mpc = "join"
    /\ bpc = "exit" /\ wpc = "exit"
    /\ mpc' = "down"
    /\ UNCHANGED <<log, queueVars, backupVars, workerVars, tables, results>>

-----------------------------------------------------------------------------
(* The backup thread.                                                       *)

BackupTake ==
    /\ bpc = "wait"
    /\ numBackup > 0
    /\ numBackup' = numBackup - 1
    /\ bcur' = ring[bNum % Size]
    /\ bpc' = IF bcur' = NoQuery THEN "leave" ELSE "exec"
    /\ UNCHANGED <<mainVars, ring, numWorker, stop, bNum, bConn, workerVars,
                   tables, results>>

\* Mutant: the player is told as soon as the row is in the backup file.
BackupExec_Announce ==
    /\ bpc = "exec"
    /\ bConn' = (bConn \/ Kind[bcur] = "addBackup")
    /\ IF IsWrite(bcur) /\ bConn
         THEN /\ tmp' \in {tmp, tmp \cup {bcur}}
              /\ success' = [success EXCEPT ![bcur] = bcur \in tmp']
              /\ completed' = [completed EXCEPT ![bcur] = TRUE]
         ELSE UNCHANGED <<tmp, results>>
    /\ bpc' = "pass"
    /\ UNCHANGED <<mainVars, queueVars, bNum, bcur, workerVars, remote, main>>

\* BACKUP_FIRST inserts the row into the "_backup" table, if that works.
BackupExec ==
    /\ bpc = "exec"
    /\ bConn' = (bConn \/ Kind[bcur] = "addBackup")
    /\ IF IsWrite(bcur) /\ bConn
         THEN tmp' \in {tmp, tmp \cup {bcur}}
         ELSE tmp' = tmp
    /\ bpc' = "pass"
    /\ UNCHANGED <<mainVars, queueVars, bNum, bcur, workerVars, remote, main,
                   results>>

\* Mutant: only writes are passed on.
BackupPass_WritesOnly ==
    /\ bpc = "pass"
    /\ numWorker' = IF Kind[bcur] = "read" THEN numWorker ELSE numWorker + 1
    /\ bNum' = bNum + 1
    /\ bcur' = NoQuery
    /\ bpc' = "wait"
    /\ UNCHANGED <<mainVars, ring, numBackup, stop, bConn, workerVars, tables,
                   results>>

BackupPass ==
    /\ bpc = "pass"
    /\ numWorker' = numWorker + 1
    /\ bNum' = bNum + 1
    /\ bcur' = NoQuery
    /\ bpc' = "wait"
    /\ UNCHANGED <<mainVars, ring, numBackup, stop, bConn, workerVars, tables,
                   results>>

\* Mutant: the backup thread leaves without waking the worker.
BackupLeave_Silent ==
    /\ bpc = "leave"
    /\ bpc' = "exit"
    /\ UNCHANGED <<mainVars, queueVars, bNum, bcur, bConn, workerVars, tables,
                   results>>

\* An empty slot is the end of the queue.
BackupLeave ==
    /\ bpc = "leave"
    /\ numWorker' = numWorker + 1
    /\ bpc' = "exit"
    /\ UNCHANGED <<mainVars, ring, numBackup, stop, bNum, bcur, bConn, workerVars,
                   tables, results>>

-----------------------------------------------------------------------------
(* The worker thread.                                                       *)

\* Fail mode ends when no query is waiting.
WorkerLoop ==
    /\ wpc = "loop"
    /\ failMode' = (failMode /\ numWorker # 0)
    /\ wpc' = "wait"
    /\ UNCHANGED <<mainVars, queueVars, backupVars, wNum, wcur, conns, ok, tables,
                   results>>

\* Mutant: the worker goes when it sees the flag, whatever is in the slot.
WorkerTake_ObeyFlag ==
    /\ wpc = "wait"
    /\ numWorker > 0
    /\ numWorker' = numWorker - 1
    /\ LET q == ring[wNum % Size]
       IN  IF q = NoQuery \/ stop
             THEN /\ stop' = FALSE
                  /\ wpc' = "exit"
                  /\ UNCHANGED <<ring, wNum, wcur>>
             ELSE /\ ring' = [ring EXCEPT ![wNum % Size] = NoQuery]
                  /\ wcur' = q
                  /\ wNum' = wNum + 1
                  /\ wpc' = "exec"
                  /\ stop' = stop
    /\ UNCHANGED <<mainVars, numBackup, backupVars, conns, failMode, ok, tables,
                   results>>

\* Mutant: the slot is read and not emptied.
WorkerTake_Copy ==
    /\ wpc = "wait"
    /\ numWorker > 0
    /\ numWorker' = numWorker - 1
    /\ wcur' = ring[wNum % Size]
    /\ IF wcur' = NoQuery
         THEN /\ stop' = FALSE
              /\ wpc' = "exit"
              /\ wNum' = wNum
         ELSE /\ wNum' = wNum + 1
              /\ wpc' = "exec"
              /\ stop' = stop
    /\ UNCHANGED <<mainVars, ring, numBackup, backupVars, conns, failMode, ok,
                   tables, results>>

WorkerTake ==
    /\ wpc = "wait"
    /\ numWorker > 0
    /\ numWorker' = numWorker - 1
    /\ wcur' = ring[wNum % Size]
    /\ IF wcur' = NoQuery
         THEN /\ stop' = FALSE
              /\ wpc' = "exit"
              /\ UNCHANGED <<ring, wNum>>
         ELSE /\ ring' = [ring EXCEPT ![wNum % Size] = NoQuery]
              /\ wNum' = wNum + 1
              /\ wpc' = "exec"
              /\ stop' = stop
    /\ UNCHANGED <<mainVars, numBackup, backupVars, conns, failMode, ok, tables,
                   results>>

\* A read is dismissed during a shutdown and in fail mode; otherwise some
\* read server answers, or none.
WorkerRead ==
    /\ wpc = "exec"
    /\ Kind[wcur] = "read"
    /\ \E answered \in BOOLEAN :
          /\ answered => "addRead" \in conns /\ ~stop /\ ~failMode
          /\ ok' = answered
          /\ failMode' = (failMode \/ ~answered)
    /\ wpc' = "publish"
    /\ UNCHANGED <<mainVars, queueVars, backupVars, wNum, wcur, conns, tables,
                   results>>

\* NORMAL on the write server.  A server that commits and then loses the
\* connection has the row although the call fails.
WorkerWrite ==
    /\ wpc = "exec"
    /\ IsWrite(wcur)
    /\ LET skip == "addBackup" \in conns /\ (stop \/ failMode)
       IN  IF skip \/ "addWrite" \notin conns
             THEN ok' = FALSE /\ remote' = remote
             ELSE \/ ok' = TRUE  /\ remote' = remote \cup {wcur}
                  \/ ok' = FALSE /\ remote' \in {remote, remote \cup {wcur}}
    /\ failMode' = (failMode \/ ~ok')
    /\ wpc' = IF "addBackup" \notin conns THEN "publish"
              ELSE IF ok' THEN "unbackup" ELSE "keep"
    /\ UNCHANGED <<mainVars, queueVars, backupVars, wNum, wcur, conns, tmp, main,
                   results>>

\* NORMAL_SUCCEEDED removes the copy from the "_backup" table, or fails to.
WorkerUnbackup ==
    /\ wpc = "unbackup"
    /\ tmp' \in {tmp, tmp \ {wcur}}
    /\ wpc' = "publish"
    /\ UNCHANGED <<mainVars, queueVars, backupVars, wNum, wcur, conns, failMode, ok,
                   remote, main, results>>

\* Mutant: NORMAL_FAILED deletes the copy before it inserts it.
WorkerKeep_DeleteFirst ==
    /\ wpc = "keep"
    /\ tmp' = tmp \ {wcur}
    /\ wpc' = "keepDelete"
    /\ UNCHANGED <<mainVars, queueVars, backupVars, wNum, wcur, conns, failMode, ok,
                   remote, main, results>>

\* NORMAL_FAILED, first statement: copy the row to the table without suffix.
WorkerKeep ==
    /\ wpc = "keep"
    /\ \/ wpc' = "publish" /\ main' = main
       \/ wpc' = "keepDelete" /\ main' = main \cup (tmp \cap {wcur})
    /\ UNCHANGED <<mainVars, queueVars, backupVars, wNum, wcur, conns, failMode, ok,
                   remote, tmp, results>>

\* Second statement: delete it from the "_backup" table.  Only now the call
\* returns true.
WorkerKeepDelete ==
    /\ wpc = "keepDelete"
    /\ \/ ok' = FALSE /\ tmp' = tmp
       \/ ok' = TRUE  /\ tmp' = tmp \ {wcur}
    /\ wpc' = "publish"
    /\ UNCHANGED <<mainVars, queueVars, backupVars, wNum, wcur, conns, failMode,
                   remote, main, results>>

\* ADD_SQLITE and ADD_MYSQL.
WorkerAdd ==
    /\ wpc = "exec"
    /\ ~HasResult(wcur)
    /\ conns' = conns \cup {Kind[wcur]}
    /\ ok' = TRUE
    /\ wcur' = NoQuery
    /\ wpc' = "loop"
    /\ UNCHANGED <<mainVars, queueVars, backupVars, wNum, failMode, tables, results>>

\* m_Success is written before the atomic m_Completed.
WorkerPublish ==
    /\ wpc = "publish"
    /\ success' = [success EXCEPT ![wcur] = ok]
    /\ wpc' = "complete"
    /\ UNCHANGED <<mainVars, queueVars, backupVars, wNum, wcur, conns, failMode, ok,
                   tables, completed>>

WorkerComplete ==
    /\ wpc = "complete"
    /\ completed' = [completed EXCEPT ![wcur] = TRUE]
    /\ wcur' = NoQuery
    /\ wpc' = "loop"
    /\ UNCHANGED <<mainVars, queueVars, backupVars, wNum, conns, failMode, ok, tables,
                   success>>

-----------------------------------------------------------------------------

Backup == BackupTake \/ BackupExec \/ BackupPass \/ BackupLeave

Worker ==
    \/ WorkerLoop \/ WorkerTake \/ WorkerRead \/ WorkerWrite \/ WorkerUnbackup
    \/ WorkerKeep \/ WorkerKeepDelete \/ WorkerAdd \/ WorkerPublish
    \/ WorkerComplete

Next ==
    \/ \E q \in Queries : Submit(q)
    \/ OnShutdown \/ ShutdownSeen \/ Destroy
    \/ Backup
    \/ Worker

Spec == Init /\ [][Next]_vars

\* Both threads are scheduled, and the main thread carries on in OnShutdown
\* and in the destructor; when to submit and when to stop is its own choice.
Fairness ==
    /\ WF_vars(Backup)
    /\ WF_vars(Worker)
    /\ WF_vars(ShutdownSeen \/ Destroy)

FairSpec == Spec /\ Fairness

-----------------------------------------------------------------------------

BackupPcs == {"wait", "exec", "pass", "leave", "exit"}
WorkerPcs == {"loop", "wait", "exec", "unbackup", "keep", "keepDelete", "publish",
              "complete", "exit"}

TypeOK ==
    /\ log \in Seq(Queries)
    /\ ring \in [0..(Size - 1) -> Queries \cup {NoQuery}]
    /\ numBackup \in Nat /\ numWorker \in Nat
    /\ stop \in BOOLEAN
    /\ mpc \in {"run", "poll", "join", "down"}
    /\ bpc \in BackupPcs /\ bNum \in Nat
    /\ bcur \in Queries \cup {NoQuery} /\ bConn \in BOOLEAN
    /\ wpc \in WorkerPcs /\ wNum \in Nat
    /\ wcur \in Queries \cup {NoQuery} /\ conns \subseteq Kinds
    /\ failMode \in BOOLEAN /\ ok \in BOOLEAN
    /\ remote \subseteq Queries /\ tmp \subseteq Queries /\ main \subseteq Queries
    /\ success \in [Queries -> BOOLEAN]
    /\ completed \in [Queries -> BOOLEAN]

\* Both threads work through the queries in the order they were submitted,
\* skipping none and repeating none, and the worker never reaches a query
\* before the backup thread has passed it on.
InOrder ==
    /\ wNum <= bNum /\ bNum <= Len(log)
    /\ bcur # NoQuery => bNum < Len(log) /\ bcur = log[bNum + 1]
    /\ wcur # NoQuery => wNum > 0 /\ wcur = log[wNum]

\* "This is done to not loose ranks when the server shuts down": a row that is
\* stored somewhere is stored somewhere after every single step, so also if
\* the process ends there.
NoRankLost ==
    [][\A q \in remote \cup tmp \cup main : q \in remote' \cup tmp' \cup main']_vars

\* "the main thread must only access the remaining result data if set to
\* true": what it finds then is final.
ResultFinal ==
    [][\A q \in Queries : completed[q] => /\ completed'[q]
                                          /\ success'[q] = success[q]]_vars

\* "work through all database jobs after OnShutdown is called before exiting
\* the thread": when the worker has left, every query has its result.
ExitAfterAllJobs ==
    wpc = "exit" => /\ mpc # "run"
                    /\ \A q \in submitted : HasResult(q) => completed[q]

\* The pool goes down: OnShutdown returns and both threads can be joined.
GoesDown == mpc = "poll" ~> mpc = "down"

\* Every query gets a result, shutdown or not.
Answered == \A q \in Queries : q \in submitted /\ HasResult(q) ~> completed[q]
=============================================================================
