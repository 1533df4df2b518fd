# Verification of the kaizo-insta server

Kaizo-insta is a fork of the DDNet-insta game server for Teeworlds clients, with
its client, editor and tools. This directory holds TLA+ models of the parts of
the server, and of the master server and the client where they answer it, whose
correctness depends on the order of events: threads, networks, timers, callbacks,
several servers with one database. TLC checks them on small instances, and TLAPS proves for
every value of the constants all of the safety properties that TLC checks, those of two
modules under a hypothesis on how much is under way, which section 5 states.

Paths such as `jobs.cpp` are below `src/src/`; `PROJECT.json` gives, for every
definition, the file and the lines it stands for.

## 1. The system

One process, one main thread. `CServer::Run` (`engine/server/server.cpp`) is a
loop: advance the game tick, send snapshots, read the network, poll what other
threads have finished. Beside it run

- the workers of the job pool (`engine/shared/jobs.cpp`),
- a database worker and a backup thread
  (`engine/server/databases/connection_pool.cpp`),
- the HTTP thread (`engine/shared/http.cpp`).

The main thread hands work to them and polls the results: it holds a shared
pointer to a job or a result object, and reads it when an atomic says that it is
finished. Players are remote processes over UDP, which loses, repeats and
reorders packets. The server's state lives in slots, one per client, which several
layers index by the same number: `CNetServer` (connection), `CServer` (client),
`CGameContext` (player).

| component | state | operations | works with | hard behaviour | what makes it correct |
|---|---|---|---|---|---|
| **Job pool** `shared/jobs.cpp` | job list, state of each job, semaphore, running jobs | `Add`, `Abort`, `Shutdown`, worker loop | HTTP uploads, register, DNSBL lookups | workers and owner interleave, abort against finish, shutdown against sleep | no job is lost or run twice, aborts stick, unabortable jobs complete, shutdown returns |
| **Database pool** `databases/connection_pool.cpp` | ring of 512 queries, two semaphores, positions of two threads, fail mode | `Execute`, `ExecuteWrite`, `Register*`, `OnShutdown`, two loops | score and rank writers, main thread polling results | two threads over one ring, database failure, process killed between statements | in order, none skipped, no rank lost, results final, all done at exit |
| **Rank writers** `instagib/sql_stats.cpp`, `scoreworker.cpp` | rows remote and in the backup file | one function per query, called in four modes | database pool | partial failure between two statements | a row is always in at least one table |
| **Vital chunks** `network_conn.cpp`, `network.cpp` | sequence, ack, resend buffer, packet under construction | `QueueChunk`, `Flush`, `Feed`, `Update`, `FetchChunk` | both ends of a connection | loss, duplication, reordering, wrap-around of numbers | exactly once, in order, and in the end |
| **Server connections** `network_server.cpp`, `network_client.cpp` | a connection per slot, half-read packet | token handshake, `Update`, `Drop`, `SetTimedOut` | `CServer` callbacks, `/timeout` command | reconnects, late messages, take-over of a slot while it is being read | slot tables agree, one slot per address, limits hold, a tee belongs to its player |
| **Client life cycle** `server.cpp` | `CClient::m_State`, map download, rcon, snapshots | `ProcessClientPacket`, callbacks, `Kick`, `SetTimedOut` | all of the above | messages of a state that is over | no message acts on a client in the wrong state |
| **Snapshot ids** `snap_id_pool.cpp` | two lists through one array | `NewId`, `FreeId`, `TimeoutIds` | every entity | long sequences of calls, a clock narrower than time | an id has one holder, none is lost |
| **Snapshots** `snapshot.cpp`, `server.cpp`, client `client.cpp` | stored snapshots on both ends, the acknowledged tick, the parts of the snapshot being received | `DoSnapshot`, `NETMSG_SNAP*`, `NETMSG_INPUT`, `Add`, `Get`, `PurgeUntil` | network, entities | neither snapshots nor acknowledgements are vital; a base purged before use; the client enters again | both ends mean the same base, what is shown is held, the client catches up |
| **Ring buffer** `ringbuffer.cpp` | blocks in a piece of memory, produce and consume pointers | `Allocate`, `PopFirst`, `Clear`, walks | resend buffer, console, chat, log | wrap-around, merging of free blocks, giving up old items | blocks tile the memory, the contents are a queue |
| **Registration** `register.cpp` | challenge token, status and timer of each protocol, serials of the info | challenge, heartbeat, new info, deletion | HTTP, job pool, master server | answers out of order, late requests, a crash, a new life | the newest answer counts, the list comes to be right |
| **Master server** `mastersrv/src/main.rs` | addresses and servers, two maps | register, delete, expiry | game servers | requests of several lives of a server | the maps agree, infos do not get older |
| **HTTP** `http.cpp` | queue and running requests | `Run`, `Abort`, `Shutdown` | main thread, libcurl | thread against owner | every request is completed once |
| **Bans** `netban.cpp` | two lists threaded through one pool | `Ban`, `Unban`, `Update` | connections | expiry order | the first to expire is first in its list |
| **DDRace teams** `teams.cpp`, `save.cpp` | team of each player, state of each team, save in progress | join, leave, die, `Save`, `Load` | characters, database results | result arrives for a team that has changed | a team's progress is neither lost nor multiplied |
| **Score and save workers** `scoreworker.cpp`, `score.cpp` | rows of savegames in the shared database and in the server's file | `SaveTeam`, `LoadTeam` in each mode of the pool | database pool, other servers | lost answers, codes taken meanwhile, two loads of one code | a code that was announced works |
| **Game states** `gamecontroller.cpp`, `instagib/gamecontroller.cpp` | warmup, countdown, paused, running, end; who is ready | `SetGameState` by timer, command, ready change, join, leave | players, modes | two sets of timers; players and administrators in any order | timers and states agree, a pause ends, a round ends by what was played in it |
| **Game modes** `gamemodes/` | scores, flags, lives, the bomb | events of the game | game states | player leaves as the holder | one flag, one winner |
| **Votes, chat, mutes** `gamecontext.cpp`, `mutes.cpp` | vote in progress | call, vote, close | players | caller leaves | each address votes once |
| **Remote console** `econ.cpp`, `network_console*.cpp` | TCP lines | login, command | console | bans after wrong passwords | |
| **Demos, teehistorian** `demo.cpp`, `teehistorian.cpp` | files | record a tick | snapshots | order of key frames | a recording replays |

The rest of the repository (client, editor, physics, parsers, drivers, packing,
tools, bindings, vendored code) is listed with reasons in `PROJECT.json` and in
section 8.

## 2. Plan

In the order in which they are, or are to be, written:

| | module | what it models | abstract specification | theorems |
|---|---|---|---|---|
| done | `JobPool` | the job pool | | `JobPoolProofs` |
| done | `DbPool` | the database pool and a rank written through it | | `SequenceNumberProofs` |
| done | `NetChannel` | vital chunks, both ends | `ReliableLink` | `SequenceNumberProofs` |
| done | `SnapIdPool` | snapshot ids | `IdPool` | `LinkedListProofs` |
| done | `NetSession` | connections, slots, reconnects, `/timeout` | | `NetSessionProofs` |
| done | `RingBuffer` | blocks and pointers of a ring buffer | `Fifo` | `LinkedListProofs` |
| done | `Registration` on `Master` | a game server, its requests and the master's list | | `RegistrationProofs` |
| done | `Rounds` | states of a game, timers, ready players | | `RoundsProofs` |
| done | `Snapshots` | snapshots and acknowledgements, both ends | | `SnapshotsProofs` |
| done | `TeamSaves` | saving and loading a team, servers with one database | | `TeamSavesProofs` |
| 1 | `NetHandover` | `SetTimedOut` on top of `NetChannel`: resend buffer, stale `m_PeerAck` and packet under construction | `ReliableLink` for the new owner | the buffer covers what is not acknowledged |
| 2 | `ClientLife` | EMPTY to INGAME in `server.cpp`, map download, change of the map; composed with `NetSession` through the callbacks | the slot table of `NetSession` | states and slots agree |
| 3 | `Ctf`, `Lms`, `Bomb` on `Rounds` | rules of the modes | | |
| 4 | `Http`, `NetBan`, `Votes` | as above | | |

`SequenceNumberProofs` and `LinkedListProofs` each serve two modules, which share their
arithmetic and their induction.

Questions that belong to one instance are asked by one run, safety and liveness
together, and the type invariant of a module is checked as a part of its first
safety property, so that the number of runs and properties stays small.

## 3. The modules

**JobPool.** One step per access to shared memory. A worker is at one of nine
places of `RunLoop`; the owner at one of seven of `Add` and `Shutdown`. The list
is the set `queue` ordered by the history `log`. `Fetch` is the critical section
of `jobs.cpp:70-83`; `Start` is the compare-exchange QUEUED to RUNNING; `Register`
and `Unregister` keep `m_RunningJobs`; `Finish` is the compare-exchange RUNNING to
DONE, which leaves ABORTED alone. `Abort` stores unconditionally, as the code does.
All owner operations are those of one thread, because every caller in the
repository is the main thread.

**DbPool.** `log` is the history of queries, so that `m_InsertIdx` is its length
modulo `Size`; `bNum` and `wNum` are the `JobNum` of the two threads. The backup
thread sees each query first (`BackupTake`, `BackupExec`), signals the worker
(`BackupPass`) and ends when it finds an empty slot (`BackupLeave`). `WorkerTake`
moves the query out of the ring. `WorkerRead`, `WorkerWrite`, `WorkerUnbackup`,
`WorkerKeep` and `WorkerKeepDelete` are the branches of the worker's switch with
the statements of `CSqlStats::SaveFastcapWorker`: one statement per step, since
none of them runs in a transaction, so that the properties about the tables also
speak of a process killed between two statements. Each statement may fail; a
remote write may be committed and its confirmation lost. `WorkerPublish` and
`WorkerComplete` are the two stores the polling main thread depends on.

**NetChannel** and **ReliableLink.** Chunks and acknowledgements are positions in
the sender's stream; every comparison the code makes is made on `Num`, the
position modulo `MaxSeq`. `QueueChunk` includes the flush of a full packet and the
failure to keep the chunk. `Recv` is `Feed`: validity of the acknowledgement, the
requested resend, the removal of acknowledged chunks, in that order.
`FetchChunk` takes one chunk of the packet. `Flush`, `ResendOldest` and
`KeepAlive` are the parts of `Update` and of the periodic flush. The network is a
set of packets; a packet may be received and kept, received and gone, or lost. It
keeps at most `MaxNet` per end, and a packet is gone before the numbers it
carries are used again. `ReliableLink` is the promise: each end gets the
chunks of the other one in order, each once. `LinkSpec` is the refinement, with
`queued` and `got` as they are.

**SnapIdPool** and **IdPool.** The array of ids with the links threaded through it,
step by step: `NewId` first frees the timed ids that have expired (`NewIdExpire`,
which is `RemoveFirstTimeout`), then takes from the free list (`NewIdTake`) or
fails (`NewIdNone`); `TimeoutIds` frees all; `FreeId` appends to the timed list.
`AsInt` is the conversion to the `int` member `m_Timeout`. `IdPool` is the promise,
with the walk along the timed list as the order of the resting ids.

**NetSession.** Clients connect, talk, disconnect, time out and connect again;
the server's slots are offline, online or in error; `app` is the state of the
client that `CServer` keeps in the same slot, `code` the timeout code of its
player. `ServerRecv` is one turn of `CNetServer::Recv`, with the three control
messages and packets of chunks. A packet of chunks is read chunk by chunk
(`unpack`), and between two chunks the program may drop the slot (`Kick`) or hand
it over (`ConTimeout`, which calls `SetTimedOut`). `Update(T, P)` is
`CNetServer::Update` when the connections of `T` have been silent for too long and the
protection of those of `P` is over, with the callbacks of `CServer`. Tokens are a function of the address,
so a message carries only who sent it; its `epoch` is a history variable that
no guard looks at.

**RingBuffer** and **Fifo.** The blocks are a function from addresses, in units of
`sizeof(CItem)`, to records with the links, the size and the item of `CItem`. One action
per call: `Allocate` with the pops of FLAG_RECYCLE (`Recycled`), the choice of the
block (`Place`) and its split; `PopFirst` with its walk and its merges, and the item
that the callback is given; `Clear`. Loops are functions over the number of turns, of
which there are at most as many as blocks. `Fifo` is the promise, with the items between
`m_pConsume` and `m_pProduce` as its queue.

**Registration** and **Master.** `Master` holds the pure functions of `Servers`: `Added`,
`Removed`, `Pruned` on two maps. `Registration` composes a game server with it. A
request is a record at one of the stages of its job: sent, answered, noted under the lock
of the protocol (`NoteStatus`), noted under the lock of the serials (`NoteSerial`); a
step of another thread may come between any two. `Update`, `OnToken`, `OnNewInfo`,
`OnConfigChange` and `OnShutdown` are the calls of the main thread with every
`SendRegister` they make. Request indices are kept as ages relative to the newest
request, tokens as the number of reseeds of the master since, times as whether
they are over. A server may crash and start again with a new secret; the master may
restart; requests may fail on their way there or back. A reseed of the
master (every hour) is free when the registrations are at rest.

**Rounds.** The game is one record, and `SetGameState` one operator for each state it is
asked for (`Run`, `CountDown`, `WarmupForever`, `WarmupFor`, `Pause`, `Unpause`, `EndRound`),
so that a tick is a composition of functions in the order of the code: the reset of the
world, the timer of the state, the timers of old clients, the forced unpause, the win
check. Players connect, enter, change teams, get ready, die, score and leave;
the administrator pauses, restarts, ends a warmup, forces somebody ready, and turns
ready mode on and off. A tick of the model is a second.

**Snapshots.** One client. A tick is an age, the number of ticks since. The server's tick
(`DoSnapshot`, or `SkipTick` at a lower rate) purges, chooses the base among what is left and
sends the parts; `OnSnap` is the handler of a part at the client, with the purge, the
acknowledgement and the request to start afresh; `Advance` and `Predict` are the parts of
the client's frame that move the two shown snapshots and send an input; `OnInput` is
the server's handler. What a snapshot holds is abstracted to whether it is what the server
sent for that tick. `Reenter` is a client that is reset on both ends while messages are
under way.

**TeamSaves.** The progress of one team, through the games and request slots of
several servers, the shared table of savegames and the two tables of each server's
file. `SaveFirst`, `SaveNormal` and `SaveAfter` are `CScoreWorker::SaveTeam` in the modes
of the pool, `LoadSelect`, `LoadDelete` and `LoadFile` are `LoadTeam` (the SELECT and the DELETE
are two steps, since other servers act in between). Each statement may
fail, and on the shared database it may also take effect and its answer be lost.
`ProcessSaveTeam` is the tick that reads the result. Meanwhile players join, leave
and die, the map is reset and servers crash.

MC modules hold only the values of constants that a `.cfg` file cannot express.
An operator whose comment starts with *Mutant* is a variant of the one that follows
it, as a plausible mistake would have it; no specification uses it. Each property
is violated when the mutant listed for it in `PROJECT.json` takes the place of the
definition.

## 4. The runs

| run | instance | shows |
|---|---|---|
| `job_pool` | 3 jobs, one of them not abortable, 2 workers | a job has one holder and a listed one is always served; unabortable jobs are complete at shutdown; aborts are final; every job ends; `Shutdown` returns |
| `db_pool` | 5 queries (3 databases, a write, a read) in any order, ring of 3, at most 2 pending | order, exit after all queries, no rank lost, results final, shutdown comes to its end, every query is answered |
| `net_channel_safety` | 7 chunks over 6 numbers, 2 packets held per end, resend buffer of 2 | refinement of `ReliableLink`; no chunk forgotten |
| `net_channel_live` | 3 chunks, 2 to a packet, resend buffer of 2 | each chunk is delivered unless the resend buffer was full |
| `snap_id_pool_safety` | 3 ids, clock of 6 ticks, `m_Timeout` of 8 values | one holder, exact lists, refinement of `IdPool` |
| `net_session_safety` | 3 clients, 2 slots, 1 per address, 2 chunks to a packet | the limit per address holds, chunks are attributed to their sender, protected tees stay with their player |
| `net_session_reconnect` | 2 clients, one connects twice, 2 slots | both slot tables agree, no slot stays in error |
| `registration` | 2 protocols, one of them not challenged, 2 lives, 2 infos, up to 2 requests in flight, one interference | the master's maps agree, its info never gets older, the status is that of the newest answer, and the list comes to be right and stays so |
| `ring_buffer` | 8 units, items of 1, 2, 4, 8 units and one too big, both policies | the blocks tile the memory, walks go through all items, refinement of `Fifo` |
| `rounds` | 2 players, a round is won by one point, all timers of 1 or 2 ticks, each configuration | timers and states agree, rounds end by points made in them, nobody is ready and waiting for nobody, no pause lasts for ever |
| `snapshots` | snapshots of up to 2 parts kept for a tick, messages up to a tick late, 2 under way each way, the client enters again once | the client holds what the server sent, in order; what it shows and acknowledges is held; it catches up |
| `team_saves` | 2 servers, one with a backup file, 2 players, 2 saves, a code that is taken, 2 failures, resets or crashes | one copy of the progress, announced codes work, the team stays together, the newest save is kept |

### Bounds, and why they are enough

- *JobPool*: two workers are needed for a job to be taken behind the back of
  the other; of three jobs one is unabortable and two are abortable, so that the
  two walks of `Shutdown` each find some and none. Nothing is capped: the number
  of jobs bounds the state space.
- *DbPool*: the ring wraps around with the fourth query; `MaxPending < Size` is the
  case the code assumes. `Answered` for a read needs the read server to be there or
  not, which the order of submission decides. Two rows do not interact, so one
  write suffices; that a write meets the fail mode of an earlier query is covered by
  the read.
- *NetChannel*: `MaxSeq` 6 and 7 chunks make numbers be used twice. `Window` 2 is below
  half the numbers (3 here, 512 in the code), which holds as long as a sender hears
  acknowledgements in time; section 7 says what happens beyond. `MaxNet` 2 lets packets overtake each other.
  The live run has its own bounds: more chunks than the resend buffer holds, and
  packets of two chunks. Both instances have traffic in one direction only for chunks and
  both directions for acknowledgements; the two directions share nothing but
  the packet.
- *SnapIdPool*: a list of three has a first, a last and a middle. The clock passes the
  width of `m_Timeout` at a scale of 2^29 ns per tick.
- *NetSession*: two slots, and one client more than fits, or one client that
  comes back before its old slot is freed. `MaxNet` 1 keeps one message while others
  pass, which is what a late or repeated message is.

- *RingBuffer*: eight units hold up to eight blocks, so that blocks are split, left
  one unit too big, merged on both sides and reached by wrapping around. Every item size
  meets every layout: 8,032 states, without a bound besides the memory.
- *Registration*: a second protocol is needed for the two to disagree about which info the
  master has; a second life for leftovers of the first. `MaxTrouble` bounds how often something goes
  wrong in one behaviour (a failed request, a crash, a shutdown, a changed
  configuration, a master that restarts, a late timer): one, in 930,072 states. `Configs` are the
  values of `sv_register` that turn off either protocol.
  `MaxFlight` and `MaxAge` let an older answer of the protocol that is not challenged come after a newer one. `MaxBehind` stands for
  the 30 seconds of the master, which are two registrations.
- *Rounds*: two players are the least with one who leads and one who is waited for;
  three were checked once. Scores go up to one more than the limit.
- *Snapshots*: `Keep` stands for the three seconds of the server, `Old` for any tick that no
  message mentions. With messages as late as the server keeps snapshots, a base is purged
  while a message naming it is under way; `Keep` 2 was checked once.
- *TeamSaves*: two saves let the second meet the code, the rows and the late load of the
  first. Players are interchangeable (SYMMETRY on `Names`; the run has no liveness).
  Two failures are enough for a statement to fail after an answer was lost or after
  a crash.

### Fairness

- `JobPool`: each worker is scheduled, `IJob::Run` returns, and the owner finishes
  an `Add` or `Shutdown` it has begun. It need not begin any.
- `DbPool`: both threads are scheduled and statements return; the main thread
  finishes the shutdown it has begun.
- `NetChannel`: `Update` and the flush run again and again (the main loop calls
  them in every turn), so weak fairness for each of their parts; `FetchChunk` is called
  until the packet is used up, before another one is read (`Prompt`). A packet
  with a certain content that is sent over and over is received at times (strong
  fairness): without that nothing can be promised over UDP.
- `NetSession`: the chunks of a packet are read to the end, and the loop calls
  `Update` again and again with time going by, so that the protection of a slot
  ends. `Update` runs only between packets and is enabled again and again, hence
  strong fairness. Nothing is assumed of clients or of the network.

- `Registration`: the server's loop, the timers of each protocol, the jobs and the master
  go on, and the master prunes what is too old. Interferences are few: `MaxTrouble` and
  `MaxSerial` make them end, which is what "comes to be right" needs.
- `Rounds`: the server ticks. Nothing is assumed of players or administrators.
- `Snapshots`: the client's frames go on (`Advance`); again and again a snapshot passes
  the network as a whole and its parts are received, and so does an input (strong
  fairness). Nothing less would do over UDP.
- The other modules have safety properties only.

Deadlock is checked for `JobPool`, `SnapIdPool`, `RingBuffer`, `Rounds` and `Snapshots`. The
others have `CHECK_DEADLOCK FALSE`: they come to an end when the pool is down,
when all chunks of the bound are queued and acknowledged, when no client connects
any more, when the last life of the server is over and its entries are gone, or when
the team has used up its saves.

## 5. What is proved

tlapm checks every proof to its leaves. An inductive invariant is stated for
each module (`IInv`, `ChannelInv`, `RingQueue`), with one lemma per action or group of actions.
Every invariant, action property and refinement that a run checks is a theorem.

**JobPoolProofs**, for any set of jobs and any finite set of workers, from
`JobPoolAssumption`. The properties are not inductive: that all unabortable jobs are
done at shutdown depends on no job being left in the list, and that on the
semaphore. `IInv` adds that while jobs are accepted, listed jobs = tokens + workers
on their way + the signal about to be sent (`TokensExact`), that a worker that
found the list empty did so in a shutdown (`IdleMeansEmpty`), and where each
unabortable job is (`Progress`). Theorems: `TypeCorrect`, `NoLostWakeup`,
`RunByOne`, both together as the checked property in `ListAlwaysServed`, `LeaveEmpty`, `UnabortableJobsRun`, `AbortsStick`.

**SequenceNumberProofs** of `DbPool`, for a ring of any length, any queries and any outcome of their
statements, from `DbPoolAssumption` and the hypothesis `Room`: fewer queries are
pending than the ring has slots. The code does not ensure `Room`, and the theorems
need it (section 7). `IInv` says that the ring holds
the queries between worker and main thread, at their positions modulo its length,
and nothing else (`RingExact`); that each semaphore counts exactly the queries ahead
of its thread and the signal of the end (`BackupAt`, `WorkerAt`); that all behind
the worker is answered and nothing before it is (`AllDone`, `DoneBehind`); and that
a row on its way between two tables has reached the one it goes to (`RowMoves`). The
arithmetic is `ModInjective`: positions less than a ring apart have different
slots. So a thread that finds an empty slot has come to the end (`EndEmpty`), from
which `ExitsWhenDone` follows. Theorems: `Invariance`, `TypeCorrect`, `WorkInOrder`,
`ExitsWhenDone`, `RanksKept`, `ResultsFinal`.

**SequenceNumberProofs** of `NetChannel`, for two ends and any number of chunks, capacity of
the resend buffer, size of a packet and number of packets under way, from
`NetChannelAssumption` and the hypothesis `InNumbers`: `Window`, the number of chunks
that a sender may be ahead of the acknowledgements, is less than half of the numbers,
and together with a packet (`PackMax`) less than all of them. The code has 1024 numbers, and fewer than 350
chunks fit in a packet, each having a header of three bytes and some content; but it does not
bound the window (section 7, 3.), so that the theorems say what holds as long as acknowledgements come in time. `ChannelInv` relates
positions, which only grow, where the code has numbers: what an end was acknowledged, its
peer has got and it has queued come in this order and within the window (`Acknowledged`); what
was given to the program is the stream up to `ack` (`GotPrefix`); the resend buffer is in
order and misses nothing that is not acknowledged but what found no room (`BufferExact`); and
what is in a packet under construction, on the network, half read or asked for is so recent
that its number means no other position (`PackRecent`, `PacketsRecent`, `AcksRecent`, `InboxRecent`).
So each comparison on numbers, `IsSeqInBackroom` above all, gives the answer for positions. Theorems:
`ChannelInvariance`, `NothingForgottenAlways`, and `ChannelIsReliable`: the connection
implements `ReliableLink`.

**LinkedListProofs** of `SnapIdPool`, for any number of ids, any width of `m_Timeout` and any clock,
from `SnapIdPoolAssumption`. That the lists hold the right ids is a statement
about walks. Its local form is inductive and enough for `IdsExclusive` and `CountsRight`: every
link of a list stays among the ids marked with its state, no two links meet, none leads back
to the first, and only the last timed id leads nowhere (`Threaded`, `Ended`). For the walks
themselves, `Chained` says that each list is a sequence of its ids without
repetition whose links are those of the array. Taking the first id (`FirstLeaves`), putting
one in front (`FirstComes`) and appending one (`LastComes`) keep such a sequence, and a walk along
the links yields it (`WalkOfList`; that the function which walks is what its recursive
definition says is shown by the least number at which it would not be, `NthOfList`).
From it follow `ListsAlwaysExact` and, the sequence being the order of the resting ids of
`IdPool`, `ImplementsPool`: the array is a pool. Theorems: `TypeCorrect`, `IdsExclusive`,
`CountsRight`, `ListsAlwaysExact`, `ImplementsPool`.

**LinkedListProofs** of `RingBuffer`, for a memory of any length, any items and sizes, from
the three assumptions of the module. `Shape` says that the blocks do not overlap, that each
ends where the next begins, and that the links go both ways; `NoPair` that no two free
blocks are next to one another, which is what `MergeBack` is for and what lets the loop of
`PopFirst` end after two blocks (`WalkedIs`). A cut (`CutShape`), a merge (`MergeShape`) and another item
in a block (`ItemSet`) keep them, except that a pop leaves one pair to be joined for a moment
(`OnlyPair`). From these follows `AlwaysTiles`. For the order of the items, `Queue` says
that the blocks in use are a sequence without repetition from `m_pConsume` to `m_pProduce`,
each one before the next, or before one free block at the end of the memory which was
too small for the next item (`Follows`). A pop takes the first of the
sequence (`PoppedIs`), `FLAG_RECYCLE` as many as it needs and no more (`RecycledQueue`), an item stored becomes the
last (`StoredQueue`). The places in the memory, seen from `m_pConsume` round, have the same order
(`AheadUp`), so that the items of the sequence are the contents (`ContentsIs`); and `Next` and `Prev` go along it
(`SkipNext`, `SkipPrev`). The recursive functions of the model, the loops of the code, are treated as that
of `SnapIdPool`. Theorems: `RingShapeInvariance`, `AlwaysTiles`, `AlwaysWalksBothWays`, and
`RingIsFifo`: the buffer implements `Fifo`.

**RoundsProofs**, for any players, timers and score limits, from `RoundsAssumption`. Each
operator that sets the state of the game has a lemma: it gives a game whose timers
agree, and it neither drops a pending reset, nor scores, nor ends a round (`Kept`). A tick is
then the composition of such lemmas. The invariant has `TimersAgree` and, beside it, `Ledger`: the
scores are the points earned in this round, unless a reset is pending, when none are
earned. Without it a round could end by the scores of the one before. Theorems:
`TimersAgreeAlways`, and as properties of every step `EndsByPlayAlways` and `WaitsForSomebodyAlways`.

**NetSessionProofs**, for any clients and timeout codes, any number of slots and any limit per
address, from `NetSessionAssumption`. The properties need each other. The chunks of a packet
belong to who sent it since no packet is read while some are left (`ReadingOne`: their slot is
online for their sender, or dropped); so a slot that hands its connection over is online, which keeps
addresses apart (`OneEach`) and, the taker having the same address, the count of each
network (`PerIpHolds`); and a code is set only by a client that plays (`CodesKnown`). Theorems:
`SlotsAlwaysAgree`, `PerIpAlwaysHolds`, `ChunksAlwaysAttributed`, `TeeAlwaysOwned`.

**RegistrationProofs**, for any protocols, configurations and bounds, from
`RegistrationAssumption`. `AddedAgrees`, `RemovedAgrees`, `PrunedAgrees` and `OlderAgrees` are about
`Master` alone: its two maps agree after each of its functions when they agreed before. The
invariant says of the game server that every request is of this life or an earlier one (`Lived`), that no
two of a protocol have the same age (`OneOfAge`), that the newest answer that was noted
belongs to a request which is not open any more (`Noted`), that the entry of the
newest request stands for one that was accepted (`Accepted`), and then that the status is that
of its answer (`StatusTrue`). Theorems: `ListsAlwaysAgree`, `StatusAlwaysOfNewest`, and of every step
`InfoAlwaysAdvances`.

**SnapshotsProofs**, for any number of parts, any delay of messages and any time the
server keeps snapshots, from `SnapshotsAssumption`. A client takes a snapshot only when it is newer
than what it acknowledged; but when it has asked to start afresh it acknowledges nothing, and an
old message might come. `Reached` says that by then the tick it receives has passed the
newest snapshot it holds. With it the storage stays in the order of the ticks (`InOrder`), the two shown
snapshots stay inside it (`Filling`), and a base is found whenever the message was made for what is
held (`BaseHeld`). Theorems: `AlwaysFaithful`, `PointersAlwaysHeld`.

**TeamSavesProofs**, for any servers, players, codes and numbers of saves and failures, from the
four assumptions of the module: no player chooses the random phrase that is generated for
another save (`CodesAssumption`; it would be a collision of generated codes, see section 7), and
there is a name (`NamesAssumption`). A save is carried by its request until its row is written, also
when the backup has already told the players a code. The invariant says that a request to save has a
number of its own (`NumbersOwn`), that no row has this number before its insert (`NotYetWritten`), that what
players were told is written (`Written`), and that a deleted row counts as loaded
(`DeletedIsLoaded`). So an insert never meets a row of its code, and, unless the answer to an insert
was lost, there is one copy at most (`Single`): a team that plays, a request, a row or a
line of a file. Theorems: `TeamTogetherAlways`, `CodeAlwaysWorks`, `AtMostOnceAlways`, and of
every step `SavesKeptAlways`.

## 6. Only model-checked

- All liveness properties: they rest on fairness, which the prover does not treat. They are
  `JobsComplete` and `ShutdownReturns` of `JobPool`, `GoesDown` and `Answered` of `DbPool`,
  `Delivered` of `NetChannel`, `ErrorsEnd` of `NetSession`, `ComesToSettle` of
  `Registration`, `NeverFrozen` of `Rounds` and `CatchesUp` of `Snapshots`.
- That the code sees to it that `Room` and `InNumbers` hold is neither proved nor true (section 7, 2. and 3.).

## 7. Observations

Where the code and its documentation disagree:

1. `jobs.h:157` says that `Shutdown` aborts all abortable jobs. A worker that has taken
   a job off the list and has not yet pushed it to `m_RunningJobs` (`jobs.cpp:83-101`)
   holds it where neither walk looks; it runs to the end.
2. The database threads are to work through all jobs before they exit
   (`connection_pool.cpp:219`, `:296`). With more queries pending than slots, a query
   is overwritten (`:147`), and the hole the worker leaves is taken for the end. `DbPool`
   has `MaxPending` for this: with more than `Size` its properties fail.
3. `network.cpp:83` takes a chunk for an "old packet that we already got". A sender
   that is more than half the numbers ahead of the last acknowledgement, which nothing
   prevents, has new chunks discarded as old ones. `NetChannel` has `Window` for this.
4. `FreeId` asks for five seconds of rest, in an `int` that does not hold the clock
   (`snap_id_pool.h:27`). `NewId` reuses ids at once.
5. `network_server.cpp:447` takes an ACCEPT inside a session for a client that
   reconnects. A late copy of the ACCEPT that opened the session has the same effect,
   since the token depends on the address only.
6. `gamecontroller.h:1147-1154` says that `m_GamePauseStartTime` is -1 when the game is
   not paused; `SetGameState(IGS_GAME_PAUSED, 0)` leaves the present tick in it. The help of
   `sv_player_ready_mode` (`variables_insta.h:22`) says that ready states start the game
   on warmup, `instagib/gamecontroller.cpp:283` that they do not; that of
   `sv_tournament` (`variables_insta.h:125`) says "No other effects", but rounds are not
   casual under it (`base_pvp.cpp:108`).

What the models allow because the code does, although a reader may not expect it:

- *Ring buffer.* When no block is free, `Last`/`Prev` stop before the oldest item
  (`ringbuffer.cpp:174`); `WalksBothWays` says so.
- *Registration.* A challenge packet for a protocol that was turned off is acted upon
  (`OnPacket` does not look at `m_aProtocolEnabled`): the address may be listed again,
  until the master drops it after 30 seconds.
- *Rounds.* A pause asked for between a restart and the reset of the world in
  the next tick leaves everybody ready and the game paused, until somebody changes his ready state
  or `sv_force_ready_all` is over (excepted in `WaitsForSomebody`). Turning ready mode off in a
  pause leaves it to the administrator to end it (excepted in `NeverFrozen`). The command
  `pause` at the end of a round leaves `m_GameOverTick` set, and the new round is restarted by it.
  A spectator who connects during a pause may join the game unready. LMS and LTS
  (`lms.cpp:20-33`) set the same pause flag for themselves, outside the states.
- *TeamSaves.* A lost answer to the INSERT leaves two copies of a savegame, one to the
  DELETE none (excepted by `unsure`). A savegame that is being loaded is lost when
  the server crashes or resets, or everybody leaves, before `ProcessSaveTeam` sees the result
  (excepted in `SavesKept`). Two saves with the same generated code are not in the
  model (`Generated` is one to one); a collision after BACKUP_FIRST would leave a
  code announced that has no row (`scoreworker.cpp:1758-1763` is then not reached). The
  hint to hold the hook before loading (`teams.cpp:1030-1038`) looks at the first tee only.

## 8. What is not modelled, and why

- *Left for later*: everything in the plan above, and the handshakes of vanilla
  and 0.7 clients. `Print` of the database pool writes to the console and changes no
  state of the pool; its query kind is left out.
- *Left out of modelled components*: in `Registration` the parsing of packets and
  configuration, and of the master its dumps, bans and the lists of other masters;
  in `Rounds` the time limit, sudden death, teams with colours, dead spectators of LMS
  and the limit of one ready change per second; in `Snapshots` the delta and
  the checksum themselves, the tolerance for bad checksums, demos, 0.7 clients, and the restart of the ticks at a
  change of the map; in `TeamSaves` forced solo, practice, team 0 mode, swapping,
  the command `set_team_ddr` (which puts players into a saving team) and
  `scripts/move_sqlite.py`.
- *Data*: contents of messages, headers, compression, Huffman coding, file formats,
  configuration and console parsing. Pure functions with unit tests.
- *Numbers*: physics and collision are floating-point computations on maps, out of
  TLC's reach.
- *Other programs and layers*: client user interface, prediction and rendering, editor,
  tools, the operating-system layer in `base/`, bindings, vendored code: most of the
  repository's lines, with little in them that depends on an order of events. The
  client's end of a connection is in `NetChannel`, `NetSession` and `Snapshots`.
- *Database servers*: a statement is a step that succeeds, fails, or succeeds without
  our hearing of it.
- *Memory*: the models know no addresses. The ownership of jobs by `shared_ptr` and
  the buffers that `SetTimedOut` copies are not part of them; the latter is the
  subject of `NetHandover`.
