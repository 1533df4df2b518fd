---------------------------- MODULE Registration ----------------------------
(***************************************************************************)
(* A game server keeps itself listed at the master server: CRegister       *)
(* (engine/server/register.cpp) with one CProtocol for each address, the   *)
(* jobs that carry its requests, and the master (mastersrv/src/main.rs,    *)
(* its list in Master).  Each life of the game server has a secret of its  *)
(* own, so that lives and secrets are the same here.                       *)
(*                                                                         *)
(* Requests are answered in any order, by jobs of several threads.  Their  *)
(* indices only matter relative to each other: the age of a request is the *)
(* number of requests the protocol has made since.  The age of a challenge *)
(* token is the number of times the master has drawn a new seed since.     *)
(*                                                                         *)
(* Timers: due says that m_NextRegister has passed.  The refresh is after  *)
(* 15 seconds and the timeout of the master 30, hence an entry is pruned   *)
(* after two further registrations, or when the server sends none.         *)
(***************************************************************************)
EXTENDS Integers, FiniteSets, Functions

CONSTANTS
    Protocols,  \* of the four protocols, each at an address of its own
    Exempt,     \* those the master does not challenge (port_forward_check_exceptions)
    Configs,    \* the sets of protocols sv_register enables
    MaxLife,    \* bound: starts of the game server
    MaxSerial,  \* bound: infos in one life, counted from 0
    MaxAge,     \* bound: requests of a protocol between two in flight
    MaxFlight,  \* bound: requests in flight for one protocol
    MaxTrouble  \* bound: how often the environment interferes

Lives == 1..MaxLife
NoToken == 2        \* older than the seed before the present one: as good as none
Tokens == 0..NoToken
MaxBehind == 2

M == INSTANCE Master WITH Addrs <- Protocols, Secrets <- Lives

ASSUME RegistrationAssumption ==
    /\ Exempt \subseteq Protocols /\ Configs \subseteq SUBSET Protocols
    /\ MaxLife \in Nat \ {0} /\ MaxSerial \in Nat
    /\ MaxAge \in Nat /\ MaxFlight \in [Protocols -> Nat \ {0}] /\ MaxTrouble \in Nat

VARIABLES
    up,         \* the game server runs its main loop
    life,       \* m_Secret
    enabled,    \* m_aProtocolEnabled
    infoSerial, \* CGlobal::m_InfoSerial
    okSerial,   \* CGlobal::m_LatestSuccessfulInfoSerial
    due,        \* per protocol: m_NextRegister has passed
    token,      \* per protocol: m_aChallengeToken
    newToken,   \* per protocol: m_NewChallengeToken
    status,     \* per protocol: CShared::m_LatestResponseStatus
    last,       \* per protocol: the age of m_LatestResponseIndex
    reqs,       \* per protocol: its requests, with the jobs that carry them
    deletes,    \* requests to delete a registration
    chals,      \* per protocol: challenge packets on their way
    master,     \* the list of the master
    trouble     \* history: interferences so far

localVars  == <<up, life, enabled, infoSerial, okSerial, due, token, newToken>>
sharedVars == <<status, last>>
netVars    == <<reqs, deletes, chals>>
vars == <<localVars, sharedVars, netVars, master, trouble>>

Stages == {"sent", "ok", "needchallenge", "needinfo", "counted_ok", "counted_needinfo"}
Requests == [life : Lives, age : 0..MaxAge, serial : 0..MaxSerial, info : BOOLEAN,
             token : Tokens, stage : Stages]

Init ==
    /\ up = TRUE /\ life = 1 /\ infoSerial = 0 /\ okSerial = -1
    /\ enabled = [p \in Protocols |-> TRUE]
    /\ due = [p \in Protocols |-> TRUE]
    /\ token = [p \in Protocols |-> NoToken]
    /\ newToken = [p \in Protocols |-> FALSE]
    /\ status = [p \in Protocols |-> "none"]
    /\ last = [p \in Protocols |-> 0]
    /\ reqs = [p \in Protocols |-> {}]
    /\ deletes = {}
    /\ chals = [p \in Protocols |-> {}]
    /\ master = M!NoServers /\ trouble = 0

-----------------------------------------------------------------------------
(* The environment interferes: a config change, a shutdown or a crash,
   something lost or late.  Every behaviour has finitely many of these, and
   of new infos, which MaxSerial bounds.                                    *)
Trouble == trouble < MaxTrouble /\ trouble' = trouble + 1

(* The main thread of the game server.                                      *)

Mine(p) == {r \in reqs[p] : r.life = life}

MaySend(P) ==
    \A p \in P : /\ Cardinality(reqs[p]) < MaxFlight[p]
                 /\ \A r \in Mine(p) : r.age < MaxAge

Older(m, P) ==
    [m EXCEPT !.addresses = [a \in DOMAIN m.addresses |->
        LET e == m.addresses[a] IN
        IF a \in P /\ e.secret = life /\ e.behind < MaxBehind
        THEN [e EXCEPT !.behind = e.behind + 1] ELSE e]]

(* SendRegister for the protocols P, with the token tok[p] and the serial n. *)
SendRegister(P, tok, n) ==
    /\ MaySend(P)
    /\ reqs' = [p \in Protocols |->
         IF p \notin P THEN reqs[p]
         ELSE {IF r.life = life THEN [r EXCEPT !.age = @ + 1] ELSE r : r \in reqs[p]}
              \cup {[life |-> life, age |-> 0, serial |-> n, info |-> n > okSerial,
                     token |-> tok[p], stage |-> "sent"]}]
    /\ last' = [p \in Protocols |->
         IF p \in P /\ last[p] <= MaxAge THEN last[p] + 1 ELSE last[p]]
    /\ newToken' = [p \in Protocols |-> p \notin P /\ newToken[p]]
    /\ due' = [p \in Protocols |-> p \notin P /\ due[p]]
    /\ master' = Older(master, P)

(* CheckChallengeStatus brings m_NextRegister forward: no request that has
   not been answered is newer, and the answer can be acted upon.           *)
CanAnswer(p, new) ==
    /\ last[p] = 0
    /\ \/ status[p] = "needchallenge" /\ new
       \/ status[p] = "needinfo"

Update(p) ==
    /\ up /\ enabled[p]
    /\ due[p] \/ CanAnswer(p, newToken[p])
    /\ SendRegister({p}, token, infoSerial)
    /\ UNCHANGED <<up, life, enabled, infoSerial, okSerial, token, status,
                   deletes, chals, trouble>>

(* A challenge packet of the master, whether p is enabled or not. *)
OnToken(p, t) ==
    /\ up /\ t \in chals[p]
    /\ chals' = [chals EXCEPT ![p] = @ \ {t}]
    /\ token' = [token EXCEPT ![p] = t]
    /\ \/ /\ due[p] \/ CanAnswer(p, TRUE)
          /\ SendRegister({p}, token', infoSerial)
       \/ /\ ~due[p] /\ ~CanAnswer(p, TRUE)
          /\ newToken' = [newToken EXCEPT ![p] = TRUE]
          /\ UNCHANGED <<due, last, reqs, master>>
    /\ UNCHANGED <<up, life, enabled, infoSerial, okSerial, status, deletes, trouble>>

(* The protocol that is the next to send is moved forward, to a second after
   the last one that sent: it sends now or keeps a timer that runs.         *)
OnNewInfo ==
    /\ up /\ infoSerial < MaxSerial
    /\ infoSerial' = infoSerial + 1
    /\ LET Due == {p \in Protocols : enabled[p] /\ due[p]} IN
       \E P \in {Due} \cup {{p} : p \in {q \in Protocols : enabled[q] /\ Due = {}}} :
          SendRegister(P, token, infoSerial')
    /\ UNCHANGED <<up, life, enabled, okSerial, token, status, deletes, chals, trouble>>

(* SendDeleteIfRegistered for the protocols P. *)
Deletes(P) == {[life |-> life, protocol |-> p] : p \in {q \in P : status[q] = "ok"}}

OnConfigChange(E) ==
    /\ up /\ Trouble
    /\ enabled' = [p \in Protocols |-> p \in E]
    /\ SendRegister({p \in E : ~enabled[p]}, token, infoSerial)
    /\ LET off == {p \in Protocols \ E : enabled[p]} IN
         /\ deletes' = deletes \cup Deletes(off)
         /\ status' = [p \in Protocols |-> IF p \in off THEN "none" ELSE status[p]]
    /\ UNCHANGED <<up, life, infoSerial, okSerial, token, chals>>

(* The process ends.  Nothing it knew matters any more; the requests that are
   on their way are.                                                       *)
Gone ==
    /\ up /\ up' = FALSE
    /\ enabled' = [p \in Protocols |-> TRUE]
    /\ infoSerial' = 0 /\ okSerial' = -1
    /\ due' = [p \in Protocols |-> TRUE]
    /\ token' = [p \in Protocols |-> NoToken]
    /\ newToken' = [p \in Protocols |-> FALSE]
    /\ status' = [p \in Protocols |-> "none"]
    /\ last' = [p \in Protocols |-> 0]
    /\ reqs' = [p \in Protocols |->
         {[r EXCEPT !.age = 0] : r \in {q \in reqs[p] : q.stage = "sent"}}]
    /\ chals' = [p \in Protocols |-> {}]   \* m_ChallengeSecret is gone
    /\ UNCHANGED <<life, master>>

(* OnShutdown deletes what is registered.  It aborts no request: ShutdownJobs
   waits for the jobs that carry them.                                      *)
OnShutdown ==
    /\ Trouble
    /\ deletes' = deletes \cup Deletes({p \in Protocols : enabled[p]})
    /\ Gone

Crash == Trouble /\ Gone /\ UNCHANGED deletes

(* A new life: CRegister is constructed and updated for the first time. *)
Restart ==
    /\ ~up /\ life < MaxLife
    /\ up' = TRUE /\ life' = life + 1
    /\ UNCHANGED <<enabled, infoSerial, okSerial, due, token, newToken,
                   sharedVars, netVars, master, trouble>>

(* 15 seconds are over.  The answers come sooner than that, or are late. *)
Elapse(p) ==
    /\ up /\ ~due[p]
    /\ IF reqs[p] = {} THEN UNCHANGED trouble ELSE Trouble
    /\ due' = [due EXCEPT ![p] = TRUE]
    /\ UNCHANGED <<up, life, enabled, infoSerial, okSerial, token, newToken,
                   sharedVars, netVars, master>>

-----------------------------------------------------------------------------
(* The jobs.  An answer is noted under the lock of the protocol, then the
   serial under the lock they share.                                        *)

Answers == {"ok", "needchallenge", "needinfo"}

(* Mutant: whichever answer comes last counts. *)
NoteStatus_Last(p, r) ==
    /\ r \in reqs[p] /\ r.stage \in Answers
    /\ last' = [last EXCEPT ![p] = IF r.age < @ THEN r.age ELSE @]
    /\ status' = [status EXCEPT ![p] = r.stage]
    /\ reqs' = [reqs EXCEPT ![p] = (@ \ {r}) \cup
         (CASE r.stage = "ok"       -> {[r EXCEPT !.stage = "counted_ok"]}
            [] r.stage = "needinfo" -> {[r EXCEPT !.stage = "counted_needinfo"]}
            [] OTHER                -> {})]
    /\ UNCHANGED <<localVars, deletes, chals, master, trouble>>

NoteStatus(p, r) ==
    /\ r \in reqs[p] /\ r.stage \in Answers
    /\ IF r.age < last[p]
       THEN /\ last' = [last EXCEPT ![p] = r.age]
            /\ status' = [status EXCEPT ![p] = r.stage]
       ELSE UNCHANGED sharedVars
    /\ reqs' = [reqs EXCEPT ![p] = (@ \ {r}) \cup
         (CASE r.stage = "ok"       -> {[r EXCEPT !.stage = "counted_ok"]}
            [] r.stage = "needinfo" -> {[r EXCEPT !.stage = "counted_needinfo"]}
            [] OTHER                -> {})]
    /\ UNCHANGED <<localVars, deletes, chals, master, trouble>>

(* Mutant: the answer that the info is missing changes the status only. *)
NoteSerial_KeepSerial(p, r) ==
    /\ r \in reqs[p] /\ r.stage \in {"counted_ok", "counted_needinfo"}
    /\ okSerial' = IF r.stage = "counted_ok" /\ r.serial > okSerial
                   THEN r.serial ELSE okSerial
    /\ reqs' = [reqs EXCEPT ![p] = @ \ {r}]
    /\ UNCHANGED <<up, life, enabled, infoSerial, due, token, newToken,
                   sharedVars, deletes, chals, master, trouble>>

NoteSerial(p, r) ==
    /\ r \in reqs[p] /\ r.stage \in {"counted_ok", "counted_needinfo"}
    /\ okSerial' =
         IF r.stage = "counted_ok"
         THEN IF r.serial > okSerial THEN r.serial ELSE okSerial
         ELSE IF r.serial = okSerial THEN okSerial - 1 ELSE okSerial
    /\ reqs' = [reqs EXCEPT ![p] = @ \ {r}]
    /\ UNCHANGED <<up, life, enabled, infoSerial, due, token, newToken,
                   sharedVars, deletes, chals, master, trouble>>

(* The request fails, before or after the master has seen it. *)
Fail(p, r) ==
    /\ r \in reqs[p]
    /\ r.stage \in {"sent"} \cup Answers /\ Trouble
    /\ reqs' = [reqs EXCEPT ![p] = @ \ {r}]
    /\ UNCHANGED <<localVars, sharedVars, deletes, chals, master>>

-----------------------------------------------------------------------------
(* The master.                                                              *)

(* handle_register: the token is the current one or the one before, and a
   challenge is sent unless it is the current one.                          *)
HandleRegister(p, r) ==
    /\ r \in reqs[p] /\ r.stage = "sent"
    /\ LET correct == p \in Exempt \/ r.token \in {0, 1}
           needInfo == M!NeedsInfo(master, r.life, r.serial) /\ ~r.info
           behind == IF r.life # life THEN MaxBehind
                     ELSE IF r.age < MaxBehind THEN r.age ELSE MaxBehind
           answer == CASE ~correct -> "needchallenge"
                       [] correct /\ needInfo -> "needinfo"
                       [] OTHER -> "ok"
       IN /\ master' = IF answer = "ok" THEN M!Added(master, p, r.life, r.serial, behind)
                       ELSE master
          /\ reqs' = [reqs EXCEPT ![p] = (@ \ {r}) \cup
               (IF up /\ r.life = life THEN {[r EXCEPT !.stage = answer]} ELSE {})]
    /\ chals' = IF p \notin Exempt /\ r.token # 0 /\ up /\ r.life = life
                THEN [chals EXCEPT ![p] = {0}] ELSE chals
    /\ UNCHANGED <<localVars, sharedVars, deletes, trouble>>

HandleDelete(d) ==
    /\ d \in deletes
    /\ deletes' = deletes \ {d}
    /\ master' = M!Removed(master, d.protocol, d.life)
    /\ UNCHANGED <<localVars, sharedVars, reqs, chals, trouble>>

(* Addresses whose last registration is over 30 seconds old. *)
Silent(m) ==
    {a \in DOMAIN m.addresses :
        \/ m.addresses[a].behind >= MaxBehind
        \/ ~up \/ m.addresses[a].secret # life \/ ~enabled[a]}

(* handle_periodic_writeout: old entries go before the list is written. *)
Writeout(A) ==
    /\ A \subseteq Silent(master)
    /\ master' = M!Pruned(master, A)
    /\ UNCHANGED <<localVars, sharedVars, netVars, trouble>>

(* The master starts again with an empty list. *)
MasterRestart ==
    /\ Trouble
    /\ master' = M!NoServers
    /\ UNCHANGED <<localVars, sharedVars, netVars>>

(* handle_periodic_reseed, every hour: the registrations are at rest, as a
   rule; what it meets otherwise is an interference.                        *)
Aged(t) == IF t < NoToken THEN t + 1 ELSE t

Reseed ==
    /\ IF \A p \in Protocols :
             /\ chals[p] = {} /\ reqs[p] = {}
             /\ up => /\ enabled[p] /\ status[p] = "ok"
                      /\ p \notin Exempt => token[p] = 0
       THEN UNCHANGED trouble ELSE Trouble
    /\ token' = [p \in Protocols |-> Aged(token[p])]
    /\ reqs' = [p \in Protocols |-> {[r EXCEPT !.token = Aged(@)] : r \in reqs[p]}]
    /\ chals' = [p \in Protocols |-> {Aged(t) : t \in chals[p]}]
    /\ UNCHANGED <<up, life, enabled, infoSerial, okSerial, due, newToken,
                   sharedVars, deletes, master>>

LoseDelete(d) ==
    /\ d \in deletes /\ Trouble
    /\ deletes' = deletes \ {d}
    /\ UNCHANGED <<localVars, sharedVars, reqs, chals, master>>

LoseChallenge(p, t) ==
    /\ t \in chals[p] /\ Trouble
    /\ chals' = [chals EXCEPT ![p] = @ \ {t}]
    /\ UNCHANGED <<localVars, sharedVars, reqs, deletes, master>>

Next ==
    \/ \E p \in Protocols :
         \/ Update(p) \/ Elapse(p)
         \/ \E t \in Tokens : OnToken(p, t) \/ LoseChallenge(p, t)
         \/ \E r \in reqs[p] : \/ HandleRegister(p, r) \/ Fail(p, r)
                               \/ NoteStatus(p, r) \/ NoteSerial(p, r)
    \/ OnNewInfo \/ OnShutdown \/ Crash \/ Restart
    \/ \E E \in Configs : OnConfigChange(E)
    \/ \E d \in deletes : HandleDelete(d) \/ LoseDelete(d)
    \/ \E a \in Silent(master) : Writeout({a})
    \/ MasterRestart \/ Reseed

(* The loop of the server, the jobs and the master go on, and the timer of
   a protocol runs down.                                                    *)
Fairness ==
    /\ \A p \in Protocols :
         /\ WF_vars(Update(p)) /\ WF_vars(Elapse(p))
         /\ WF_vars(\E t \in Tokens : OnToken(p, t))
         /\ WF_vars(\E r \in reqs[p] : \/ HandleRegister(p, r) \/ Fail(p, r)
                                       \/ NoteStatus(p, r) \/ NoteSerial(p, r))
    /\ WF_vars(\E d \in deletes : HandleDelete(d))
    /\ \A a \in Protocols : WF_vars(a \in Silent(master) /\ Writeout({a}))

Spec == Init /\ [][Next]_vars
FairSpec == Spec /\ Fairness

-----------------------------------------------------------------------------
(* Properties.                                                              *)

TypeOK ==
    /\ up \in BOOLEAN /\ life \in Lives /\ trouble \in 0..MaxTrouble
    /\ enabled \in [Protocols -> BOOLEAN]
    /\ infoSerial \in 0..MaxSerial /\ okSerial \in Int /\ okSerial <= infoSerial
    /\ due \in [Protocols -> BOOLEAN]
    /\ token \in [Protocols -> Tokens]
    /\ newToken \in [Protocols -> BOOLEAN]
    /\ status \in [Protocols -> {"none"} \cup Answers]
    /\ last \in [Protocols -> 0..(MaxAge + 1)]
    /\ reqs \in [Protocols -> SUBSET Requests]
    /\ deletes \subseteq [life : Lives, protocol : Protocols]
    /\ chals \in [Protocols -> SUBSET Tokens]

(* The two maps of the master lead to each other through every registration,
   move of an address to another secret, deletion and pruning: nothing the
   code unwraps or asserts is missing (main.rs, Servers).                   *)
ListsAgree == TypeOK /\ M!Agrees(master)

(* While a server is listed its info never gets older, in whatever order its
   requests arrive (main.rs:420).                                           *)
InfoAdvances ==
    [][\A s \in DOMAIN master.servers \cap DOMAIN master'.servers :
             master.servers[s].serial <= master'.servers[s].serial]_vars

(* When the newest request of a protocol has been accepted and answered, that
   is what the status says, whatever answers came before or after it: the
   deletion at shutdown depends on it (register.cpp:488, :336).             *)
StatusOfNewest ==
    \A p \in Protocols :
        /\ up /\ last[p] = 0
        /\ p \in DOMAIN master.addresses
        /\ master.addresses[p] = [secret |-> life, behind |-> 0]
        => status[p] \in {"ok", "none"}

Settled ==
    \A p \in Protocols :
        IF up /\ enabled[p]
        THEN /\ status[p] = "ok"
             /\ p \in DOMAIN master.addresses
             /\ master.addresses[p].secret = life
             /\ master.servers[life].serial = infoSerial
        ELSE p \notin DOMAIN master.addresses

(* When the environment no longer interferes, the master comes to list the
   server with its newest info at every address that is enabled, at no other,
   and it stays so: a master that has forgotten the info is given it again,
   and the leftovers of earlier lives and of late requests go away.         *)
ComesToSettle == <>[]Settled

=============================================================================
