--------------------------- MODULE TeamSavesProofs ---------------------------
(***************************************************************************)
(* Proofs about TeamSaves, for any servers, players, codes and bounds.     *)
(* A save is carried by its request until its row is written (Carries),    *)
(* also when the backup already tells the players a code; a request to     *)
(* save has a number of its own (NumbersOwn), no row has that number       *)
(* before its insert (NotYetWritten), and what players were told is        *)
(* written (Written).  So an insert never meets a row of its code, no      *)
(* statement gives a second copy (Single), and the newest save is always   *)
(* somewhere.                                                              *)
(***************************************************************************)
EXTENDS TeamSaves, FiniteSetTheorems, TLAPS

Saving(s) == job[s].kind = "save"
Loading(s) == job[s].kind = "load"

\* The states of a request.
JobShape(j) ==
    /\ j.kind = "none" => j.status = "none" /\ j.stage = "done"
    /\ j.kind = "save" =>
         /\ j.stage \in {"first", "normal", "after", "done"}
         /\ j.status \in {"SAVE_FAILED", "SAVE_SUCCESS"}
         /\ j.stage = "first" => j.status = "SAVE_FAILED"
         /\ j.ok => j.status = "SAVE_SUCCESS" /\ j.stage \in {"after", "done"}
         /\ j.code \in UserCodes \cup {NoCode}
    /\ j.kind = "load" =>
         /\ j.stage \in {"select", "delete", "file", "done"}
         /\ j.status \in {"LOAD_FAILED", "LOAD_SUCCESS"}
         /\ j.status = "LOAD_SUCCESS" => j.stage = "done"
    /\ j.kind = "save" \/ j.stage = "delete" \/ j.status = "LOAD_SUCCESS" => j.save # 0
    /\ j.kind # "none" => j.party # {}

JobsShaped == \A s \in Servers : JobShape(job[s]) /\ job[s].save <= made

\* A team that plays is complete; one that started and does not play is being
\* saved; nobody was let in whom the request does not know.
TeamShape(t) ==
    /\ t.run # NoRun => t.started /\ t.tees = t.members
    /\ t.tees \subseteq t.members
    /\ t.members = {} => ~t.started
    /\ t.started /\ t.run = NoRun => t.tees = {}

TeamsShaped ==
    \A s \in Servers :
        TeamShape(team[s]) /\ (job[s].wanted => team[s].members \subseteq job[s].party)

NumbersOwn ==
    \A s, t \in Servers : Saving(s) /\ Saving(t) /\ job[s].save = job[t].save => s = t

\* A row of the team has the number of a save that was made, and a code made
\* for a save is only its own.
RowShape(r) ==
    /\ r.save <= made
    /\ r.party = {} <=> r.save = 0
    /\ r.code \in Nat => r.code = r.save

RowsShaped ==
    /\ \A r \in saves : RowShape(r)
    /\ \A s \in Servers : \A r \in file[s] : RowShape(r) /\ r.save # 0
    /\ \A s \in Servers : \A r \in backup[s] :
          /\ RowShape(r) /\ r.code = r.save /\ r.save # 0
          /\ \A q \in backup[s] : q.save = r.save => q = r

NotYetWritten ==
    \A s \in Servers : Saving(s) =>
        /\ job[s].stage \in {"first", "normal"} =>
              job[s].save \notin loaded /\ \A r \in saves : r.save # job[s].save
        /\ job[s].status = "SAVE_FAILED" => \A r \in backup[s] : r.save # job[s].save
        /\ job[s].stage # "done" => \A t \in Servers : \A r \in file[t] : r.save # job[s].save

Written ==
    \A s \in Servers : Saving(s) /\ job[s].status = "SAVE_SUCCESS" =>
        IF job[s].ok
        THEN job[s].save \in loaded \/ SavedRow(job[s], job[s].told) \in saves
        ELSE /\ job[s].told = job[s].save
             /\ SavedRow(job[s], job[s].save) \in file[s] \cup backup[s]
             /\ job[s].stage # "done" => SavedRow(job[s], job[s].save) \in backup[s]

\* A deleted row is loaded, whoever got the answer.
DeletedIsLoaded ==
    /\ \A n \in 1 .. made : <<"delete", n>> \in unsure => n \in loaded
    /\ \A s \in Servers : Loading(s) /\ job[s].stage = "delete" =>
          job[s].save \in loaded \/ \E r \in saves : r.code = job[s].code /\ r.save = job[s].save

\* The request has the progress: in memory only, or in a backup row that is
\* still to be moved.
Carrying(j) ==
    \/ j.status \in {"SAVE_FAILED", "LOAD_SUCCESS"}
    \/ j.kind = "save" /\ j.stage \in {"first", "normal"}
    \/ j.kind = "save" /\ j.stage = "after" /\ ~j.ok
Carries(s) == Carrying(job[s])

InTeam(s) == team[s].run # NoRun
InRow(r) == r \in saves /\ r.party # {}

NoTeam == \A s \in Servers : ~InTeam(s)
NoCarrier == \A s \in Servers : ~Carries(s)
NoRow == \A r \in saves : r.party = {}
NoFile == \A s \in Servers : file[s] = {}

\* There is one copy at most.
Single ==
    /\ \A s \in Servers : InTeam(s) =>
          NoCarrier /\ NoRow /\ NoFile /\ \A t \in Servers \ {s} : ~InTeam(t)
    /\ \A s \in Servers : Carries(s) =>
          NoRow /\ NoFile /\ \A t \in Servers \ {s} : ~Carries(t)
    /\ \A r \in saves : r.party # {} =>
          NoFile /\ \A q \in saves : q.party # {} => q = r
    /\ \A s \in Servers : \A r \in file[s] :
          file[s] = {r} /\ \A t \in Servers \ {s} : file[t] = {}

Certain == \A u \in unsure : u[1] = "delete"

IInv ==
    /\ TypeOK
    /\ JobsShaped
    /\ TeamsShaped
    /\ NumbersOwn
    /\ RowsShaped
    /\ NotYetWritten
    /\ Written
    /\ DeletedIsLoaded
    /\ Certain => Single

\* IInv without what is about the requests and the tables.
TablesInv == RowsShaped /\ NumbersOwn /\ NotYetWritten /\ Written /\ DeletedIsLoaded

-----------------------------------------------------------------------------
(* Copies that go leave at most one.                                        *)

LEMMA SingleShrinks ==
    ASSUME Single,
           \A s \in Servers : (InTeam(s)' => InTeam(s)) /\ (Carries(s)' => Carries(s)),
           \A r \in saves' : r.party # {} => r \in saves,
           \A s \in Servers : file'[s] \subseteq file[s]
    PROVE  Single'
<1>1. \A s \in Servers : InTeam(s)' =>
          NoCarrier' /\ NoRow' /\ NoFile' /\ \A t \in Servers \ {s} : ~InTeam(t)'
  BY DEF Single, NoCarrier, NoRow, NoFile
<1>2. \A s \in Servers : Carries(s)' =>
          NoRow' /\ NoFile' /\ \A t \in Servers \ {s} : ~Carries(t)'
  BY DEF Single, NoRow, NoFile
<1>3. \A r \in saves' : r.party # {} =>
          NoFile' /\ \A q \in saves' : q.party # {} => q = r
  BY DEF Single, NoFile
<1>4. \A s \in Servers : \A r \in file'[s] :
          file'[s] = {r} /\ \A t \in Servers \ {s} : file'[t] = {}
  BY DEF Single
<1>5. QED
  BY <1>1, <1>2, <1>3, <1>4 DEF Single

LEMMA InitInv == ASSUME Init PROVE IInv
<1> DEFINE t0 == [members |-> Names, started |-> TRUE, run |-> 0, tees |-> Names]
<1>1. /\ team = [s \in Servers |-> IF s = First THEN t0 ELSE Empty]
      /\ job = [s \in Servers |-> NoJob]
      /\ saves = {[code |-> c, save |-> 0, party |-> {}] : c \in Taken}
      /\ backup = [s \in Servers |-> {}] /\ file = [s \in Servers |-> {}]
      /\ made = 0 /\ loaded = {} /\ unsure = {} /\ trouble = 0
  BY DEF Init
<1>2. t0 \in Team /\ Empty \in Team /\ TeamShape(t0) /\ TeamShape(Empty)
  BY NamesAssumption, BoundsAssumption DEF Team, Empty, TeamShape
<1>3. NoJob \in Job /\ JobShape(NoJob) /\ NoJob.save = 0 /\ ~NoJob.wanted /\ NoJob.kind = "none"
      /\ NoJob.status = "none"
  BY BoundsAssumption DEF Job, NoJob, JobShape
<1>4. \A r \in saves : r \in Row /\ r.save = 0 /\ r.party = {} /\ r.code \notin Nat
  BY <1>1, CodesAssumption, BoundsAssumption DEF Row, Codes
<1>5. TypeOK
  BY <1>1, <1>2, <1>3, <1>4, BoundsAssumption DEF TypeOK
<1>6. JobsShaped /\ TeamsShaped
  BY <1>1, <1>2, <1>3 DEF JobsShaped, TeamsShaped
<1>7. RowsShaped
  BY <1>1, <1>4 DEF RowsShaped, RowShape
<1>8. NumbersOwn /\ NotYetWritten /\ Written /\ DeletedIsLoaded
  BY <1>1, <1>3 DEF NumbersOwn, NotYetWritten, Written, DeletedIsLoaded, Saving, Loading
<1>9. Single
  <2>1. NoCarrier /\ NoRow /\ NoFile
    BY <1>1, <1>3, <1>4 DEF NoCarrier, NoRow, NoFile, Carries, Carrying
  <2>2. \A s, t \in Servers : InTeam(s) /\ InTeam(t) => s = t
    BY <1>1 DEF InTeam, Empty
  <2>3. QED
    BY <2>1, <2>2 DEF Single, NoCarrier, NoRow, NoFile
<1>10. QED
  BY <1>5, <1>6, <1>7, <1>8, <1>9 DEF IInv

-----------------------------------------------------------------------------
(* Steps of the game that leave the requests and the tables alone.          *)

LEMMA TablesUntouched ==
    ASSUME TablesInv, UNCHANGED <<job, tables>>
    PROVE  TablesInv'
<1>1. /\ job' = job /\ saves' = saves /\ backup' = backup /\ file' = file /\ made' = made
      /\ loaded' = loaded /\ unsure' = unsure
  BY DEF tables
<1>2. RowsShaped'
  BY <1>1 DEF TablesInv, RowsShaped, RowShape
<1>3. NumbersOwn' /\ DeletedIsLoaded'
  BY <1>1 DEF TablesInv, NumbersOwn, DeletedIsLoaded, Saving, Loading
<1>4. NotYetWritten' /\ Written'
  BY <1>1 DEF TablesInv, NotYetWritten, Written, Saving, SavedRow
<1>5. QED
  BY <1>2, <1>3, <1>4 DEF TablesInv

LEMMA TeamStepInv ==
    ASSUME IInv, NEW s \in Servers, NEW t \in Team, TeamShape(t),
           team' = [team EXCEPT ![s] = t], UNCHANGED <<job, tables, trouble>>,
           t.run # NoRun => team[s].run # NoRun,
           job[s].wanted => t.members \subseteq job[s].party
    PROVE  IInv'
<1>1. /\ job' = job /\ saves' = saves /\ backup' = backup /\ file' = file /\ made' = made
      /\ loaded' = loaded /\ unsure' = unsure /\ trouble' = trouble
  BY DEF tables
<1>2. TypeOK /\ team \in [Servers -> Team]
  BY DEF IInv, TypeOK
<1>3. TypeOK'
  BY <1>1, <1>2 DEF TypeOK
<1>4. JobsShaped' /\ TeamsShaped'
  BY <1>1, <1>2 DEF IInv, JobsShaped, TeamsShaped
<1>5. TablesInv'
  BY TablesUntouched DEF IInv, TablesInv
<1>6. ASSUME Certain' PROVE Single'
  <2>1. Certain
    BY <1>1, <1>6 DEF Certain
  <2>2. \A i \in Servers : (InTeam(i)' => InTeam(i)) /\ (Carries(i)' => Carries(i))
    BY <1>1, <1>2 DEF InTeam, Carries, Carrying
  <2>3. QED
    BY <1>1, <2>1, <2>2, SingleShrinks DEF IInv
<1>7. QED
  BY <1>3, <1>4, <1>5, <1>6 DEF IInv, TablesInv

LEMMA EmptyShape == Empty \in Team /\ TeamShape(Empty) /\ Empty.run = NoRun /\ Empty.members = {}
BY BoundsAssumption DEF Team, Empty, TeamShape

LEMMA WithoutShape ==
    ASSUME NEW t \in Team, TeamShape(t), NEW p \in t.members
    PROVE  LET w == Without(t, p)
           IN  /\ w \in Team /\ TeamShape(w) /\ w.members \subseteq t.members
               /\ w.run # NoRun => t.run # NoRun
<1> DEFINE w == [t EXCEPT !.members = @ \ {p}, !.tees = @ \ {p}]
<1>1. CASE t.members = {p}
  BY <1>1, EmptyShape DEF Without
<1>2. CASE t.members # {p}
  <2>1. Without(t, p) = w
    BY <1>2 DEF Without
  <2>2. w \in Team
    BY DEF Team
  <2>3. /\ w.members = t.members \ {p} /\ w.tees = t.tees \ {p}
        /\ w.run = t.run /\ w.started = t.started
    BY DEF Team
  <2> HIDE DEF w
  <2>4. w.members # {}
    BY <1>2, <2>3
  <2>5. TeamShape(w)
    BY <2>3, <2>4 DEF TeamShape
  <2>6. QED
    BY <2>1, <2>2, <2>3, <2>5
<1>3. QED
  BY <1>1, <1>2

LEMMA GameInv ==
    ASSUME IInv, NEW s \in Servers, NEW p \in Names,
           \/ SetCharacterTeam(s, p) \/ SetForceCharacterTeam(s, p) \/ OnCharacterDeath(s, p)
    PROVE  IInv'
<1>1. /\ team[s] \in Team /\ TeamShape(team[s]) /\ team \in [Servers -> Team]
      /\ job[s].wanted => team[s].members \subseteq job[s].party
  BY DEF IInv, TypeOK, TeamsShaped
<1>2. CASE SetCharacterTeam(s, p)
  <2> DEFINE t == [team[s] EXCEPT !.members = @ \cup {p}]
  <2>1. /\ team' = [team EXCEPT ![s] = t] /\ UNCHANGED <<job, tables, trouble>>
        /\ ~team[s].started /\ ~job[s].wanted
    BY <1>2 DEF SetCharacterTeam, GetSaving
  <2>2. t \in Team
    BY <1>1 DEF Team
  <2>3. /\ t.members = team[s].members \cup {p} /\ t.tees = team[s].tees
        /\ t.run = team[s].run /\ t.started = team[s].started
    BY <1>1 DEF Team
  <2> HIDE DEF t
  <2>4. TeamShape(t)
    BY <1>1, <2>1, <2>3 DEF TeamShape
  <2>5. QED
    BY <2>1, <2>2, <2>3, <2>4, TeamStepInv
<1>3. CASE \/ SetForceCharacterTeam(s, p)
           \/ OnCharacterDeath(s, p) /\ team' = [team EXCEPT ![s] = Without(@, p)]
  <2> DEFINE t == Without(team[s], p)
  <2>1. /\ team' = [team EXCEPT ![s] = t] /\ UNCHANGED <<job, tables, trouble>>
        /\ p \in team[s].members
    BY <1>3 DEF SetForceCharacterTeam, OnCharacterDeath
  <2>2. /\ t \in Team /\ TeamShape(t) /\ t.members \subseteq team[s].members
        /\ t.run # NoRun => team[s].run # NoRun
    BY <1>1, <2>1, WithoutShape
  <2> HIDE DEF t
  <2>3. QED
    BY <1>1, <2>1, <2>2, TeamStepInv
<1>4. CASE OnCharacterDeath(s, p) /\ team' = [team EXCEPT ![s] = Open(@.members)]
  <2> DEFINE t == Open(team[s].members)
  <2>1. /\ team' = [team EXCEPT ![s] = t] /\ UNCHANGED <<job, tables, trouble>>
    BY <1>4 DEF OnCharacterDeath
  <2>2. t \in Team
    BY <1>1, BoundsAssumption DEF Team, Open, Empty
  <2>3. t.members = team[s].members /\ t.tees = {} /\ t.run = NoRun /\ ~t.started
    BY DEF Open, Empty
  <2> HIDE DEF t
  <2>4. TeamShape(t)
    BY <2>3 DEF TeamShape
  <2>5. QED
    BY <1>1, <2>1, <2>2, <2>3, <2>4, TeamStepInv
<1>5. QED
  BY <1>2, <1>3, <1>4 DEF OnCharacterDeath

-----------------------------------------------------------------------------
(* Steps of a request that leave the tables alone.                          *)

\* The request j of server s goes on as k: what it must not gain.
GoesOn(j, k) ==
    /\ k.kind = "save" =>
         /\ j.kind = "save" /\ k.save = j.save /\ k.party = j.party
         /\ k.stage \in {"first", "normal"} => j.stage \in {"first", "normal"}
         /\ k.stage # "done" => j.stage # "done"
         /\ k.status = j.status /\ k.ok = j.ok /\ k.told = j.told
    /\ k.kind = "load" /\ k.stage = "delete" =>
         k.save \in loaded \/ \E r \in saves : r.code = k.code /\ r.save = k.save

LEMMA RequestTables ==
    ASSUME IInv, NEW s \in Servers, NEW j \in Job, GoesOn(job[s], j),
           job' = [job EXCEPT ![s] = j], UNCHANGED tables
    PROVE  TablesInv'
<1>1. /\ saves' = saves /\ backup' = backup /\ file' = file /\ made' = made
      /\ loaded' = loaded /\ unsure' = unsure
  BY DEF tables
<1>2. job'[s] = j /\ \A i \in Servers \ {s} : job'[i] = job[i]
  BY DEF IInv, TypeOK
<1>3. RowsShaped'
  BY <1>1 DEF IInv, RowsShaped, RowShape
<1>4. NumbersOwn'
  BY <1>2 DEF IInv, NumbersOwn, Saving, GoesOn
<1>5. NotYetWritten'
  BY <1>1, <1>2 DEF IInv, NotYetWritten, Saving, GoesOn
<1>6. Written'
  <2> SUFFICES ASSUME NEW i \in Servers, Saving(i)', job'[i].status = "SAVE_SUCCESS"
               PROVE  IF job'[i].ok
                      THEN job'[i].save \in loaded
                             \/ SavedRow(job'[i], job'[i].told) \in saves
                      ELSE /\ job'[i].told = job'[i].save
                           /\ SavedRow(job'[i], job'[i].save) \in file[i] \cup backup[i]
                           /\ job'[i].stage # "done" =>
                                 SavedRow(job'[i], job'[i].save) \in backup[i]
    BY <1>1 DEF Written, SavedRow
  <2>1. CASE i = s
    BY <1>2, <2>1 DEF IInv, Written, Saving, GoesOn, SavedRow
  <2>2. CASE i # s
    BY <1>2, <2>2 DEF IInv, Written, Saving
  <2>3. QED
    BY <2>1, <2>2
<1>7. DeletedIsLoaded'
  BY <1>1, <1>2 DEF IInv, DeletedIsLoaded, Loading, GoesOn
<1>8. QED
  BY <1>3, <1>4, <1>5, <1>6, <1>7 DEF TablesInv

\* What the team and the request of s have does not become more.
LEMMA RequestInv ==
    ASSUME IInv, NEW s \in Servers, NEW j \in Job, NEW t \in Team,
           JobShape(j), j.save <= made, GoesOn(job[s], j), TeamShape(t),
           j.wanted => t.members \subseteq j.party,
           job' = [job EXCEPT ![s] = j], team' = [team EXCEPT ![s] = t],
           UNCHANGED tables, trouble' \in 0 .. MaxTrouble,
           Carrying(j) \/ t.run # NoRun => Carries(s) \/ InTeam(s),
           Certain => ~(Carrying(j) /\ t.run # NoRun)
    PROVE  IInv'
<1>1. /\ saves' = saves /\ backup' = backup /\ file' = file /\ made' = made
      /\ loaded' = loaded /\ unsure' = unsure
  BY DEF tables
<1>2. /\ job \in [Servers -> Job] /\ team \in [Servers -> Team] /\ TypeOK
  BY DEF IInv, TypeOK
<1>3. /\ job'[s] = j /\ \A i \in Servers \ {s} : job'[i] = job[i]
      /\ team'[s] = t /\ \A i \in Servers \ {s} : team'[i] = team[i]
  BY <1>2
<1>4. TypeOK'
  <2>1. job' \in [Servers -> Job] /\ team' \in [Servers -> Team]
    BY <1>2
  <2>2. QED
    BY <1>1, <1>2, <2>1 DEF TypeOK
<1>5. JobsShaped' /\ TeamsShaped'
  BY <1>1, <1>3 DEF IInv, JobsShaped, TeamsShaped
<1>6. TablesInv'
  BY RequestTables
<1>7. ASSUME Certain' PROVE Single'
  <2>1. Certain /\ Single
    BY <1>1, <1>7 DEF Certain, IInv
  <2>2. /\ InTeam(s)' <=> t.run # NoRun
        /\ Carries(s)' <=> Carrying(j)
        /\ \A i \in Servers \ {s} : (InTeam(i)' <=> InTeam(i)) /\ (Carries(i)' <=> Carries(i))
    BY <1>3 DEF InTeam, Carries
  <2>3. CASE ~Carrying(j) /\ t.run = NoRun
    BY <1>1, <2>1, <2>2, <2>3, SingleShrinks
  <2>4. CASE Carrying(j) \/ t.run # NoRun
    <3>1. /\ NoRow /\ NoFile
          /\ \A i \in Servers \ {s} : ~InTeam(i) /\ ~Carries(i)
      BY <2>1, <2>4 DEF Single, NoCarrier
    <3>2. /\ NoRow' /\ NoFile'
          /\ \A i \in Servers \ {s} : ~InTeam(i)' /\ ~Carries(i)'
      BY <1>1, <2>2, <3>1 DEF NoRow, NoFile
    <3>3. ~InTeam(s)' \/ ~Carries(s)'
      BY <2>1, <2>2
    <3>4. QED
      BY <3>2, <3>3 DEF Single, NoRow, NoFile, NoCarrier
  <2>5. QED
    BY <2>3, <2>4
<1>8. QED
  BY <1>4, <1>5, <1>6, <1>7 DEF IInv, TablesInv

LEMMA TroubleType == ASSUME IInv, Trouble \/ UNCHANGED trouble PROVE trouble' \in 0 .. MaxTrouble
BY BoundsAssumption DEF IInv, TypeOK, Trouble

LEMMA NoJobShape ==
    /\ NoJob \in Job /\ JobShape(NoJob) /\ NoJob.save = 0 /\ ~NoJob.wanted
    /\ NoJob.kind = "none" /\ ~NoJob.ok /\ ~Carrying(NoJob)
BY BoundsAssumption DEF Job, NoJob, JobShape, Carrying

LEMMA Here ==
    ASSUME IInv, NEW s \in Servers
    PROVE  /\ job[s] \in Job /\ job \in [Servers -> Job] /\ JobShape(job[s])
           /\ team[s] \in Team /\ team \in [Servers -> Team] /\ TeamShape(team[s])
           /\ job[s].save <= made
           /\ job[s].wanted => team[s].members \subseteq job[s].party
BY DEF IInv, TypeOK, JobsShaped, TeamsShaped

LEMMA ResetInv == ASSUME IInv, NEW s \in Servers, Reset(s) PROVE IInv'
<1> DEFINE j == [job[s] EXCEPT !.wanted = FALSE]
<1>1. /\ job[s] \in Job /\ JobShape(job[s]) /\ job[s].save <= made
  BY Here
<1>2. /\ job' = [job EXCEPT ![s] = j] /\ team' = [team EXCEPT ![s] = Empty]
      /\ UNCHANGED tables /\ trouble' \in 0 .. MaxTrouble
  BY TroubleType DEF Reset
<1>3. j \in Job
  BY <1>1 DEF Job
<1>4. /\ j.kind = job[s].kind /\ j.save = job[s].save /\ j.party = job[s].party
      /\ j.code = job[s].code /\ j.stage = job[s].stage /\ j.ok = job[s].ok
      /\ j.status = job[s].status /\ j.told = job[s].told /\ ~j.wanted
  BY <1>1 DEF Job
<1>5. j.kind = "none" => j.status = "none" /\ j.stage = "done"
  BY <1>1, <1>4 DEF JobShape, NoJob
<1> HIDE DEF j
<1>6. JobShape(j)
  BY <1>1, <1>4 DEF JobShape
<1>7. GoesOn(job[s], j)
  BY <1>4 DEF GoesOn, IInv, DeletedIsLoaded, Loading
<1>8. Carrying(j) <=> Carries(s)
  BY <1>4 DEF Carrying, Carries
<1>9. QED
  BY <1>1, <1>2, <1>3, <1>4, <1>6, <1>7, <1>8, EmptyShape, RequestInv

\* A request that is answered, by the result or by the end of the server.
LEMMA AnswerInv ==
    ASSUME IInv, NEW s \in Servers, NEW t \in Team, TeamShape(t),
           job' = [job EXCEPT ![s] = NoJob], team' = [team EXCEPT ![s] = t],
           UNCHANGED tables, trouble' \in 0 .. MaxTrouble,
           t.run # NoRun => Carries(s) \/ InTeam(s)
    PROVE  IInv'
<1>1. GoesOn(job[s], NoJob)
  BY NoJobShape DEF GoesOn
<1>2. NoJob.save <= made
  BY NoJobShape DEF IInv, TypeOK
<1>3. QED
  BY <1>1, <1>2, NoJobShape, RequestInv

LEMMA CrashInv == ASSUME IInv, NEW s \in Servers, Crash(s) PROVE IInv'
<1>1. /\ job' = [job EXCEPT ![s] = NoJob] /\ team' = [team EXCEPT ![s] = Empty]
      /\ UNCHANGED tables /\ trouble' \in 0 .. MaxTrouble
  BY TroubleType DEF Crash
<1>2. QED
  BY <1>1, EmptyShape, AnswerInv

LEMMA DropInv == ASSUME IInv, NEW s \in Servers, Drop(s) PROVE IInv'
<1>1. /\ job' = [job EXCEPT ![s] = NoJob] /\ UNCHANGED tables
      /\ trouble' \in 0 .. MaxTrouble
  BY TroubleType DEF Drop
<1>2. team[s] \in Team /\ TeamShape(team[s]) /\ team \in [Servers -> Team]
  BY Here
<1>3. team' = [team EXCEPT ![s] = team[s]]
  BY <1>2 DEF Drop
<1>4. team[s].run # NoRun => InTeam(s)
  BY DEF InTeam
<1>5. QED
  BY <1>1, <1>2, <1>3, <1>4, AnswerInv

LEMMA LoadedShape ==
    ASSUME NEW t \in Team, TeamShape(t), NEW j \in Job, t.members \subseteq j.party
    PROVE  Loaded(t, j) \in Team /\ TeamShape(Loaded(t, j))
<1>1. CASE t.members = {}
  BY <1>1 DEF Loaded
<1>2. CASE t.members # {}
  <2> DEFINE l == [members |-> t.members, started |-> TRUE, run |-> j.save,
                   tees |-> t.members \cap j.party]
  <2>1. Loaded(t, j) = l
    BY <1>2 DEF Loaded
  <2>2. l \in Team
    BY DEF Team, Job
  <2>3. l.members = t.members /\ l.started /\ l.tees = t.members /\ l.run # NoRun
    BY BoundsAssumption DEF Job
  <2> HIDE DEF l
  <2>4. TeamShape(l)
    BY <1>2, <2>3 DEF TeamShape
  <2>5. QED
    BY <2>1, <2>2, <2>4
<1>3. QED
  BY <1>1, <1>2

\* The team gets back what the request carried.
LEMMA ProcessSaveTeamInv == ASSUME IInv, NEW s \in Servers, ProcessSaveTeam(s) PROVE IInv'
<1>1. /\ team[s] \in Team /\ TeamShape(team[s]) /\ team \in [Servers -> Team]
      /\ job[s] \in Job /\ JobShape(job[s])
      /\ job[s].wanted => team[s].members \subseteq job[s].party
  BY Here
<1>2. /\ job' = [job EXCEPT ![s] = NoJob] /\ UNCHANGED tables
      /\ trouble' \in 0 .. MaxTrouble
      /\ job[s].kind # "none" /\ job[s].stage = "done" /\ job[s].wanted
  BY TroubleType DEF ProcessSaveTeam
<1>3. job[s].status \in {"SAVE_SUCCESS", "SAVE_FAILED", "LOAD_SUCCESS", "LOAD_FAILED"}
  BY <1>1, <1>2 DEF JobShape, Job
<1>4. CASE job[s].status = "SAVE_SUCCESS"
  <2>1. team' = [team EXCEPT ![s] = Empty]
    BY <1>4 DEF ProcessSaveTeam
  <2>2. QED
    BY <1>2, <2>1, EmptyShape, AnswerInv
<1>5. CASE job[s].status \in {"SAVE_FAILED", "LOAD_SUCCESS"}
  <2> DEFINE t == Loaded(team[s], job[s])
  <2>1. team' = [team EXCEPT ![s] = t]
    BY <1>5 DEF ProcessSaveTeam
  <2>2. t \in Team /\ TeamShape(t)
    BY <1>1, <1>2, LoadedShape
  <2>3. Carries(s)
    BY <1>5 DEF Carries, Carrying
  <2> HIDE DEF t
  <2>4. QED
    BY <1>2, <2>1, <2>2, <2>3, AnswerInv
<1>6. CASE job[s].status = "LOAD_FAILED"
  <2>1. team' = [team EXCEPT ![s] = team[s]]
    BY <1>6 DEF ProcessSaveTeam
  <2>2. team[s].run # NoRun => InTeam(s)
    BY DEF InTeam
  <2>3. QED
    BY <1>1, <1>2, <2>1, <2>2, AnswerInv
<1>7. QED
  BY <1>3, <1>4, <1>5, <1>6

\* A request that goes on without an effect.
LEMMA StageInv ==
    ASSUME IInv, NEW s \in Servers, job[s].kind # "none",
           NEW stage \in {"normal", "after", "file", "done"},
           job' = [job EXCEPT ![s].stage = stage], team' = team, UNCHANGED tables,
           trouble' \in 0 .. MaxTrouble,
           Saving(s) => /\ stage \in {"normal", "after"}
                        /\ job[s].stage \in {"first", "normal"},
           Loading(s) => /\ stage \in {"file", "done"}
                         /\ job[s].status = "LOAD_FAILED"
    PROVE  IInv'
<1> DEFINE j == [job[s] EXCEPT !.stage = stage]
<1>1. /\ job[s] \in Job /\ JobShape(job[s]) /\ job[s].save <= made
      /\ team[s] \in Team /\ team \in [Servers -> Team] /\ TeamShape(team[s])
      /\ job[s].wanted => team[s].members \subseteq job[s].party
  BY Here
<1>2. job' = [job EXCEPT ![s] = j] /\ team' = [team EXCEPT ![s] = team[s]]
  BY <1>1
<1>3. j \in Job
  BY <1>1 DEF Job
<1>4. /\ j.kind = job[s].kind /\ j.save = job[s].save /\ j.party = job[s].party
      /\ j.code = job[s].code /\ j.stage = stage /\ j.ok = job[s].ok
      /\ j.status = job[s].status /\ j.told = job[s].told /\ j.wanted = job[s].wanted
  BY <1>1 DEF Job
<1> HIDE DEF j
<1>5. job[s].kind \in {"save", "load"}
  BY <1>1 DEF Job
<1>6. JobShape(j)
  BY <1>1, <1>4, <1>5 DEF JobShape, Saving, Loading
<1>7. GoesOn(job[s], j)
  BY <1>4, <1>5 DEF GoesOn, Saving, Loading
<1>8. Carrying(j) => Carries(s)
  BY <1>4, <1>5 DEF Carrying, Carries, Saving
<1>9. Carries(s) /\ InTeam(s) => ~Certain
  BY DEF IInv, Single, NoCarrier
<1>10. QED
  BY <1>1, <1>2, <1>3, <1>4, <1>6, <1>7, <1>8, <1>9, RequestInv DEF InTeam

-----------------------------------------------------------------------------
(* Loading.                                                                 *)

LEMMA LoadTeamInv ==
    ASSUME IInv, NEW s \in Servers, NEW code \in (UserCodes \ Taken) \cup 1 .. made,
           LoadTeam(s, code)
    PROVE  IInv'
<1> DEFINE j == [NoJob EXCEPT !.kind = "load", !.party = team[s].members, !.code = code,
                              !.stage = "select", !.status = "LOAD_FAILED", !.wanted = TRUE]
<1>1. /\ team[s] \in Team /\ team \in [Servers -> Team] /\ TeamShape(team[s])
      /\ made \in 0 .. MaxSaves
  BY Here DEF IInv, TypeOK
<1>2. /\ job' = [job EXCEPT ![s] = j] /\ team' = [team EXCEPT ![s] = team[s]]
      /\ UNCHANGED tables /\ trouble' \in 0 .. MaxTrouble /\ team[s].members # {}
      /\ ~team[s].started
  BY <1>1, TroubleType DEF LoadTeam
<1>3. code \in Codes
  BY <1>1, BoundsAssumption DEF Codes
<1>4. team[s].members \in SUBSET Names
  BY <1>1 DEF Team
<1>5. NoJob \in Job /\ NoJob.save = 0 /\ ~NoJob.ok
  BY NoJobShape
<1>6. j \in Job
  BY <1>3, <1>4, <1>5 DEF Job
<1>7. /\ j.kind = "load" /\ j.save = 0 /\ j.party = team[s].members /\ j.stage = "select"
      /\ ~j.ok /\ j.status = "LOAD_FAILED"
  BY <1>5 DEF Job
<1> HIDE DEF j
<1>8. JobShape(j) /\ GoesOn(job[s], j) /\ j.save <= made /\ ~Carrying(j)
  BY <1>1, <1>2, <1>7 DEF JobShape, GoesOn, Carrying
<1>9. QED
  BY <1>1, <1>2, <1>6, <1>7, <1>8, RequestInv DEF InTeam

\* The row found has the team's players, so it is a savegame of the team.
LEMMA LoadSelectInv == ASSUME IInv, NEW s \in Servers, LoadSelect(s) PROVE IInv'
<1>1. /\ job[s] \in Job /\ JobShape(job[s]) /\ job[s].stage = "select"
      /\ team[s] \in Team /\ team \in [Servers -> Team] /\ TeamShape(team[s])
      /\ job[s].wanted => team[s].members \subseteq job[s].party
      /\ team' = team /\ UNCHANGED tables
  BY Here DEF LoadSelect
<1>2. job[s].kind = "load" /\ job[s].status = "LOAD_FAILED"
  BY <1>1 DEF JobShape, Job
<1>3. CASE \/ job' = [job EXCEPT ![s].stage = "done"] /\ UNCHANGED trouble
           \/ job' = [job EXCEPT ![s].stage = "file"] /\ Trouble
  BY <1>1, <1>2, <1>3, StageInv, TroubleType DEF Saving, Loading
<1>4. CASE UNCHANGED trouble /\ \E r \in Loadable(saves, job[s]) :
              job' = [job EXCEPT ![s].stage = "delete", ![s].save = r.save]
  <2>1. PICK r \in Loadable(saves, job[s]) :
              job' = [job EXCEPT ![s].stage = "delete", ![s].save = r.save]
    BY <1>4
  <2> DEFINE j == [job[s] EXCEPT !.stage = "delete", !.save = r.save]
  <2>2. r \in saves /\ r \in Row /\ RowShape(r) /\ r.code = job[s].code /\ r.party = job[s].party
    BY <2>1 DEF Loadable, Coded, IInv, TypeOK, RowsShaped
  <2>3. job[s].party # {} /\ r.save # 0 /\ r.save <= made /\ r.save \in 0 .. MaxSaves
    BY <1>1, <1>2, <2>2 DEF JobShape, RowShape, Row
  <2>4. job' = [job EXCEPT ![s] = j] /\ team' = [team EXCEPT ![s] = team[s]]
        /\ trouble' \in 0 .. MaxTrouble
    BY <1>1, <1>4, <2>1, TroubleType
  <2>5. j \in Job
    BY <1>1, <2>3 DEF Job
  <2>6. /\ j.kind = "load" /\ j.save = r.save /\ j.party = job[s].party
        /\ j.code = job[s].code /\ j.stage = "delete" /\ j.ok = job[s].ok
        /\ j.status = "LOAD_FAILED" /\ j.told = job[s].told /\ j.wanted = job[s].wanted
    BY <1>1, <1>2 DEF Job
  <2> HIDE DEF j
  <2>7. JobShape(j) /\ GoesOn(job[s], j) /\ j.save <= made /\ ~Carrying(j)
    BY <2>2, <2>3, <2>6 DEF JobShape, GoesOn, Carrying
  <2>8. QED
    BY <1>1, <2>4, <2>5, <2>6, <2>7, RequestInv DEF InTeam
<1>5. QED
  BY <1>3, <1>4 DEF LoadSelect

\* Rows the request of s deletes to load them, from the database or from a file.
LEMMA LoadedTables ==
    ASSUME IInv, NEW s \in Servers, NEW j \in Job, ~Saving(s), j.kind = "load", j.stage # "delete",
           job' = [job EXCEPT ![s] = j], saves' \subseteq saves, backup' = backup,
           made' = made,
           loaded \subseteq loaded', loaded' \subseteq 1 .. made,
           \A r \in saves : r \in saves' \/ r.save \in loaded',
           \A i \in Servers : file'[i] \subseteq file[i] /\ (i # s => file'[i] = file[i]),
           \A n \in loaded' : n \in loaded \/ (\E r \in saves : r.save = n)
                                \/ \E r \in file[s] : r.save = n,
           \A n \in 1 .. made : <<"delete", n>> \in unsure' => <<"delete", n>> \in unsure \/ n \in loaded'
    PROVE  TablesInv'
<1>1. job'[s] = j /\ \A i \in Servers \ {s} : job'[i] = job[i]
  BY DEF IInv, TypeOK
<1>2. RowsShaped'
  BY DEF IInv, RowsShaped, RowShape
<1>3. NumbersOwn'
  BY <1>1 DEF IInv, NumbersOwn, Saving
<1>4. NotYetWritten'
  <2> SUFFICES ASSUME NEW i \in Servers, Saving(i)'
               PROVE  /\ job'[i].stage \in {"first", "normal"} =>
                            job'[i].save \notin loaded' /\ \A r \in saves' : r.save # job'[i].save
                      /\ job'[i].status = "SAVE_FAILED" =>
                            \A r \in backup'[i] : r.save # job'[i].save
                      /\ job'[i].stage # "done" =>
                            \A t \in Servers : \A r \in file'[t] : r.save # job'[i].save
    BY DEF NotYetWritten
  <2>1. i # s /\ job'[i] = job[i] /\ Saving(i)
    BY <1>1 DEF Saving
  <2>2. /\ job[i].stage \in {"first", "normal"} =>
              job[i].save \notin loaded /\ \A r \in saves : r.save # job[i].save
        /\ job[i].status = "SAVE_FAILED" => \A r \in backup[i] : r.save # job[i].save
        /\ job[i].stage # "done" => \A t \in Servers : \A r \in file[t] : r.save # job[i].save
    BY <2>1 DEF IInv, NotYetWritten
  <2>3. QED
    BY <2>1, <2>2
<1>5. Written'
  <2> SUFFICES ASSUME NEW i \in Servers, Saving(i)', job'[i].status = "SAVE_SUCCESS"
               PROVE  IF job'[i].ok
                      THEN job'[i].save \in loaded'
                             \/ SavedRow(job'[i], job'[i].told) \in saves'
                      ELSE /\ job'[i].told = job'[i].save
                           /\ SavedRow(job'[i], job'[i].save) \in file'[i] \cup backup'[i]
                           /\ job'[i].stage # "done" =>
                                 SavedRow(job'[i], job'[i].save) \in backup'[i]
    BY DEF Written, SavedRow
  <2>1. i # s /\ job'[i] = job[i] /\ Saving(i) /\ file'[i] = file[i]
    BY <1>1 DEF Saving
  <2>2. CASE job[i].ok
    <3>1. job[i].save \in loaded \/ SavedRow(job[i], job[i].told) \in saves
      BY <2>1, <2>2 DEF IInv, Written
    <3>2. SavedRow(job[i], job[i].told).save = job[i].save
      BY DEF SavedRow
    <3>3. QED
      BY <2>1, <2>2, <3>1, <3>2
  <2>3. CASE ~job[i].ok
    BY <2>1, <2>3 DEF IInv, Written
  <2>4. QED
    BY <2>2, <2>3
<1>6. DeletedIsLoaded'
  <2>1. \A n \in 1 .. made : <<"delete", n>> \in unsure' => n \in loaded'
    BY DEF IInv, DeletedIsLoaded
  <2>2. \A i \in Servers : Loading(i)' /\ job'[i].stage = "delete" =>
          job'[i].save \in loaded' \/ \E r \in saves' : r.code = job'[i].code /\ r.save = job'[i].save
    <3> SUFFICES ASSUME NEW i \in Servers, Loading(i)', job'[i].stage = "delete"
                 PROVE  job'[i].save \in loaded' \/
                        \E r \in saves' : r.code = job'[i].code /\ r.save = job'[i].save
      OBVIOUS
    <3>1. i # s /\ job'[i] = job[i] /\ Loading(i)
      BY <1>1 DEF Loading
    <3>2. job[i].save \in loaded \/ \E r \in saves : r.code = job[i].code /\ r.save = job[i].save
      BY <3>1 DEF IInv, DeletedIsLoaded
    <3>3. QED
      BY <3>1, <3>2
  <2>3. QED
    BY <2>1, <2>2 DEF DeletedIsLoaded
<1>7. QED
  BY <1>2, <1>3, <1>4, <1>5, <1>6 DEF TablesInv

\* The request of s goes on as j with the progress of a row it deleted, or without.
LEMMA LoadedInv ==
    ASSUME IInv, NEW s \in Servers, NEW j \in Job, TypeOK', TablesInv',
           JobShape(j), j.save <= made, j.party = job[s].party, j.wanted = job[s].wanted,
           job' = [job EXCEPT ![s] = j], saves' \subseteq saves, made' = made, team' = team,
           \A i \in Servers : file'[i] \subseteq file[i], Certain' => Certain,
           Carrying(j) => \/ Carries(s)
                          \/ \E r \in saves : r \notin saves' /\ r.party # {}
                          \/ \E r \in file[s] : r \notin file'[s]
    PROVE  IInv'
<1>1. /\ job'[s] = j /\ \A i \in Servers \ {s} : job'[i] = job[i]
  BY DEF IInv, TypeOK
<1>2. JobsShaped' /\ TeamsShaped'
  BY <1>1 DEF IInv, JobsShaped, TeamsShaped
<1>3. ASSUME Certain' PROVE Single'
  <2>1. Single
    BY <1>3 DEF IInv
  <2>2. /\ Carries(s)' <=> Carrying(j)
        /\ \A i \in Servers \ {s} : Carries(i)' <=> Carries(i)
        /\ \A i \in Servers : InTeam(i)' <=> InTeam(i)
    BY <1>1 DEF InTeam, Carries
  <2>3. CASE Carrying(j) => Carries(s)
    BY <2>1, <2>2, <2>3, SingleShrinks
  <2>4. CASE Carrying(j) /\ ~Carries(s)
    <3>1. /\ \A i \in Servers : ~InTeam(i) /\ ~Carries(i)
          /\ \A r \in saves' : r.party = {}
          /\ \A i \in Servers : file'[i] = {}
      BY <2>1, <2>4 DEF Single, NoCarrier, NoRow, NoFile
    <3>2. /\ NoRow' /\ NoFile'
          /\ \A i \in Servers : ~InTeam(i)'
          /\ \A i \in Servers \ {s} : ~Carries(i)'
      BY <2>2, <3>1 DEF NoRow, NoFile
    <3>3. QED
      BY <3>2 DEF Single, NoRow, NoFile
  <2>5. QED
    BY <2>3, <2>4
<1>4. QED
  BY <1>2, <1>3 DEF IInv, TablesInv

\* The row selected is deleted: the request has its progress, unless the answer is lost.
LEMMA LoadDeleteInv == ASSUME IInv, NEW s \in Servers, LoadDelete(s) PROVE IInv'
<1> DEFINE gone == Selected(job[s])
<1>1. /\ job[s] \in Job /\ JobShape(job[s]) /\ job[s].stage = "delete"
      /\ job \in [Servers -> Job] /\ job[s].save <= made
      /\ team' = team /\ backup' = backup /\ file' = file /\ made' = made
  BY Here DEF LoadDelete
<1>2. job[s].kind = "load" /\ job[s].status = "LOAD_FAILED" /\ job[s].save # 0
  BY <1>1 DEF JobShape, Job
<1>3. \A r \in gone : r \in saves /\ r.save = job[s].save /\ r \in Row /\ r.party # {}
  BY <1>2 DEF Selected, Coded, IInv, TypeOK, RowsShaped, RowShape
<1>4. job[s].save \in 1 .. made
  BY <1>1, <1>2 DEF Job, IInv, TypeOK
<1>5. ASSUME UNCHANGED <<saves, loaded, unsure>>, Trouble,
             job' = [job EXCEPT ![s].stage = "file"]
      PROVE  IInv'
  <2>1. trouble' \in 0 .. MaxTrouble /\ UNCHANGED tables
    BY <1>1, <1>5, TroubleType DEF tables
  <2>2. QED
    BY <1>1, <1>2, <1>5, <2>1, StageInv DEF Saving, Loading
<1>6. ASSUME NEW st \in {"done", "file"},
             NEW status \in {"LOAD_FAILED", "LOAD_SUCCESS"},
             status = "LOAD_SUCCESS" => gone # {} /\ st = "done",
             job' = [job EXCEPT ![s] = [job[s] EXCEPT !.stage = st, !.status = status]],
             saves' = saves \ gone, loaded' = loaded \cup {r.save : r \in gone},
             \/ unsure' = unsure
             \/ unsure' = unsure \cup {<<"delete", job[s].save>>},
             trouble' \in 0 .. MaxTrouble
      PROVE  IInv'
  <2> DEFINE j == [job[s] EXCEPT !.stage = st, !.status = status]
  <2>1. j \in Job
    BY <1>1 DEF Job
  <2>2. /\ j.kind = "load" /\ j.save = job[s].save /\ j.party = job[s].party
        /\ j.code = job[s].code /\ j.stage = st /\ j.ok = job[s].ok
        /\ j.status = status /\ j.told = job[s].told /\ j.wanted = job[s].wanted
    BY <1>1, <1>2 DEF Job
  <2>3. job' = [job EXCEPT ![s] = j]
    BY <1>6
  <2> HIDE DEF j
  <2>4. JobShape(j)
    BY <1>1, <1>2, <1>6, <2>2 DEF JobShape
  <2>5. Carrying(j) => gone # {}
    BY <1>6, <2>2 DEF Carrying
  <2>6. gone # {} \/ job[s].save \in loaded
    BY <1>1, <1>2 DEF IInv, DeletedIsLoaded, Loading, Selected, Coded
  <2> HIDE DEF gone
  <2>7. loaded' \subseteq 1 .. made /\ loaded \subseteq loaded' /\ job[s].save \in loaded'
    BY <1>3, <1>4, <1>6, <2>6 DEF IInv, TypeOK
  <2>8. unsure' \subseteq {"insert", "delete"} \X (1 .. made)
    BY <1>4, <1>6 DEF IInv, TypeOK
  <2>9. TypeOK'
    <3>1. job' \in [Servers -> Job]
      BY <1>1, <2>1, <2>3
    <3>2. saves' \subseteq Row
      BY <1>6 DEF IInv, TypeOK
    <3>3. QED
      BY <1>1, <1>6, <2>7, <2>8, <3>1, <3>2 DEF IInv, TypeOK
  <2>10. \A r \in saves : r \in saves' \/ r.save \in loaded'
    BY <1>6
  <2>11. \A n \in loaded' : n \in loaded \/ \E r \in saves : r.save = n
    BY <1>3, <1>6
  <2>12. \A n \in 1 .. made : <<"delete", n>> \in unsure' =>
             <<"delete", n>> \in unsure \/ n \in loaded'
    BY <1>6, <2>7
  <2>13. ~Saving(s)
    BY <1>2 DEF Saving
  <2>14. \A i \in Servers : file'[i] \subseteq file[i] /\ (i # s => file'[i] = file[i])
    BY <1>1
  <2>15. j.stage # "delete" /\ saves' \subseteq saves
    BY <1>6, <2>2
  <2>16. TablesInv'
    BY <1>1, <2>1, <2>2, <2>3, <2>7, <2>10, <2>11, <2>12, <2>13, <2>14, <2>15, LoadedTables
  <2>17. Certain' => Certain
    BY <1>6 DEF Certain
  <2>18. Carrying(j) => \E r \in saves : r \notin saves' /\ r.party # {}
    BY <1>3, <1>6, <2>5
  <2>19. QED
    BY <1>1, <2>1, <2>2, <2>3, <2>4, <2>9, <2>14, <2>15, <2>16, <2>17, <2>18, LoadedInv
<1>7. CASE /\ saves' = saves \ gone /\ loaded' = loaded \cup {r.save : r \in gone}
           /\ job' = [job EXCEPT ![s].stage = "done", ![s].status = Deleted(gone)]
           /\ UNCHANGED <<unsure, trouble>>
  <2>1. /\ Deleted(gone) \in {"LOAD_FAILED", "LOAD_SUCCESS"}
        /\ Deleted(gone) = "LOAD_SUCCESS" => gone # {}
    BY DEF Deleted
  <2>2. /\ job' = [job EXCEPT ![s] = [job[s] EXCEPT !.stage = "done", !.status = Deleted(gone)]]
        /\ trouble' \in 0 .. MaxTrouble
    BY <1>1, <1>7, TroubleType
  <2>3. QED
    BY <1>6, <1>7, <2>1, <2>2
<1>8. CASE /\ Trouble /\ saves' = saves \ gone /\ loaded' = loaded \cup {r.save : r \in gone}
           /\ unsure' = unsure \cup {<<"delete", job[s].save>>}
           /\ job' = [job EXCEPT ![s].stage = "file"]
  <2>1. /\ job' = [job EXCEPT ![s] = [job[s] EXCEPT !.stage = "file", !.status = "LOAD_FAILED"]]
        /\ trouble' \in 0 .. MaxTrouble
    <3>1. [job[s] EXCEPT !.stage = "file"]
             = [job[s] EXCEPT !.stage = "file", !.status = "LOAD_FAILED"]
      BY <1>1, <1>2 DEF Job
    <3>2. QED
      BY <1>1, <1>8, <3>1, TroubleType
  <2>2. QED
    BY <1>6, <1>8, <2>1
<1>9. QED
  BY <1>5, <1>7, <1>8 DEF LoadDelete

LEMMA LoadFileInv == ASSUME IInv, NEW s \in Servers, LoadFile(s) PROVE IInv'
<1>1. /\ job[s] \in Job /\ JobShape(job[s]) /\ job[s].stage = "file"
      /\ job \in [Servers -> Job]
      /\ team' = team /\ saves' = saves /\ backup' = backup /\ made' = made
      /\ unsure' = unsure /\ trouble' = trouble
  BY Here DEF LoadFile
<1>2. job[s].kind = "load" /\ job[s].status = "LOAD_FAILED"
  BY <1>1 DEF JobShape, Job
<1>3. CASE job' = [job EXCEPT ![s].stage = "done"] /\ UNCHANGED <<file, loaded>>
  <2>1. trouble' \in 0 .. MaxTrouble /\ UNCHANGED tables
    BY <1>1, <1>3 DEF IInv, TypeOK, tables
  <2>2. QED
    BY <1>1, <1>2, <1>3, <2>1, StageInv DEF Saving, Loading
<1>4. ASSUME NEW r \in Loadable(file[s], job[s]),
             file' = [file EXCEPT ![s] = @ \ {r}], loaded' = loaded \cup {r.save},
             job' = [job EXCEPT ![s].stage = "done", ![s].save = r.save,
                                ![s].status = "LOAD_SUCCESS"]
      PROVE  IInv'
  <2> DEFINE j == [job[s] EXCEPT !.stage = "done", !.save = r.save, !.status = "LOAD_SUCCESS"]
  <2>1. /\ r \in file[s] /\ r \in Row /\ RowShape(r) /\ r.save # 0
        /\ file \in [Servers -> SUBSET Row] /\ loaded \subseteq 1 .. made
    BY DEF Loadable, Coded, IInv, TypeOK, RowsShaped
  <2>2. r.save \in 0 .. MaxSaves /\ r.save \in 1 .. made
    BY <2>1 DEF RowShape, Row, IInv, TypeOK
  <2>3. j \in Job
    BY <1>1, <2>2 DEF Job
  <2>4. /\ j.kind = "load" /\ j.save = r.save /\ j.party = job[s].party
        /\ j.code = job[s].code /\ j.stage = "done" /\ j.ok = job[s].ok
        /\ j.status = "LOAD_SUCCESS" /\ j.told = job[s].told /\ j.wanted = job[s].wanted
    BY <1>1, <1>2 DEF Job
  <2>5. job' = [job EXCEPT ![s] = j]
    BY <1>1, <1>4
  <2> HIDE DEF j
  <2>6. JobShape(j) /\ j.save <= made
    BY <1>1, <1>2, <2>1, <2>4 DEF JobShape, RowShape
  <2>7. /\ file' \in [Servers -> SUBSET Row] /\ file'[s] = file[s] \ {r}
        /\ \A i \in Servers \ {s} : file'[i] = file[i]
    BY <1>4, <2>1
  <2>8. TypeOK'
    <3>1. job' \in [Servers -> Job]
      BY <1>1, <2>3, <2>5
    <3>2. loaded' \subseteq 1 .. made
      BY <1>4, <2>1, <2>2
    <3>3. QED
      BY <1>1, <2>7, <3>1, <3>2 DEF IInv, TypeOK
  <2>9. ~Saving(s)
    BY <1>2 DEF Saving
  <2>10. \A i \in Servers : file'[i] \subseteq file[i] /\ (i # s => file'[i] = file[i])
    BY <2>7
  <2>11. /\ loaded \subseteq loaded' /\ loaded' \subseteq 1 .. made
         /\ \A n \in loaded' : n \in loaded \/ \E q \in file[s] : q.save = n
    BY <1>4, <2>1, <2>2
  <2>12. TablesInv'
    BY <1>1, <2>3, <2>4, <2>5, <2>9, <2>10, <2>11, LoadedTables
  <2>13. Certain' => Certain
    BY <1>1 DEF Certain
  <2>14. \E q \in file[s] : q \notin file'[s]
    BY <2>1, <2>7
  <2>15. saves' \subseteq saves /\ \A i \in Servers : file'[i] \subseteq file[i]
    BY <1>1, <2>10
  <2>16. QED
    BY <1>1, <2>3, <2>4, <2>5, <2>6, <2>8, <2>12, <2>13, <2>14, <2>15, LoadedInv
<1>5. QED
  BY <1>3, <1>4 DEF LoadFile

-----------------------------------------------------------------------------
(* Saving.                                                                  *)

\* The request takes the progress out of the game, under a number of its own.
LEMMA SaveTeamInv ==
    ASSUME IInv, NEW s \in Servers, NEW code \in UserCodes \cup {NoCode}, SaveTeam(s, code)
    PROVE  IInv'
<1> DEFINE j == [NoJob EXCEPT !.kind = "save", !.save = made + 1,
                              !.party = team[s].members, !.code = code,
                              !.stage = "first", !.status = "SAVE_FAILED", !.wanted = TRUE]
           t == [team[s] EXCEPT !.run = NoRun, !.tees = {}]
<1>1. /\ team[s] \in Team /\ team \in [Servers -> Team] /\ TeamShape(team[s])
      /\ job \in [Servers -> Job] /\ made \in 0 .. MaxSaves
      /\ saves \subseteq Row /\ backup \in [Servers -> SUBSET Row]
      /\ file \in [Servers -> SUBSET Row]
      /\ loaded \subseteq 1 .. made /\ unsure \subseteq {"insert", "delete"} \X (1 .. made)
      /\ trouble \in 0 .. MaxTrouble
  BY Here DEF IInv, TypeOK
<1>2. /\ job[s] = NoJob /\ made < MaxSaves
      /\ team[s].started /\ team[s].tees = team[s].members
      /\ job' = [job EXCEPT ![s] = j] /\ team' = [team EXCEPT ![s] = t] /\ made' = made + 1
      /\ saves' = saves /\ backup' = backup /\ file' = file /\ loaded' = loaded
      /\ unsure' = unsure /\ trouble' = trouble
  BY <1>1 DEF SaveTeam
<1>3. InTeam(s) /\ team[s].members # {}
  BY <1>1, <1>2 DEF InTeam, TeamShape
<1>4. /\ made + 1 \in 1 .. MaxSaves /\ made + 1 \in 0 .. MaxSaves /\ made' \in 0 .. MaxSaves
      /\ made \in Nat
  BY <1>1, <1>2, BoundsAssumption
<1>5. NoJob \in Job /\ ~NoJob.ok /\ NoJob.kind = "none"
  BY NoJobShape
<1>6. team[s].members \in SUBSET Names /\ code \in Codes \cup {NoCode}
  BY <1>1 DEF Team, Codes
<1>7. j \in Job
  BY <1>4, <1>5, <1>6 DEF Job
<1>8. /\ j.kind = "save" /\ j.save = made + 1 /\ j.party = team[s].members
      /\ j.stage = "first" /\ ~j.ok /\ j.status = "SAVE_FAILED" /\ j.wanted /\ j.code = code
  BY <1>5 DEF Job
<1>9. t \in Team
  BY <1>1 DEF Team
<1>10. /\ t.members = team[s].members /\ t.started = team[s].started
       /\ t.run = NoRun /\ t.tees = {}
  BY <1>1 DEF Team
<1> HIDE DEF j, t
<1>11. JobShape(j) /\ TeamShape(t)
  BY <1>2, <1>3, <1>4, <1>8, <1>10 DEF JobShape, TeamShape
<1>12. /\ job'[s] = j /\ \A i \in Servers \ {s} : job'[i] = job[i]
       /\ team'[s] = t /\ \A i \in Servers \ {s} : team'[i] = team[i]
  BY <1>1, <1>2
<1>13. TypeOK'
  <2>1. job' \in [Servers -> Job] /\ team' \in [Servers -> Team]
    BY <1>1, <1>2, <1>7, <1>9
  <2>2. loaded' \subseteq 1 .. made' /\ unsure' \subseteq {"insert", "delete"} \X (1 .. made')
    BY <1>1, <1>2, <1>4
  <2>3. QED
    BY <1>1, <1>2, <1>4, <2>1, <2>2 DEF TypeOK
<1>14. \A i \in Servers : job[i].save <= made /\ job[i].save \in Nat
  BY DEF IInv, JobsShaped, TypeOK, Job
<1>15. JobsShaped'
  <2>1. \A i \in Servers \ {s} : JobShape(job[i])
    BY DEF IInv, JobsShaped
  <2>2. QED
    BY <1>2, <1>4, <1>8, <1>11, <1>12, <1>14, <2>1 DEF JobsShaped
<1>16. TeamsShaped'
  BY <1>8, <1>10, <1>11, <1>12 DEF IInv, TeamsShaped
<1>17. NumbersOwn'
  BY <1>4, <1>8, <1>12, <1>14 DEF IInv, NumbersOwn, Saving
<1>18. /\ \A r \in saves : r.save <= made /\ r.save \in Nat
       /\ \A i \in Servers : \A r \in file[i] : r.save <= made /\ r.save \in Nat
       /\ \A i \in Servers : \A r \in backup[i] : r.save <= made /\ r.save \in Nat
  BY <1>1 DEF IInv, RowsShaped, RowShape, Row
<1>19. RowsShaped'
  <2>1. \A r : RowShape(r) /\ r.save \in Nat => RowShape(r)'
    BY <1>2, <1>4 DEF RowShape
  <2>2. QED
    BY <1>2, <1>18, <2>1 DEF IInv, RowsShaped
<1>20. NotYetWritten'
  <2>1. /\ made + 1 \notin loaded /\ \A r \in saves : r.save # made + 1
        /\ \A r \in backup[s] : r.save # made + 1
        /\ \A i \in Servers : \A r \in file[i] : r.save # made + 1
    BY <1>1, <1>4, <1>18
  <2>2. QED
    BY <1>2, <1>8, <1>12, <2>1 DEF IInv, NotYetWritten, Saving
<1>21. Written'
  BY <1>2, <1>8, <1>12 DEF IInv, Written, Saving, SavedRow
<1>22. DeletedIsLoaded'
  <2>1. \A n \in 1 .. made' : <<"delete", n>> \in unsure' => n \in loaded'
    BY <1>1, <1>2, <1>4 DEF IInv, DeletedIsLoaded
  <2>2. QED
    BY <1>2, <1>8, <1>12, <2>1 DEF IInv, DeletedIsLoaded, Loading
<1>23. ASSUME Certain' PROVE Single'
  <2>1. Single
    BY <1>2, <1>23 DEF Certain, IInv
  <2>2. /\ Carries(s)' /\ ~InTeam(s)'
        /\ \A i \in Servers \ {s} : (Carries(i)' <=> Carries(i)) /\ (InTeam(i)' <=> InTeam(i))
    BY <1>8, <1>10, <1>12 DEF Carries, Carrying, InTeam
  <2>3. /\ NoRow /\ NoFile /\ \A i \in Servers \ {s} : ~InTeam(i) /\ ~Carries(i)
    BY <1>3, <2>1 DEF Single, NoCarrier
  <2>4. NoRow' /\ NoFile' /\ (\A i \in Servers \ {s} : ~Carries(i)') /\ \A i \in Servers : ~InTeam(i)'
    BY <1>2, <2>2, <2>3 DEF NoRow, NoFile
  <2>5. QED
    BY <2>4 DEF Single, NoRow, NoFile
<1>24. QED
  BY <1>13, <1>15, <1>16, <1>17, <1>19, <1>20, <1>21, <1>22, <1>23 DEF IInv

\* The number a request saves under is a code of its own.
LEMMA OwnCode ==
    ASSUME IInv, NEW s \in Servers, Saving(s)
    PROVE  /\ job[s].save \in 1 .. made /\ job[s].save \in Codes /\ job[s].party # {}
           /\ job[s].party \in SUBSET Names
           /\ \A r \in Row : RowShape(r) /\ r.code = job[s].save => r.save = job[s].save
<1>1. job[s] \in Job /\ JobShape(job[s]) /\ job[s].save <= made /\ made \in 0 .. MaxSaves
  BY Here DEF IInv, TypeOK
<1>2. job[s].save # 0 /\ job[s].party # {}
  BY <1>1 DEF JobShape, Saving
<1>3. job[s].save \in 0 .. MaxSaves /\ job[s].party \in SUBSET Names
  BY <1>1 DEF Job
<1>4. job[s].save \in 1 .. made /\ job[s].save \in 1 .. MaxSaves
  BY <1>1, <1>2, <1>3, BoundsAssumption
<1>5. QED
  BY <1>2, <1>3, <1>4 DEF Codes, RowShape

\* The backup gets a row for the progress the request goes on to carry.
LEMMA SaveFirstInv == ASSUME IInv, NEW s \in Servers, SaveFirst(s) PROVE IInv'
<1> DEFINE n == job[s].save
           row == SavedRow(job[s], n)
<1>1. /\ job[s] \in Job /\ JobShape(job[s]) /\ job[s].stage = "first"
      /\ job \in [Servers -> Job] /\ job[s].save <= made
      /\ team' = team /\ saves' = saves /\ file' = file /\ made' = made
      /\ loaded' = loaded /\ unsure' = unsure
      /\ backup \in [Servers -> SUBSET Row]
  BY Here DEF SaveFirst, IInv, TypeOK
<1>2. job[s].kind = "save" /\ job[s].status = "SAVE_FAILED" /\ ~job[s].ok /\ Saving(s)
  BY <1>1 DEF JobShape, Job, Saving
<1>3. CASE /\ job' = [job EXCEPT ![s].stage = "normal"] /\ UNCHANGED backup
           /\ Trouble \/ UNCHANGED trouble
  <2>1. trouble' \in 0 .. MaxTrouble /\ UNCHANGED tables
    BY <1>1, <1>3, TroubleType DEF tables
  <2>2. QED
    BY <1>1, <1>2, <1>3, <2>1, StageInv DEF Saving, Loading
<1>4. CASE /\ backup' = [backup EXCEPT ![s] = Inserted(@, row)]
           /\ job' = [job EXCEPT ![s].stage = "normal", ![s].told = n,
                                 ![s].status = "SAVE_SUCCESS"]
           /\ UNCHANGED trouble
  <2> DEFINE j == [job[s] EXCEPT !.stage = "normal", !.told = n, !.status = "SAVE_SUCCESS"]
  <2>1. /\ n \in 1 .. made /\ n \in Codes /\ job[s].party # {} /\ job[s].party \in SUBSET Names
        /\ \A r \in Row : RowShape(r) /\ r.code = n => r.save = n
    BY <1>2, OwnCode
  <2>2. n \in Nat /\ n # 0 /\ n <= made /\ n \in 0 .. MaxSaves
    BY <1>1, <2>1 DEF Job
  <2>3. row.code = n /\ row.save = n /\ row.party = job[s].party
    BY DEF SavedRow
  <2>4. row \in Row
    BY <2>1, <2>2 DEF Row, SavedRow
  <2>5. j \in Job
    BY <1>1, <2>1 DEF Job
  <2>6. /\ j.kind = "save" /\ j.save = n /\ j.party = job[s].party
        /\ j.code = job[s].code /\ j.stage = "normal" /\ ~j.ok
        /\ j.status = "SAVE_SUCCESS" /\ j.told = n /\ j.wanted = job[s].wanted
    BY <1>1, <1>2 DEF Job
  <2>7. job' = [job EXCEPT ![s] = j]
    BY <1>1, <1>4
  <2>8. SavedRow(j, n) = row
    BY <2>6 DEF SavedRow
  <2> HIDE DEF j, row
  <2>9. job'[s] = j /\ \A i \in Servers \ {s} : job'[i] = job[i]
    BY <1>1, <2>7
  <2>10. Coded(backup[s], n) = {}
    BY <1>2, <2>1 DEF Coded, IInv, NotYetWritten, RowsShaped, TypeOK
  <2>11. backup' = [backup EXCEPT ![s] = backup[s] \cup {row}]
    BY <1>1, <1>4, <2>3, <2>10 DEF Inserted
  <2>12. /\ backup'[s] = backup[s] \cup {row}
         /\ \A i \in Servers \ {s} : backup'[i] = backup[i]
         /\ backup' \in [Servers -> SUBSET Row]
    BY <1>1, <2>4, <2>11
  <2>13. TypeOK'
    <3>1. job' \in [Servers -> Job]
      BY <1>1, <2>5, <2>7
    <3>2. QED
      BY <1>1, <1>4, <2>12, <3>1 DEF IInv, TypeOK
  <2>14. JobShape(j)
    BY <1>1, <1>2, <2>1, <2>2, <2>6 DEF JobShape
  <2>15. JobsShaped' /\ TeamsShaped'
    BY <1>1, <2>2, <2>6, <2>9, <2>14 DEF IInv, JobsShaped, TeamsShaped
  <2>16. NumbersOwn' /\ DeletedIsLoaded'
    BY <1>1, <1>2, <2>6, <2>9 DEF IInv, NumbersOwn, DeletedIsLoaded, Saving, Loading
  <2>17. RowsShaped'
    <3>1. RowShape(row)
      BY <2>1, <2>2, <2>3 DEF RowShape
    <3>2. \A r \in backup[s] : r.save # n
      BY <1>2 DEF IInv, NotYetWritten
    <3>3. \A r \in backup'[s] : /\ RowShape(r) /\ r.code = r.save /\ r.save # 0
                                /\ \A q \in backup'[s] : q.save = r.save => q = r
      BY <2>2, <2>3, <2>12, <3>1, <3>2 DEF IInv, RowsShaped
    <3>4. \A i \in Servers \ {s} : \A r \in backup'[i] :
             /\ RowShape(r) /\ r.code = r.save /\ r.save # 0
             /\ \A q \in backup'[i] : q.save = r.save => q = r
      BY <2>12 DEF IInv, RowsShaped
    <3>5. QED
      BY <1>1, <3>3, <3>4 DEF IInv, RowsShaped, RowShape
  <2>18. NotYetWritten'
    <3> SUFFICES ASSUME NEW i \in Servers, Saving(i)'
                 PROVE  /\ job'[i].stage \in {"first", "normal"} =>
                              job'[i].save \notin loaded /\ \A r \in saves : r.save # job'[i].save
                        /\ job'[i].status = "SAVE_FAILED" =>
                              \A r \in backup'[i] : r.save # job'[i].save
                        /\ job'[i].stage # "done" =>
                              \A t \in Servers : \A r \in file[t] : r.save # job'[i].save
      BY <1>1 DEF NotYetWritten
    <3>1. CASE i = s
      BY <1>1, <1>2, <2>6, <2>9, <3>1 DEF IInv, NotYetWritten
    <3>2. CASE i # s
      BY <2>9, <2>12, <3>2 DEF IInv, NotYetWritten, Saving
    <3>3. QED
      BY <3>1, <3>2
  <2>19. Written'
    <3> SUFFICES ASSUME NEW i \in Servers, Saving(i)', job'[i].status = "SAVE_SUCCESS"
                 PROVE  IF job'[i].ok
                        THEN job'[i].save \in loaded
                               \/ SavedRow(job'[i], job'[i].told) \in saves
                        ELSE /\ job'[i].told = job'[i].save
                             /\ SavedRow(job'[i], job'[i].save) \in file[i] \cup backup'[i]
                             /\ job'[i].stage # "done" =>
                                   SavedRow(job'[i], job'[i].save) \in backup'[i]
      BY <1>1 DEF Written, SavedRow
    <3>1. CASE i = s
      BY <2>6, <2>8, <2>9, <2>12, <3>1
    <3>2. CASE i # s
      BY <2>9, <2>12, <3>2 DEF IInv, Written, Saving
    <3>3. QED
      BY <3>1, <3>2
  <2>20. ASSUME Certain' PROVE Single'
    <3>1. Single
      BY <1>1, <2>20 DEF Certain, IInv
    <3>2. Carries(s)
      BY <1>2 DEF Carries, Carrying
    <3>3. \A i \in Servers : (Carries(i)' => Carries(i)) /\ (InTeam(i)' => InTeam(i))
      BY <1>1, <2>9, <3>2 DEF Carries, InTeam
    <3>4. QED
      BY <1>1, <3>1, <3>3, SingleShrinks
  <2>21. QED
    BY <2>13, <2>15, <2>16, <2>17, <2>18, <2>19, <2>20 DEF IInv
<1>5. QED
  BY <1>3, <1>4 DEF SaveFirst, Generated

\* The code a row gets is free: a code made for the save is not in the table.
LEMMA CodeFree ==
    ASSUME IInv, NEW s \in Servers, Saving(s), job[s].stage = "normal"
    PROVE  /\ CodeFor(job[s]) \in Codes /\ Coded(saves, CodeFor(job[s])) = {}
           /\ CodeFor(job[s]) \in Nat => CodeFor(job[s]) = job[s].save
<1>1. /\ job[s] \in Job /\ saves \subseteq Row /\ \A r \in saves : RowShape(r)
      /\ \A r \in saves : r.save # job[s].save
      /\ job[s].save \in Codes
      /\ \A r \in Row : RowShape(r) /\ r.code = job[s].save => r.save = job[s].save
  BY OwnCode DEF IInv, TypeOK, RowsShaped, NotYetWritten
<1>2. CASE job[s].code = NoCode \/ Coded(saves, job[s].code) # {}
  BY <1>1, <1>2 DEF CodeFor, Generated, Coded
<1>3. CASE job[s].code # NoCode /\ Coded(saves, job[s].code) = {}
  <2>1. CodeFor(job[s]) = job[s].code /\ job[s].code \in Codes
    BY <1>1, <1>3 DEF CodeFor, Job
  <2>2. job[s].code \notin Nat \/ job[s].code = job[s].save
    BY <1>1, CodesAssumption DEF IInv, JobsShaped, JobShape, Saving
  <2>3. QED
    BY <1>3, <2>1, <2>2
<1>4. QED
  BY <1>2, <1>3

\* The row is written, whether the request knows it or not.
LEMMA InsertInv ==
    ASSUME IInv, NEW s \in Servers, SaveNormal(s),
           NEW row \in {SavedRow(job[s], CodeFor(job[s]))}, saves' = Inserted(saves, row),
           \/ /\ job' = [job EXCEPT ![s].stage = "after", ![s].ok = TRUE,
                                    ![s].status = "SAVE_SUCCESS", ![s].told = row.code]
              /\ UNCHANGED <<unsure, trouble>>
           \/ /\ Trouble /\ unsure' = unsure \cup {<<"insert", job[s].save>>}
              /\ job' = [job EXCEPT ![s].stage = "after"]
    PROVE  IInv'
<1> DEFINE n == job[s].save
           yes == [job[s] EXCEPT !.stage = "after", !.ok = TRUE,
                                 !.status = "SAVE_SUCCESS", !.told = row.code]
           lost == [job[s] EXCEPT !.stage = "after"]
           j == job'[s]
<1>1. /\ job[s] \in Job /\ JobShape(job[s]) /\ job[s].stage = "normal"
      /\ job \in [Servers -> Job] /\ job[s].save <= made
      /\ team' = team /\ backup' = backup /\ file' = file /\ made' = made
      /\ loaded' = loaded /\ trouble' \in 0 .. MaxTrouble
  BY Here, TroubleType DEF SaveNormal
<1>2. job[s].kind = "save" /\ ~job[s].ok /\ Saving(s)
  BY <1>1 DEF JobShape, Job, Saving
<1>3. /\ n \in 1 .. made /\ n \in Codes /\ job[s].party # {} /\ job[s].party \in SUBSET Names
      /\ n \in Nat /\ n # 0 /\ n \in 0 .. MaxSaves
  BY <1>1, <1>2, OwnCode DEF Job
<1>4. /\ CodeFor(job[s]) \in Codes /\ Coded(saves, CodeFor(job[s])) = {}
      /\ CodeFor(job[s]) \in Nat => CodeFor(job[s]) = n
  BY <1>1, <1>2, CodeFree
<1>5. row.code = CodeFor(job[s]) /\ row.save = n /\ row.party = job[s].party
  BY DEF SavedRow
<1>6. row \in Row /\ RowShape(row)
  <2>1. row \in Row
    BY <1>3, <1>4 DEF Row, SavedRow
  <2>2. QED
    BY <1>1, <1>3, <1>4, <1>5, <2>1 DEF RowShape
<1>7. saves' = saves \cup {row}
  BY <1>4, <1>5 DEF Inserted
<1>8. /\ yes \in Job /\ yes.kind = "save" /\ yes.save = n /\ yes.party = job[s].party
      /\ yes.code = job[s].code /\ yes.stage = "after" /\ yes.ok /\ yes.wanted = job[s].wanted
      /\ yes.status = "SAVE_SUCCESS" /\ yes.told = row.code
  <2>1. yes \in Job
    BY <1>1, <1>4, <1>5 DEF Job
  <2>2. QED
    BY <1>1, <1>2, <2>1 DEF Job
<1>9. /\ lost \in Job /\ lost.kind = "save" /\ lost.save = n /\ lost.party = job[s].party
      /\ lost.code = job[s].code /\ lost.stage = "after" /\ ~lost.ok
      /\ lost.wanted = job[s].wanted
      /\ lost.status = job[s].status /\ lost.told = job[s].told
  <2>1. lost \in Job
    BY <1>1 DEF Job
  <2>2. QED
    BY <1>1, <1>2, <2>1 DEF Job
<1>10. \/ job' = [job EXCEPT ![s] = yes] /\ unsure' = unsure
       \/ job' = [job EXCEPT ![s] = lost] /\ unsure' = unsure \cup {<<"insert", n>>}
  BY <1>1
<1> HIDE DEF yes, lost
<1>11. /\ \/ (j = yes /\ unsure' = unsure)
          \/ (j = lost /\ unsure' = unsure \cup {<<"insert", n>>})
       /\ \A i \in Servers \ {s} : job'[i] = job[i]
       /\ job' \in [Servers -> Job]
  BY <1>1, <1>8, <1>9, <1>10
<1>12. /\ j.kind = "save" /\ j.save = n /\ j.party = job[s].party /\ j.stage = "after"
       /\ j.code \in UserCodes \cup {NoCode} /\ j.wanted = job[s].wanted /\ j.status \in {"SAVE_FAILED", "SAVE_SUCCESS"}
       /\ j.status = "SAVE_FAILED" => job[s].status = "SAVE_FAILED"
       /\ j.ok => j.status = "SAVE_SUCCESS" /\ j.told = row.code
       /\ ~j.ok => j.status = job[s].status /\ j.told = job[s].told
  BY <1>1, <1>2, <1>8, <1>9, <1>11 DEF JobShape
<1> HIDE DEF j
<1>13. JobShape(j)
  BY <1>3, <1>12 DEF JobShape
<1>14. TypeOK'
  <2>1. unsure' \subseteq {"insert", "delete"} \X (1 .. made)
    BY <1>3, <1>11 DEF IInv, TypeOK
  <2>2. QED
    BY <1>1, <1>6, <1>7, <1>11, <2>1 DEF IInv, TypeOK
<1>15. JobsShaped' /\ TeamsShaped'
  BY <1>1, <1>11, <1>12, <1>13 DEF IInv, JobsShaped, TeamsShaped, j
<1>16. NumbersOwn'
  BY <1>2, <1>11, <1>12 DEF IInv, NumbersOwn, Saving, j
<1>17. RowsShaped'
  BY <1>1, <1>6, <1>7 DEF IInv, RowsShaped, RowShape
<1>18. NotYetWritten'
  <2> SUFFICES ASSUME NEW i \in Servers, Saving(i)'
               PROVE  /\ job'[i].stage \in {"first", "normal"} =>
                            job'[i].save \notin loaded /\ \A r \in saves' : r.save # job'[i].save
                      /\ job'[i].status = "SAVE_FAILED" =>
                            \A r \in backup[i] : r.save # job'[i].save
                      /\ job'[i].stage # "done" =>
                            \A t \in Servers : \A r \in file[t] : r.save # job'[i].save
    BY <1>1 DEF NotYetWritten
  <2>1. CASE i = s
    BY <1>1, <1>2, <1>12, <2>1 DEF IInv, NotYetWritten, j
  <2>2. CASE i # s
    <3>1. job'[i] = job[i] /\ Saving(i) /\ job[i].save # n
      BY <1>2, <1>11, <2>2 DEF IInv, NumbersOwn, Saving
    <3>2. QED
      BY <1>5, <1>7, <3>1 DEF IInv, NotYetWritten
  <2>3. QED
    BY <2>1, <2>2
<1>19. Written'
  <2> SUFFICES ASSUME NEW i \in Servers, Saving(i)', job'[i].status = "SAVE_SUCCESS"
               PROVE  IF job'[i].ok
                      THEN job'[i].save \in loaded
                             \/ SavedRow(job'[i], job'[i].told) \in saves'
                      ELSE /\ job'[i].told = job'[i].save
                           /\ SavedRow(job'[i], job'[i].save) \in file[i] \cup backup[i]
                           /\ job'[i].stage # "done" =>
                                 SavedRow(job'[i], job'[i].save) \in backup[i]
    BY <1>1 DEF Written, SavedRow
  <2>1. CASE i = s /\ j.ok
    <3>1. SavedRow(j, j.told) = row
      BY <1>5, <1>12, <2>1 DEF SavedRow
    <3>2. QED
      BY <1>7, <2>1, <3>1 DEF j
  <2>2. CASE i = s /\ ~j.ok
    <3>1. SavedRow(j, n) = SavedRow(job[s], n)
      BY <1>12 DEF SavedRow
    <3>2. /\ job[s].told = n /\ SavedRow(job[s], n) \in backup[s]
      BY <1>1, <1>2, <1>12, <2>2 DEF IInv, Written, j
    <3>3. QED
      BY <1>12, <2>2, <3>1, <3>2 DEF j
  <2>3. CASE i # s
    BY <1>7, <1>11, <2>3 DEF IInv, Written, Saving
  <2>4. QED
    BY <2>1, <2>2, <2>3 DEF j
<1>20. DeletedIsLoaded'
  <2>1. \A m \in 1 .. made : <<"delete", m>> \in unsure' => <<"delete", m>> \in unsure
    BY <1>11
  <2>2. QED
    BY <1>1, <1>7, <1>11, <1>12, <2>1 DEF IInv, DeletedIsLoaded, Loading, j
<1>21. ASSUME Certain' PROVE Single'
  <2>1. Certain /\ j.ok
    <3>1. <<"insert", n>> \notin unsure'
      <4> DEFINE u == <<"insert", n>>
      <4>1. u[1] # "delete"
        OBVIOUS
      <4>2. u \in unsure' => u[1] = "delete"
        BY <1>21 DEF Certain
      <4>3. QED
        BY <4>1, <4>2
    <3>2. j = yes /\ unsure' = unsure
      BY <1>11, <3>1
    <3>3. QED
      BY <1>8, <1>21, <3>2 DEF Certain
  <2>2. Single /\ Carries(s)
    BY <1>1, <1>2, <2>1 DEF IInv, Carries, Carrying
  <2>3. /\ NoRow /\ NoFile /\ \A i \in Servers : ~InTeam(i) /\ (i # s => ~Carries(i))
    BY <2>2 DEF Single, NoCarrier
  <2>4. ~Carries(s)'
    BY <1>12, <2>1 DEF Carries, Carrying, j
  <2>5. NoFile' /\ NoCarrier' /\ NoTeam'
    BY <1>1, <1>11, <2>3, <2>4 DEF NoFile, NoCarrier, NoTeam, Carries, InTeam
  <2>6. \A r \in saves' : r.party # {} => r = row
    BY <1>7, <2>3 DEF NoRow
  <2>7. QED
    BY <2>5, <2>6 DEF Single, NoFile, NoCarrier, NoTeam
<1>22. QED
  BY <1>14, <1>15, <1>16, <1>17, <1>18, <1>19, <1>20, <1>21 DEF IInv

LEMMA SaveNormalInv == ASSUME IInv, NEW s \in Servers, SaveNormal(s) PROVE IInv'
<1> DEFINE row == SavedRow(job[s], CodeFor(job[s]))
<1>1. CASE saves' = Inserted(saves, row) /\ unsure' = unsure \cup {<<"insert", job[s].save>>}
           /\ Trouble /\ job' = [job EXCEPT ![s].stage = "after"]
  BY <1>1, InsertInv
<1>2. CASE saves' = Inserted(saves, row) /\ UNCHANGED <<unsure, trouble>>
           /\ job' = [job EXCEPT ![s].stage = "after", ![s].ok = TRUE,
                                 ![s].status = "SAVE_SUCCESS", ![s].told = row.code]
  BY <1>2, InsertInv
<1>3. CASE UNCHANGED <<saves, unsure>> /\ Trouble /\ job' = [job EXCEPT ![s].stage = "after"]
  <2>1. JobShape(job[s]) /\ job[s] \in Job /\ job[s].stage = "normal"
    BY Here DEF SaveNormal
  <2>2. job[s].kind = "save"
    BY <2>1 DEF JobShape, Job
  <2>3. trouble' \in 0 .. MaxTrouble /\ UNCHANGED tables /\ team' = team
    BY <1>3, TroubleType DEF SaveNormal, tables
  <2>4. QED
    BY <1>3, <2>1, <2>2, <2>3, StageInv DEF Saving, Loading
<1>4. QED
  BY <1>1, <1>2, <1>3 DEF SaveNormal

\* The row of the backup is dropped, or goes to the file when the request failed.
LEMMA SaveAfterInv == ASSUME IInv, NEW s \in Servers, SaveAfter(s) PROVE IInv'
<1> DEFINE n == job[s].save
           mine == Coded(backup[s], n)
           row == SavedRow(job[s], n)
           j == [job[s] EXCEPT !.stage = "done"]
<1>1. /\ job[s] \in Job /\ JobShape(job[s]) /\ job[s].stage = "after"
      /\ job \in [Servers -> Job] /\ job[s].save <= made
      /\ team' = team /\ saves' = saves /\ made' = made
      /\ loaded' = loaded /\ unsure' = unsure /\ trouble' \in 0 .. MaxTrouble
      /\ backup \in [Servers -> SUBSET Row] /\ file \in [Servers -> SUBSET Row]
  BY Here, TroubleType DEF SaveAfter, IInv, TypeOK
<1>2. job[s].kind = "save" /\ Saving(s) /\ job[s].status \in {"SAVE_FAILED", "SAVE_SUCCESS"}
  BY <1>1 DEF JobShape, Job, Saving
<1>3. j \in Job
  BY <1>1 DEF Job
<1>4. /\ j.kind = "save" /\ j.save = n /\ j.party = job[s].party
      /\ j.code = job[s].code /\ j.stage = "done" /\ j.ok = job[s].ok
      /\ j.status = job[s].status /\ j.told = job[s].told /\ j.wanted = job[s].wanted
  BY <1>1, <1>2 DEF Job
<1>5. job' = [job EXCEPT ![s] = j]
  BY <1>1 DEF SaveAfter
<1>6. \A c : SavedRow(j, c) = SavedRow(job[s], c)
  BY <1>4 DEF SavedRow
<1> HIDE DEF j
<1>7. job'[s] = j /\ \A i \in Servers \ {s} : job'[i] = job[i]
  BY <1>1, <1>5
<1>8. /\ \A r \in mine : r \in backup[s] /\ r \in Row /\ RowShape(r) /\ r.save = n /\ r.save # 0
      /\ \A q, r \in mine : q = r
      /\ job[s].status = "SAVE_FAILED" => mine = {}
  BY <1>1, <1>2 DEF Coded, IInv, RowsShaped, NotYetWritten
<1>9. ~job[s].ok /\ job[s].status = "SAVE_SUCCESS" => mine = {row} /\ job[s].told = n
  <2>1. SUFFICES ASSUME ~job[s].ok, job[s].status = "SAVE_SUCCESS"
                 PROVE  mine = {row} /\ job[s].told = n
    OBVIOUS
  <2>2. row \in backup[s] /\ job[s].told = n
    BY <1>1, <1>2, <2>1 DEF IInv, Written
  <2>3. row.code = n
    BY DEF SavedRow
  <2>4. row \in mine
    BY <2>2, <2>3 DEF Coded
  <2>5. QED
    BY <1>8, <2>2, <2>4
<1> HIDE DEF mine, row
<1>10. /\ file' \in [Servers -> SUBSET Row] /\ backup' \in [Servers -> SUBSET Row]
       /\ \A i \in Servers \ {s} : file'[i] = file[i] /\ backup'[i] = backup[i]
       /\ file[s] \subseteq file'[s] /\ file'[s] \subseteq file[s] \cup mine
       /\ backup'[s] \subseteq backup[s]
       /\ job[s].ok => file'[s] = file[s]
       /\ ~job[s].ok => mine \subseteq file'[s] \cup backup'[s]
  <2>1. Moved(s, mine) \in {file, [file EXCEPT ![s] = @ \cup mine]}
        /\ (job[s].ok => Moved(s, mine) = file)
        /\ (~job[s].ok => Moved(s, mine) = [file EXCEPT ![s] = @ \cup mine])
    BY DEF Moved
  <2>2. \/ file' = Moved(s, mine) /\ backup' = [backup EXCEPT ![s] = @ \ mine]
        \/ file' \in {file, Moved(s, mine)} /\ backup' = backup
    BY DEF SaveAfter, Generated, mine
  <2>3. mine \subseteq Row /\ mine \subseteq backup[s]
    BY <1>8
  <2>4. QED
    BY <1>1, <2>1, <2>2, <2>3
<1>11. TypeOK'
  <2>1. job' \in [Servers -> Job]
    BY <1>1, <1>3, <1>5
  <2>2. QED
    BY <1>1, <1>10, <2>1 DEF IInv, TypeOK
<1>12. JobShape(j)
  BY <1>1, <1>2, <1>4 DEF JobShape
<1>13. JobsShaped' /\ TeamsShaped'
  BY <1>1, <1>4, <1>7, <1>12 DEF IInv, JobsShaped, TeamsShaped
<1>14. NumbersOwn'
  BY <1>2, <1>4, <1>7 DEF IInv, NumbersOwn, Saving
<1>15. DeletedIsLoaded'
  BY <1>1, <1>4, <1>7 DEF IInv, DeletedIsLoaded, Loading
<1>16. RowsShaped'
  <2>1. \A i \in Servers : \A r \in file'[i] : RowShape(r) /\ r.save # 0
    BY <1>8, <1>10 DEF IInv, RowsShaped
  <2>2. \A i \in Servers : backup'[i] \subseteq backup[i]
    BY <1>10
  <2>3. \A r : RowShape(r)' <=> RowShape(r)
    BY <1>1 DEF RowShape
  <2>4. QED
    BY <1>1, <2>1, <2>2, <2>3 DEF IInv, RowsShaped
<1>17. NotYetWritten'
  <2> SUFFICES ASSUME NEW i \in Servers, Saving(i)'
               PROVE  /\ job'[i].stage \in {"first", "normal"} =>
                            job'[i].save \notin loaded /\ \A r \in saves : r.save # job'[i].save
                      /\ job'[i].status = "SAVE_FAILED" =>
                            \A r \in backup'[i] : r.save # job'[i].save
                      /\ job'[i].stage # "done" =>
                            \A t \in Servers : \A r \in file'[t] : r.save # job'[i].save
    BY <1>1 DEF NotYetWritten
  <2>1. CASE i = s
    BY <1>1, <1>2, <1>4, <1>7, <1>10, <2>1 DEF IInv, NotYetWritten
  <2>2. CASE i # s
    <3>1. job'[i] = job[i] /\ Saving(i) /\ job[i].save # n
      BY <1>2, <1>7, <2>2 DEF IInv, NumbersOwn, Saving
    <3>2. job[i].stage # "done" => \A t \in Servers : \A r \in file'[t] : r.save # job[i].save
      BY <1>8, <1>10, <3>1 DEF IInv, NotYetWritten
    <3>3. QED
      BY <1>10, <2>2, <3>1, <3>2 DEF IInv, NotYetWritten
  <2>3. QED
    BY <2>1, <2>2
<1>18. Written'
  <2> SUFFICES ASSUME NEW i \in Servers, Saving(i)', job'[i].status = "SAVE_SUCCESS"
               PROVE  IF job'[i].ok
                      THEN job'[i].save \in loaded
                             \/ SavedRow(job'[i], job'[i].told) \in saves
                      ELSE /\ job'[i].told = job'[i].save
                           /\ SavedRow(job'[i], job'[i].save) \in file'[i] \cup backup'[i]
                           /\ job'[i].stage # "done" =>
                                 SavedRow(job'[i], job'[i].save) \in backup'[i]
    BY <1>1 DEF Written, SavedRow
  <2>1. CASE i = s /\ j.ok
    <3>1. job[s].save \in loaded \/ SavedRow(job[s], job[s].told) \in saves
      BY <1>2, <1>4, <1>7, <2>1 DEF IInv, Written
    <3>2. j.save = job[s].save /\ SavedRow(j, j.told) = SavedRow(job[s], job[s].told)
      BY <1>1, <1>4, <1>6
    <3>3. QED
      BY <1>7, <2>1, <3>1, <3>2
  <2>2. CASE i = s /\ ~j.ok
    <3>1. mine = {row} /\ job[s].told = n
      BY <1>4, <1>7, <1>9, <2>2
    <3>2. row \in file'[s] \cup backup'[s] /\ SavedRow(j, n) = row
      BY <1>4, <1>6, <1>10, <2>2, <3>1 DEF row
    <3>3. QED
      BY <1>4, <1>7, <2>2, <3>1, <3>2
  <2>3. CASE i # s
    BY <1>7, <1>10, <2>3 DEF IInv, Written, Saving
  <2>4. QED
    BY <1>7, <2>1, <2>2, <2>3
<1>19. ASSUME Certain' PROVE Single'
  <2>1. Single
    BY <1>1, <1>19 DEF Certain, IInv
  <2>2. /\ Carries(s)' => Carries(s)
        /\ \A i \in Servers \ {s} : Carries(i)' <=> Carries(i)
        /\ \A i \in Servers : InTeam(i)' <=> InTeam(i)
    BY <1>1, <1>4, <1>7 DEF Carries, Carrying, InTeam
  <2>3. CASE file'[s] = file[s]
    BY <1>1, <1>10, <2>1, <2>2, <2>3, SingleShrinks
  <2>4. CASE file'[s] # file[s]
    <3>1. ~job[s].ok /\ mine # {} /\ job[s].status = "SAVE_SUCCESS"
      BY <1>2, <1>8, <1>10, <2>4
    <3>2. mine = {row}
      BY <1>9, <3>1
    <3>3. Carries(s) /\ ~Carries(s)'
      BY <1>1, <1>2, <1>4, <1>7, <3>1 DEF Carries, Carrying
    <3>4. /\ NoRow /\ NoFile /\ \A i \in Servers : ~InTeam(i) /\ (i # s => ~Carries(i))
      BY <2>1, <3>3 DEF Single, NoCarrier
    <3>5. NoRow' /\ NoCarrier' /\ NoTeam'
      BY <1>1, <2>2, <3>3, <3>4 DEF NoRow, NoCarrier, NoTeam
    <3>6. file'[s] \subseteq {row} /\ \A i \in Servers \ {s} : file'[i] = {}
      BY <1>10, <3>2, <3>4 DEF NoFile
    <3>7. QED
      BY <3>5, <3>6 DEF Single, NoRow, NoCarrier, NoTeam
  <2>5. QED
    BY <2>3, <2>4
<1>20. QED
  BY <1>11, <1>13, <1>14, <1>15, <1>16, <1>17, <1>18, <1>19 DEF IInv

-----------------------------------------------------------------------------
(* The theorems.                                                            *)

LEMMA NextInv == ASSUME IInv, Next PROVE IInv'
<1>1. PICK s \in Servers :
        \/ \E p \in Names : SetCharacterTeam(s, p) \/ SetForceCharacterTeam(s, p)
                            \/ OnCharacterDeath(s, p)
        \/ \E code \in UserCodes \cup {NoCode} : SaveTeam(s, code)
        \/ \E code \in (UserCodes \ Taken) \cup 1 .. made : LoadTeam(s, code)
        \/ Pool(s) \/ ProcessSaveTeam(s) \/ Drop(s) \/ Reset(s) \/ Crash(s)
  BY DEF Next
<1>2. CASE \E p \in Names : SetCharacterTeam(s, p) \/ SetForceCharacterTeam(s, p)
                            \/ OnCharacterDeath(s, p)
  BY <1>2, GameInv
<1>3. CASE \E code \in UserCodes \cup {NoCode} : SaveTeam(s, code)
  BY <1>3, SaveTeamInv
<1>4. CASE \E code \in (UserCodes \ Taken) \cup 1 .. made : LoadTeam(s, code)
  BY <1>4, LoadTeamInv
<1>5. CASE Pool(s)
  BY <1>5, SaveFirstInv, SaveNormalInv, SaveAfterInv, LoadSelectInv, LoadDeleteInv,
     LoadFileInv DEF Pool
<1>6. CASE ProcessSaveTeam(s) \/ Drop(s) \/ Reset(s) \/ Crash(s)
  BY <1>6, ProcessSaveTeamInv, DropInv, ResetInv, CrashInv
<1>7. QED
  BY <1>1, <1>2, <1>3, <1>4, <1>5, <1>6

LEMMA StutterInv == ASSUME IInv, UNCHANGED vars PROVE IInv'
<1>1. /\ team' = team /\ job' = job /\ saves' = saves /\ backup' = backup /\ file' = file
      /\ made' = made /\ loaded' = loaded /\ unsure' = unsure /\ trouble' = trouble
  BY DEF vars
<1>2. TypeOK' /\ JobsShaped' /\ TeamsShaped'
  BY <1>1 DEF IInv, TypeOK, JobsShaped, TeamsShaped
<1>3. TablesInv'
  BY <1>1, TablesUntouched DEF IInv, TablesInv, tables
<1>4. (Certain => Single)'
  <2>1. \A s \in Servers : (InTeam(s)' => InTeam(s)) /\ (Carries(s)' => Carries(s))
    BY <1>1 DEF InTeam, Carries
  <2>2. Single => Single'
    BY <1>1, <2>1, SingleShrinks
  <2>3. QED
    BY <1>1, <2>2 DEF IInv, Certain
<1>5. QED
  BY <1>2, <1>3, <1>4 DEF IInv, TablesInv

\* The inductive invariant of saving and loading.
THEOREM Invariance == Spec => []IInv
<1>1. Init => IInv
  BY InitInv
<1>2. IInv /\ [Next]_vars => IInv'
  BY NextInv, StutterInv
<1>3. QED
  BY <1>1, <1>2, PTL DEF Spec

\* Nobody gets into a team while it is saved or loaded (teams.cpp): whoever is
\* in a team that plays carries its progress.
THEOREM TeamTogetherAlways == Spec => []TeamTogether
<1>1. IInv => TeamTogether
  BY DEF IInv, TeamsShaped, TeamShape, TeamTogether
<1>2. QED
  BY <1>1, Invariance, PTL

\* A code that players are told to load with denotes their savegame
\* (scoreworker.cpp), whichever of the writes failed.
THEOREM CodeAlwaysWorks == Spec => []CodeWorks
<1>1. ASSUME IInv, NEW s \in Servers, job[s].status = "SAVE_SUCCESS", job[s].save \notin loaded
      PROVE  SavedRow(job[s], job[s].told) \in saves \cup file[s] \cup backup[s]
  <2>1. Saving(s)
    BY <1>1 DEF IInv, JobsShaped, JobShape, TypeOK, Job, Saving
  <2>2. QED
    BY <1>1, <2>1 DEF IInv, Written
<1>2. IInv => CodeWorks
  BY <1>1 DEF CodeWorks
<1>3. QED
  BY <1>2, Invariance, PTL

LEMMA SingleCopy == ASSUME IInv, Certain PROVE Cardinality(Copies) <= 1
<1> DEFINE T == {<<"team", s>> : s \in {t \in Servers : team[t].run # NoRun}}
           J == {<<"job", s>> : s \in {t \in Servers : InMemory(t)}}
           R == {<<"row", r>> : r \in Tracked(saves)}
           F == UNION {{<<s, r>> : r \in file[s]} : s \in Servers}
<1>1. Copies = T \cup J \cup R \cup F
  BY DEF Copies
<1>2. Single
  BY DEF IInv
<1>3. /\ \A x \in T : \E s \in Servers : x = <<"team", s>> /\ InTeam(s)
      /\ \A x \in J : \E s \in Servers : x = <<"job", s>> /\ Carries(s)
      /\ \A x \in R : \E r \in saves : x = <<"row", r>> /\ r.party # {}
      /\ \A x \in F : \E s \in Servers : \E r \in file[s] : x = <<s, r>>
  BY DEF InTeam, Carries, Carrying, InMemory, Tracked
<1> HIDE DEF T, J, R, F
<1>4. \A x, y \in Copies : x = y
  <2>1. ASSUME NEW x \in T, NEW y \in Copies PROVE x = y
    <3>1. NoCarrier /\ NoRow /\ NoFile
      BY <1>2, <1>3, <2>1 DEF Single
    <3>2. y \in T
      BY <1>1, <1>3, <2>1, <3>1 DEF NoCarrier, NoRow, NoFile
    <3>3. QED
      BY <1>2, <1>3, <2>1, <3>2 DEF Single
  <2>2. ASSUME NEW x \in J, NEW y \in Copies PROVE x = y
    <3>1. NoTeam /\ NoRow /\ NoFile
      BY <1>2, <1>3, <2>2 DEF Single, NoTeam, NoCarrier
    <3>2. y \in J
      BY <1>1, <1>3, <2>2, <3>1 DEF NoTeam, NoRow, NoFile
    <3>3. QED
      BY <1>2, <1>3, <2>2, <3>2 DEF Single
  <2>3. ASSUME NEW x \in R, NEW y \in Copies PROVE x = y
    <3>1. NoTeam /\ NoCarrier /\ NoFile
      BY <1>2, <1>3, <2>3 DEF Single, NoTeam, NoCarrier, NoRow
    <3>2. y \in R
      BY <1>1, <1>3, <2>3, <3>1 DEF NoTeam, NoCarrier, NoFile
    <3>3. QED
      BY <1>2, <1>3, <2>3, <3>2 DEF Single
  <2>4. ASSUME NEW x \in F, NEW y \in Copies PROVE x = y
    <3>1. NoTeam /\ NoCarrier /\ NoRow
      BY <1>2, <1>3, <2>4 DEF Single, NoTeam, NoCarrier, NoRow, NoFile
    <3>2. y \in F
      BY <1>1, <1>3, <2>4, <3>1 DEF NoTeam, NoCarrier, NoRow
    <3>3. PICK s \in Servers : \E r \in file[s] : x = <<s, r>>
      BY <1>3, <2>4
    <3>r. PICK r \in file[s] : x = <<s, r>>
      BY <3>3
    <3>4. PICK t \in Servers : \E q \in file[t] : y = <<t, q>>
      BY <1>3, <3>2
    <3>q. PICK q \in file[t] : y = <<t, q>>
      BY <3>4
    <3>5. t = s /\ q = r
      BY <1>2 DEF Single
    <3>6. QED
      BY <3>r, <3>q, <3>5
  <2>5. QED
    BY <1>1, <2>1, <2>2, <2>3, <2>4
<1>5. CASE Copies = {}
  BY <1>5, FS_EmptySet
<1>6. CASE Copies # {}
  <2>1. PICK x : Copies = {x}
    BY <1>4, <1>6
  <2>2. Cardinality({x}) = 1
    BY FS_Singleton
  <2>3. QED
    BY <2>1, <2>2
<1>7. QED
  BY <1>5, <1>6

\* A team's progress cannot be multiplied (teams.cpp, scoreworker.cpp), however
\* saves and loads of several servers meet and fail - but when an insert took
\* effect and its answer was lost.
THEOREM AtMostOnceAlways == Spec => []AtMostOnce
<1>1. IInv => AtMostOnce
  BY SingleCopy DEF AtMostOnce, Certain
<1>2. QED
  BY <1>1, Invariance, PTL

-----------------------------------------------------------------------------
(* The newest save is not lost.                                             *)

Rows == saves \cup UNION {file[s] \cup backup[s] : s \in Servers}

\* The newest save is in memory, or in a row and not loaded.
Held(i) == InMemory(i) /\ job[i].save = made
OfNewest(r) == r.save = made /\ r.party # {}

LEMMA StoredAs ==
    Stored <=>
        \/ \E i \in Servers : Held(i)
        \/ made \notin loaded /\ \E r \in Rows : OfNewest(r)
BY DEF Stored, Held, OfNewest, Rows

LEMMA InRows == ASSUME NEW r 
    PROVE  r \in Rows <=> r \in saves \/ \E s \in Servers : r \in file[s] \cup backup[s]
BY DEF Rows

\* Of a step of server s it remains to show what becomes of its own request and
\* of the rows.
LEMMA StoredStays ==
    ASSUME Stored, NEW s \in Servers, made' = made,
           \A i \in Servers \ {s} : job'[i] = job[i],
           Held(s) => Stored',
           made \notin loaded /\ (\E r \in Rows : OfNewest(r)) => Stored'
    PROVE  Stored'
<1>1. ASSUME NEW i \in Servers \ {s}, Held(i) PROVE Stored'
  BY <1>1, StoredAs DEF Held, InMemory, Stored
<1>2. QED
  BY <1>1, StoredAs

\* Another server's memory counts as before, a row as long as it is there.
LEMMA RowStored ==
    ASSUME NEW r, OfNewest(r), made' = made, made \notin loaded',
           \/ r \in saves'
           \/ \E s \in Servers : r \in file'[s] \cup backup'[s]
    PROVE  Stored'
BY DEF Stored, OfNewest

LEMMA RowsStay ==
    ASSUME made' = made, loaded' = loaded, saves \subseteq saves',
           \A s \in Servers : file[s] \subseteq file'[s] /\ backup[s] \subseteq backup'[s],
           made \notin loaded, \E r \in Rows : OfNewest(r)
    PROVE  Stored'
<1>1. PICK r \in Rows : OfNewest(r)
  OBVIOUS
<1>2. r \in saves' \/ \E s \in Servers : r \in file'[s] \cup backup'[s]
  BY InRows
<1>3. QED
  BY <1>1, <1>2, RowStored

LEMMA HeldStored == ASSUME NEW s \in Servers, Held(s)' PROVE Stored'
BY DEF Held, Stored

\* What SavesKept asks of a step.
Excused ==
    \/ Played'
    \/ unsure' # unsure
    \/ \E s \in Servers :
         /\ InMemory(s) /\ job[s].save = made
         /\ team'[s].members = {} \/ ~job[s].wanted

LEMMA TeamKeeps ==
    ASSUME Stored, UNCHANGED <<job, tables>>
    PROVE  Stored'
BY DEF Stored, InMemory, tables

LEMMA EndKeeps ==
    ASSUME IInv, Stored, NEW s \in Servers, Crash(s) \/ Drop(s) \/ ProcessSaveTeam(s)
    PROVE  Stored' \/ Excused
<1>1. /\ job \in [Servers -> Job] /\ team \in [Servers -> Team] /\ JobShape(job[s])
      /\ job' = [job EXCEPT ![s] = NoJob] /\ UNCHANGED tables
  BY Here DEF Crash, Drop, ProcessSaveTeam
<1>2. /\ made' = made /\ loaded' = loaded /\ saves' = saves /\ file' = file
      /\ backup' = backup /\ \A i \in Servers \ {s} : job'[i] = job[i]
  BY <1>1 DEF tables
<1>3. made \notin loaded /\ (\E r \in Rows : OfNewest(r)) => Stored'
  BY <1>2, RowsStay
<1>4. CASE ~Held(s)
  BY <1>2, <1>3, <1>4, StoredStays
<1>5. CASE Held(s) /\ Crash(s)
  BY <1>1, <1>5, EmptyShape DEF Crash, Excused, Held
<1>6. CASE Held(s) /\ Drop(s)
  BY <1>6 DEF Drop, Excused, Held
<1>7. CASE Held(s) /\ ProcessSaveTeam(s)
  <2>1. team' = [team EXCEPT ![s] = Loaded(@, job[s])] /\ job[s].save = made
    BY <1>7 DEF ProcessSaveTeam, Held, InMemory
  <2>2. team'[s] = Loaded(team[s], job[s])
    BY <1>1, <2>1
  <2>3. CASE team[s].members = {}
    BY <1>7, <2>2, <2>3 DEF Loaded, Excused, Held
  <2>4. CASE team[s].members # {}
    <3>1. team'[s].run = made'
      BY <1>2, <2>1, <2>2, <2>4 DEF Loaded
    <3>2. QED
      BY <3>1 DEF Excused, Played
  <2>5. QED
    BY <2>3, <2>4
<1>8. QED
  BY <1>4, <1>5, <1>6, <1>7

\* Steps of a request that only add rows, and keep what is in memory.
LEMMA AddKeeps ==
    ASSUME Stored, NEW s \in Servers, made' = made, loaded' = loaded,
           \A i \in Servers \ {s} : job'[i] = job[i],
           InMemory(s) => InMemory(s)' /\ job'[s].save = job[s].save,
           saves \subseteq saves',
           \A i \in Servers : file[i] \subseteq file'[i] /\ backup[i] \subseteq backup'[i]
    PROVE  Stored'
<1>1. Held(s) => Held(s)'
  BY DEF Held
<1>2. Held(s) => Stored'
  BY <1>1, HeldStored
<1>3. made \notin loaded /\ (\E r \in Rows : OfNewest(r)) => Stored'
  BY RowsStay
<1>4. QED
  BY <1>2, <1>3, StoredStays

LEMMA SaveTeamKeeps ==
    ASSUME IInv, NEW s \in Servers, NEW code \in UserCodes \cup {NoCode}, SaveTeam(s, code)
    PROVE  Stored'
<1>1. job \in [Servers -> Job]
  BY DEF IInv, TypeOK
<1>2. /\ job'[s] = [NoJob EXCEPT !.kind = "save", !.save = made + 1,
                                 !.party = team[s].members, !.code = code,
                                 !.stage = "first", !.status = "SAVE_FAILED", !.wanted = TRUE]
      /\ made' = made + 1
  BY <1>1 DEF SaveTeam
<1>3. job'[s].status = "SAVE_FAILED" /\ job'[s].save = made'
  BY <1>2, NoJobShape DEF Job
<1>4. QED
  BY <1>3, HeldStored DEF Held, InMemory

LEMMA SaveFirstKeeps ==
    ASSUME IInv, Stored, NEW s \in Servers, SaveFirst(s)
    PROVE  Stored'
<1> DEFINE n == job[s].save
           row == SavedRow(job[s], n)
<1>1. /\ job[s] \in Job /\ JobShape(job[s]) /\ job[s].stage = "first"
      /\ job \in [Servers -> Job] /\ backup \in [Servers -> SUBSET Row]
      /\ saves' = saves /\ file' = file /\ made' = made /\ loaded' = loaded
  BY Here DEF SaveFirst, IInv, TypeOK
<1>2. Saving(s)
  BY <1>1 DEF JobShape, Job, Saving
<1>3. /\ n \notin loaded /\ job[s].party # {}
      /\ \A r \in backup[s] : r.code # n
  BY <1>1, <1>2, OwnCode DEF IInv, NotYetWritten, RowsShaped, JobShape, Saving
<1>4. CASE job' = [job EXCEPT ![s].stage = "normal"] /\ UNCHANGED backup
  <2>1. /\ \A i \in Servers \ {s} : job'[i] = job[i]
        /\ job'[s].status = job[s].status /\ job'[s].save = job[s].save
    BY <1>1, <1>4 DEF Job
  <2>2. QED
    BY <1>1, <1>4, <2>1, AddKeeps DEF InMemory
<1>5. CASE /\ backup' = [backup EXCEPT ![s] = Inserted(@, row)]
           /\ job' = [job EXCEPT ![s].stage = "normal", ![s].told = n,
                                 ![s].status = "SAVE_SUCCESS"]
  <2>1. row.code = n /\ row.save = n /\ row.party = job[s].party
    BY DEF SavedRow
  <2> HIDE DEF row
  <2>2. /\ backup'[s] = backup[s] \cup {row}
        /\ \A i \in Servers \ {s} : backup'[i] = backup[i] /\ job'[i] = job[i]
    BY <1>1, <1>3, <1>5, <2>1 DEF Inserted, Coded
  <2>3. Held(s) => Stored'
    <3>1. ASSUME Held(s) PROVE OfNewest(row) /\ made \notin loaded'
      BY <1>1, <1>3, <2>1, <3>1 DEF Held, OfNewest
    <3>2. QED
      BY <1>1, <2>2, <3>1, RowStored
  <2>4. made \notin loaded /\ (\E r \in Rows : OfNewest(r)) => Stored'
    BY <1>1, <2>2, RowsStay
  <2>5. QED
    BY <1>1, <2>2, <2>3, <2>4, StoredStays
<1>6. QED
  BY <1>4, <1>5 DEF SaveFirst, Generated

LEMMA SaveNormalKeeps ==
    ASSUME IInv, Stored, NEW s \in Servers, SaveNormal(s)
    PROVE  Stored'
<1> DEFINE row == SavedRow(job[s], CodeFor(job[s]))
<1>1. /\ job[s] \in Job /\ JobShape(job[s]) /\ job[s].stage = "normal"
      /\ job \in [Servers -> Job]
      /\ backup' = backup /\ file' = file /\ made' = made /\ loaded' = loaded
  BY Here DEF SaveNormal
<1>2. Saving(s)
  BY <1>1 DEF JobShape, Job, Saving
<1>3. /\ job[s].save \notin loaded /\ job[s].party # {}
      /\ Coded(saves, CodeFor(job[s])) = {}
  BY <1>1, <1>2, OwnCode, CodeFree DEF IInv, NotYetWritten
<1>4. row.code = CodeFor(job[s]) /\ row.save = job[s].save /\ row.party = job[s].party
  BY DEF SavedRow
<1>5. Inserted(saves, row) = saves \cup {row}
  BY <1>3, <1>4 DEF Inserted
<1>6. CASE job' = [job EXCEPT ![s].stage = "after"] /\ saves \subseteq saves'
  <2>1. /\ \A i \in Servers \ {s} : job'[i] = job[i]
        /\ job'[s].status = job[s].status /\ job'[s].save = job[s].save
    BY <1>1, <1>6 DEF Job
  <2>2. QED
    BY <1>1, <1>6, <2>1, AddKeeps DEF InMemory
<1>7. CASE /\ saves' = saves \cup {row}
           /\ job' = [job EXCEPT ![s].stage = "after", ![s].ok = TRUE,
                                 ![s].status = "SAVE_SUCCESS", ![s].told = row.code]
  <2> HIDE DEF row
  <2>1. \A i \in Servers \ {s} : job'[i] = job[i]
    BY <1>1, <1>7
  <2>2. Held(s) => Stored'
    <3>1. ASSUME Held(s) PROVE OfNewest(row) /\ made \notin loaded'
      BY <1>1, <1>3, <1>4, <3>1 DEF Held, OfNewest
    <3>2. QED
      BY <1>1, <1>7, <3>1, RowStored
  <2>3. made \notin loaded /\ (\E r \in Rows : OfNewest(r)) => Stored'
    BY <1>1, <1>7, RowsStay
  <2>4. QED
    BY <1>1, <2>1, <2>2, <2>3, StoredStays
<1>8. QED
  BY <1>5, <1>6, <1>7 DEF SaveNormal

\* The row of the backup that goes was settled: the database or the file has it.
LEMMA SaveAfterKeeps ==
    ASSUME IInv, Stored, NEW s \in Servers, SaveAfter(s)
    PROVE  Stored'
<1> DEFINE n == job[s].save
           mine == Coded(backup[s], n)
<1>1. /\ job[s] \in Job /\ JobShape(job[s]) /\ job[s].stage = "after"
      /\ job' = [job EXCEPT ![s].stage = "done"]
      /\ job \in [Servers -> Job] /\ saves' = saves /\ made' = made /\ loaded' = loaded
      /\ backup \in [Servers -> SUBSET Row] /\ file \in [Servers -> SUBSET Row]
  BY Here DEF SaveAfter, IInv, TypeOK
<1>2. Saving(s) /\ job[s].party # {} /\ job[s].status \in {"SAVE_FAILED", "SAVE_SUCCESS"}
  BY <1>1 DEF JobShape, Job, Saving
<1>3. /\ \A i \in Servers \ {s} : job'[i] = job[i]
      /\ job'[s].status = job[s].status /\ job'[s].save = job[s].save
  BY <1>1 DEF Job
<1>4. Held(s) => Stored'
  <2>1. Held(s) => Held(s)'
    BY <1>1, <1>3 DEF Held, InMemory
  <2>2. QED
    BY <2>1, HeldStored
<1>5. /\ \A r \in mine : r.save = n
      /\ job[s].status = "SAVE_FAILED" => mine = {}
      /\ \A q, r \in mine : q = r
  BY <1>1, <1>2 DEF Coded, IInv, RowsShaped, NotYetWritten
<1>6. /\ \A i \in Servers : file[i] \subseteq file'[i]
      /\ \A i \in Servers \ {s} : backup'[i] = backup[i]
      /\ \A r \in backup[s] \ mine : r \in backup'[s]
      /\ ~job[s].ok => mine \subseteq file'[s] \cup backup'[s]
  <2>1. Moved(s, mine) \in {file, [file EXCEPT ![s] = @ \cup mine]}
        /\ (~job[s].ok => Moved(s, mine) = [file EXCEPT ![s] = @ \cup mine])
    BY DEF Moved
  <2>2. \/ file' = Moved(s, mine) /\ backup' = [backup EXCEPT ![s] = @ \ mine]
        \/ file' \in {file, Moved(s, mine)} /\ backup' = backup
    BY DEF SaveAfter, Generated
  <2>3. mine \subseteq backup[s]
    BY DEF Coded
  <2> HIDE DEF mine
  <2>4. QED
    BY <1>1, <2>1, <2>2, <2>3
<1> HIDE DEF mine
<1>7. ASSUME made \notin loaded, NEW r \in Rows, OfNewest(r) PROVE Stored'
  <2>1. r \in saves \/ \E i \in Servers : r \in file[i] \cup backup[i]
    BY InRows
  <2>2. CASE r \notin mine \/ r \in saves \/ \E i \in Servers : r \in file[i]
    <3>1. r \in saves' \/ \E i \in Servers : r \in file'[i] \cup backup'[i]
      BY <1>1, <1>6, <2>1, <2>2
    <3>2. QED
      BY <1>1, <1>7, <3>1, RowStored
  <2>3. CASE r \in mine /\ ~job[s].ok
    BY <1>1, <1>6, <1>7, <2>3, RowStored
  <2>4. CASE r \in mine /\ job[s].ok
    <3> DEFINE row == SavedRow(job[s], job[s].told)
    <3>1. job[s].save = made /\ job[s].save \notin loaded
      BY <1>5, <1>7, <2>4 DEF OfNewest
    <3>2. row \in saves
      BY <1>2, <1>5, <2>4, <3>1 DEF IInv, Written
    <3>3. OfNewest(row)
      BY <1>2, <3>1 DEF OfNewest, SavedRow
    <3> HIDE DEF row
    <3>4. QED
      BY <1>1, <1>7, <3>2, <3>3, RowStored
  <2>5. QED
    BY <2>2, <2>3, <2>4
<1>8. QED
  BY <1>1, <1>3, <1>4, <1>7, StoredStays

LEMMA ResetKeeps ==
    ASSUME IInv, Stored, NEW s \in Servers, Reset(s)
    PROVE  Stored'
<1>1. /\ made' = made /\ loaded' = loaded /\ saves' = saves /\ file' = file /\ backup' = backup
      /\ job \in [Servers -> Job] /\ job' = [job EXCEPT ![s].wanted = FALSE]
  BY DEF tables, Reset, IInv, TypeOK
<1>2. /\ \A i \in Servers \ {s} : job'[i] = job[i]
      /\ job'[s].status = job[s].status /\ job'[s].save = job[s].save
  BY <1>1 DEF Job
<1>3. QED
  BY <1>1, <1>2, AddKeeps DEF InMemory

LEMMA LoadStartKeeps ==
    ASSUME IInv, Stored, NEW s \in Servers,
           \/ LoadSelect(s)
           \/ \E code \in (UserCodes \ Taken) \cup 1 .. made : LoadTeam(s, code)
    PROVE  Stored'
<1>1. /\ job[s] \in Job /\ JobShape(job[s]) /\ job \in [Servers -> Job] /\ UNCHANGED tables
  BY Here DEF LoadSelect, LoadTeam
<1>2. ~InMemory(s)
  BY <1>1, NoJobShape DEF LoadSelect, LoadTeam, JobShape, Job, InMemory, Carrying
<1>3. /\ made' = made /\ loaded' = loaded /\ saves' = saves /\ file' = file /\ backup' = backup
  BY <1>1 DEF tables
<1>4. \A i \in Servers \ {s} : job'[i] = job[i]
  BY <1>1 DEF LoadSelect, LoadTeam
<1>5. QED
  BY <1>2, <1>3, <1>4, AddKeeps

\* What is deleted is loaded by the server that gets the answer.
LEMMA LoadDeleteKeeps ==
    ASSUME IInv, Stored, NEW s \in Servers, LoadDelete(s)
    PROVE  Stored' \/ Excused
<1> DEFINE gone == Selected(job[s])
<1>1. /\ job[s] \in Job /\ JobShape(job[s]) /\ job[s].stage = "delete"
      /\ job \in [Servers -> Job] /\ job[s].save <= made
      /\ backup' = backup /\ file' = file /\ made' = made
      /\ \A i \in Servers \ {s} : job'[i] = job[i]
  BY Here DEF LoadDelete
<1>2. ~InMemory(s) /\ job[s].save # 0 /\ job[s].save \in 1 .. made
  BY <1>1 DEF JobShape, Job, InMemory, IInv, TypeOK
<1>3. \A r \in gone : r.save = job[s].save
  BY DEF Selected
<1>4. CASE UNCHANGED <<saves, loaded>>
  BY <1>1, <1>2, <1>4, AddKeeps
<1>5. CASE saves' = saves \ gone /\ loaded' = loaded \cup {r.save : r \in gone}
  <2>1. ASSUME made \notin loaded, NEW r \in Rows, OfNewest(r), made \notin loaded'
        PROVE  Stored'
    <3>1. r.save = made
      BY <2>1 DEF OfNewest
    <3>2. r \notin gone
      BY <1>5, <2>1, <3>1
    <3>3. r \in saves' \/ \E i \in Servers : r \in file'[i] \cup backup'[i]
      BY <1>1, <1>5, <3>2, InRows
    <3>4. QED
      BY <1>1, <2>1, <3>3, RowStored
  <2>2. CASE made \in loaded' /\ made \notin loaded
    <3>1. gone # {} /\ job[s].save = made
      BY <1>3, <1>5, <2>2
    <3>2. CASE job' = [job EXCEPT ![s].stage = "done", ![s].status = Deleted(gone)]
      <4>1. job'[s].status = "LOAD_SUCCESS" /\ job'[s].save = made'
        BY <1>1, <3>1, <3>2 DEF Deleted, Job
      <4>2. QED
        BY <4>1, HeldStored DEF Held, InMemory
    <3>3. CASE unsure' = unsure \cup {<<"delete", job[s].save>>}
      <4>1. <<"delete", made>> \notin unsure
        BY <1>2, <2>2, <3>1 DEF IInv, DeletedIsLoaded
      <4>2. unsure' # unsure
        BY <3>1, <3>3, <4>1
      <4>3. QED
        BY <4>2 DEF Excused
    <3>4. CASE UNCHANGED <<saves, loaded, unsure>>
      BY <2>2, <3>4
    <3>5. QED
      BY <3>2, <3>3, <3>4 DEF LoadDelete
  <2>3. CASE made \in loaded \/ made \notin loaded'
    BY <1>1, <1>2, <2>1, <2>3, StoredStays DEF Held
  <2>4. QED
    BY <2>2, <2>3
<1>6. QED
  BY <1>4, <1>5 DEF LoadDelete

LEMMA LoadFileKeeps ==
    ASSUME IInv, Stored, NEW s \in Servers, LoadFile(s)
    PROVE  Stored'
<1>1. /\ job[s] \in Job /\ JobShape(job[s]) /\ job[s].stage = "file"
      /\ job \in [Servers -> Job] /\ file \in [Servers -> SUBSET Row]
      /\ saves' = saves /\ backup' = backup /\ made' = made
      /\ \A i \in Servers \ {s} : job'[i] = job[i]
  BY Here DEF LoadFile, IInv, TypeOK
<1>2. ~InMemory(s)
  BY <1>1 DEF JobShape, Job, InMemory
<1>3. CASE UNCHANGED <<file, loaded>>
  BY <1>1, <1>2, <1>3, AddKeeps
<1>4. ASSUME NEW r \in Loadable(file[s], job[s]),
             file' = [file EXCEPT ![s] = @ \ {r}], loaded' = loaded \cup {r.save},
             job' = [job EXCEPT ![s].stage = "done", ![s].save = r.save,
                                ![s].status = "LOAD_SUCCESS"]
      PROVE  Stored'
  <2>1. CASE r.save = made
    <3>1. job'[s].status = "LOAD_SUCCESS" /\ job'[s].save = made'
      BY <1>1, <1>4, <2>1 DEF Job
    <3>2. QED
      BY <3>1, HeldStored DEF Held, InMemory
  <2>2. CASE r.save # made
    <3>1. ASSUME made \notin loaded, NEW q \in Rows, OfNewest(q) PROVE Stored'
      <4>1. q # r /\ made \notin loaded'
        BY <1>4, <2>2, <3>1 DEF OfNewest
      <4>2. q \in saves' \/ \E i \in Servers : q \in file'[i] \cup backup'[i]
        BY <1>1, <1>4, <4>1, InRows
      <4>3. QED
        BY <1>1, <3>1, <4>1, <4>2, RowStored
    <3>2. QED
      BY <1>1, <1>2, <3>1, StoredStays DEF Held
  <2>3. QED
    BY <2>1, <2>2
<1>5. QED
  BY <1>3, <1>4 DEF LoadFile

LEMMA NextKeeps == ASSUME IInv, Stored, Next PROVE Stored' \/ Excused
<1>1. PICK s \in Servers :
        \/ \E p \in Names : SetCharacterTeam(s, p) \/ SetForceCharacterTeam(s, p)
                            \/ OnCharacterDeath(s, p)
        \/ \E code \in UserCodes \cup {NoCode} : SaveTeam(s, code)
        \/ \E code \in (UserCodes \ Taken) \cup 1 .. made : LoadTeam(s, code)
        \/ Pool(s) \/ ProcessSaveTeam(s) \/ Drop(s) \/ Reset(s) \/ Crash(s)
  BY DEF Next
<1>2. CASE \E p \in Names : SetCharacterTeam(s, p) \/ SetForceCharacterTeam(s, p)
                            \/ OnCharacterDeath(s, p)
  BY <1>2, TeamKeeps DEF SetCharacterTeam, SetForceCharacterTeam, OnCharacterDeath
<1>3. CASE \E code \in UserCodes \cup {NoCode} : SaveTeam(s, code)
  BY <1>3, SaveTeamKeeps
<1>4. CASE LoadSelect(s) \/ \E code \in (UserCodes \ Taken) \cup 1 .. made : LoadTeam(s, code)
  BY <1>4, LoadStartKeeps
<1>5. CASE SaveFirst(s) \/ SaveNormal(s) \/ SaveAfter(s) \/ LoadDelete(s) \/ LoadFile(s)
  BY <1>5, SaveFirstKeeps, SaveNormalKeeps, SaveAfterKeeps, LoadDeleteKeeps, LoadFileKeeps
<1>6. CASE Reset(s)
  BY <1>6, ResetKeeps
<1>7. CASE ProcessSaveTeam(s) \/ Drop(s) \/ Crash(s)
  BY <1>7, EndKeeps
<1>8. QED
  BY <1>1, <1>2, <1>3, <1>4, <1>5, <1>6, <1>7 DEF Pool

\* What was saved last is not lost (score.cpp, scoreworker.cpp, teams.cpp): it
\* stays until a team plays it, unless its only copy is in the memory of a
\* server where nobody is left to play it, or the answer to a statement is lost.
THEOREM SavesKeptAlways == Spec => SavesKept
<1>1. IInv /\ [Next]_vars =>
        [Stored => \/ Stored' \/ Played'
                   \/ unsure' # unsure
                   \/ \E s \in Servers :
                        /\ InMemory(s) /\ job[s].save = made
                        /\ team'[s].members = {} \/ ~job[s].wanted]_vars
  BY NextKeeps DEF Excused
<1>2. QED
  BY <1>1, Invariance, PTL DEF Spec, SavesKept
=============================================================================
