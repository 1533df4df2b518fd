----------------------------- MODULE TeamSaves -----------------------------
(* Saving the progress of a team with /save and loading it with /load       *)
(* (game/server/score.cpp, scoreworker.cpp, teams.cpp, save.cpp), on game   *)
(* servers that share one database.  The progress of one team is followed   *)
(* through the game, the requests under way and the tables.  Each save      *)
(* gets a new SaveId (a number here); the progress a team plays is known by *)
(* the number of the save it comes from.                                    *)
(*                                                                          *)
(* A request passes the stages of the connection pool: the backup thread    *)
(* writes a row to the saves_backup table of the server's own file          *)
(* ("first"), the worker executes it on the shared database ("normal", for  *)
(* a load "select" and "delete") and settles the file ("after", "file"),    *)
(* then the tick of the game reads the result ("done").                     *)
EXTENDS Naturals, FiniteSets

CONSTANTS
    Servers,     \* the game servers
    First,       \* the one where the team starts
    WithBackup,  \* the servers that have a backup file
    Names,       \* players, known by their names on every server
    UserCodes,   \* codes players choose
    Taken,       \* those another team's savegame already has
    NoCode,      \* /save without a code
    NoRun,       \* a team that has not started
    MaxSaves,    \* bounds how often the team saves
    MaxTrouble   \* bounds failing statements, resets and crashes

ASSUME ServersAssumption == First \in Servers /\ WithBackup \subseteq Servers
ASSUME NamesAssumption == Names # {}
ASSUME CodesAssumption ==
    /\ Taken \subseteq UserCodes /\ NoCode \notin UserCodes
    /\ \A c \in UserCodes \cup {NoCode} : c \notin Nat
ASSUME BoundsAssumption ==
    MaxSaves \in Nat /\ MaxTrouble \in Nat /\ NoRun \notin Nat

VARIABLES
    team,    \* for each server, the DDRace team the players use
    job,     \* for each server, the request in the pool and its result
    saves,   \* record_saves of the shared database
    backup,  \* record_saves_backup of each server's file
    file,    \* record_saves of each server's file
    made,    \* number of the newest save
    loaded,  \* the saves whose rows were deleted to be loaded
    unsure,  \* the statements that took effect although their answer was lost
    trouble  \* how much went wrong so far

vars == <<team, job, saves, backup, file, made, loaded, unsure, trouble>>

\* The code GeneratePassphrase makes for a save; no two saves get the same, and
\* no player happens to choose it.
Generated(n) == n
Codes == UserCodes \cup 1 .. MaxSaves

Row == [code : Codes, save : 0 .. MaxSaves, party : SUBSET Names]

Empty == [members |-> {}, started |-> FALSE, run |-> NoRun, tees |-> {}]
Open(members) == [Empty EXCEPT !.members = members]

NoJob == [kind |-> "none", save |-> 0, party |-> {}, code |-> NoCode,
          stage |-> "done", ok |-> FALSE, status |-> "none", told |-> NoCode,
          wanted |-> FALSE]

Init ==
    /\ team = [s \in Servers |->
                 IF s = First THEN [members |-> Names, started |-> TRUE,
                                    run |-> 0, tees |-> Names]
                              ELSE Empty]
    /\ job = [s \in Servers |-> NoJob]
    /\ saves = {[code |-> c, save |-> 0, party |-> {}] : c \in Taken}
    /\ backup = [s \in Servers |-> {}]
    /\ file = [s \in Servers |-> {}]
    /\ made = 0
    /\ loaded = {}
    /\ unsure = {}
    /\ trouble = 0

-----------------------------------------------------------------------------
(* The tables.  The primary key is the code (with the map).                 *)

Coded(table, code) == {r \in table : r.code = code}
Inserted(table, row) ==
    IF Coded(table, row.code) = {} THEN table \cup {row} ELSE table

SavedRow(j, code) == [code |-> code, save |-> j.save, party |-> j.party]

tables == <<saves, backup, file, made, loaded, unsure>>

Trouble == trouble < MaxTrouble /\ trouble' = trouble + 1

-----------------------------------------------------------------------------
(* The team in the game.                                                    *)

GetSaving(s) == job[s].wanted

\* Mutant: players join a team that saves or loads.
SetCharacterTeam_Saving(s, p) ==
    /\ p \notin team[s].members
    /\ ~team[s].started
    /\ team' = [team EXCEPT ![s].members = @ \cup {p}]
    /\ UNCHANGED <<job, tables, trouble>>

\* The /team command: nobody joins a team that started, saves or loads.
SetCharacterTeam(s, p) ==
    /\ p \notin team[s].members
    /\ ~team[s].started
    /\ ~GetSaving(s)
    /\ team' = [team EXCEPT ![s].members = @ \cup {p}]
    /\ UNCHANGED <<job, tables, trouble>>

\* What is left of a team when someone is put into team 0.
Without(t, p) ==
    IF t.members = {p} THEN Empty
    ELSE [t EXCEPT !.members = @ \ {p}, !.tees = @ \ {p}]

\* Disconnecting and joining the spectators, whatever the team is doing.
SetForceCharacterTeam(s, p) ==
    /\ p \in team[s].members
    /\ team' = [team EXCEPT ![s] = Without(@, p)]
    /\ UNCHANGED <<job, tables, trouble>>

\* Dying in a team that is not locked is leaving it, in a locked one it ends
\* the run of everybody.  Deaths are ignored while the team saves or loads.
OnCharacterDeath(s, p) ==
    /\ p \in team[s].members
    /\ ~GetSaving(s)
    /\ team' \in {[team EXCEPT ![s] = Without(@, p)],
                  [team EXCEPT ![s] = Open(@.members)]}
    /\ UNCHANGED <<job, tables, trouble>>

\* The map is reset: results are no longer waited for, the pool goes on.
Reset(s) ==
    /\ team' = [team EXCEPT ![s] = Empty]
    /\ job' = [job EXCEPT ![s].wanted = FALSE]
    /\ Trouble
    /\ UNCHANGED tables

\* The server's process ends.
Crash(s) ==
    /\ team' = [team EXCEPT ![s] = Empty]
    /\ job' = [job EXCEPT ![s] = NoJob]
    /\ Trouble
    /\ UNCHANGED tables

-----------------------------------------------------------------------------
(* /save.                                                                   *)

\* The team's tees are taken out of the game.  It stays as it is because its
\* result is set before the tees are killed.
SaveTeam(s, code) ==
    /\ job[s] = NoJob
    /\ made < MaxSaves
    /\ team[s].started
    /\ team[s].tees = team[s].members
    /\ job' = [job EXCEPT ![s] =
                 [NoJob EXCEPT !.kind = "save", !.save = made + 1,
                               !.party = team[s].members, !.code = code,
                               !.stage = "first", !.status = "SAVE_FAILED",
                               !.wanted = TRUE]]
    /\ team' = [team EXCEPT ![s].run = NoRun, ![s].tees = {}]
    /\ made' = made + 1
    /\ UNCHANGED <<saves, backup, file, loaded, unsure, trouble>>

\* Write::BACKUP_FIRST.
SaveFirst(s) ==
    LET code == Generated(job[s].save) IN
    /\ job[s].stage = "first"
    /\ \/ /\ s \in WithBackup
          /\ backup' = [backup EXCEPT ![s] =
                          Inserted(@, SavedRow(job[s], code))]
          /\ job' = [job EXCEPT ![s].stage = "normal", ![s].told = code,
                                ![s].status = "SAVE_SUCCESS"]
          /\ UNCHANGED trouble
       \/ /\ IF s \in WithBackup THEN Trouble ELSE UNCHANGED trouble
          /\ job' = [job EXCEPT ![s].stage = "normal"]
          /\ UNCHANGED backup
    /\ UNCHANGED <<team, saves, file, made, loaded, unsure>>

\* The code the row gets: the user's unless there is none or it is taken.
CodeFor(j) ==
    IF j.code = NoCode \/ Coded(saves, j.code) # {}
    THEN Generated(j.save) ELSE j.code

\* Write::NORMAL: done, without effect, or done and the answer lost.  Skipping
\* it in fail mode or while shutting down is the same as no effect.
SaveNormal(s) ==
    LET row == SavedRow(job[s], CodeFor(job[s])) IN
    /\ job[s].stage = "normal"
    /\ \/ /\ saves' = Inserted(saves, row)
          /\ job' = [job EXCEPT ![s].stage = "after", ![s].ok = TRUE,
                                ![s].status = "SAVE_SUCCESS",
                                ![s].told = row.code]
          /\ UNCHANGED <<unsure, trouble>>
       \/ /\ Trouble
          /\ \/ UNCHANGED <<saves, unsure>>
             \/ /\ saves' = Inserted(saves, row)
                /\ unsure' = unsure \cup {<<"insert", job[s].save>>}
          /\ job' = [job EXCEPT ![s].stage = "after"]
    /\ UNCHANGED <<team, backup, file, made, loaded>>

\* Mutant: the row of a failed save is never moved.
Moved_Never(s, mine) == file

\* The file's table of saves after NORMAL_SUCCEEDED and NORMAL_FAILED.
Moved(s, mine) == IF job[s].ok THEN file ELSE [file EXCEPT ![s] = @ \cup mine]

\* Write::NORMAL_SUCCEEDED deletes the row of the backup table, NORMAL_FAILED
\* moves it to the saves of the file.  Each statement can fail.
SaveAfter(s) ==
    LET mine == Coded(backup[s], Generated(job[s].save))
        moved == Moved(s, mine) IN
    /\ job[s].stage = "after"
    /\ job' = [job EXCEPT ![s].stage = "done"]
    /\ \/ /\ file' = moved
          /\ backup' = [backup EXCEPT ![s] = @ \ mine]
          /\ UNCHANGED trouble
       \/ /\ mine # {}
          /\ file' \in {file, moved}
          /\ Trouble
          /\ UNCHANGED backup
    /\ UNCHANGED <<team, saves, made, loaded, unsure>>

-----------------------------------------------------------------------------
(* /load.                                                                   *)

LoadTeam(s, code) ==
    /\ job[s] = NoJob
    /\ team[s].members # {}
    /\ ~team[s].started
    /\ job' = [job EXCEPT ![s] =
                 [NoJob EXCEPT !.kind = "load", !.party = team[s].members,
                               !.code = code, !.stage = "select",
                               !.status = "LOAD_FAILED", !.wanted = TRUE]]
    /\ UNCHANGED <<team, tables, trouble>>

\* MatchPlayers: exactly the saved players, by their names.
Loadable(table, j) == {r \in Coded(table, j.code) : r.party = j.party}

\* The first statement finds a row, or none that may be loaded (also when the
\* savegame is too new), or fails.
LoadSelect(s) ==
    /\ job[s].stage = "select"
    /\ \/ \E r \in Loadable(saves, job[s]) :
            /\ job' = [job EXCEPT ![s].stage = "delete", ![s].save = r.save]
            /\ UNCHANGED trouble
       \/ /\ job' = [job EXCEPT ![s].stage = "done"]
          /\ UNCHANGED trouble
       \/ /\ job' = [job EXCEPT ![s].stage = "file"]
          /\ Trouble
    /\ UNCHANGED <<team, tables>>

\* Mutant: the row is known by its code only.
Selected_NoSaveId(j) == Coded(saves, j.code)

\* The row the second statement deletes: not one saved under the same code
\* after another server loaded the first.
Selected(j) == {r \in Coded(saves, j.code) : r.save = j.save}

\* Mutant: the number of deleted rows is not looked at.
Deleted_Unchecked(gone) == "LOAD_SUCCESS"

\* No row is deleted when another server was faster.
Deleted(gone) == IF gone = {} THEN "LOAD_FAILED" ELSE "LOAD_SUCCESS"

LoadDelete(s) ==
    LET gone == Selected(job[s]) IN
    /\ job[s].stage = "delete"
    /\ \/ /\ saves' = saves \ gone
          /\ loaded' = loaded \cup {r.save : r \in gone}
          /\ job' = [job EXCEPT ![s].stage = "done",
                                ![s].status = Deleted(gone)]
          /\ UNCHANGED <<unsure, trouble>>
       \/ /\ Trouble
          /\ \/ UNCHANGED <<saves, loaded, unsure>>
             \/ /\ saves' = saves \ gone
                /\ loaded' = loaded \cup {r.save : r \in gone}
                /\ unsure' = unsure \cup {<<"delete", job[s].save>>}
          /\ job' = [job EXCEPT ![s].stage = "file"]
    /\ UNCHANGED <<team, backup, file, made>>

\* Write::NORMAL_FAILED looks in the saves of the server's file.
LoadFile(s) ==
    /\ job[s].stage = "file"
    /\ \/ \E r \in Loadable(file[s], job[s]) :
            /\ file' = [file EXCEPT ![s] = @ \ {r}]
            /\ loaded' = loaded \cup {r.save}
            /\ job' = [job EXCEPT ![s].stage = "done", ![s].save = r.save,
                                  ![s].status = "LOAD_SUCCESS"]
       \/ /\ job' = [job EXCEPT ![s].stage = "done"]
          /\ UNCHANGED <<file, loaded>>
    /\ UNCHANGED <<team, saves, backup, made, unsure, trouble>>

-----------------------------------------------------------------------------
(* ProcessSaveTeam, with each tick.                                         *)

\* CSaveTeam::Load: the saved players who are still in the team.
Loaded(t, j) ==
    IF t.members = {} THEN t
    ELSE [members |-> t.members, started |-> TRUE, run |-> j.save,
          tees |-> t.members \cap j.party]

ProcessSaveTeam(s) ==
    /\ job[s].kind # "none"
    /\ job[s].stage = "done"
    /\ job[s].wanted
    /\ team' = [team EXCEPT ![s] =
                  CASE job[s].status = "SAVE_SUCCESS" -> Empty
                    [] job[s].status = "SAVE_FAILED" -> Loaded(@, job[s])
                    [] job[s].status = "LOAD_SUCCESS" -> Loaded(@, job[s])
                    [] job[s].status = "LOAD_FAILED" -> @]
    /\ job' = [job EXCEPT ![s] = NoJob]
    /\ UNCHANGED <<tables, trouble>>

\* The result of a request made before a reset is dropped.
Drop(s) ==
    /\ job[s].kind # "none"
    /\ job[s].stage = "done"
    /\ ~job[s].wanted
    /\ job' = [job EXCEPT ![s] = NoJob]
    /\ UNCHANGED <<team, tables, trouble>>

-----------------------------------------------------------------------------

Pool(s) ==
    \/ SaveFirst(s) \/ SaveNormal(s) \/ SaveAfter(s)
    \/ LoadSelect(s) \/ LoadDelete(s) \/ LoadFile(s)

Next ==
    \E s \in Servers :
        \/ \E p \in Names : \/ SetCharacterTeam(s, p)
                            \/ SetForceCharacterTeam(s, p)
                            \/ OnCharacterDeath(s, p)
        \/ \E code \in UserCodes \cup {NoCode} : SaveTeam(s, code)
        \/ \E code \in (UserCodes \ Taken) \cup 1 .. made : LoadTeam(s, code)
        \/ Pool(s)
        \/ ProcessSaveTeam(s)
        \/ Drop(s)
        \/ Reset(s)
        \/ Crash(s)

Spec == Init /\ [][Next]_vars

-----------------------------------------------------------------------------
(* What should hold.                                                        *)

Team == [members : SUBSET Names, started : BOOLEAN,
         run : 0 .. MaxSaves \cup {NoRun}, tees : SUBSET Names]

Job == [kind : {"none", "save", "load"}, save : 0 .. MaxSaves, party : SUBSET Names,
        code : Codes \cup {NoCode},
        stage : {"first", "normal", "after", "select", "delete", "file", "done"},
        ok : BOOLEAN,
        status : {"none", "SAVE_FAILED", "SAVE_SUCCESS", "LOAD_FAILED", "LOAD_SUCCESS"},
        told : Codes \cup {NoCode}, wanted : BOOLEAN]

TypeOK ==
    /\ team \in [Servers -> Team]
    /\ job \in [Servers -> Job]
    /\ saves \subseteq Row
    /\ backup \in [Servers -> SUBSET Row]
    /\ file \in [Servers -> SUBSET Row]
    /\ made \in 0 .. MaxSaves
    /\ loaded \subseteq 1 .. made
    /\ unsure \subseteq {"insert", "delete"} \X (1 .. made)
    /\ trouble \in 0 .. MaxTrouble

\* The copy of the progress only the memory of a server has: of a save that
\* is not written yet, or of a savegame that was deleted to be loaded.
InMemory(s) == job[s].status \in {"SAVE_FAILED", "LOAD_SUCCESS"}

Tracked(table) == {r \in table : r.party # {}}

\* Everything the team can come to play with.
Copies ==
    {<<"team", s>> : s \in {t \in Servers : team[t].run # NoRun}}
    \cup {<<"job", s>> : s \in {t \in Servers : InMemory(t)}}
    \cup {<<"row", r>> : r \in Tracked(saves)}
    \cup UNION {{<<s, r>> : r \in file[s]} : s \in Servers}

\* A team's progress cannot be multiplied: it is in a game, in a request or in
\* one row, however saves and loads of several servers meet and fail - but
\* when an insert took effect and its answer was lost.
AtMostOnce == (\A u \in unsure : u[1] = "delete") => Cardinality(Copies) <= 1

\* A code that players are told to load with denotes their savegame, until it
\* is loaded.
CodeWorks ==
    \A s \in Servers :
        job[s].status = "SAVE_SUCCESS" /\ job[s].save \notin loaded
            => SavedRow(job[s], job[s].told)
                    \in saves \cup file[s] \cup backup[s]

\* The newest save, as long as it is not played.
Stored ==
    \/ \E s \in Servers : InMemory(s) /\ job[s].save = made
    \/ /\ made \notin loaded
       /\ \E r \in saves \cup UNION {file[s] \cup backup[s] : s \in Servers} :
            r.save = made /\ r.party # {}
Played == \E s \in Servers : team[s].run = made

\* What was saved last is not lost: it stays until a team plays it, unless its
\* only copy is in the memory of a server where nobody is left to play it, or
\* the answer to a statement is lost.
SavesKept ==
    [][Stored => \/ Stored' \/ Played'
                 \/ unsure' # unsure
                 \/ \E s \in Servers :
                      /\ InMemory(s) /\ job[s].save = made
                      /\ team'[s].members = {} \/ ~job[s].wanted]_vars

\* Whoever is in a team that plays carries its progress: nobody gets into the
\* team while it is saved or loaded.
TeamTogether ==
    /\ TypeOK
    /\ \A s \in Servers :
        team[s].run # NoRun => team[s].tees = team[s].members

=============================================================================
