------------------------------- MODULE Rounds -------------------------------
(* The states of a game (game/server/instagib/gamecontroller.cpp,              *)
(* gamecontroller.cpp, gamemodes/base_pvp/base_pvp.cpp): warmup, countdown,    *)
(* running, paused and end of the round, moved by the tick, by the players'    *)
(* ready changes, by players who come, go or change teams, and by the          *)
(* administrator.  Modelled for a mode won by score without teams; a tick      *)
(* stands for a second, and the time limit is off.                             *)
EXTENDS Integers, FiniteSets

CONSTANTS Players, None,
          ScoreLimit,          \* sv_scorelimit
          Warmup,              \* the seconds of a timed warmup
          EndTicks,            \* TIMER_END
          ForceReady,          \* sv_force_ready_all, 0 for never
          StartCountdowns,     \* the values of sv_countdown_round_start
          UnpauseCountdown,    \* sv_countdown_unpause
          MaxScore             \* bound: the points of a player

ASSUME RoundsAssumption ==
    /\ {ScoreLimit, Warmup, EndTicks} \subseteq Nat \ {0}
    /\ {ForceReady, UnpauseCountdown, MaxScore} \cup StartCountdowns \subseteq Nat
    /\ None \notin Int

INFINITE == -1

VARIABLES
    game,       \* the game, see GameType
    readyMode,  \* sv_player_ready_mode
    casual,     \* sv_casual_rounds and not sv_tournament
    roundStart, \* sv_countdown_round_start
    earned      \* the points made since the last StartRound (history)

config == <<casual, roundStart>>
vars == <<game, readyMode, config, earned>>

States == {"warmup_game", "warmup_user", "countdown_start", "countdown_unpause",
           "paused", "running", "end_round"}
Countdowns == {"countdown_start", "countdown_unpause"}
Warmups == {"warmup_game", "warmup_user"}

GameType == [
    state : States, timer : {INFINITE} \cup Nat,    \* m_GameState, m_GameStateTimer
    warmup : Nat,                                    \* m_Warmup
    paused : BOOLEAN,                                \* m_World.m_Paused
    reset : BOOLEAN,                                 \* m_World.m_ResetRequested
    over : Nat \cup {None},                          \* ticks since m_GameOverTick
    pauseAge : Nat \cup {None},                      \* since m_GamePauseStartTime
    team : [Players -> {"none", "spectators", "game"}],
    entered : [Players -> BOOLEAN],                  \* the client is in game
    ready : [Players -> BOOLEAN],                    \* m_IsReadyToPlay
    score : [Players -> Nat]]                        \* m_Score

Playing(g) == {p \in Players : g.team[p] = "game"}

(***************************************************************************)
(* SetGameState, one operator for each state it is asked for.  A request   *)
(* that the present state does not allow changes nothing.                  *)
(***************************************************************************)
(* SetPlayersReadyState *)
SetReady(g, value) == [g EXCEPT !.ready = [p \in Players |-> IF p \in Playing(g) THEN value ELSE @[p]]]

(* Mutant: the warmup timer of 0.6 clients goes on. *)
Run_Warmup(g) == [SetReady(g, TRUE) EXCEPT !.state = "running", !.timer = INFINITE,
                                           !.paused = FALSE, !.pauseAge = None]
Run(g) == [SetReady(g, TRUE) EXCEPT !.state = "running", !.timer = INFINITE, !.warmup = 0,
                                    !.paused = FALSE, !.pauseAge = None]

CountDown(g, state) ==
    LET seconds == IF g.state = "paused" THEN UnpauseCountdown ELSE roundStart
    IN  IF g.state \notin {"running", "paused"} \cup Countdowns THEN g
        ELSE IF seconds > 0
             THEN [g EXCEPT !.state = state, !.timer = seconds, !.paused = TRUE]
             ELSE Run(g)

WarmupForever(g) ==
    IF g.state \in {"running"} \cup Warmups
    THEN [g EXCEPT !.state = "warmup_game", !.timer = INFINITE, !.pauseAge = None]
    ELSE g

(* StartRound with ResetGame and OnRoundStart.  After a round that ended, the  *)
(* next one starts by itself only in casual games.                             *)
StartRound(g) ==
    LET r == Run([g EXCEPT !.reset = TRUE, !.over = None])
    IN  IF g.state = "end_round" /\ ~casual THEN WarmupForever(r)
        ELSE CountDown(r, "countdown_start")

WarmupFor(g, seconds) ==
    IF g.state \notin {"running", "paused"} \cup Warmups THEN g
    ELSE LET w == IF seconds = 0 THEN StartRound(g)
                  ELSE [g EXCEPT !.state = "warmup_user", !.timer = seconds,
                                 !.warmup = seconds, !.paused = FALSE]
         IN  [w EXCEPT !.pauseAge = None]

MayPause(g) == g.state \in {"running", "paused", "warmup_game"}

Pause(g) ==
    IF ~MayPause(g) THEN g
    ELSE [SetReady(g, FALSE) EXCEPT !.state = "paused", !.timer = INFINITE,
                                    !.paused = TRUE, !.pauseAge = 0]

Unpause(g) == IF ~MayPause(g) THEN g
              ELSE [CountDown(g, "countdown_unpause") EXCEPT !.pauseAge = 0]

EndRound(g) ==
    IF g.warmup > 0 THEN g
    ELSE LET e == [g EXCEPT !.over = 0, !.pauseAge = None]
         IN  IF g.state \notin {"running", "paused"} THEN e
             ELSE [e EXCEPT !.state = "end_round", !.timer = EndTicks, !.paused = TRUE]

Unready(g) == {p \in Playing(g) : ~g.ready[p]}

(* CheckReadyStates, called with a player who is about to leave: a paused game *)
(* goes on when everybody else in it is ready.                                 *)
CheckReadyStates(g, without) ==
    IF readyMode /\ g.state = "paused" /\ Unready(g) \subseteq without
    THEN Unpause(g) ELSE g

(***************************************************************************)
(* The tick.                                                               *)
(***************************************************************************)
(* The clocks, and the reset asked for by StartRound (CGameWorld::Tick).       *)
Clocks(g) == [g EXCEPT !.over = IF @ = None THEN None ELSE @ + 1,
                       !.pauseAge = IF @ \in {None, ForceReady} THEN @ ELSE @ + 1]
OnReset(g) == IF ~g.reset THEN g
              ELSE [g EXCEPT !.reset = FALSE,
                             !.ready = [p \in Players |-> @[p] \/ g.team[p] # "none"],
                             !.score = [p \in Players |-> 0]]

(* The first part of IGameController::Tick: the timer of the state.            *)
StateTimer(g) ==
    LET t == [g EXCEPT !.timer = IF g.state # "running" /\ @ > 0 THEN @ - 1 ELSE @]
    IN  CASE t.timer = 0 /\ t.state = "warmup_user" -> WarmupFor(t, 0)
          [] t.timer = 0 /\ t.state \in Countdowns -> Run(t)
          [] t.timer = 0 /\ t.state = "end_round" -> StartRound(t)
          [] OTHER -> t

(* The warmup timer, and the restart ten seconds after the end of a round.     *)
OldTimers(g) ==
    LET w == [g EXCEPT !.warmup = IF @ > 0 THEN @ - 1 ELSE 0]
    IN  IF w.over # None /\ w.over > EndTicks THEN StartRound(w) ELSE w

(* Mutant: the players are not made ready. *)
CheckForceUnpauseGame_Ready(g) ==
    IF ~(readyMode /\ g.paused /\ ForceReady > 0 /\ g.pauseAge = ForceReady) THEN g
    ELSE CheckReadyStates(g, {})
CheckForceUnpauseGame(g) ==
    IF ~(readyMode /\ g.paused /\ ForceReady > 0 /\ g.pauseAge = ForceReady) THEN g
    ELSE CheckReadyStates(SetReady(g, TRUE), {})

(* DoWincheckRound: one player leads with enough points.                       *)
Present(g) == {p \in Players : g.team[p] # "none"}
Leads(p, s) == s[p] >= ScoreLimit /\ \A q \in DOMAIN s \ {p} : s[q] < s[p]
Won(g) == \E p \in Present(g) : Leads(p, [q \in Present(g) |-> g.score[q]])

(* Mutant: the win check does not wait for the reset. *)
WinCheck_Early(g) == IF g.state \in {"running", "paused"} /\ Won(g) THEN EndRound(g) ELSE g
WinCheck(g) == IF g.state \in {"running", "paused"} /\ ~g.reset /\ Won(g) THEN EndRound(g) ELSE g

(* game becomes g; the points of a new round start with the reset it asks for. *)
Becomes(g) ==
    /\ game' \in {g}
    /\ earned' = IF game'.reset THEN [p \in Players |-> 0] ELSE earned
    /\ UNCHANGED <<readyMode, config>>

Tick ==
    \E t \in {StateTimer(OnReset(Clocks(game)))} :
        \E g \in {CheckForceUnpauseGame(OldTimers(t))} : Becomes(WinCheck(g))

(***************************************************************************)
(* The players.                                                            *)
(***************************************************************************)
(* A kill, or a suicide, which costs a point; none counts in a warmup.         *)
Scores(p, points) ==
    /\ ~game.paused /\ ~game.reset
    /\ game.state \notin Warmups
    /\ game.team[p] = "game" /\ game.entered[p]
    /\ game.score[p] + points \in 0..MaxScore
    /\ game' = [game EXCEPT !.score[p] = @ + points]
    /\ earned' = [earned EXCEPT ![p] = @ + points]
    /\ UNCHANGED <<readyMode, config>>

(* InitPlayer, when the client begins to load the map. *)
IsPlayerReadyMode == readyMode /\ game.timer = INFINITE /\ game.state \in {"warmup_user", "paused"}

Connect(p, team) ==
    /\ game.team[p] = "none"
    /\ game' = [game EXCEPT !.team[p] = team, !.entered[p] = FALSE, !.score[p] = 0,
                            !.ready[p] = ~IsPlayerReadyMode]
    /\ UNCHANGED <<readyMode, config, earned>>

(* Respawn: only players of the game. *)
Respawned(g, p) == [g EXCEPT !.ready[p] = @ \/ g.team[p] = "game"]

(* OnPlayerConnect *)
Enter(p) ==
    /\ game.team[p] # "none" /\ ~game.entered[p]
    /\ Becomes(CheckReadyStates(Respawned([game EXCEPT !.entered[p] = TRUE], p), {}))

(* OnPlayerDisconnect, then the player is deleted. *)
Disconnect(p) ==
    /\ game.team[p] # "none"
    /\ game' = [CheckReadyStates(game, {p}) EXCEPT !.team[p] = "none", !.entered[p] = FALSE,
                                                   !.score[p] = 0, !.ready[p] = FALSE]
    /\ earned' = [earned EXCEPT ![p] = 0]
    /\ UNCHANGED <<readyMode, config>>

(* A player dies or gives up and comes back. *)
Respawn(p) ==
    /\ ~game.paused /\ game.entered[p]
    /\ Becomes(Respawned(game, p))

(* DoTeamChange *)
ChangeTeam(p, team) ==
    /\ game.entered[p] /\ team # game.team[p]
    /\ Becomes(CheckReadyStates([game EXCEPT !.team[p] = team], {}))

(* OnPlayerReadyChange, once a second at most. *)
ReadyChange(p) ==
    /\ game.entered[p] /\ game.state \in {"running", "paused"}
    /\ readyMode /\ game.team[p] = "game"
    /\ LET g == [game EXCEPT !.ready[p] = ~@]
       IN  Becomes(CheckReadyStates(IF g.state = "running" /\ ~g.ready[p] THEN Pause(g) ELSE g, {}))

(***************************************************************************)
(* The administrator: pause, restart, force_ready and the configuration.   *)
(***************************************************************************)
ToggleGamePause == LET g == SetReady(game, FALSE)
                   IN  Becomes(IF game.paused THEN Run(g) ELSE Pause(g))

DoWarmup(seconds) == Becomes(WarmupFor([game EXCEPT !.warmup = 0], seconds))

AbortWarmup == /\ game.state \in Warmups /\ game.timer # INFINITE
               /\ Becomes(Run(game))

(* Mutant: the ready states are not looked at afterwards. *)
ForceReadyPlayer_Alone(p) ==
    /\ game.team[p] # "none" /\ ~game.ready[p]
    /\ Becomes([game EXCEPT !.ready[p] = TRUE])
ForceReadyPlayer(p) ==
    /\ game.team[p] # "none" /\ ~game.ready[p]
    /\ Becomes(CheckReadyStates([game EXCEPT !.ready[p] = TRUE], {}))

SetReadyMode == readyMode' = ~readyMode /\ UNCHANGED <<game, config, earned>>

(***************************************************************************)
Init ==
    /\ readyMode \in BOOLEAN /\ casual \in BOOLEAN /\ roundStart \in StartCountdowns
    /\ game = [state |-> "running", timer |-> INFINITE, warmup |-> 0, paused |-> FALSE,
               reset |-> FALSE, over |-> None, pauseAge |-> None,
               team |-> [p \in Players |-> "none"], entered |-> [p \in Players |-> FALSE],
               ready |-> [p \in Players |-> FALSE], score |-> [p \in Players |-> 0]]
    /\ earned = [p \in Players |-> 0]

Next ==
    \/ Tick
    \/ \E p \in Players :
          \/ \E points \in {1, -1} : Scores(p, points)
          \/ \E team \in {"spectators", "game"} : Connect(p, team) \/ ChangeTeam(p, team)
          \/ Enter(p) \/ Disconnect(p) \/ Respawn(p) \/ ReadyChange(p) \/ ForceReadyPlayer(p)
    \/ ToggleGamePause
    \/ \E seconds \in {0, Warmup} : DoWarmup(seconds)
    \/ AbortWarmup
    \/ SetReadyMode

Spec == Init /\ [][Next]_vars

(* The server ticks for ever. *)
FairSpec == Spec /\ WF_vars(Tick)

(***************************************************************************)
(* Properties                                                              *)
(***************************************************************************)
TypeOK == game \in GameType /\ readyMode \in BOOLEAN
          /\ casual \in BOOLEAN /\ roundStart \in StartCountdowns

(* The world stands still in exactly the states in which it should; a timer is *)
(* under way in exactly the states that end by one; and the timers kept for    *)
(* old clients agree with it: the one of the warmup, without which no round    *)
(* could end, and the one that starts a new round after the end of one.        *)
TimersAgree ==
    /\ TypeOK
    /\ game.paused <=> game.state \in Countdowns \cup {"paused", "end_round"}
    /\ game.timer = INFINITE <=> game.state \in {"warmup_game", "paused", "running"}
    /\ game.timer # 0
    /\ game.warmup = IF game.state = "warmup_user" THEN game.timer ELSE 0
    /\ game.state = "end_round" => game.over = EndTicks - game.timer

(* A round ends only by points made in it: the ones of the round before, which *)
(* StartRound leaves to the next reset of the world, never end it.             *)
EndsByPlay ==
    [][game'.over = 0 /\ game.over # 0 => \E p \in Players : Leads(p, earned')]_vars

(* In ready mode a paused game waits for somebody: no step that makes the last *)
(* player ready, or takes him away, leaves the game paused.  (The reset of the *)
(* world does, when somebody paused the game just before it: OnReset makes     *)
(* every player ready and does not look at the pause.)                         *)
WaitsForSomebody ==
    [][readyMode /\ ~game.reset /\ game.state = "paused" /\ game'.state = "paused" /\ Unready(game) # {}
          => Unready(game') # {}]_vars

(* In ready mode no pause, countdown or end of a round lasts for ever, whoever *)
(* does not come back: sv_force_ready_all ends the pause.                      *)
NeverFrozen == []<>(~game.paused \/ ~readyMode)
=============================================================================
