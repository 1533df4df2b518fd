---------------------------- MODULE RoundsProofs ----------------------------
(***************************************************************************)
(* Proofs about Rounds, for any set of players and any configuration.      *)
(* Every operator that changes the state of the game is taken by itself:   *)
(* it gives a game whose timers agree, keeps the teams and the scores, and *)
(* never counts a round as ended (Kept).  The invariant adds to the timers *)
(* that outside a pending reset the scores are the points earned in this   *)
(* round (Ledger), which is why the win check waits for the reset.         *)
(***************************************************************************)
EXTENDS Rounds, TLAPS

\* The part of TimersAgree about a game, for the games between two states.
Agree(g) ==
    /\ g.paused <=> g.state \in Countdowns \cup {"paused", "end_round"}
    /\ g.timer = INFINITE <=> g.state \in {"warmup_game", "paused", "running"}
    /\ g.timer # 0
    /\ g.warmup = IF g.state = "warmup_user" THEN g.timer ELSE 0
    /\ g.state = "end_round" => g.over = EndTicks - g.timer

Ledger ==
    /\ earned = IF game.reset THEN [p \in Players |-> 0] ELSE game.score
    /\ \A p \in Players : game.team[p] = "none" => game.score[p] = 0

IInv == TimersAgree /\ Ledger

\* The fields Agree is about are the same.
SameClock(g, h) ==
    /\ h.state = g.state /\ h.timer = g.timer /\ h.warmup = g.warmup
    /\ h.paused = g.paused /\ h.over = g.over

\* From g to h nobody comes, goes or scores, no reset is forgotten, and no
\* round is counted as ended.
Kept(g, h) ==
    /\ h.team = g.team /\ h.score = g.score /\ h.entered = g.entered
    /\ g.reset => h.reset
    /\ h.over \in {g.over, None}

\* A game that waits after the change waited before it, for the same players.
Waits(g, h) == h.state = "paused" => g.state = "paused" /\ h.ready = g.ready

Configured == RoundsAssumption /\ roundStart \in Nat /\ readyMode \in BOOLEAN /\ casual \in BOOLEAN

USE DEF INFINITE, States, Countdowns, Warmups

-----------------------------------------------------------------------------
(* The operators that set the state.                                        *)

LEMMA SameClockAgrees ==
    ASSUME NEW g, NEW h, SameClock(g, h), Agree(g) PROVE Agree(h)
BY DEF SameClock, Agree

LEMMA KeptTransitive ==
    ASSUME NEW f, NEW g, NEW h, Kept(f, g), Kept(g, h) PROVE Kept(f, h)
BY DEF Kept

LEMMA WaitsTransitive ==
    ASSUME NEW f, NEW g, NEW h, Waits(f, g), Waits(g, h) PROVE Waits(f, h)
BY DEF Waits

LEMMA SetReadyKeeps ==
    ASSUME NEW g \in GameType, NEW value \in BOOLEAN
    PROVE  /\ SetReady(g, value) \in GameType
           /\ SameClock(g, SetReady(g, value)) /\ Kept(g, SetReady(g, value))
           /\ SetReady(g, value).reset = g.reset
           /\ \A p \in Players : SetReady(g, value).ready[p]
                                   = IF g.team[p] = "game" THEN value ELSE g.ready[p]
<1> DEFINE f == [p \in Players |-> IF p \in Playing(g) THEN value ELSE g.ready[p]]
           s == [g EXCEPT !.ready = f]
<1>1. SetReady(g, value) = s
  BY DEF SetReady
<1>2. f \in [Players -> BOOLEAN] /\ \A p \in Players : f[p] = IF g.team[p] = "game" THEN value ELSE g.ready[p]
  BY DEF GameType, Playing
<1> HIDE DEF f
<1>3. s \in GameType /\ s.ready = f
  BY <1>2 DEF GameType
<1>4. SameClock(g, s) /\ Kept(g, s) /\ s.reset = g.reset
  BY DEF GameType, SameClock, Kept
<1>5. QED
  BY <1>1, <1>2, <1>3, <1>4

LEMMA RunAgrees ==
    ASSUME NEW g \in GameType
    PROVE  /\ Run(g) \in GameType /\ Agree(Run(g)) /\ Kept(g, Run(g))
           /\ Run(g).state = "running" /\ Run(g).reset = g.reset
           /\ Run(g).over = g.over
<1> DEFINE s == SetReady(g, TRUE)
           r == [s EXCEPT !.state = "running", !.timer = -1, !.warmup = 0,
                          !.paused = FALSE, !.pauseAge = None]
<1>1. Run(g) = r
  BY DEF Run
<1>2. s \in GameType /\ Kept(g, s) /\ s.reset = g.reset /\ s.over = g.over
  BY SetReadyKeeps DEF SameClock
<1> HIDE DEF s
<1>3. r \in GameType
  BY <1>2 DEF GameType
<1>4. /\ r.state = "running" /\ r.timer = -1 /\ r.warmup = 0 /\ r.paused = FALSE
      /\ r.over = s.over /\ r.team = s.team /\ r.score = s.score /\ r.entered = s.entered
      /\ r.reset = s.reset
  BY <1>2 DEF GameType
<1> HIDE DEF r
<1>5. Agree(r)
  BY <1>4 DEF Agree
<1>6. QED
  BY <1>1, <1>2, <1>3, <1>4, <1>5 DEF Kept

LEMMA CountDownAgrees ==
    ASSUME NEW g \in GameType, Agree(g), NEW state \in Countdowns, Configured
    PROVE  /\ CountDown(g, state) \in GameType /\ Agree(CountDown(g, state))
           /\ Kept(g, CountDown(g, state))
           /\ CountDown(g, state).reset = g.reset
           /\ CountDown(g, state).over = g.over
           /\ g.state \in {"running", "paused"} => CountDown(g, state).state \in {state, "running"}
<1> DEFINE seconds == IF g.state = "paused" THEN UnpauseCountdown ELSE roundStart
           c == [g EXCEPT !.state = state, !.timer = seconds, !.paused = TRUE]
<1>1. seconds \in Nat
  BY DEF RoundsAssumption, Configured
<1>2. CountDown(g, state) = IF g.state \notin {"running", "paused"} \cup Countdowns THEN g
                            ELSE IF seconds > 0 THEN c ELSE Run(g)
  BY DEF CountDown
<1> HIDE DEF seconds
<1>3. c \in GameType
  BY <1>1 DEF GameType
<1>4. /\ c.state = state /\ c.timer = seconds /\ c.warmup = g.warmup /\ c.paused = TRUE
      /\ c.over = g.over /\ c.team = g.team /\ c.score = g.score /\ c.entered = g.entered
      /\ c.reset = g.reset
  BY DEF GameType
<1> HIDE DEF c
<1>5. CASE g.state \notin {"running", "paused"} \cup Countdowns
  BY <1>2, <1>5 DEF Kept
<1>6. CASE g.state \in {"running", "paused"} \cup Countdowns /\ seconds > 0
  <2>1. Agree(c)
    BY <1>1, <1>4, <1>6 DEF Agree
  <2>2. QED
    BY <1>2, <1>3, <1>4, <1>6, <2>1 DEF Kept
<1>7. CASE g.state \in {"running", "paused"} \cup Countdowns /\ ~(seconds > 0)
  BY <1>2, <1>7, RunAgrees
<1>8. QED
  BY <1>5, <1>6, <1>7

LEMMA StartRoundAgrees ==
    ASSUME NEW g \in GameType, Configured
    PROVE  /\ StartRound(g) \in GameType /\ Agree(StartRound(g))
           /\ Kept(g, StartRound(g))
           /\ StartRound(g).reset
           /\ StartRound(g).state \in {"running", "countdown_start", "warmup_game"}
           /\ StartRound(g).over = None
<1> DEFINE f == [g EXCEPT !.reset = TRUE, !.over = None]
           r == Run(f)
           w == [r EXCEPT !.state = "warmup_game", !.timer = -1, !.pauseAge = None]
<1>1. /\ f \in GameType
      /\ Kept(g, f) /\ f.reset /\ f.over = None
  BY DEF GameType, Kept
<1> HIDE DEF f
<1>2. /\ r \in GameType /\ Agree(r) /\ Kept(f, r) /\ r.state = "running"
      /\ r.reset /\ r.over = None
  BY <1>1, RunAgrees
<1>3. StartRound(g) = IF g.state = "end_round" /\ ~casual THEN WarmupForever(r)
                      ELSE CountDown(r, "countdown_start")
  BY DEF StartRound, f
<1> HIDE DEF r
<1>4. WarmupForever(r) = w
  BY <1>2 DEF WarmupForever
<1>5. w \in GameType
  BY <1>2 DEF GameType
<1>6. /\ w.state = "warmup_game" /\ w.timer = -1 /\ w.warmup = r.warmup /\ w.paused = r.paused
      /\ w.over = r.over /\ w.reset = r.reset
  BY <1>2 DEF GameType
<1>7. Kept(r, w)
  BY <1>2 DEF GameType, Kept
<1> HIDE DEF w
<1>8. Agree(w)
  BY <1>2, <1>6 DEF Agree
<1>9. Kept(g, r)
  BY <1>1, <1>2, KeptTransitive
<1>10. Kept(g, w)
  BY <1>7, <1>9, KeptTransitive
<1>11. CASE g.state = "end_round" /\ ~casual
  BY <1>2, <1>3, <1>4, <1>5, <1>6, <1>8, <1>10, <1>11
<1>12. CASE ~(g.state = "end_round" /\ ~casual)
  <2> DEFINE c == CountDown(r, "countdown_start")
  <2>1. /\ c \in GameType /\ Agree(c) /\ Kept(r, c) /\ c.reset = r.reset /\ c.over = r.over
        /\ c.state \in {"countdown_start", "running"}
    BY <1>2, CountDownAgrees
  <2> HIDE DEF c
  <2>2. Kept(g, c)
    BY <1>9, <2>1, KeptTransitive
  <2>3. StartRound(g) = c
    BY <1>3, <1>12 DEF c
  <2>4. QED
    BY <1>2, <2>1, <2>2, <2>3
<1>13. QED
  BY <1>11, <1>12

LEMMA WarmupForAgrees ==
    ASSUME NEW g \in GameType, NEW seconds \in Nat, Configured
    PROVE  LET w == WarmupFor(g, seconds)
           IN  /\ w \in GameType /\ Kept(g, w)
               /\ IF g.state \in {"running", "paused"} \cup Warmups
                  THEN Agree(w) /\ w.state # "paused"
                  ELSE w = g
               /\ seconds = 0 /\ g.state \in {"running", "paused"} \cup Warmups
                     => w.state \in {"running", "countdown_start", "warmup_game"}
<1>1. CASE g.state \notin {"running", "paused"} \cup Warmups
  BY <1>1 DEF WarmupFor, Kept
<1>2. CASE g.state \in {"running", "paused"} \cup Warmups
  <2> DEFINE u == IF seconds = 0 THEN StartRound(g)
                  ELSE [g EXCEPT !.state = "warmup_user", !.timer = seconds,
                                 !.warmup = seconds, !.paused = FALSE]
             w == [u EXCEPT !.pauseAge = None]
  <2>1. WarmupFor(g, seconds) = w
    BY <1>2 DEF WarmupFor
  <2>2. /\ u \in GameType /\ Agree(u) /\ Kept(g, u) /\ u.state # "paused"
        /\ seconds = 0 => u.state \in {"running", "countdown_start", "warmup_game"}
    <3>1. CASE seconds = 0
      BY <3>1, StartRoundAgrees
    <3>2. CASE seconds # 0
      <4>1. u = [g EXCEPT !.state = "warmup_user", !.timer = seconds,
                          !.warmup = seconds, !.paused = FALSE]
        BY <3>2
      <4> HIDE DEF u
      <4>2. u \in GameType
        BY <4>1 DEF GameType
      <4>3. u.state = "warmup_user" /\ u.timer = seconds /\ u.warmup = seconds /\ u.paused = FALSE
        BY <4>1 DEF GameType
      <4>4. Kept(g, u)
        BY <4>1 DEF GameType, Kept
      <4>5. QED
        BY <3>2, <4>2, <4>3, <4>4 DEF Agree
    <3>3. QED
      BY <3>1, <3>2
  <2> HIDE DEF u
  <2>3. w \in GameType
    BY <2>2 DEF GameType
  <2>4. SameClock(u, w) /\ Kept(u, w)
    BY <2>2 DEF GameType, SameClock, Kept
  <2> HIDE DEF w
  <2>5. Agree(w) /\ Kept(g, w)
    BY <2>2, <2>4, SameClockAgrees, KeptTransitive
  <2>6. w.state = u.state
    BY <2>4 DEF SameClock
  <2>7. QED
    BY <1>2, <2>1, <2>2, <2>3, <2>5, <2>6
<1>3. QED
  BY <1>1, <1>2

LEMMA PauseAgrees ==
    ASSUME NEW g \in GameType, Agree(g)
    PROVE  /\ Pause(g) \in GameType /\ Agree(Pause(g)) /\ Kept(g, Pause(g))
           /\ Pause(g).reset = g.reset /\ Pause(g).over = g.over
<1>1. CASE ~MayPause(g)
  BY <1>1 DEF Pause, Kept
<1>2. CASE MayPause(g)
  <2> DEFINE s == SetReady(g, FALSE)
             r == [s EXCEPT !.state = "paused", !.timer = -1, !.paused = TRUE, !.pauseAge = 0]
  <2>1. Pause(g) = r
    BY <1>2 DEF Pause
  <2>2. s \in GameType /\ Kept(g, s) /\ s.reset = g.reset /\ s.over = g.over /\ s.warmup = g.warmup
    BY SetReadyKeeps DEF SameClock
  <2> HIDE DEF s
  <2>3. r \in GameType
    BY <2>2 DEF GameType
  <2>4. /\ r.state = "paused" /\ r.timer = -1 /\ r.warmup = s.warmup /\ r.paused = TRUE
        /\ r.over = s.over /\ r.reset = s.reset
    BY <2>2 DEF GameType
  <2>5. Kept(s, r)
    BY <2>2 DEF GameType, Kept
  <2> HIDE DEF r
  <2>6. g.warmup = 0
    BY <1>2 DEF MayPause, Agree
  <2>7. Agree(r)
    BY <2>2, <2>4, <2>6 DEF Agree
  <2>8. QED
    BY <2>1, <2>2, <2>3, <2>4, <2>5, <2>7, KeptTransitive
<1>3. QED
  BY <1>1, <1>2

LEMMA UnpauseAgrees ==
    ASSUME NEW g \in GameType, Agree(g), Configured
    PROVE  /\ Unpause(g) \in GameType /\ Agree(Unpause(g)) /\ Kept(g, Unpause(g))
           /\ Unpause(g).reset = g.reset /\ Unpause(g).over = g.over
           /\ g.state = "paused" => Unpause(g).state # "paused"
<1>1. CASE ~MayPause(g)
  BY <1>1 DEF Unpause, Kept, MayPause
<1>2. CASE MayPause(g)
  <2> DEFINE c == CountDown(g, "countdown_unpause")
             r == [c EXCEPT !.pauseAge = 0]
  <2>1. Unpause(g) = r
    BY <1>2 DEF Unpause
  <2>2. /\ c \in GameType /\ Agree(c) /\ Kept(g, c) /\ c.reset = g.reset /\ c.over = g.over
        /\ g.state = "paused" => c.state # "paused"
    BY CountDownAgrees
  <2> HIDE DEF c
  <2>3. r \in GameType
    BY <2>2 DEF GameType
  <2>4. SameClock(c, r) /\ Kept(c, r) /\ r.reset = c.reset
    BY <2>2 DEF GameType, SameClock, Kept
  <2> HIDE DEF r
  <2>5. Agree(r) /\ Kept(g, r) /\ r.over = c.over /\ r.state = c.state
    BY <2>2, <2>4, SameClockAgrees, KeptTransitive DEF SameClock
  <2>6. QED
    BY <2>1, <2>2, <2>3, <2>4, <2>5
<1>3. QED
  BY <1>1, <1>2

LEMMA CheckReadyStatesAgrees ==
    ASSUME NEW g \in GameType, Agree(g), NEW without, Configured
    PROVE  LET c == CheckReadyStates(g, without)
           IN  /\ c \in GameType /\ Agree(c) /\ Kept(g, c)
               /\ c.reset = g.reset /\ c.over = g.over
               /\ readyMode /\ g.state = "paused" /\ c.state = "paused"
                     => c = g /\ ~(Unready(g) \subseteq without)
               /\ g.state # "paused" => c = g
<1>1. CASE readyMode /\ g.state = "paused" /\ Unready(g) \subseteq without
  <2>1. CheckReadyStates(g, without) = Unpause(g)
    BY <1>1 DEF CheckReadyStates
  <2>2. QED
    BY <1>1, <2>1, UnpauseAgrees
<1>2. CASE ~(readyMode /\ g.state = "paused" /\ Unready(g) \subseteq without)
  BY <1>2 DEF CheckReadyStates, Kept
<1>3. QED
  BY <1>1, <1>2

-----------------------------------------------------------------------------
(* The tick: the timer of the state counts first, then the ones of the old  *)
(* clients, so between the two they are one tick apart.                     *)

\* After the clocks: the time since the end of the round is one ahead.
Clocked(g) ==
    /\ g.paused <=> g.state \in Countdowns \cup {"paused", "end_round"}
    /\ g.timer = INFINITE <=> g.state \in {"warmup_game", "paused", "running"}
    /\ g.timer # 0
    /\ g.warmup = IF g.state = "warmup_user" THEN g.timer ELSE 0
    /\ g.state = "end_round" => g.over = EndTicks - g.timer + 1
    /\ ~g.reset /\ g.over # 0

\* After the timer of the state: the warmup is one behind.
Counted(g) ==
    /\ g.paused <=> g.state \in Countdowns \cup {"paused", "end_round"}
    /\ g.timer = INFINITE <=> g.state \in {"warmup_game", "paused", "running"}
    /\ g.timer # 0
    /\ g.warmup = IF g.state = "warmup_user" THEN g.timer + 1 ELSE 0
    /\ g.state = "end_round" => g.over = EndTicks - g.timer

LEMMA ClocksCount ==
    ASSUME NEW g \in GameType, Agree(g), Configured
    PROVE  LET h == OnReset(Clocks(g))
           IN  /\ h \in GameType /\ Clocked(h)
               /\ h.team = g.team
               /\ h.score = IF g.reset THEN [p \in Players |-> 0] ELSE g.score
               /\ ~g.reset => Waits(g, h)
<1> DEFINE o == IF g.over = None THEN None ELSE g.over + 1
           a == IF g.pauseAge \in {None, ForceReady} THEN g.pauseAge ELSE g.pauseAge + 1
           c == [g EXCEPT !.over = o, !.pauseAge = a]
           r == [p \in Players |-> c.ready[p] \/ c.team[p] # "none"]
           z == [p \in Players |-> 0]
           h == [c EXCEPT !.reset = FALSE, !.ready = r, !.score = z]
<1>1. Clocks(g) = c
  BY DEF Clocks
<1>2. o \in Nat \cup {None} /\ a \in Nat \cup {None} /\ o # 0
      /\ (g.over \in Nat => o = g.over + 1)
  BY DEF GameType, Configured, RoundsAssumption
<1> HIDE DEF o, a
<1>3. c \in GameType
  BY <1>2 DEF GameType
<1>4. /\ c.state = g.state /\ c.timer = g.timer /\ c.warmup = g.warmup /\ c.paused = g.paused
      /\ c.over = o /\ c.team = g.team /\ c.score = g.score /\ c.ready = g.ready
      /\ c.reset = g.reset
  BY DEF GameType
<1>5. g.state = "end_round" => o = EndTicks - g.timer + 1
  <2>1. g.state = "end_round" => g.over = EndTicks - g.timer /\ g.timer \in Nat /\ EndTicks \in Nat
    BY DEF Agree, GameType, Configured, RoundsAssumption
  <2>2. g.state = "end_round" => g.over \in Nat
    BY <2>1 DEF GameType, Configured, RoundsAssumption
  <2>3. QED
    BY <1>2, <2>1, <2>2
<1> HIDE DEF c
<1>6. CASE ~g.reset
  <2>1. OnReset(Clocks(g)) = c
    BY <1>1, <1>4, <1>6 DEF OnReset
  <2>2. Clocked(c)
    BY <1>2, <1>4, <1>5, <1>6 DEF Agree, Clocked
  <2>3. QED
    BY <1>3, <1>4, <1>6, <2>1, <2>2 DEF Waits
<1>7. CASE g.reset
  <2>1. OnReset(Clocks(g)) = h
    BY <1>1, <1>4, <1>7 DEF OnReset
  <2>2. r \in [Players -> BOOLEAN] /\ z \in [Players -> Nat]
    BY <1>3 DEF GameType
  <2> HIDE DEF r, z
  <2>3. h \in GameType
    BY <1>3, <2>2 DEF GameType
  <2>4. /\ h.state = c.state /\ h.timer = c.timer /\ h.warmup = c.warmup /\ h.paused = c.paused
        /\ h.over = c.over /\ h.team = c.team /\ h.score = z
        /\ h.reset = FALSE
    BY <1>3 DEF GameType
  <2> HIDE DEF h
  <2>5. Clocked(h)
    BY <1>2, <1>4, <1>5, <2>4 DEF Agree, Clocked
  <2>6. QED
    BY <1>4, <1>7, <2>1, <2>3, <2>4, <2>5 DEF z
<1>8. QED
  BY <1>6, <1>7

LEMMA StateTimerCounts ==
    ASSUME NEW g \in GameType, Clocked(g), Configured
    PROVE  LET h == StateTimer(g)
           IN  h \in GameType /\ Counted(h) /\ Kept(g, h) /\ Waits(g, h)
<1> DEFINE m == IF g.state # "running" /\ g.timer > 0 THEN g.timer - 1 ELSE g.timer
           t == [g EXCEPT !.timer = m]
<1>1. StateTimer(g) = CASE t.timer = 0 /\ t.state = "warmup_user" -> WarmupFor(t, 0)
                        [] t.timer = 0 /\ t.state \in Countdowns -> Run(t)
                        [] t.timer = 0 /\ t.state = "end_round" -> StartRound(t)
                        [] OTHER -> t
  BY DEF StateTimer
<1>2. m \in {-1} \cup Nat
  BY DEF GameType
<1>3. m = -1 <=> g.timer = -1
  BY DEF GameType, Clocked
<1>4. m = 0 => g.state \in {"warmup_user", "end_round"} \cup Countdowns
  BY DEF GameType, Clocked
<1>5. g.timer # -1 => g.timer = m + 1
  BY DEF GameType, Clocked
<1> HIDE DEF m
<1>6. t \in GameType
  BY <1>2 DEF GameType
<1>7. /\ t.timer = m /\ t.state = g.state /\ t.warmup = g.warmup /\ t.paused = g.paused
      /\ t.over = g.over /\ t.ready = g.ready
  BY DEF GameType
<1>8. Kept(g, t)
  BY DEF GameType, Kept
<1> HIDE DEF t
<1>9. ASSUME NEW h \in GameType, Agree(h), h.state \notin {"warmup_user", "paused"}, Kept(t, h)
      PROVE  Counted(h) /\ Kept(g, h) /\ Waits(g, h)
  BY <1>8, <1>9, KeptTransitive DEF Agree, Counted, Waits
<1>10. CASE m = 0 /\ g.state = "warmup_user"
  <2>1. StateTimer(g) = WarmupFor(t, 0)
    BY <1>1, <1>7, <1>10
  <2> DEFINE h == WarmupFor(t, 0)
  <2>2. /\ h \in GameType /\ Agree(h) /\ Kept(t, h)
        /\ h.state \in {"running", "countdown_start", "warmup_game"}
    BY <1>6, <1>7, <1>10, WarmupForAgrees
  <2> HIDE DEF h
  <2>3. QED
    BY <1>9, <2>1, <2>2 DEF h
<1>11. CASE m = 0 /\ g.state \in Countdowns
  <2>1. StateTimer(g) = Run(t)
    BY <1>1, <1>7, <1>11
  <2>2. Run(t) \in GameType /\ Agree(Run(t)) /\ Kept(t, Run(t)) /\ Run(t).state = "running"
    BY <1>6, RunAgrees
  <2>3. QED
    BY <1>9, <2>1, <2>2
<1>12. CASE m = 0 /\ g.state = "end_round"
  <2>1. StateTimer(g) = StartRound(t)
    BY <1>1, <1>7, <1>12
  <2>2. /\ StartRound(t) \in GameType /\ Agree(StartRound(t)) /\ Kept(t, StartRound(t))
        /\ StartRound(t).state \in {"running", "countdown_start", "warmup_game"}
    BY <1>6, StartRoundAgrees
  <2>3. QED
    BY <1>9, <2>1, <2>2
<1>13. CASE m # 0
  <2>1. StateTimer(g) = t
    BY <1>1, <1>7, <1>13
  <2>2. g.state = "warmup_user" => g.timer # -1
    BY DEF Clocked
  <2>3. g.state = "end_round" => g.over = EndTicks - m
    <3>1. g.state = "end_round" => g.timer # -1 /\ g.over = EndTicks - g.timer + 1
      BY DEF Clocked
    <3>2. QED
      BY <1>2, <1>5, <3>1 DEF Configured, RoundsAssumption
  <2>4. Counted(t)
    BY <1>3, <1>5, <1>7, <1>13, <2>2, <2>3 DEF Clocked, Counted
  <2>5. QED
    BY <1>6, <1>7, <1>8, <2>1, <2>4 DEF Waits
<1>14. QED
  BY <1>4, <1>10, <1>11, <1>12, <1>13

LEMMA OldTimersAgree ==
    ASSUME NEW g \in GameType, Counted(g), Configured
    PROVE  LET h == OldTimers(g)
           IN  h \in GameType /\ Agree(h) /\ Kept(g, h) /\ Waits(g, h)
<1> DEFINE v == IF g.warmup > 0 THEN g.warmup - 1 ELSE 0
           w == [g EXCEPT !.warmup = v]
<1>1. OldTimers(g) = IF w.over # None /\ w.over > EndTicks THEN StartRound(w) ELSE w
  BY DEF OldTimers
<1>2. v \in Nat
  BY DEF GameType
<1>3. v = IF g.state = "warmup_user" THEN g.timer ELSE 0
  BY DEF GameType, Counted
<1> HIDE DEF v
<1>4. w \in GameType
  BY <1>2 DEF GameType
<1>5. /\ w.warmup = v /\ w.state = g.state /\ w.timer = g.timer /\ w.paused = g.paused
      /\ w.over = g.over /\ w.ready = g.ready
  BY DEF GameType
<1>6. Kept(g, w)
  BY DEF GameType, Kept
<1> HIDE DEF w
<1>7. Agree(w)
  BY <1>3, <1>5 DEF Counted, Agree
<1>8. CASE w.over # None /\ w.over > EndTicks
  <2>1. /\ StartRound(w) \in GameType /\ Agree(StartRound(w)) /\ Kept(w, StartRound(w))
        /\ StartRound(w).state # "paused"
    BY <1>4, StartRoundAgrees
  <2>2. QED
    BY <1>1, <1>6, <1>8, <2>1, KeptTransitive DEF Waits
<1>9. CASE ~(w.over # None /\ w.over > EndTicks)
  BY <1>1, <1>4, <1>5, <1>6, <1>7, <1>9 DEF Waits
<1>10. QED
  BY <1>8, <1>9

LEMMA ForceUnpauseAgrees ==
    ASSUME NEW g \in GameType, Agree(g), Configured
    PROVE  LET h == CheckForceUnpauseGame(g)
           IN  /\ h \in GameType /\ Agree(h) /\ Kept(g, h) /\ Waits(g, h)
               /\ h.reset = g.reset
<1> DEFINE s == SetReady(g, TRUE)
           h == CheckReadyStates(s, {})
<1>1. CASE ~(readyMode /\ g.paused /\ ForceReady > 0 /\ g.pauseAge = ForceReady)
  BY <1>1 DEF CheckForceUnpauseGame, Kept, Waits
<1>2. CASE readyMode /\ g.paused /\ ForceReady > 0 /\ g.pauseAge = ForceReady
  <2>1. CheckForceUnpauseGame(g) = h
    BY <1>2 DEF CheckForceUnpauseGame
  <2>2. /\ s \in GameType /\ SameClock(g, s) /\ Kept(g, s) /\ s.reset = g.reset
        /\ \A p \in Players : s.ready[p] = IF g.team[p] = "game" THEN TRUE ELSE g.ready[p]
    BY SetReadyKeeps
  <2>3. s.team = g.team /\ s.state = g.state
    BY <2>2 DEF Kept, SameClock
  <2> HIDE DEF s
  <2>4. Unready(s) = {}
    BY <2>2, <2>3 DEF Unready, Playing
  <2>5. Agree(s)
    BY <2>2, SameClockAgrees
  <2>6. /\ h \in GameType /\ Agree(h) /\ Kept(s, h) /\ h.reset = s.reset
        /\ s.state = "paused" => h.state # "paused"
        /\ s.state # "paused" => h = s
    BY <1>2, <2>2, <2>4, <2>5, CheckReadyStatesAgrees
  <2> HIDE DEF h
  <2>7. QED
    BY <2>1, <2>2, <2>3, <2>6, KeptTransitive DEF Waits
<1>3. QED
  BY <1>1, <1>2

LEMMA WinCheckAgrees ==
    ASSUME NEW g \in GameType, Agree(g), Configured
    PROVE  LET h == WinCheck(g)
           IN  /\ h \in GameType /\ Agree(h) /\ Waits(g, h)
               /\ h.team = g.team /\ h.score = g.score /\ h.reset = g.reset
               /\ h.over = g.over \/ (h.over = 0 /\ ~h.reset /\ Won(g))
<1> DEFINE e == [g EXCEPT !.over = 0, !.pauseAge = None]
           h == [e EXCEPT !.state = "end_round", !.timer = EndTicks, !.paused = TRUE]
<1>1. CASE ~(g.state \in {"running", "paused"} /\ ~g.reset /\ Won(g))
  BY <1>1 DEF WinCheck, Waits
<1>2. CASE g.state \in {"running", "paused"} /\ ~g.reset /\ Won(g)
  <2>1. g.warmup = 0 /\ EndTicks \in Nat \ {0}
    BY <1>2 DEF Agree, Configured, RoundsAssumption
  <2>2. WinCheck(g) = h
    BY <1>2, <2>1 DEF WinCheck, EndRound
  <2>3. e \in GameType
    BY DEF GameType
  <2>4. /\ e.over = 0
        /\ e.warmup = g.warmup /\ e.team = g.team /\ e.score = g.score /\ e.reset = g.reset
    BY DEF GameType
  <2> HIDE DEF e
  <2>5. h \in GameType
    BY <2>1, <2>3 DEF GameType
  <2>6. /\ h.state = "end_round" /\ h.timer = EndTicks /\ h.paused = TRUE /\ h.over = 0
        /\ h.warmup = g.warmup /\ h.team = g.team /\ h.score = g.score /\ h.reset = g.reset
    BY <2>3, <2>4 DEF GameType
  <2> HIDE DEF h
  <2>7. Agree(h)
    BY <2>1, <2>6 DEF Agree
  <2>8. QED
    BY <1>2, <2>2, <2>5, <2>6, <2>7 DEF Waits
<1>3. QED
  BY <1>1, <1>2

-----------------------------------------------------------------------------
(* The steps.                                                               *)

\* What EndsByPlay and WaitsForSomebody say of a step.
EndStep == game'.over = 0 /\ game.over # 0 => \E p \in Players : Leads(p, earned')
WaitStep ==
    readyMode /\ ~game.reset /\ game.state = "paused" /\ game'.state = "paused" /\ Unready(game) # {}
       => Unready(game') # {}
Good == IInv' /\ EndStep /\ WaitStep

LEMMA IInvParts ==
    ASSUME IInv
    PROVE  game \in GameType /\ Agree(game) /\ Configured
BY RoundsAssumption DEF IInv, TimersAgree, Agree, TypeOK, Configured, RoundsAssumption

LEMMA Becoming ==
    ASSUME IInv, NEW g \in GameType, Agree(g), Becomes(g),
           g.score = game.score, game.reset => g.reset,
           \A p \in Players : g.team[p] = "none" => g.score[p] = 0
    PROVE  IInv' /\ game' = g
<1>1. game' = g /\ readyMode' = readyMode /\ casual' = casual /\ roundStart' = roundStart
      /\ earned' = IF g.reset THEN [p \in Players |-> 0] ELSE earned
  BY DEF Becomes, config
<1>2. TimersAgree'
  BY <1>1 DEF IInv, TimersAgree, TypeOK, Agree
<1>3. Ledger'
  BY <1>1 DEF IInv, Ledger
<1>4. QED
  BY <1>1, <1>2, <1>3 DEF IInv

\* The score of who is absent is nothing, so a winner among those present leads.
LEMMA WinnerLeads ==
    ASSUME NEW g \in GameType, Won(g), Configured,
           \A p \in Players : g.team[p] = "none" => g.score[p] = 0
    PROVE  \E p \in Players : Leads(p, g.score)
<1> DEFINE s == [q \in Present(g) |-> g.score[q]]
<1>1. PICK p \in Present(g) : Leads(p, s)
  BY DEF Won
<1>2. /\ p \in Players /\ g.score[p] >= ScoreLimit /\ ScoreLimit \in Nat \ {0}
      /\ \A q \in Present(g) \ {p} : g.score[q] < g.score[p]
  BY <1>1 DEF Leads, Present, Configured, RoundsAssumption
<1>3. \A q \in Players : g.score[q] \in Nat
  BY DEF GameType
<1>4. \A q \in Players \ {p} : g.score[q] < g.score[p]
  <2> SUFFICES ASSUME NEW q \in Players \ {p} PROVE g.score[q] < g.score[p]
    OBVIOUS
  <2>1. CASE q \in Present(g)
    BY <1>2, <2>1
  <2>2. CASE q \notin Present(g)
    <3>1. g.score[q] = 0
      BY <2>2 DEF Present
    <3>2. QED
      BY <1>2, <1>3, <3>1
  <2>3. QED
    BY <2>1, <2>2
<1>5. DOMAIN g.score = Players
  BY DEF GameType
<1>6. QED
  BY <1>2, <1>4, <1>5 DEF Leads

LEMMA TickGood == ASSUME IInv, Tick PROVE Good
<1>1. game \in GameType /\ Agree(game) /\ Configured
  BY IInvParts
<1> DEFINE h == OnReset(Clocks(game))
           t == StateTimer(h)
           o == OldTimers(t)
           g == CheckForceUnpauseGame(o)
           w == WinCheck(g)
<1>2. Becomes(w)
  BY DEF Tick
<1>3. /\ h \in GameType /\ Clocked(h) /\ h.team = game.team
      /\ h.score = IF game.reset THEN [p \in Players |-> 0] ELSE game.score
      /\ ~game.reset => Waits(game, h)
  BY <1>1, ClocksCount
<1> HIDE DEF h
<1>4. t \in GameType /\ Counted(t) /\ Kept(h, t) /\ Waits(h, t)
  BY <1>1, <1>3, StateTimerCounts
<1> HIDE DEF t
<1>5. o \in GameType /\ Agree(o) /\ Kept(t, o) /\ Waits(t, o)
  BY <1>1, <1>4, OldTimersAgree
<1> HIDE DEF o
<1>6. g \in GameType /\ Agree(g) /\ Kept(o, g) /\ Waits(o, g)
  BY <1>1, <1>5, ForceUnpauseAgrees
<1> HIDE DEF g
<1>7. /\ w \in GameType /\ Agree(w) /\ Waits(g, w)
      /\ w.team = g.team /\ w.score = g.score /\ w.reset = g.reset
      /\ w.over = g.over \/ (w.over = 0 /\ ~w.reset /\ Won(g))
  BY <1>1, <1>6, WinCheckAgrees
<1> HIDE DEF w
<1>8. Kept(h, g)
  BY <1>4, <1>5, <1>6, KeptTransitive
<1>9. /\ g.over # 0
      /\ w.team = game.team /\ w.score = h.score
  BY <1>1, <1>3, <1>7, <1>8 DEF Kept, Clocked, Configured, RoundsAssumption
<1>10. ~game.reset => Waits(game, w)
  BY <1>3, <1>4, <1>5, <1>6, <1>7, WaitsTransitive
<1>11. /\ game' = w /\ readyMode' = readyMode /\ casual' = casual /\ roundStart' = roundStart
       /\ earned' = IF w.reset THEN [p \in Players |-> 0] ELSE earned
  BY <1>2 DEF Becomes, config
<1>12. \A p \in Players : w.team[p] = "none" => w.score[p] = 0
  BY <1>3, <1>9 DEF IInv, Ledger
<1>13. earned' = IF w.reset THEN [p \in Players |-> 0] ELSE w.score
  BY <1>3, <1>9, <1>11 DEF IInv, Ledger
<1>14. TimersAgree'
  BY <1>7, <1>11 DEF IInv, TimersAgree, TypeOK, Agree
<1>15. IInv'
  BY <1>11, <1>12, <1>13, <1>14 DEF IInv, Ledger
<1>16. EndStep
  <2> SUFFICES ASSUME w.over = 0 PROVE \E p \in Players : Leads(p, w.score) /\ earned' = w.score
    BY <1>11 DEF EndStep
  <2>1. ~w.reset /\ Won(g)
    BY <1>7, <1>9
  <2>2. \E p \in Players : Leads(p, g.score)
    BY <1>1, <1>6, <1>7, <1>12, <2>1, WinnerLeads
  <2>3. QED
    BY <1>7, <1>13, <2>1, <2>2
<1>17. WaitStep
  BY <1>9, <1>10, <1>11 DEF WaitStep, Waits, Unready, Playing
<1>18. QED
  BY <1>15, <1>16, <1>17 DEF Good

\* A change by a player that ends with a look at the ready states.
LEMMA LookedAtGood ==
    ASSUME IInv, NEW g \in GameType, Agree(g), Becomes(CheckReadyStates(g, {})),
           g.score = game.score, g.reset = game.reset, g.over = game.over,
           \A p \in Players : g.team[p] = "none" => g.score[p] = 0,
           game.state = "paused" => g.state = "paused"
    PROVE  Good
<1> DEFINE c == CheckReadyStates(g, {})
<1>1. /\ c \in GameType /\ Agree(c) /\ Kept(g, c)
      /\ c.reset = g.reset /\ c.over = g.over
      /\ readyMode /\ g.state = "paused" /\ c.state = "paused"
            => c = g /\ ~(Unready(g) \subseteq {})
  BY IInvParts, CheckReadyStatesAgrees
<1> HIDE DEF c
<1>2. IInv' /\ game' = c
  BY <1>1, Becoming DEF Kept, c
<1>3. EndStep
  BY <1>1, <1>2 DEF EndStep
<1>4. WaitStep
  <2> SUFFICES ASSUME readyMode, game.state = "paused", game'.state = "paused"
               PROVE  Unready(game') # {}
    BY DEF WaitStep
  <2>1. game' = g /\ ~(Unready(g) \subseteq {})
    BY <1>1, <1>2
  <2>2. Unready(game') = Unready(g)
    BY <2>1 DEF Unready, Playing
  <2>3. QED
    BY <2>1, <2>2
<1>5. QED
  BY <1>2, <1>3, <1>4 DEF Good

LEMMA ScoresGood ==
    ASSUME IInv, NEW p \in Players, NEW points \in {1, -1}, Scores(p, points)
    PROVE  Good
<1> DEFINE s == [game.score EXCEPT ![p] = @ + points]
<1>1. game \in GameType /\ Agree(game) /\ Configured
  BY IInvParts
<1>2. game.score[p] + points \in Nat /\ ~game.paused /\ ~game.reset /\ game.team[p] = "game"
  BY <1>1 DEF Scores, Configured, RoundsAssumption
<1>3. s \in [Players -> Nat]
  BY <1>1, <1>2 DEF GameType
<1>4. /\ game' = [game EXCEPT !.score = s] /\ earned' = [earned EXCEPT ![p] = @ + points]
      /\ readyMode' = readyMode /\ casual' = casual /\ roundStart' = roundStart
  BY DEF Scores, config
<1>5. /\ \A q \in Players \ {p} : s[q] = game.score[q]
      /\ earned = game.score => earned' = s
  BY <1>1, <1>4 DEF GameType
<1> HIDE DEF s
<1>6. game' \in GameType
  BY <1>1, <1>3, <1>4 DEF GameType
<1>7. SameClock(game, game') /\ game'.team = game.team /\ game'.reset = game.reset /\ game'.score = s
  BY <1>1, <1>4 DEF GameType, SameClock
<1>8. Agree(game')
  BY <1>1, <1>7, SameClockAgrees
<1>9. TimersAgree'
  BY <1>4, <1>6, <1>8 DEF IInv, TimersAgree, TypeOK, Agree
<1>10. earned' = s
  BY <1>2, <1>5 DEF IInv, Ledger
<1>11. \A q \in Players : game.team[q] = "none" => s[q] = 0
  BY <1>2, <1>5 DEF IInv, Ledger
<1>12. Ledger'
  BY <1>2, <1>7, <1>10, <1>11 DEF Ledger
<1>13. EndStep
  BY <1>7 DEF EndStep, SameClock
<1>14. WaitStep
  BY <1>1, <1>2 DEF WaitStep, Agree
<1>15. QED
  BY <1>9, <1>12, <1>13, <1>14 DEF Good, IInv

LEMMA ConnectGood ==
    ASSUME IInv, NEW p \in Players, NEW team \in {"spectators", "game"}, Connect(p, team)
    PROVE  Good
<1> DEFINE tm == [game.team EXCEPT ![p] = team]
           en == [game.entered EXCEPT ![p] = FALSE]
           sc == [game.score EXCEPT ![p] = 0]
           rd == [game.ready EXCEPT ![p] = ~IsPlayerReadyMode]
           g == [game EXCEPT !.team = tm, !.entered = en, !.score = sc, !.ready = rd]
<1>1. game \in GameType /\ Agree(game) /\ Configured
  BY IInvParts
<1>2. /\ game.team[p] = "none" /\ game' = g /\ earned' = earned
      /\ readyMode' = readyMode /\ casual' = casual /\ roundStart' = roundStart
  BY DEF Connect, config
<1>3. IsPlayerReadyMode \in BOOLEAN
  BY <1>1 DEF IsPlayerReadyMode, Configured
<1>4. /\ tm \in [Players -> {"none", "spectators", "game"}] /\ en \in [Players -> BOOLEAN]
      /\ sc \in [Players -> Nat] /\ rd \in [Players -> BOOLEAN]
  BY <1>1, <1>3 DEF GameType
<1>5. sc = game.score
  BY <1>1, <1>2 DEF GameType, IInv, Ledger
<1>6. /\ \A q \in Players \ {p} : tm[q] = game.team[q] /\ rd[q] = game.ready[q]
      /\ tm[p] = team
  BY <1>1 DEF GameType
<1> HIDE DEF tm, en, sc, rd
<1>7. g \in GameType
  BY <1>1, <1>4 DEF GameType
<1>8. SameClock(game, g) /\ g.reset = game.reset /\ g.score = sc /\ g.team = tm /\ g.ready = rd
  BY <1>1 DEF GameType, SameClock
<1> HIDE DEF g
<1>9. Agree(g)
  BY <1>1, <1>8, SameClockAgrees
<1>10. TimersAgree'
  BY <1>2, <1>7, <1>9 DEF IInv, TimersAgree, TypeOK, Agree
<1>11. Ledger'
  BY <1>2, <1>5, <1>6, <1>8 DEF IInv, Ledger
<1>12. EndStep
  BY <1>2, <1>8 DEF EndStep, SameClock
<1>13. Unready(game) \subseteq Unready(g)
  BY <1>2, <1>6, <1>8 DEF Unready, Playing
<1>14. WaitStep
  BY <1>2, <1>13 DEF WaitStep
<1>15. QED
  BY <1>10, <1>11, <1>12, <1>14 DEF Good, IInv

LEMMA ChangeTeamGood ==
    ASSUME IInv, NEW p \in Players, NEW team \in {"spectators", "game"}, ChangeTeam(p, team)
    PROVE  Good
<1> DEFINE tm == [game.team EXCEPT ![p] = team]
           g == [game EXCEPT !.team = tm]
<1>1. game \in GameType /\ Agree(game) /\ Configured
  BY IInvParts
<1>2. /\ tm \in [Players -> {"none", "spectators", "game"}]
      /\ \A q \in Players : tm[q] = "none" => game.team[q] = "none"
  BY <1>1 DEF GameType
<1>3. Becomes(CheckReadyStates(g, {}))
  BY DEF ChangeTeam
<1> HIDE DEF tm
<1>4. g \in GameType
  BY <1>1, <1>2 DEF GameType
<1>5. SameClock(game, g) /\ g.reset = game.reset /\ g.score = game.score /\ g.team = tm
  BY <1>1 DEF GameType, SameClock
<1> HIDE DEF g
<1>6. Agree(g) /\ g.over = game.over /\ g.state = game.state
  BY <1>1, <1>5, SameClockAgrees DEF SameClock
<1>7. \A q \in Players : g.team[q] = "none" => g.score[q] = 0
  BY <1>2, <1>5 DEF IInv, Ledger
<1>8. QED
  BY <1>3, <1>4, <1>5, <1>6, <1>7, LookedAtGood

\* Respawned changes at most who is ready.
LEMMA RespawnedKeeps ==
    ASSUME NEW g \in GameType, NEW p \in Players
    PROVE  LET h == Respawned(g, p)
           IN  /\ h \in GameType /\ SameClock(g, h)
               /\ h.reset = g.reset /\ h.score = g.score /\ h.team = g.team
<1> DEFINE rd == [g.ready EXCEPT ![p] = @ \/ g.team[p] = "game"]
           h == [g EXCEPT !.ready = rd]
<1>1. Respawned(g, p) = h
  BY DEF Respawned
<1>2. rd \in [Players -> BOOLEAN]
  BY DEF GameType
<1> HIDE DEF rd
<1>3. h \in GameType
  BY <1>2 DEF GameType
<1>4. SameClock(g, h) /\ h.reset = g.reset /\ h.score = g.score /\ h.team = g.team
  BY DEF GameType, SameClock
<1>5. QED
  BY <1>1, <1>3, <1>4

LEMMA EnterGood ==
    ASSUME IInv, NEW p \in Players, Enter(p)
    PROVE  Good
<1> DEFINE en == [game.entered EXCEPT ![p] = TRUE]
           f == [game EXCEPT !.entered = en]
           g == Respawned(f, p)
<1>1. game \in GameType /\ Agree(game) /\ Configured
  BY IInvParts
<1>2. en \in [Players -> BOOLEAN]
  BY <1>1 DEF GameType
<1>3. Becomes(CheckReadyStates(g, {}))
  BY DEF Enter
<1> HIDE DEF en
<1>4. f \in GameType
  BY <1>1, <1>2 DEF GameType
<1>5. SameClock(game, f) /\ f.reset = game.reset /\ f.score = game.score /\ f.team = game.team
  BY <1>1 DEF GameType, SameClock
<1> HIDE DEF f
<1>6. /\ g \in GameType /\ SameClock(f, g)
      /\ g.reset = f.reset /\ g.score = f.score /\ g.team = f.team
  BY <1>4, RespawnedKeeps
<1> HIDE DEF g
<1>7. Agree(g) /\ g.over = game.over /\ g.state = game.state
  BY <1>1, <1>5, <1>6, SameClockAgrees DEF SameClock
<1>8. \A q \in Players : g.team[q] = "none" => g.score[q] = 0
  BY <1>5, <1>6 DEF IInv, Ledger
<1>9. QED
  BY <1>3, <1>5, <1>6, <1>7, <1>8, LookedAtGood

LEMMA DisconnectGood ==
    ASSUME IInv, NEW p \in Players, Disconnect(p)
    PROVE  Good
<1> DEFINE c == CheckReadyStates(game, {p})
           tm == [c.team EXCEPT ![p] = "none"]
           en == [c.entered EXCEPT ![p] = FALSE]
           sc == [c.score EXCEPT ![p] = 0]
           rd == [c.ready EXCEPT ![p] = FALSE]
           g == [c EXCEPT !.team = tm, !.entered = en, !.score = sc, !.ready = rd]
<1>1. game \in GameType /\ Agree(game) /\ Configured
  BY IInvParts
<1>2. /\ game' = g /\ earned' = [earned EXCEPT ![p] = 0]
      /\ readyMode' = readyMode /\ casual' = casual /\ roundStart' = roundStart
  BY DEF Disconnect, config
<1>3. /\ c \in GameType /\ Agree(c) /\ Kept(game, c) /\ c.reset = game.reset /\ c.over = game.over
      /\ readyMode /\ game.state = "paused" /\ c.state = "paused"
            => c = game /\ ~(Unready(game) \subseteq {p})
      /\ game.state # "paused" => c = game
  BY <1>1, CheckReadyStatesAgrees
<1> HIDE DEF c
<1>4. /\ tm \in [Players -> {"none", "spectators", "game"}] /\ en \in [Players -> BOOLEAN]
      /\ sc \in [Players -> Nat] /\ rd \in [Players -> BOOLEAN]
  BY <1>3 DEF GameType
<1>5. /\ \A q \in Players \ {p} : tm[q] = c.team[q] /\ rd[q] = c.ready[q] /\ sc[q] = c.score[q]
      /\ sc[p] = 0
  BY <1>3 DEF GameType
<1>6. earned' = IF game.reset THEN [q \in Players |-> 0] ELSE sc
  BY <1>1, <1>2, <1>3 DEF IInv, Ledger, GameType, Kept
<1> HIDE DEF tm, en, sc, rd
<1>7. g \in GameType
  BY <1>3, <1>4 DEF GameType
<1>8. SameClock(c, g) /\ g.reset = c.reset /\ g.score = sc /\ g.team = tm /\ g.ready = rd
  BY <1>3 DEF GameType, SameClock
<1> HIDE DEF g
<1>9. Agree(g)
  BY <1>3, <1>8, SameClockAgrees
<1>10. TimersAgree'
  BY <1>2, <1>7, <1>9 DEF IInv, TimersAgree, TypeOK, Agree
<1>11. \A q \in Players : tm[q] = "none" => sc[q] = 0
  BY <1>3, <1>5 DEF IInv, Ledger, Kept
<1>12. Ledger'
  BY <1>2, <1>3, <1>6, <1>8, <1>11 DEF Ledger
<1>13. EndStep
  BY <1>2, <1>3, <1>8 DEF EndStep, SameClock
<1>14. WaitStep
  <2> SUFFICES ASSUME readyMode, game.state = "paused", g.state = "paused"
               PROVE  Unready(g) # {}
    BY <1>2 DEF WaitStep
  <2>1. c = game /\ ~(Unready(game) \subseteq {p})
    BY <1>3, <1>8 DEF SameClock
  <2>2. PICK q \in Unready(game) : q # p
    BY <2>1
  <2>3. q \in Unready(g)
    BY <1>5, <1>8, <2>1, <2>2 DEF Unready, Playing
  <2>4. QED
    BY <2>3
<1>15. QED
  BY <1>10, <1>12, <1>13, <1>14 DEF Good, IInv

LEMMA RespawnGood ==
    ASSUME IInv, NEW p \in Players, Respawn(p)
    PROVE  Good
<1> DEFINE g == Respawned(game, p)
<1>1. game \in GameType /\ Agree(game) /\ Configured
  BY IInvParts
<1>2. Becomes(g) /\ ~game.paused
  BY DEF Respawn
<1>3. /\ g \in GameType /\ SameClock(game, g)
      /\ g.reset = game.reset /\ g.score = game.score /\ g.team = game.team
  BY <1>1, RespawnedKeeps
<1> HIDE DEF g
<1>4. Agree(g)
  BY <1>1, <1>3, SameClockAgrees
<1>5. \A q \in Players : g.team[q] = "none" => g.score[q] = 0
  BY <1>3 DEF IInv, Ledger
<1>6. IInv' /\ game' = g
  BY <1>2, <1>3, <1>4, <1>5, Becoming
<1>7. EndStep
  BY <1>3, <1>6 DEF EndStep, SameClock
<1>8. WaitStep
  BY <1>1, <1>2 DEF WaitStep, Agree
<1>9. QED
  BY <1>6, <1>7, <1>8 DEF Good

LEMMA ReadyChangeGood ==
    ASSUME IInv, NEW p \in Players, ReadyChange(p)
    PROVE  Good
<1> DEFINE rd == [game.ready EXCEPT ![p] = ~@]
           g == [game EXCEPT !.ready = rd]
           u == IF g.state = "running" /\ ~g.ready[p] THEN Pause(g) ELSE g
<1>1. game \in GameType /\ Agree(game) /\ Configured
  BY IInvParts
<1>2. rd \in [Players -> BOOLEAN]
  BY <1>1 DEF GameType
<1>3. Becomes(CheckReadyStates(u, {}))
  BY DEF ReadyChange
<1> HIDE DEF rd
<1>4. g \in GameType
  BY <1>1, <1>2 DEF GameType
<1>5. SameClock(game, g) /\ g.reset = game.reset /\ g.score = game.score /\ g.team = game.team
  BY <1>1 DEF GameType, SameClock
<1> HIDE DEF g
<1>6. Agree(g) /\ g.over = game.over /\ g.state = game.state
  BY <1>1, <1>5, SameClockAgrees DEF SameClock
<1>7. /\ Pause(g) \in GameType /\ Agree(Pause(g)) /\ Kept(g, Pause(g))
      /\ Pause(g).reset = g.reset /\ Pause(g).over = g.over
  BY <1>4, <1>6, PauseAgrees
<1>8. /\ u \in GameType /\ Agree(u) /\ u.reset = game.reset /\ u.over = game.over
      /\ u.score = game.score /\ u.team = game.team
      /\ game.state = "paused" => u.state = "paused"
  BY <1>4, <1>5, <1>6, <1>7 DEF Kept
<1> HIDE DEF u
<1>9. \A q \in Players : u.team[q] = "none" => u.score[q] = 0
  BY <1>8 DEF IInv, Ledger
<1>10. QED
  BY <1>3, <1>8, <1>9, LookedAtGood

LEMMA ForceReadyPlayerGood ==
    ASSUME IInv, NEW p \in Players, ForceReadyPlayer(p)
    PROVE  Good
<1> DEFINE rd == [game.ready EXCEPT ![p] = TRUE]
           g == [game EXCEPT !.ready = rd]
<1>1. game \in GameType /\ Agree(game) /\ Configured
  BY IInvParts
<1>2. rd \in [Players -> BOOLEAN]
  BY <1>1 DEF GameType
<1>3. Becomes(CheckReadyStates(g, {}))
  BY DEF ForceReadyPlayer
<1> HIDE DEF rd
<1>4. g \in GameType
  BY <1>1, <1>2 DEF GameType
<1>5. SameClock(game, g) /\ g.reset = game.reset /\ g.score = game.score /\ g.team = game.team
  BY <1>1 DEF GameType, SameClock
<1> HIDE DEF g
<1>6. Agree(g) /\ g.over = game.over /\ g.state = game.state
  BY <1>1, <1>5, SameClockAgrees DEF SameClock
<1>7. \A q \in Players : g.team[q] = "none" => g.score[q] = 0
  BY <1>5 DEF IInv, Ledger
<1>8. QED
  BY <1>3, <1>4, <1>5, <1>6, <1>7, LookedAtGood

\* What the administrator does keeps the teams and the scores, and leaves a
\* paused game paused only if it was not.
LEMMA AdministeredGood ==
    ASSUME IInv, NEW g \in GameType, Agree(g), Becomes(g), Kept(game, g),
           game.state = "paused" => g.state # "paused"
    PROVE  Good
<1>1. \A p \in Players : g.team[p] = "none" => g.score[p] = 0
  BY DEF IInv, Ledger, Kept
<1>2. IInv' /\ game' = g
  BY <1>1, Becoming DEF Kept
<1>3. EndStep
  BY <1>2, IInvParts DEF EndStep, Kept, Configured, RoundsAssumption
<1>4. WaitStep
  BY <1>2 DEF WaitStep
<1>5. QED
  BY <1>2, <1>3, <1>4 DEF Good

LEMMA ToggleGood == ASSUME IInv, ToggleGamePause PROVE Good
<1> DEFINE g == SetReady(game, FALSE)
<1>1. game \in GameType /\ Agree(game) /\ Configured
  BY IInvParts
<1>2. Becomes(IF game.paused THEN Run(g) ELSE Pause(g))
  BY DEF ToggleGamePause
<1>3. g \in GameType /\ SameClock(game, g) /\ Kept(game, g)
  BY <1>1, SetReadyKeeps
<1> HIDE DEF g
<1>4. Agree(g)
  BY <1>1, <1>3, SameClockAgrees
<1>5. CASE game.paused
  <2>1. Run(g) \in GameType /\ Agree(Run(g)) /\ Kept(g, Run(g)) /\ Run(g).state = "running"
    BY <1>3, RunAgrees
  <2>2. QED
    BY <1>2, <1>3, <1>5, <2>1, KeptTransitive, AdministeredGood
<1>6. CASE ~game.paused
  <2>1. Pause(g) \in GameType /\ Agree(Pause(g)) /\ Kept(g, Pause(g))
    BY <1>3, <1>4, PauseAgrees
  <2>2. game.state # "paused"
    BY <1>1, <1>6 DEF Agree
  <2>3. QED
    BY <1>2, <1>3, <1>6, <2>1, <2>2, KeptTransitive, AdministeredGood
<1>7. QED
  BY <1>5, <1>6

LEMMA DoWarmupGood ==
    ASSUME IInv, NEW seconds \in {0, Warmup}, DoWarmup(seconds)
    PROVE  Good
<1> DEFINE f == [game EXCEPT !.warmup = 0]
           w == WarmupFor(f, seconds)
<1>1. game \in GameType /\ Agree(game) /\ Configured
  BY IInvParts
<1>2. Becomes(w) /\ seconds \in Nat
  BY <1>1 DEF DoWarmup, Configured, RoundsAssumption
<1>3. f \in GameType
  BY <1>1 DEF GameType
<1>4. /\ Kept(game, f) /\ f.state = game.state /\ f.timer = game.timer /\ f.warmup = 0
      /\ f.paused = game.paused /\ f.over = game.over
  BY <1>1 DEF GameType, Kept
<1> HIDE DEF f
<1>5. /\ w \in GameType /\ Kept(f, w)
      /\ IF f.state \in {"running", "paused"} \cup Warmups
         THEN Agree(w) /\ w.state # "paused"
         ELSE w = f
  BY <1>1, <1>2, <1>3, WarmupForAgrees
<1>6. f.state \notin {"running", "paused"} \cup Warmups => Agree(f)
  BY <1>1, <1>4 DEF Agree
<1> HIDE DEF w
<1>7. QED
  BY <1>2, <1>4, <1>5, <1>6, KeptTransitive, AdministeredGood

LEMMA AbortWarmupGood == ASSUME IInv, AbortWarmup PROVE Good
<1>1. game \in GameType /\ Agree(game) /\ Configured
  BY IInvParts
<1>2. /\ Run(game) \in GameType /\ Agree(Run(game)) /\ Kept(game, Run(game))
      /\ Run(game).state = "running"
  BY <1>1, RunAgrees
<1>3. QED
  BY <1>2, AdministeredGood DEF AbortWarmup

LEMMA SetReadyModeGood == ASSUME IInv, SetReadyMode PROVE Good
<1>1. /\ game' = game /\ earned' = earned /\ casual' = casual /\ roundStart' = roundStart
      /\ readyMode' = ~readyMode
  BY DEF SetReadyMode, config
<1>2. IInv'
  BY <1>1 DEF IInv, TimersAgree, TypeOK, Ledger
<1>3. QED
  BY <1>1, <1>2 DEF Good, EndStep, WaitStep

LEMMA NextGood == ASSUME IInv, [Next]_vars PROVE IInv' /\ (Next => Good)
<1>1. CASE UNCHANGED vars
  <2>1. IInv' /\ EndStep /\ WaitStep
    BY <1>1 DEF vars, config, IInv, TimersAgree, TypeOK, Ledger, EndStep, WaitStep
  <2>2. QED
    BY <2>1 DEF Good
<1>2. CASE Tick
  BY <1>2, TickGood DEF Good
<1>3. CASE \E p \in Players, points \in {1, -1} : Scores(p, points)
  BY <1>3, ScoresGood DEF Good
<1>4. CASE \E p \in Players, team \in {"spectators", "game"} : Connect(p, team) \/ ChangeTeam(p, team)
  BY <1>4, ConnectGood, ChangeTeamGood DEF Good
<1>5. CASE \E p \in Players : \/ Enter(p) \/ Disconnect(p) \/ Respawn(p)
                              \/ ReadyChange(p) \/ ForceReadyPlayer(p)
  BY <1>5, EnterGood, DisconnectGood, RespawnGood, ReadyChangeGood, ForceReadyPlayerGood DEF Good
<1>6. CASE ToggleGamePause
  BY <1>6, ToggleGood DEF Good
<1>7. CASE \E seconds \in {0, Warmup} : DoWarmup(seconds)
  BY <1>7, DoWarmupGood DEF Good
<1>8. CASE AbortWarmup
  BY <1>8, AbortWarmupGood DEF Good
<1>9. CASE SetReadyMode
  BY <1>9, SetReadyModeGood DEF Good
<1>10. QED
  BY <1>1, <1>2, <1>3, <1>4, <1>5, <1>6, <1>7, <1>8, <1>9 DEF Next

LEMMA InitInv == ASSUME Init PROVE IInv
<1> DEFINE tm == [p \in Players |-> "none"]
           no == [p \in Players |-> FALSE]
           z == [p \in Players |-> 0]
<1>1. /\ readyMode \in BOOLEAN /\ casual \in BOOLEAN /\ roundStart \in StartCountdowns
      /\ game = [state |-> "running", timer |-> -1, warmup |-> 0, paused |-> FALSE,
                 reset |-> FALSE, over |-> None, pauseAge |-> None,
                 team |-> tm, entered |-> no, ready |-> no, score |-> z]
      /\ earned = z
  BY DEF Init
<1>2. tm \in [Players -> {"none", "spectators", "game"}] /\ no \in [Players -> BOOLEAN] /\ z \in [Players -> Nat]
  OBVIOUS
<1>3. \A p \in Players : z[p] = 0
  OBVIOUS
<1> HIDE DEF tm, no, z
<1>4. game \in GameType
  BY <1>1, <1>2 DEF GameType
<1>5. TimersAgree
  BY <1>1, <1>4 DEF TimersAgree, TypeOK
<1>6. Ledger
  BY <1>1, <1>3 DEF Ledger
<1>7. QED
  BY <1>5, <1>6 DEF IInv

-----------------------------------------------------------------------------
(* The theorems.                                                            *)

THEOREM Invariance == Spec => []IInv
<1>1. Init => IInv
  BY InitInv
<1>2. IInv /\ [Next]_vars => IInv'
  BY NextGood
<1>3. QED
  BY <1>1, <1>2, PTL DEF Spec

\* The world stands still, and a timer runs, in exactly the states in which
\* they should; the timers for old clients agree with the one of the state.
THEOREM TimersAgreeAlways == Spec => []TimersAgree
<1>1. IInv => TimersAgree
  BY DEF IInv
<1>2. QED
  BY <1>1, Invariance, PTL

\* A round ends only by points made in it: never by the scores of the round
\* before, which StartRound leaves standing until the world is reset.
THEOREM EndsByPlayAlways == Spec => EndsByPlay
<1>1. IInv /\ [Next]_vars
        => [game'.over = 0 /\ game.over # 0 => \E p \in Players : Leads(p, earned')]_vars
  BY NextGood DEF Good, EndStep
<1>2. QED
  BY <1>1, Invariance, PTL DEF Spec, EndsByPlay

\* In ready mode no step that makes the last player ready, or takes him away,
\* leaves the game paused.
THEOREM WaitsForSomebodyAlways == Spec => WaitsForSomebody
<1>1. IInv /\ [Next]_vars
        => [readyMode /\ ~game.reset /\ game.state = "paused" /\ game'.state = "paused"
               /\ Unready(game) # {} => Unready(game') # {}]_vars
  BY NextGood DEF Good, WaitStep
<1>2. QED
  BY <1>1, Invariance, PTL DEF Spec, WaitsForSomebody
=============================================================================
