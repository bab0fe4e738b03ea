-------------------------------- MODULE Room --------------------------------
(***************************************************************************)
(* One room of the server: the fields of class Room (manager.py), the      *)
(* WebSocket handlers that change them (handlers.py), and the asyncio      *)
(* tasks that act on them later (main.py, handlers.py).                    *)
(*                                                                         *)
(* The server is one asyncio process: code between two awaits that really  *)
(* suspend is one action here.  Database calls, sleeps and closing another *)
(* player's socket suspend; sending to a socket is taken not to.           *)
(*                                                                         *)
(* Time is a number of seconds that pass by Tick.  A sleeping task is the  *)
(* number of seconds it has left; Tick waits for the tasks that are due,   *)
(* so a task runs in the second in which its sleep ends, in any order with *)
(* whatever else happens in that second.                                   *)
(*                                                                         *)
(* The room's id may be used again after everyone has left: the tasks that *)
(* look the room up by its id (round timeout, forced end) then find the    *)
(* new room, so they outlive the old one here too.  Tasks that hold the    *)
(* old Room object (countdown, finalisation) can no longer reach this room *)
(* and end with it.                                                        *)
(***************************************************************************)
EXTENDS Integers, Sequences, FiniteSets

CONSTANTS
  Players,                    \* the names that may enter
  NoPlayer,                   \* host_name = ""
  MAX_PLAYERS,                \* max_players_per_room(), 8
  RoundCounts,                \* the values of max_rounds a host may choose
  TIME_LIMIT,                 \* seconds of a round, 10..600
  TIMEOUT_SLACK,              \* the round timeout sleeps time_limit + 2
  STOP_SUBMIT_SECONDS,        \* 10
  STOP_SUBMIT_GRACE_SECONDS,  \* 1
  RESULTS_PHASE_SECONDS,      \* 30
  MaxGames                    \* bound: games under this room id

ASSUME RoomAssumption ==
  /\ NoPlayer \notin Players
  /\ IsFiniteSet(Players)
  /\ RoundCounts \subseteq Nat \ {0}
  /\ MAX_PLAYERS \in Nat /\ MaxGames \in Nat
  /\ TIME_LIMIT \in Nat \ {0} /\ TIMEOUT_SLACK \in Nat
  /\ STOP_SUBMIT_SECONDS \in Nat \ {0}
  /\ STOP_SUBMIT_GRACE_SECONDS \in Nat
  /\ RESULTS_PHASE_SECONDS \in Nat

\* 30 > 10 + 1: a forced end never sleeps longer than a results phase lasts.
ASSUME ReviewOutlastsStop ==
  RESULTS_PHASE_SECONDS > STOP_SUBMIT_SECONDS + STOP_SUBMIT_GRACE_SECONDS

StopWindow == STOP_SUBMIT_SECONDS + STOP_SUBMIT_GRACE_SECONDS
NotRunning == -1              \* no countdown task

VARIABLES
  host_name,
  connections,           \* names with a registered socket; {}: no such room
  deaf,                  \* names whose socket nobody reads any more
  kicked,                \* targets of a kick_player still in progress
  scores,                \* credited rounds per known name (the dict's keys)
  ready_players,
  max_rounds,
  current_round,
  is_playing,
  stop_triggered,
  results_phase_active,
  game_over,
  answered,              \* the keys of answers_received ...
  filled,                \* ... and those whose form is not {}
  round_history,         \* the number of each round recorded
  round_age,             \* seconds since round_started_at, up to TIME_LIMIT
  submit_left,           \* seconds until stop_submit_ends_at
  timeouts,              \* global_round_timeout tasks asleep
  force_ends,            \* force_end_round tasks asleep
  countdown,             \* _results_phase_countdown, seconds left
  finalizing,            \* a _finalize_results_phase past its guard
  uncredited,            \* whom it has still to credit
  dissolved,             \* the host has dissolved the room
  games                  \* games begun under this id (bound and epoch)

members == <<host_name, connections, deaf, kicked>>
phase   == <<max_rounds, current_round, is_playing, stop_triggered,
             results_phase_active, game_over>>
forms   == <<answered, filled>>
clocks  == <<round_age, submit_left>>
tasks   == <<timeouts, force_ends, countdown>>
closing == <<finalizing, uncredited>>
epoch   == <<dissolved, games>>

vars == <<members, scores, ready_players, phase, forms, round_history,
          clocks, tasks, closing, epoch>>

-----------------------------------------------------------------------------
(* Readings of the state and small pieces of the handlers.  A Mutant is a  *)
(* plausible mistake in the definition that follows it.                    *)

\* A socket whose endpoint loop still reads: its messages reach the handlers,
\* also those of a kicked player whose socket is not closed yet.
CanSend(p) == p \in (connections \cup kicked) \ deaf

\* Room.all_players_answered, for the given keys of answers_received.
AllAnswered(keys) == connections # {} /\ connections \subseteq keys

\* Mutant: one round too many.
LastRoundLate == current_round > max_rounds
LastRound == current_round >= max_rounds

\* Mutant: a round that is not counted.
SameRound == IF current_round = 0 THEN 1 ELSE current_round
NextRound == current_round + 1

\* Mutant: the slack is taken off the limit.
EarlyTimeout == TIME_LIMIT - TIMEOUT_SLACK
RoundTimeout == TIME_LIMIT + TIMEOUT_SLACK

\* Mutants: the submit window's sleep in place of the review's, a second more
\* than the review, and no countdown task at all.
ShortReview == STOP_SUBMIT_SECONDS
LongReview == RESULTS_PHASE_SECONDS + 1
NoReviewTask == NotRunning
ReviewSeconds == RESULTS_PHASE_SECONDS

ScoreOf(p) == IF p \in DOMAIN scores THEN scores[p] ELSE 0

\* The scores dict with player p set to n.
SetScore(p, n) ==
  [q \in DOMAIN scores \cup {p} |-> IF q = p THEN n ELSE scores[q]]

NoScores == [q \in {} |-> 0]

\* _resolve_room_join: strangers are refused while a game is active, everyone
\* without an entry when the room is full.
MayJoin(p) ==
  p \notin connections =>
    /\ (is_playing \/ results_phase_active \/ game_over) => p \in DOMAIN scores
    /\ Cardinality(connections) < MAX_PLAYERS

\* The fields of a new Room; the tasks that know only its id go on sleeping.
FreshRoom ==
  /\ deaf' = {} /\ kicked' = {} /\ ready_players' = {}
  /\ current_round' = 0 /\ is_playing' = FALSE /\ stop_triggered' = FALSE
  /\ results_phase_active' = FALSE /\ game_over' = FALSE
  /\ answered' = {} /\ filled' = {} /\ round_history' = <<>>
  /\ round_age' = 0 /\ submit_left' = 0
  /\ countdown' = NotRunning /\ finalizing' = FALSE /\ uncredited' = {}
  /\ dissolved' = FALSE
  /\ UNCHANGED <<timeouts, force_ends>>

Init ==
  /\ host_name = NoPlayer /\ connections = {} /\ deaf = {} /\ kicked = {}
  /\ scores = NoScores /\ ready_players = {}
  /\ max_rounds \in RoundCounts /\ current_round = 0
  /\ is_playing = FALSE /\ stop_triggered = FALSE
  /\ results_phase_active = FALSE /\ game_over = FALSE
  /\ answered = {} /\ filled = {} /\ round_history = <<>>
  /\ round_age = 0 /\ submit_left = 0
  /\ timeouts = {} /\ force_ends = {} /\ countdown = NotRunning
  /\ finalizing = FALSE /\ uncredited = {}
  /\ dissolved = FALSE /\ games = 0

-----------------------------------------------------------------------------
(* The phases of a game, the parts several handlers share                  *)

\* Room.start_round and the timeout task that both its callers create.
StartRound ==
  /\ is_playing' = TRUE /\ stop_triggered' = FALSE
  /\ ready_players' = {}
  /\ current_round' = NextRound
  /\ round_age' = 0 /\ submit_left' = 0
  /\ answered' = {} /\ filled' = {}
  /\ timeouts' = timeouts \cup {[round |-> NextRound, left |-> RoundTimeout]}

\* Mutant: the stop phase is announced but nothing will force its end.
UnforcedStopPhase ==
  /\ stop_triggered' = TRUE
  /\ submit_left' = STOP_SUBMIT_SECONDS
  /\ UNCHANGED force_ends

\* Room.mark_stop_phase_started, followed by the creation of force_end_round.
StopPhase ==
  /\ stop_triggered' = TRUE
  /\ submit_left' = STOP_SUBMIT_SECONDS
  /\ force_ends' = force_ends \cup {StopWindow}

\* Mutant of BeginFinalize: the guard's flag is left set and the task handle
\* kept, so that the same countdown finalises the round once more.
BeginFinalizeTwice ==
  /\ UNCHANGED results_phase_active /\ countdown' = 0
  /\ finalizing' = TRUE
  /\ \E p \in connections : /\ scores' = SetScore(p, ScoreOf(p) + 1)
                            /\ uncredited' = connections \ {p}

\* _finalize_results_phase up to its first await: compute_round_scores has
\* lined up the answers with the sockets and credited the first player.
BeginFinalize ==
  /\ results_phase_active' = FALSE /\ countdown' = NotRunning
  /\ finalizing' = TRUE
  /\ \E p \in connections : /\ scores' = SetScore(p, ScoreOf(p) + 1)
                            /\ uncredited' = connections \ {p}

\* _begin_results_phase with the filled forms received so far: only those of
\* connected players remain (sync_results_roster), the others count as empty.
\* The last round is finalised at once, any other is open to veto first.
BeginResults(forms_in) ==
  /\ ~results_phase_active
  /\ is_playing' = FALSE /\ stop_triggered' = FALSE
  /\ round_age' = 0 /\ submit_left' = 0
  /\ answered' = connections /\ filled' = forms_in \cap connections
  /\ \/ LastRound /\ BeginFinalize
     \/ /\ ~LastRound
        /\ results_phase_active' = TRUE
        /\ countdown' = ReviewSeconds
        /\ UNCHANGED <<scores, finalizing, uncredited>>
  /\ UNCHANGED <<host_name, connections, deaf, ready_players, max_rounds,
                 current_round, game_over, round_history, timeouts,
                 dissolved, games>>

\* Room.cancel_results_phase.
CancelResults == results_phase_active' = FALSE /\ countdown' = NotRunning

-----------------------------------------------------------------------------
(* Members: connect, disconnect, kick, rate limit, host transfer           *)

\* connect to an id no room has: a new Room, its first player is the host.
OpenRoom(p) ==
  /\ connections = {} /\ games < MaxGames
  /\ connections' = {p} /\ host_name' = p
  /\ scores' = [q \in {p} |-> 0]
  /\ max_rounds' \in RoundCounts
  /\ games' = games + 1
  /\ FreshRoom

\* connect to a room, by a name without a working socket there.
Join(p) ==
  /\ connections # {} /\ (p \notin connections \/ p \in deaf)
  /\ MayJoin(p)
  /\ connections' = connections \cup {p}
  /\ deaf' = deaf \ {p}
  /\ scores' = SetScore(p, ScoreOf(p))
  /\ UNCHANGED <<host_name, kicked, ready_players, phase, forms,
                 round_history, clocks, tasks, closing, epoch>>

\* Mutant: a leaver's answers are thrown away.
LeaverForfeits(p) == answered' = answered \ {p} /\ filled' = filled \ {p}

\* disconnect keeps a leaver's answers, he may be back within the round.
LeaverForms(p) == UNCHANGED <<answered, filled>>

\* disconnect, then cleanup_player_after_disconnect.  The leaver's score stays
\* too; a room without sockets is forgotten.
Leave(p) ==
  /\ p \in connections \ deaf
  /\ connections' = connections \ {p}
  /\ \/ /\ connections' = {}
        /\ host_name' = NoPlayer /\ scores' = NoScores
        /\ FreshRoom
        /\ UNCHANGED <<max_rounds, games>>
     \/ /\ connections' # {}
        /\ ready_players' = ready_players \ {p}
        /\ LeaverForms(p)
        /\ UNCHANGED <<host_name, deaf, kicked, scores, phase, round_history,
                       clocks, tasks, closing, epoch>>

\* The message rate limit: _handle_ws_messages closes the socket and returns,
\* so the endpoint ends without disconnect() and the entry stays behind.
RateLimitClose(p) ==
  /\ p \in connections \ deaf
  /\ deaf' = deaf \cup {p}
  /\ UNCHANGED <<host_name, connections, kicked, scores, ready_players, phase,
                 forms, round_history, clocks, tasks, closing, epoch>>

\* kick_player up to its first await: the target is out of every table.
Kick(h, p) ==
  /\ CanSend(h) /\ h = host_name /\ p # h /\ p \in connections
  /\ connections' = connections \ {p}
  /\ ready_players' = ready_players \ {p}
  /\ answered' = answered \ {p} /\ filled' = filled \ {p}
  /\ scores' = [q \in DOMAIN scores \ {p} |-> scores[q]]
  /\ kicked' = kicked \cup {p}
  /\ UNCHANGED <<host_name, deaf, phase, round_history, clocks, tasks,
                 closing, epoch>>

\* kick_player after its awaits: the socket is closed, and the round may have
\* been waiting for the kicked player alone.
KickDone(p) ==
  /\ p \in kicked
  /\ kicked' = kicked \ {p}
  /\ \/ is_playing /\ AllAnswered(answered) /\ BeginResults(filled)
        /\ UNCHANGED force_ends
     \/ /\ ~(is_playing /\ AllAnswered(answered))
        /\ UNCHANGED <<host_name, connections, deaf, scores, ready_players,
                       phase, forms, round_history, clocks, tasks, closing,
                       epoch>>

\* The deferred host transfer, without its timing, but that it comes
\* HOST_REASSIGN_GRACE_SECONDS late: no kick is that long in progress.
ReassignHost(p) ==
  /\ connections # {} /\ host_name \notin connections /\ p \in connections
  /\ kicked = {}
  /\ host_name' = p
  /\ UNCHANGED <<connections, deaf, kicked, scores, ready_players, phase,
                 forms, round_history, clocks, tasks, closing, epoch>>

-----------------------------------------------------------------------------
(* Messages of the players                                                 *)

\* No round was started in this game yet (and none is being played).
InLobby == ~is_playing /\ ~results_phase_active /\ current_round = 0

\* handle_ready: with as many ready names as sockets the first round starts.
Ready(p) ==
  /\ CanSend(p) /\ InLobby /\ ~game_over
  /\ LET ready == ready_players \cup {p} IN
       \/ /\ Cardinality(ready) >= Cardinality(connections)
          /\ StartRound
          /\ UNCHANGED <<max_rounds, results_phase_active, game_over,
                         force_ends, countdown>>
       \/ /\ Cardinality(ready) < Cardinality(connections)
          /\ ready_players' = ready
          /\ UNCHANGED <<phase, forms, clocks, tasks>>
  /\ UNCHANGED <<members, scores, round_history, closing, epoch>>

NotReady(p) ==
  /\ CanSend(p) /\ InLobby
  /\ ready_players' = ready_players \ {p}
  /\ UNCHANGED <<members, scores, phase, forms, round_history, clocks, tasks,
                 closing, epoch>>

\* handle_lobby_config_update, as far as the rounds go, and PATCH config, which
\* asks for the host's name only: the host need not be connected.
Configure(h, n) ==
  /\ connections # {} /\ h = host_name
  /\ ~is_playing /\ current_round = 0
  /\ max_rounds' = n
  /\ UNCHANGED <<members, scores, ready_players, current_round, is_playing,
                 stop_triggered, results_phase_active, game_over, forms,
                 round_history, clocks, tasks, closing, epoch>>

Stop(p) ==
  /\ CanSend(p) /\ is_playing /\ ~stop_triggered
  /\ StopPhase
  /\ UNCHANGED <<members, scores, ready_players, max_rounds, current_round,
                 is_playing, results_phase_active, game_over, forms,
                 round_history, round_age, timeouts, countdown, closing, epoch>>

\* handle_answers: an empty form is not stored, yet it too may find that
\* everyone has answered.
Answers(p, given) ==
  /\ CanSend(p) /\ (is_playing \/ stop_triggered)
  /\ LET keys     == IF given THEN answered \cup {p} ELSE answered
         forms_in == IF given THEN filled \cup {p} ELSE filled
     IN \/ /\ ~results_phase_active /\ AllAnswered(keys)
           /\ BeginResults(forms_in)
           /\ UNCHANGED <<kicked, force_ends>>
        \/ /\ results_phase_active \/ ~AllAnswered(keys)
           /\ answered' = keys /\ filled' = forms_in
           /\ UNCHANGED <<members, scores, ready_players, phase,
                          round_history, clocks, tasks, closing, epoch>>

\* handle_restart_game and Room.restart_game up to its awaits.
Restart(h, n) ==
  /\ CanSend(h) /\ h = host_name /\ game_over
  /\ games < MaxGames
  /\ games' = games + 1
  /\ CancelResults
  /\ max_rounds' = n /\ current_round' = 0
  /\ scores' = [q \in connections |-> 0]
  /\ game_over' = FALSE /\ is_playing' = FALSE
  /\ ready_players' = {} /\ round_history' = <<>>
  /\ UNCHANGED <<members, stop_triggered, forms, clocks, timeouts, force_ends,
                 closing, dissolved>>

\* handle_dissolve_room: the others' sockets are closed, they and the host
\* then leave one by one; the Room stays until the last is gone.
Dissolve(h) ==
  /\ CanSend(h) /\ h = host_name
  /\ CancelResults
  /\ dissolved' = TRUE
  /\ UNCHANGED <<members, scores, ready_players, max_rounds, current_round,
                 is_playing, stop_triggered, game_over, forms, round_history,
                 clocks, timeouts, force_ends, closing, games>>

-----------------------------------------------------------------------------
(* Tasks                                                                   *)

\* global_round_timeout wakes up.
TimeoutFires(t) ==
  /\ t \in timeouts /\ t.left = 0
  /\ timeouts' = timeouts \ {t}
  /\ \/ /\ is_playing /\ current_round = t.round /\ ~stop_triggered
        /\ StopPhase
     \/ /\ ~(is_playing /\ current_round = t.round /\ ~stop_triggered)
        /\ UNCHANGED <<stop_triggered, submit_left, force_ends>>
  /\ UNCHANGED <<members, scores, ready_players, max_rounds, current_round,
                 is_playing, results_phase_active, game_over, forms,
                 round_history, round_age, countdown, closing, epoch>>

\* force_end_round wakes up: any round in its stop phase is ended.
ForceEndFires ==
  /\ 0 \in force_ends
  /\ force_ends' = force_ends \ {0}
  /\ \/ /\ is_playing /\ stop_triggered
        /\ BeginResults(filled) /\ UNCHANGED kicked
     \/ /\ ~(is_playing /\ stop_triggered)
        /\ UNCHANGED <<members, scores, ready_players, phase, forms,
                       round_history, clocks, timeouts, countdown, closing,
                       epoch>>

\* _results_phase_countdown wakes up and finalises the round.
CountdownFires ==
  /\ countdown = 0 /\ results_phase_active
  /\ BeginFinalize
  /\ answered' = connections /\ filled' = filled \cap connections
  /\ UNCHANGED <<members, ready_players, max_rounds, current_round,
                 is_playing, stop_triggered, game_over, round_history, clocks,
                 timeouts, force_ends, epoch>>

\* _update_global_scores_and_save between two saves: the next player.
CreditNext(p) ==
  /\ finalizing /\ p \in uncredited
  /\ scores' = SetScore(p, ScoreOf(p) + 1)
  /\ uncredited' = uncredited \ {p}
  /\ UNCHANGED <<members, ready_players, phase, forms, round_history, clocks,
                 tasks, finalizing, epoch>>

\* The end of _finalize_results_phase, everything saved: the round is put on
\* record, and the game is over or goes on with the next round.
Conclude ==
  /\ finalizing /\ uncredited = {}
  /\ finalizing' = FALSE
  /\ round_history' = Append(round_history, current_round)
  /\ \/ /\ LastRound
        /\ game_over' = TRUE
        /\ UNCHANGED <<is_playing, stop_triggered, ready_players,
                       current_round, clocks, forms, timeouts>>
     \/ /\ ~LastRound
        /\ StartRound
        /\ UNCHANGED game_over
  /\ UNCHANGED <<members, scores, max_rounds, results_phase_active,
                 force_ends, countdown, uncredited, epoch>>

-----------------------------------------------------------------------------
(* Time                                                                    *)

TaskDue == countdown = 0 \/ 0 \in force_ends \/ \E t \in timeouts : t.left = 0

Tick ==
  /\ ~TaskDue
  /\ timeouts' = {[t EXCEPT !.left = @ - 1] : t \in timeouts}
  /\ force_ends' = {left - 1 : left \in force_ends}
  /\ countdown' = IF countdown = NotRunning THEN NotRunning ELSE countdown - 1
  /\ round_age' = IF is_playing /\ round_age < TIME_LIMIT
                  THEN round_age + 1 ELSE round_age
  /\ submit_left' = IF submit_left > 0 THEN submit_left - 1 ELSE 0
  /\ UNCHANGED <<members, scores, ready_players, phase, forms, round_history,
                 closing, epoch>>

-----------------------------------------------------------------------------
Next ==
  \/ \E p \in Players :
       OpenRoom(p) \/ Join(p) \/ Leave(p) \/ RateLimitClose(p) \/ KickDone(p)
         \/ ReassignHost(p) \/ Ready(p) \/ NotReady(p) \/ Stop(p)
         \/ Dissolve(p) \/ CreditNext(p)
  \/ \E h, p \in Players : Kick(h, p)
  \/ \E p \in Players, given \in BOOLEAN : Answers(p, given)
  \/ \E h \in Players, n \in RoundCounts : Configure(h, n) \/ Restart(h, n)
  \/ \E t \in timeouts : TimeoutFires(t)
  \/ ForceEndFires \/ CountdownFires \/ Conclude
  \/ Tick

Spec == Init /\ [][Next]_vars
\* The event loop runs what is due, timers expire, database calls return.  The
\* players owe nothing.
Fairness ==
  /\ WF_vars(Tick)
  /\ WF_vars(\E t \in timeouts : TimeoutFires(t))
  /\ WF_vars(ForceEndFires) /\ WF_vars(CountdownFires)
  /\ WF_vars(\E p \in Players : CreditNext(p)) /\ WF_vars(Conclude)

FairSpec == Spec /\ Fairness

-----------------------------------------------------------------------------
MembersTyped ==
  /\ host_name \in Players \cup {NoPlayer}
  /\ connections \subseteq Players /\ deaf \subseteq Players
  /\ kicked \subseteq Players /\ ready_players \subseteq Players
  /\ answered \subseteq Players /\ filled \subseteq answered

ScoresTyped ==
  DOMAIN scores \subseteq Players /\ scores \in [DOMAIN scores -> Nat]

FlagsTyped ==
  /\ is_playing \in BOOLEAN /\ stop_triggered \in BOOLEAN
  /\ results_phase_active \in BOOLEAN /\ game_over \in BOOLEAN
  /\ finalizing \in BOOLEAN /\ dissolved \in BOOLEAN

RoundsTyped ==
  /\ max_rounds \in RoundCounts /\ current_round \in Nat
  /\ round_history \in Seq(Nat) /\ games \in Nat
  /\ uncredited \subseteq Players

TimesTyped ==
  /\ round_age \in 0..TIME_LIMIT /\ submit_left \in 0..STOP_SUBMIT_SECONDS
  /\ timeouts \subseteq [round : Nat, left : 0..RoundTimeout]
  /\ force_ends \subseteq 0..StopWindow
  /\ countdown \in {NotRunning} \cup 0..RESULTS_PHASE_SECONDS

TypeOK ==
  MembersTyped /\ ScoresTyped /\ FlagsTyped /\ RoundsTyped /\ TimesTyped

\* The four stages a game can be in are held in independent flags and in
\* coroutines that several handlers and timers start: at most one of them is
\* ever on, the stop phase belongs to a running round, and there is a countdown
\* exactly while a review waits for one.
OneStageAtATime ==
  /\ is_playing => ~results_phase_active /\ ~finalizing /\ ~game_over
  /\ results_phase_active => ~finalizing /\ ~game_over
  /\ finalizing => ~game_over
  /\ stop_triggered => is_playing
  /\ results_phase_active <=> countdown # NotRunning
  /\ uncredited # {} => finalizing

\* Whatever starts, ends and finalises rounds, each round of a game is recorded
\* once and in order: the record is 1, 2, ... up to the round before the one in
\* progress, or up to the last round when the game is over.
EveryRoundRecordedOnce ==
  /\ \A i \in DOMAIN round_history : round_history[i] = i
  /\ is_playing \/ results_phase_active \/ finalizing
       => current_round = Len(round_history) + 1 /\ current_round <= max_rounds
  /\ game_over => current_round = Len(round_history) /\ LastRound

\* Nobody is credited a round twice: a score never exceeds the rounds on
\* record, and the round being finalised for those already dealt with.
NoDoubleCredit ==
  \A p \in DOMAIN scores :
    scores[p] <= Len(round_history)
                   + IF finalizing /\ p \notin uncredited THEN 1 ELSE 0

\* The comment in disconnect(): an accepted form is not lost by a disconnect
\* and a reconnect within the round.  Only a kick takes it back.
FormsKeptWithinRound ==
  [][\A p \in filled : is_playing /\ is_playing' =>
        p \in filled' \/ p \in kicked']_vars

\* The stop phase gives everyone STOP_SUBMIT_SECONDS to send the answers: when
\* a force_end_round is about to end a round, that time is over.
ForceEndAfterSubmitTime ==
  0 \in force_ends /\ is_playing /\ stop_triggered => submit_left = 0

\* global_round_timeout's docstring, "Fires a stop_round event when time runs
\* out": one that is about to stop the round finds its time used up.
TimeoutWhenTimeIsUp ==
  \A t \in timeouts :
    t.left = 0 /\ is_playing /\ ~stop_triggered /\ t.round = current_round
      => round_age = TIME_LIMIT

\* Both hold in the first game under a room's id, whatever the players do: the
\* tasks left over from earlier rounds are harmless, the timeouts because of
\* their round number, the forced ends because a review outlasts them.
FirstGameOnTime ==
  games <= 1 => ForceEndAfterSubmitTime /\ TimeoutWhenTimeIsUp

\* A round that is running comes to an end, with or without its players.
RoundsEnd == \A k \in 1..2 :
  is_playing /\ current_round = k ~> ~(is_playing /\ current_round = k)

\* A review leads to the next round or the end of the game, unless the room is
\* dissolved or everybody leaves.
ReviewsEnd ==
  results_phase_active ~>
    is_playing \/ game_over \/ dissolved \/ connections = {}

-----------------------------------------------------------------------------
(* The game the players see                                                *)

GamePhase ==
  IF connections = {}          THEN "none"
  ELSE IF finalizing           THEN "scoring"
  ELSE IF is_playing           THEN "round"
  ELSE IF results_phase_active THEN "review"
  ELSE IF game_over            THEN "over"
  ELSE IF current_round = 0    THEN "lobby"
  ELSE "abandoned"

TheGame == INSTANCE Game
  WITH phase <- GamePhase,
       round <- current_round, rounds <- max_rounds,
       recorded <- Len(round_history)

\* The handlers and tasks together play the game of module Game.
ImplementsGame == TheGame!Spec

-----------------------------------------------------------------------------
(* What the documentation or the tests say, and the code does not do       *)

\* tests/test_room_states.py, test_game_in_progress_rejects_late_join: nobody
\* unknown to a game joins it between its first round and its end.
NoLateJoin ==
  [][\A p \in connections' \ connections :
        connections # {} /\ current_round > 0 /\ ~dissolved
          => p \in DOMAIN scores]_vars

\* static/index.html: "gra zaczyna się, gdy wszyscy są gotowi", the game starts
\* when all are ready.  No lobby waits in which everybody present is ready.
AllReadyMeansStarted ==
  connections # {} /\ InLobby /\ ~game_over /\ ~dissolved
    => ~(connections \subseteq ready_players)

\* tests/test_manager.py, test_manager_kick_player_removes_target: a kicked
\* player is out of the scores.  A name enters the table by joining only.
ScoresOnlyByJoining ==
  [][DOMAIN scores' \ DOMAIN scores \subseteq connections']_vars
=============================================================================
