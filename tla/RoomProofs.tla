----------------------------- MODULE RoomProofs -----------------------------
(***************************************************************************)
(* The safety properties of module Room, for any number of players, any    *)
(* round counts and any lengths of time: types, the stages of a game, the  *)
(* record of rounds and the credits.  They hold one another up, so they    *)
(* are proved as one inductive invariant, IInv.  It is also what makes it  *)
(* sound to read the phase of module Game off the flags.  The timing of    *)
(* the tasks it leaves behind, at the end, has an invariant of its own.    *)
(*                                                                         *)
(* Two parts of it are no property of their own.  An empty room is fresh,  *)
(* so that whoever opens it again finds no old game.  The host is never a  *)
(* player being kicked, so that a kick cannot empty the room.              *)
(***************************************************************************)
EXTENDS Room, TLAPS

\* A room nobody is in carries nothing of a game, whoever enters it next.
EmptyIsFresh ==
  connections = {} =>
    /\ current_round = 0 /\ round_history = <<>>
    /\ ~is_playing /\ ~results_phase_active /\ ~finalizing /\ ~game_over
    /\ scores = NoScores /\ kicked = {}

\* The host is not the target of a kick in progress.
HostNotKicked == host_name \notin kicked

\* Before the first round nothing is on record.
LobbyHasNoRecord == current_round = 0 => round_history = <<>>

IInv ==
  /\ TypeOK /\ OneStageAtATime /\ EveryRoundRecordedOnce /\ NoDoubleCredit
  /\ EmptyIsFresh /\ HostNotKicked /\ LobbyHasNoRecord

-----------------------------------------------------------------------------
\* The constants are what RoomAssumption says, as the arithmetic below uses it.
LEMMA Constants ==
  /\ RoundCounts \subseteq Nat \ {0}
  /\ TIME_LIMIT \in Nat \ {0} /\ RoundTimeout \in Nat
  /\ STOP_SUBMIT_SECONDS \in Nat \ {0} /\ StopWindow \in Nat
  /\ STOP_SUBMIT_SECONDS <= StopWindow /\ TIME_LIMIT <= RoundTimeout
  /\ RESULTS_PHASE_SECONDS \in Nat /\ StopWindow < RESULTS_PHASE_SECONDS
BY RoomAssumption, ReviewOutlastsStop DEF RoundTimeout, StopWindow

\* SetScore changes one entry of the table and adds it where there was none.
LEMMA SetScoreTable ==
  ASSUME NEW p \in Players, NEW n \in Nat, scores' = SetScore(p, n)
  PROVE  /\ ScoresTyped => ScoresTyped'
         /\ DOMAIN scores' = DOMAIN scores \cup {p}
         /\ scores'[p] = n
         /\ \A q \in DOMAIN scores : q # p => scores'[q] = scores[q]
<1>1. /\ DOMAIN scores' = DOMAIN scores \cup {p}
      /\ scores'[p] = n
      /\ \A q \in DOMAIN scores : q # p => scores'[q] = scores[q]
  BY DEF SetScore
<1>2. ScoresTyped => ScoresTyped'
  BY DEF SetScore, ScoresTyped
<1> QED BY <1>1, <1>2

\* A player's score is a number, 0 for a stranger.
LEMMA ScoreOfNat ==
  ASSUME NEW p \in Players, ScoresTyped
  PROVE  /\ ScoreOf(p) \in Nat
         /\ p \in DOMAIN scores => ScoreOf(p) = scores[p]
         /\ p \notin DOMAIN scores => ScoreOf(p) = 0
BY DEF ScoreOf, ScoresTyped

-----------------------------------------------------------------------------
(* Types, group by group as TypeOK has them.                               *)

\* No step puts anybody but a player into the tables of names.
LEMMA MembersStep == TypeOK /\ [Next]_vars => MembersTyped'
<1> SUFFICES ASSUME TypeOK, [Next]_vars PROVE MembersTyped'
  OBVIOUS
<1> USE DEF members, phase, forms, clocks, tasks, closing, epoch, TypeOK, MembersTyped
<1>1. ASSUME NEW p \in Players, OpenRoom(p) PROVE MembersTyped'
  BY <1>1 DEF OpenRoom, FreshRoom
<1>2. ASSUME NEW p \in Players, Join(p) PROVE MembersTyped'
  BY <1>2 DEF Join
<1>3. ASSUME NEW p \in Players, Leave(p) PROVE MembersTyped'
  BY <1>3 DEF Leave, FreshRoom, LeaverForms
<1>4. ASSUME NEW p \in Players, RateLimitClose(p) PROVE MembersTyped'
  BY <1>4 DEF RateLimitClose
<1>5. ASSUME NEW h \in Players, NEW p \in Players, Kick(h, p)
      PROVE  MembersTyped'
  BY <1>5 DEF Kick
<1>6. ASSUME NEW p \in Players, KickDone(p) PROVE MembersTyped'
  BY <1>6 DEF KickDone, BeginResults
<1>7. ASSUME NEW p \in Players, ReassignHost(p) PROVE MembersTyped'
  BY <1>7 DEF ReassignHost
<1>8. ASSUME NEW p \in Players, Ready(p) \/ NotReady(p) PROVE MembersTyped'
  BY <1>8 DEF Ready, NotReady, StartRound
<1>9. ASSUME NEW p \in Players, Stop(p) \/ Dissolve(p) \/ CreditNext(p)
      PROVE  MembersTyped'
  BY <1>9 DEF Stop, Dissolve, CreditNext
<1>10. ASSUME NEW p \in Players, NEW given \in BOOLEAN, Answers(p, given)
       PROVE  MembersTyped'
  BY <1>10 DEF Answers, BeginResults
<1>11. ASSUME NEW h \in Players, NEW n \in RoundCounts,
              Configure(h, n) \/ Restart(h, n)
       PROVE  MembersTyped'
  BY <1>11 DEF Configure, Restart
<1>12. ASSUME NEW t \in timeouts, TimeoutFires(t) PROVE MembersTyped'
  BY <1>12 DEF TimeoutFires
<1>13. CASE ForceEndFires \/ CountdownFires
  BY <1>13 DEF ForceEndFires, CountdownFires, BeginResults
<1>14. CASE Conclude
  BY <1>14 DEF Conclude, StartRound
<1>15. CASE Tick \/ UNCHANGED vars
  BY <1>15 DEF Tick, vars
<1> QED
  BY <1>1, <1>2, <1>3, <1>4, <1>5, <1>6, <1>7, <1>8, <1>9, <1>10, <1>11,
     <1>12, <1>13, <1>14, <1>15 DEF Next

\* The credit that opens the finalisation of a round keeps the table typed.
LEMMA FirstCredit ==
  ASSUME TypeOK, BeginFinalize
  PROVE  ScoresTyped' /\ uncredited' \subseteq Players
<1>1. PICK p \in connections : /\ scores' = SetScore(p, ScoreOf(p) + 1)
                               /\ uncredited' = connections \ {p}
  BY DEF BeginFinalize
<1>2. p \in Players /\ ScoreOf(p) + 1 \in Nat
  BY <1>1, ScoreOfNat DEF TypeOK, MembersTyped
<1>3. ScoresTyped'
  BY <1>1, <1>2, SetScoreTable DEF TypeOK
<1> QED BY <1>1, <1>3 DEF TypeOK, MembersTyped

\* No step leaves anything but numbers in the score table.
LEMMA ScoresStep == TypeOK /\ [Next]_vars => ScoresTyped'
<1> SUFFICES ASSUME TypeOK, [Next]_vars PROVE ScoresTyped'
  OBVIOUS
<1>1. ASSUME NEW p \in Players, OpenRoom(p) PROVE ScoresTyped'
  BY <1>1 DEF OpenRoom, ScoresTyped
<1>2. ASSUME NEW p \in Players, Join(p) PROVE ScoresTyped'
  <2>1. ScoreOf(p) \in Nat
    BY ScoreOfNat DEF TypeOK
  <2> QED BY <1>2, <2>1, SetScoreTable DEF Join, TypeOK
<1>3. ASSUME NEW p \in Players, Leave(p) PROVE ScoresTyped'
  BY <1>3 DEF Leave, NoScores, TypeOK, ScoresTyped
<1>4. ASSUME NEW h \in Players, NEW p \in Players, Kick(h, p)
      PROVE  ScoresTyped'
  BY <1>4 DEF Kick, TypeOK, ScoresTyped
<1>5. ASSUME NEW h \in Players, NEW n \in RoundCounts, Restart(h, n)
      PROVE  ScoresTyped'
  BY <1>5 DEF Restart, TypeOK, MembersTyped, ScoresTyped
<1>6. CASE BeginFinalize
  BY <1>6, FirstCredit
<1>7. ASSUME NEW p \in Players, CreditNext(p) PROVE ScoresTyped'
  <2>1. ScoreOf(p) + 1 \in Nat
    BY ScoreOfNat DEF TypeOK
  <2> QED BY <1>7, <2>1, SetScoreTable DEF CreditNext, TypeOK
<1>8. CASE UNCHANGED scores
  BY <1>8 DEF TypeOK, ScoresTyped
<1> QED
  BY <1>1, <1>2, <1>3, <1>4, <1>5, <1>6, <1>7, <1>8
     DEF Next, RateLimitClose, KickDone, ReassignHost, Ready, NotReady, Stop,
         Dissolve, Answers, Configure, TimeoutFires, ForceEndFires,
         CountdownFires, Conclude, Tick, BeginResults, vars

\* No step leaves a flag that is not a Boolean.
LEMMA FlagsStep == TypeOK /\ [Next]_vars => FlagsTyped'
<1> SUFFICES ASSUME TypeOK, [Next]_vars PROVE FlagsTyped'
  OBVIOUS
<1> USE DEF phase, closing, epoch, TypeOK, FlagsTyped
<1>1. ASSUME NEW p \in Players, OpenRoom(p) PROVE FlagsTyped'
  BY <1>1 DEF OpenRoom, FreshRoom
<1>2. ASSUME NEW p \in Players, Leave(p) PROVE FlagsTyped'
  BY <1>2 DEF Leave, FreshRoom
<1>3. ASSUME NEW p \in Players, Ready(p) PROVE FlagsTyped'
  BY <1>3 DEF Ready, StartRound, NextRound
<1>4. ASSUME NEW p \in Players, Stop(p) \/ Dissolve(p) \/ CreditNext(p)
      PROVE  FlagsTyped'
  BY <1>4 DEF Stop, StopPhase, Dissolve, CancelResults, CreditNext
<1>5. ASSUME NEW h \in Players, NEW n \in RoundCounts,
             Configure(h, n) \/ Restart(h, n)
      PROVE  FlagsTyped'
  BY <1>5 DEF Configure, Restart, CancelResults
<1>6. ASSUME NEW t \in timeouts, TimeoutFires(t) PROVE FlagsTyped'
  BY <1>6 DEF TimeoutFires, StopPhase
<1>7. ASSUME NEW forms_in, BeginResults(forms_in) PROVE FlagsTyped'
  BY <1>7, FirstCredit DEF BeginResults, BeginFinalize
<1>8. CASE CountdownFires
  BY <1>8, FirstCredit DEF CountdownFires, BeginFinalize
<1>9. CASE Conclude
  BY <1>9 DEF Conclude, StartRound, NextRound
<1>10. CASE UNCHANGED <<phase, round_history, closing, epoch>>
  BY <1>10
<1> QED
  BY <1>1, <1>2, <1>3, <1>4, <1>5, <1>6, <1>7, <1>8, <1>9, <1>10
     DEF Next, Join, RateLimitClose, Kick, KickDone, ReassignHost, NotReady,
         Answers, ForceEndFires, Tick, vars

\* Round numbers, the record and the waiting credits keep their types.
LEMMA RoundsStep == TypeOK /\ [Next]_vars => RoundsTyped'
<1> SUFFICES ASSUME TypeOK, [Next]_vars PROVE RoundsTyped'
  OBVIOUS
<1> USE DEF phase, closing, epoch, TypeOK, RoundsTyped
<1>1. ASSUME NEW p \in Players, OpenRoom(p) PROVE RoundsTyped'
  BY <1>1 DEF OpenRoom, FreshRoom
<1>2. ASSUME NEW p \in Players, Leave(p) PROVE RoundsTyped'
  <2>1. CASE connections' = {}
    <3>1. round_history' = <<>> /\ current_round' = 0 /\ uncredited' = {}
      BY <1>2, <2>1 DEF Leave, FreshRoom
    <3>2. UNCHANGED <<max_rounds, games>>
      BY <1>2, <2>1 DEF Leave
    <3> QED BY <3>1, <3>2
  <2>2. CASE connections' # {}
    BY <1>2, <2>2 DEF Leave
  <2> QED BY <2>1, <2>2
<1>3. ASSUME NEW p \in Players, Ready(p) PROVE RoundsTyped'
  BY <1>3 DEF Ready, StartRound, NextRound
<1>4. ASSUME NEW p \in Players, Stop(p) \/ Dissolve(p) \/ CreditNext(p)
      PROVE  RoundsTyped'
  BY <1>4 DEF Stop, StopPhase, Dissolve, CancelResults, CreditNext
<1>5. ASSUME NEW h \in Players, NEW n \in RoundCounts,
             Configure(h, n) \/ Restart(h, n)
      PROVE  RoundsTyped'
  <2>1. CASE Configure(h, n)
    BY <2>1 DEF Configure
  <2>2. CASE Restart(h, n)
    BY <2>2 DEF Restart
  <2> QED BY <1>5, <2>1, <2>2
<1>6. ASSUME NEW t \in timeouts, TimeoutFires(t) PROVE RoundsTyped'
  BY <1>6 DEF TimeoutFires, StopPhase
<1>7. ASSUME NEW forms_in, BeginResults(forms_in) PROVE RoundsTyped'
  BY <1>7, FirstCredit DEF BeginResults, BeginFinalize
<1>8. CASE CountdownFires
  BY <1>8, FirstCredit DEF CountdownFires, BeginFinalize
<1>9. CASE Conclude
  BY <1>9 DEF Conclude, StartRound, NextRound
<1>10. CASE UNCHANGED <<phase, round_history, closing, epoch>>
  BY <1>10
<1> QED
  BY <1>1, <1>2, <1>3, <1>4, <1>5, <1>6, <1>7, <1>8, <1>9, <1>10
     DEF Next, Join, RateLimitClose, Kick, KickDone, ReassignHost, NotReady,
         Answers, ForceEndFires, Tick, vars

\* No clock and no sleep leaves its range.
LEMMA TimesStep == TypeOK /\ [Next]_vars => TimesTyped'
<1> SUFFICES ASSUME TypeOK, [Next]_vars PROVE TimesTyped'
  OBVIOUS
<1> USE Constants DEF clocks, tasks, TypeOK, TimesTyped
<1>1. CASE FreshRoom
  BY <1>1 DEF FreshRoom
<1>2. ASSUME NEW p \in Players, Ready(p) PROVE TimesTyped'
  <2>1. CASE StartRound
    <3>1. UNCHANGED <<force_ends, countdown>>
      BY <1>2, <2>1 DEF Ready, StartRound
    <3> QED BY <2>1, <3>1 DEF StartRound, NextRound, RoundsTyped
  <2>2. CASE ~StartRound
    BY <1>2, <2>2 DEF Ready
  <2> QED BY <2>1, <2>2
<1>3. ASSUME NEW p \in Players, Stop(p) \/ Dissolve(p) PROVE TimesTyped'
  <2>1. CASE Stop(p)
    BY <2>1 DEF Stop, StopPhase
  <2>2. CASE Dissolve(p)
    BY <2>2 DEF Dissolve, CancelResults
  <2> QED BY <1>3, <2>1, <2>2
<1>4. ASSUME NEW h \in Players, NEW n \in RoundCounts, Restart(h, n)
      PROVE  TimesTyped'
  BY <1>4 DEF Restart, CancelResults
<1>5. ASSUME NEW t \in timeouts, TimeoutFires(t) PROVE TimesTyped'
  <2>1. CASE StopPhase
    BY <1>5, <2>1 DEF TimeoutFires, StopPhase
  <2>2. CASE ~StopPhase
    BY <1>5, <2>2 DEF TimeoutFires
  <2> QED BY <2>1, <2>2
<1>6. ASSUME NEW forms_in, BeginResults(forms_in),
             force_ends' \subseteq 0..StopWindow
      PROVE  TimesTyped'
  BY <1>6 DEF BeginResults, BeginFinalize, ReviewSeconds
<1>7. CASE ForceEndFires
  BY <1>6, <1>7 DEF ForceEndFires
<1>8. CASE CountdownFires
  BY <1>8 DEF CountdownFires, BeginFinalize
<1>9. CASE Conclude
  BY <1>9 DEF Conclude, StartRound, NextRound, RoundsTyped
<1>10. CASE Tick
  <2>1. timeouts' \subseteq [round : Nat, left : 0..RoundTimeout]
    BY <1>10 DEF Tick, TaskDue
  <2>2. force_ends' \subseteq 0..StopWindow
    BY <1>10 DEF Tick, TaskDue
  <2>3. countdown' \in {NotRunning} \cup 0..RESULTS_PHASE_SECONDS
    BY <1>10 DEF Tick, TaskDue, NotRunning
  <2>4. round_age' \in 0..TIME_LIMIT /\ submit_left' \in 0..STOP_SUBMIT_SECONDS
    BY <1>10 DEF Tick
  <2> QED BY <2>1, <2>2, <2>3, <2>4
<1>11. CASE UNCHANGED <<clocks, tasks>>
  BY <1>11
<1> QED
  BY <1>1, <1>2, <1>3, <1>4, <1>5, <1>6, <1>7, <1>8, <1>9, <1>10, <1>11
     DEF Next, OpenRoom, Join, Leave, RateLimitClose, Kick, KickDone, ReassignHost, NotReady,
         Answers, CreditNext, Configure, vars

\* The five groups together.
LEMMA TypeStep == TypeOK /\ [Next]_vars => TypeOK'
BY MembersStep, ScoresStep, FlagsStep, RoundsStep, TimesStep DEF TypeOK

-----------------------------------------------------------------------------
(* The stages of a game                                                    *)

\* In the lobby nothing of a game is going on.
LEMMA LobbyIsIdle ==
  ASSUME IInv, current_round = 0
  PROVE  ~is_playing /\ ~results_phase_active /\ ~finalizing /\ ~game_over
<1>1. Len(round_history) \in Nat /\ max_rounds \in Nat \ {0}
  BY Constants DEF IInv, TypeOK, RoundsTyped
<1>2. current_round # Len(round_history) + 1
  BY <1>1
<1>3. ~LastRound
  BY <1>1 DEF LastRound
<1> QED BY <1>2, <1>3 DEF IInv, EveryRoundRecordedOnce

\* A review's countdown is a number of seconds, so a countdown task.
LEMMA CountdownRuns ==
  /\ ReviewSeconds # NotRunning
  /\ TimesTyped /\ ~TaskDue /\ countdown # NotRunning => countdown - 1 # NotRunning
BY Constants DEF ReviewSeconds, NotRunning, TimesTyped, TaskDue

\* A round ends out of a running round only, into its review or its scoring.
LEMMA EndOfRound ==
  ASSUME OneStageAtATime, is_playing, NEW forms_in, BeginResults(forms_in)
  PROVE  OneStageAtATime'
<1>1. ~is_playing' /\ ~stop_triggered' /\ ~game_over'
  BY DEF BeginResults, OneStageAtATime
<1>2. CASE LastRound /\ BeginFinalize
  BY <1>1, <1>2 DEF BeginFinalize, OneStageAtATime
<1>3. CASE /\ ~LastRound /\ results_phase_active' = TRUE
           /\ countdown' = ReviewSeconds
           /\ UNCHANGED <<scores, finalizing, uncredited>>
  BY <1>1, <1>3, CountdownRuns DEF OneStageAtATime
<1> QED BY <1>2, <1>3 DEF BeginResults

\* No step turns a stage on while another one is.
LEMMA StageStep == IInv /\ [Next]_vars => OneStageAtATime'
<1> SUFFICES ASSUME IInv, [Next]_vars PROVE OneStageAtATime'
  OBVIOUS
<1> USE DEF members, phase, tasks, closing, epoch, IInv
<1>1. CASE FreshRoom
  BY <1>1 DEF FreshRoom, OneStageAtATime
<1>2. ASSUME NEW p \in Players, Ready(p) PROVE OneStageAtATime'
  <2>1. ~is_playing /\ ~results_phase_active /\ ~finalizing /\ ~game_over
    BY <1>2, LobbyIsIdle DEF Ready, InLobby
  <2>2. UNCHANGED <<results_phase_active, game_over, finalizing, countdown, uncredited>>
    BY <1>2 DEF Ready
  <2>3. stop_triggered' => is_playing'
    BY <1>2, <2>1 DEF Ready, StartRound, OneStageAtATime
  <2> QED BY <2>1, <2>2, <2>3 DEF OneStageAtATime
<1>3. ASSUME NEW p \in Players, Stop(p) \/ Dissolve(p) PROVE OneStageAtATime'
  BY <1>3 DEF Stop, StopPhase, Dissolve, CancelResults, OneStageAtATime
<1>4. ASSUME NEW p \in Players, CreditNext(p) PROVE OneStageAtATime'
  BY <1>4 DEF CreditNext, OneStageAtATime
<1>5. ASSUME NEW h \in Players, NEW n \in RoundCounts, Restart(h, n)
      PROVE  OneStageAtATime'
  BY <1>5 DEF Restart, CancelResults, OneStageAtATime
<1>6. ASSUME NEW t \in timeouts, TimeoutFires(t) PROVE OneStageAtATime'
  BY <1>6 DEF TimeoutFires, StopPhase, OneStageAtATime
<1>7. ASSUME NEW forms_in, is_playing, BeginResults(forms_in)
      PROVE  OneStageAtATime'
  BY <1>7, EndOfRound
<1>8. CASE CountdownFires
  BY <1>8 DEF CountdownFires, BeginFinalize, OneStageAtATime
<1>9. CASE Conclude
  BY <1>9 DEF Conclude, StartRound, OneStageAtATime
<1>10. CASE Tick
  BY <1>10, CountdownRuns DEF Tick, OneStageAtATime, TypeOK
<1>11. CASE UNCHANGED <<is_playing, stop_triggered, results_phase_active,
                        game_over, countdown, closing>>
  BY <1>11 DEF OneStageAtATime
<1>12. is_playing \/ stop_triggered => is_playing
  BY DEF OneStageAtATime
<1> QED
  BY <1>1, <1>2, <1>3, <1>4, <1>5, <1>6, <1>7, <1>8, <1>9, <1>10, <1>11, <1>12
     DEF Next, OpenRoom, Join, Leave, RateLimitClose, Kick, KickDone,
         ReassignHost, NotReady, Answers, Configure, ForceEndFires, vars

-----------------------------------------------------------------------------
(* The record of the rounds                                                *)

\* Every step keeps the record in order: only the end of a scoring extends it,
\* with the number that is next, and only a new game clears it.
LEMMA RecordStep ==
  IInv /\ [Next]_vars => EveryRoundRecordedOnce' /\ LobbyHasNoRecord'
<1> SUFFICES ASSUME IInv, [Next]_vars
             PROVE  EveryRoundRecordedOnce' /\ LobbyHasNoRecord'
  OBVIOUS
<1> USE DEF members, phase, tasks, closing, epoch, IInv
<1> DEFINE Recorded == EveryRoundRecordedOnce /\ LobbyHasNoRecord
<1>a. /\ current_round \in Nat /\ max_rounds \in Nat \ {0}
      /\ round_history \in Seq(Nat) /\ Len(round_history) \in Nat
  BY Constants DEF TypeOK, RoundsTyped
<1>1. CASE FreshRoom
  BY <1>1 DEF FreshRoom, EveryRoundRecordedOnce, LobbyHasNoRecord
<1>2. ASSUME NEW p \in Players, Ready(p) PROVE Recorded'
  <2>1. CASE StartRound
    <3>1. current_round = 0 /\ round_history = <<>> /\ ~game_over
      BY <1>2, LobbyIsIdle DEF Ready, InLobby, LobbyHasNoRecord
    <3>2. UNCHANGED <<max_rounds, game_over, round_history>>
      BY <1>2, <2>1 DEF Ready
    <3>3. current_round' = 1
      BY <2>1, <3>1 DEF StartRound, NextRound
    <3> QED BY <1>a, <3>1, <3>2, <3>3 DEF EveryRoundRecordedOnce, LobbyHasNoRecord
  <2>2. CASE ~StartRound
    BY <1>2, <2>2 DEF Ready, EveryRoundRecordedOnce, LobbyHasNoRecord, LastRound
  <2> QED BY <2>1, <2>2
<1>3. ASSUME NEW p \in Players, Stop(p) \/ Dissolve(p) \/ CreditNext(p)
      PROVE  Recorded'
  BY <1>3 DEF Stop, Dissolve, CancelResults, CreditNext,
              EveryRoundRecordedOnce, LobbyHasNoRecord, LastRound
<1>4. ASSUME NEW h \in Players, NEW n \in RoundCounts, Configure(h, n)
      PROVE  Recorded'
  <2>1. ~is_playing /\ ~results_phase_active /\ ~finalizing /\ ~game_over
    BY <1>4, LobbyIsIdle DEF Configure
  <2> QED BY <1>4, <2>1 DEF Configure, EveryRoundRecordedOnce, LobbyHasNoRecord
<1>5. ASSUME NEW h \in Players, NEW n \in RoundCounts, Restart(h, n)
      PROVE  Recorded'
  BY <1>5 DEF Restart, CancelResults, OneStageAtATime, EveryRoundRecordedOnce, LobbyHasNoRecord
<1>6. ASSUME NEW t \in timeouts, TimeoutFires(t) PROVE Recorded'
  BY <1>6 DEF TimeoutFires, EveryRoundRecordedOnce, LobbyHasNoRecord, LastRound
<1>7. ASSUME NEW forms_in, is_playing, BeginResults(forms_in)
      PROVE  Recorded'
  BY <1>7 DEF BeginResults, OneStageAtATime, EveryRoundRecordedOnce, LobbyHasNoRecord
<1>8. CASE CountdownFires
  BY <1>8 DEF CountdownFires, OneStageAtATime, EveryRoundRecordedOnce, LobbyHasNoRecord
<1>9. CASE Conclude
  <2>1. /\ current_round = Len(round_history) + 1 /\ current_round <= max_rounds
        /\ finalizing /\ ~is_playing /\ ~results_phase_active /\ ~game_over
    BY <1>9 DEF Conclude, OneStageAtATime, EveryRoundRecordedOnce
  <2>2. /\ round_history' = Append(round_history, current_round)
        /\ Len(round_history') = current_round
        /\ max_rounds' = max_rounds
        /\ ~results_phase_active' /\ ~finalizing'
    BY <1>9, <1>a, <2>1 DEF Conclude
  <2>3. \A i \in DOMAIN round_history' : round_history'[i] = i
    BY <1>a, <2>1, <2>2 DEF EveryRoundRecordedOnce
  <2>4. CASE LastRound /\ game_over' /\ UNCHANGED <<is_playing, current_round>>
    BY <1>a, <2>1, <2>2, <2>3, <2>4 DEF EveryRoundRecordedOnce, LobbyHasNoRecord, LastRound
  <2>5. CASE ~LastRound /\ StartRound /\ UNCHANGED game_over
    <3>1. current_round' = current_round + 1 /\ current_round < max_rounds
      BY <1>a, <2>5 DEF StartRound, NextRound, LastRound
    <3> QED BY <1>a, <2>1, <2>2, <2>3, <2>5, <3>1 DEF EveryRoundRecordedOnce, LobbyHasNoRecord
  <2> QED BY <1>9, <2>4, <2>5 DEF Conclude
<1>10. CASE UNCHANGED <<phase, round_history, closing>>
  BY <1>10 DEF EveryRoundRecordedOnce, LobbyHasNoRecord, LastRound
<1>11. is_playing \/ stop_triggered => is_playing
  BY DEF OneStageAtATime
<1> QED
  BY <1>1, <1>2, <1>3, <1>4, <1>5, <1>6, <1>7, <1>8, <1>9, <1>10, <1>11
     DEF Next, OpenRoom, Join, Leave, RateLimitClose, Kick, KickDone,
         ReassignHost, NotReady, Answers, ForceEndFires, Tick, vars

-----------------------------------------------------------------------------
(* Members                                                                 *)

\* Nobody kicks the host, and no transfer goes to a player being kicked.
LEMMA HostStep == IInv /\ [Next]_vars => HostNotKicked'
<1> SUFFICES ASSUME IInv, [Next]_vars PROVE HostNotKicked'
  OBVIOUS
<1> USE DEF members, IInv, HostNotKicked
<1>1. CASE FreshRoom
  BY <1>1 DEF FreshRoom
<1>2. ASSUME NEW h \in Players, NEW p \in Players, Kick(h, p)
      PROVE  HostNotKicked'
  BY <1>2 DEF Kick
<1>3. ASSUME NEW p \in Players, KickDone(p) PROVE HostNotKicked'
  BY <1>3 DEF KickDone, BeginResults
<1>4. ASSUME NEW p \in Players, ReassignHost(p) PROVE HostNotKicked'
  BY <1>4 DEF ReassignHost
<1>5. CASE UNCHANGED <<host_name, kicked>>
  BY <1>5
<1> QED
  BY <1>1, <1>2, <1>3, <1>4, <1>5
     DEF Next, OpenRoom, Join, Leave, RateLimitClose, Ready, NotReady, Stop,
         Dissolve, CreditNext, Answers, Configure, Restart, TimeoutFires,
         ForceEndFires, CountdownFires, Conclude, Tick, BeginResults, vars

\* Only the last player's leaving empties a room, and leaves nothing behind.
LEMMA EmptyStep == IInv /\ [Next]_vars => EmptyIsFresh'
<1> SUFFICES ASSUME IInv, [Next]_vars, connections' = {} PROVE EmptyIsFresh'
  BY DEF EmptyIsFresh
<1> USE DEF members, phase, closing, epoch, IInv
<1>1. CASE connections # {}
  <2>1. ASSUME NEW h \in Players, NEW p \in Players, Kick(h, p) PROVE FALSE
    <3>1. h \in connections /\ p # h
      BY <2>1 DEF Kick, CanSend, HostNotKicked
    <3> QED BY <2>1, <3>1 DEF Kick
  <2>2. ~UNCHANGED connections
    BY <1>1
  <2>3. PICK p \in Players : OpenRoom(p) \/ Join(p) \/ Leave(p)
    BY <2>1, <2>2
       DEF Next, RateLimitClose, KickDone, ReassignHost, Ready, NotReady, Stop,
           Dissolve, CreditNext, Answers, Configure, Restart, TimeoutFires,
           ForceEndFires, CountdownFires, Conclude, Tick, BeginResults, vars
  <2>4. Leave(p)
    BY <2>3 DEF OpenRoom, Join
  <2> QED BY <2>4 DEF Leave, FreshRoom, EmptyIsFresh
<1>2. CASE connections = {}
  <2>1. \A p \in Players : ~CanSend(p)
    BY <1>2 DEF EmptyIsFresh, CanSend
  <2>2. ~is_playing /\ ~results_phase_active /\ ~finalizing
    BY <1>2 DEF EmptyIsFresh
  <2>3. UNCHANGED <<current_round, round_history, is_playing, game_over,
                    results_phase_active, finalizing, scores, kicked>>
    <3>1. (\E t \in timeouts : TimeoutFires(t)) \/ Tick \/ ForceEndFires
            \/ UNCHANGED vars
      BY <1>2, <2>1, <2>2
         DEF Next, OpenRoom, Join, Leave, RateLimitClose, Kick, KickDone,
             ReassignHost, Ready, NotReady, Stop, Dissolve, CreditNext,
             Answers, Configure, Restart, CountdownFires, Conclude, EmptyIsFresh
    <3> QED BY <2>2, <3>1 DEF TimeoutFires, Tick, ForceEndFires, vars
  <2> QED BY <1>2, <2>3 DEF EmptyIsFresh
<1> QED BY <1>1, <1>2

-----------------------------------------------------------------------------
(* The credits                                                             *)

\* When a finalisation starts, nobody's score exceeds the rounds on record,
\* so its first credit is nobody's second one.
LEMMA FirstCreditIsDue ==
  ASSUME IInv, BeginFinalize, ~finalizing, UNCHANGED round_history
  PROVE  NoDoubleCredit'
<1>1. PICK p \in connections : /\ scores' = SetScore(p, ScoreOf(p) + 1)
                               /\ uncredited' = connections \ {p}
  BY DEF BeginFinalize
<1>2. /\ p \in Players /\ ScoreOf(p) \in Nat /\ ScoreOf(p) + 1 \in Nat
      /\ Len(round_history) \in Nat
  BY <1>1, ScoreOfNat DEF IInv, TypeOK, MembersTyped, RoundsTyped
<1>3. ScoreOf(p) <= Len(round_history)
  BY <1>2, ScoreOfNat DEF IInv, TypeOK, NoDoubleCredit
<1>4. \A q \in DOMAIN scores : scores[q] \in Nat /\ scores[q] <= Len(round_history)
  BY <1>2 DEF IInv, TypeOK, ScoresTyped, NoDoubleCredit
<1>5. ASSUME NEW q \in DOMAIN scores'
      PROVE  scores'[q] <= Len(round_history') + IF finalizing' /\ q \notin uncredited' THEN 1 ELSE 0
  <2>1. CASE q = p
    <3>1. scores'[q] = ScoreOf(p) + 1
      BY <1>1, <1>2, <2>1, SetScoreTable DEF IInv, TypeOK
    <3>2. finalizing' /\ q \notin uncredited'
      BY <1>1, <2>1 DEF BeginFinalize
    <3> QED BY <1>2, <1>3, <3>1, <3>2
  <2>2. CASE q # p
    <3>1. q \in DOMAIN scores /\ scores'[q] = scores[q]
      BY <1>1, <1>2, <1>5, <2>2, SetScoreTable
    <3> QED BY <1>2, <1>4, <3>1
  <2> QED BY <2>1, <2>2
<1> QED BY <1>5 DEF NoDoubleCredit

\* No step credits a round to a player who has it already.
LEMMA CreditStep == IInv /\ [Next]_vars => NoDoubleCredit'
<1> SUFFICES ASSUME IInv, [Next]_vars PROVE NoDoubleCredit'
  OBVIOUS
<1> USE DEF members, phase, closing, epoch
<1>a. Len(round_history) \in Nat
  BY DEF IInv, TypeOK, RoundsTyped
<1>b. \A q \in DOMAIN scores : scores[q] \in Nat
  BY DEF IInv, TypeOK, ScoresTyped
<1>c. ScoresTyped
  BY DEF IInv, TypeOK
<1>1. ASSUME NEW p \in Players, OpenRoom(p) PROVE NoDoubleCredit'
  BY <1>1 DEF OpenRoom, FreshRoom, NoDoubleCredit
<1>2. ASSUME NEW p \in Players, Join(p) PROVE NoDoubleCredit'
  <2>1. \A q \in DOMAIN scores' :
          scores'[q] = IF q \in DOMAIN scores THEN scores[q] ELSE 0
    <3>1. scores' = SetScore(p, ScoreOf(p)) /\ ScoreOf(p) \in Nat
      BY <1>2, <1>c, ScoreOfNat DEF Join
    <3>2. /\ DOMAIN scores' = DOMAIN scores \cup {p}
          /\ scores'[p] = ScoreOf(p)
          /\ \A q \in DOMAIN scores : q # p => scores'[q] = scores[q]
      BY <3>1, SetScoreTable
    <3> QED BY <1>c, <3>2, ScoreOfNat
  <2> QED BY <1>2, <1>a, <2>1 DEF Join, IInv, NoDoubleCredit
<1>3. ASSUME NEW p \in Players, Leave(p) PROVE NoDoubleCredit'
  <2>1. CASE scores' = NoScores
    BY <2>1 DEF NoScores, NoDoubleCredit
  <2>2. CASE UNCHANGED <<scores, round_history, closing>>
    BY <2>2 DEF IInv, NoDoubleCredit
  <2> QED BY <1>3, <2>1, <2>2 DEF Leave
<1>4. ASSUME NEW h \in Players, NEW p \in Players, Kick(h, p)
      PROVE  NoDoubleCredit'
  <2>1. \A q \in DOMAIN scores' : q \in DOMAIN scores /\ scores'[q] = scores[q]
    BY <1>4 DEF Kick
  <2> QED BY <1>4, <2>1 DEF Kick, IInv, NoDoubleCredit
<1>5. ASSUME NEW h \in Players, NEW n \in RoundCounts, Restart(h, n)
      PROVE  NoDoubleCredit'
  <2>1. \A q \in DOMAIN scores' : scores'[q] = 0
    BY <1>5 DEF Restart
  <2>2. round_history' = <<>>
    BY <1>5 DEF Restart
  <2> QED BY <2>1, <2>2 DEF NoDoubleCredit
<1>6. ASSUME NEW forms_in, is_playing, BeginResults(forms_in)
      PROVE  NoDoubleCredit'
  <2>1. CASE BeginFinalize
    BY <1>6, <2>1, FirstCreditIsDue DEF BeginResults, IInv, OneStageAtATime
  <2>2. CASE UNCHANGED <<scores, finalizing, uncredited>>
    BY <1>6, <2>2 DEF BeginResults, IInv, NoDoubleCredit
  <2> QED BY <1>6, <2>1, <2>2 DEF BeginResults
<1>7. CASE CountdownFires
  BY <1>7, FirstCreditIsDue DEF CountdownFires, IInv, OneStageAtATime
<1>8. ASSUME NEW p \in Players, CreditNext(p) PROVE NoDoubleCredit'
  <2>1. /\ finalizing /\ p \in uncredited /\ finalizing'
        /\ scores' = SetScore(p, ScoreOf(p) + 1)
        /\ uncredited' = uncredited \ {p} /\ round_history' = round_history
    BY <1>8 DEF CreditNext, IInv, NoDoubleCredit
  <2>2. ScoreOf(p) <= Len(round_history)
    <3>1. p \in DOMAIN scores => scores[p] <= Len(round_history)
      BY <1>a, <1>b, <2>1 DEF IInv, NoDoubleCredit
    <3> QED BY <1>a, <1>c, <3>1, ScoreOfNat
  <2>3. ScoreOf(p) + 1 \in Nat
    BY <1>c, ScoreOfNat
  <2>4. /\ DOMAIN scores' = DOMAIN scores \cup {p}
        /\ scores'[p] = ScoreOf(p) + 1
        /\ \A q \in DOMAIN scores : q # p => scores'[q] = scores[q]
    BY <2>1, <2>3, SetScoreTable
  <2>5. ASSUME NEW q \in DOMAIN scores'
        PROVE  scores'[q] <= Len(round_history')
                 + IF finalizing' /\ q \notin uncredited' THEN 1 ELSE 0
    <3>1. CASE q = p
      <4>1. finalizing' /\ q \notin uncredited'
        BY <2>1, <3>1
      <4> QED BY <1>a, <1>c, <2>1, <2>2, <2>4, <3>1, <4>1, ScoreOfNat
    <3>2. CASE q # p
      <4>1. q \in DOMAIN scores /\ scores'[q] = scores[q]
        BY <2>4, <2>5, <3>2
      <4>2. q \in uncredited <=> q \in uncredited'
        BY <2>1, <3>2
      <4> QED BY <2>1, <4>1, <4>2 DEF IInv, NoDoubleCredit
    <3> QED BY <3>1, <3>2
  <2> QED BY <2>5 DEF NoDoubleCredit
<1>9. CASE Conclude
  <2>1. Len(round_history') = Len(round_history) + 1 /\ UNCHANGED scores
    BY <1>9 DEF Conclude, IInv, TypeOK, RoundsTyped
  <2> QED BY <1>a, <1>b, <2>1 DEF IInv, NoDoubleCredit
<1>10. CASE UNCHANGED <<scores, round_history, closing>>
  BY <1>10 DEF IInv, NoDoubleCredit
<1>11. is_playing \/ stop_triggered => is_playing
  BY DEF IInv, OneStageAtATime
<1> QED
  BY <1>1, <1>2, <1>3, <1>4, <1>5, <1>6, <1>7, <1>8, <1>9, <1>10, <1>11
     DEF Next, RateLimitClose, KickDone, ReassignHost, Ready, NotReady, Stop,
         Dissolve, Answers, Configure, TimeoutFires, ForceEndFires, Tick, vars

-----------------------------------------------------------------------------
\* A new server has no room: the invariant holds.
LEMMA InitIInv == Init => IInv
<1> SUFFICES ASSUME Init PROVE IInv
  OBVIOUS
<1>1. MembersTyped /\ FlagsTyped
  BY DEF Init, MembersTyped, FlagsTyped
<1>2. RoundsTyped /\ TimesTyped
  BY Constants DEF Init, RoundsTyped, TimesTyped
<1>3. ScoresTyped /\ NoDoubleCredit
  BY DEF Init, NoScores, ScoresTyped, NoDoubleCredit
<1>4. OneStageAtATime /\ EveryRoundRecordedOnce
  BY DEF Init, OneStageAtATime, EveryRoundRecordedOnce
<1>5. EmptyIsFresh /\ HostNotKicked /\ LobbyHasNoRecord
  BY DEF Init, EmptyIsFresh, HostNotKicked, LobbyHasNoRecord
<1> QED BY <1>1, <1>2, <1>3, <1>4, <1>5 DEF IInv, TypeOK

\* The inductive invariant holds in every reachable state.
THEOREM RoomInvariant == Spec => []IInv
<1>1. IInv /\ [Next]_vars => IInv'
  BY TypeStep, StageStep, RecordStep, CreditStep, EmptyStep, HostStep DEF IInv
<1> QED BY <1>1, InitIInv, PTL DEF Spec

\* The variables keep their types.
THEOREM TypeCorrect == Spec => []TypeOK
BY RoomInvariant, PTL DEF IInv

\* At most one of a game's four stages is ever on.
THEOREM StagesExclusive == Spec => []OneStageAtATime
BY RoomInvariant, PTL DEF IInv

\* Every round of every game goes on record once and in order.
THEOREM RoundsRecorded == Spec => []EveryRoundRecordedOnce
BY RoomInvariant, PTL DEF IInv

\* Nobody is ever credited a round twice.
THEOREM CreditedOnce == Spec => []NoDoubleCredit
BY RoomInvariant, PTL DEF IInv

\* An accepted form is not lost within its round, but for a kick.
THEOREM FormsKept == Spec => FormsKeptWithinRound
<1>1. IInv /\ [Next]_vars
        => [\A p \in filled : is_playing /\ is_playing' =>
              p \in filled' \/ p \in kicked']_vars
  <2> SUFFICES ASSUME IInv, Next, is_playing, is_playing', NEW p \in filled
               PROVE  p \in filled' \/ p \in kicked'
    BY DEF IInv
  <2> USE DEF members, phase, forms
  <2>1. ~FreshRoom /\ ~finalizing /\ current_round # 0
    BY LobbyIsIdle DEF FreshRoom, IInv, OneStageAtATime
  <2>2. \A forms_in : ~BeginResults(forms_in)
    BY DEF BeginResults
  <2>3. CASE UNCHANGED filled
    BY <2>3
  <2>4. ASSUME NEW q \in Players, Leave(q) PROVE UNCHANGED filled
    BY <2>1, <2>4 DEF Leave, LeaverForms
  <2>5. ASSUME NEW h \in Players, NEW q \in Players, Kick(h, q)
        PROVE  p \in filled' \/ p \in kicked'
    BY <2>5 DEF Kick
  <2>6. ASSUME NEW q \in Players, NEW given \in BOOLEAN, Answers(q, given)
        PROVE  p \in filled'
    BY <2>2, <2>6 DEF Answers
  <2>7. ASSUME NEW q \in Players,
               \/ OpenRoom(q) \/ Join(q) \/ RateLimitClose(q) \/ KickDone(q)
               \/ ReassignHost(q) \/ Ready(q) \/ NotReady(q) \/ Stop(q)
               \/ Dissolve(q) \/ CreditNext(q)
        PROVE  UNCHANGED filled
    BY <2>1, <2>2, <2>7
       DEF OpenRoom, Join, RateLimitClose, KickDone, ReassignHost, Ready,
           InLobby, NotReady, Stop, Dissolve, CreditNext
  <2>8. ASSUME NEW h \in Players, NEW n \in RoundCounts,
               Configure(h, n) \/ Restart(h, n)
        PROVE  UNCHANGED filled
    BY <2>8 DEF Configure, Restart
  <2>9. ASSUME NEW t \in timeouts, TimeoutFires(t) PROVE UNCHANGED filled
    BY <2>9 DEF TimeoutFires
  <2>10. ~CountdownFires /\ ~Conclude
    BY <2>1 DEF CountdownFires, Conclude, IInv, OneStageAtATime
  <2>11. ForceEndFires \/ Tick => UNCHANGED filled
    BY <2>2 DEF ForceEndFires, Tick
  <2> QED
    BY <2>3, <2>4, <2>5, <2>6, <2>7, <2>8, <2>9, <2>10, <2>11 DEF Next
<1> QED BY <1>1, RoomInvariant, PTL DEF Spec, FormsKeptWithinRound

-----------------------------------------------------------------------------
(* Room implements Game: under the reading GamePhase of its flags, every   *)
(* step of a room is a step of the abstract game or leaves it as it is.    *)

\* GamePhase spelled out: with flags that exclude one another, each of them
\* names the phase of a room that is not empty.
LEMMA PhaseNames ==
  ASSUME OneStageAtATime
  PROVE  /\ connections = {} => GamePhase = "none"
         /\ connections # {} =>
              /\ is_playing => GamePhase = "round"
              /\ results_phase_active => GamePhase = "review"
              /\ finalizing => GamePhase = "scoring"
              /\ game_over => GamePhase = "over"
              /\ ~is_playing /\ ~results_phase_active /\ ~finalizing /\ ~game_over
                   => GamePhase = IF current_round = 0 THEN "lobby" ELSE "abandoned"
BY DEF GamePhase, OneStageAtATime

\* The abstract game sees no more of a room than this.
LEMMA Unseen ==
  ASSUME connections = {} <=> connections' = {},
         UNCHANGED <<is_playing, results_phase_active, finalizing, game_over,
                     current_round, max_rounds, round_history>>
  PROVE  UNCHANGED TheGame!vars
BY DEF TheGame!vars, GamePhase

\* The end of a round is the abstract one: into the review, or after the last
\* round into the scoring.
LEMMA EndRoundRefined ==
  ASSUME IInv, OneStageAtATime', is_playing, connections # {},
         NEW forms_in, BeginResults(forms_in)
  PROVE  TheGame!EndRound
<1>1. GamePhase = "round"
  BY PhaseNames DEF IInv
<1>2. UNCHANGED <<connections, current_round, max_rounds, round_history, game_over>>
  BY DEF BeginResults
<1>3. current_round \in Nat /\ max_rounds \in Nat
  BY Constants DEF IInv, TypeOK, RoundsTyped
<1>4. GamePhase' = IF current_round < max_rounds THEN "review" ELSE "scoring"
  <2>1. CASE LastRound /\ BeginFinalize
    <3>1. finalizing' /\ ~is_playing' /\ connections' # {}
      BY <1>2, <2>1 DEF BeginResults, BeginFinalize
    <3>2. GamePhase' = "scoring"
      BY <3>1 DEF GamePhase
    <3> QED BY <1>3, <2>1, <3>2 DEF LastRound
  <2>2. CASE ~LastRound /\ results_phase_active' = TRUE /\ UNCHANGED finalizing
    <3>1. ~finalizing' /\ ~is_playing' /\ connections' # {}
      BY <1>2, <2>2 DEF BeginResults, IInv, OneStageAtATime
    <3>2. GamePhase' = "review"
      BY <2>2, <3>1 DEF GamePhase
    <3> QED BY <1>3, <2>2, <3>2 DEF LastRound
  <2> QED BY <2>1, <2>2 DEF BeginResults
<1> QED BY <1>1, <1>2, <1>4 DEF TheGame!EndRound

\* A round starts out of the lobby or out of the scoring of the one before.
LEMMA StartRoundPhase ==
  ASSUME StartRound, connections' # {}, ~finalizing'
  PROVE  GamePhase' = "round" /\ current_round' = current_round + 1
BY DEF StartRound, NextRound, GamePhase

\* Every step of a room is a step of the abstract game or leaves it as it is.
LEMMA RefinedStep ==
  IInv /\ IInv' /\ [Next]_vars => [TheGame!Next]_(TheGame!vars)
<1> SUFFICES ASSUME IInv, IInv', [Next]_vars
             PROVE  TheGame!Next \/ UNCHANGED TheGame!vars
  OBVIOUS
<1> USE DEF members, phase, closing, epoch
<1>a. OneStageAtATime /\ OneStageAtATime'
  BY DEF IInv
<1>1. ASSUME NEW p \in Players, OpenRoom(p) PROVE TheGame!Open
  <2>1. GamePhase = "none" /\ current_round = 0 /\ round_history = <<>>
    BY <1>1, <1>a, PhaseNames DEF OpenRoom, IInv, EmptyIsFresh
  <2>2. GamePhase' = "lobby"
    BY <1>1 DEF OpenRoom, FreshRoom, GamePhase
  <2> QED BY <1>1, <2>1, <2>2 DEF OpenRoom, FreshRoom, TheGame!Open
<1>2. ASSUME NEW p \in Players, Leave(p)
      PROVE  TheGame!Empty \/ UNCHANGED TheGame!vars
  <2>1. CASE connections' = {}
    <3>1. GamePhase # "none"
      BY <1>2 DEF Leave, GamePhase
    <3>2. GamePhase' = "none"
      BY <2>1 DEF GamePhase
    <3> QED BY <1>2, <2>1, <3>1, <3>2 DEF Leave, FreshRoom, TheGame!Empty
  <2>2. CASE connections' # {}
    BY <1>2, <2>2, Unseen DEF Leave
  <2> QED BY <2>1, <2>2
<1>3. CASE connections = {} /\ ~\E p \in Players : OpenRoom(p)
  <2>1. \A p \in Players : ~CanSend(p)
    BY <1>3 DEF IInv, EmptyIsFresh, CanSend
  <2>2. ~is_playing /\ ~results_phase_active /\ ~finalizing
    BY <1>3 DEF IInv, EmptyIsFresh
  <2>3. (\E t \in timeouts : TimeoutFires(t)) \/ Tick \/ ForceEndFires
          \/ UNCHANGED vars
    BY <1>3, <2>1, <2>2
       DEF Next, Join, Leave, RateLimitClose, Kick, KickDone, ReassignHost,
           Ready, NotReady, Stop, Dissolve, CreditNext, Answers, Configure,
           Restart, CountdownFires, Conclude, IInv, EmptyIsFresh
  <2> QED BY <2>2, <2>3, Unseen DEF TimeoutFires, Tick, ForceEndFires, vars
<1>4. CASE connections # {}
  <2>1. ASSUME NEW p \in Players, Ready(p)
        PROVE  TheGame!Start \/ UNCHANGED TheGame!vars
    <3>1. GamePhase = "lobby" /\ current_round = 0 /\ ~finalizing
      BY <1>4, <1>a, <2>1, PhaseNames, LobbyIsIdle DEF Ready, InLobby
    <3>2. CASE StartRound
      <4>1. GamePhase' = "round" /\ current_round' = 1
        BY <1>4, <2>1, <3>1, <3>2, StartRoundPhase DEF Ready
      <4> QED BY <2>1, <3>1, <3>2, <4>1 DEF Ready, TheGame!Start
    <3>3. CASE ~StartRound
      BY <2>1, <3>3, Unseen DEF Ready
    <3> QED BY <3>2, <3>3
  <2>2. ASSUME NEW h \in Players, Dissolve(h)
        PROVE  TheGame!Abandon \/ UNCHANGED TheGame!vars
    <3>1. CASE results_phase_active
      <4>1. GamePhase = "review" /\ current_round # 0
        BY <1>4, <1>a, <3>1, PhaseNames, LobbyIsIdle
      <4>2. ~is_playing' /\ ~finalizing' /\ ~results_phase_active' /\ ~game_over'
        BY <1>a, <2>2, <3>1 DEF Dissolve, CancelResults, OneStageAtATime
      <4>3. GamePhase' = "abandoned"
        BY <1>4, <2>2, <4>1, <4>2 DEF Dissolve, GamePhase
      <4> QED BY <2>2, <4>1, <4>3 DEF Dissolve, TheGame!Abandon
    <3>2. CASE ~results_phase_active
      <4>1. UNCHANGED results_phase_active
        BY <2>2, <3>2 DEF Dissolve, CancelResults, IInv, TypeOK, FlagsTyped
      <4> QED BY <2>2, <4>1, Unseen DEF Dissolve
    <3> QED BY <3>1, <3>2
  <2>3. ASSUME NEW h \in Players, NEW n \in RoundCounts, Configure(h, n)
        PROVE  TheGame!Configure
    <3>1. GamePhase = "lobby"
      BY <1>4, <1>a, <2>3, PhaseNames, LobbyIsIdle DEF Configure
    <3>2. GamePhase' = GamePhase
      BY <2>3 DEF Configure, GamePhase
    <3> QED BY <2>3, <3>1, <3>2 DEF Configure, TheGame!Configure
  <2>4. ASSUME NEW h \in Players, NEW n \in RoundCounts, Restart(h, n)
        PROVE  TheGame!PlayAgain
    <3>1. GamePhase = "over" /\ ~finalizing
      BY <1>4, <1>a, <2>4, PhaseNames DEF Restart, OneStageAtATime
    <3>2. GamePhase' = "lobby"
      BY <1>4, <2>4, <3>1 DEF Restart, CancelResults, GamePhase
    <3> QED BY <2>4, <3>1, <3>2 DEF Restart, TheGame!PlayAgain
  <2>5. ASSUME NEW forms_in, is_playing, BeginResults(forms_in)
        PROVE  TheGame!EndRound
    BY <1>4, <1>a, <2>5, EndRoundRefined
  <2>6. CASE CountdownFires
    <3>1. GamePhase = "review"
      BY <1>4, <1>a, <2>6, PhaseNames DEF CountdownFires
    <3>2. GamePhase' = "scoring"
      BY <1>4, <2>6 DEF CountdownFires, BeginFinalize, GamePhase
    <3> QED BY <2>6, <3>1, <3>2 DEF CountdownFires, TheGame!EndReview, TheGame!Next
  <2>7. CASE Conclude
    <3>1. GamePhase = "scoring" /\ ~is_playing /\ ~results_phase_active
      BY <1>4, <1>a, <2>7, PhaseNames DEF Conclude, OneStageAtATime
    <3>2. /\ connections' # {} /\ ~finalizing' /\ max_rounds' = max_rounds
          /\ ~results_phase_active'
      BY <1>4, <2>7, <3>1 DEF Conclude
    <3>3. Len(round_history') = Len(round_history) + 1
      BY <2>7 DEF Conclude, IInv, TypeOK, RoundsTyped
    <3>4. current_round \in Nat /\ max_rounds \in Nat
      BY Constants DEF IInv, TypeOK, RoundsTyped
    <3>5. CASE LastRound /\ game_over' /\ UNCHANGED <<is_playing, current_round>>
      <4>1. GamePhase' = "over"
        BY <3>1, <3>2, <3>5 DEF GamePhase
      <4> QED BY <3>1, <3>2, <3>3, <3>4, <3>5, <4>1 DEF LastRound, TheGame!Record, TheGame!Next
    <3>6. CASE ~LastRound /\ StartRound
      <4>1. GamePhase' = "round" /\ current_round' = current_round + 1
        BY <3>2, <3>6, StartRoundPhase
      <4> QED BY <3>1, <3>2, <3>3, <3>4, <3>6, <4>1 DEF LastRound, TheGame!Record, TheGame!Next
    <3> QED BY <2>7, <3>5, <3>6 DEF Conclude
  <2>8. CASE /\ connections' # {}
             /\ UNCHANGED <<is_playing, results_phase_active, finalizing, game_over,
                            current_round, max_rounds, round_history>>
    BY <1>4, <2>8, Unseen
  <2>9. is_playing \/ stop_triggered => is_playing
    BY <1>a DEF OneStageAtATime
  <2>10. ASSUME NEW p \in Players,
                \/ Join(p) \/ RateLimitClose(p) \/ ReassignHost(p) \/ NotReady(p)
                \/ Stop(p) \/ CreditNext(p)
         PROVE  UNCHANGED TheGame!vars
    BY <1>4, <2>10, Unseen
       DEF Join, RateLimitClose, ReassignHost, NotReady, Stop, CreditNext
  <2>11. ASSUME NEW h \in Players, NEW p \in Players, Kick(h, p)
         PROVE  UNCHANGED TheGame!vars
    <3>1. h \in connections /\ p # h
      BY <2>11 DEF Kick, CanSend, IInv, HostNotKicked
    <3> QED BY <2>11, <3>1, Unseen DEF Kick
  <2>12. ASSUME NEW p \in Players, KickDone(p)
         PROVE  TheGame!EndRound \/ UNCHANGED TheGame!vars
    BY <2>5, <2>12, Unseen DEF KickDone
  <2>13. ASSUME NEW p \in Players, NEW given \in BOOLEAN, Answers(p, given)
         PROVE  TheGame!EndRound \/ UNCHANGED TheGame!vars
    BY <2>5, <2>9, <2>13, Unseen DEF Answers
  <2>14. ASSUME NEW t \in timeouts, TimeoutFires(t) PROVE UNCHANGED TheGame!vars
    BY <2>14, Unseen DEF TimeoutFires
  <2>15. CASE ForceEndFires
    BY <2>5, <2>15, Unseen DEF ForceEndFires, TheGame!Next
  <2>16. CASE Tick \/ UNCHANGED vars
    BY <2>16, Unseen DEF Tick, vars
  <2> QED
    BY <1>1, <1>2, <2>1, <2>2, <2>3, <2>4, <2>6, <2>7, <2>10, <2>11, <2>12,
       <2>13, <2>14, <2>15, <2>16 DEF Next, TheGame!Next
<1> QED BY <1>1, <1>3, <1>4 DEF TheGame!Next

\* A room plays the abstract game: whatever the players and the timers do, the
\* rounds are played, reviewed, scored and recorded in the order module Game
\* prescribes, and no game is left but by an empty or a dissolved room.
THEOREM RoomImplementsGame == Spec => ImplementsGame
<1>1. Init => TheGame!Init
  BY DEF Init, TheGame!Init, GamePhase
<1> QED BY <1>1, RefinedStep, RoomInvariant, PTL DEF Spec, ImplementsGame, TheGame!Spec

-----------------------------------------------------------------------------
(* Timing: in the first game under a room's id no left-over task cuts a    *)
(* round or its stop phase short (FirstGameOnTime), as long as a review    *)
(* lasts longer than a stop phase (ReviewOutlastsStop).                    *)
(*                                                                         *)
(* Nothing cancels a round timeout or a forced end; the argument is one of *)
(* timing.  A timeout carries the number of its round, and the numbers of  *)
(* one game grow.  A forced end carries nothing, but it is asleep for      *)
(* StopWindow seconds at most, and after the round it was created in there *)
(* comes a review of more seconds, or the end of the game.                 *)

\* A timeout belongs to the current round or to an earlier one.
TimeoutsAreOfThisGame == \A t \in timeouts : t.round <= current_round

\* The timeout of the round being played runs against the round's clock.
TimeoutKeepsTime ==
  is_playing =>
    \A t \in timeouts : t.round = current_round =>
      t.left + round_age = RoundTimeout \/ round_age = TIME_LIMIT

\* No forced end is asleep when it could meet a round it was not created in.
NoForcedEndAhead ==
  (\/ current_round = 0
   \/ is_playing /\ ~stop_triggered
   \/ finalizing /\ ~LastRound)
     => force_ends = {}

\* In a stop phase it wakes up after the submit window, and in a review before
\* the countdown.
ForcedEndInTime ==
  \A left \in force_ends :
    /\ stop_triggered => submit_left <= left
    /\ results_phase_active => left < countdown

\* Before the first room is opened there are no tasks.
NoTaskBeforeGames ==
  games = 0 => connections = {} /\ timeouts = {} /\ force_ends = {}

FirstGame ==
  games <= 1 /\ connections # {} =>
    /\ TimeoutsAreOfThisGame /\ TimeoutKeepsTime
    /\ NoForcedEndAhead /\ ForcedEndInTime

TInv == NoTaskBeforeGames /\ FirstGame

-----------------------------------------------------------------------------
\* The invariant says what is wanted of the tasks that are due.
LEMMA TInvSuffices == IInv /\ TInv => FirstGameOnTime
<1> SUFFICES ASSUME IInv, TInv, games <= 1
             PROVE  ForceEndAfterSubmitTime /\ TimeoutWhenTimeIsUp
  BY DEF FirstGameOnTime
<1>1. CASE connections = {}
  BY <1>1 DEF IInv, EmptyIsFresh, ForceEndAfterSubmitTime, TimeoutWhenTimeIsUp
<1>2. CASE connections # {}
  <2>1. TimesTyped /\ TIME_LIMIT \in Nat /\ TIME_LIMIT <= RoundTimeout /\ RoundTimeout \in Nat
    BY Constants DEF IInv, TypeOK
  <2>2. ForceEndAfterSubmitTime
    BY <1>2, <2>1, Constants DEF TInv, FirstGame, ForcedEndInTime, ForceEndAfterSubmitTime, TimesTyped
  <2>3. TimeoutWhenTimeIsUp
    BY <1>2, <2>1 DEF TInv, FirstGame, TimeoutKeepsTime, TimeoutWhenTimeIsUp, TimesTyped
  <2> QED BY <2>2, <2>3
<1> QED BY <1>1, <1>2

\* A round starts with a clock at 0 and a timeout of its own.
LEMMA StartRoundOnTime ==
  ASSUME IInv, TimeoutsAreOfThisGame, StartRound
  PROVE  TimeoutsAreOfThisGame' /\ TimeoutKeepsTime'
<1>1. current_round \in Nat /\ current_round' = current_round + 1
  BY DEF IInv, TypeOK, RoundsTyped, StartRound, NextRound
<1>2. \A t \in timeouts' :
        \/ t \in timeouts
        \/ t.round = current_round + 1 /\ t.left = RoundTimeout
  BY DEF StartRound, NextRound
<1>3. \A t \in timeouts : t.round \in Nat /\ t.round <= current_round
  BY DEF IInv, TypeOK, TimesTyped, TimeoutsAreOfThisGame
<1>4. round_age' = 0 /\ RoundTimeout \in Nat
  BY Constants DEF StartRound
<1>5. TimeoutsAreOfThisGame'
  BY <1>1, <1>2, <1>3 DEF TimeoutsAreOfThisGame
<1>6. TimeoutKeepsTime'
  BY <1>1, <1>2, <1>3, <1>4 DEF TimeoutKeepsTime
<1> QED BY <1>5, <1>6

\* The end of a round leaves no forced end that outlasts the review.
LEMMA EndRoundOnTime ==
  ASSUME IInv, TInv, games <= 1, connections # {}, is_playing,
         NEW forms_in, BeginResults(forms_in), force_ends' \subseteq force_ends
  PROVE  TInv'
<1>1. NoTaskBeforeGames'
  BY DEF TInv, NoTaskBeforeGames, BeginResults
<1>2. /\ ~is_playing' /\ ~stop_triggered' /\ UNCHANGED <<timeouts, current_round, max_rounds>>
      /\ current_round # 0
  BY LobbyIsIdle DEF BeginResults
<1>3. TimeoutsAreOfThisGame' /\ TimeoutKeepsTime'
  BY <1>2 DEF TInv, FirstGame, TimeoutsAreOfThisGame, TimeoutKeepsTime
<1>4. NoForcedEndAhead'
  <2>1. ~finalizing' \/ LastRound'
    BY <1>2 DEF BeginResults, BeginFinalize, IInv, OneStageAtATime, LastRound
  <2> QED BY <1>2, <2>1 DEF NoForcedEndAhead
<1>5. ForcedEndInTime'
  <2>1. results_phase_active' => countdown' = RESULTS_PHASE_SECONDS
    BY DEF BeginResults, BeginFinalize, ReviewSeconds
  <2>2. \A left \in force_ends' : left \in Nat /\ left <= StopWindow
    BY Constants DEF IInv, TypeOK, TimesTyped
  <2> QED BY <1>2, <2>1, <2>2, Constants DEF ForcedEndInTime
<1> QED BY <1>1, <1>3, <1>4, <1>5 DEF TInv, FirstGame

\* Every step of the first game keeps its tasks in time.
LEMMA TimeStep == IInv /\ IInv' /\ TInv /\ [Next]_vars => TInv'
<1> SUFFICES ASSUME IInv, IInv', TInv, [Next]_vars PROVE TInv'
  OBVIOUS
<1> USE DEF members, phase, forms, clocks, tasks, closing, epoch
<1> DEFINE Sound == /\ TimeoutsAreOfThisGame /\ TimeoutKeepsTime
                    /\ NoForcedEndAhead /\ ForcedEndInTime
<1>1. NoTaskBeforeGames'
  <2>1. ASSUME NEW p \in Players, OpenRoom(p) PROVE NoTaskBeforeGames'
    BY <2>1 DEF OpenRoom, NoTaskBeforeGames, IInv, TypeOK, RoundsTyped
  <2>2. CASE games = 0
    <3>1. \A p \in Players : ~CanSend(p)
      BY <2>2 DEF TInv, NoTaskBeforeGames, IInv, EmptyIsFresh, CanSend
    <3> QED
      BY <2>1, <2>2, <3>1
         DEF TInv, NoTaskBeforeGames, IInv, EmptyIsFresh, Next, Join, Leave,
             RateLimitClose, Kick, KickDone, ReassignHost, Ready, NotReady, Stop,
             Dissolve, CreditNext, Answers, Configure, Restart, TimeoutFires,
             ForceEndFires, CountdownFires, Conclude, Tick, vars
  <2>3. CASE games # 0
    <3>1. games' \in {games, games + 1}
      BY DEF Next, OpenRoom, Join, Leave,
             RateLimitClose, Kick, KickDone, ReassignHost, Ready, NotReady, Stop,
             Dissolve, CreditNext, Answers, Configure, Restart, TimeoutFires,
             ForceEndFires, CountdownFires, Conclude, Tick, BeginResults, vars
    <3> QED BY <2>3, <3>1 DEF NoTaskBeforeGames, IInv, TypeOK, RoundsTyped
  <2> QED BY <2>2, <2>3
<1>2. ASSUME games' <= 1, connections' # {}
      PROVE  Sound'
  <2>1. ASSUME NEW p \in Players, OpenRoom(p) PROVE Sound'
    <3>1. games = 0
      BY <1>2, <2>1 DEF OpenRoom, IInv, TypeOK, RoundsTyped
    <3>2. timeouts' = {} /\ force_ends' = {}
      BY <2>1, <3>1 DEF OpenRoom, FreshRoom, TInv, NoTaskBeforeGames
    <3> QED BY <3>2 DEF TimeoutsAreOfThisGame, TimeoutKeepsTime, NoForcedEndAhead, ForcedEndInTime
  <2>2. CASE connections = {}
    <3>1. \A p \in Players : ~CanSend(p)
      BY <2>2 DEF IInv, EmptyIsFresh, CanSend
    <3> QED
      BY <1>2, <2>1, <2>2, <3>1
         DEF IInv, EmptyIsFresh, Next, Join, Leave,
             RateLimitClose, Kick, KickDone, ReassignHost, Ready, NotReady, Stop,
             Dissolve, CreditNext, Answers, Configure, Restart, TimeoutFires,
             ForceEndFires, CountdownFires, Conclude, Tick, BeginResults, vars
  <2>3. CASE connections # {}
    <3>1. games \in Nat /\ games # 0
      BY <2>3 DEF IInv, TypeOK, RoundsTyped, TInv, NoTaskBeforeGames
    <3>2. games' \in {games, games + 1}
      BY DEF Next, OpenRoom, Join, Leave,
             RateLimitClose, Kick, KickDone, ReassignHost, Ready, NotReady, Stop,
             Dissolve, CreditNext, Answers, Configure, Restart, TimeoutFires,
             ForceEndFires, CountdownFires, Conclude, Tick, BeginResults, vars
    <3>3. games <= 1 /\ games' = games
      BY <1>2, <3>1, <3>2
    <3>4. Sound
      BY <2>3, <3>3 DEF TInv, FirstGame
    <3>5. ASSUME NEW p \in Players, Ready(p) PROVE Sound'
      <4>1. CASE StartRound
        <5>1. force_ends' = {} 
          BY <3>4, <3>5, <4>1 DEF Ready, InLobby, StartRound, NoForcedEndAhead
        <5> QED BY <3>4, <4>1, <5>1, StartRoundOnTime DEF NoForcedEndAhead, ForcedEndInTime
      <4>2. CASE ~StartRound
        BY <3>4, <3>5, <4>2
           DEF Ready, TimeoutsAreOfThisGame, TimeoutKeepsTime, NoForcedEndAhead, ForcedEndInTime, LastRound
      <4> QED BY <4>1, <4>2
    <3>6. CASE StopPhase /\ is_playing /\ ~stop_triggered
               /\ UNCHANGED <<current_round, is_playing, max_rounds, round_age, results_phase_active, finalizing, countdown>>
               /\ timeouts' \subseteq timeouts
      <4>1. current_round # 0 /\ ~results_phase_active /\ ~finalizing
        BY <3>6, LobbyIsIdle DEF IInv, OneStageAtATime
      <4>2. TimeoutsAreOfThisGame' /\ TimeoutKeepsTime'
        BY <3>4, <3>6 DEF TimeoutsAreOfThisGame, TimeoutKeepsTime
      <4>3. force_ends = {}
        BY <3>4, <3>6 DEF NoForcedEndAhead
      <4>4. NoForcedEndAhead' 
        BY <3>6, <4>1 DEF NoForcedEndAhead, StopPhase
      <4>5. ForcedEndInTime'
        BY <3>6, <4>1, <4>3, Constants DEF ForcedEndInTime, StopPhase
      <4> QED BY <4>2, <4>4, <4>5
    <3>7. ASSUME NEW p \in Players, Dissolve(p) PROVE Sound'
      BY <3>4, <3>7
         DEF Dissolve, CancelResults, TimeoutsAreOfThisGame, TimeoutKeepsTime,
             NoForcedEndAhead, ForcedEndInTime, LastRound
    <3>8. ASSUME NEW h \in Players, NEW n \in RoundCounts, Configure(h, n) PROVE Sound'
      <4>1. ~finalizing
        BY <3>8, LobbyIsIdle DEF Configure
      <4> QED BY <3>4, <3>8, <4>1
         DEF Configure, TimeoutsAreOfThisGame, TimeoutKeepsTime,
             NoForcedEndAhead, ForcedEndInTime
    <3>9. ASSUME NEW forms_in, is_playing, BeginResults(forms_in),
                 force_ends' \subseteq force_ends
          PROVE  Sound'
      BY <1>2, <2>3, <3>3, <3>9, EndRoundOnTime DEF TInv, FirstGame
    <3>10. CASE CountdownFires
      <4>1. force_ends = {}
        BY <3>4, <3>10 DEF CountdownFires, ForcedEndInTime, IInv, TypeOK, TimesTyped
      <4>2. force_ends' = {}
        BY <3>10, <4>1 DEF CountdownFires
      <4> QED BY <3>4, <3>10, <4>2
         DEF CountdownFires, TimeoutsAreOfThisGame, TimeoutKeepsTime,
             NoForcedEndAhead, ForcedEndInTime
    <3>11. CASE Conclude
      <4>1. CASE StartRound /\ ~LastRound
        <5>1. force_ends' = {}
          BY <3>4, <3>11, <4>1 DEF Conclude, NoForcedEndAhead
        <5> QED BY <3>4, <4>1, <5>1, StartRoundOnTime DEF NoForcedEndAhead, ForcedEndInTime
      <4>2. CASE LastRound /\ UNCHANGED <<is_playing, stop_triggered, current_round, clocks, timeouts>>
        BY <3>4, <3>11, <4>2
           DEF Conclude, TimeoutsAreOfThisGame, TimeoutKeepsTime, NoForcedEndAhead, ForcedEndInTime
      <4> QED BY <3>11, <4>1, <4>2 DEF Conclude
    <3>12. CASE Tick
      <4>1. /\ TIME_LIMIT \in Nat /\ round_age \in 0..TIME_LIMIT
            /\ STOP_SUBMIT_SECONDS \in Nat /\ submit_left \in 0..STOP_SUBMIT_SECONDS
            /\ RoundTimeout \in Nat /\ StopWindow \in Nat
        BY Constants DEF IInv, TypeOK, TimesTyped
      <4>2. \A t \in timeouts' : \E u \in timeouts :
              t.round = u.round /\ t.left = u.left - 1 /\ u.left \in Nat
        BY <3>12, <4>1 DEF Tick, IInv, TypeOK, TimesTyped
      <4>3. TimeoutsAreOfThisGame'
        BY <3>4, <3>12, <4>2 DEF Tick, TimeoutsAreOfThisGame
      <4>4. TimeoutKeepsTime'
        <5>1. round_age' = IF is_playing /\ round_age < TIME_LIMIT
                           THEN round_age + 1 ELSE round_age
          BY <3>12 DEF Tick
        <5>2. UNCHANGED <<is_playing, current_round>>
          BY <3>12 DEF Tick
        <5> QED BY <3>4, <4>1, <4>2, <5>1, <5>2 DEF TimeoutKeepsTime
      <4>5. force_ends' = {left - 1 : left \in force_ends}
        BY <3>12 DEF Tick
      <4>6. NoForcedEndAhead'
        BY <3>4, <3>12, <4>5 DEF Tick, NoForcedEndAhead, LastRound
      <4>7. ForcedEndInTime'
        <5>1. \A left \in force_ends : left \in Nat /\ left # 0
          BY <3>12, <4>1 DEF Tick, TaskDue, IInv, TypeOK, TimesTyped
        <5>2. results_phase_active => countdown \in Nat /\ countdown' = countdown - 1
          BY <3>12, Constants DEF Tick, IInv, OneStageAtATime, TypeOK, TimesTyped
        <5>3. submit_left' = IF submit_left > 0 THEN submit_left - 1 ELSE 0
          BY <3>12 DEF Tick
        <5>4. UNCHANGED <<stop_triggered, results_phase_active>>
          BY <3>12 DEF Tick
        <5> QED BY <3>4, <4>1, <4>5, <5>1, <5>2, <5>3, <5>4 DEF ForcedEndInTime
      <4> QED BY <4>3, <4>4, <4>6, <4>7
    <3>13. CASE /\ UNCHANGED <<current_round, is_playing, stop_triggered, max_rounds, clocks, results_phase_active, finalizing, countdown>>
                /\ timeouts' \subseteq timeouts /\ force_ends' \subseteq force_ends
      BY <3>4, <3>13 DEF TimeoutsAreOfThisGame, TimeoutKeepsTime, NoForcedEndAhead, ForcedEndInTime, LastRound
    <3>14. is_playing \/ stop_triggered => is_playing
      BY DEF IInv, OneStageAtATime
    <3>15. ASSUME NEW h \in Players, NEW n \in RoundCounts, Restart(h, n) PROVE FALSE
      BY <3>1, <3>3, <3>15 DEF Restart
    <3>16. ASSUME NEW p \in Players,
                  \/ Join(p) \/ Leave(p) \/ RateLimitClose(p) \/ ReassignHost(p)
                  \/ NotReady(p) \/ CreditNext(p)
           PROVE  Sound'
      BY <1>2, <2>3, <3>13, <3>16
         DEF Join, Leave, RateLimitClose, ReassignHost, NotReady, CreditNext
    <3>17. ASSUME NEW p \in Players, Stop(p) \/ KickDone(p) PROVE Sound'
      BY <3>6, <3>9, <3>13, <3>17 DEF Stop, KickDone
    <3>18. ASSUME NEW h \in Players, NEW p \in Players, Kick(h, p) PROVE Sound'
      BY <3>13, <3>18 DEF Kick
    <3>19. ASSUME NEW p \in Players, NEW given \in BOOLEAN, Answers(p, given)
           PROVE  Sound'
      BY <3>9, <3>13, <3>14, <3>19 DEF Answers
    <3>20. ASSUME NEW t \in timeouts, TimeoutFires(t) PROVE Sound'
      BY <3>6, <3>13, <3>20 DEF TimeoutFires
    <3>21. CASE ForceEndFires
      BY <3>9, <3>13, <3>21 DEF ForceEndFires
    <3>22. CASE UNCHANGED vars
      BY <3>13, <3>22 DEF vars
    <3> QED
      BY <2>1, <3>5, <3>7, <3>8, <3>10, <3>11, <3>12, <3>15, <3>16, <3>17,
         <3>18, <3>19, <3>20, <3>21, <3>22 DEF Next
  <2> QED BY <2>2, <2>3
<1> QED BY <1>1, <1>2 DEF TInv, FirstGame

\* In the first game under a room's id every forced end comes after the submit
\* window, and every round timeout that acts comes when the time is used up.
THEOREM FirstGameKeepsTime == Spec => []FirstGameOnTime
<1>1. Init => TInv
  BY DEF Init, TInv, NoTaskBeforeGames, FirstGame
<1>2. IInv /\ IInv' /\ TInv /\ [Next]_vars => TInv'
  BY TimeStep
<1> QED BY <1>1, <1>2, RoomInvariant, TInvSuffices, PTL DEF Spec
=============================================================================
