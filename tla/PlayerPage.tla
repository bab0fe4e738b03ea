----------------------------- MODULE PlayerPage -----------------------------
(***************************************************************************)
(* One player's page (static/js/socket.js, static/js/game.js) and what the *)
(* room does for that player: who hands in a form, when, over a socket     *)
(* that may be lost and opened again.                                      *)
(*                                                                         *)
(* The page is one thread: a message or a timer runs to its end.  The      *)
(* socket keeps the order of messages; each takes at most Lag.  The other  *)
(* players are choices: they may stop a round at any time (as the round's  *)
(* own timeout does) and have all handed in at any time.                   *)
(*                                                                         *)
(* Time passes by Tick, in units short enough to tell Lag from the grace   *)
(* period; a Tick waits for every timer and message that is due.  A page   *)
(* in the background, whose timers the browser slows down, is left out,    *)
(* and so is a page that goes home or is sent there.                       *)
(***************************************************************************)
EXTENDS Integers, Sequences

CONSTANTS
  STOP_SUBMIT_SECONDS,        \* the page's countdown after STOP, 10 s
  STOP_SUBMIT_GRACE_SECONDS,  \* what the server waits beyond it, 1 s
  RESULTS_PHASE_SECONDS,      \* the review, 30 s
  Reveal,                     \* countdown 3-2-1 and letter lottery, 6 s
  Retry,                      \* from a lost socket to connect(), 3 s
  Lag,                        \* the longest a message travels
  MaxRounds,                  \* max_rounds
  MaxLosses                   \* bound: sockets lost or refused

ASSUME PageAssumption ==
  /\ {STOP_SUBMIT_SECONDS, STOP_SUBMIT_GRACE_SECONDS, RESULTS_PHASE_SECONDS,
      Reveal, Retry, MaxRounds} \subseteq Nat \ {0}
  /\ Lag \in Nat /\ MaxLosses \in Nat
  /\ 2 * Lag < STOP_SUBMIT_GRACE_SECONDS
  /\ Reveal < STOP_SUBMIT_SECONDS
  /\ STOP_SUBMIT_SECONDS + STOP_SUBMIT_GRACE_SECONDS < RESULTS_PHASE_SECONDS

VARIABLES
  link,        \* the page's socket: "open", "connecting" or "down"
  retry,       \* setTimeout(connect) of onclose
  reveal,      \* the running start animation
  countdown,   \* currentCountdown
  enabled,     \* the inputs of #categories are not disabled
  values,      \* the letter's round the inputs are filled for, or Blank
  letter,      \* currentLetter: the round of the last round_started
  shown,       \* the round whose letter the player sees
  down, up,    \* messages on the socket to the page and to the server
  phase,       \* of the room: "lobby", "playing", "stopped", "review", "over"
  round,       \* current_round
  end_in,      \* force_end_round's sleep
  review_in,   \* _results_phase_countdown's sleep
  registered,  \* the player is in room.connections
  form,        \* the player's entry of answers_received
  mishaps,     \* history: what has gone wrong on this page in this round
  losses       \* sockets lost or refused so far

page   == <<retry, reveal, countdown, enabled, values, letter, shown>>
wires  == <<link, down, up>>
room   == <<phase, round, end_in, review_in, registered, form>>
ghosts == <<mishaps, losses>>
vars   == <<page, wires, room, ghosts>>

\* The mishaps: a start animation that ends under a countdown, or after a resume
\* has shown the letter; a form handed in while a resume was on its way; STOP pressed with the words of an
\* earlier round in the inputs, or of one that is over.
LateReveal == "late reveal"
Crossed == "crossed"
OldWords == "old words"

NoTimer == -1
Missing == -1    \* no entry; also the form {} the page sends with no input open
Blank   == 0     \* a form of empty words

Init ==
  /\ link = "open" /\ retry = NoTimer /\ reveal = NoTimer /\ countdown = NoTimer
  /\ enabled = FALSE /\ values = Blank /\ letter = 0 /\ shown = 0
  /\ down = <<>> /\ up = <<>>
  /\ phase = "lobby" /\ round = 0 /\ end_in = NoTimer /\ review_in = NoTimer
  /\ registered = TRUE /\ form = Missing
  /\ mishaps = {} /\ losses = 0

-----------------------------------------------------------------------------
(* The socket.  A message is lost when the page has no open socket.         *)

Send(channel, msgs) ==
  IF link = "open"
  THEN channel \o [i \in DOMAIN msgs |-> [msg |-> msgs[i], left |-> Lag]]
  ELSE channel

Tell(msgs) == down' = Send(down, msgs)

RoundStarted(r) == [type |-> "round_started", round |-> r]
Resume(r, has, left) ==
  [type |-> "resume", round |-> r, submitted |-> has, left |-> left]
StopRound    == [type |-> "stop_round"]
RoundResults == [type |-> "round_results"]
PressedStop  == [type |-> "stop"]
Answers(f)   == [type |-> "answers", form |-> f]

-----------------------------------------------------------------------------
(* The room: handlers.py and main.py for this player.                       *)

\* Mutant: the window ends with the page's countdown.
NoGrace == STOP_SUBMIT_SECONDS
StopWindow == STOP_SUBMIT_SECONDS + STOP_SUBMIT_GRACE_SECONDS

StopPhase ==
  /\ phase' = "stopped" /\ end_in' = StopWindow
  /\ Tell(<<StopRound>>)

\* start_round and its broadcast, after what has been sent before.
StartRound(before) ==
  /\ phase' = "playing" /\ round' = round + 1
  /\ form' = Missing
  /\ mishaps' = IF up = <<>> THEN {} ELSE mishaps
  /\ Tell(before \o <<RoundStarted(round + 1)>>)

\* _begin_results_phase: the last round has no review.
BeginResults ==
  /\ end_in' = NoTimer
  /\ Tell(<<RoundResults>>)
  /\ IF round >= MaxRounds
     THEN phase' = "over" /\ review_in' = NoTimer
     ELSE phase' = "review" /\ review_in' = RESULTS_PHASE_SECONDS

InRound == phase \in {"playing", "stopped"}

BeginGame ==
  /\ phase = "lobby" /\ registered
  /\ StartRound(<<>>)
  /\ UNCHANGED <<page, link, up, end_in, review_in, registered, losses>>

\* Another player's STOP, or global_round_timeout.
OtherStops ==
  /\ phase = "playing"
  /\ StopPhase
  /\ UNCHANGED <<page, link, up, round, review_in, registered, form, ghosts>>

\* The last missing form of the others arrives, or the last who had not
\* handed in leaves.
OthersAnswer ==
  /\ InRound /\ (registered => form # Missing)
  /\ BeginResults
  /\ UNCHANGED <<page, link, up, round, registered, form, ghosts>>

ForceEnd ==
  /\ end_in = 0
  /\ BeginResults
  /\ UNCHANGED <<page, link, up, round, registered, form, ghosts>>

\* _finalize_results_phase and _start_next_round.
ReviewEnds ==
  /\ review_in = 0 /\ review_in' = NoTimer
  /\ StartRound(<<RoundResults>>)
  /\ UNCHANGED <<page, link, up, end_in, registered, losses>>

\* Mutant: an empty dict is stored too.
StoreAny(f) == f
\* `if answers:` -- an empty dict changes nothing.
Store(f) == IF f = Missing THEN form ELSE f

HandleStop ==
  /\ Head(up).msg.type = "stop"
  /\ IF phase = "playing" THEN StopPhase
     ELSE UNCHANGED <<phase, end_in, down>>
  /\ UNCHANGED <<round, review_in, form>>

\* handle_answers; the others' forms, if all are in, make this the last.
HandleAnswers ==
  /\ Head(up).msg.type = "answers"
  /\ form' = IF InRound THEN Store(Head(up).msg.form) ELSE form
  /\ UNCHANGED round
  /\ \/ /\ InRound /\ form' # Missing
        /\ BeginResults
     \/ UNCHANGED <<phase, end_in, review_in, down>>

ServerReads ==
  /\ registered /\ up # <<>>
  /\ HandleStop \/ HandleAnswers
  /\ up' = Tail(up)
  /\ UNCHANGED <<page, link, registered, ghosts>>

\* The server's end of a socket the page has lost.
ServerNotices ==
  /\ registered /\ link # "open"
  /\ registered' = FALSE /\ up' = <<>>
  /\ UNCHANGED <<page, link, down, phase, round, end_in, review_in, form, ghosts>>

\* Mutant: seconds counted to the forced end, not to the end of the window.
LeftToForcedEnd == end_in
\* Room.stop_seconds_remaining.
StopLeft ==
  LET left == end_in - STOP_SUBMIT_GRACE_SECONDS IN IF left < 0 THEN 0 ELSE left

\* _send_initial_state.
InitialState ==
  CASE phase = "playing" -> <<Resume(round, form # Missing, NoTimer)>>
    [] phase = "stopped" -> <<Resume(round, form # Missing, StopLeft)>>
    [] phase \in {"review", "over"} -> <<RoundResults>>
    [] phase = "lobby" -> <<>>

\* ConnectionManager.connect closes the player's previous socket: what that
\* still carried is not read.
Accept ==
  /\ link = "connecting" /\ link' = "open"
  /\ registered' = TRUE /\ up' = <<>>
  /\ down' = [i \in DOMAIN InitialState |-> [msg |-> InitialState[i], left |-> Lag]]
  /\ UNCHANGED <<page, phase, round, end_in, review_in, form, ghosts>>

-----------------------------------------------------------------------------
(* The page.                                                                *)

ResumeUnderWay == \E i \in DOMAIN down : down[i].msg.type = "resume"

\* disableAndSubmit: the words of the inputs that are open, which close.
Collected == IF enabled THEN values ELSE Missing

DisableAndSubmit(first) ==
  /\ enabled' = FALSE
  /\ mishaps' = mishaps \cup {m \in {Crossed} : ResumeUnderWay}
                        \cup {m \in {OldWords} : first # <<>> /\ ~(InRound /\ values = round)}
  /\ up' = Send(up, first \o <<Answers(Collected)>>)

ClearClientRoundTimers == countdown' = NoTimer

\* Mutant: the inputs are opened with the words they hold.
KeepWords == enabled' = TRUE /\ UNCHANGED values
EnableInputs == enabled' = TRUE /\ values' = Blank

OnStopRound ==
  /\ countdown' = STOP_SUBMIT_SECONDS
  /\ UNCHANGED <<reveal, enabled, values, letter, shown, up>>

\* onRoundStartedFresh: only the animation begins, the inputs stay.
OnRoundStartedFresh(msg) ==
  /\ letter' = msg.round /\ reveal' = Reveal
  /\ UNCHANGED <<countdown, enabled, values, shown, up>>

\* Mutant: a stop under way locks the inputs too.
StopLocks(msg) == msg.submitted \/ msg.left > 0
Locked(msg) == msg.submitted

\* onRoundStartedResume; a stop under way hands in at once if no time is left.
OnRoundStartedResume(msg) ==
  /\ letter' = msg.round /\ shown' = msg.round /\ UNCHANGED reveal
  /\ LET open == ~Locked(msg)
         late == msg.left = 0
     IN /\ countdown' = IF msg.left > 0 THEN msg.left ELSE NoTimer
        /\ enabled' = (open /\ ~late)
        /\ values' = IF open THEN Blank ELSE values
        /\ up' = IF late
                 THEN Send(up, <<Answers(IF open THEN Blank ELSE Missing)>>)
                 ELSE up

OnRoundResults ==
  /\ ClearClientRoundTimers /\ shown' = letter
  /\ UNCHANGED <<reveal, enabled, values, letter, up>>

PageReads ==
  /\ link = "open" /\ down # <<>>
  /\ down' = Tail(down)
  /\ LET msg == Head(down).msg IN
     \/ msg.type = "round_started" /\ OnRoundStartedFresh(msg)
     \/ msg.type = "resume" /\ OnRoundStartedResume(msg)
     \/ msg.type = "stop_round" /\ OnStopRound
     \/ msg.type = "round_results" /\ OnRoundResults
  /\ UNCHANGED <<link, retry, room, ghosts>>

\* The end of runLetterLottery: enableInputs and startRoundTimer, both of
\* which clear currentCountdown.
RevealEnds ==
  /\ reveal = 0 /\ reveal' = NoTimer
  /\ ClearClientRoundTimers /\ EnableInputs
  /\ shown' = letter
  /\ mishaps' = mishaps \cup {m \in {LateReveal} : countdown # NoTimer \/ shown = letter}
  /\ UNCHANGED <<retry, letter, wires, room, losses>>

\* The player fills every input; checkAllFilled then opens STOP.
Type ==
  /\ enabled /\ values = Blank /\ shown > 0
  /\ values' = shown
  /\ UNCHANGED <<retry, reveal, countdown, enabled, letter, shown, wires, room, ghosts>>

\* stopGame; the countdown of an earlier stop_round goes on.
StopGame ==
  /\ enabled /\ values # Blank
  /\ DisableAndSubmit(<<PressedStop>>)
  /\ UNCHANGED <<retry, reveal, countdown, values, letter, shown, link, down, room, losses>>

CountdownEnds ==
  /\ countdown = 0
  /\ ClearClientRoundTimers /\ DisableAndSubmit(<<>>)
  /\ UNCHANGED <<retry, reveal, values, letter, shown, link, down, room, losses>>

\* The socket goes; of what the page had sent only a beginning may arrive.
Lose ==
  /\ link = "open" /\ losses < MaxLosses
  /\ link' = "down" /\ retry' = Retry /\ losses' = losses + 1
  /\ down' = <<>>
  /\ \E n \in 0..Len(up) : up' = SubSeq(up, 1, n)
  /\ UNCHANGED <<reveal, countdown, enabled, values, letter, shown, room, mishaps>>

\* The timer of onclose: connect().
Connect ==
  /\ retry = 0 /\ retry' = NoTimer
  /\ link' = "connecting"
  /\ UNCHANGED <<reveal, countdown, enabled, values, letter, shown, down, up, room, ghosts>>

ConnectFails ==
  /\ link = "connecting" /\ losses < MaxLosses
  /\ link' = "down" /\ retry' = Retry /\ losses' = losses + 1
  /\ UNCHANGED <<reveal, countdown, enabled, values, letter, shown, down, up, room, mishaps>>

-----------------------------------------------------------------------------
Travelling(channel) == [i \in DOMAIN channel |-> [channel[i] EXCEPT !.left = @ - 1]]
After(timer) == IF timer = NoTimer THEN NoTimer ELSE timer - 1

Tick ==
  /\ 0 \notin {retry, reveal, countdown, end_in, review_in}
  /\ \A channel \in {down, up} : \A i \in DOMAIN channel : channel[i].left > 0
  /\ retry' = After(retry) /\ reveal' = After(reveal)
  /\ countdown' = After(countdown)
  /\ end_in' = After(end_in) /\ review_in' = After(review_in)
  /\ down' = Travelling(down) /\ up' = Travelling(up)
  /\ UNCHANGED <<enabled, values, letter, shown, link, phase, round, registered, form, ghosts>>

Next ==
  \/ BeginGame \/ OtherStops \/ OthersAnswer \/ ForceEnd \/ ReviewEnds
  \/ ServerReads \/ ServerNotices \/ Accept
  \/ PageReads \/ RevealEnds \/ Type \/ StopGame \/ CountdownEnds
  \/ Lose \/ Connect \/ ConnectFails
  \/ Tick

Spec == Init /\ [][Next]_vars

-----------------------------------------------------------------------------
Timer(limit) == {NoTimer} \cup 0..limit
Texts == {PressedStop, StopRound, RoundResults}
         \cup {Answers(f) : f \in -1..MaxRounds}
         \cup {RoundStarted(r) : r \in 1..MaxRounds}
         \cup {Resume(r, has, left) : r \in 1..MaxRounds, has \in BOOLEAN,
                                      left \in Timer(STOP_SUBMIT_SECONDS)}
Messages == [msg : Texts, left : 0..Lag]
ElementsOf(channel) == {channel[i] : i \in DOMAIN channel}

TypeOK ==
  /\ link \in {"open", "connecting", "down"}
  /\ retry \in Timer(Retry) /\ reveal \in Timer(Reveal)
  /\ countdown \in Timer(STOP_SUBMIT_SECONDS)
  /\ enabled \in BOOLEAN /\ registered \in BOOLEAN 
  /\ {values, letter, shown, round} \subseteq 0..MaxRounds
  /\ ElementsOf(down) \subseteq Messages /\ ElementsOf(up) \subseteq Messages
  /\ phase \in {"lobby", "playing", "stopped", "review", "over"}
  /\ end_in \in Timer(StopWindow) /\ review_in \in Timer(RESULTS_PHASE_SECONDS)
  /\ form \in -1..MaxRounds /\ losses \in 0..MaxLosses
  /\ mishaps \subseteq {LateReveal, Crossed, OldWords}

Connected == link = "open" /\ registered
Settled == Connected /\ down = <<>> /\ up = <<>>

\* While the room waits for the forms of a stopped round, a page that has not
\* handed in counts down, and its form arrives before the forced end.  The one
\* exception the code makes is the start animation, whose end stops a countdown
\* that was running.
HandsInInTime ==
  phase = "stopped" /\ Settled /\ form = Missing /\ LateReveal \notin mishaps
  => /\ countdown # NoTimer /\ countdown + Lag < end_in
     /\ enabled \/ reveal # NoTimer

\* A page whose inputs are locked in a running round is one whose form the room
\* has: a form lost with its socket unlocks them again.
LockedMeansHeld ==
  InRound /\ Settled /\ letter = round /\ ~enabled /\ reveal = NoTimer
  => form # Missing

\* The words the room has for a round's letter stay until its results: neither the
\* second hand-in of the player who pressed STOP nor a resumed page blanks them.
\* The exceptions: the form and the resume have crossed on the wire, or the end
\* of a start animation has opened the inputs again.
WordsAreKept ==
  [][round' = round /\ form = round /\ mishaps \cap {Crossed, LateReveal} = {}
     => form' = form]_vars

\* Words of an earlier round are counted in a later one only if the player
\* presses STOP on inputs left open, never by a countdown or after a resume.
OldWordsOnlyByStop == form > Blank => form = round \/ OldWords \in mishaps

=============================================================================
