--------------------------- MODULE PlayerPageProofs ---------------------------
(***************************************************************************)
(* Proofs about module PlayerPage: one page, the room and the wires        *)
(* between them, for every delay, countdown and number of rounds that      *)
(* PageAssumption allows.                                                  *)
(*                                                                         *)
(* Four things make the invariant inductive.  What is on its way down      *)
(* comes in the order of the game, so a page that has been told knows the  *)
(* round it is in.  Nothing of a round outlives its review, neither a      *)
(* message nor a timer nor a form.  A stop, a resume and a countdown each  *)
(* leave the page longer than a message travels before the forced end.     *)
(* Once the words of a round are handed in, no others follow them.         *)
(***************************************************************************)
EXTENDS PlayerPage, SequenceTheorems, TLAPS

-----------------------------------------------------------------------------
(* The inductive invariant.                                                *)

\* What a message on its way down is.
Is(i, type) == down[i].msg.type = type
Opens(i) == Is(i, "round_started") \/ Is(i, "resume")

\* The page has been told of the round that is on.
Told == \A i \in DOMAIN down : ~Opens(i)

\* A form with the inputs' words is on its way.
IsForm(i) == up[i].msg.type = "answers"
FormUnderWay == \E i \in DOMAIN up : IsForm(i) /\ up[i].msg.form # Missing

\* Seconds since the review began.
Elapsed == RESULTS_PHASE_SECONDS - review_in

Types ==
  /\ link \in {"open", "connecting", "down"}
  /\ retry \in Timer(Retry) /\ reveal \in Timer(Reveal)
  /\ countdown \in Timer(STOP_SUBMIT_SECONDS)
  /\ enabled \in BOOLEAN /\ registered \in BOOLEAN
  /\ {values, letter, shown, round} \subseteq 0..MaxRounds
  /\ down \in Seq(Messages) /\ up \in Seq(Messages)
  /\ phase \in {"lobby", "playing", "stopped", "review", "over"}
  /\ end_in \in Timer(StopWindow) /\ review_in \in Timer(RESULTS_PHASE_SECONDS)
  /\ form \in -1..MaxRounds /\ losses \in 0..MaxLosses
  /\ mishaps \subseteq {LateReveal, Crossed, OldWords}

\* The room's phase, its round and its two timers.
PhaseFits ==
  /\ phase = "lobby" => round = 0
  /\ phase # "lobby" => round > 0
  /\ phase = "review" => round < MaxRounds
  /\ end_in # NoTimer <=> phase = "stopped"
  /\ review_in # NoTimer <=> phase = "review"

\* Before the first round the page has been told nothing.
LobbyIsStill ==
  phase = "lobby" =>
    /\ down = <<>> /\ up = <<>> /\ reveal = NoTimer /\ countdown = NoTimer
    /\ ~enabled /\ form = Missing

\* Nothing is on its way down a socket that is not open; the server has the
\* page's open socket registered; the page waits to connect when it has none.
WiresFit ==
  /\ link # "open" => down = <<>>
  /\ link = "open" => registered
  /\ retry # NoTimer => link = "down"

\* The page is never ahead of the room, nor its words of the letter it shows.
NeverAhead ==
  /\ values <= shown /\ shown <= letter /\ letter <= round
  /\ \A i \in DOMAIN up : IsForm(i) => up[i].msg.form <= letter
  /\ form <= letter

\* On the way down there are results of the round before, the opening of this
\* round, its stop and its results, in this order.
OpensThisRound == \A i \in DOMAIN down : Opens(i) => down[i].msg.round = round
OpensAfterResults == \A i, j \in DOMAIN down : i < j /\ Opens(j) => Is(i, "round_results")
StopsBeforeResults ==
  \A i, j \in DOMAIN down : i < j /\ Is(i, "stop_round") => Is(j, "round_results")
ResultsBeforeOpening ==
  InRound => \A j \in DOMAIN down : Is(j, "round_results") =>
               \E i \in DOMAIN down : j < i /\ Opens(i)
StopsStopped == \A i \in DOMAIN down : Is(i, "stop_round") => phase # "playing"
InOrder ==
  /\ OpensThisRound /\ OpensAfterResults /\ StopsBeforeResults
  /\ ResultsBeforeOpening /\ StopsStopped

\* A page that has been told shows the letter of this round, or is about to.
KnowsTheRound ==
  link = "open" /\ Told /\ (InRound \/ \E i \in DOMAIN down : Is(i, "stop_round"))
    => letter = round
OpensNewRound ==
  \A i \in DOMAIN down : Is(i, "round_started") => letter < round /\ countdown = NoTimer
CountsForThisRound == countdown # NoTimer => letter = round

\* Open inputs have words of the letter, unless an animation is about to blank them
\* before they are handed in.
InputsFit ==
  enabled /\ ~(reveal # NoTimer /\ (countdown = NoTimer \/ reveal < countdown))
    => shown = letter /\ values \in {Blank, letter}

\* Nothing of a round outlives its review.
MessagesEnd ==
  phase = "review" => \A i \in DOMAIN down :
    Is(i, "round_results") \/ down[i].left + Elapsed <= Lag
TimersEnd ==
  phase = "review" =>
    /\ reveal # NoTimer => reveal + Elapsed <= Reveal + Lag
    /\ countdown # NoTimer => countdown + Elapsed <= STOP_SUBMIT_SECONDS + Lag
FormsEnd ==
  phase = "review" /\ OldWords \notin mishaps => \A i \in DOMAIN up :
    IsForm(i) /\ up[i].msg.form > Blank
      => up[i].left + Elapsed <= STOP_SUBMIT_SECONDS + 2 * Lag
ReviewOutlasts == MessagesEnd /\ TimersEnd /\ FormsEnd

\* Words under way are the round's.
WordsFit ==
  OldWords \notin mishaps =>
    /\ form > Blank => form = round
    /\ \A i \in DOMAIN up :
         IsForm(i) /\ up[i].msg.form > Blank => up[i].msg.form = round

\* A resume that says that the room has a form is right.
ResumeIsRight ==
  InRound =>
    \A i \in DOMAIN down : Is(i, "resume") /\ down[i].msg.submitted => form # Missing

\* A page without a form in the room can still hand one in, or has.
OpenOrSent ==
  link = "open" /\ InRound /\ Told /\ form = Missing
    => enabled \/ reveal # NoTimer \/ FormUnderWay

\* What is on its way when the round has been stopped leaves the page time to
\* hand in.
StopInTime ==
  phase = "stopped" => \A i \in DOMAIN down :
    Is(i, "stop_round") => StopWindow - Lag + down[i].left <= end_in
ResumeInTime ==
  phase = "stopped" => \A i \in DOMAIN down :
    Is(i, "resume") /\ down[i].msg.left > 0
      => down[i].msg.left + STOP_SUBMIT_GRACE_SECONDS - Lag + down[i].left <= end_in
StopFollows ==
  phase = "stopped" => \A i \in DOMAIN down :
    Is(i, "round_started") \/ (Is(i, "resume") /\ down[i].msg.left = NoTimer)
      => \E j \in DOMAIN down : Is(j, "stop_round")

\* So does the countdown it has.
CountsInTime ==
  /\ phase = "stopped" /\ link = "open" /\ Told /\ form = Missing
  /\ \A i \in DOMAIN down : ~Is(i, "stop_round")
  /\ LateReveal \notin mishaps /\ ~FormUnderWay
  => /\ countdown # NoTimer /\ countdown + Lag < end_in
     /\ enabled \/ (reveal # NoTimer /\ reveal < countdown)

\* Once the words of the round are handed in, no other words are.
Regular == InRound /\ Crossed \notin mishaps /\ LateReveal \notin mishaps
NoWordsAfterForm ==
  Regular /\ form = round => \A i \in DOMAIN up : IsForm(i) => up[i].msg.form = Missing
NoWordsAfterWords ==
  Regular => \A i, j \in DOMAIN up :
    i < j /\ IsForm(i) /\ up[i].msg.form = round /\ IsForm(j) => up[j].msg.form = Missing
HandedIn ==
  form = round \/ \E i \in DOMAIN up : IsForm(i) /\ up[i].msg.form = round
ClosedOnceHandedIn ==
  Regular /\ link = "open" /\ HandedIn /\ Told
    => ~enabled /\ (reveal # NoTimer => shown = letter)
ResumedOnceHandedIn ==
  Regular /\ link = "open" /\ HandedIn /\ ~Told
    => /\ form = round
       /\ \A i \in DOMAIN down : Opens(i) => Is(i, "resume") /\ down[i].msg.submitted

IInv ==
  /\ Types /\ PhaseFits /\ LobbyIsStill /\ WiresFit
  /\ NeverAhead /\ InOrder
  /\ KnowsTheRound /\ OpensNewRound /\ CountsForThisRound
  /\ InputsFit /\ ReviewOutlasts /\ WordsFit /\ ResumeIsRight /\ OpenOrSent
  /\ StopInTime /\ ResumeInTime /\ StopFollows /\ CountsInTime
  /\ NoWordsAfterForm /\ NoWordsAfterWords /\ ClosedOnceHandedIn /\ ResumedOnceHandedIn

-----------------------------------------------------------------------------
(* Messages and channels.                                                   *)

\* What can be read off a message under way.
Typed(m) ==
  /\ m.left \in Int /\ 0 <= m.left /\ m.left <= Lag
  /\ m.msg.type = "answers" =>
       m.msg.form \in Int /\ -1 <= m.msg.form /\ m.msg.form <= MaxRounds
  /\ m.msg.type = "round_started" =>
       m.msg.round \in Int /\ 1 <= m.msg.round /\ m.msg.round <= MaxRounds
  /\ m.msg.type = "resume" =>
       /\ m.msg.round \in Int /\ 1 <= m.msg.round /\ m.msg.round <= MaxRounds
       /\ m.msg.submitted \in BOOLEAN
       /\ m.msg.left \in Int /\ -1 <= m.msg.left /\ m.msg.left <= STOP_SUBMIT_SECONDS

\* The numbers of a message are in their bounds.
LEMMA MessageTyped ==
  ASSUME NEW m \in Messages
  PROVE  Typed(m)
<1>1. m.left \in 0..Lag
  BY DEF Messages
<1>2. CASE m.msg \in {PressedStop, StopRound, RoundResults}
  BY <1>1, <1>2, PageAssumption DEF Typed, PressedStop, StopRound, RoundResults
<1>3. ASSUME NEW f \in -1..MaxRounds, m.msg = Answers(f)
      PROVE  Typed(m)
  BY <1>1, <1>3, PageAssumption DEF Typed, Answers
<1>4. ASSUME NEW r \in 1..MaxRounds, m.msg = RoundStarted(r)
      PROVE  Typed(m)
  BY <1>1, <1>4, PageAssumption DEF Typed, RoundStarted
<1>5. ASSUME NEW r \in 1..MaxRounds, NEW has \in BOOLEAN,
             NEW left \in Timer(STOP_SUBMIT_SECONDS), m.msg = Resume(r, has, left)
      PROVE  Typed(m)
  BY <1>1, <1>5, PageAssumption DEF Typed, Resume, Timer, NoTimer
<1> QED BY <1>2, <1>3, <1>4, <1>5 DEF Messages, Texts

IsChannel(c) == \A i \in DOMAIN c : i \in Int /\ 1 <= i /\ Typed(c[i])

\* d is the channel c with one more message, the n-th.
Adds(c, d, n, content) ==
  /\ n \in Int /\ 1 <= n /\ DOMAIN d = DOMAIN c \cup {n}
  /\ \A i \in DOMAIN c : i < n /\ d[i] = c[i]
  /\ d[n].msg = content /\ d[n].left = Lag

\* Sending to an open socket adds the message at the end.
LEMMA SendOne ==
  ASSUME NEW c \in Seq(Messages), NEW m, link = "open",
         [msg |-> m, left |-> Lag] \in Messages
  PROVE  Send(c, <<m>>) \in Seq(Messages) /\ Adds(c, Send(c, <<m>>), Len(c) + 1, m)
<1> DEFINE x == [msg |-> m, left |-> Lag]
<1>1. [i \in DOMAIN <<m>> |-> [msg |-> <<m>>[i], left |-> Lag]] = <<x>>
  OBVIOUS
<1>2. Send(c, <<m>>) = c \o <<x>>
  BY <1>1 DEF Send
<1>3. x \in Messages /\ x.msg = m /\ x.left = Lag
  OBVIOUS
<1> HIDE DEF x
<1>4. c \o <<x>> \in Seq(Messages) /\ Len(c \o <<x>>) = Len(c) + 1
  BY <1>3
<1>5. /\ \A i \in DOMAIN c : (c \o <<x>>)[i] = c[i]
      /\ (c \o <<x>>)[Len(c) + 1] = x
  BY <1>3
<1>6. /\ DOMAIN (c \o <<x>>) = 1..(Len(c) + 1)
      /\ DOMAIN c = 1..Len(c) /\ Len(c) \in Nat
  BY <1>4
<1>7. 1..(Len(c) + 1) = (1..Len(c)) \cup {Len(c) + 1}
  BY <1>6
<1>8. Len(c) + 1 \in Int /\ 1 <= Len(c) + 1 /\ \A i \in DOMAIN c : i < Len(c) + 1
  BY <1>6
<1> HIDE DEF Send
<1> QED BY <1>8, <1>2, <1>3, <1>4, <1>5, <1>6, <1>7 DEF Adds

\* The same when the page may have no open socket.
Sent(c, d, n, content) ==
  IF link = "open" THEN Adds(c, d, n, content) ELSE d = c

\* Sending adds the message, or nothing when there is no open socket.
LEMMA SendAny ==
  ASSUME NEW c \in Seq(Messages), NEW m, [msg |-> m, left |-> Lag] \in Messages
  PROVE  /\ Send(c, <<m>>) \in Seq(Messages)
         /\ \E n : Sent(c, Send(c, <<m>>), n, m)
BY SendOne DEF Sent, Send

\* A pair is two sequences of one.
LEMMA PairOf == ASSUME NEW x, NEW y PROVE <<x>> \o <<y>> = <<x, y>>
<1> DEFINE S == {x, y}
<1>1. x \in S /\ y \in S
  OBVIOUS
<1> HIDE DEF S
<1>2. <<x>> \in Seq(S) /\ <<y>> \in Seq(S)
  BY <1>1
<1>3. /\ <<x>> \o <<y>> \in Seq(S) /\ Len(<<x>> \o <<y>>) = 2
      /\ \A i \in 1..2 : (<<x>> \o <<y>>)[i] = IF i <= 1 THEN <<x>>[i] ELSE <<y>>[i - 1]
  BY <1>2, ConcatProperties
<1>4. (<<x>> \o <<y>>)[1] = x /\ (<<x>> \o <<y>>)[2] = y
  BY <1>3
<1>5. <<x, y>> \in Seq(S) /\ Len(<<x, y>>) = 2 /\ <<x, y>>[1] = x /\ <<x, y>>[2] = y
  BY <1>1
<1>6. \A i \in 1..2 : i = 1 \/ i = 2
  OBVIOUS
<1> QED BY <1>3, <1>4, <1>5, <1>6, SeqEqual

\* Two messages sent at once are two messages sent one after the other.
LEMMA SendTwo ==
  ASSUME NEW c \in Seq(Messages), NEW m, NEW n,
         [msg |-> m, left |-> Lag] \in Messages, [msg |-> n, left |-> Lag] \in Messages
  PROVE  Send(c, <<m, n>>) = Send(Send(c, <<m>>), <<n>>)
<1> DEFINE x == [msg |-> m, left |-> Lag]
           y == [msg |-> n, left |-> Lag]
<1>1. [i \in DOMAIN <<m, n>> |-> [msg |-> <<m, n>>[i], left |-> Lag]] = <<x, y>>
  OBVIOUS
<1>2. /\ [i \in DOMAIN <<m>> |-> [msg |-> <<m>>[i], left |-> Lag]] = <<x>>
      /\ [i \in DOMAIN <<n>> |-> [msg |-> <<n>>[i], left |-> Lag]] = <<y>>
  OBVIOUS
<1>3. x \in Messages /\ y \in Messages
  OBVIOUS
<1> HIDE DEF x, y
<1>4. <<x>> \in Seq(Messages) /\ <<y>> \in Seq(Messages)
  BY <1>3
<1>5. (c \o <<x>>) \o <<y>> = c \o <<x, y>>
  <2>1. (c \o <<x>>) \o <<y>> = c \o (<<x>> \o <<y>>)
    BY <1>4, ConcatAssociative
  <2>2. <<x>> \o <<y>> = <<x, y>>
    BY PairOf
  <2> QED BY <2>1, <2>2
<1>6. CASE link = "open"
  BY <1>1, <1>2, <1>5, <1>6 DEF Send
<1>7. CASE link # "open"
  BY <1>7 DEF Send
<1> QED BY <1>6, <1>7

\* A channel's messages are in their bounds.
LEMMA ChannelTyped ==
  ASSUME NEW c \in Seq(Messages)
  PROVE  IsChannel(c)
BY MessageTyped DEF IsChannel

\* So are those of a channel with none.
LEMMA EmptyChannel == <<>> \in Seq(Messages) /\ IsChannel(<<>>)
BY DEF IsChannel

\* d is the channel c without its first message.
Follows(d, c) ==
  /\ \A i \in DOMAIN d : i \in Int /\ 1 <= i /\ i + 1 \in DOMAIN c /\ d[i] = c[i + 1]
  /\ \A i \in DOMAIN c : i = 1 \/ (i - 1 \in DOMAIN d /\ d[i - 1] = c[i])

\* Reading takes the first message away and leaves the order of the rest.
LEMMA ReadOne ==
  ASSUME NEW c \in Seq(Messages), c # <<>>
  PROVE  /\ Tail(c) \in Seq(Messages) /\ Follows(Tail(c), c)
         /\ 1 \in DOMAIN c /\ Head(c) = c[1]
<1>1. Tail(c) \in Seq(Messages) /\ Len(Tail(c)) = Len(c) - 1
  BY HeadTailProperties
<1>2. \A i \in 1..Len(Tail(c)) : Tail(c)[i] = c[i + 1]
  BY HeadTailProperties
<1>3. Len(c) \in Nat /\ Len(c) # 0 /\ DOMAIN c = 1..Len(c)
  BY EmptySeq
<1>4. DOMAIN Tail(c) = 1..Len(Tail(c))
  BY <1>1
<1>5. Head(c) = c[1]
  OBVIOUS
<1> QED BY <1>1, <1>2, <1>3, <1>4, <1>5 DEF Follows

\* d is the channel c a second later.
Later(d, c) ==
  /\ DOMAIN d = DOMAIN c
  /\ \A i \in DOMAIN c : d[i].msg = c[i].msg /\ d[i].left = c[i].left - 1

\* A second brings every message nearer and changes nothing else.
LEMMA TravelOne ==
  ASSUME NEW c \in Seq(Messages), \A i \in DOMAIN c : c[i].left > 0
  PROVE  Travelling(c) \in Seq(Messages) /\ Later(Travelling(c), c)
<1>1. DOMAIN c = 1..Len(c) /\ Len(c) \in Nat
  OBVIOUS
<1>2. ASSUME NEW i \in DOMAIN c
      PROVE  /\ [c[i] EXCEPT !.left = @ - 1] \in Messages
             /\ [c[i] EXCEPT !.left = @ - 1].msg = c[i].msg
             /\ [c[i] EXCEPT !.left = @ - 1].left = c[i].left - 1
  <2>1. PICK m \in Messages : m = c[i]
    OBVIOUS
  <2>2. m.left \in 0..Lag /\ m.left > 0
    BY <2>1 DEF Messages
  <2>3. Lag \in Int
    BY PageAssumption
  <2>4. \A n \in 0..Lag : n > 0 => n - 1 \in 0..Lag
    BY <2>3
  <2>5. m.left - 1 \in 0..Lag
    BY <2>2, <2>4
  <2>6. m.msg \in Texts /\ [m EXCEPT !.left = @ - 1] = [msg |-> m.msg, left |-> m.left - 1]
    BY DEF Messages
  <2>7. [msg |-> m.msg, left |-> m.left - 1] \in Messages
    BY <2>5, <2>6 DEF Messages
  <2> QED BY <2>1, <2>6, <2>7
<1>3. Travelling(c) = [i \in 1..Len(c) |-> [c[i] EXCEPT !.left = @ - 1]]
  BY <1>1 DEF Travelling
<1>4. Travelling(c) \in Seq(Messages) /\ Len(Travelling(c)) = Len(c)
  BY <1>1, <1>2, <1>3, IsASeq
<1> QED BY <1>1, <1>2, <1>3, <1>4 DEF Later

\* d is a beginning of c.
Begins(d, c) == \A i \in DOMAIN d : i \in DOMAIN c /\ d[i] = c[i]

\* What is left of a channel whose end is lost.
LEMMA CutOff ==
  ASSUME NEW c \in Seq(Messages), NEW n \in 0..Len(c)
  PROVE  SubSeq(c, 1, n) \in Seq(Messages) /\ Begins(SubSeq(c, 1, n), c)
<1>1. \A i \in 1..n : c[i] \in Messages
  OBVIOUS
<1>2. /\ SubSeq(c, 1, n) \in Seq(Messages)
      /\ Len(SubSeq(c, 1, n)) = IF 1 <= n THEN n - 1 + 1 ELSE 0
      /\ \A i \in 1..(n - 1 + 1) : SubSeq(c, 1, n)[i] = c[1 + i - 1]
  <2>1. 1 \in Int /\ n \in Int
    OBVIOUS
  <2> QED BY <1>1, <2>1, SubSeqProperties
<1>3. Len(SubSeq(c, 1, n)) = n
  BY <1>2
<1>4. DOMAIN SubSeq(c, 1, n) = 1..n
  BY <1>2, <1>3
<1>5. \A i \in 1..n : SubSeq(c, 1, n)[i] = c[i]
  BY <1>2
<1> QED BY <1>2, <1>3, <1>4, <1>5 DEF Begins

\* Everything that the page and the room send is a message.
LEMMA Sendable ==
  /\ [msg |-> StopRound, left |-> Lag] \in Messages
  /\ [msg |-> RoundResults, left |-> Lag] \in Messages
  /\ [msg |-> PressedStop, left |-> Lag] \in Messages
  /\ \A f \in -1..MaxRounds : [msg |-> Answers(f), left |-> Lag] \in Messages
  /\ \A r \in 1..MaxRounds : [msg |-> RoundStarted(r), left |-> Lag] \in Messages
  /\ \A r \in 1..MaxRounds, has \in BOOLEAN, left \in Timer(STOP_SUBMIT_SECONDS) :
       [msg |-> Resume(r, has, left), left |-> Lag] \in Messages
<1>1. Lag \in 0..Lag
  BY PageAssumption
<1> QED BY <1>1 DEF Messages, Texts

\* What the messages say.
LEMMA Contents ==
  /\ StopRound.type = "stop_round" /\ RoundResults.type = "round_results"
  /\ PressedStop.type = "stop"
  /\ \A f : Answers(f).type = "answers" /\ Answers(f).form = f
  /\ \A r : RoundStarted(r).type = "round_started" /\ RoundStarted(r).round = r
  /\ \A r, has, left :
       /\ Resume(r, has, left).type = "resume" /\ Resume(r, has, left).round = r
       /\ Resume(r, has, left).submitted = has /\ Resume(r, has, left).left = left
BY DEF StopRound, RoundResults, PressedStop, Answers, RoundStarted, Resume

\* PageAssumption, constant by constant.
LEMMA Constants ==
  /\ STOP_SUBMIT_SECONDS \in Int /\ STOP_SUBMIT_GRACE_SECONDS \in Int
  /\ RESULTS_PHASE_SECONDS \in Int /\ Reveal \in Int /\ Retry \in Int
  /\ Lag \in Int /\ MaxRounds \in Int /\ MaxLosses \in Int
  /\ 0 < STOP_SUBMIT_SECONDS /\ 0 < Reveal /\ 0 < Retry /\ 0 < MaxRounds
  /\ 0 <= Lag /\ 0 <= MaxLosses /\ 2 * Lag < STOP_SUBMIT_GRACE_SECONDS
  /\ Reveal < STOP_SUBMIT_SECONDS
  /\ STOP_SUBMIT_SECONDS + STOP_SUBMIT_GRACE_SECONDS < RESULTS_PHASE_SECONDS
BY PageAssumption

\* The variables' numbers and channels, in the form the arithmetic uses.
Numbers ==
  /\ values \in Int /\ letter \in Int /\ shown \in Int /\ round \in Int
  /\ 0 <= values /\ 0 <= letter /\ 0 <= shown /\ 0 <= round
  /\ values <= MaxRounds /\ letter <= MaxRounds /\ shown <= MaxRounds /\ round <= MaxRounds
  /\ form \in Int /\ -1 <= form /\ form <= MaxRounds
  /\ losses \in Int /\ 0 <= losses /\ losses <= MaxLosses
  /\ retry \in Int /\ -1 <= retry /\ retry <= Retry
  /\ reveal \in Int /\ -1 <= reveal /\ reveal <= Reveal
  /\ countdown \in Int /\ -1 <= countdown /\ countdown <= STOP_SUBMIT_SECONDS
  /\ end_in \in Int /\ -1 <= end_in /\ end_in <= StopWindow
  /\ review_in \in Int /\ -1 <= review_in /\ review_in <= RESULTS_PHASE_SECONDS
  /\ IsChannel(down) /\ IsChannel(up)

\* The types give the numbers.
LEMMA TypesAreNumbers == ASSUME Types PROVE Numbers
<1>1. IsChannel(down) /\ IsChannel(up)
  BY ChannelTyped DEF Types
<1>2. /\ values \in 0..MaxRounds /\ letter \in 0..MaxRounds
      /\ shown \in 0..MaxRounds /\ round \in 0..MaxRounds
  BY DEF Types
<1> QED BY <1>1, <1>2, Constants DEF Types, Numbers, Timer, NoTimer, StopWindow

\* Nothing comes down without an open socket.
LEMMA DownIsEmpty == ASSUME WiresFit, link # "open" PROVE DOMAIN down = {}
BY DEF WiresFit

\* A channel that is made of one message.
LEMMA OnlyOne ==
  ASSUME NEW m, [msg |-> m, left |-> Lag] \in Messages
  PROVE  LET d == [i \in DOMAIN <<m>> |-> [msg |-> <<m>>[i], left |-> Lag]]
         IN  d \in Seq(Messages) /\ DOMAIN d = {1} /\ d[1].msg = m /\ d[1].left = Lag
<1> DEFINE x == [msg |-> m, left |-> Lag]
<1>1. [i \in DOMAIN <<m>> |-> [msg |-> <<m>>[i], left |-> Lag]] = <<x>>
  OBVIOUS
<1>2. x \in Messages /\ x.msg = m /\ x.left = Lag
  OBVIOUS
<1> HIDE DEF x
<1>3. <<x>> \in Seq(Messages) /\ DOMAIN <<x>> = {1} /\ <<x>>[1] = x
  BY <1>2
<1> QED BY <1>1, <1>2, <1>3

\* A form that was not read is still under way.
LEMMA FormStays ==
  ASSUME Follows(up', up), FormUnderWay, IsForm(1) => up[1].msg.form = Missing
  PROVE  FormUnderWay'
<1>1. PICK i \in DOMAIN up : IsForm(i) /\ up[i].msg.form # Missing
  BY DEF FormUnderWay
<1>2. i - 1 \in DOMAIN up' /\ up'[i - 1] = up[i]
  BY <1>1 DEF Follows
<1> QED BY <1>1, <1>2 DEF FormUnderWay, IsForm

\* The empty sequence has no index.
LEMMA EmptyDomain == DOMAIN <<>> = {}
OBVIOUS

-----------------------------------------------------------------------------
(* One lemma for each action: it keeps the invariant.                      *)

\* Another player's STOP.
LEMMA OtherStopsStep ==
  ASSUME IInv, OtherStops
  PROVE  IInv'
<1> USE DEF IInv
<1>0. Numbers
  BY TypesAreNumbers
<1>1. /\ phase = "playing" /\ phase' = "stopped" /\ end_in' = StopWindow
      /\ Tell(<<StopRound>>)
      /\ UNCHANGED <<retry, reveal, countdown, enabled, values, letter, shown, link, up,
                     round, review_in, registered, form, mishaps, losses>>
  BY <1>0, Constants DEF Numbers, OtherStops, StopPhase, page, wires, room, ghosts
<1>2. down' \in Seq(Messages) /\ \E n : Sent(down, down', n, StopRound)
  BY <1>1, SendAny, Sendable DEF Tell, Types
<1>3. PICK n : Sent(down, down', n, StopRound)
  BY <1>2
<1> USE DEF Is, IsForm, Opens, Told, InRound, NoTimer, Missing, Blank, Sent, Adds,
          IsChannel
<1>4. /\ LobbyIsStill' /\ WiresFit' /\ NeverAhead' /\ OpensThisRound'
      /\ OpensAfterResults' /\ StopsStopped' /\ KnowsTheRound' /\ OpensNewRound'
      /\ CountsForThisRound' /\ InputsFit' /\ MessagesEnd' /\ TimersEnd'
      /\ FormsEnd' /\ WordsFit' /\ ResumeIsRight' /\ OpenOrSent'
      /\ CountsInTime' /\ NoWordsAfterForm' /\ NoWordsAfterWords' /\ ClosedOnceHandedIn'
      /\ ResumedOnceHandedIn'
  BY <1>1, <1>2, Contents, SMTT(60) DEF LobbyIsStill, WiresFit, NeverAhead,
     OpensThisRound, OpensAfterResults, InOrder, StopsStopped, KnowsTheRound,
     OpensNewRound, CountsForThisRound, InputsFit, MessagesEnd, TimersEnd, FormsEnd,
     WordsFit, ResumeIsRight, OpenOrSent, CountsInTime, NoWordsAfterForm,
     NoWordsAfterWords, ClosedOnceHandedIn, ResumedOnceHandedIn, FormUnderWay, HandedIn,
     Regular
<1>5. Types'
  BY <1>1, <1>2, <1>3, Constants, SMTT(60) DEF Types, InOrder, StopWindow, Timer
<1>6. PhaseFits'
  BY <1>1, Constants DEF PhaseFits, InOrder, OpensThisRound, StopsStopped, StopWindow
<1>7. StopsBeforeResults' /\ ResultsBeforeOpening'
  BY <1>1, <1>2, <1>3, Contents DEF StopsBeforeResults, ResultsBeforeOpening, InOrder,
     PhaseFits, StopsStopped
<1>8. StopInTime'
  BY <1>0, <1>1, <1>3, Constants DEF StopInTime, Numbers, StopWindow, Typed
<1>9. ResumeInTime'
  <2>1. \A i \in DOMAIN down : Is(i, "resume") =>
          /\ down[i].left \in Int /\ down[i].left <= Lag
          /\ down[i].msg.left \in Int /\ down[i].msg.left <= STOP_SUBMIT_SECONDS
    BY <1>0 DEF Numbers, Typed
  <2>2. ASSUME NEW i \in DOMAIN down', Is(i, "resume")'
        PROVE  i \in DOMAIN down /\ Is(i, "resume") /\ down'[i] = down[i]
    BY <1>1, <1>2, <1>3, <2>2, Contents, DownIsEmpty
  <2>3. ASSUME NEW i \in DOMAIN down', Is(i, "resume")', down'[i].msg.left > 0
        PROVE  down'[i].msg.left + STOP_SUBMIT_GRACE_SECONDS - Lag + down'[i].left <= StopWindow
    BY <2>1, <2>2, <2>3, Constants DEF StopWindow
  <2> QED BY <1>1, <2>3 DEF ResumeInTime
<1>10. StopFollows'
  <2>1. CASE link = "open"
    BY <1>1, <1>3, <2>1, Contents DEF StopFollows
  <2>2. CASE link # "open"
    BY <1>1, <1>3, <2>2, DownIsEmpty DEF StopFollows
  <2> QED BY <2>1, <2>2
<1> QED BY <1>4, <1>5, <1>6, <1>7, <1>8, <1>9, <1>10 DEF InOrder, ReviewOutlasts

\* The player types.
LEMMA TypeStep ==
  ASSUME IInv, Type
  PROVE  IInv'
<1> USE DEF IInv
<1>0. Numbers
  BY TypesAreNumbers
<1>1. /\ enabled /\ values = Blank /\ shown > 0
      /\ values' = shown
      /\ UNCHANGED <<retry, reveal, countdown, enabled, letter, shown, link, down, up,
                     phase, round, end_in, review_in, registered, form, mishaps, losses>>
  BY <1>0, Constants DEF Numbers, Type, page, wires, room, ghosts
<1> USE DEF Is, IsForm, Opens, Told, InRound, NoTimer, Missing, Blank, IsChannel
<1>2. /\ Types' /\ PhaseFits' /\ LobbyIsStill' /\ WiresFit'
      /\ OpensThisRound' /\ OpensAfterResults' /\ StopsBeforeResults'
           /\ ResultsBeforeOpening'
      /\ StopsStopped' /\ KnowsTheRound' /\ OpensNewRound' /\ CountsForThisRound'
      /\ InputsFit' /\ MessagesEnd' /\ TimersEnd' /\ FormsEnd'
      /\ WordsFit' /\ ResumeIsRight' /\ OpenOrSent' /\ StopInTime'
      /\ ResumeInTime' /\ StopFollows' /\ CountsInTime' /\ NoWordsAfterForm'
      /\ NoWordsAfterWords' /\ ClosedOnceHandedIn' /\ ResumedOnceHandedIn'
  BY <1>1 DEF Types, PhaseFits, LobbyIsStill, WiresFit, OpensThisRound,
     OpensAfterResults, InOrder, StopsBeforeResults, ResultsBeforeOpening, StopsStopped,
     KnowsTheRound, OpensNewRound, CountsForThisRound, InputsFit, MessagesEnd,
     TimersEnd, FormsEnd, WordsFit, ResumeIsRight, OpenOrSent, StopInTime, ResumeInTime,
     StopFollows, CountsInTime, NoWordsAfterForm, NoWordsAfterWords, ClosedOnceHandedIn,
     ResumedOnceHandedIn, Elapsed, FormUnderWay, HandedIn, Regular, ReviewOutlasts
<1>3. NeverAhead'
  BY <1>0, <1>1 DEF NeverAhead, Numbers
<1> QED BY <1>2, <1>3 DEF InOrder, ReviewOutlasts

\* The page opens a socket.
LEMMA ConnectStep ==
  ASSUME IInv, Connect
  PROVE  IInv'
<1> USE DEF IInv
<1>0. Numbers
  BY TypesAreNumbers
<1>1. /\ retry = 0 /\ retry' = NoTimer
      /\ link' = "connecting"
      /\ UNCHANGED <<reveal, countdown, enabled, values, letter, shown, down, up, phase,
                     round, end_in, review_in, registered, form, mishaps, losses>>
  BY <1>0, Constants DEF Numbers, Connect, page, wires, room, ghosts
<1> USE DEF Is, IsForm, Opens, Told, InRound, NoTimer, Missing, Blank, IsChannel
<1>2. /\ Types' /\ PhaseFits' /\ LobbyIsStill' /\ WiresFit'
      /\ NeverAhead' /\ OpensThisRound' /\ OpensAfterResults' /\ StopsBeforeResults'
      /\ ResultsBeforeOpening' /\ StopsStopped' /\ KnowsTheRound' /\ OpensNewRound'
      /\ CountsForThisRound' /\ InputsFit' /\ MessagesEnd' /\ TimersEnd'
      /\ FormsEnd' /\ WordsFit' /\ ResumeIsRight' /\ OpenOrSent'
      /\ StopInTime' /\ ResumeInTime' /\ StopFollows' /\ CountsInTime'
      /\ NoWordsAfterForm' /\ NoWordsAfterWords' /\ ClosedOnceHandedIn'
           /\ ResumedOnceHandedIn'
  BY <1>1 DEF Types, PhaseFits, LobbyIsStill, WiresFit, NeverAhead, OpensThisRound,
     OpensAfterResults, StopsBeforeResults, ResultsBeforeOpening, StopsStopped,
     KnowsTheRound, OpensNewRound, CountsForThisRound, InputsFit, MessagesEnd,
     TimersEnd, FormsEnd, WordsFit, ResumeIsRight, OpenOrSent, StopInTime, ResumeInTime,
     StopFollows, CountsInTime, NoWordsAfterForm, NoWordsAfterWords, ClosedOnceHandedIn,
     ResumedOnceHandedIn, Elapsed, Regular, ReviewOutlasts, Timer
<1> QED BY <1>2 DEF InOrder, ReviewOutlasts

\* The socket does not open.
LEMMA ConnectFailsStep ==
  ASSUME IInv, ConnectFails
  PROVE  IInv'
<1> USE DEF IInv
<1>0. Numbers
  BY TypesAreNumbers
<1>1. /\ link = "connecting" /\ losses < MaxLosses
      /\ link' = "down" /\ retry' = Retry /\ losses' = losses + 1
      /\ UNCHANGED <<reveal, countdown, enabled, values, letter, shown, down, up, phase,
                     round, end_in, review_in, registered, form, mishaps>>
  BY <1>0, Constants DEF Numbers, ConnectFails, page, wires, room, ghosts
<1> USE DEF Is, IsForm, Opens, Told, InRound, NoTimer, Missing, Blank, IsChannel
<1>2. /\ PhaseFits' /\ LobbyIsStill' /\ WiresFit' /\ NeverAhead'
      /\ OpensThisRound' /\ OpensAfterResults' /\ StopsBeforeResults'
           /\ ResultsBeforeOpening'
      /\ StopsStopped' /\ KnowsTheRound' /\ OpensNewRound' /\ CountsForThisRound'
      /\ InputsFit' /\ MessagesEnd' /\ TimersEnd' /\ FormsEnd'
      /\ WordsFit' /\ ResumeIsRight' /\ OpenOrSent' /\ StopInTime'
      /\ ResumeInTime' /\ StopFollows' /\ CountsInTime' /\ NoWordsAfterForm'
      /\ NoWordsAfterWords' /\ ClosedOnceHandedIn' /\ ResumedOnceHandedIn'
  BY <1>1 DEF PhaseFits, LobbyIsStill, WiresFit, NeverAhead, OpensThisRound,
     OpensAfterResults, StopsBeforeResults, ResultsBeforeOpening, StopsStopped,
     KnowsTheRound, OpensNewRound, CountsForThisRound, InputsFit, MessagesEnd,
     TimersEnd, FormsEnd, WordsFit, ResumeIsRight, OpenOrSent, StopInTime, ResumeInTime,
     StopFollows, CountsInTime, NoWordsAfterForm, NoWordsAfterWords, ClosedOnceHandedIn,
     ResumedOnceHandedIn, Elapsed, Regular, ReviewOutlasts
<1>3. Types'
  BY <1>1, Constants DEF Types, InOrder, Timer
<1> QED BY <1>2, <1>3 DEF InOrder, ReviewOutlasts

\* The first round.
LEMMA BeginGameStep ==
  ASSUME IInv, BeginGame
  PROVE  IInv'
<1> USE DEF IInv
<1>0. Numbers
  BY TypesAreNumbers
<1>1. /\ phase = "lobby" /\ registered
      /\ phase' = "playing" /\ round' = round + 1 /\ form' = Missing
      /\ mishaps' = IF up = <<>> THEN {} ELSE mishaps
      /\ Tell(<<>> \o <<RoundStarted(round + 1)>>)
      /\ UNCHANGED <<retry, reveal, countdown, enabled, values, letter, shown, link, up,
                     end_in, review_in, registered, losses>>
  BY <1>0, Constants DEF Numbers, BeginGame, StartRound, page, wires, room, ghosts
<1>2. round = 0 /\ down = <<>> /\ up = <<>> /\ DOMAIN down = {} /\ DOMAIN up = {}
        /\ 1 \in 1..MaxRounds
  BY <1>1, Constants DEF PhaseFits, LobbyIsStill
<1>3. /\ phase' = "playing" /\ round' = 1 /\ form' = Missing /\ mishaps' = {}
      /\ reveal = NoTimer /\ countdown = NoTimer /\ ~enabled
  BY <1>1, <1>2 DEF LobbyIsStill
<1>4. Tell(<<RoundStarted(1)>>)
  <2>1. <<>> \o <<RoundStarted(1)>> = <<RoundStarted(1)>>
    OBVIOUS
  <2> QED BY <1>1, <1>2, <2>1
<1>5. down' \in Seq(Messages) /\ \E n : Sent(down, down', n, RoundStarted(1))
  BY <1>2, <1>4, SendAny, Sendable DEF Tell, Types
<1>6. PICK n : Sent(down, down', n, RoundStarted(1))
  BY <1>5
<1> USE DEF Is, IsForm, Opens, Told, InRound, NoTimer, Missing, Blank, Sent, Adds,
          IsChannel
<1>7. /\ PhaseFits' /\ LobbyIsStill' /\ WiresFit' /\ OpensThisRound'
      /\ OpensAfterResults' /\ StopsBeforeResults' /\ ResultsBeforeOpening' /\ StopsStopped'
      /\ KnowsTheRound' /\ InputsFit' /\ MessagesEnd' /\ TimersEnd'
      /\ FormsEnd' /\ WordsFit' /\ ResumeIsRight' /\ OpenOrSent'
      /\ StopInTime' /\ ResumeInTime' /\ StopFollows' /\ CountsInTime'
      /\ NoWordsAfterForm' /\ NoWordsAfterWords' /\ ClosedOnceHandedIn'
           /\ ResumedOnceHandedIn'
  BY <1>1, <1>6, Contents DEF PhaseFits, LobbyIsStill, WiresFit, OpensThisRound,
     OpensAfterResults, StopsBeforeResults, ResultsBeforeOpening, StopsStopped,
     KnowsTheRound, InputsFit, MessagesEnd, TimersEnd, FormsEnd, WordsFit,
     ResumeIsRight, OpenOrSent, StopInTime, ResumeInTime, StopFollows, CountsInTime,
     NoWordsAfterForm, NoWordsAfterWords, ClosedOnceHandedIn, ResumedOnceHandedIn,
     HandedIn
<1>8. Types'
  BY <1>1, <1>3, <1>5, <1>6, Constants, SMTT(60) DEF Types, StopWindow
<1>9. NeverAhead'
  BY <1>0, <1>1 DEF NeverAhead, Numbers
<1>10. OpensNewRound' /\ CountsForThisRound'
  BY <1>0, <1>1, <1>3 DEF OpensNewRound, CountsForThisRound, NeverAhead, Numbers
<1> QED BY <1>7, <1>8, <1>9, <1>10 DEF InOrder, ReviewOutlasts

\* The results, by the others' last form or by the forced end.
LEMMA BeginResultsStep ==
  ASSUME IInv, InRound, BeginResults,
         UNCHANGED <<page, link, up, round, registered, form, ghosts>>
  PROVE  IInv'
<1> USE DEF IInv
<1>0. Numbers
  BY TypesAreNumbers
<1>1. /\ end_in' = NoTimer /\ Tell(<<RoundResults>>)
      /\ \/ round >= MaxRounds /\ phase' = "over" /\ review_in' = NoTimer
         \/ round < MaxRounds /\ phase' = "review" /\ review_in' = RESULTS_PHASE_SECONDS
      /\ UNCHANGED <<retry, reveal, countdown, enabled, values, letter, shown, link, up,
                     round, registered, form, mishaps, losses>>
  BY <1>0, Constants DEF Numbers, BeginResults, page, wires, room, ghosts
<1>2. down' \in Seq(Messages) /\ \E n : Sent(down, down', n, RoundResults)
  BY <1>1, SendAny, Sendable DEF Tell, Types
<1>3. PICK n : Sent(down, down', n, RoundResults)
  BY <1>2
<1>4. InRound /\ review_in = NoTimer
  BY DEF PhaseFits, InRound
<1> USE DEF Is, IsForm, Opens, Told, InRound, NoTimer, Missing, Blank, Sent, Adds,
          IsChannel
<1>5. /\ NeverAhead' /\ OpensThisRound' /\ OpensAfterResults' /\ StopsBeforeResults'
      /\ ResultsBeforeOpening' /\ StopsStopped' /\ KnowsTheRound' /\ OpensNewRound'
      /\ CountsForThisRound' /\ InputsFit' /\ WordsFit' /\ ResumeIsRight'
      /\ OpenOrSent' /\ StopInTime' /\ ResumeInTime' /\ StopFollows'
      /\ CountsInTime' /\ NoWordsAfterForm' /\ NoWordsAfterWords' /\ ClosedOnceHandedIn'
      /\ ResumedOnceHandedIn'
  BY <1>1, <1>3, Contents DEF NeverAhead, OpensThisRound, OpensAfterResults, InOrder,
     StopsBeforeResults, ResultsBeforeOpening, StopsStopped, KnowsTheRound,
     OpensNewRound, CountsForThisRound, InputsFit, WordsFit, ResumeIsRight, OpenOrSent,
     StopInTime, ResumeInTime, StopFollows, CountsInTime, NoWordsAfterForm,
     NoWordsAfterWords, ClosedOnceHandedIn, ResumedOnceHandedIn, Regular
<1>6. Types'
  BY <1>1, <1>2, <1>3, <1>4, Constants DEF Types, WiresFit, InOrder, Timer
<1>7. PhaseFits' /\ LobbyIsStill' /\ WiresFit'
  BY <1>1, <1>3, Constants DEF PhaseFits, LobbyIsStill, WiresFit, NeverAhead
<1>8. MessagesEnd' /\ TimersEnd'
  BY <1>0, <1>1, <1>3, Constants DEF MessagesEnd, TimersEnd, PhaseFits, NeverAhead,
     Elapsed, Numbers, Typed
<1>9. FormsEnd'
  <2>1. \A i \in DOMAIN up : IsForm(i) => up[i].left \in Int /\ up[i].left <= Lag
    BY <1>0 DEF Numbers, Typed
  <2>2. phase' = "review" => Elapsed' = 0
    BY <1>1, Constants DEF Elapsed
  <2> QED BY <1>1, <2>1, <2>2, Constants DEF FormsEnd
<1> QED BY <1>5, <1>6, <1>7, <1>8, <1>9 DEF InOrder, ReviewOutlasts

\* The review ends: the next round opens.  Here nothing may be left of the old one.
LEMMA ReviewEndsStep ==
  ASSUME IInv, ReviewEnds
  PROVE  IInv'
<1> USE DEF IInv
<1>0. Numbers
  BY TypesAreNumbers
<1>1. /\ review_in = 0 /\ review_in' = NoTimer
      /\ phase' = "playing" /\ round' = round + 1 /\ form' = Missing
      /\ mishaps' = IF up = <<>> THEN {} ELSE mishaps
      /\ Tell(<<RoundResults>> \o <<RoundStarted(round + 1)>>)
      /\ UNCHANGED <<retry, reveal, countdown, enabled, values, letter, shown, link, up,
                     end_in, registered, losses>>
  BY <1>0, Constants DEF Numbers, ReviewEnds, StartRound, page, wires, room, ghosts
<1>2. phase = "review" /\ round < MaxRounds /\ round + 1 \in 1..MaxRounds
  BY <1>0, <1>1, Constants DEF PhaseFits, NoTimer, Numbers
<1>3. /\ reveal = NoTimer /\ countdown = NoTimer
      /\ \A i \in DOMAIN down : Is(i, "round_results")
      /\ OldWords \notin mishaps =>
           \A i \in DOMAIN up : IsForm(i) => up[i].msg.form <= Blank
  BY <1>0, <1>1, <1>2, Constants, SMTT(60)
     DEF ReviewOutlasts, MessagesEnd, TimersEnd, FormsEnd, Elapsed, NoTimer, Blank,
         Numbers, IsChannel, Typed, IsForm
<1>4. /\ mishaps' \subseteq mishaps
      /\ OldWords \notin mishaps' => OldWords \notin mishaps \/ DOMAIN up = {}
  BY <1>1
<1>5. Tell(<<RoundResults, RoundStarted(round + 1)>>)
  <2>1. <<RoundResults>> \o <<RoundStarted(round + 1)>>
          = <<RoundResults, RoundStarted(round + 1)>>
    BY PairOf
  <2> QED BY <1>1, <2>1
<1> DEFINE c == Send(down, <<RoundResults>>)
<1>6. c \in Seq(Messages) /\ \E n : Sent(down, c, n, RoundResults)
  BY SendAny, Sendable DEF Types
<1>7. down' = Send(c, <<RoundStarted(round + 1)>>)
  <2>1. /\ [msg |-> RoundResults, left |-> Lag] \in Messages
        /\ [msg |-> RoundStarted(round + 1), left |-> Lag] \in Messages
    BY <1>2, Sendable
  <2>2. down \in Seq(Messages)
    BY DEF Types
  <2>3. Send(down, <<RoundResults, RoundStarted(round + 1)>>)
          = Send(c, <<RoundStarted(round + 1)>>)
    BY <2>1, <2>2, SendTwo
  <2> QED BY <1>5, <2>3 DEF Tell
<1> HIDE DEF c
<1>8. PICK n : Sent(down, c, n, RoundResults)
  BY <1>6
<1>9. down' \in Seq(Messages) /\ \E k : Sent(c, down', k, RoundStarted(round + 1))
  BY <1>2, <1>6, <1>7, SendAny, Sendable
<1>10. PICK k : Sent(c, down', k, RoundStarted(round + 1))
  BY <1>9
<1>11. link = "open" =>
         /\ k \in DOMAIN down' /\ k \in Int /\ 1 <= k
         /\ down'[k].msg.type = "round_started" /\ down'[k].msg.round = round + 1
         /\ \A i \in DOMAIN down' : i = k \/ (i < k /\ down'[i].msg.type = "round_results")
  BY <1>3, <1>8, <1>10, Contents DEF Sent, Adds, Is
<1>12. down' \in Seq(Messages)
  BY <1>9
<1>13. link # "open" => down' = <<>> /\ DOMAIN down' = {}
  BY <1>8, <1>10 DEF Sent, WiresFit
<1> USE DEF Is, IsForm, Opens, Told, InRound, NoTimer, Missing, Blank, IsChannel
<1>14. /\ PhaseFits' /\ LobbyIsStill' /\ WiresFit' /\ OpensThisRound'
       /\ OpensAfterResults' /\ StopsBeforeResults' /\ ResultsBeforeOpening'
            /\ StopsStopped'
       /\ KnowsTheRound' /\ InputsFit' /\ MessagesEnd' /\ TimersEnd'
       /\ FormsEnd' /\ ResumeIsRight' /\ OpenOrSent' /\ StopInTime'
       /\ ResumeInTime' /\ StopFollows' /\ CountsInTime' /\ NoWordsAfterForm'
       /\ ClosedOnceHandedIn'
  BY <1>1, <1>11, <1>13, <1>2 DEF PhaseFits, LobbyIsStill, WiresFit, OpensThisRound,
     OpensAfterResults, StopsBeforeResults, ResultsBeforeOpening, StopsStopped,
     KnowsTheRound, InputsFit, MessagesEnd, TimersEnd, FormsEnd, ResumeIsRight,
     OpenOrSent, StopInTime, ResumeInTime, StopFollows, CountsInTime, NoWordsAfterForm,
     ClosedOnceHandedIn
<1>15. Types'
  BY <1>1, <1>11, <1>12, <1>2, Constants, SMTT(60) DEF Types, Timer
<1>16. NeverAhead'
  BY <1>0, <1>1 DEF NeverAhead, Numbers
<1>17. OpensNewRound' /\ CountsForThisRound'
  BY <1>0, <1>1, <1>3 DEF OpensNewRound, CountsForThisRound, NeverAhead, Numbers
<1>18. WordsFit'
  BY <1>0, <1>1, <1>3 DEF WordsFit, Numbers
<1>19. NoWordsAfterWords'
  BY <1>0, <1>1 DEF NoWordsAfterWords, NeverAhead, Numbers
<1>20. ResumedOnceHandedIn'
  BY <1>0, <1>1 DEF ResumedOnceHandedIn, NeverAhead, HandedIn, Numbers
<1> QED BY <1>14, <1>15, <1>16, <1>17, <1>18, <1>19, <1>20 DEF InOrder, ReviewOutlasts

\* The server reads this player's STOP in a round that is on.
LEMMA ReadsStopStep ==
  ASSUME IInv, registered, up # <<>>, up' = Tail(up), Head(up).msg.type = "stop",
         phase = "playing", StopPhase,
         UNCHANGED <<page, link, registered, round, review_in, form, ghosts>>
  PROVE  IInv'
<1> USE DEF IInv
<1>0. Numbers
  BY TypesAreNumbers
<1>1. /\ phase = "playing" /\ phase' = "stopped" /\ end_in' = StopWindow
      /\ Tell(<<StopRound>>)
      /\ up # <<>> /\ up' = Tail(up) /\ Head(up).msg.type = "stop"
      /\ UNCHANGED <<retry, reveal, countdown, enabled, values, letter, shown, link,
                     round, review_in, registered, form, mishaps, losses>>
  BY <1>0, Constants DEF Numbers, StopPhase, page, wires, room, ghosts
<1>2. up' \in Seq(Messages) /\ Follows(up', up) /\ 1 \in DOMAIN up /\ Head(up) = up[1]
  BY <1>1, ReadOne DEF Types
<1>3. down' \in Seq(Messages) /\ \E n : Sent(down, down', n, StopRound)
  BY <1>1, SendAny, Sendable DEF Tell, Types
<1>4. PICK n : Sent(down, down', n, StopRound)
  BY <1>3
<1>5. up[1].msg.type = "stop"
  BY <1>1, <1>2
<1>6. /\ phase = "playing" /\ phase' = "stopped" /\ end_in' = StopWindow
      /\ UNCHANGED <<retry, reveal, countdown, enabled, values, letter, shown, link,
                     round, review_in, registered, form, mishaps, losses>>
  BY <1>1
<1>7. FormUnderWay => FormUnderWay'
  BY <1>2, <1>5, FormStays DEF IsForm
<1> USE DEF Is, IsForm, Opens, Told, InRound, NoTimer, Missing, Blank, Sent, Adds,
          Follows, IsChannel
<1>8. /\ LobbyIsStill' /\ WiresFit' /\ NeverAhead' /\ OpensThisRound'
      /\ OpensAfterResults' /\ StopsStopped' /\ KnowsTheRound' /\ OpensNewRound'
  BY <1>2, <1>3, <1>4, <1>5, <1>6, <1>7, Contents, SMTT(60) DEF LobbyIsStill, WiresFit,
     NeverAhead, OpensThisRound, OpensAfterResults, InOrder, StopsStopped,
     KnowsTheRound, OpensNewRound
<1>9. /\ CountsForThisRound' /\ InputsFit' /\ MessagesEnd' /\ TimersEnd'
      /\ FormsEnd' /\ ResumeIsRight' /\ ClosedOnceHandedIn' /\ ResumedOnceHandedIn'
  BY <1>2, <1>4, <1>6, Contents DEF InOrder, CountsForThisRound, InputsFit, MessagesEnd,
     TimersEnd, FormsEnd, ResumeIsRight, ClosedOnceHandedIn, ResumedOnceHandedIn,
     HandedIn, Regular
<1>10. Types'
  BY <1>3, <1>6, Constants, SMTT(60) DEF Types, WiresFit, StopWindow, Timer
<1>11. PhaseFits'
  BY <1>6, Constants DEF PhaseFits, StopWindow
<1>12. StopsBeforeResults'
  BY <1>3 DEF StopsBeforeResults, InOrder, PhaseFits, LobbyIsStill, OpensThisRound,
     OpensAfterResults, ResultsBeforeOpening, StopsStopped
<1>13. ResultsBeforeOpening'
  BY <1>4, Contents DEF ResultsBeforeOpening, InOrder
<1>14. WordsFit'
  BY <1>2, <1>5, <1>6, Contents DEF WordsFit
<1>15. OpenOrSent'
  BY <1>4, <1>6, <1>7 DEF OpenOrSent
<1>16. StopInTime'
  BY <1>0, <1>4, <1>6, Constants DEF StopInTime, Numbers, StopWindow, Typed
<1>17. ResumeInTime'
  <2>1. \A i \in DOMAIN down : Is(i, "resume") =>
          /\ down[i].left \in Int /\ down[i].left <= Lag
          /\ down[i].msg.left \in Int /\ down[i].msg.left <= STOP_SUBMIT_SECONDS
    BY <1>0 DEF Numbers, Typed
  <2>2. ASSUME NEW i \in DOMAIN down', Is(i, "resume")'
        PROVE  i \in DOMAIN down /\ Is(i, "resume") /\ down'[i] = down[i]
    BY <1>3, <1>4, <1>6, <2>2, Contents, DownIsEmpty
  <2>3. ASSUME NEW i \in DOMAIN down', Is(i, "resume")', down'[i].msg.left > 0
        PROVE  down'[i].msg.left + STOP_SUBMIT_GRACE_SECONDS - Lag + down'[i].left <= StopWindow
    BY <2>1, <2>2, <2>3, Constants, SMTT(60) DEF StopWindow
  <2> QED BY <1>6, <2>3 DEF ResumeInTime
<1>18. StopFollows'
  <2>1. CASE link = "open"
    BY <1>6, <1>4, <2>1, Contents DEF StopFollows
  <2>2. CASE link # "open"
    BY <1>6, <1>4, <2>2, DownIsEmpty DEF StopFollows
  <2> QED BY <2>1, <2>2
<1>19. CountsInTime'
  BY <1>4, Contents DEF CountsInTime
<1>20. NoWordsAfterForm'
  BY <1>5, <1>6 DEF NoWordsAfterForm, Regular
<1>21. NoWordsAfterWords'
  BY <1>2, <1>6 DEF NoWordsAfterWords, Regular
<1> QED BY <1>8, <1>9, <1>10, <1>11, <1>12, <1>13, <1>14, <1>15, <1>16, <1>17, <1>18,
       <1>19, <1>20, <1>21 DEF InOrder, ReviewOutlasts

\* The server reads a STOP too late.
LEMMA ReadsLateStopStep ==
  ASSUME IInv, registered, up # <<>>, up' = Tail(up), Head(up).msg.type = "stop",
         UNCHANGED <<page, link, down, room, ghosts>>
  PROVE  IInv'
<1> USE DEF IInv
<1>0. Numbers
  BY TypesAreNumbers
<1>1. /\ up # <<>> /\ up' = Tail(up) /\ Head(up).msg.type = "stop"
      /\ UNCHANGED <<retry, reveal, countdown, enabled, values, letter, shown, link, down,
                     phase, round, end_in, review_in, registered, form, mishaps, losses>>
  BY <1>0, Constants DEF Numbers, page, wires, room, ghosts
<1>2. up' \in Seq(Messages) /\ Follows(up', up) /\ 1 \in DOMAIN up /\ Head(up) = up[1]
  BY <1>1, ReadOne DEF Types
<1>3. up[1].msg.type = "stop"
  BY <1>1, <1>2
<1>4. UNCHANGED <<retry, reveal, countdown, enabled, values, letter, shown, link, down,
                  phase, round, end_in, review_in, registered, form, mishaps, losses>>
  BY <1>1
<1>5. FormUnderWay => FormUnderWay'
  BY <1>2, <1>3, FormStays DEF IsForm
<1> USE DEF Is, IsForm, Opens, Told, InRound, NoTimer, Missing, Blank, Follows,
          IsChannel
<1>6. /\ Types' /\ PhaseFits' /\ LobbyIsStill' /\ WiresFit'
      /\ NeverAhead' /\ OpensThisRound' /\ OpensAfterResults' /\ StopsBeforeResults'
      /\ ResultsBeforeOpening' /\ StopsStopped' /\ KnowsTheRound' /\ OpensNewRound'
      /\ CountsForThisRound' /\ InputsFit' /\ MessagesEnd' /\ TimersEnd'
      /\ FormsEnd' /\ WordsFit' /\ ResumeIsRight' /\ StopInTime'
      /\ ResumeInTime' /\ StopFollows' /\ NoWordsAfterForm' /\ NoWordsAfterWords'
      /\ ClosedOnceHandedIn' /\ ResumedOnceHandedIn'
  BY <1>2, <1>4, SMTT(60) DEF Types, PhaseFits, LobbyIsStill, WiresFit, NeverAhead,
     OpensThisRound, OpensAfterResults, InOrder, StopsBeforeResults,
     ResultsBeforeOpening, StopsStopped, KnowsTheRound, OpensNewRound,
     CountsForThisRound, InputsFit, MessagesEnd, TimersEnd, FormsEnd, WordsFit,
     ResumeIsRight, StopInTime, ResumeInTime, StopFollows, NoWordsAfterForm,
     NoWordsAfterWords, ClosedOnceHandedIn, ResumedOnceHandedIn, Elapsed, HandedIn,
     Regular, ReviewOutlasts
<1>7. OpenOrSent'
  BY <1>4, <1>5 DEF OpenOrSent
<1>8. CountsInTime'
  BY <1>4, <1>5 DEF CountsInTime
<1> QED BY <1>6, <1>7, <1>8 DEF InOrder, ReviewOutlasts

\* The server reads a form that is not the last one.
LEMMA ReadsFormStep ==
  ASSUME IInv, registered, up # <<>>, up' = Tail(up), Head(up).msg.type = "answers",
         form' = IF InRound THEN Store(Head(up).msg.form) ELSE form,
         UNCHANGED <<page, link, down, phase, round, end_in, review_in, registered, ghosts>>
  PROVE  IInv'
<1> USE DEF IInv
<1>0. Numbers
  BY TypesAreNumbers
<1>1. /\ up # <<>> /\ up' = Tail(up) /\ Head(up).msg.type = "answers"
      /\ form' = IF InRound /\ Head(up).msg.form # Missing THEN Head(up).msg.form ELSE form
      /\ UNCHANGED <<retry, reveal, countdown, enabled, values, letter, shown, link, down,
                     phase, round, end_in, review_in, registered, mishaps, losses>>
  BY <1>0, Constants DEF Numbers, Store, page, wires, room, ghosts
<1>2. up' \in Seq(Messages) /\ Follows(up', up) /\ 1 \in DOMAIN up /\ Head(up) = up[1]
  BY <1>1, ReadOne DEF Types
<1>3. /\ IsForm(1)
      /\ form' = IF InRound /\ up[1].msg.form # Missing THEN up[1].msg.form ELSE form
  BY <1>1, <1>2 DEF IsForm
<1>4. UNCHANGED <<retry, reveal, countdown, enabled, values, letter, shown, link, down,
                  phase, round, end_in, review_in, registered, mishaps, losses>>
  BY <1>1
<1>5. InRound /\ form' = Missing /\ FormUnderWay => FormUnderWay'
  BY <1>2, <1>3, FormStays
<1> USE DEF Is, IsForm, Opens, Told, InRound, NoTimer, Missing, Blank, Follows,
          IsChannel
<1>6. /\ PhaseFits' /\ LobbyIsStill' /\ WiresFit' /\ NeverAhead'
      /\ OpensThisRound' /\ OpensAfterResults' /\ StopsBeforeResults'
           /\ ResultsBeforeOpening'
      /\ StopsStopped' /\ KnowsTheRound' /\ OpensNewRound' /\ CountsForThisRound'
      /\ InputsFit' /\ MessagesEnd' /\ TimersEnd' /\ FormsEnd'
      /\ WordsFit' /\ ResumeIsRight' /\ StopInTime' /\ ResumeInTime'
      /\ StopFollows' /\ NoWordsAfterWords' /\ ClosedOnceHandedIn'
  BY <1>2, <1>3, <1>4 DEF PhaseFits, LobbyIsStill, WiresFit, NeverAhead, OpensThisRound,
     OpensAfterResults, InOrder, StopsBeforeResults, ResultsBeforeOpening, StopsStopped,
     KnowsTheRound, OpensNewRound, CountsForThisRound, InputsFit, MessagesEnd,
     TimersEnd, FormsEnd, WordsFit, ResumeIsRight, StopInTime, ResumeInTime,
     StopFollows, NoWordsAfterWords, ClosedOnceHandedIn, Elapsed, HandedIn, Regular,
     ReviewOutlasts
<1>7. Types'
  <2>1. form' \in -1..MaxRounds
    BY <1>0, <1>2, <1>3, SMTT(60) DEF Numbers, Typed
  <2> QED BY <1>2, <1>3, <1>4, <1>5, <2>1 DEF Types
<1>8. OpenOrSent'
  BY <1>3, <1>4, <1>5 DEF OpenOrSent
<1>9. CountsInTime'
  BY <1>3, <1>4, <1>5 DEF CountsInTime
<1>10. NoWordsAfterForm'
  BY <1>2, <1>3, <1>4 DEF NoWordsAfterForm, NoWordsAfterWords, Regular
<1>11. ResumedOnceHandedIn'
  BY <1>2, <1>3, <1>4 DEF ResumedOnceHandedIn, HandedIn, NoWordsAfterForm, Regular
<1> QED BY <1>6, <1>7, <1>8, <1>9, <1>10, <1>11 DEF InOrder, ReviewOutlasts

\* The server reads the last form, and sends the results.
LEMMA ReadsLastStep ==
  ASSUME IInv, registered, up # <<>>, up' = Tail(up), Head(up).msg.type = "answers",
         InRound, form' = Store(Head(up).msg.form), BeginResults,
         UNCHANGED <<page, link, round, registered, ghosts>>
  PROVE  IInv'
<1> USE DEF IInv
<1>0. Numbers
  BY TypesAreNumbers
<1>1. /\ up # <<>> /\ up' = Tail(up) /\ Head(up).msg.type = "answers"
      /\ form' = IF Head(up).msg.form # Missing THEN Head(up).msg.form ELSE form
      /\ end_in' = NoTimer /\ Tell(<<RoundResults>>)
      /\ \/ round >= MaxRounds /\ phase' = "over" /\ review_in' = NoTimer
         \/ round < MaxRounds /\ phase' = "review" /\ review_in' = RESULTS_PHASE_SECONDS
      /\ UNCHANGED <<retry, reveal, countdown, enabled, values, letter, shown, link,
                     round, registered, mishaps, losses>>
  <2>0. round \in Int /\ MaxRounds \in Int
    BY <1>0, Constants DEF Numbers
  <2>1. /\ end_in' = NoTimer /\ Tell(<<RoundResults>>)
        /\ \/ round >= MaxRounds /\ phase' = "over" /\ review_in' = NoTimer
           \/ round < MaxRounds /\ phase' = "review" /\ review_in' = RESULTS_PHASE_SECONDS
    BY <2>0 DEF BeginResults
  <2> QED BY <2>1 DEF Store, InRound, page, ghosts
<1>2. up' \in Seq(Messages) /\ Follows(up', up) /\ 1 \in DOMAIN up /\ Head(up) = up[1]
  BY <1>1, ReadOne DEF Types
<1>3. down' \in Seq(Messages) /\ \E n : Sent(down, down', n, RoundResults)
  BY <1>1, SendAny, Sendable DEF Tell, Types
<1>4. PICK n : Sent(down, down', n, RoundResults)
  BY <1>3
<1>5. /\ IsForm(1)
      /\ form' = IF up[1].msg.form # Missing THEN up[1].msg.form ELSE form
  BY <1>1, <1>2 DEF IsForm
<1>6. InRound /\ review_in = NoTimer
  BY DEF PhaseFits, InRound
<1>7. /\ end_in' = NoTimer
      /\ \/ round >= MaxRounds /\ phase' = "over" /\ review_in' = NoTimer
         \/ round < MaxRounds /\ phase' = "review" /\ review_in' = RESULTS_PHASE_SECONDS
      /\ UNCHANGED <<retry, reveal, countdown, enabled, values, letter, shown, link,
                     round, registered, mishaps, losses>>
  BY <1>1
<1> USE DEF Is, IsForm, Opens, Told, InRound, NoTimer, Missing, Blank, Sent, Adds,
          Follows, IsChannel
<1>8. LobbyIsStill' /\ WiresFit'
  BY <1>4, <1>7 DEF LobbyIsStill, WiresFit
<1>9. NeverAhead' /\ OpensThisRound' /\ OpensAfterResults'
  BY <1>2, <1>4, <1>5, <1>7, Contents, SMTT(60) DEF NeverAhead, OpensThisRound, InOrder,
     OpensAfterResults
<1>10. StopsBeforeResults' /\ ResultsBeforeOpening' /\ StopsStopped'
  BY <1>4, <1>7, Contents DEF InOrder, StopsBeforeResults, ResultsBeforeOpening,
     StopsStopped
<1>11. KnowsTheRound' /\ OpensNewRound' /\ CountsForThisRound'
  BY <1>4, <1>7, Contents DEF KnowsTheRound, OpensNewRound, CountsForThisRound
<1>12. /\ InputsFit' /\ WordsFit' /\ ResumeIsRight' /\ OpenOrSent'
       /\ StopInTime' /\ ResumeInTime' /\ StopFollows' /\ CountsInTime'
       /\ NoWordsAfterForm' /\ NoWordsAfterWords' /\ ClosedOnceHandedIn'
            /\ ResumedOnceHandedIn'
  BY <1>2, <1>5, <1>7 DEF InputsFit, WordsFit, ResumeIsRight, OpenOrSent, StopInTime,
     ResumeInTime, StopFollows, CountsInTime, NoWordsAfterForm, NoWordsAfterWords,
     ClosedOnceHandedIn, ResumedOnceHandedIn, Regular
<1>13. Types'
  <2>1. form' \in -1..MaxRounds
    BY <1>0, <1>2, <1>5, SMTT(60) DEF Numbers, Typed
  <2>2. review_in' \in Timer(RESULTS_PHASE_SECONDS) /\ end_in' \in Timer(StopWindow)
    BY <1>1, Constants DEF Timer
  <2> QED BY <1>1, <1>2, <1>3, <2>1, <2>2 DEF Types
<1>14. PhaseFits'
  BY <1>7, Constants DEF PhaseFits, LobbyIsStill, WiresFit
<1>15. MessagesEnd'
  <2>1. phase' = "review" => Elapsed' = 0
    BY <1>7, Constants DEF Elapsed
  <2>2. \A i \in DOMAIN down : down[i].left \in Int /\ down[i].left <= Lag
    BY <1>0 DEF Numbers, Typed
  <2>3. ASSUME NEW i \in DOMAIN down', ~Is(i, "round_results")'
        PROVE  i \in DOMAIN down /\ down'[i] = down[i]
    BY <1>3, <1>4, <2>3, Contents, DownIsEmpty
  <2>4. ASSUME NEW i \in DOMAIN down', ~Is(i, "round_results")', phase' = "review"
        PROVE  down'[i].left + Elapsed' <= Lag
    BY <2>1, <2>2, <2>3, <2>4
  <2> QED BY <2>4 DEF MessagesEnd
<1>16. TimersEnd'
  <2>1. phase' = "review" => Elapsed' = 0
    BY <1>7, Constants DEF Elapsed
  <2>2. reveal \in Int /\ countdown \in Int /\ reveal <= Reveal
          /\ countdown <= STOP_SUBMIT_SECONDS
    BY <1>0 DEF Numbers
  <2> QED BY <1>7, <2>1, <2>2, Constants DEF TimersEnd
<1>17. FormsEnd'
  <2>1. \A i \in DOMAIN up : IsForm(i) => up[i].left \in Int /\ up[i].left <= Lag
    BY <1>0 DEF Numbers, Typed
  <2>2. phase' = "review" => Elapsed' = 0
    BY <1>7, Constants DEF Elapsed
  <2> QED BY <1>7, <1>2, <2>1, <2>2, Constants DEF FormsEnd
<1> QED BY <1>8, <1>9, <1>10, <1>11, <1>12, <1>13, <1>14, <1>15, <1>16, <1>17 DEF
       InOrder, ReviewOutlasts

\* The server notices that the socket is gone.
LEMMA ServerNoticesStep ==
  ASSUME IInv, ServerNotices
  PROVE  IInv'
<1> USE DEF IInv
<1>0. Numbers
  BY TypesAreNumbers
<1>1. /\ registered /\ link # "open"
      /\ registered' = FALSE /\ up' = <<>>
      /\ UNCHANGED <<retry, reveal, countdown, enabled, values, letter, shown, link, down,
                     phase, round, end_in, review_in, form, mishaps, losses>>
  BY <1>0, Constants DEF Numbers, ServerNotices, page, wires, room, ghosts
<1>2. DOMAIN up' = {} /\ up' \in Seq(Messages)
  BY <1>1, EmptyChannel
<1> USE DEF Is, IsForm, Opens, Told, InRound, NoTimer, Missing, Blank, IsChannel
<1>3. /\ Types' /\ PhaseFits' /\ LobbyIsStill' /\ WiresFit'
      /\ NeverAhead' /\ OpensThisRound' /\ OpensAfterResults' /\ StopsBeforeResults'
      /\ ResultsBeforeOpening' /\ StopsStopped' /\ KnowsTheRound' /\ OpensNewRound'
      /\ CountsForThisRound' /\ InputsFit'
  BY <1>1, <1>2 DEF Types, PhaseFits, LobbyIsStill, WiresFit, NeverAhead,
     OpensThisRound, OpensAfterResults, StopsBeforeResults, ResultsBeforeOpening,
     StopsStopped, KnowsTheRound, OpensNewRound, CountsForThisRound, InputsFit
<1>4. /\ MessagesEnd' /\ TimersEnd' /\ FormsEnd' /\ WordsFit'
      /\ ResumeIsRight' /\ OpenOrSent' /\ StopInTime' /\ ResumeInTime'
      /\ StopFollows' /\ CountsInTime' /\ NoWordsAfterForm' /\ NoWordsAfterWords'
      /\ ClosedOnceHandedIn' /\ ResumedOnceHandedIn'
  BY <1>1 DEF MessagesEnd, TimersEnd, FormsEnd, WordsFit, ResumeIsRight, OpenOrSent,
     StopInTime, ResumeInTime, StopFollows, CountsInTime, NoWordsAfterForm,
     NoWordsAfterWords, ClosedOnceHandedIn, ResumedOnceHandedIn, Elapsed, ReviewOutlasts
<1> QED BY <1>3, <1>4 DEF InOrder, ReviewOutlasts

\* The server accepts the socket: in a round that nobody stopped,
LEMMA AcceptPlayingStep ==
  ASSUME IInv, Accept, phase = "playing"
  PROVE  IInv'
<1> USE DEF IInv
<1>0. Numbers
  BY TypesAreNumbers
<1>1. /\ link = "connecting" /\ link' = "open"
      /\ registered' = TRUE /\ up' = <<>>
      /\ down' = [i \in DOMAIN InitialState |-> [msg |-> InitialState[i], left |-> Lag]]
      /\ UNCHANGED <<retry, reveal, countdown, enabled, values, letter, shown, phase,
                     round, end_in, review_in, form, mishaps, losses>>
  BY <1>0, Constants DEF Numbers, Accept, page, wires, room, ghosts
<1>2. /\ up' \in Seq(Messages) /\ DOMAIN up' = {} /\ up' = <<>>
      /\ link' = "open" /\ registered' = TRUE
  BY <1>1, EmptyChannel
<1> DEFINE has == form # Missing
<1>3. /\ InitialState = <<Resume(round, has, NoTimer)>>
      /\ NoTimer \in Timer(STOP_SUBMIT_SECONDS) /\ has \in BOOLEAN
      /\ round \in 1..MaxRounds
  <2>1. InitialState = <<Resume(round, has, NoTimer)>>
    BY DEF InitialState
  <2>2. round \in 1..MaxRounds
    BY <1>0, Constants DEF PhaseFits, Numbers
  <2>3. has \in BOOLEAN
    OBVIOUS
  <2> QED BY <2>1, <2>2, <2>3 DEF Timer
<1>4. /\ down' \in Seq(Messages) /\ DOMAIN down' = {1}
      /\ down'[1].msg = Resume(round, has, NoTimer) /\ down'[1].left = Lag
  <2> HIDE DEF has
  <2>1. [msg |-> Resume(round, has, NoTimer), left |-> Lag] \in Messages
    BY <1>3, Sendable
  <2> QED BY <1>1, <1>3, <2>1, OnlyOne
<1>5. /\ down'[1].msg.type = "resume" /\ down'[1].msg.round = round
      /\ down'[1].msg.left = NoTimer
      /\ form # Missing => down'[1].msg.submitted
      /\ down'[1].msg.submitted => form # Missing
  <2>1. /\ down'[1].msg.type = "resume" /\ down'[1].msg.round = round
        /\ down'[1].msg.left = NoTimer
    BY <1>4, Contents
  <2>2. down'[1].msg.submitted = has
    BY <1>4, Contents
  <2>3. has <=> form # Missing
    OBVIOUS
  <2> HIDE DEF has
  <2> QED BY <2>1, <2>2, <2>3
<1>6. phase = "playing"
  OBVIOUS
<1> USE DEF Is, IsForm, Opens, Told, InRound, NoTimer, Missing, Blank, IsChannel
<1>7. /\ Types' /\ PhaseFits' /\ LobbyIsStill' /\ WiresFit'
      /\ NeverAhead' /\ OpensThisRound' /\ OpensAfterResults' /\ StopsBeforeResults'
      /\ ResultsBeforeOpening' /\ StopsStopped' /\ KnowsTheRound' /\ OpensNewRound'
      /\ CountsForThisRound' /\ InputsFit' /\ MessagesEnd' /\ TimersEnd'
      /\ FormsEnd' /\ WordsFit' /\ ResumeIsRight' /\ OpenOrSent'
      /\ StopInTime' /\ ResumeInTime' /\ StopFollows' /\ CountsInTime'
      /\ NoWordsAfterForm' /\ NoWordsAfterWords' /\ ClosedOnceHandedIn'
  BY <1>1, <1>4, <1>5 DEF Types, PhaseFits, LobbyIsStill, WiresFit, NeverAhead,
     OpensThisRound, OpensAfterResults, StopsBeforeResults, ResultsBeforeOpening,
     StopsStopped, KnowsTheRound, OpensNewRound, CountsForThisRound, InputsFit,
     MessagesEnd, TimersEnd, FormsEnd, WordsFit, ResumeIsRight, OpenOrSent, StopInTime,
     ResumeInTime, StopFollows, CountsInTime, NoWordsAfterForm, NoWordsAfterWords,
     ClosedOnceHandedIn
<1>8. ResumedOnceHandedIn'
  BY <1>0, <1>1, <1>2, <1>4, <1>5, <1>6, SMTT(60) DEF ResumedOnceHandedIn, InOrder,
     HandedIn, Numbers
<1> QED BY <1>7, <1>8 DEF InOrder, ReviewOutlasts

\* in a stopped round,
LEMMA AcceptStoppedStep ==
  ASSUME IInv, Accept, phase = "stopped"
  PROVE  IInv'
<1> USE DEF IInv
<1>0. Numbers
  BY TypesAreNumbers
<1>1. /\ link = "connecting" /\ link' = "open"
      /\ registered' = TRUE /\ up' = <<>>
      /\ down' = [i \in DOMAIN InitialState |-> [msg |-> InitialState[i], left |-> Lag]]
      /\ UNCHANGED <<retry, reveal, countdown, enabled, values, letter, shown, phase,
                     round, end_in, review_in, form, mishaps, losses>>
  BY <1>0, Constants DEF Numbers, Accept, page, wires, room, ghosts
<1>2. /\ up' \in Seq(Messages) /\ DOMAIN up' = {} /\ up' = <<>>
      /\ link' = "open" /\ registered' = TRUE
  BY <1>1, EmptyChannel
<1> DEFINE has == form # Missing
<1>3. /\ InitialState = <<Resume(round, has, StopLeft)>>
      /\ StopLeft \in Timer(STOP_SUBMIT_SECONDS) /\ has \in BOOLEAN
      /\ round \in 1..MaxRounds
  <2>1. InitialState = <<Resume(round, has, StopLeft)>>
    BY DEF InitialState
  <2>2. round \in 1..MaxRounds
    BY <1>0, Constants DEF PhaseFits, Numbers
  <2>3. has \in BOOLEAN
    OBVIOUS
  <2>4. StopLeft \in Timer(STOP_SUBMIT_SECONDS)
    BY <1>0, Constants DEF StopLeft, Timer, Numbers, StopWindow
  <2> QED BY <2>1, <2>2, <2>3, <2>4
<1>4. /\ down' \in Seq(Messages) /\ DOMAIN down' = {1}
      /\ down'[1].msg = Resume(round, has, StopLeft) /\ down'[1].left = Lag
  <2> HIDE DEF has
  <2>1. [msg |-> Resume(round, has, StopLeft), left |-> Lag] \in Messages
    BY <1>3, Sendable
  <2> QED BY <1>1, <1>3, <2>1, OnlyOne
<1>5. /\ down'[1].msg.type = "resume" /\ down'[1].msg.round = round
      /\ down'[1].msg.left = StopLeft
      /\ form # Missing => down'[1].msg.submitted
      /\ down'[1].msg.submitted => form # Missing
  <2>1. /\ down'[1].msg.type = "resume" /\ down'[1].msg.round = round
        /\ down'[1].msg.left = StopLeft
    BY <1>4, Contents
  <2>2. down'[1].msg.submitted = has
    BY <1>4, Contents
  <2>3. has <=> form # Missing
    OBVIOUS
  <2> HIDE DEF has
  <2> QED BY <2>1, <2>2, <2>3
<1>6. /\ phase = "stopped"
      /\ StopLeft # NoTimer
      /\ StopLeft > 0 => StopLeft = end_in - STOP_SUBMIT_GRACE_SECONDS
  BY <1>0, Constants DEF StopLeft, Numbers, NoTimer
<1> USE DEF Is, IsForm, Opens, Told, InRound, NoTimer, Missing, Blank, IsChannel
<1>7. /\ Types' /\ PhaseFits' /\ LobbyIsStill' /\ WiresFit'
      /\ NeverAhead' /\ OpensThisRound' /\ OpensAfterResults' /\ StopsBeforeResults'
      /\ ResultsBeforeOpening' /\ StopsStopped' /\ KnowsTheRound' /\ OpensNewRound'
      /\ CountsForThisRound' /\ InputsFit' /\ MessagesEnd' /\ TimersEnd'
      /\ FormsEnd' /\ WordsFit' /\ ResumeIsRight' /\ OpenOrSent'
      /\ StopFollows' /\ CountsInTime' /\ NoWordsAfterForm' /\ NoWordsAfterWords'
      /\ ClosedOnceHandedIn'
  BY <1>1, <1>4, <1>5, <1>6 DEF Types, PhaseFits, LobbyIsStill, WiresFit, NeverAhead,
     OpensThisRound, OpensAfterResults, StopsBeforeResults, ResultsBeforeOpening,
     StopsStopped, KnowsTheRound, OpensNewRound, CountsForThisRound, InputsFit,
     MessagesEnd, TimersEnd, FormsEnd, WordsFit, ResumeIsRight, OpenOrSent, StopFollows,
     CountsInTime, NoWordsAfterForm, NoWordsAfterWords, ClosedOnceHandedIn
<1>8. StopInTime' /\ ResumeInTime'
  BY <1>0, <1>1, <1>4, <1>5, <1>6, Constants, Contents DEF StopInTime, ResumeInTime,
     InOrder, Numbers
<1>9. ResumedOnceHandedIn'
  BY <1>0, <1>1, <1>4, <1>5 DEF ResumedOnceHandedIn, WiresFit, HandedIn, Numbers
<1> QED BY <1>7, <1>8, <1>9 DEF InOrder, ReviewOutlasts

\* in a review or after the game,
LEMMA AcceptEndedStep ==
  ASSUME IInv, Accept, phase \in {"review", "over"}
  PROVE  IInv'
<1> USE DEF IInv
<1>0. Numbers
  BY TypesAreNumbers
<1>1. /\ link = "connecting" /\ link' = "open"
      /\ registered' = TRUE /\ up' = <<>>
      /\ down' = [i \in DOMAIN InitialState |-> [msg |-> InitialState[i], left |-> Lag]]
      /\ UNCHANGED <<retry, reveal, countdown, enabled, values, letter, shown, phase,
                     round, end_in, review_in, form, mishaps, losses>>
  BY <1>0, Constants DEF Numbers, Accept, page, wires, room, ghosts
<1>2. /\ up' \in Seq(Messages) /\ DOMAIN up' = {} /\ up' = <<>>
      /\ link' = "open" /\ registered' = TRUE
  BY <1>1, EmptyChannel
<1>3. InitialState = <<RoundResults>>
  BY DEF InitialState
<1>4. /\ down' \in Seq(Messages) /\ DOMAIN down' = {1}
      /\ down'[1].msg = RoundResults /\ down'[1].left = Lag
  BY <1>1, <1>3, Sendable, OnlyOne
<1>5. phase \in {"review", "over"}
  OBVIOUS
<1> USE DEF Is, IsForm, Opens, Told, InRound, NoTimer, Missing, Blank, IsChannel
<1>6. /\ Types' /\ PhaseFits' /\ LobbyIsStill' /\ WiresFit'
      /\ NeverAhead' /\ OpensThisRound' /\ OpensAfterResults' /\ StopsBeforeResults'
      /\ ResultsBeforeOpening' /\ StopsStopped' /\ KnowsTheRound' /\ OpensNewRound'
      /\ CountsForThisRound' /\ InputsFit' /\ MessagesEnd' /\ TimersEnd'
      /\ FormsEnd' /\ WordsFit' /\ ResumeIsRight' /\ OpenOrSent'
      /\ StopInTime' /\ ResumeInTime' /\ StopFollows' /\ CountsInTime'
      /\ NoWordsAfterForm' /\ NoWordsAfterWords' /\ ClosedOnceHandedIn'
           /\ ResumedOnceHandedIn'
  BY <1>1, <1>2, <1>4, Contents, ZenonT(60) DEF Types, PhaseFits, LobbyIsStill,
     WiresFit, NeverAhead, OpensThisRound, OpensAfterResults, StopsBeforeResults,
     ResultsBeforeOpening, StopsStopped, KnowsTheRound, OpensNewRound,
     CountsForThisRound, InputsFit, MessagesEnd, TimersEnd, FormsEnd, WordsFit,
     ResumeIsRight, OpenOrSent, StopInTime, ResumeInTime, StopFollows, CountsInTime,
     NoWordsAfterForm, NoWordsAfterWords, ClosedOnceHandedIn, ResumedOnceHandedIn,
     Elapsed, Regular, ReviewOutlasts
<1> QED BY <1>6 DEF InOrder, ReviewOutlasts

\* and before the game.
LEMMA AcceptLobbyStep ==
  ASSUME IInv, Accept, phase = "lobby"
  PROVE  IInv'
<1> USE DEF IInv
<1>0. Numbers
  BY TypesAreNumbers
<1>1. /\ link = "connecting" /\ link' = "open"
      /\ registered' = TRUE /\ up' = <<>>
      /\ down' = [i \in DOMAIN InitialState |-> [msg |-> InitialState[i], left |-> Lag]]
      /\ UNCHANGED <<retry, reveal, countdown, enabled, values, letter, shown, phase,
                     round, end_in, review_in, form, mishaps, losses>>
  BY <1>0, Constants DEF Numbers, Accept, page, wires, room, ghosts
<1>2. /\ up' \in Seq(Messages) /\ DOMAIN up' = {} /\ up' = <<>>
      /\ link' = "open" /\ registered' = TRUE
  BY <1>1, EmptyChannel
<1>3. InitialState = <<>>
  BY DEF InitialState
<1>4. down' = <<>> /\ DOMAIN down' = {} /\ down' \in Seq(Messages) /\ phase = "lobby"
  <2>1. [i \in DOMAIN <<>> |-> [msg |-> <<>>[i], left |-> Lag]] = <<>>
    OBVIOUS
  <2> QED BY <1>1, <1>3, <2>1, EmptyChannel
<1> USE DEF Is, IsForm, Opens, Told, InRound, NoTimer, Missing, Blank, IsChannel
<1>5. /\ Types' /\ PhaseFits' /\ LobbyIsStill' /\ WiresFit'
      /\ NeverAhead' /\ OpensThisRound' /\ OpensAfterResults' /\ StopsBeforeResults'
      /\ ResultsBeforeOpening' /\ StopsStopped' /\ KnowsTheRound' /\ OpensNewRound'
      /\ CountsForThisRound' /\ InputsFit' /\ MessagesEnd' /\ TimersEnd'
      /\ FormsEnd' /\ WordsFit' /\ ResumeIsRight' /\ OpenOrSent'
      /\ StopInTime' /\ ResumeInTime' /\ StopFollows' /\ CountsInTime'
      /\ NoWordsAfterForm' /\ NoWordsAfterWords' /\ ClosedOnceHandedIn'
           /\ ResumedOnceHandedIn'
  BY <1>1, <1>4 DEF Types, PhaseFits, LobbyIsStill, WiresFit, NeverAhead,
     OpensThisRound, OpensAfterResults, StopsBeforeResults, ResultsBeforeOpening,
     StopsStopped, KnowsTheRound, OpensNewRound, CountsForThisRound, InputsFit,
     MessagesEnd, TimersEnd, FormsEnd, WordsFit, ResumeIsRight, OpenOrSent, StopInTime,
     ResumeInTime, StopFollows, CountsInTime, NoWordsAfterForm, NoWordsAfterWords,
     ClosedOnceHandedIn, ResumedOnceHandedIn
<1> QED BY <1>5 DEF InOrder, ReviewOutlasts

\* The page reads that a round has started.
LEMMA ReadsRoundStartedStep ==
  ASSUME IInv, PageReads, Head(down).msg.type = "round_started"
  PROVE  IInv'
<1> USE DEF IInv
<1>0. Numbers
  BY TypesAreNumbers
<1>1. /\ link = "open" /\ down # <<>> /\ down' = Tail(down)
      /\ letter' = Head(down).msg.round /\ reveal' = Reveal
      /\ Head(down).msg.type = "round_started"
      /\ UNCHANGED <<retry, countdown, enabled, values, shown, link, up, phase, round,
                     end_in, review_in, registered, form, mishaps, losses>>
  BY <1>0, Constants DEF Numbers, PageReads, OnRoundStartedFresh, page, wires, room, ghosts
<1>2. down' \in Seq(Messages) /\ Follows(down', down) /\ 1 \in DOMAIN down
        /\ Head(down) = down[1]
  BY <1>1, ReadOne DEF Types
<1>3. down[1].msg.type = "round_started"
  BY <1>1, <1>2
<1>4. letter' = round
  BY <1>1, <1>2, <1>3 DEF InOrder, OpensThisRound, Opens, Is
<1>5. Told' /\ \A i \in DOMAIN down : Opens(i) => i = 1
  <2>1. \A i \in DOMAIN down : i = 1 \/ 1 < i
    BY <1>0 DEF Numbers, IsChannel
  <2>2. \A i \in DOMAIN down : Opens(i) => i = 1
    BY <1>2, <1>3, <2>1 DEF InOrder, OpensAfterResults, Is
  <2> QED BY <1>2, <2>2 DEF Follows, Told, Opens, Is
<1> USE DEF Is, IsForm, Opens, Told, InRound, NoTimer, Missing, Blank, Follows,
          IsChannel
<1>6. /\ PhaseFits' /\ LobbyIsStill' /\ WiresFit' /\ OpensThisRound'
      /\ OpensAfterResults' /\ StopsStopped' /\ KnowsTheRound' /\ FormsEnd'
      /\ WordsFit' /\ ResumeIsRight' /\ StopInTime' /\ ResumeInTime'
      /\ NoWordsAfterForm' /\ NoWordsAfterWords' /\ ResumedOnceHandedIn'
  BY <1>1, <1>2, <1>3, <1>4, <1>5, Contents DEF PhaseFits, LobbyIsStill, WiresFit,
     StopWindow, OpensThisRound, OpensAfterResults, InOrder, StopsStopped,
     KnowsTheRound, FormsEnd, Elapsed, ReviewOutlasts, WordsFit, ResumeIsRight,
     StopInTime, ResumeInTime, NoWordsAfterForm, Regular, NoWordsAfterWords,
     ResumedOnceHandedIn, HandedIn
<1>7. Types'
  BY <1>1, <1>4, <1>5, Constants DEF Types, Timer
<1>8. NeverAhead'
  BY <1>0, <1>1, <1>3, <1>4, SMTT(60) DEF NeverAhead, WiresFit, Numbers, Typed
<1>9. StopsBeforeResults' /\ ResultsBeforeOpening'
  BY <1>1, <1>2, <1>3, <1>5 DEF StopsBeforeResults, ResultsBeforeOpening, InOrder,
     PhaseFits, LobbyIsStill, WiresFit, StopsStopped
<1>10. OpensNewRound' /\ CountsForThisRound'
  BY <1>1, <1>4, <1>5 DEF OpensNewRound, CountsForThisRound
<1>11. InputsFit'
  BY <1>1, <1>2, Constants DEF InputsFit, OpensNewRound
<1>12. MessagesEnd' /\ TimersEnd'
  BY <1>0, <1>1, <1>2, Constants DEF MessagesEnd, TimersEnd, Elapsed, Numbers,
     ReviewOutlasts, Typed
<1>13. OpenOrSent'
  BY <1>1, Constants DEF OpenOrSent
<1>14. StopFollows'
  BY <1>1, <1>5 DEF StopFollows
<1>15. CountsInTime'
  BY <1>0, <1>1, <1>2, <1>3, <1>4, <1>5, Contents, Constants, SMTT(60) DEF CountsInTime,
     FormUnderWay, StopWindow, Numbers, PhaseFits, LobbyIsStill, WiresFit, NeverAhead,
     InOrder, StopFollows, OpensThisRound, OpensAfterResults, StopsBeforeResults,
     ResultsBeforeOpening, StopsStopped
<1>16. ClosedOnceHandedIn'
  BY <1>1, <1>2 DEF ClosedOnceHandedIn, HandedIn, Regular, ResumedOnceHandedIn
<1> QED BY <1>6, <1>7, <1>8, <1>9, <1>10, <1>11, <1>12, <1>13, <1>14, <1>15, <1>16 DEF
       InOrder, ReviewOutlasts

\* The page reads the stop of the round.
LEMMA ReadsStopRoundStep ==
  ASSUME IInv, PageReads, Head(down).msg.type = "stop_round"
  PROVE  IInv'
<1> USE DEF IInv
<1>0. Numbers
  BY TypesAreNumbers
<1>1. /\ link = "open" /\ down # <<>> /\ down' = Tail(down)
      /\ countdown' = STOP_SUBMIT_SECONDS
      /\ Head(down).msg.type = "stop_round"
      /\ UNCHANGED <<retry, reveal, enabled, values, letter, shown, link, up, phase,
                     round, end_in, review_in, registered, form, mishaps, losses>>
  BY <1>0, Constants DEF Numbers, PageReads, OnStopRound, page, wires, room, ghosts
<1>2. down' \in Seq(Messages) /\ Follows(down', down) /\ 1 \in DOMAIN down
        /\ Head(down) = down[1]
  BY <1>1, ReadOne DEF Types
<1>3. down[1].msg.type = "stop_round"
  BY <1>1, <1>2
<1>4. Told' /\ \A i \in DOMAIN down : Opens(i) => i = 1
  <2>1. \A i \in DOMAIN down : i = 1 \/ 1 < i
    BY <1>0 DEF Numbers, IsChannel
  <2>2. \A i \in DOMAIN down : Opens(i) => i = 1
    BY <1>2, <1>3, <2>1 DEF InOrder, OpensAfterResults, Is
  <2> QED BY <1>2, <2>2 DEF Follows, Told, Opens, Is
<1>5. Told
  BY <1>3, <1>4 DEF Told, Opens, Is
<1> USE DEF Is, IsForm, Opens, Told, InRound, NoTimer, Missing, Blank, Follows,
          IsChannel
<1>6. /\ PhaseFits' /\ LobbyIsStill' /\ WiresFit' /\ NeverAhead'
      /\ OpensThisRound' /\ OpensAfterResults' /\ StopsBeforeResults'
           /\ ResultsBeforeOpening'
      /\ StopsStopped' /\ FormsEnd' /\ WordsFit' /\ ResumeIsRight'
      /\ StopInTime' /\ ResumeInTime' /\ NoWordsAfterForm' /\ NoWordsAfterWords'
      /\ ResumedOnceHandedIn'
  BY <1>1, <1>2 DEF PhaseFits, LobbyIsStill, WiresFit, NeverAhead, OpensThisRound,
     OpensAfterResults, InOrder, StopsBeforeResults, ResultsBeforeOpening, StopsStopped,
     FormsEnd, WordsFit, ResumeIsRight, StopInTime, ResumeInTime, NoWordsAfterForm,
     NoWordsAfterWords, ResumedOnceHandedIn, Elapsed, Regular, ReviewOutlasts
<1>7. Types'
  BY <1>0, <1>1, Constants, SMTT(60) DEF Types, StopWindow, Timer
<1>8. KnowsTheRound'
  BY <1>1, <1>2, <1>5 DEF KnowsTheRound
<1>9. OpensNewRound'
  BY <1>0, <1>1, <1>2, <1>3, <1>4, <1>5, Contents, Constants DEF OpensNewRound, Numbers,
     PhaseFits, LobbyIsStill, WiresFit, NeverAhead, InOrder, OpensThisRound,
     OpensAfterResults, StopsBeforeResults, ResultsBeforeOpening, StopsStopped
<1>10. CountsForThisRound'
  BY <1>1, <1>2, <1>5 DEF CountsForThisRound, KnowsTheRound
<1>11. InputsFit'
  BY <1>0, <1>1, Constants DEF InputsFit, Numbers
<1>12. MessagesEnd' /\ TimersEnd'
  BY <1>0, <1>1, <1>2, Constants DEF MessagesEnd, TimersEnd, Elapsed, Numbers,
     ReviewOutlasts, Typed
<1>13. OpenOrSent'
  BY <1>1, <1>5 DEF OpenOrSent, FormUnderWay
<1>14. StopFollows'
  BY <1>1, <1>4 DEF StopFollows
<1>15. CountsInTime'
  BY <1>0, <1>1, <1>2, <1>5, Constants DEF CountsInTime, FormUnderWay, Numbers,
     OpenOrSent, StopInTime, StopWindow, Typed
<1>16. ClosedOnceHandedIn'
  BY <1>1, <1>5 DEF ClosedOnceHandedIn, HandedIn, Regular
<1> QED BY <1>6, <1>7, <1>8, <1>9, <1>10, <1>11, <1>12, <1>13, <1>14, <1>15, <1>16 DEF
       InOrder, ReviewOutlasts

\* The page reads the results.
LEMMA ReadsRoundResultsStep ==
  ASSUME IInv, PageReads, Head(down).msg.type = "round_results"
  PROVE  IInv'
<1> USE DEF IInv
<1>0. Numbers
  BY TypesAreNumbers
<1>1. /\ link = "open" /\ down # <<>> /\ down' = Tail(down)
      /\ countdown' = NoTimer /\ shown' = letter
      /\ Head(down).msg.type = "round_results"
      /\ UNCHANGED <<retry, reveal, enabled, values, letter, link, up, phase, round,
                     end_in, review_in, registered, form, mishaps, losses>>
  BY <1>0, Constants DEF Numbers, PageReads, OnRoundResults, ClearClientRoundTimers, page,
     wires, room, ghosts
<1>2. down' \in Seq(Messages) /\ Follows(down', down) /\ 1 \in DOMAIN down
        /\ Head(down) = down[1]
  BY <1>1, ReadOne DEF Types
<1>3. down[1].msg.type = "round_results"
  BY <1>1, <1>2
<1>4. Told' => Told
  BY <1>2, <1>3 DEF Follows, Told, Opens, Is
<1>5. InRound => ~Told'
  <2> SUFFICES ASSUME InRound PROVE ~Told'
    OBVIOUS
  <2>1. PICK i \in DOMAIN down : 1 < i /\ Opens(i)
    BY <1>2, <1>3 DEF InOrder, ResultsBeforeOpening, Is
  <2>2. i - 1 \in DOMAIN down' /\ down'[i - 1] = down[i]
    BY <1>2, <2>1 DEF Follows
  <2> QED BY <2>1, <2>2 DEF Told, Opens, Is
<1>6. (\E i \in DOMAIN down : Is(i, "stop_round"))
        => \E i \in DOMAIN down' : down'[i].msg.type = "stop_round"
  BY <1>2, <1>3 DEF Follows, Is
<1> USE DEF Is, IsForm, Opens, Told, InRound, NoTimer, Missing, Blank, Follows,
          IsChannel
<1>7. /\ Types' /\ PhaseFits' /\ LobbyIsStill' /\ WiresFit'
      /\ OpensThisRound' /\ OpensAfterResults' /\ StopsBeforeResults' /\ StopsStopped'
      /\ OpensNewRound' /\ CountsForThisRound'
  BY <1>1, <1>2 DEF Types, PhaseFits, LobbyIsStill, WiresFit, OpensThisRound,
     OpensAfterResults, InOrder, StopsBeforeResults, StopsStopped, OpensNewRound,
     CountsForThisRound, Timer
<1>8. /\ InputsFit' /\ MessagesEnd' /\ TimersEnd' /\ FormsEnd'
      /\ WordsFit' /\ ResumeIsRight' /\ StopInTime' /\ ResumeInTime'
      /\ NoWordsAfterForm' /\ NoWordsAfterWords' /\ ResumedOnceHandedIn'
  BY <1>1, <1>2 DEF InputsFit, MessagesEnd, TimersEnd, FormsEnd, WordsFit,
     ResumeIsRight, StopInTime, ResumeInTime, NoWordsAfterForm, NoWordsAfterWords,
     ResumedOnceHandedIn, Elapsed, HandedIn, Regular, ReviewOutlasts
<1>9. NeverAhead'
  BY <1>0, <1>1 DEF NeverAhead, Numbers
<1>10. ResultsBeforeOpening'
  <2> SUFFICES ASSUME InRound', NEW j \in DOMAIN down', Is(j, "round_results")'
               PROVE  \E i \in DOMAIN down' : j < i /\ Opens(i)'
    BY DEF ResultsBeforeOpening
  <2>1. j \in Int /\ j + 1 \in DOMAIN down /\ down'[j] = down[j + 1]
    BY <1>2
  <2>2. InRound
    BY <1>1
  <2>3. PICK i \in DOMAIN down : j + 1 < i /\ Opens(i)
    BY <2>1, <2>2 DEF InOrder, ResultsBeforeOpening
  <2>4. i \in Int /\ 1 < i
    BY <1>0, <1>2, <2>1, <2>3, SMTT(60) DEF Numbers
  <2>5. i - 1 \in DOMAIN down' /\ down'[i - 1] = down[i]
    BY <1>2, <2>4
  <2> QED BY <2>1, <2>3, <2>4, <2>5
<1>11. KnowsTheRound'
  BY <1>1, <1>2, <1>4 DEF KnowsTheRound
<1>12. OpenOrSent'
  BY <1>1, <1>5 DEF OpenOrSent
<1>13. StopFollows'
  <2> SUFFICES ASSUME phase' = "stopped", NEW i \in DOMAIN down',
                      \/ Is(i, "round_started")'
                      \/ Is(i, "resume")' /\ down'[i].msg.left = NoTimer
               PROVE  \E j \in DOMAIN down' : Is(j, "stop_round")'
    BY DEF StopFollows
  <2>1. i + 1 \in DOMAIN down /\ down'[i] = down[i + 1] /\ phase = "stopped"
    BY <1>1, <1>2
  <2>2. \E j \in DOMAIN down : Is(j, "stop_round")
    BY <2>1 DEF StopFollows
  <2> QED BY <1>6, <2>2
<1>14. CountsInTime'
  BY <1>1, <1>5 DEF CountsInTime
<1>15. ClosedOnceHandedIn'
  BY <1>1, <1>5 DEF ClosedOnceHandedIn, Regular
<1> QED BY <1>7, <1>8, <1>9, <1>10, <1>11, <1>12, <1>13, <1>14, <1>15 DEF InOrder,
       ReviewOutlasts

\* The page reads a resume with time left, or in a round that nobody stopped.
LEMMA ReadsResumeStep ==
  ASSUME IInv, PageReads, Head(down).msg.type = "resume", Head(down).msg.left # 0
  PROVE  IInv'
<1> USE DEF IInv
<1>0. Numbers
  BY TypesAreNumbers
<1>1. /\ link = "open" /\ down # <<>> /\ down' = Tail(down)
      /\ letter' = Head(down).msg.round /\ shown' = Head(down).msg.round
      /\ Head(down).msg.type = "resume"
      /\ countdown' = IF Head(down).msg.left > 0 THEN Head(down).msg.left ELSE NoTimer
      /\ values' = IF ~Head(down).msg.submitted THEN Blank ELSE values
      /\ Head(down).msg.left # 0
      /\ enabled' = ~Head(down).msg.submitted
      /\ up' = up
      /\ UNCHANGED <<retry, reveal, link, up, phase, round, end_in, review_in, registered,
                     form, mishaps, losses>>
  BY <1>0, Constants DEF Numbers, PageReads, OnRoundStartedResume, Locked, page, wires,
     room, ghosts
<1>2. down' \in Seq(Messages) /\ Follows(down', down) /\ 1 \in DOMAIN down
        /\ Head(down) = down[1]
  BY <1>1, ReadOne DEF Types
<1>3. down[1].msg.type = "resume"
  BY <1>1, <1>2
<1>4. /\ letter' = round /\ shown' = round /\ down[1].msg.left # 0
      /\ countdown' = IF down[1].msg.left > 0 THEN down[1].msg.left ELSE NoTimer
      /\ values' = IF down[1].msg.submitted THEN values ELSE Blank
  BY <1>1, <1>2, <1>3 DEF InOrder, OpensThisRound, Opens, Is
<1>5. /\ enabled' => ~down[1].msg.submitted
      /\ ~down[1].msg.submitted => enabled'
      /\ enabled' \in BOOLEAN
  BY <1>1, <1>2, Zenon
<1>6. /\ link = "open"
      /\ UNCHANGED <<retry, reveal, link, up, phase, round, end_in, review_in, registered,
                     form, mishaps, losses>>
  BY <1>1
<1>13. Told' /\ \A i \in DOMAIN down : Opens(i) => i = 1
  <2>1. \A i \in DOMAIN down : i = 1 \/ 1 < i
    BY <1>0 DEF Numbers, IsChannel
  <2>2. \A i \in DOMAIN down : Opens(i) => i = 1
    BY <1>2, <1>3, <2>1 DEF InOrder, OpensAfterResults, Is
  <2> QED BY <1>2, <2>2 DEF Follows, Told, Opens, Is
<1> USE DEF Is, IsForm, Opens, Told, InRound, NoTimer, Missing, Blank, Follows,
          IsChannel
<1>14. /\ PhaseFits' /\ LobbyIsStill' /\ WiresFit' /\ OpensThisRound'
       /\ OpensAfterResults' /\ StopsStopped' /\ KnowsTheRound' /\ InputsFit'
       /\ MessagesEnd' /\ FormsEnd' /\ WordsFit' /\ ResumeIsRight'
       /\ StopInTime' /\ ResumeInTime' /\ NoWordsAfterForm' /\ NoWordsAfterWords'
       /\ ResumedOnceHandedIn'
  BY <1>2, <1>4, <1>5, <1>6, SMTT(60) DEF PhaseFits, LobbyIsStill, WiresFit,
     OpensThisRound, OpensAfterResults, InOrder, StopsStopped, KnowsTheRound, InputsFit,
     MessagesEnd, FormsEnd, WordsFit, ResumeIsRight, StopInTime, ResumeInTime,
     NoWordsAfterForm, NoWordsAfterWords, ResumedOnceHandedIn, Elapsed, Regular,
     ReviewOutlasts
<1>15. Types'
  <2>1. countdown' \in Timer(STOP_SUBMIT_SECONDS)
    <3>1. /\ down[1].msg.left \in Int /\ -1 <= down[1].msg.left
          /\ down[1].msg.left <= STOP_SUBMIT_SECONDS
      BY <1>0, <1>2, <1>3 DEF Numbers, Typed
    <3>2. CASE down[1].msg.left > 0
      BY <1>4, <3>1, <3>2, Constants DEF Timer
    <3>3. CASE ~(down[1].msg.left > 0)
      BY <1>4, <3>3 DEF Timer
    <3> QED BY <3>2, <3>3
  <2>2. {values', letter', shown'} \subseteq 0..MaxRounds
    BY <1>0, <1>4, Constants DEF Numbers
  <2>3. /\ enabled' \in BOOLEAN /\ round' = round
        /\ UNCHANGED <<retry, reveal, link, up, phase, end_in, review_in, registered,
                       form, mishaps, losses>>
    BY <1>5, <1>6
  <2> QED BY <1>2, <2>1, <2>2, <2>3 DEF Types
<1>16. NeverAhead'
  BY <1>0, <1>4, <1>6 DEF NeverAhead, InOrder, OpensAfterResults, Numbers, Typed
<1>17. StopsBeforeResults' /\ ResultsBeforeOpening'
  BY <1>0, <1>13, <1>2, <1>3, <1>6, Constants, Contents, SMTT(60) DEF
     StopsBeforeResults, ResultsBeforeOpening, InOrder, LobbyIsStill, WiresFit
<1>18. OpensNewRound' /\ CountsForThisRound'
  BY <1>13, <1>4, <1>6 DEF OpensNewRound, CountsForThisRound
<1>19. TimersEnd'
  BY <1>0, <1>2, <1>3, <1>4, <1>13, <1>5, <1>6, Contents, Constants, SMTT(60) DEF
     TimersEnd, Elapsed, ReviewOutlasts, Numbers, PhaseFits, LobbyIsStill, WiresFit,
     NeverAhead, InOrder, MessagesEnd, Typed, OpensThisRound, OpensAfterResults,
     StopsBeforeResults, ResultsBeforeOpening, StopsStopped
<1>20. OpenOrSent'
  BY <1>2, <1>5, <1>6 DEF OpenOrSent, ResumeIsRight
<1>21. StopFollows'
  BY <1>13 DEF StopFollows
<1>22. CountsInTime'
  <2> SUFFICES ASSUME phase' = "stopped", form' = Missing,
                      \A i \in DOMAIN down' : ~Is(i, "stop_round")'
               PROVE  countdown' # NoTimer /\ countdown' + Lag < end_in' /\ enabled'
    BY DEF CountsInTime
  <2>1. phase = "stopped" /\ form = Missing
    BY <1>6
  <2>2. ~down[1].msg.submitted
    BY <1>2, <1>3, <2>1 DEF ResumeIsRight
  <2>3. \A i \in DOMAIN down : ~Is(i, "stop_round")
    BY <1>2, <1>3
  <2>4. down[1].msg.left # NoTimer
    BY <1>2, <1>3, <2>1, <2>3 DEF StopFollows
  <2>5. /\ down[1].msg.left \in Int /\ -1 <= down[1].msg.left
        /\ down[1].left \in Int /\ 0 <= down[1].left
    BY <1>0, <1>2, <1>3 DEF Numbers, Typed
  <2>6. down[1].msg.left > 0
    BY <1>4, <2>4, <2>5
  <2>7. down[1].msg.left + STOP_SUBMIT_GRACE_SECONDS - Lag + down[1].left <= end_in
    BY <1>2, <1>3, <2>1, <2>6 DEF ResumeInTime
  <2>8. end_in' = end_in /\ end_in \in Int /\ countdown' = down[1].msg.left
    BY <1>0, <1>4, <1>6, <2>6 DEF Numbers
  <2>9. countdown' # NoTimer /\ countdown' + Lag < end_in'
    BY <2>5, <2>6, <2>7, <2>8, Constants
  <2> QED BY <1>5, <2>2, <2>9
<1>23. ClosedOnceHandedIn'
  BY <1>2, <1>4, <1>5, <1>6 DEF ClosedOnceHandedIn, HandedIn, Regular,
     ResumedOnceHandedIn
<1> QED BY <1>14, <1>15, <1>16, <1>17, <1>18, <1>19, <1>20, <1>21, <1>22, <1>23 DEF
       InOrder, ReviewOutlasts

\* The page reads a resume with no time left, and hands in at once.
LEMMA ReadsLateResumeStep ==
  ASSUME IInv, PageReads, Head(down).msg.type = "resume", Head(down).msg.left = 0
  PROVE  IInv'
<1> USE DEF IInv
<1>0. Numbers
  BY TypesAreNumbers
<1>1. /\ link = "open" /\ down # <<>> /\ down' = Tail(down)
      /\ letter' = Head(down).msg.round /\ shown' = Head(down).msg.round
      /\ Head(down).msg.type = "resume"
      /\ countdown' = IF Head(down).msg.left > 0 THEN Head(down).msg.left ELSE NoTimer
      /\ values' = IF ~Head(down).msg.submitted THEN Blank ELSE values
      /\ Head(down).msg.left = 0
      /\ enabled' = FALSE
      /\ up' = Send(up, <<Answers(IF ~Head(down).msg.submitted THEN Blank ELSE Missing)>>)
      /\ UNCHANGED <<retry, reveal, link, phase, round, end_in, review_in, registered,
                     form, mishaps, losses>>
  BY <1>0, Constants DEF Numbers, PageReads, OnRoundStartedResume, Locked, page, wires,
     room, ghosts
<1>2. down' \in Seq(Messages) /\ Follows(down', down) /\ 1 \in DOMAIN down
        /\ Head(down) = down[1]
  BY <1>1, ReadOne DEF Types
<1>3. down[1].msg.type = "resume"
  BY <1>1, <1>2
<1>4. /\ letter' = round /\ shown' = round /\ down[1].msg.left = 0
      /\ countdown' = IF down[1].msg.left > 0 THEN down[1].msg.left ELSE NoTimer
      /\ values' = IF down[1].msg.submitted THEN values ELSE Blank
  BY <1>1, <1>2, <1>3 DEF InOrder, OpensThisRound, Opens, Is
<1>5. ~enabled' /\ enabled' \in BOOLEAN
  BY <1>1
<1>6. /\ link = "open"
      /\ UNCHANGED <<retry, reveal, link, phase, round, end_in, review_in, registered,
                     form, mishaps, losses>>
  BY <1>1
<1> DEFINE f == IF ~down[1].msg.submitted THEN Blank ELSE Missing
<1>7. f \in -1..MaxRounds
  BY Constants DEF Blank, Missing
<1>8. up' \in Seq(Messages) /\ \E n : Sent(up, up', n, Answers(f))
  <2>1. up' = Send(up, <<Answers(f)>>)
    BY <1>1, <1>2
  <2> QED BY <1>7, <2>1, SendAny, Sendable DEF Types
<1>9. PICK n : Sent(up, up', n, Answers(f))
  BY <1>8
<1>10. f = IF down[1].msg.submitted THEN Missing ELSE Blank
  OBVIOUS
<1> HIDE DEF f
<1>11. /\ up' \in Seq(Messages)
       /\ n \in Int /\ 1 <= n /\ DOMAIN up' = DOMAIN up \cup {n}
       /\ \A i \in DOMAIN up : i < n /\ up'[i] = up[i]
       /\ up'[n].msg.type = "answers" /\ up'[n].left = Lag
       /\ up'[n].msg.form = IF down[1].msg.submitted THEN Missing ELSE Blank
  BY <1>6, <1>8, <1>9, <1>10, Contents, SMTT(60) DEF Sent, Adds
<1>13. Told' /\ \A i \in DOMAIN down : Opens(i) => i = 1
  <2>1. \A i \in DOMAIN down : i = 1 \/ 1 < i
    BY <1>0 DEF Numbers, IsChannel
  <2>2. \A i \in DOMAIN down : Opens(i) => i = 1
    BY <1>2, <1>3, <2>1 DEF InOrder, OpensAfterResults, Is
  <2> QED BY <1>2, <2>2 DEF Follows, Told, Opens, Is
<1> USE DEF Is, IsForm, Opens, Told, InRound, NoTimer, Missing, Blank, Follows,
          IsChannel
<1>14. /\ PhaseFits' /\ LobbyIsStill' /\ WiresFit' /\ OpensThisRound'
       /\ OpensAfterResults' /\ StopsBeforeResults' /\ StopsStopped' /\ KnowsTheRound'
       /\ InputsFit' /\ MessagesEnd' /\ TimersEnd' /\ FormsEnd'
       /\ WordsFit' /\ ResumeIsRight' /\ StopInTime' /\ ResumeInTime'
       /\ ClosedOnceHandedIn'
  BY <1>11, <1>2, <1>4, <1>5, <1>6, SMTT(60) DEF PhaseFits, LobbyIsStill, WiresFit,
     OpensThisRound, OpensAfterResults, InOrder, StopsBeforeResults, StopsStopped,
     KnowsTheRound, InputsFit, MessagesEnd, TimersEnd, FormsEnd, WordsFit,
     ResumeIsRight, StopInTime, ResumeInTime, ClosedOnceHandedIn, Elapsed,
     ReviewOutlasts
<1>15. Types'
  BY <1>11, <1>2, <1>4, <1>5, <1>6, Constants, Contents, SMTT(60) DEF Types, StopWindow,
     Timer
<1>16. NeverAhead'
  BY <1>0, <1>11, <1>4, <1>5, <1>6, Constants, SMTT(60) DEF NeverAhead, Numbers, Typed
<1>17. ResultsBeforeOpening'
  BY <1>13, <1>2, <1>6 DEF ResultsBeforeOpening, InOrder, PhaseFits, WiresFit
<1>18. OpensNewRound' /\ CountsForThisRound'
  BY <1>13, <1>4 DEF OpensNewRound, CountsForThisRound
<1>19. OpenOrSent'
  BY <1>11, <1>2, <1>6 DEF OpenOrSent, FormUnderWay, ResumeIsRight
<1>20. StopFollows'
  BY <1>2, <1>6 DEF StopFollows
<1>21. CountsInTime'
  BY <1>11, <1>2, <1>6 DEF CountsInTime, FormUnderWay, ResumeIsRight
<1>22. NoWordsAfterForm'
  BY <1>11, <1>2, <1>6 DEF NoWordsAfterForm, HandedIn, Regular, ResumedOnceHandedIn
<1>23. NoWordsAfterWords'
  BY <1>0, <1>11, <1>13, <1>2, <1>3, <1>4, <1>5, <1>6, Contents, SMTT(60) DEF
     NoWordsAfterWords, HandedIn, Numbers, Regular, ResumedOnceHandedIn
<1>24. ResumedOnceHandedIn'
  BY <1>13 DEF ResumedOnceHandedIn
<1> QED BY <1>14, <1>15, <1>16, <1>17, <1>18, <1>19, <1>20, <1>21, <1>22, <1>23, <1>24
       DEF InOrder, ReviewOutlasts

\* The animation of the letter ends.
LEMMA RevealEndsStep ==
  ASSUME IInv, RevealEnds
  PROVE  IInv'
<1> USE DEF IInv
<1>0. Numbers
  BY TypesAreNumbers
<1>1. /\ reveal = 0 /\ reveal' = NoTimer /\ countdown' = NoTimer
      /\ enabled' = TRUE /\ values' = Blank /\ shown' = letter
      /\ mishaps' = mishaps \cup
           {m \in {LateReveal} : countdown # NoTimer \/ shown = letter}
      /\ UNCHANGED <<retry, letter, link, down, up, phase, round, end_in, review_in,
                     registered, form, losses>>
  BY <1>0, Constants DEF Numbers, RevealEnds, ClearClientRoundTimers, EnableInputs, page,
     wires, room, ghosts
<1>2. /\ reveal = 0 /\ reveal' = NoTimer /\ countdown' = NoTimer
      /\ enabled' /\ enabled' \in BOOLEAN /\ values' = Blank /\ shown' = letter
  BY <1>1
<1>3. /\ Crossed \in mishaps' <=> Crossed \in mishaps
      /\ OldWords \in mishaps' <=> OldWords \in mishaps
      /\ LateReveal \notin mishaps' =>
           LateReveal \notin mishaps /\ countdown = NoTimer /\ shown # letter
      /\ mishaps' \subseteq {LateReveal, Crossed, OldWords}
  BY <1>1 DEF LateReveal, Crossed, OldWords, Types
<1>4. UNCHANGED <<retry, letter, link, down, up, phase, round, end_in, review_in,
                  registered, form, losses>>
  BY <1>1
<1> USE DEF Is, IsForm, Opens, Told, InRound, NoTimer, Missing, Blank, IsChannel
<1>5. /\ PhaseFits' /\ LobbyIsStill' /\ WiresFit' /\ OpensThisRound'
      /\ OpensAfterResults' /\ StopsBeforeResults' /\ ResultsBeforeOpening' /\ StopsStopped'
      /\ KnowsTheRound' /\ OpensNewRound' /\ CountsForThisRound' /\ InputsFit'
      /\ MessagesEnd' /\ TimersEnd' /\ FormsEnd' /\ WordsFit'
      /\ ResumeIsRight' /\ OpenOrSent' /\ StopInTime' /\ ResumeInTime'
      /\ StopFollows' /\ CountsInTime' /\ NoWordsAfterForm' /\ NoWordsAfterWords'
      /\ ClosedOnceHandedIn' /\ ResumedOnceHandedIn'
  BY <1>2, <1>3, <1>4 DEF PhaseFits, LobbyIsStill, WiresFit, OpensThisRound,
     OpensAfterResults, InOrder, StopsBeforeResults, ResultsBeforeOpening, StopsStopped,
     KnowsTheRound, OpensNewRound, CountsForThisRound, InputsFit, MessagesEnd,
     TimersEnd, FormsEnd, WordsFit, ResumeIsRight, OpenOrSent, StopInTime, ResumeInTime,
     StopFollows, CountsInTime, NoWordsAfterForm, NoWordsAfterWords, ClosedOnceHandedIn,
     ResumedOnceHandedIn, Elapsed, FormUnderWay, HandedIn, Regular, ReviewOutlasts
<1>6. Types'
  BY <1>2, <1>3, <1>4, Constants DEF Types, WiresFit, InOrder, ResultsBeforeOpening,
     Timer
<1>7. NeverAhead'
  BY <1>0, <1>2, <1>4 DEF NeverAhead, Numbers
<1> QED BY <1>5, <1>6, <1>7 DEF InOrder, ReviewOutlasts

\* The player presses STOP.
LEMMA StopGameStep ==
  ASSUME IInv, StopGame
  PROVE  IInv'
<1> USE DEF IInv
<1>0. Numbers
  BY TypesAreNumbers
<1>1. /\ enabled /\ values # Blank /\ enabled' = FALSE
      /\ mishaps' = mishaps \cup {m \in {Crossed} : ResumeUnderWay}
                           \cup {m \in {OldWords} :
                                    <<PressedStop>> # <<>> /\ ~(InRound /\ values = round)}
      /\ up' = Send(up, <<PressedStop>> \o <<Answers(values)>>)
      /\ UNCHANGED <<retry, reveal, countdown, values, letter, shown, link, down, phase,
                     round, end_in, review_in, registered, form, losses>>
  BY <1>0, Constants DEF Numbers, StopGame, DisableAndSubmit, Collected, page, wires,
     room, ghosts
<1>2. enabled /\ values # Blank /\ ~enabled' /\ enabled' \in BOOLEAN
  BY <1>1
<1>3. /\ LateReveal \in mishaps' <=> LateReveal \in mishaps
      /\ OldWords \notin mishaps' => OldWords \notin mishaps /\ InRound /\ values = round
      /\ Crossed \notin mishaps' => Crossed \notin mishaps /\ ~ResumeUnderWay
      /\ mishaps' \subseteq {LateReveal, Crossed, OldWords}
  BY <1>1 DEF LateReveal, Crossed, OldWords, Types
<1>4. values \in -1..MaxRounds
  BY <1>0, Constants DEF Numbers
<1> DEFINE c == Send(up, <<PressedStop>>)
<1>5. c \in Seq(Messages) /\ \E n : Sent(up, c, n, PressedStop)
  BY SendAny, Sendable DEF Types
<1>6. up' = Send(c, <<Answers(values)>>)
  <2>1. /\ [msg |-> PressedStop, left |-> Lag] \in Messages
        /\ [msg |-> Answers(values), left |-> Lag] \in Messages
    BY <1>4, Sendable
  <2>2. up \in Seq(Messages)
    BY DEF Types
  <2>3. Send(up, <<PressedStop, Answers(values)>>) = Send(c, <<Answers(values)>>)
    BY <2>1, <2>2, SendTwo
  <2>4. <<PressedStop>> \o <<Answers(values)>> = <<PressedStop, Answers(values)>>
    BY PairOf
  <2> QED BY <1>1, <2>3, <2>4
<1> HIDE DEF c
<1>7. PICK n : Sent(up, c, n, PressedStop)
  BY <1>5
<1>8. up' \in Seq(Messages) /\ \E k : Sent(c, up', k, Answers(values))
  BY <1>4, <1>5, <1>6, SendAny, Sendable
<1>9. PICK k : Sent(c, up', k, Answers(values))
  BY <1>8
<1>10. link = "open" =>
         /\ n \in Int /\ 1 <= n /\ k \in Int /\ n < k /\ DOMAIN up' = DOMAIN up \cup {n, k}
         /\ \A i \in DOMAIN up : i < n /\ up'[i] = up[i]
         /\ up'[n].msg.type = "stop" /\ up'[n].left = Lag
         /\ up'[k].msg.type = "answers" /\ up'[k].msg.form = values /\ up'[k].left = Lag
  BY <1>7, <1>9, Contents DEF Sent, Adds
<1>11. link # "open" => up' = up
  BY <1>7, <1>9 DEF Sent
<1>12. up' \in Seq(Messages)
  BY <1>8
<1>13. UNCHANGED <<retry, reveal, countdown, values, letter, shown, link, down, phase,
                   round, end_in, review_in, registered, form, losses>>
  BY <1>1
<1> USE DEF Is, IsForm, Opens, Told, InRound, NoTimer, Missing, Blank, IsChannel
<1>14. /\ Types' /\ PhaseFits' /\ LobbyIsStill' /\ WiresFit'
       /\ OpensThisRound' /\ OpensAfterResults' /\ StopsBeforeResults'
            /\ ResultsBeforeOpening'
       /\ StopsStopped' /\ KnowsTheRound'
  BY <1>12, <1>13, <1>2, <1>3 DEF Types, PhaseFits, LobbyIsStill, WiresFit,
     OpensThisRound, OpensAfterResults, InOrder, StopsBeforeResults,
     ResultsBeforeOpening, StopsStopped, KnowsTheRound
<1>15. /\ OpensNewRound' /\ CountsForThisRound' /\ InputsFit' /\ MessagesEnd'
       /\ TimersEnd' /\ FormsEnd' /\ WordsFit' /\ ResumeIsRight'
       /\ StopInTime' /\ ResumeInTime' /\ StopFollows'
  BY <1>10, <1>11, <1>13, <1>2, <1>3 DEF OpensNewRound, CountsForThisRound, InputsFit,
     MessagesEnd, TimersEnd, FormsEnd, WordsFit, ResumeIsRight, StopInTime,
     ResumeInTime, StopFollows, Elapsed, ReviewOutlasts
<1>16. NeverAhead'
  BY <1>0, <1>10, <1>11, <1>13, SMTT(60) DEF NeverAhead, LobbyIsStill, Numbers
<1>17. OpenOrSent'
  BY <1>0, <1>10, <1>11, <1>13 DEF OpenOrSent, LobbyIsStill, FormUnderWay, Numbers
<1>18. CountsInTime'
  BY <1>0, <1>10, <1>13 DEF CountsInTime, FormUnderWay, Numbers
<1>19. NoWordsAfterForm'
  BY <1>11, <1>13, <1>2, <1>3 DEF NoWordsAfterForm, ClosedOnceHandedIn, HandedIn,
     Regular, ResumeUnderWay, ResumedOnceHandedIn
<1>20. NoWordsAfterWords'
  <2>1. CASE link # "open"
    BY <1>3, <1>11, <1>13, <2>1 DEF NoWordsAfterWords, Regular
  <2>2. CASE link = "open"
    <3> SUFFICES ASSUME Regular'
                 PROVE  \A i, j \in DOMAIN up' : i < j /\ IsForm(i)'
                          => up'[i].msg.form # round
      BY <1>13 DEF NoWordsAfterWords
    <3>1. Regular /\ ~ResumeUnderWay
      BY <1>3, <1>13 DEF Regular
    <3>2. ~HandedIn
      BY <1>2, <2>2, <3>1 DEF ClosedOnceHandedIn, ResumedOnceHandedIn, ResumeUnderWay
    <3>3. \A i \in DOMAIN up : IsForm(i) => up[i].msg.form # round
      BY <3>2 DEF HandedIn
    <3>4. ASSUME NEW i \in DOMAIN up', NEW j \in DOMAIN up', i < j, IsForm(i)'
          PROVE  i \in DOMAIN up /\ up'[i] = up[i]
      BY <1>0, <1>10, <2>2, <3>4 DEF Numbers
    <3> QED BY <3>3, <3>4
  <2> QED BY <2>1, <2>2
<1>21. ClosedOnceHandedIn'
  BY <1>0, <1>10, <1>13, <1>2, <1>3 DEF ClosedOnceHandedIn, NeverAhead, HandedIn,
     Numbers, Regular
<1>22. ResumedOnceHandedIn'
  <2> SUFFICES ASSUME Regular', link = "open", HandedIn', ~Told PROVE FALSE
    BY <1>13 DEF ResumedOnceHandedIn
  <2>1. Regular /\ ~ResumeUnderWay
    BY <1>3, <1>13 DEF Regular
  <2>2. PICK i \in DOMAIN down : Is(i, "round_started")
    BY <2>1 DEF ResumeUnderWay
  <2>3. values < round
    BY <1>0, <2>2 DEF OpensNewRound, NeverAhead, Numbers
  <2>4. HandedIn
    BY <1>0, <1>10, <1>13, <2>3 DEF HandedIn, Numbers
  <2> QED BY <2>1, <2>2, <2>4 DEF ResumedOnceHandedIn
<1> QED BY <1>14, <1>15, <1>16, <1>17, <1>18, <1>19, <1>20, <1>21, <1>22 DEF InOrder,
       ReviewOutlasts

\* The countdown ends, and the page hands in.
LEMMA CountdownEndsStep ==
  ASSUME IInv, CountdownEnds
  PROVE  IInv'
<1> USE DEF IInv
<1>0. Numbers
  BY TypesAreNumbers
<1>1. /\ countdown = 0 /\ countdown' = NoTimer /\ enabled' = FALSE
      /\ mishaps' = mishaps \cup {m \in {Crossed} : ResumeUnderWay}
                           \cup {m \in {OldWords} :
                                    <<>> # <<>> /\ ~(InRound /\ values = round)}
      /\ up' = Send(up, <<>> \o <<Answers(Collected)>>)
      /\ UNCHANGED <<retry, reveal, values, letter, shown, link, down, phase, round,
                     end_in, review_in, registered, form, losses>>
  BY <1>0, Constants DEF Numbers, CountdownEnds, ClearClientRoundTimers, DisableAndSubmit,
     page, wires, room, ghosts
<1>2. countdown = 0 /\ countdown' = NoTimer /\ ~enabled' /\ enabled' \in BOOLEAN
  BY <1>1
<1>3. /\ LateReveal \in mishaps' <=> LateReveal \in mishaps
      /\ OldWords \in mishaps' <=> OldWords \in mishaps
      /\ Crossed \notin mishaps' => Crossed \notin mishaps /\ ~ResumeUnderWay
      /\ mishaps' \subseteq {LateReveal, Crossed, OldWords}
  BY <1>1 DEF LateReveal, Crossed, OldWords, Types
<1> DEFINE f == IF enabled THEN values ELSE Missing
<1>4. f \in -1..MaxRounds
  BY <1>0, Constants DEF Numbers, Missing
<1>5. up' = Send(up, <<Answers(f)>>)
  <2>1. <<>> \o <<Answers(f)>> = <<Answers(f)>>
    OBVIOUS
  <2> QED BY <1>1, <2>1 DEF Collected
<1>6. up' \in Seq(Messages) /\ \E n : Sent(up, up', n, Answers(f))
  BY <1>4, <1>5, SendAny, Sendable DEF Types
<1>7. PICK n : Sent(up, up', n, Answers(f))
  BY <1>6
<1>8. /\ enabled => f = values
      /\ ~enabled => f = Missing
  OBVIOUS
<1> HIDE DEF f
<1>9. link = "open" =>
         /\ n \in Int /\ 1 <= n /\ DOMAIN up' = DOMAIN up \cup {n}
         /\ \A i \in DOMAIN up : i < n /\ up'[i] = up[i]
         /\ up'[n].msg.type = "answers" /\ up'[n].left = Lag
         /\ enabled => up'[n].msg.form = values
         /\ ~enabled => up'[n].msg.form = Missing
  BY <1>7, <1>8, Contents DEF Sent, Adds
<1>10. link # "open" => up' = up
  BY <1>7 DEF Sent
<1>11. up' \in Seq(Messages)
  BY <1>6
<1>12. UNCHANGED <<retry, reveal, values, letter, shown, link, down, phase, round, end_in,
                   review_in, registered, form, losses>>
  BY <1>1
<1> USE DEF Is, IsForm, Opens, Told, InRound, NoTimer, Missing, Blank, IsChannel
<1>13. /\ Types' /\ PhaseFits' /\ LobbyIsStill' /\ WiresFit'
       /\ OpensThisRound' /\ OpensAfterResults' /\ StopsBeforeResults'
            /\ ResultsBeforeOpening'
       /\ StopsStopped' /\ KnowsTheRound' /\ OpensNewRound' /\ CountsForThisRound'
       /\ InputsFit' /\ MessagesEnd' /\ TimersEnd' /\ ResumeIsRight'
       /\ StopInTime' /\ ResumeInTime' /\ StopFollows'
  BY <1>11, <1>12, <1>2, <1>3 DEF Types, PhaseFits, LobbyIsStill, WiresFit,
     OpensThisRound, OpensAfterResults, InOrder, StopsBeforeResults,
     ResultsBeforeOpening, StopsStopped, KnowsTheRound, OpensNewRound,
     CountsForThisRound, InputsFit, MessagesEnd, TimersEnd, ResumeIsRight, StopInTime,
     ResumeInTime, StopFollows, Elapsed, ReviewOutlasts, Timer
<1>14. NeverAhead'
  BY <1>0, <1>10, <1>12, <1>9 DEF NeverAhead, Numbers
<1>15. FormsEnd'
  BY <1>0, <1>10, <1>12, <1>2, <1>9, Constants DEF FormsEnd, Elapsed, Numbers,
     ReviewOutlasts, TimersEnd, Typed
<1>16. WordsFit'
  BY <1>0, <1>10, <1>12, <1>2, <1>3, <1>9 DEF WordsFit, CountsForThisRound, InputsFit,
     Numbers
<1>17. OpenOrSent'
  BY <1>0, <1>12, <1>9 DEF OpenOrSent, FormUnderWay, Numbers
<1>18. CountsInTime'
  BY <1>0, <1>12, <1>2, <1>3, <1>9 DEF CountsInTime, FormUnderWay, Numbers
<1>19. NoWordsAfterForm'
  BY <1>10, <1>12, <1>3, <1>9 DEF NoWordsAfterForm, LobbyIsStill, ClosedOnceHandedIn,
     HandedIn, Regular, ResumeUnderWay, ResumedOnceHandedIn
<1>20. NoWordsAfterWords'
  BY <1>10, <1>11, <1>12, <1>3, <1>9 DEF NoWordsAfterWords, ClosedOnceHandedIn,
     HandedIn, Regular, ResumeUnderWay, ResumedOnceHandedIn
<1>21. ClosedOnceHandedIn'
  BY <1>0, <1>12, <1>2, <1>3, <1>9 DEF ClosedOnceHandedIn, NeverAhead, HandedIn,
     Numbers, Regular
<1>22. ResumedOnceHandedIn'
  BY <1>12, <1>2, <1>3 DEF ResumedOnceHandedIn, OpensNewRound, Regular, ResumeUnderWay
<1> QED BY <1>13, <1>14, <1>15, <1>16, <1>17, <1>18, <1>19, <1>20, <1>21, <1>22 DEF
       InOrder, ReviewOutlasts

\* The socket is lost, with what is on its way.
LEMMA LoseStep ==
  ASSUME IInv, Lose
  PROVE  IInv'
<1> USE DEF IInv
<1>0. Numbers
  BY TypesAreNumbers
<1>1. /\ link = "open" /\ losses < MaxLosses
      /\ link' = "down" /\ retry' = Retry /\ losses' = losses + 1 /\ down' = <<>>
      /\ \E n \in 0..Len(up) : up' = SubSeq(up, 1, n)
      /\ UNCHANGED <<reveal, countdown, enabled, values, letter, shown, phase, round,
                     end_in, review_in, registered, form, mishaps>>
  BY <1>0, Constants DEF Numbers, Lose, page, wires, room, ghosts
<1>2. DOMAIN down' = {} /\ down' \in Seq(Messages)
  BY <1>1, EmptyChannel
<1>3. up' \in Seq(Messages) /\ Begins(up', up)
  BY <1>1, CutOff DEF Types
<1>4. /\ link = "open" /\ losses < MaxLosses
      /\ link' = "down" /\ retry' = Retry /\ losses' = losses + 1 /\ down' = <<>>
      /\ UNCHANGED <<reveal, countdown, enabled, values, letter, shown, phase, round,
                     end_in, review_in, registered, form, mishaps>>
  BY <1>1
<1> USE DEF Is, IsForm, Opens, Told, InRound, NoTimer, Missing, Blank, Begins, IsChannel
<1>5. /\ PhaseFits' /\ LobbyIsStill' /\ WiresFit' /\ NeverAhead'
      /\ OpensThisRound' /\ OpensAfterResults' /\ StopsBeforeResults'
           /\ ResultsBeforeOpening'
      /\ StopsStopped' /\ KnowsTheRound' /\ OpensNewRound' /\ CountsForThisRound'
      /\ InputsFit' /\ MessagesEnd' /\ TimersEnd' /\ FormsEnd'
      /\ WordsFit' /\ ResumeIsRight' /\ OpenOrSent' /\ StopInTime'
      /\ ResumeInTime' /\ StopFollows' /\ CountsInTime' /\ NoWordsAfterForm'
      /\ NoWordsAfterWords' /\ ClosedOnceHandedIn' /\ ResumedOnceHandedIn'
  BY <1>3, <1>4 DEF PhaseFits, LobbyIsStill, WiresFit, NeverAhead, OpensThisRound,
     OpensAfterResults, StopsBeforeResults, ResultsBeforeOpening, StopsStopped,
     KnowsTheRound, OpensNewRound, CountsForThisRound, InputsFit, MessagesEnd,
     TimersEnd, FormsEnd, WordsFit, ResumeIsRight, OpenOrSent, StopInTime, ResumeInTime,
     StopFollows, CountsInTime, NoWordsAfterForm, NoWordsAfterWords, ClosedOnceHandedIn,
     ResumedOnceHandedIn, Elapsed, Regular, ReviewOutlasts
<1>6. Types'
  BY <1>3, <1>4, Constants, Contents, SMTT(60) DEF Types, InOrder, ResultsBeforeOpening,
     StopWindow, Timer
<1> QED BY <1>5, <1>6 DEF InOrder, ReviewOutlasts

\* A second passes.
LEMMA TickStep ==
  ASSUME IInv, Tick
  PROVE  IInv'
<1> USE DEF IInv
<1>0. Numbers
  BY TypesAreNumbers
<1>1. /\ 0 \notin {retry, reveal, countdown, end_in, review_in}
      /\ \A channel \in {down, up} : \A i \in DOMAIN channel : channel[i].left > 0
      /\ retry' = After(retry) /\ reveal' = After(reveal) /\ countdown' = After(countdown)
      /\ end_in' = After(end_in) /\ review_in' = After(review_in)
      /\ down' = Travelling(down) /\ up' = Travelling(up)
      /\ UNCHANGED <<enabled, values, letter, shown, link, phase, round, registered, form,
                     mishaps, losses>>
  BY <1>0, Constants DEF Numbers, Tick, page, wires, room, ghosts
<1>2. /\ \A i \in DOMAIN down : down[i].left > 0
      /\ \A i \in DOMAIN up : up[i].left > 0
  BY <1>1
<1>3. down' \in Seq(Messages) /\ Later(down', down)
  BY <1>1, <1>2, TravelOne DEF Types
<1>4. up' \in Seq(Messages) /\ Later(up', up)
  BY <1>1, <1>2, TravelOne DEF Types
<1>5. /\ retry' = IF retry = NoTimer THEN NoTimer ELSE retry - 1
      /\ reveal' = IF reveal = NoTimer THEN NoTimer ELSE reveal - 1
      /\ countdown' = IF countdown = NoTimer THEN NoTimer ELSE countdown - 1
      /\ end_in' = IF end_in = NoTimer THEN NoTimer ELSE end_in - 1
      /\ review_in' = IF review_in = NoTimer THEN NoTimer ELSE review_in - 1
      /\ retry # 0 /\ reveal # 0 /\ countdown # 0 /\ end_in # 0 /\ review_in # 0
  BY <1>1 DEF After
<1>6. UNCHANGED <<enabled, values, letter, shown, link, phase, round, registered, form,
                  mishaps, losses>>
  BY <1>1
<1>7. (down = <<>> => down' = <<>>) /\ (up = <<>> => up' = <<>>)
  BY <1>1 DEF Travelling
<1> USE DEF Is, IsForm, Opens, Told, InRound, NoTimer, Missing, Blank, Later, IsChannel
<1>8. PhaseFits' /\ LobbyIsStill' /\ WiresFit' /\ NeverAhead'
  BY <1>4, <1>5, <1>6, <1>7 DEF PhaseFits, LobbyIsStill, WiresFit, NeverAhead
<1>9. OpensThisRound' /\ OpensAfterResults'
  BY <1>2, <1>3, <1>6 DEF OpensThisRound, OpensAfterResults, InOrder
<1>10. StopsBeforeResults'
  BY <1>3 DEF InOrder, StopsBeforeResults
<1>11. StopsStopped' /\ KnowsTheRound'
  BY <1>3, <1>6 DEF InOrder, StopsStopped, KnowsTheRound
<1>12. OpensNewRound' /\ CountsForThisRound'
  BY <1>3, <1>5, <1>6 DEF OpensNewRound, CountsForThisRound
<1>13. WordsFit' /\ ResumeIsRight' /\ OpenOrSent'
  BY <1>3, <1>4, <1>5, <1>6, SMTT(60) DEF WordsFit, ResumeIsRight, OpenOrSent,
     FormUnderWay
<1>14. /\ StopFollows' /\ NoWordsAfterForm' /\ NoWordsAfterWords' /\ ClosedOnceHandedIn'
       /\ ResumedOnceHandedIn'
  BY <1>2, <1>3, <1>4, <1>5, <1>6, <1>7, SMTT(60) DEF InOrder, StopFollows,
     NoWordsAfterForm, NoWordsAfterWords, ClosedOnceHandedIn, ResumedOnceHandedIn,
     HandedIn, Regular
<1>15. Types'
  BY <1>2, <1>3, <1>4, <1>5, <1>6, Constants, Contents DEF Types, StopWindow, Timer
<1>16. ResultsBeforeOpening'
  <2> SUFFICES ASSUME InRound', NEW j \in DOMAIN down', Is(j, "round_results")'
               PROVE  \E i \in DOMAIN down' : j < i /\ Opens(i)'
    BY DEF ResultsBeforeOpening
  <2>1. PICK i \in DOMAIN down : j < i /\ Opens(i)
    BY <1>3, <1>6 DEF InOrder, ResultsBeforeOpening
  <2> QED BY <1>3, <2>1
<1>17. InputsFit'
  BY <1>0, <1>5, <1>6 DEF InputsFit, WiresFit, InOrder, OpensThisRound, Numbers
<1>18. MessagesEnd' /\ TimersEnd'
  BY <1>0, <1>2, <1>3, <1>5, <1>6, Constants DEF MessagesEnd, TimersEnd, PhaseFits,
     Elapsed, Numbers, ReviewOutlasts, Typed
<1>19. FormsEnd'
  <2> SUFFICES ASSUME phase = "review", OldWords \notin mishaps, NEW i \in DOMAIN up,
                      IsForm(i), up[i].msg.form > Blank
               PROVE  up'[i].left + Elapsed' <= STOP_SUBMIT_SECONDS + 2 * Lag
    BY <1>4, <1>6 DEF FormsEnd
  <2>1. up[i].left + Elapsed <= STOP_SUBMIT_SECONDS + 2 * Lag
    BY DEF ReviewOutlasts, FormsEnd
  <2>2. up'[i].left = up[i].left - 1 /\ up[i].left \in Int
    BY <1>0, <1>4 DEF Numbers, Typed
  <2>3. review_in' = review_in - 1 /\ review_in \in Int
    BY <1>0, <1>5 DEF PhaseFits, Numbers
  <2> QED BY <2>1, <2>2, <2>3, Constants DEF Elapsed
<1>20. StopInTime'
  BY <1>0, <1>3, <1>4, <1>5, <1>6, <1>7, Constants, SMTT(60) DEF StopInTime, PhaseFits,
     Numbers, StopWindow, Typed
<1>21. ResumeInTime'
  <2> SUFFICES ASSUME phase = "stopped", NEW i \in DOMAIN down,
                      Is(i, "resume"), down[i].msg.left > 0
               PROVE  down[i].msg.left + STOP_SUBMIT_GRACE_SECONDS - Lag + down'[i].left <= end_in'
    BY <1>3, <1>6 DEF ResumeInTime
  <2>1. down[i].msg.left + STOP_SUBMIT_GRACE_SECONDS - Lag + down[i].left <= end_in
    BY DEF ResumeInTime
  <2>2. down'[i].left = down[i].left - 1 /\ down[i].left \in Int /\ down[i].msg.left \in Int
    BY <1>0, <1>3 DEF Numbers, Typed
  <2>3. end_in' = end_in - 1 /\ end_in \in Int
    BY <1>0, <1>5 DEF PhaseFits, Numbers
  <2> QED BY <2>1, <2>2, <2>3, Constants
<1>22. CountsInTime'
  <2> SUFFICES ASSUME phase = "stopped", link = "open", Told', form = Missing,
                      \A i \in DOMAIN down' : ~Is(i, "stop_round")',
                      LateReveal \notin mishaps, ~FormUnderWay'
               PROVE  /\ countdown' # NoTimer /\ countdown' + Lag < end_in'
                      /\ enabled \/ (reveal' # NoTimer /\ reveal' < countdown')
    BY <1>6 DEF CountsInTime
  <2>1. Told /\ (\A i \in DOMAIN down : ~Is(i, "stop_round")) /\ ~FormUnderWay
    BY <1>3, <1>4 DEF FormUnderWay
  <2>2. /\ countdown # NoTimer /\ countdown + Lag < end_in
        /\ enabled \/ (reveal # NoTimer /\ reveal < countdown)
    BY <2>1 DEF CountsInTime
  <2>3. /\ countdown \in Int /\ -1 <= countdown /\ reveal \in Int /\ -1 <= reveal
        /\ end_in \in Int /\ end_in # NoTimer
    BY <1>0 DEF Numbers, PhaseFits
  <2>4. countdown' = countdown - 1 /\ end_in' = end_in - 1 /\ countdown' # NoTimer
    BY <1>5, <2>2, <2>3
  <2>5. reveal # NoTimer /\ reveal < countdown => reveal' # NoTimer /\ reveal' < countdown'
    BY <1>5, <2>3, <2>4
  <2> QED BY <2>2, <2>3, <2>4, <2>5, Constants
<1> QED BY <1>8, <1>9, <1>10, <1>11, <1>12, <1>13, <1>14, <1>15, <1>16, <1>17, <1>18,
       <1>19, <1>20, <1>21, <1>22 DEF InOrder, ReviewOutlasts

-----------------------------------------------------------------------------
(* The theorems.                                                           *)

\* The invariant holds at the start.
LEMMA InitIInv == Init => IInv
<1> SUFFICES ASSUME Init PROVE IInv
  OBVIOUS
<1>1. DOMAIN down = {} /\ DOMAIN up = {} /\ down \in Seq(Messages) /\ up \in Seq(Messages)
  BY EmptyChannel DEF Init
<1> USE DEF Init, Is, IsForm, Opens, Told, InRound, NoTimer, Missing, Blank
<1>2. Types
  <2>1. enabled \in BOOLEAN /\ registered \in BOOLEAN
    OBVIOUS
  <2>2. \A limit : NoTimer \in Timer(limit)
    BY DEF Timer
  <2>3. /\ {values, letter, shown, round} \subseteq 0..MaxRounds
        /\ form \in -1..MaxRounds /\ losses \in 0..MaxLosses
    BY Constants
  <2> QED BY <1>1, <2>1, <2>2, <2>3 DEF Types
<1>3. PhaseFits /\ LobbyIsStill /\ WiresFit /\ NeverAhead /\ InOrder
  BY <1>1 DEF PhaseFits, LobbyIsStill, WiresFit, NeverAhead, InOrder, OpensThisRound,
              OpensAfterResults, StopsBeforeResults, ResultsBeforeOpening, StopsStopped
<1>4. KnowsTheRound /\ OpensNewRound /\ CountsForThisRound /\ InputsFit
  BY <1>1 DEF KnowsTheRound, OpensNewRound, CountsForThisRound, InputsFit
<1>5. ReviewOutlasts /\ WordsFit /\ ResumeIsRight /\ OpenOrSent
  BY <1>1 DEF ReviewOutlasts, MessagesEnd, TimersEnd, FormsEnd, WordsFit, ResumeIsRight,
     OpenOrSent
<1>6. StopInTime /\ ResumeInTime /\ StopFollows /\ CountsInTime
  BY DEF StopInTime, ResumeInTime, StopFollows, CountsInTime
<1>7. /\ NoWordsAfterForm /\ NoWordsAfterWords
      /\ ClosedOnceHandedIn /\ ResumedOnceHandedIn
  BY DEF NoWordsAfterForm, NoWordsAfterWords, ClosedOnceHandedIn, ResumedOnceHandedIn,
     Regular
<1> QED BY <1>2, <1>3, <1>4, <1>5, <1>6, <1>7 DEF IInv

\* Every step keeps the invariant.
LEMMA NextIInv == IInv /\ [Next]_vars => IInv'
<1> SUFFICES ASSUME IInv, [Next]_vars PROVE IInv'
  OBVIOUS
<1>1. CASE OthersAnswer
  BY <1>1, BeginResultsStep DEF OthersAnswer
<1>2. CASE ForceEnd
  <2>1. InRound
    BY <1>2 DEF ForceEnd, IInv, PhaseFits, InRound, NoTimer
  <2> QED BY <1>2, <2>1, BeginResultsStep DEF ForceEnd
<1>3. CASE ServerReads
  <2>1. CASE HandleStop /\ phase = "playing"
    BY <1>3, <2>1, ReadsStopStep DEF ServerReads, HandleStop, ghosts
  <2>2. CASE HandleStop /\ phase # "playing"
    BY <1>3, <2>2, ReadsLateStopStep DEF ServerReads, HandleStop, room, ghosts
  <2>3. CASE HandleAnswers /\ ~(InRound /\ BeginResults)
    BY <1>3, <2>3, ReadsFormStep DEF ServerReads, HandleAnswers
  <2>4. CASE HandleAnswers /\ InRound /\ BeginResults
    BY <1>3, <2>4, ReadsLastStep DEF ServerReads, HandleAnswers
  <2> QED BY <1>3, <2>1, <2>2, <2>3, <2>4 DEF ServerReads
<1>4. CASE Accept
  <2>1. phase \in {"lobby", "playing", "stopped", "review", "over"}
    BY DEF IInv, Types
  <2> QED BY <1>4, <2>1, AcceptPlayingStep, AcceptStoppedStep, AcceptEndedStep,
             AcceptLobbyStep
<1>5. CASE PageReads
  <2>1. Head(down).msg.type \in {"round_started", "resume", "stop_round", "round_results"}
    BY <1>5 DEF PageReads
  <2> QED BY <1>5, <2>1, ReadsRoundStartedStep, ReadsResumeStep, ReadsLateResumeStep,
             ReadsStopRoundStep, ReadsRoundResultsStep
<1>6. CASE UNCHANGED vars
  <2>1. UNCHANGED <<retry, reveal, countdown, enabled, values, letter, shown, link, down,
                    up,
                    phase, round, end_in, review_in, registered, form, mishaps, losses>>
    BY <1>6 DEF vars, page, wires, room, ghosts
  <2> QED BY <2>1 DEF IInv, Types, PhaseFits, LobbyIsStill, WiresFit, NeverAhead, InOrder,
       OpensThisRound, OpensAfterResults, StopsBeforeResults, ResultsBeforeOpening,
         StopsStopped,
       KnowsTheRound, OpensNewRound, CountsForThisRound, InputsFit, ReviewOutlasts,
         MessagesEnd,
       TimersEnd, FormsEnd, WordsFit, ResumeIsRight, OpenOrSent, StopInTime, ResumeInTime,
       StopFollows, CountsInTime, NoWordsAfterForm, NoWordsAfterWords, ClosedOnceHandedIn,
       ResumedOnceHandedIn, Is, IsForm, Opens, Told, InRound, FormUnderWay, Elapsed,
         Regular, HandedIn
<1> QED BY <1>1, <1>2, <1>3, <1>4, <1>5, <1>6, BeginGameStep, OtherStopsStep,
           ReviewEndsStep,
     ServerNoticesStep, RevealEndsStep, TypeStep, StopGameStep, CountdownEndsStep, LoseStep,
     ConnectStep, ConnectFailsStep, TickStep DEF Next

\* What has been named above holds of every state of the page, the room and the
\* wires between them.
THEOREM PageInvariant == Spec => []IInv
<1> QED BY InitIInv, NextIInv, PTL DEF Spec

\* Every variable and every message on its way keeps its type.
THEOREM PageTyped == Spec => []TypeOK
<1>1. IInv => TypeOK
  <2> SUFFICES ASSUME Types PROVE TypeOK
    BY DEF IInv
  <2>1. ElementsOf(down) \subseteq Messages /\ ElementsOf(up) \subseteq Messages
    BY DEF Types, ElementsOf
  <2> QED BY <2>1 DEF Types, TypeOK
<1> QED BY <1>1, PageInvariant, PTL

\* HandsInInTime: in a stopped round a page that has not handed in hands in before
\* the forced end.
THEOREM PageHandsInInTime == Spec => []HandsInInTime
<1>1. IInv => HandsInInTime
  <2> SUFFICES ASSUME IInv PROVE HandsInInTime
    OBVIOUS
  <2>1. CountsInTime
    BY DEF IInv
  <2>2. Settled => link = "open" /\ Told /\ ~FormUnderWay /\ DOMAIN down = {}
    BY EmptyDomain DEF Settled, Connected, Told, FormUnderWay
  <2> QED BY <2>1, <2>2 DEF HandsInInTime, CountsInTime
<1> QED BY <1>1, PageInvariant, PTL

\* LockedMeansHeld: locked inputs in a running round mean that the room has the form.
THEOREM PageLockedMeansHeld == Spec => []LockedMeansHeld
<1>1. IInv => LockedMeansHeld
  <2> SUFFICES ASSUME IInv PROVE LockedMeansHeld
    OBVIOUS
  <2>1. OpenOrSent
    BY DEF IInv
  <2>2. Settled => link = "open" /\ Told /\ ~FormUnderWay
    BY EmptyDomain DEF Settled, Connected, Told, FormUnderWay
  <2> QED BY <2>1, <2>2 DEF LockedMeansHeld, OpenOrSent
<1> QED BY <1>1, PageInvariant, PTL

\* OldWordsOnlyByStop: words of an earlier round count in a later one only by STOP.
THEOREM PageOldWords == Spec => []OldWordsOnlyByStop
<1>1. IInv => OldWordsOnlyByStop
  BY DEF IInv, WordsFit, OldWordsOnlyByStop
<1> QED BY <1>1, PageInvariant, PTL

\* WordsAreKept: the words the room has for a round's letter stay until its results.
THEOREM PageWordsAreKept == Spec => WordsAreKept
<1> DEFINE Kept == round' = round /\ form = round /\ mishaps \cap {Crossed, LateReveal} = {}
                     => form' = form
<1>1. IInv /\ [Next]_vars => [Kept]_vars
  <2> SUFFICES ASSUME IInv, [Next]_vars, round' = round, form = round,
                      Crossed \notin mishaps, LateReveal \notin mishaps
               PROVE  form' = form
    OBVIOUS
  <2>1. CASE HandleAnswers /\ ServerReads
    <3> SUFFICES ASSUME InRound, Head(up).msg.form # Missing PROVE FALSE
      BY <2>1 DEF HandleAnswers, Store
    <3>1. 1 \in DOMAIN up /\ Head(up) = up[1]
      BY <2>1, ReadOne DEF ServerReads, IInv, Types
    <3>2. NoWordsAfterForm
      BY DEF IInv
    <3> QED BY <2>1, <3>1, <3>2 DEF HandleAnswers, NoWordsAfterForm, Regular, IsForm
  <2>2. CASE BeginGame \/ ReviewEnds
    <3>1. round \in 0..MaxRounds
      BY DEF IInv, Types
    <3> QED BY <2>2, <3>1, Constants DEF BeginGame, ReviewEnds, StartRound
  <2>3. CASE ~(HandleAnswers /\ ServerReads) /\ ~(BeginGame \/ ReviewEnds)
    BY <2>3 DEF Next, OtherStops, OthersAnswer, ForceEnd, ServerReads, HandleStop,
                ServerNotices, Accept, PageReads, RevealEnds, Type, StopGame,
                  CountdownEnds, Lose,
                Connect, ConnectFails, Tick, vars, room
  <2> QED BY <2>1, <2>2, <2>3
<1>2. QED
  <2>1. Spec => [][Kept]_vars
    BY <1>1, PageInvariant, PTL DEF Spec
  <2> QED BY <2>1 DEF WordsAreKept
=============================================================================
