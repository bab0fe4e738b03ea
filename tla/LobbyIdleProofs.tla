--------------------------- MODULE LobbyIdleProofs ---------------------------
(***************************************************************************)
(* Proofs about module LobbyIdle, for every timeout and every number of    *)
(* people and tasks.  That a still lobby goes rests on LobbyIsTimed, which *)
(* needs that a task left over from a former Room finds either no activity *)
(* to speak of or a connect that is still to touch the lobby; and that a   *)
(* connect of a former Room, which schedules without touching, comes in    *)
(* the tick in which the present Room was made.                            *)
(***************************************************************************)
EXTENDS LobbyIdle, TLAPS, FiniteSetTheorems

Tasks == [mode : {"held", "lost", "cancelled"}, left : 0..TIMEOUT, mine : BOOLEAN]

AtMostOneHeld(ts) == \A t \in ts, u \in ts : t.mode = "held" /\ u.mode = "held" => t = u

\* TypeOK without the cardinality.
Flags == exists \in BOOLEAN /\ sweeping \in BOOLEAN /\ untimed \in BOOLEAN

Numbers ==
  /\ people \in 0..MaxPeople
  /\ stage \in {"lobby", "game", "over"} /\ silent \in 0..Never
  /\ entering \in 0..people /\ strays \in 0..MaxPeople
  /\ tasks \subseteq Tasks
  /\ still \in 0..(TIMEOUT + 1) /\ age \in 0..TIMEOUT

Types == Flags /\ Numbers

\* A Room is in the table as long as somebody is in it.
Peopled == (exists => people > 0) /\ (people > 0 => exists)

\* No more connects are under way than there may be people.
ConnectsBounded == entering + strays <= MaxPeople

\* A connect of a former Room comes in the tick in which the present one, if
\* there is one, was made.
StraysComeEarly == strays > 0 /\ exists => still = 0 /\ silent \in {0, Never}

\* A Room has not been silent for longer than it is old.
SilentSinceMade == silent = Never \/ silent <= age

\* A lobby has been touched by everybody's connect.
Touched == exists /\ stage = "lobby" /\ entering = 0 => silent # Never

IInv ==
  /\ Types
  /\ AtMostOneHeld(tasks)
  /\ Peopled
  /\ ConnectsBounded
  /\ StraysComeEarly
  /\ SilentSinceMade
  /\ Touched
  /\ LobbyIsTimed
  /\ StillLobbyGoes

USE LobbyIdleAssumption

-----------------------------------------------------------------------------
(* The operators on the set of tasks.                                      *)

LEMMA CancelledTasks ==
  ASSUME NEW ts, ts \subseteq Tasks
  PROVE  /\ Cancelled(ts) \subseteq Tasks
         /\ \A t \in Cancelled(ts) : t.mode # "held"
<1> SUFFICES ASSUME NEW t \in ts
             PROVE  LET c == IF t.mode = "held" THEN [t EXCEPT !.mode = "cancelled"] ELSE t
                    IN  c \in Tasks /\ c.mode # "held"
  BY DEF Cancelled
<1>1. t \in Tasks
  OBVIOUS
<1> QED BY <1>1 DEF Tasks

\* A task whose handle is cleared sleeps on.
LEMMA ClearedTasks ==
  ASSUME NEW ts, ts \subseteq Tasks
  PROVE  /\ Cleared(ts) \subseteq Tasks
         /\ \A t \in Cleared(ts) : t.mode # "held"
         /\ \A t \in ts : t.mode # "cancelled" =>
              \E u \in Cleared(ts) : u.mode # "cancelled" /\ u.left = t.left
<1> DEFINE lost(t) == IF t.mode = "held" THEN [t EXCEPT !.mode = "lost"] ELSE t
<1>1. \A t \in ts : /\ lost(t) \in Tasks /\ lost(t).mode # "held" /\ lost(t).left = t.left
                    /\ t.mode # "cancelled" => lost(t).mode # "cancelled"
  <2> SUFFICES ASSUME NEW t \in ts
               PROVE  /\ lost(t) \in Tasks /\ lost(t).mode # "held" /\ lost(t).left = t.left
                      /\ t.mode # "cancelled" => lost(t).mode # "cancelled"
    OBVIOUS
  <2>1. t \in Tasks
    OBVIOUS
  <2> QED BY <2>1 DEF Tasks
<1>2. Cleared(ts) = {lost(t) : t \in ts}
  BY DEF Cleared
<1> HIDE DEF lost
<1> QED BY <1>1, <1>2

LEMMA FormerTasks ==
  ASSUME NEW ts, ts \subseteq Tasks
  PROVE  Former(ts) \subseteq Tasks /\ \A t \in Former(ts) : t.mode # "held"
<1> DEFINE cleared == Cleared(ts)
<1>1. cleared \subseteq Tasks /\ \A t \in cleared : t.mode # "held"
  BY ClearedTasks
<1>2. Former(ts) = {[t EXCEPT !.mine = FALSE] : t \in cleared}
  BY DEF Former
<1> HIDE DEF cleared
<1> SUFFICES ASSUME NEW t \in cleared
             PROVE  [t EXCEPT !.mine = FALSE] \in Tasks /\ [t EXCEPT !.mine = FALSE].mode # "held"
  BY <1>2
<1>3. t \in Tasks /\ t.mode # "held"
  BY <1>1
<1> QED BY <1>3 DEF Tasks

LEMMA NewTask == New \in Tasks /\ New.mode = "held" /\ New.left = TIMEOUT
BY DEF New, Tasks

LEMMA ScheduledTasks ==
  ASSUME tasks \subseteq Tasks, Schedule
  PROVE  tasks' \subseteq Tasks /\ AtMostOneHeld(tasks') /\ New \in tasks'
<1>1. tasks' = Cancelled(tasks) \cup {New}
  BY DEF Schedule
<1> QED BY <1>1, CancelledTasks, NewTask DEF AtMostOneHeld

-----------------------------------------------------------------------------
(* The steps                                                               *)

\* The lobby, if it is one, is touched.
LEMMA TouchStep ==
  ASSUME IInv, NEW reset \in BOOLEAN, NEW n \in 1..MaxPeople, Touch(reset, n), exists,
         people' = n, entering' \in 0..n, ConnectsBounded',
         UNCHANGED <<exists, stage, strays, sweeping, age>>
  PROVE  IInv'
<1> USE DEF IInv, Types, Flags, Numbers, Peopled, StraysComeEarly, SilentSinceMade
<1>1. CASE stage = "lobby"
  <2>1. /\ Schedule /\ silent' = Recorded(reset) /\ still' = 0 /\ untimed' = FALSE
    BY <1>1 DEF Touch, Candidate
  <2>2. tasks' \subseteq Tasks /\ AtMostOneHeld(tasks') /\ New \in tasks'
    BY <2>1, ScheduledTasks
  <2>3. silent' \in 0..Never /\ silent' # Never /\ (silent' = 0 \/ silent' = silent)
    BY <2>1 DEF Recorded, Never
  <2>4. Flags' /\ Numbers'
    <3>1. Flags'
      BY <2>1
    <3>2. Numbers'
      BY <2>1, <2>2, <2>3 DEF Never
    <3> QED BY <3>1, <3>2
  <2>7. Peopled' /\ ConnectsBounded' /\ StraysComeEarly' /\ SilentSinceMade'
    BY <2>1, <2>3 DEF Never
  <2>5. Touched' /\ StillLobbyGoes'
    BY <2>1, <2>3 DEF Touched, StillLobbyGoes
  <2>6. LobbyIsTimed'
    <3>1. New.mode # "cancelled" /\ New.left + still' <= TIMEOUT /\ silent' + New.left >= TIMEOUT
      BY <2>1, <2>3, NewTask DEF Never
    <3> QED BY <3>1, <2>2 DEF LobbyIsTimed
  <2> QED BY <2>2, <2>4, <2>5, <2>6, <2>7
<1>2. CASE stage # "lobby"
  <2>1. tasks' = Cancelled(tasks) /\ UNCHANGED <<silent, still, untimed>>
    BY <1>2 DEF Touch, Candidate
  <2>2. tasks' \subseteq Tasks /\ AtMostOneHeld(tasks')
    BY <2>1, CancelledTasks DEF AtMostOneHeld
  <2>3. Flags' /\ Numbers'
    <3>1. Flags'
      BY <2>1
    <3>2. Numbers'
      BY <2>1, <2>2
    <3> QED BY <3>1, <3>2
  <2>5. Peopled' /\ ConnectsBounded' /\ StraysComeEarly' /\ SilentSinceMade'
    BY <2>1
  <2>4. Touched' /\ LobbyIsTimed' /\ StillLobbyGoes'
    BY <1>2 DEF Touched, LobbyIsTimed, StillLobbyGoes, Candidate
  <2> QED BY <2>2, <2>3, <2>4, <2>5
<1> QED BY <1>1, <1>2

\* The Room leaves the table, or a game is on: the lobby's clock says nothing.
LEMMA NoLobbyStep ==
  ASSUME IInv, ~exists' \/ stage' # "lobby",
         exists' \in BOOLEAN, people' \in 0..MaxPeople, Peopled',
         stage' \in {"lobby", "game", "over"}, entering' \in 0..people', strays' \in 0..MaxPeople,
         ConnectsBounded', strays' > 0 /\ exists' => exists /\ strays > 0,
         tasks' \subseteq Tasks, AtMostOneHeld(tasks'), sweeping' \in BOOLEAN,
         untimed' \in BOOLEAN, UNCHANGED <<silent, still, age>>
  PROVE  IInv'
<1> USE DEF IInv
<1>1. Types'
  BY DEF Types, Flags, Numbers
<1>2. Peopled' /\ ConnectsBounded' /\ StraysComeEarly' /\ SilentSinceMade'
  BY DEF Peopled, ConnectsBounded, StraysComeEarly, SilentSinceMade
<1>3. Touched' /\ LobbyIsTimed' /\ StillLobbyGoes'
  BY DEF Touched, LobbyIsTimed, StillLobbyGoes, Candidate
<1> QED BY <1>1, <1>2, <1>3

\* Some tasks end or lose their handle, and the lobby's one is not among them.
LEMMA TasksStep ==
  ASSUME IInv, tasks' \subseteq Tasks, AtMostOneHeld(tasks'),
         sweeping' \in BOOLEAN, sweeping => sweeping',
         exists /\ Candidate(people) /\ ~untimed /\ ~sweeping' /\ entering = 0 =>
           \A t \in tasks :
             /\ t.mode # "cancelled"
             /\ t.left + still <= TIMEOUT
             /\ silent = Never \/ silent + t.left >= TIMEOUT
             => \E u \in tasks' : u.mode # "cancelled" /\ u.left = t.left,
         UNCHANGED <<exists, people, stage, silent, entering, strays, still, age, untimed>>
  PROVE  IInv'
<1> USE DEF IInv
<1>1. Types'
  BY DEF Types, Flags, Numbers
<1>2. Peopled' /\ ConnectsBounded' /\ StraysComeEarly' /\ SilentSinceMade' /\ Touched'
  BY DEF Peopled, ConnectsBounded, StraysComeEarly, SilentSinceMade, Touched
<1>3. LobbyIsTimed'
  BY DEF LobbyIsTimed, Candidate, Types, Flags, Numbers
<1>4. StillLobbyGoes'
  BY DEF StillLobbyGoes, Candidate, Types, Flags, Numbers
<1> QED BY <1>1, <1>2, <1>3, <1>4

LEMMA FireStep ==
  ASSUME IInv, NEW t \in tasks, Fire(t)
  PROVE  IInv'
<1> DEFINE rest == IF t.mine THEN Cleared(tasks \ {t}) ELSE tasks \ {t}
           due  == exists /\ Candidate(people) /\ silent >= TIMEOUT
<1>1. /\ t.mode # "cancelled" /\ t.left = 0
      /\ tasks' = IF due THEN Cancelled(rest) ELSE rest
      /\ sweeping' = (sweeping \/ due)
      /\ UNCHANGED <<exists, people, stage, silent, entering, strays, still, age, untimed>>
  BY DEF Fire
<1>2. rest \subseteq Tasks /\ AtMostOneHeld(rest)
  BY ClearedTasks DEF IInv, Types, Flags, Numbers, AtMostOneHeld
<1>3. tasks' \subseteq Tasks /\ AtMostOneHeld(tasks')
  BY <1>1, <1>2, CancelledTasks DEF AtMostOneHeld
<1>4. \A w \in tasks \ {t} : w.mode # "cancelled" =>
        \E u \in rest : u.mode # "cancelled" /\ u.left = w.left
  BY ClearedTasks DEF IInv, Types, Flags, Numbers
<1>5. ASSUME exists, Candidate(people), ~sweeping', NEW w \in tasks,
             w.mode # "cancelled", silent = Never \/ silent + w.left >= TIMEOUT
      PROVE  \E u \in tasks' : u.mode # "cancelled" /\ u.left = w.left
  <2>1. ~due
    BY <1>1, <1>5
  <2>2. w # t
    BY <1>1, <1>5, <2>1 DEF IInv, Types, Flags, Numbers, Never
  <2> QED BY <1>1, <1>4, <1>5, <2>1, <2>2
<1>6. sweeping' \in BOOLEAN /\ (sweeping => sweeping')
  BY <1>1 DEF IInv, Types, Flags, Numbers
<1> HIDE DEF rest, due
<1> QED BY <1>1, <1>3, <1>5, <1>6, TasksStep

LEMMA UnwindStep ==
  ASSUME IInv, NEW t \in tasks, Unwind(t)
  PROVE  IInv'
<1>1. /\ t.mode = "cancelled"
      /\ tasks' \in {Cleared(tasks \ {t}), tasks \ {t}}
      /\ UNCHANGED <<exists, people, stage, silent, entering, strays, sweeping, still, age, untimed>>
  BY DEF Unwind
<1>2. tasks' \subseteq Tasks /\ AtMostOneHeld(tasks')
  BY <1>1, ClearedTasks DEF IInv, Types, Flags, Numbers, AtMostOneHeld
<1>3. \A w \in tasks : w.mode # "cancelled" =>
        \E u \in tasks' : u.mode # "cancelled" /\ u.left = w.left
  BY <1>1, ClearedTasks DEF IInv, Types, Flags, Numbers
<1>4. sweeping' \in BOOLEAN /\ (sweeping => sweeping')
  BY <1>1 DEF IInv, Types, Flags, Numbers
<1> QED BY <1>1, <1>2, <1>3, <1>4, TasksStep

LEMMA EnterStep ==
  ASSUME IInv, Enter
  PROVE  IInv'
<1> USE DEF IInv
<1>1. Types'
  BY DEF Enter, Types, Flags, Numbers, Never
<1>2. Peopled' /\ ConnectsBounded'
  BY DEF Enter, Types, Flags, Numbers, Peopled, ConnectsBounded
<1>3. StraysComeEarly' /\ SilentSinceMade'
  BY DEF Enter, Types, Flags, Numbers, StraysComeEarly, SilentSinceMade
<1>4. Touched' /\ LobbyIsTimed'
  BY DEF Enter, Types, Flags, Numbers, Touched, LobbyIsTimed
<1>5. StillLobbyGoes'
  BY DEF Enter, Types, Flags, Numbers, Peopled, StillLobbyGoes, Candidate
<1>6. AtMostOneHeld(tasks')
  BY DEF Enter
<1> QED BY <1>1, <1>2, <1>3, <1>4, <1>5, <1>6

LEMMA StrayStep ==
  ASSUME IInv, StrayTouches
  PROVE  IInv'
<1> USE DEF IInv, Types, Flags, Numbers, Peopled, ConnectsBounded, StraysComeEarly, SilentSinceMade
<1>1. /\ strays > 0 /\ strays' = strays - 1
      /\ UNCHANGED <<exists, people, stage, silent, entering, sweeping, still, age, untimed>>
  BY DEF StrayTouches
<1>2. tasks' \subseteq Tasks /\ AtMostOneHeld(tasks') /\ (exists => New \in tasks')
  BY ScheduledTasks DEF StrayTouches
<1>3. Types' /\ Peopled' /\ ConnectsBounded' /\ StraysComeEarly' /\ SilentSinceMade'
  BY <1>1, <1>2
<1>4. Touched' /\ StillLobbyGoes'
  BY <1>1 DEF Touched, StillLobbyGoes, Candidate
<1>5. LobbyIsTimed'
  <2> SUFFICES ASSUME exists PROVE LobbyIsTimed'
    BY <1>1 DEF LobbyIsTimed
  <2>1. New.mode # "cancelled" /\ New.left + still' <= TIMEOUT
        /\ (silent' = Never \/ silent' + New.left >= TIMEOUT)
    BY <1>1, NewTask DEF Never
  <2> QED BY <1>2, <2>1 DEF LobbyIsTimed
<1> QED BY <1>2, <1>3, <1>4, <1>5

LEMMA LeaveStep ==
  ASSUME IInv, Leave
  PROVE  IInv'
<1> USE DEF IInv, Types, Flags, Numbers
<1>1. /\ people > entering /\ people' = people - 1
      /\ UNCHANGED <<stage, entering, strays, sweeping, age>>
  BY DEF Leave
<1>2. CASE people > 1 /\ Candidate(people - 1)
  <2>1. Touch(FALSE, people - 1) /\ exists' = exists
    BY <1>1, <1>2 DEF Leave
  <2>2. exists /\ people - 1 \in 1..MaxPeople /\ people' = people - 1
        /\ entering' \in 0..people - 1 /\ ConnectsBounded'
    BY <1>1, <1>2 DEF Peopled, ConnectsBounded
  <2> QED BY <1>1, <2>1, <2>2, TouchStep
<1>3. CASE people > 1 /\ ~Candidate(people - 1)
  <2>1. stage # "lobby"
    BY <1>3 DEF Candidate
  <2>2. UNCHANGED <<tasks, silent, still, untimed, exists>>
    BY <1>3, Zenon DEF Leave
  <2>3. Peopled' /\ ConnectsBounded'
    BY <1>1, <1>3, <2>2 DEF Peopled, ConnectsBounded
  <2>4. people' \in 0..MaxPeople /\ entering' \in 0..people'
    BY <1>1
  <2> QED BY <1>1, <2>1, <2>2, <2>3, <2>4, NoLobbyStep
<1>4. CASE people = 1
  <2>1. /\ exists' = FALSE /\ tasks' = Former(Cancelled(tasks)) /\ untimed' = FALSE
        /\ UNCHANGED <<silent, still>>
    BY <1>4 DEF Leave
  <2>2. tasks' \subseteq Tasks /\ AtMostOneHeld(tasks')
    BY <2>1, CancelledTasks, FormerTasks DEF AtMostOneHeld
  <2>3. Peopled' /\ ConnectsBounded' /\ people' \in 0..MaxPeople /\ entering' \in 0..people'
    BY <1>1, <1>4, <2>1 DEF Peopled, ConnectsBounded
  <2> QED BY <1>1, <2>1, <2>2, <2>3, NoLobbyStep
<1> QED BY <1>1, <1>2, <1>3, <1>4

LEMMA SweepStep ==
  ASSUME IInv, SweepPops
  PROVE  IInv'
<1>1. tasks' \subseteq Tasks /\ AtMostOneHeld(tasks')
  BY FormerTasks DEF SweepPops, IInv, Types, Flags, Numbers, AtMostOneHeld
<1>2. /\ exists' = FALSE /\ people' = 0 /\ entering' = 0 /\ strays' = strays + entering
      /\ sweeping' = FALSE /\ untimed' = FALSE
      /\ UNCHANGED <<stage, silent, still, age>>
  BY DEF SweepPops
<1>3. strays' \in 0..MaxPeople
  BY DEF SweepPops, IInv, Types, Flags, Numbers, ConnectsBounded
<1>4. Peopled' /\ ConnectsBounded'
  <2>1. Peopled'
    BY <1>2 DEF Peopled
  <2>2. ConnectsBounded'
    BY <1>2 DEF IInv, Types, Numbers, ConnectsBounded
  <2> QED BY <2>1, <2>2
<1>5. stage' \in {"lobby", "game", "over"} /\ people' \in 0..MaxPeople /\ entering' \in 0..people'
  BY <1>2 DEF IInv, Types, Flags, Numbers
<1> QED BY <1>1, <1>2, <1>3, <1>4, <1>5, NoLobbyStep

LEMMA RestartStep ==
  ASSUME IInv, Restart
  PROVE  IInv'
<1> USE DEF IInv, Types, Flags, Numbers, Peopled, ConnectsBounded, StraysComeEarly, SilentSinceMade
<1>1. /\ people > 0 /\ stage' = "lobby" /\ silent' = 0 /\ still' = 0 /\ untimed' = FALSE
      /\ UNCHANGED <<exists, people, entering, strays, sweeping, age>>
  BY DEF Restart
<1>2. tasks' \subseteq Tasks /\ AtMostOneHeld(tasks') /\ New \in tasks'
  BY ScheduledTasks DEF Restart
<1>3. silent' \in 0..Never /\ silent' <= age'
  BY <1>1 DEF Never
<1>6. Flags' /\ Numbers'
  <2>1. Flags'
    BY <1>1
  <2>2. Numbers'
    BY <1>1, <1>2, <1>3
  <2> QED BY <2>1, <2>2
<1>7. Peopled' /\ ConnectsBounded' /\ StraysComeEarly' /\ SilentSinceMade'
  BY <1>1, <1>3
<1>5. Touched' /\ StillLobbyGoes'
  BY <1>1 DEF Touched, StillLobbyGoes, Never
<1>4. LobbyIsTimed'
  <2>1. New.mode # "cancelled" /\ New.left + still' <= TIMEOUT /\ silent' + New.left >= TIMEOUT
    BY <1>1, NewTask
  <2> QED BY <1>2, <2>1 DEF LobbyIsTimed
<1> QED BY <1>2, <1>4, <1>5, <1>6, <1>7

LEMMA DissolveStep ==
  ASSUME IInv, Dissolve
  PROVE  IInv'
<1> USE DEF IInv, Dissolve
<1>1. tasks' \subseteq Tasks /\ AtMostOneHeld(tasks')
  BY CancelledTasks DEF Types, Flags, Numbers, AtMostOneHeld
<1>2. Types'
  BY <1>1 DEF Types, Flags, Numbers
<1>3. Peopled' /\ ConnectsBounded' /\ StraysComeEarly' /\ SilentSinceMade' /\ Touched'
  BY DEF Peopled, ConnectsBounded, StraysComeEarly, SilentSinceMade, Touched
<1>4. LobbyIsTimed' /\ StillLobbyGoes'
  BY DEF LobbyIsTimed, StillLobbyGoes
<1> QED BY <1>1, <1>2, <1>3, <1>4

\* A tick takes from the task's sleep what it adds to the stillness.
LEMMA TickStep ==
  ASSUME IInv, Tick
  PROVE  IInv'
<1> USE DEF IInv
<1> DEFINE later(t) == [t EXCEPT !.left = @ - 1]
<1>1. \A t \in tasks : /\ later(t) \in Tasks /\ later(t).mode = t.mode
                       /\ later(t).left = t.left - 1 /\ later(t).mine = t.mine
  <2> SUFFICES ASSUME NEW t \in tasks
               PROVE  /\ later(t) \in Tasks /\ later(t).mode = t.mode
                      /\ later(t).left = t.left - 1 /\ later(t).mine = t.mine
    OBVIOUS
  <2>1. t \in Tasks /\ t.left > 0
    BY DEF Tick, Types, Flags, Numbers
  <2> QED BY <2>1 DEF Tasks
<1>2. tasks' = {later(t) : t \in tasks}
  BY DEF Tick
<1> HIDE DEF later
<1>3. tasks' \subseteq Tasks /\ AtMostOneHeld(tasks')
  BY <1>1, <1>2 DEF AtMostOneHeld
<1>4. Types'
  BY <1>3 DEF Tick, Types, Flags, Numbers, Never
<1>5. Peopled' /\ ConnectsBounded' /\ StraysComeEarly'
  BY DEF Tick, Peopled, ConnectsBounded, StraysComeEarly
<1>6. SilentSinceMade' /\ Touched'
  BY DEF Tick, Types, Flags, Numbers, Never, SilentSinceMade, Touched
<1>7. ASSUME exists, Candidate(people), ~untimed, ~sweeping
      PROVE  LobbyIsTimed' /\ StillLobbyGoes'
  <2>1. entering = 0
    BY DEF Tick
  <2>2. PICK t \in tasks : /\ t.mode # "cancelled" /\ t.left + still <= TIMEOUT
                           /\ silent = Never \/ silent + t.left >= TIMEOUT
    BY <1>7, <2>1 DEF LobbyIsTimed
  <2>3. t.left \in 1..TIMEOUT
    BY DEF Tick, Types, Flags, Numbers, Tasks
  <2>4. later(t).left + still' <= TIMEOUT /\ still' <= TIMEOUT
    BY <1>1, <2>2, <2>3 DEF Tick, Types, Flags, Numbers
  <2>5. silent' = Never \/ silent' + later(t).left >= TIMEOUT
    BY <1>1, <2>2, <2>3 DEF Tick, Types, Flags, Numbers, Never
  <2>6. LobbyIsTimed'
    BY <1>1, <1>2, <2>2, <2>4, <2>5 DEF LobbyIsTimed
  <2>7. StillLobbyGoes'
    BY <2>4 DEF StillLobbyGoes
  <2> QED BY <2>6, <2>7
<1>8. ASSUME ~(exists /\ Candidate(people) /\ ~untimed /\ ~sweeping)
      PROVE  LobbyIsTimed' /\ StillLobbyGoes'
  BY <1>8 DEF Tick, LobbyIsTimed, StillLobbyGoes, Candidate
<1> QED BY <1>3, <1>4, <1>5, <1>6, <1>7, <1>8

LEMMA Step ==
  ASSUME IInv, [Next]_vars
  PROVE  IInv'
<1>1. CASE \E t \in tasks : Fire(t) \/ Unwind(t)
  BY <1>1, FireStep, UnwindStep
<1>2. CASE EnterTouches
  <2>1. exists /\ people \in 1..MaxPeople /\ people' = people /\ entering' \in 0..people
        /\ ConnectsBounded'
        /\ UNCHANGED <<exists, stage, strays, sweeping, age>>
    BY <1>2 DEF EnterTouches, IInv, Types, Flags, Numbers, Peopled, ConnectsBounded
  <2>2. Touch(FALSE, people)
    BY <1>2 DEF EnterTouches
  <2> QED BY <2>1, <2>2, TouchStep
<1>3. CASE Act
  <2>1. exists /\ people \in 1..MaxPeople /\ people' = people /\ entering' \in 0..people
        /\ ConnectsBounded'
        /\ UNCHANGED <<exists, stage, strays, sweeping, age>>
    BY <1>3 DEF Act, IInv, Types, Flags, Numbers, Peopled, ConnectsBounded
  <2>2. Touch(TRUE, people)
    BY <1>3 DEF Act
  <2> QED BY <2>1, <2>2, TouchStep
<1>4. CASE Start
  <2>1. tasks' \subseteq Tasks /\ AtMostOneHeld(tasks')
    BY <1>4, CancelledTasks DEF Start, IInv, Types, Flags, Numbers, AtMostOneHeld
  <2> QED BY <1>4, <2>1, NoLobbyStep DEF Start, IInv, Types, Flags, Numbers, Peopled, ConnectsBounded
<1>5. CASE GameEnds
  BY <1>5, NoLobbyStep DEF GameEnds, IInv, Types, Flags, Numbers, Peopled, ConnectsBounded
<1>6. CASE UNCHANGED vars
  BY <1>6 DEF vars, IInv, Types, Flags, Numbers, AtMostOneHeld, Peopled, ConnectsBounded, StraysComeEarly,
              SilentSinceMade, Touched, LobbyIsTimed, StillLobbyGoes, Candidate
<1> QED BY <1>1, <1>2, <1>3, <1>4, <1>5, <1>6, EnterStep, StrayStep, LeaveStep, SweepStep,
           RestartStep, DissolveStep, TickStep DEF Next

-----------------------------------------------------------------------------
\* Clocks, tasks and connects of an idle lobby fit together.
THEOREM IdleInvariant == Spec => []IInv
<1>1. Init => IInv
  <2> SUFFICES ASSUME Init PROVE IInv
    OBVIOUS
  <2> USE DEF Init
  <2>1. Flags
    BY DEF Flags
  <2>2. Numbers
    BY DEF Numbers, Never
  <2>3. Peopled /\ ConnectsBounded /\ StraysComeEarly /\ SilentSinceMade
    BY DEF Peopled, ConnectsBounded, StraysComeEarly, SilentSinceMade
  <2>4. AtMostOneHeld(tasks) /\ Touched /\ LobbyIsTimed /\ StillLobbyGoes
    BY DEF AtMostOneHeld, Touched, LobbyIsTimed, StillLobbyGoes
  <2> QED BY <2>1, <2>2, <2>3, <2>4 DEF IInv, Types
<1> QED BY <1>1, Step, PTL DEF Spec

\* The variables of LobbyIdle keep their types; the handle refers to one task.
THEOREM IdleTypes == Spec => []TypeOK
<1>1. IInv => TypeOK
  <2> SUFFICES ASSUME IInv PROVE TypeOK
    OBVIOUS
  <2> DEFINE held == {t \in tasks : t.mode = "held"}
  <2>1. held = {} \/ \E t \in held : held = {t}
    BY DEF IInv, AtMostOneHeld
  <2>2. Cardinality(held) <= 1
    <3>1. CASE held = {}
      BY <3>1, FS_EmptySet
    <3>2. ASSUME NEW t \in held, held = {t} PROVE Cardinality(held) <= 1
      <4>1. Cardinality({t}) = 1
        BY FS_Singleton
      <4> QED BY <3>2, <4>1
    <3> QED BY <2>1, <3>1, <3>2
  <2> HIDE DEF held
  <2>3. Cardinality({t \in tasks : t.mode = "held"}) <= 1
    BY <2>2 DEF held
  <2> QED BY <2>3 DEF IInv, Types, Flags, Numbers, Tasks, Peopled, TypeOK
<1> QED BY <1>1, IdleInvariant, PTL

\* touch_lobby_idle, _idle: a task that will dissolve it sleeps by every lobby,
\* whatever handles were lost.
THEOREM LobbyTimed == Spec => []LobbyIsTimed
<1>1. IInv => LobbyIsTimed
  BY DEF IInv
<1> QED BY <1>1, IdleInvariant, PTL

\* A lobby in which nothing happens is dissolved in time.
THEOREM StillLobbyEnds == Spec => []StillLobbyGoes
<1>1. IInv => StillLobbyGoes
  BY DEF IInv
<1> QED BY <1>1, IdleInvariant, PTL

\* _idle looks its room up by id: a task of a former Room does no harm to a
\* young lobby.
THEOREM YoungLobbyKept == Spec => YoungLobbyStays
<1>1. ASSUME IInv, [Next]_vars
      PROVE  [~sweeping /\ sweeping' => age = TIMEOUT \/ entering > 0]_vars
  <2> SUFFICES ASSUME Next, ~sweeping, sweeping', entering = 0 PROVE age = TIMEOUT
    BY <1>1 DEF IInv, Types, Flags, Numbers
  <2>1. \E t \in tasks : Fire(t)
    BY DEF Next, Unwind, Enter, EnterTouches, StrayTouches, Leave, SweepPops, Act, Start,
           GameEnds, Restart, Dissolve, Tick
  <2>2. exists /\ stage = "lobby" /\ silent >= TIMEOUT
    BY <2>1 DEF Fire, Candidate
  <2> QED BY <1>1, <2>2 DEF IInv, Types, Flags, Numbers, Touched, SilentSinceMade, Never
<1> QED BY <1>1, IdleInvariant, PTL DEF Spec, YoungLobbyStays
=============================================================================
