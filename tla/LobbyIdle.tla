------------------------------ MODULE LobbyIdle ------------------------------
(***************************************************************************)
(* The idle timer of a lobby (touch_lobby_idle, _schedule_lobby_idle,      *)
(* cancel_lobby_idle, dissolve_idle_lobby, manager.py, and their callers): *)
(* an _idle task sleeps TIMEOUT and dissolves the lobby it then finds      *)
(* under the room's id.  The handler of a cancelled task clears the        *)
(* handle of whatever task is held by then, which leaves that one running  *)
(* with nobody to cancel it.                                               *)
(*                                                                         *)
(* Time is in ticks.  Sending, closing sockets and database calls take     *)
(* less than a tick, but other events do come in between.                  *)
(***************************************************************************)
EXTENDS Naturals, FiniteSets

CONSTANTS
  TIMEOUT,             \* LOBBY_IDLE_TIMEOUT_SECONDS
  MaxPeople,           \* bound on the people in the room
  MaxTasks             \* bound on the _idle tasks of one room id

ASSUME LobbyIdleAssumption ==
  TIMEOUT \in Nat \ {0} /\ MaxPeople \in Nat \ {0} /\ MaxTasks \in Nat \ {0}

Never == TIMEOUT + 1   \* last_lobby_activity_at is 0.0

VARIABLES
  exists,              \* the room id is in the table; then, of that Room:
  people,              \*   how many sockets are registered
  stage,               \*   "lobby", "game" (round or review), "over"
  silent,              \*   ticks since last_lobby_activity_at, up to TIMEOUT
  entering,            \*   connects that have yet to touch the lobby
  strays,              \* the same, of Rooms no longer in the table
  tasks,               \* _idle tasks: [mode, left, mine]; "held" is the one
                       \* _lobby_idle_task refers to, "cancelled" has its
                       \* handler to run, mine is of the Room in the table
  sweeping,            \* dissolve_idle_lobby is closing the sockets
  still,               \* history: ticks since the lobby was last touched
  age,                 \* history: ticks since the Room was made
  untimed              \* history: a dissolve message took the task away

vars == <<exists, people, stage, silent, entering, strays, tasks, sweeping, still, age, untimed>>

Init ==
  /\ exists = FALSE /\ people = 0 /\ stage = "lobby" /\ silent = Never
  /\ entering = 0 /\ strays = 0 /\ tasks = {} /\ sweeping = FALSE
  /\ still = 0 /\ age = 0 /\ untimed = FALSE

-----------------------------------------------------------------------------
(* The handle and the tasks                                                *)

\* Mutant: the handle is forgotten without a cancel.
NotCancelled(ts) == ts

\* cancel_lobby_idle.
Cancelled(ts) ==
  {IF t.mode = "held" THEN [t EXCEPT !.mode = "cancelled"] ELSE t : t \in ts}

\* A handler of a task of this Room clears the handle.
Cleared(ts) == {IF t.mode = "held" THEN [t EXCEPT !.mode = "lost"] ELSE t : t \in ts}

\* The Room is out of the table: nobody cancels its tasks any more.
Former(ts) == {[t EXCEPT !.mine = FALSE] : t \in Cleared(ts)}

New == [mode |-> "held", left |-> TIMEOUT, mine |-> TRUE]

\* _is_lobby_idle_candidate, with this many people.
Candidate(n) == stage = "lobby" /\ n > 0

\* Mutant: a task that is there is thought to be enough, but is cancelled.
ScheduleOnce ==
  /\ Cardinality(tasks) < MaxTasks
  /\ tasks' = IF tasks = {} THEN {New} ELSE Cancelled(tasks)

\* _schedule_lobby_idle of the Room in the table.
Schedule ==
  /\ Cardinality(tasks) < MaxTasks
  /\ tasks' = Cancelled(tasks) \cup {New}

\* Mutant: only what resets it is recorded as activity.
ResetOnly(reset) == IF reset THEN 0 ELSE silent

\* last_lobby_activity_at after touch_lobby_idle.
Recorded(reset) == IF reset \/ silent = Never THEN 0 ELSE silent

\* touch_lobby_idle of the Room in the table, with this many people.
Touch(reset, n) ==
  IF Candidate(n)
  THEN /\ Schedule
       /\ silent' = Recorded(reset)
       /\ still' = 0 /\ untimed' = FALSE
  ELSE tasks' = Cancelled(tasks) /\ UNCHANGED <<silent, still, untimed>>

\* The sleep of a task is over; it dissolves the lobby that is there now, if
\* that has been silent, or silent from the beginning.
Fire(t) ==
  /\ t.mode # "cancelled" /\ t.left = 0
  /\ LET rest == IF t.mine THEN Cleared(tasks \ {t}) ELSE tasks \ {t}
         due  == exists /\ Candidate(people) /\ silent >= TIMEOUT
     IN  /\ tasks' = IF due THEN Cancelled(rest) ELSE rest
         /\ sweeping' = (sweeping \/ due)
  /\ UNCHANGED <<exists, people, stage, silent, entering, strays, still, age, untimed>>

\* The handler of a cancelled task runs, unless the task had not begun to.
Unwind(t) ==
  /\ t.mode = "cancelled"
  /\ \/ tasks' = IF t.mine THEN Cleared(tasks \ {t}) ELSE tasks \ {t}
     \/ t.left = TIMEOUT /\ tasks' = tasks \ {t}
  /\ UNCHANGED <<exists, people, stage, silent, entering, strays, sweeping, still, age, untimed>>

-----------------------------------------------------------------------------
(* People come and go                                                      *)

\* connect registers a socket, in a new Room if there is none.
Enter ==
  /\ people < MaxPeople /\ entering + strays < MaxPeople
  /\ people' = people + 1 /\ entering' = entering + 1
  /\ exists' = TRUE
  /\ IF exists
     THEN UNCHANGED <<stage, silent, still, age>>
     ELSE stage' = "lobby" /\ silent' = Never /\ still' = 0 /\ age' = 0
  /\ UNCHANGED <<strays, tasks, sweeping, untimed>>

\* ... and touches the lobby when its saves have returned.
EnterTouches ==
  /\ entering > 0 /\ entering' = entering - 1
  /\ Touch(FALSE, people)
  /\ UNCHANGED <<exists, people, stage, strays, sweeping, age>>

\* The connect of a former Room schedules the task of the present one.
StrayTouches ==
  /\ strays > 0 /\ strays' = strays - 1
  /\ IF exists THEN Schedule ELSE UNCHANGED tasks
  /\ UNCHANGED <<exists, people, stage, silent, entering, sweeping, still, age, untimed>>

\* disconnect, of one of several and of the last one.
Leave ==
  /\ people > entering
  /\ people' = people - 1
  /\ IF people > 1
     THEN /\ IF Candidate(people - 1) THEN Touch(FALSE, people - 1)
             ELSE UNCHANGED <<tasks, silent, still, untimed>>
          /\ UNCHANGED exists
     ELSE /\ exists' = FALSE
          /\ tasks' = Former(Cancelled(tasks)) /\ untimed' = FALSE
          /\ UNCHANGED <<silent, still>>
  /\ UNCHANGED <<stage, entering, strays, sweeping, age>>

\* dissolve_idle_lobby has closed the sockets: the Room that is there is out.
SweepPops ==
  /\ sweeping /\ sweeping' = FALSE
  /\ exists' = FALSE /\ people' = 0
  /\ entering' = 0 /\ strays' = strays + entering
  /\ tasks' = Former(tasks) /\ untimed' = FALSE
  /\ UNCHANGED <<stage, silent, still, age>>

-----------------------------------------------------------------------------
(* Messages                                                                *)

\* ready, not_ready, or restart_game out of its time.
Act ==
  /\ people > 0
  /\ Touch(TRUE, people)
  /\ UNCHANGED <<exists, people, stage, entering, strays, sweeping, age>>

\* ready by the last one who was not: a round starts.
Start ==
  /\ people > 0 /\ stage = "lobby"
  /\ stage' = "game" /\ tasks' = Cancelled(tasks)
  /\ UNCHANGED <<exists, people, silent, entering, strays, sweeping, still, age, untimed>>

GameEnds ==
  /\ people > 0 /\ stage = "game"
  /\ stage' = "over"
  /\ UNCHANGED <<exists, people, silent, entering, strays, tasks, sweeping, still, age, untimed>>

Restart ==
  /\ people > 0 /\ stage = "over"
  /\ stage' = "lobby"
  /\ Schedule /\ silent' = 0 /\ still' = 0 /\ untimed' = FALSE
  /\ UNCHANGED <<exists, people, entering, strays, sweeping, age>>

\* dissolve_room, whoever sends it.
Dissolve ==
  /\ people > 0
  /\ tasks' = Cancelled(tasks) /\ untimed' = TRUE
  /\ UNCHANGED <<exists, people, stage, silent, entering, strays, sweeping, still, age>>

-----------------------------------------------------------------------------
\* A tick passes when nothing is left to do at this moment.
Tick ==
  /\ entering = 0 /\ strays = 0 /\ ~sweeping
  /\ \A t \in tasks : t.mode # "cancelled" /\ t.left > 0
  /\ tasks' = {[t EXCEPT !.left = @ - 1] : t \in tasks}
  /\ silent' = IF silent < TIMEOUT THEN silent + 1 ELSE silent
  /\ still' = IF still <= TIMEOUT THEN still + 1 ELSE still
  /\ age' = IF age < TIMEOUT THEN age + 1 ELSE age
  /\ UNCHANGED <<exists, people, stage, entering, strays, sweeping, untimed>>

Next ==
  \/ \E t \in tasks : Fire(t) \/ Unwind(t)
  \/ Enter \/ EnterTouches \/ StrayTouches \/ Leave \/ SweepPops
  \/ Act \/ Start \/ GameEnds \/ Restart \/ Dissolve
  \/ Tick

Spec == Init /\ [][Next]_vars

-----------------------------------------------------------------------------
TypeOK ==
  /\ exists \in BOOLEAN /\ people \in 0..MaxPeople /\ (people > 0 => exists)
  /\ stage \in {"lobby", "game", "over"} /\ silent \in 0..Never
  /\ entering \in 0..people /\ strays \in 0..MaxPeople
  /\ tasks \subseteq [mode : {"held", "lost", "cancelled"}, left : 0..TIMEOUT, mine : BOOLEAN]
  /\ Cardinality({t \in tasks : t.mode = "held"}) <= 1
  /\ sweeping \in BOOLEAN /\ still \in 0..(TIMEOUT + 1)
  /\ age \in 0..TIMEOUT /\ untimed \in BOOLEAN

\* A lobby in which nothing happens is dissolved TIMEOUT after the last thing
\* that did: however many cancelled tasks have cleared the handle, the newest
\* one sleeps on and finds the lobby silent (touch_lobby_idle, _idle).
StillLobbyGoes ==
  exists /\ Candidate(people) /\ ~untimed /\ ~sweeping => still <= TIMEOUT

\* What holds it together: a task is asleep that ends no later than the lobby
\* may last, and that will then find it silent long enough.
LobbyIsTimed ==
  exists /\ Candidate(people) /\ ~untimed /\ ~sweeping /\ entering = 0 =>
    \E t \in tasks :
      /\ t.mode # "cancelled"
      /\ t.left + still <= TIMEOUT
      /\ silent = Never \/ silent + t.left >= TIMEOUT

\* A timer left over from a former Room of the same id does not dissolve a lobby
\* in its first TIMEOUT, except in the moment before its first player's connect
\* has recorded the lobby's first activity.
YoungLobbyStays ==
  [][~sweeping /\ sweeping' => age = TIMEOUT \/ entering > 0]_vars
=============================================================================
