-------------------------- MODULE MembershipProofs --------------------------
(***************************************************************************)
(* Proofs about module Membership, for every set of names and sockets and  *)
(* every cap.  That the old socket's end leaves the new one alone needs    *)
(* that a socket is registered only after it was accepted; the rest needs  *)
(* that a room without a host is empty, that an id without a Room has      *)
(* neither host nor connections, and that a coroutine which holds the Room *)
(* of the table holds one that is there.                                   *)
(***************************************************************************)
EXTENDS Membership, TLAPS

\* Between its start and its registration, no room knows the socket.
UnregisteredUntilAccepted ==
  \A s \in Sockets, p \in Names :
    connections[p] = s => pc[s] \notin {"reading", "accepting"}

\* A coroutine that runs knows for whom.
RunsForSomebody == \A s \in Sockets : pc[s] # "done" => name[s] \in Names

\* What a coroutine holds of the table is in the table.
HeldRoomExists == ~exists => connections = NoConnections /\ host_name = NoName
                             /\ \A s \in Sockets : ~here[s]

\* Whoever comes first is the host.
HostlessIsEmpty == host_name = NoName => members = {}

IInv ==
  /\ TypeOK
  /\ UnregisteredUntilAccepted
  /\ RunsForSomebody
  /\ HeldRoomExists
  /\ HostlessIsEmpty
  /\ AbsentHostIsWatched

Modes == {"held", "lost", "cancelled"}
Tasks == [departed : Names, mode : Modes]

-----------------------------------------------------------------------------
(* The operators on the set of tasks.                                      *)

LEMMA CancelledTasks ==
  ASSUME reassigns \subseteq Tasks
  PROVE  Cancelled(reassigns) \subseteq Tasks
<1> SUFFICES ASSUME NEW t \in reassigns
             PROVE  (IF t.mode = "held" THEN [t EXCEPT !.mode = "cancelled"] ELSE t) \in Tasks
  BY DEF Cancelled
<1>1. t \in Tasks
  OBVIOUS
<1> QED BY <1>1 DEF Tasks, Modes

\* Losing the handle of tasks takes no watcher away.
LEMMA DroppedTasks ==
  ASSUME NEW ts, ts \subseteq Tasks
  PROVE  /\ Dropped(ts) \subseteq Tasks
         /\ \A t \in ts : t.mode # "cancelled" =>
              \E u \in Dropped(ts) : u.departed = t.departed /\ u.mode # "cancelled"
<1> DEFINE lost(t) == IF t.mode = "held" THEN [t EXCEPT !.mode = "lost"] ELSE t
<1>1. \A t \in ts : /\ lost(t) \in Tasks /\ lost(t).departed = t.departed
                    /\ t.mode # "cancelled" => lost(t).mode # "cancelled"
  <2> SUFFICES ASSUME NEW t \in ts
               PROVE  /\ lost(t) \in Tasks /\ lost(t).departed = t.departed
                      /\ t.mode # "cancelled" => lost(t).mode # "cancelled"
    OBVIOUS
  <2>1. t \in Tasks
    OBVIOUS
  <2> QED BY <2>1 DEF Tasks, Modes
<1>2. Dropped(ts) = {lost(t) : t \in ts}
  BY DEF Dropped
<1> HIDE DEF lost
<1> QED BY <1>1, <1>2

LEMMA OrphanedTasks ==
  ASSUME reassigns \subseteq Tasks
  PROVE  Orphaned \subseteq Tasks
BY DroppedTasks DEF Orphaned

LEMMA ReassignTasks ==
  ASSUME reassigns \subseteq Tasks, NEW p \in Names
  PROVE  /\ Reassign(p) \subseteq Tasks
         /\ \E t \in Reassign(p) : t.departed = p /\ t.mode # "cancelled"
<1>1. Task(p, "held") \in Tasks /\ Task(p, "held").departed = p
      /\ Task(p, "held").mode # "cancelled"
  BY DEF Task, Tasks, Modes
<1> HIDE DEF Task
<1> QED BY <1>1, CancelledTasks DEF Reassign

-----------------------------------------------------------------------------
(* The steps                                                               *)

\* A step that touches neither the room nor the tasks, starts no socket that
\* is registered, and gives no coroutine a Room that is not there.
LEMMA SocketStep ==
  ASSUME IInv, UNCHANGED <<room, tasks>>,
         pc' \in [Sockets -> {"done", "reading", "accepting", "saving", "serving"}],
         name' \in [Sockets -> Names \cup {NoName}],
         here' \in [Sockets -> BOOLEAN], open' \in [Sockets -> BOOLEAN],
         to_close' \subseteq Sockets,
         \A s \in Sockets : pc'[s] \in {"reading", "accepting"} =>
           \/ pc[s] = pc'[s]
           \/ \A p \in Names : connections[p] # s,
         \A s \in Sockets : pc'[s] # "done" => name'[s] \in Names,
         \A s \in Sockets : here'[s] => here[s] \/ exists
  PROVE  IInv'
<1> USE DEF room, tasks
<1>1. TypeOK'
  BY DEF IInv, TypeOK
<1>2. UnregisteredUntilAccepted'
  BY DEF IInv, UnregisteredUntilAccepted
<1>3. RunsForSomebody'
  BY DEF RunsForSomebody
<1>4. HeldRoomExists'
  BY DEF IInv, TypeOK, HeldRoomExists
<1>5. HostlessIsEmpty' /\ AbsentHostIsWatched'
  BY DEF IInv, HostlessIsEmpty, AbsentHostIsWatched, members
<1> QED BY <1>1, <1>2, <1>3, <1>4, <1>5 DEF IInv

\* Connecting, being refused, being served, leaving and being closed.
LEMMA QuietSteps ==
  ASSUME IInv, NEW s \in Sockets,
         \/ \E p \in Names : Connect(s, p)
         \/ AcceptFails(s) \/ Serve(s) \/ EndDeaf(s)
         \/ ClientLeaves(s) \/ Dissolve(s) \/ CloseNext(s)
  PROVE  IInv' /\ UNCHANGED <<room, tasks>>
<1> USE DEF IInv, TypeOK, RunsForSomebody
<1>1. ASSUME NEW p \in Names, Connect(s, p)
      PROVE  IInv' /\ UNCHANGED <<room, tasks>>
  <2> USE <1>1 DEF Connect
  <2>1. \A q \in Names : connections[q] # s
    BY DEF Unused
  <2>2. exists => \A q \in Sockets : here'[q] => here[q] \/ exists
    OBVIOUS
  <2>3. \A q \in Sockets : here'[q] => here[q] \/ exists
    OBVIOUS
  <2>4. \A q \in Sockets : pc'[q] # "done" => name'[q] \in Names
    OBVIOUS
  <2>5. UNCHANGED <<room, tasks>> /\ to_close' \subseteq Sockets
        /\ open' \in [Sockets -> BOOLEAN] /\ name' \in [Sockets -> Names \cup {NoName}]
        /\ here' \in [Sockets -> BOOLEAN]
        /\ pc' \in [Sockets -> {"done", "reading", "accepting", "saving", "serving"}]
    BY DEF room, tasks
  <2>6. \A q \in Sockets : pc'[q] \in {"reading", "accepting"} =>
          pc[q] = pc'[q] \/ \A r \in Names : connections[r] # q
    BY <2>1
  <2> QED BY <2>3, <2>4, <2>5, <2>6, SocketStep
<1>2. CASE AcceptFails(s) \/ EndDeaf(s)
  BY <1>2, SocketStep DEF AcceptFails, EndDeaf, Ends
<1>3. CASE Serve(s)
  BY <1>3, SocketStep DEF Serve, Ends
<1>4. CASE ClientLeaves(s)
  BY <1>4, SocketStep DEF ClientLeaves
<1>5. CASE Dissolve(s)
  <2>1. {connections[q] : q \in members \ {host_name}} \subseteq Sockets
    BY DEF members
  <2> QED BY <1>5, <2>1, SocketStep DEF Dissolve
<1>6. CASE CloseNext(s)
  BY <1>6, SocketStep DEF CloseNext
<1> QED BY <1>1, <1>2, <1>3, <1>4, <1>5, <1>6

\* The game's flag, and the names known, concern nobody's presence.
LEMMA GameStep ==
  ASSUME IInv, NEW s \in Sockets, StartGame(s) \/ RestartGame(s)
  PROVE  IInv' /\ UNCHANGED <<connections, host_name>>
BY DEF IInv, TypeOK, UnregisteredUntilAccepted, RunsForSomebody, HeldRoomExists,
       HostlessIsEmpty, AbsentHostIsWatched, StartGame, RestartGame, members, sockets,
       tasks

\* A new Room takes the place: nobody is in it.
LEMMA EnsureStep ==
  ASSUME IInv, NEW s \in Sockets, NEW h \in Names \cup {NoName},
         NEW players \in SUBSET Names, NEW playing \in BOOLEAN,
         EnsureRoom(s, h, players, playing)
  PROVE  /\ IInv'
         /\ members' = {}
         /\ \A q \in Sockets : pc[q] # "reading" => ~here'[q]
<1> USE DEF EnsureRoom, Ends
<1>1. reassigns' \subseteq Tasks
  BY OrphanedTasks DEF IInv, TypeOK, Tasks, Modes
<1>2. members' = {}
  BY DEF members, NoConnections
<1>3. TypeOK'
  BY <1>1 DEF IInv, TypeOK, NoConnections, Tasks, Modes
<1>4. UnregisteredUntilAccepted'
  BY MembershipAssumption DEF UnregisteredUntilAccepted, NoConnections
<1>5. RunsForSomebody' /\ HeldRoomExists'
  BY DEF IInv, TypeOK, RunsForSomebody, HeldRoomExists
<1>6. HostlessIsEmpty' /\ AbsentHostIsWatched'
  BY <1>2 DEF HostlessIsEmpty, AbsentHostIsWatched
<1>7. \A q \in Sockets : pc[q] # "reading" => ~here'[q]
  BY DEF IInv, TypeOK
<1> QED BY <1>2, <1>3, <1>4, <1>5, <1>6, <1>7 DEF IInv

\* The socket is in its name's place, in the Room that is in the table.
LEMMA RegisterStep ==
  ASSUME IInv, NEW s \in Sockets, Register(s)
  PROVE  /\ IInv'
         /\ \/ UNCHANGED <<members, host_name>>
            \/ /\ name[s] \in Names \ members
               /\ members' = members \cup {name[s]}
               /\ host_name' = IF host_name = NoName THEN name[s] ELSE host_name
         /\ \A p \in Names : connections[p] # NoSocket => connections'[p] # NoSocket
<1> USE MembershipAssumption DEF Register
<1>1. name[s] \in Names
  BY DEF IInv, RunsForSomebody
<1>2. TypeOK'
  <2>1. reassigns' \subseteq Tasks
    BY CancelledTasks DEF IInv, TypeOK, Tasks, Modes
  <2> QED BY <1>1, <2>1 DEF IInv, TypeOK, Tasks, Modes
<1>3. UnregisteredUntilAccepted' /\ RunsForSomebody'
  BY <1>1 DEF IInv, TypeOK, UnregisteredUntilAccepted, RunsForSomebody
<1>4. HeldRoomExists'
  BY DEF IInv, TypeOK, HeldRoomExists
<1>5. CASE ~here[s]
  BY <1>2, <1>3, <1>4, <1>5 DEF IInv, HostlessIsEmpty, AbsentHostIsWatched, members
<1>6. CASE here[s]
  <2>1. connections' = [connections EXCEPT ![name[s]] = s]
    BY <1>6
  <2>2. members' = members \cup {name[s]}
    BY <1>1, <2>1 DEF members, IInv, TypeOK
  <2>3. host_name' = IF host_name = NoName THEN name[s] ELSE host_name
    BY <1>6
  <2>4. HostlessIsEmpty'
    BY <1>1, <2>3 DEF HostlessIsEmpty
  <2>5. AbsentHostIsWatched'
    BY <1>6, <2>2 DEF AbsentHostIsWatched
  <2>6. \A p \in Names : connections[p] # NoSocket => connections'[p] # NoSocket
    BY <2>1 DEF IInv, TypeOK
  <2>7. name[s] \in members => UNCHANGED <<members, host_name>>
    BY <2>2, <2>3 DEF IInv, HostlessIsEmpty
  <2> QED BY <1>1, <1>2, <1>3, <1>4, <2>2, <2>3, <2>4, <2>5, <2>6, <2>7 DEF IInv
<1> QED BY <1>5, <1>6

\* A socket's end, with the name's place in the Room or without.
LEMMA DisconnectStep ==
  ASSUME IInv, NEW s \in Sockets, Disconnect(s)
  PROVE  /\ IInv'
         /\ \/ UNCHANGED <<members, host_name>>
            \/ members' = {} /\ host_name' = NoName
            \/ /\ name[s] \in members
               /\ members' = members \ {name[s]} /\ UNCHANGED host_name
         /\ \A p \in Names : LET q == connections[p] IN
              q # NoSocket /\ connections'[p] = NoSocket => ~open[q] \/ ~here'[q]
<1> USE MembershipAssumption DEF Disconnect, Ends
<1>1. name[s] \in Names
  BY DEF IInv, RunsForSomebody
<1>2. CASE Removes(s) /\ members = {name[s]} /\ ~exists'
  <2>1. members' = {} /\ host_name' = NoName
    BY <1>2 DEF members, NoConnections, Removes
  <2>2. /\ connections' = NoConnections /\ known' = {} /\ in_game' = FALSE
        /\ reassigns' = Orphaned /\ lapsed' = FALSE
        /\ here' = [q \in Sockets |-> FALSE]
    BY <1>2 DEF Removes
  <2>3. TypeOK'
    <3>1. reassigns' \subseteq Tasks
      BY <2>2, OrphanedTasks DEF IInv, TypeOK, Tasks, Modes
    <3>2. connections' \in [Names -> Sockets \cup {NoSocket}]
      BY <2>2 DEF NoConnections
    <3>3. exists' = FALSE
      BY <1>2
    <3> QED BY <2>1, <2>2, <3>1, <3>2, <3>3 DEF IInv, TypeOK, Tasks, Modes
  <2>4. UnregisteredUntilAccepted' /\ HeldRoomExists' /\ RunsForSomebody'
    BY <1>2 DEF IInv, TypeOK, UnregisteredUntilAccepted, NoConnections, HeldRoomExists,
                RunsForSomebody, Removes
  <2>5. HostlessIsEmpty' /\ AbsentHostIsWatched'
    BY <2>1 DEF HostlessIsEmpty, AbsentHostIsWatched
  <2>6. \A q \in Sockets : ~here'[q]
    BY <1>2 DEF Removes
  <2> QED BY <2>1, <2>3, <2>4, <2>5, <2>6 DEF IInv, TypeOK
<1>3. CASE /\ Removes(s) /\ members # {name[s]}
           /\ connections' = [connections EXCEPT ![name[s]] = NoSocket]
           /\ UNCHANGED <<exists, host_name, known, in_game, lapsed>>
           /\ reassigns' = IF name[s] = host_name THEN Reassign(name[s]) ELSE reassigns
           /\ here' = [here EXCEPT ![s] = FALSE]
  <2>1. name[s] \in members /\ members' = members \ {name[s]}
    BY <1>1, <1>3 DEF members, Removes, IInv, TypeOK
  <2>2. reassigns' \subseteq Tasks
    BY <1>1, <1>3, ReassignTasks DEF IInv, TypeOK, Tasks, Modes
  <2>3. TypeOK'
    BY <1>1, <1>3, <2>2 DEF IInv, TypeOK, Tasks, Modes
  <2>4. UnregisteredUntilAccepted' /\ RunsForSomebody'
    BY <1>1, <1>3 DEF IInv, TypeOK, UnregisteredUntilAccepted, RunsForSomebody
  <2>5. HeldRoomExists'
    BY <1>3 DEF IInv, HeldRoomExists, Removes, TypeOK
  <2>6. HostlessIsEmpty'
    BY <1>3, <2>1 DEF IInv, HostlessIsEmpty
  <2>7. AbsentHostIsWatched'
    <3>1. CASE name[s] = host_name
      BY <1>1, <1>3, <3>1, ReassignTasks DEF AbsentHostIsWatched, IInv, TypeOK, Tasks, Modes
    <3>2. CASE name[s] # host_name
      BY <1>3, <2>1, <3>2 DEF AbsentHostIsWatched, IInv
    <3> QED BY <3>1, <3>2
  <2>8. \A p \in Names : LET q == connections[p] IN
          q # NoSocket /\ connections'[p] = NoSocket => ~open[q]
    BY <1>1, <1>3 DEF Removes, IInv, TypeOK
  <2> QED BY <1>3, <2>1, <2>3, <2>4, <2>5, <2>6, <2>7, <2>8 DEF IInv
<1>4. CASE ~Removes(s) /\ UNCHANGED <<room, tasks>> /\ here' = [here EXCEPT ![s] = FALSE]
  <2>1. IInv'
    BY <1>4, SocketStep DEF IInv, TypeOK, RunsForSomebody
  <2> QED BY <1>4, <2>1 DEF room, members, IInv, TypeOK
<1> QED BY <1>2, <1>3, <1>4

\* A kick takes a name's place, and leaves the socket to be closed.
LEMMA KickStep ==
  ASSUME IInv, NEW s \in Sockets, NEW p \in Names, Kick(s, p)
  PROVE  /\ IInv'
         /\ p \in members /\ members' = members \ {p} /\ UNCHANGED host_name
         /\ \A r \in Names : LET q == connections[r] IN
              q # NoSocket /\ connections'[r] = NoSocket => q \in to_close'
<1> USE MembershipAssumption DEF Kick
<1>1. p \in members /\ members' = members \ {p}
  BY DEF members, IInv, TypeOK
<1>2. TypeOK'
  BY DEF IInv, TypeOK, tasks, members
<1>3. UnregisteredUntilAccepted' /\ RunsForSomebody'
  BY DEF IInv, TypeOK, UnregisteredUntilAccepted, RunsForSomebody
<1>4. HeldRoomExists'
  BY DEF IInv, HeldRoomExists, Speaks
<1>5. HostlessIsEmpty' /\ AbsentHostIsWatched'
  BY <1>1 DEF IInv, HostlessIsEmpty, AbsentHostIsWatched, tasks
<1>6. \A r \in Names : LET q == connections[r] IN
        q # NoSocket /\ connections'[r] = NoSocket => q \in to_close'
  BY DEF IInv, TypeOK
<1> QED BY <1>1, <1>2, <1>3, <1>4, <1>5, <1>6 DEF IInv

\* A task wakes up and may make somebody the host; another's handler runs.
LEMMA TaskStep ==
  ASSUME IInv, NEW t \in reassigns, ReassignFires(t) \/ CancelHandled(t)
  PROVE  /\ IInv'
         /\ UNCHANGED <<connections, members>>
         /\ UNCHANGED host_name \/ (host_name \notin members /\ host_name' \in members)
<1> USE MembershipAssumption DEF ReassignFires, CancelHandled
<1>1. UNCHANGED <<exists, connections, known, in_game, sockets, members>>
  BY DEF room, members
<1>2. UNCHANGED host_name \/ (host_name \notin members /\ host_name' \in members /\ exists)
  BY DEF room, Transfers
<1>3. /\ reassigns' \subseteq Tasks
      /\ \A u \in reassigns \ {t} : u.mode # "cancelled" =>
           \E v \in reassigns' : v.departed = u.departed /\ v.mode # "cancelled"
  <2>1. reassigns \ {t} \subseteq Tasks
    BY DEF IInv, TypeOK, Tasks, Modes
  <2> QED BY <2>1, DroppedTasks
<1>4. TypeOK'
  BY <1>1, <1>2, <1>3 DEF IInv, TypeOK, sockets, Tasks, Modes, members
<1>5. UnregisteredUntilAccepted' /\ RunsForSomebody'
  BY <1>1 DEF IInv, UnregisteredUntilAccepted, RunsForSomebody, sockets
<1>6. HeldRoomExists' /\ HostlessIsEmpty'
  BY <1>1, <1>2 DEF IInv, HeldRoomExists, HostlessIsEmpty, sockets, members
<1>7. AbsentHostIsWatched'
  <2>1. CASE host_name' # host_name
    BY <1>1, <1>2, <2>1 DEF AbsentHostIsWatched
  <2>2. CASE host_name' = host_name
    <3> SUFFICES ASSUME exists, members # {}, host_name \notin members, ~lapsed
                 PROVE  \E v \in reassigns' : v.departed = host_name /\ v.mode # "cancelled"
      BY <1>1, <2>2 DEF AbsentHostIsWatched, IInv, TypeOK
    <3>1. PICK u \in reassigns : u.departed = host_name /\ u.mode # "cancelled"
      BY DEF IInv, AbsentHostIsWatched
    <3>2. u # t
      <4>1. CASE ReassignFires(t)
        <5>1. PICK p \in members : TRUE
          OBVIOUS
        <5>2. u = t => Transfers(t, p) /\ p \in Names
          BY <3>1 DEF Transfers, members
        <5>3. u = t => \E r \in Names : Transfers(t, r) /\ host_name' = r
          BY <4>1, <5>2
        <5> QED BY <2>2, <5>3 DEF Transfers
      <4>2. CASE CancelHandled(t)
        BY <3>1, <4>2
      <4> QED BY <4>1, <4>2
    <3> QED BY <1>3, <3>1, <3>2
  <2> QED BY <2>1, <2>2
<1> QED BY <1>1, <1>2, <1>4, <1>5, <1>6, <1>7 DEF IInv

-----------------------------------------------------------------------------
(* The theorems                                                            *)

\* What any step does to the people and the host, and to a name's socket.
LEMMA Step ==
  ASSUME IInv, Next
  PROVE  /\ IInv'
         /\ \/ UNCHANGED <<members, host_name>>
            \/ TheRoster!Next
         /\ \A p \in Names : LET s == connections[p] IN
              s # NoSocket /\ connections'[p] = NoSocket
                => ~open[s] \/ s \in to_close' \/ ~here'[s]
<1> USE MembershipAssumption
<1> DEFINE LosesProperly ==
      \A p \in Names : LET s == connections[p] IN
        s # NoSocket /\ connections'[p] = NoSocket
          => ~open[s] \/ s \in to_close' \/ ~here'[s]
<1>1. ASSUME NEW s \in Sockets,
             \/ \E p \in Names : Connect(s, p)
             \/ AcceptFails(s) \/ Serve(s) \/ EndDeaf(s)
             \/ ClientLeaves(s) \/ Dissolve(s) \/ CloseNext(s)
      PROVE  IInv' /\ UNCHANGED <<members, host_name>> /\ LosesProperly
  BY <1>1, QuietSteps DEF room, members
<1>2. ASSUME NEW s \in Sockets, StartGame(s) \/ RestartGame(s)
      PROVE  IInv' /\ UNCHANGED <<members, host_name>> /\ LosesProperly
  BY <1>2, GameStep DEF members
<1>3. ASSUME NEW s \in Sockets, NEW h \in Names \cup {NoName},
             NEW players \in SUBSET Names, NEW playing \in BOOLEAN,
             EnsureRoom(s, h, players, playing)
      PROVE  IInv' /\ TheRoster!Next /\ LosesProperly
  <2>1. IInv' /\ TheRoster!Next
    BY <1>3, EnsureStep DEF TheRoster!Next, TheRoster!Reset, EnsureRoom
  <2>2. \A p \in Names : connections[p] # NoSocket =>
          connections[p] \in Sockets /\ pc[connections[p]] # "reading"
    BY DEF IInv, TypeOK, UnregisteredUntilAccepted
  <2> QED BY <1>3, <2>1, <2>2, EnsureStep
<1>4. ASSUME NEW s \in Sockets, Register(s)
      PROVE  /\ IInv' /\ LosesProperly
             /\ UNCHANGED <<members, host_name>> \/ TheRoster!Next
  BY <1>4, RegisterStep DEF TheRoster!Next, TheRoster!Enter
<1>5. ASSUME NEW s \in Sockets, Disconnect(s)
      PROVE  /\ IInv' /\ LosesProperly
             /\ UNCHANGED <<members, host_name>> \/ TheRoster!Next
  <2>1. members \subseteq Names
    BY DEF members
  <2> QED BY <1>5, <2>1, DisconnectStep DEF TheRoster!Next, TheRoster!Exit, TheRoster!Reset
<1>6. ASSUME NEW s \in Sockets, NEW p \in Names, Kick(s, p)
      PROVE  IInv' /\ LosesProperly /\ TheRoster!Next
  BY <1>6, KickStep DEF TheRoster!Next, TheRoster!Exit
<1>7. ASSUME NEW t \in reassigns, ReassignFires(t) \/ CancelHandled(t)
      PROVE  /\ IInv' /\ LosesProperly
             /\ UNCHANGED <<members, host_name>> \/ TheRoster!Next
  <2>1. members \subseteq Names
    BY DEF members
  <2> QED BY <1>7, <2>1, TaskStep DEF TheRoster!Next, TheRoster!TakeOver
<1> HIDE DEF LosesProperly
<1>8. /\ IInv' /\ LosesProperly
      /\ UNCHANGED <<members, host_name>> \/ TheRoster!Next
  <2>1. CASE \E t \in reassigns : ReassignFires(t) \/ CancelHandled(t)
    BY <2>1, <1>7
  <2>2. ASSUME NEW s \in Sockets,
               \E h \in Names \cup {NoName}, players \in SUBSET Names,
                  playing \in BOOLEAN : EnsureRoom(s, h, players, playing)
        PROVE  IInv' /\ LosesProperly /\ TheRoster!Next
    BY <2>2, <1>3
  <2>3. ASSUME NEW s \in Sockets, \E p \in Names : Connect(s, p) \/ Kick(s, p)
        PROVE  /\ IInv' /\ LosesProperly
               /\ UNCHANGED <<members, host_name>> \/ TheRoster!Next
    BY <2>3, <1>1, <1>6
  <2> QED BY <2>1, <2>2, <2>3, <1>1, <1>2, <1>4, <1>5 DEF Next
<1> QED BY <1>8 DEF LosesProperly

\* The invariant holds in every reachable state.
THEOREM MembershipInvariant == Spec => []IInv
<1>1. Init => IInv
  BY MembershipAssumption DEF Init, IInv, TypeOK, UnregisteredUntilAccepted,
     RunsForSomebody, HeldRoomExists, HostlessIsEmpty, AbsentHostIsWatched, members,
     NoConnections
<1>2. IInv /\ [Next]_vars => IInv'
  <2>1. IInv /\ UNCHANGED vars => IInv'
    BY DEF vars, room, tasks, sockets, IInv, TypeOK, UnregisteredUntilAccepted,
       RunsForSomebody, HeldRoomExists, HostlessIsEmpty, AbsentHostIsWatched, members
  <2> QED BY <2>1, Step
<1> QED BY <1>1, <1>2, PTL DEF Spec

\* The variables keep their types; a task of a nameless host is never made.
THEOREM MembershipTypes == Spec => []TypeOK
<1>1. IInv => TypeOK
  BY DEF IInv
<1> QED BY <1>1, MembershipInvariant, PTL

\* The host that is away is waited for by a task that finds somebody else, for
\* any number of tasks asleep, lost and cancelled, unless a join has lapsed it.
THEOREM HostWatched == Spec => []AbsentHostIsWatched
<1>1. IInv => AbsentHostIsWatched
  BY DEF IInv
<1> QED BY <1>1, MembershipInvariant, PTL

\* The end of an old socket leaves the new one of the same name in its place.
THEOREM OldSocketHarmless == Spec => NewSocketStays
<1>1. IInv /\ [Next]_vars
        => [\A p \in Names : LET s == connections[p] IN
              s # NoSocket /\ connections'[p] = NoSocket
                => ~open[s] \/ s \in to_close' \/ ~here'[s]]_vars
  BY Step
<1> QED BY <1>1, MembershipInvariant, PTL DEF Spec, NewSocketStays

\* The sockets, tasks and handlers of a room keep the promise of module Roster.
THEOREM MembershipImplementsRoster == Spec => ImplementsRoster
<1>1. Init => TheRoster!Init
  BY DEF Init, TheRoster!Init, members, NoConnections
<1>2. IInv /\ [Next]_vars => [TheRoster!Next]_TheRoster!vars
  <2>1. UNCHANGED vars => UNCHANGED TheRoster!vars
    BY DEF vars, room, TheRoster!vars, members
  <2> QED BY <2>1, Step DEF TheRoster!vars
<1> QED BY <1>1, <1>2, MembershipInvariant, PTL DEF Spec, ImplementsRoster, TheRoster!Spec
=============================================================================
