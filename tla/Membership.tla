----------------------------- MODULE Membership -----------------------------
(***************************************************************************)
(* The sockets of one room id: ConnectionManager.connect, disconnect and   *)
(* kick_player with every point at which they wait, the deferred transfer  *)
(* of the host (manager.py), and websocket_endpoint around them (main.py). *)
(*                                                                         *)
(* A socket is one run of websocket_endpoint.  Between two of its awaits   *)
(* the whole server stands still, so each stretch is one action:           *)
(*                                                                         *)
(*   reading    fetch_room_snapshot, the id being in no room               *)
(*   accepting  the old socket's close and the new one's accept            *)
(*   saving     registered; save_room and save_player_score                *)
(*   serving    the loop that receives messages                            *)
(*   done       the coroutine has returned, or never ran                   *)
(*                                                                         *)
(* The Room object a coroutine holds may meanwhile have been replaced in   *)
(* the rooms table by another one: here[s] says whether it is still the    *)
(* one in the table.  What is done to a replaced object nobody can see.    *)
(* Games are a flag here (module Room plays them), time is left out: a     *)
(* task that sleeps may wake at any moment.                                *)
(***************************************************************************)
EXTENDS Naturals, FiniteSets

CONSTANTS
  Names, NoName,
  Sockets, NoSocket,
  MAX_PLAYERS            \* max_players_per_room()

ASSUME MembershipAssumption ==
  /\ NoName \notin Names /\ NoSocket \notin Sockets
  /\ IsFiniteSet(Names) /\ IsFiniteSet(Sockets)
  /\ MAX_PLAYERS \in Nat \ {0}

VARIABLES
  exists,            \* the id is in the rooms table; then, of that Room:
  connections,       \*   name -> registered socket, or NoSocket
  host_name,
  known,             \*   the names in scores
  in_game,           \*   is_playing or results_phase_active or game_over
  reassigns,         \* _reassign tasks not finished
  lapsed,            \* history: the absent host is waited for by no task
  pc, name, here,    \* per socket: where its coroutine is, for whom, in what
  open,              \*   neither the client nor the server has closed it
  to_close           \* sockets that a kick or a dissolve has yet to close

room    == <<exists, connections, host_name, known, in_game>>
tasks   == <<reassigns, lapsed>>
sockets == <<pc, name, here, open, to_close>>
vars    == <<room, tasks, sockets>>

members == {p \in Names : connections[p] # NoSocket}

NoConnections == [p \in Names |-> NoSocket]

\* A socket whose messages are handled, and whose handlers hold the Room that
\* is in the table.
Speaks(s) == pc[s] = "serving" /\ open[s] /\ here[s] /\ exists

Init ==
  /\ exists = FALSE /\ connections = NoConnections /\ host_name = NoName
  /\ known = {} /\ in_game = FALSE
  /\ reassigns = {} /\ lapsed = FALSE
  /\ pc = [s \in Sockets |-> "done"] /\ name = [s \in Sockets |-> NoName]
  /\ here = [s \in Sockets |-> FALSE] /\ open = [s \in Sockets |-> FALSE]
  /\ to_close = {}

-----------------------------------------------------------------------------
(* The deferred transfer of the host.  A task is held (the handle          *)
(* _host_reassign_task refers to it), lost (it sleeps on but nothing       *)
(* refers to it) or cancelled (its CancelledError handler has not run).    *)

Task(p, mode) == [departed |-> p, mode |-> mode]

\* _cancel_host_reassign
Cancelled(ts) ==
  {IF t.mode = "held" THEN [t EXCEPT !.mode = "cancelled"] ELSE t : t \in ts}

\* _host_reassign_task = None, by somebody who does not cancel it.
Dropped(ts) ==
  {IF t.mode = "held" THEN [t EXCEPT !.mode = "lost"] ELSE t : t \in ts}

\* Mutant: the departure of a host is not followed up.
NoReassign(p) == reassigns

\* Mutant: the name is taken from the host field after it was cleared.
ReassignNobody(p) == Cancelled(reassigns) \cup {Task(NoName, "held")}

\* _schedule_host_reassign.  disconnect and websocket_endpoint both call it,
\* in one stretch: the first task is cancelled before it has begun to run.
Reassign(p) == Cancelled(reassigns) \cup {Task(p, "held")}

\* The tasks of a Room that is no longer in the table sleep on, and look the
\* id up when they wake; a cancelled one concerns its own Room only.
Orphaned == {t \in Dropped(reassigns) : t.mode = "lost"}

\* Mutant: the task does not look whether the host has come back.
TransfersBlindly(t, p) == exists /\ host_name = t.departed /\ p \in members

\* _reassign after its sleep: would it make p the host?
Transfers(t, p) ==
  /\ exists /\ host_name = t.departed
  /\ t.departed \notin members
  /\ p \in members

ReassignFires(t) ==
  /\ t.mode # "cancelled"
  /\ reassigns' = Dropped(reassigns \ {t})
  /\ \/ \E p \in Names : Transfers(t, p) /\ host_name' = p
     \/ ~(\E p \in Names : Transfers(t, p)) /\ UNCHANGED host_name
  /\ lapsed' = (lapsed /\ host_name' = host_name)
  /\ UNCHANGED <<exists, connections, known, in_game, sockets>>

\* The CancelledError handler clears the handle, whatever it refers to by now.
CancelHandled(t) ==
  /\ t.mode = "cancelled"
  /\ reassigns' = Dropped(reassigns \ {t})
  /\ UNCHANGED <<room, lapsed, sockets>>

-----------------------------------------------------------------------------
(* connect                                                                 *)

\* _resolve_room_join, for a room with these members, scores and game.
Resolve(p, inside, names, playing) ==
  p \notin inside =>
    /\ playing => p \in names
    /\ Cardinality(inside) < MAX_PLAYERS

\* A socket object that no coroutine runs for and no room knows.
Unused(s) ==
  pc[s] = "done" /\ s \notin to_close /\ \A p \in Names : connections[p] # s

\* The coroutine of s is over, and what it knew is forgotten.
Ends(s) ==
  /\ pc' = [pc EXCEPT ![s] = "done"] /\ name' = [name EXCEPT ![s] = NoName]
  /\ open' = [open EXCEPT ![s] = FALSE]

\* A client's request, up to the first await that suspends: refused, or
\* waiting for the row of an unknown room, or for the name's old socket to
\* close and the new one to be accepted.
Connect(s, p) ==
  /\ Unused(s)
  /\ exists => Resolve(p, members, known, in_game)
  /\ pc' = [pc EXCEPT ![s] = IF exists THEN "accepting" ELSE "reading"]
  /\ name' = [name EXCEPT ![s] = p]
  /\ here' = [here EXCEPT ![s] = exists]
  /\ open' = [q \in Sockets |-> q = s \/ (open[q] /\ q # connections[p])]
  /\ UNCHANGED <<room, tasks, to_close>>

\* _ensure_room after its read.  The id may have got a room in the meantime:
\* the new Room takes its place all the same.  There is no row (h = NoName), or
\* one that names a host and players; a row of a game in progress may turn the
\* newcomer away, and the room stays.
EnsureRoom(s, h, players, playing) ==
  /\ pc[s] = "reading"
  /\ IF h = NoName THEN players = {} /\ ~playing ELSE h \in players
  /\ exists' = TRUE /\ connections' = NoConnections
  /\ host_name' = h /\ known' = players /\ in_game' = playing
  /\ reassigns' = Orphaned /\ lapsed' = (h # NoName)
  /\ \/ /\ Resolve(name[s], {}, players, playing)
        /\ pc' = [pc EXCEPT ![s] = "accepting"]
        /\ here' = [q \in Sockets |-> q = s]
        /\ UNCHANGED <<name, open>>
     \/ /\ ~Resolve(name[s], {}, players, playing)
        /\ here' = [q \in Sockets |-> FALSE]
        /\ Ends(s)
  /\ UNCHANGED <<to_close>>

\* accept fails if the client has given up.
AcceptFails(s) ==
  /\ pc[s] = "accepting" /\ ~open[s]
  /\ Ends(s)
  /\ here' = [here EXCEPT ![s] = FALSE]
  /\ UNCHANGED <<room, tasks, to_close>>

\* Accepted: the socket takes the place of whatever the name had, the pending
\* host transfer is cancelled whoever comes.
Register(s) ==
  /\ pc[s] = "accepting"
  /\ pc' = [pc EXCEPT ![s] = "saving"]
  /\ IF here[s] THEN
       /\ connections' = [connections EXCEPT ![name[s]] = s]
       /\ reassigns' = Cancelled(reassigns)
       /\ host_name' = IF host_name = NoName THEN name[s] ELSE host_name
       /\ known' = known \cup {name[s]}
       /\ lapsed' = (host_name' \notin members \cup {name[s]})
     ELSE UNCHANGED <<connections, reassigns, host_name, known, lapsed>>
  /\ UNCHANGED <<exists, in_game, name, here, open, to_close>>

\* The lookup of the room in websocket_endpoint after connect(), which may find
\* none, or another Room than the one the socket is registered in, and
\* _send_initial_state: to a socket that is closed by now the resume message of
\* a game cannot be sent, and the endpoint ends without disconnect().
Serve(s) ==
  /\ pc[s] = "saving"
  /\ \/ /\ exists /\ (in_game => open[s])
        /\ pc' = [pc EXCEPT ![s] = "serving"]
        /\ here' = [here EXCEPT ![s] = TRUE]
        /\ UNCHANGED <<name, open>>
     \/ /\ ~exists \/ (in_game /\ ~open[s])
        /\ here' = [here EXCEPT ![s] = FALSE]
        /\ Ends(s)
  /\ UNCHANGED <<room, tasks, to_close>>

\* The endpoint ends without disconnect(): a database error in connect, or the
\* message rate limit.  The registered socket stays, deaf.
EndDeaf(s) ==
  /\ pc[s] = "saving" \/ (pc[s] = "serving" /\ open[s])
  /\ Ends(s)
  /\ here' = [here EXCEPT ![s] = FALSE]
  /\ UNCHANGED <<room, tasks, to_close>>

-----------------------------------------------------------------------------
(* Departures                                                              *)

ClientLeaves(s) ==
  /\ open[s]
  /\ open' = [open EXCEPT ![s] = FALSE]
  /\ UNCHANGED <<room, tasks, pc, name, here, to_close>>

\* Mutant: whichever socket it was.
RemovesAny(s) == exists /\ connections[name[s]] # NoSocket

\* disconnect removes a name only for the socket that is registered for it.
Removes(s) == exists /\ connections[name[s]] = s

\* WebSocketDisconnect in the endpoint: disconnect, and what follows it there.
Disconnect(s) ==
  /\ pc[s] = "serving" /\ ~open[s]
  /\ Ends(s)
  /\ \/ /\ Removes(s) /\ members = {name[s]}
        /\ exists' = FALSE /\ connections' = NoConnections
        /\ host_name' = NoName /\ known' = {} /\ in_game' = FALSE
        /\ reassigns' = Orphaned /\ lapsed' = FALSE
        /\ here' = [q \in Sockets |-> FALSE]
     \/ /\ Removes(s) /\ members # {name[s]}
        /\ connections' = [connections EXCEPT ![name[s]] = NoSocket]
        /\ reassigns' = IF name[s] = host_name THEN Reassign(name[s]) ELSE reassigns
        /\ here' = [here EXCEPT ![s] = FALSE]
        /\ UNCHANGED <<exists, host_name, known, in_game, lapsed>>
     \/ /\ ~Removes(s)
        /\ here' = [here EXCEPT ![s] = FALSE]
        /\ UNCHANGED <<room, tasks>>
  /\ UNCHANGED <<to_close>>

\* kick_player: the name is out at once, its socket is closed after the awaits.
Kick(s, p) ==
  /\ Speaks(s) /\ name[s] = host_name
  /\ p # host_name /\ p \in members
  /\ connections' = [connections EXCEPT ![p] = NoSocket]
  /\ known' = known \ {p}
  /\ to_close' = to_close \cup {connections[p]}
  /\ UNCHANGED <<exists, host_name, in_game, tasks, pc, name, here, open>>

\* handle_dissolve_room: every socket but the host's is closed, one by one.
Dissolve(s) ==
  /\ Speaks(s) /\ name[s] = host_name
  /\ to_close' = to_close \cup {connections[p] : p \in members \ {host_name}}
  /\ UNCHANGED <<room, tasks, pc, name, here, open>>

CloseNext(s) ==
  /\ s \in to_close
  /\ to_close' = to_close \ {s}
  /\ open' = [open EXCEPT ![s] = FALSE]
  /\ UNCHANGED <<room, tasks, pc, name, here>>

-----------------------------------------------------------------------------
(* The game, as far as a join depends on it; time                          *)

StartGame(s) ==
  /\ Speaks(s) /\ ~in_game
  /\ in_game' = TRUE
  /\ UNCHANGED <<exists, connections, host_name, known, tasks, sockets>>

\* restart_game: the scores are those of the connected from now on.
RestartGame(s) ==
  /\ Speaks(s) /\ in_game /\ name[s] = host_name
  /\ in_game' = FALSE /\ known' = members
  /\ UNCHANGED <<exists, connections, host_name, tasks, sockets>>

-----------------------------------------------------------------------------
Next ==
  \/ \E s \in Sockets :
       \/ \E p \in Names : Connect(s, p) \/ Kick(s, p)
       \/ \E h \in Names \cup {NoName}, players \in SUBSET Names,
             playing \in BOOLEAN : EnsureRoom(s, h, players, playing)
       \/ AcceptFails(s) \/ Register(s) \/ Serve(s) \/ EndDeaf(s)
       \/ ClientLeaves(s) \/ Disconnect(s)
       \/ Dissolve(s) \/ CloseNext(s) \/ StartGame(s) \/ RestartGame(s)
  \/ \E t \in reassigns : ReassignFires(t) \/ CancelHandled(t)

Spec == Init /\ [][Next]_vars

-----------------------------------------------------------------------------
TypeOK ==
  /\ exists \in BOOLEAN /\ in_game \in BOOLEAN /\ lapsed \in BOOLEAN
  /\ connections \in [Names -> Sockets \cup {NoSocket}]
  /\ host_name \in Names \cup {NoName} /\ known \subseteq Names
  /\ reassigns \subseteq
       [departed : Names, mode : {"held", "lost", "cancelled"}]
  /\ pc \in [Sockets -> {"done", "reading", "accepting", "saving", "serving"}]
  /\ name \in [Sockets -> Names \cup {NoName}]
  /\ here \in [Sockets -> BOOLEAN]
  /\ open \in [Sockets -> BOOLEAN]
  /\ to_close \subseteq Sockets

\* disconnect(): "reconnect race: old socket disconnect must not evict the new
\* one".  A name loses its socket only when that very socket is finished, or is
\* kicked, or the whole Room is replaced under it.
NewSocketStays ==
  [][\A p \in Names : LET s == connections[p] IN
        s # NoSocket /\ connections'[p] = NoSocket
          => ~open[s] \/ s \in to_close' \/ ~here'[s]]_vars

\* A host that is away is waited for by a task that will find somebody else,
\* except after a join in its absence, or a return from the database: those
\* leave nobody to look (lapsed).
AbsentHostIsWatched ==
  exists /\ members # {} /\ host_name \notin members /\ ~lapsed
    => \E t \in reassigns : t.departed = host_name /\ t.mode # "cancelled"

TheRoster == INSTANCE Roster WITH members <- members, host <- host_name

\* Present names and host behave as module Roster promises: in particular a
\* host that has come back is not replaced, whichever tasks are still asleep.
ImplementsRoster == TheRoster!Spec
=============================================================================
