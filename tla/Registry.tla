------------------------------ MODULE Registry ------------------------------
(***************************************************************************)
(* One room id in memory and in the database: how a Room comes into the    *)
(* rooms table and leaves it (_ensure_room, disconnect, the idle lobby,    *)
(* the host's dissolve, manager.py and handlers.py), what is written about *)
(* it (save_room, save_player_score, delete_room, db.py and db_redis.py),  *)
(* and a crash of the server followed by load_from_db.                     *)
(*                                                                         *)
(* A database call takes effect at some moment between its start and its   *)
(* return, in any order with the other calls under way; the arguments are  *)
(* those of its start.  delete_room of an emptied room is a task nobody    *)
(* waits for.  A Room that has left the table can still write: a join that *)
(* registers in it, a save that is under way, and the review countdown,    *)
(* which holds the object and not its id.                                  *)
(*                                                                         *)
(* Who may join and who is the host is module Membership's concern, the    *)
(* play of a round module Room's.  Time is left out, but that a database   *)
(* call returns before the results of a round (30 s) are final.            *)
(***************************************************************************)
EXTENDS Naturals, FiniteSets

CONSTANTS
  Names,
  MAX_ROUNDS,          \* max_rounds of the games, and the bound on rounds
  Backends,            \* subset of {"sqlite", "redis"}
  MaxDeletes,          \* bound: delete_room calls under way
  MaxWrites            \* bound: save_room calls under way, connect's apart

ASSUME RegistryAssumption ==
  /\ IsFiniteSet(Names) /\ MAX_ROUNDS \in Nat \ {0}
  /\ Backends \subseteq {"sqlite", "redis"} /\ MaxDeletes \in Nat /\ MaxWrites \in Nat

NoRow == [round |-> 0, active |-> FALSE, there |-> FALSE]

VARIABLES
  backend,
  up,                  \* the server runs
  exists,              \* the id is in the rooms table; then, of that Room:
  members,             \*   the names with a registered socket
  known,               \*   the names in scores
  stage,               \*   "lobby", "round", "review", "over", or "stranded":
                       \*   a round number, but no round, review or end
  round,
  row, saved,          \* rooms row, and the names with a players row
  at, here,            \* per name: its connect(), is its Room in the table?
  arg,                 \*   the round its save_room will write
  writes,              \* other save_room calls under way: [round, here]
  deletes,             \* delete_room calls under way
  deactivating,        \* a deactivate_room is under way
  crediting,           \* the scores of the review are being saved
  orphans,             \* rounds under review in Rooms no longer in the table
  sweeping,            \* a dissolve_idle_lobby is closing the sockets
  mixed                \* history: a former Room's write or delete has hit the
                       \* row of the present state of this id, or a save of
                       \* the game before may do so

memory  == <<exists, members, known, stage, round>>
store   == <<row, saved>>
joins   == <<at, here, arg>>
pending == <<writes, deletes, deactivating, crediting, orphans>>
vars    == <<backend, up, memory, store, joins, pending, sweeping, mixed>>

Row(r) == [round |-> r, active |-> TRUE, there |-> TRUE]

\* No save is under way: the others have returned when a review ends.
Quiet == writes = {} /\ \A p \in Names : at[p] \notin {"saving", "scoring"}

Init ==
  /\ backend \in Backends /\ up = TRUE
  /\ exists = FALSE /\ members = {} /\ known = {} /\ stage = "lobby" /\ round = 0
  /\ row = NoRow /\ saved = {}
  /\ at = [p \in Names |-> "no"] /\ here = [p \in Names |-> FALSE]
  /\ arg = [p \in Names |-> 0]
  /\ writes = {} /\ deletes = 0 /\ deactivating = FALSE
  /\ crediting = FALSE /\ orphans = {}
  /\ sweeping = FALSE /\ mixed = FALSE

-----------------------------------------------------------------------------
(* A Room enters and leaves the table                                      *)

\* What becomes of the calls and tasks of the Room that leaves the table; one
\* connect may go on in the Room that takes its place.
Orphan(heirs) ==
  /\ here' = [p \in Names |-> p \in heirs]
  /\ writes' = {[w EXCEPT !.here = FALSE] : w \in writes}
  /\ orphans' = IF stage = "review" THEN orphans \cup {round} ELSE orphans
  /\ crediting' = FALSE

\* The Room is out of the table, and nobody is in it.
Forget ==
  /\ exists' = FALSE /\ members' = {} /\ known' = {}
  /\ stage' = "lobby" /\ round' = 0

\* Mutant: the save is forgotten.
SaveForgotten(r) == writes

\* A save_room of this round has begun.
SaveUnderWay(r) == writes \cup {[round |-> r, here |-> TRUE]}

\* Mutant: the row of an emptied room is kept.
KeepRow == UNCHANGED deletes

\* delete_room in the background.
DeleteSoon == deletes < MaxDeletes /\ deletes' = deletes + 1

\* connect to an id in no room: its row is being read.
ConnectUnknown(p) ==
  /\ up /\ ~exists /\ at[p] = "no"
  /\ at' = [at EXCEPT ![p] = "reading"]
  /\ UNCHANGED <<backend, up, memory, store, here, arg, pending, sweeping, mixed>>

\* _ensure_room and the rest of connect up to accept: the Room made from the
\* row, or a new one, takes the place in the table even if there is one by now.
\* Only SQLite's row says that the game is active.
EnsureRoom(p) ==
  /\ at[p] = "reading" /\ up
  /\ exists' = TRUE /\ members' = {}
  /\ known' = IF row.there THEN saved ELSE {}
  /\ round' = row.round
  /\ stage' = IF row.round = 0 THEN "lobby"
              ELSE IF row.active /\ backend = "sqlite" THEN "round" ELSE "stranded"
  /\ mixed' = (deletes > 0 \/ writes # {} \/ deactivating)
  /\ IF stage' = "round" /\ p \notin known'
     THEN at' = [at EXCEPT ![p] = "no"] /\ Orphan({})
     ELSE at' = [at EXCEPT ![p] = "entering"] /\ Orphan({p})
  /\ UNCHANGED <<backend, up, store, arg, deletes, deactivating, sweeping>>

ConnectKnown(p) ==
  /\ up /\ exists /\ at[p] = "no" /\ p \notin members
  /\ stage \in {"lobby", "stranded"} \/ crediting \/ p \in known
  /\ at' = [at EXCEPT ![p] = "entering"]
  /\ here' = [here EXCEPT ![p] = TRUE]
  /\ UNCHANGED <<backend, up, memory, store, arg, pending, sweeping, mixed>>

\* connect registers the socket; its save_room is under way.
Enter(p) ==
  /\ at[p] = "entering"
  /\ at' = [at EXCEPT ![p] = "saving"]
  /\ IF here[p]
     THEN /\ members' = members \cup {p} /\ known' = known \cup {p}
          /\ arg' = [arg EXCEPT ![p] = round]
     ELSE arg' = [arg EXCEPT ![p] = 0] /\ UNCHANGED <<members, known>>
  /\ UNCHANGED <<backend, up, exists, stage, round, store, here, pending, sweeping, mixed>>

\* ... and takes effect; save_player_score follows, if the player is still there.
EnterSaved(p) ==
  /\ at[p] = "saving"
  /\ row' = Row(arg[p])
  /\ at' = [at EXCEPT ![p] = IF here[p] => p \in known THEN "scoring" ELSE "no"]
  /\ arg' = [arg EXCEPT ![p] = 0]
  /\ here' = [here EXCEPT ![p] = @ /\ p \in known]
  /\ mixed' = (mixed \/ ~here[p])
  /\ UNCHANGED <<backend, up, memory, saved, pending, sweeping>>

EnterScored(p) ==
  /\ at[p] = "scoring"
  /\ saved' = saved \cup {p}
  /\ at' = [at EXCEPT ![p] = "no"]
  /\ here' = [here EXCEPT ![p] = FALSE]
  /\ mixed' = (mixed \/ ~here[p])
  /\ UNCHANGED <<backend, up, memory, row, arg, pending, sweeping>>

\* disconnect of one of several, or of the last one.
Leave(p) ==
  /\ p \in members /\ at[p] = "no"
  /\ \/ /\ members # {p}
        /\ members' = members \ {p}
        /\ UNCHANGED <<exists, known, stage, round, here, writes, deletes,
                       crediting, orphans>>
     \/ /\ members = {p}
        /\ Forget /\ Orphan({})
        /\ DeleteSoon
  /\ UNCHANGED <<backend, up, store, at, arg, deactivating, sweeping, mixed>>

\* kick_player: the host removes another player, whose row goes at once.
Kick(p) ==
  /\ p \in members /\ members # {p} /\ Cardinality(writes) < MaxWrites
  /\ members' = members \ {p} /\ known' = known \ {p} /\ saved' = saved \ {p}
  /\ writes' = SaveUnderWay(round)
  /\ UNCHANGED <<backend, up, exists, stage, round, row, joins, deletes, deactivating,
                 crediting, orphans, sweeping, mixed>>

\* The idle task of the lobby fires (module LobbyIdle says when) ...
IdleFires ==
  /\ exists /\ stage = "lobby" /\ members # {}
  /\ sweeping' = TRUE
  /\ UNCHANGED <<backend, up, memory, store, joins, pending, mixed>>

\* ... and dissolve_idle_lobby has closed the sockets it saw: whatever Room is in the
\* table is taken out of it, and the row deleted.
SweepPops ==
  /\ sweeping /\ sweeping' = FALSE
  /\ DeleteSoon
  /\ \/ /\ exists
        /\ Forget /\ Orphan({})
     \/ /\ ~exists
        /\ UNCHANGED <<memory, here, writes, orphans, crediting>>
  /\ UNCHANGED <<backend, up, store, at, arg, deactivating, mixed>>

\* handle_dissolve_room of the host ends a review, closes the other sockets and
\* deletes the row; the Room stays as long as it has a socket.
Dissolve(p) ==
  /\ p \in members /\ at[p] = "no" /\ ~crediting
  /\ stage' = IF stage = "review" THEN "stranded" ELSE stage
  /\ DeleteSoon
  /\ UNCHANGED <<backend, up, exists, members, known, round, store, joins, writes,
                 deactivating, crediting, orphans, sweeping, mixed>>

-----------------------------------------------------------------------------
(* The game, as far as it is written down                                  *)

\* The last one is ready.
Start ==
  /\ exists /\ members # {} /\ stage = "lobby"
  /\ stage' = "round" /\ round' = 1
  /\ UNCHANGED <<backend, up, exists, members, known, store, joins, pending, sweeping,
                 mixed>>

\* All have answered, or the stop phase is over.
RoundEnds ==
  /\ exists /\ members # {} /\ stage = "round"
  /\ stage' = "review"
  /\ UNCHANGED <<backend, up, exists, members, known, round, store, joins, pending,
                 sweeping, mixed>>

\* Mutant: one round too many.
NotPastLast == round <= MAX_ROUNDS

MoreRounds == round < MAX_ROUNDS

\* _update_global_scores_and_save: the scores of those who answered ...
SaveScores ==
  /\ stage = "review" /\ ~crediting /\ Quiet /\ deletes = 0
  /\ crediting' = TRUE
  /\ \E who \in SUBSET known : saved' = saved \cup who
  /\ UNCHANGED <<backend, up, memory, row, joins, writes, deletes, deactivating,
                 orphans, sweeping, mixed>>

\* ... the room, and the next round or the end of the game.
SaveResult ==
  /\ crediting /\ crediting' = FALSE
  /\ row' = Row(round)
  /\ IF MoreRounds
     THEN stage' = "round" /\ round' = round + 1 /\ UNCHANGED deactivating
     ELSE stage' = "over" /\ UNCHANGED round /\ deactivating' = TRUE
  /\ UNCHANGED <<backend, up, exists, members, known, saved, joins, writes, deletes,
                 orphans, sweeping, mixed>>

\* The countdown of a Room that has left the table ends in the same writes.
OrphanSaves(r) ==
  /\ r \in orphans /\ orphans' = orphans \ {r}
  /\ row' = Row(r) /\ mixed' = TRUE
  /\ \E who \in SUBSET Names : saved' = saved \cup who
  /\ deactivating' = (deactivating \/ r >= MAX_ROUNDS)
  /\ UNCHANGED <<backend, up, memory, joins, writes, deletes, crediting, sweeping>>

\* restart_game: the same members, from the lobby.  A save of the finished game
\* that is still under way may land after the one of the new game.
Restart ==
  /\ exists /\ members # {} /\ stage = "over" /\ Cardinality(writes) < MaxWrites
  /\ stage' = "lobby" /\ round' = 0 /\ known' = members
  /\ writes' = SaveUnderWay(0)
  /\ mixed' = (mixed \/ ~Quiet)
  /\ UNCHANGED <<backend, up, exists, members, store, joins, deletes, deactivating,
                 crediting, orphans, sweeping>>

\* The other callers of save_room: configuration and host transfer.
SaveRoom ==
  /\ exists /\ members # {} /\ ~crediting /\ Cardinality(writes) < MaxWrites
  /\ writes' = SaveUnderWay(round)
  /\ UNCHANGED <<backend, up, memory, store, joins, deletes, deactivating, crediting,
                 orphans, sweeping, mixed>>

WriteRow(w) ==
  /\ w \in writes /\ writes' = writes \ {w}
  /\ row' = Row(w.round)
  /\ mixed' = (mixed \/ ~w.here)
  /\ UNCHANGED <<backend, up, memory, saved, joins, deletes, deactivating, crediting,
                 orphans, sweeping>>

\* delete_room: SQLite does not enforce the players' foreign key, Redis removes
\* the scores itself.
DeleteRow ==
  /\ deletes > 0 /\ deletes' = deletes - 1
  /\ row' = NoRow
  /\ saved' = IF backend = "redis" THEN {} ELSE saved
  /\ mixed' = exists
  /\ UNCHANGED <<backend, up, memory, joins, writes, deactivating, crediting, orphans,
                 sweeping>>

\* deactivate_room updates a row that is there; Redis has no such flag.
DeactivateRow ==
  /\ deactivating /\ deactivating' = FALSE
  /\ row' = IF row.there /\ backend = "sqlite" THEN [row EXCEPT !.active = FALSE] ELSE row
  /\ mixed' = (mixed \/ stage # "over")
  /\ UNCHANGED <<backend, up, memory, saved, joins, writes, deletes, crediting, orphans,
                 sweeping>>

-----------------------------------------------------------------------------
(* Crash and restart of the server                                         *)

Crash ==
  /\ up /\ up' = FALSE
  /\ Forget
  /\ at' = [p \in Names |-> "no"] /\ here' = [p \in Names |-> FALSE]
  /\ arg' = [p \in Names |-> 0]
  /\ writes' = {} /\ deletes' = 0 /\ deactivating' = FALSE
  /\ crediting' = FALSE /\ orphans' = {}
  /\ sweeping' = FALSE
  /\ UNCHANGED <<backend, store, mixed>>

\* get_active_rooms: SQLite asks for active rows.
Listed == row.there /\ (row.active \/ backend = "redis")

Discarded == Listed /\ (saved = {} \/ row.round >= MAX_ROUNDS)

\* lifespan: load_from_db, before the first request.
Load ==
  /\ ~up /\ up' = TRUE
  /\ IF Discarded
     THEN /\ row' = NoRow
          /\ saved' = IF backend = "redis" THEN {} ELSE saved
          /\ mixed' = FALSE /\ UNCHANGED memory
     ELSE IF Listed
     THEN /\ exists' = TRUE /\ known' = saved
          /\ round' = row.round
          /\ stage' = IF row.round = 0 THEN "lobby" ELSE "stranded"
          /\ UNCHANGED <<members, store, mixed>>
     ELSE UNCHANGED <<memory, store, mixed>>
  /\ UNCHANGED <<backend, joins, pending, sweeping>>

-----------------------------------------------------------------------------
Next ==
  \/ \E p \in Names :
       \/ ConnectUnknown(p) \/ EnsureRoom(p) \/ ConnectKnown(p)
       \/ Enter(p) \/ EnterSaved(p) \/ EnterScored(p)
       \/ Leave(p) \/ Kick(p) \/ Dissolve(p)
  \/ \E r \in orphans : OrphanSaves(r)
  \/ \E w \in writes : WriteRow(w)
  \/ IdleFires \/ SweepPops
  \/ Start \/ RoundEnds \/ SaveScores \/ SaveResult \/ Restart \/ SaveRoom
  \/ DeleteRow \/ DeactivateRow \/ Crash \/ Load

Spec == Init /\ [][Next]_vars

-----------------------------------------------------------------------------
Stages == {"lobby", "round", "review", "over", "stranded"}

TypeOK ==
  /\ backend \in Backends /\ up \in BOOLEAN /\ exists \in BOOLEAN
  /\ members \subseteq known /\ known \subseteq Names
  /\ stage \in Stages /\ round \in 0..MAX_ROUNDS
  /\ row \in [round : 0..MAX_ROUNDS, active : BOOLEAN, there : BOOLEAN]
  /\ saved \subseteq Names
  /\ at \in [Names -> {"no", "reading", "entering", "saving", "scoring"}]
  /\ here \in [Names -> BOOLEAN] /\ arg \in [Names -> 0..MAX_ROUNDS]
  /\ writes \subseteq [round : 0..MAX_ROUNDS, here : BOOLEAN]
  /\ deletes \in 0..MaxDeletes /\ deactivating \in BOOLEAN
  /\ crediting \in BOOLEAN /\ orphans \subseteq 1..MAX_ROUNDS
  /\ sweeping \in BOOLEAN /\ mixed \in BOOLEAN

\* disconnect(): no room stays in the database after everyone has left.  A row
\* without a Room is about to be deleted, unless a former Room wrote it, or it
\* is a finished game's that a restart does not look at.
RowsAreAccountedFor ==
  up /\ ~exists /\ row.there =>
    \/ deletes > 0 \/ mixed
    \/ ~row.active

\* A room with people in it that no former Room interferes with can be loaded
\* after a crash: its row is there, with everybody's score, and is at most one
\* round behind.
RoomIsStored ==
  exists /\ members # {} /\ ~mixed /\ Quiet =>
    /\ row.there /\ members \subseteq saved
    /\ row.round \in {round, round - 1}
=============================================================================
