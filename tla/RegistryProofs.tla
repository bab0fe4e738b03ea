--------------------------- MODULE RegistryProofs ---------------------------
(***************************************************************************)
(* Proofs about module Registry, for every set of names, number of rounds  *)
(* and bound on the calls under way.  That a room is stored rests on what  *)
(* is under way when it is not yet: a member without a score has a connect *)
(* that will save it, a room without a row has a save_room, and no save    *)
(* that belongs to the room is more than one round behind it.  A crash     *)
(* keeps the invariant because an id without a Room has nothing to save.   *)
(***************************************************************************)
EXTENDS Registry, TLAPS

\* TypeOK in two parts.
Flags ==
  /\ up \in BOOLEAN /\ exists \in BOOLEAN /\ deactivating \in BOOLEAN
  /\ crediting \in BOOLEAN /\ sweeping \in BOOLEAN /\ mixed \in BOOLEAN
  /\ here \in [Names -> BOOLEAN]

Values ==
  /\ backend \in Backends
  /\ members \subseteq known /\ known \subseteq Names
  /\ stage \in Stages /\ round \in 0..MAX_ROUNDS
  /\ row \in [round : 0..MAX_ROUNDS, active : BOOLEAN, there : BOOLEAN]
  /\ saved \subseteq Names
  /\ at \in [Names -> {"no", "reading", "entering", "saving", "scoring"}]
  /\ arg \in [Names -> 0..MAX_ROUNDS]
  /\ writes \subseteq [round : 0..MAX_ROUNDS, here : BOOLEAN]
  /\ deletes \in 0..MaxDeletes
  /\ orphans \subseteq 1..MAX_ROUNDS

\* Of an id without a Room there is nothing, nor does any call belong to it.
GoneIsEmpty ==
  ~exists =>
    /\ members = {} /\ known = {} /\ stage = "lobby" /\ round = 0
    /\ crediting = FALSE
    /\ \A p \in Names : here[p] = FALSE
    /\ \A w \in writes : w.here = FALSE

\* A server that is down does nothing.
DownIsIdle ==
  ~up =>
    /\ exists = FALSE /\ \A p \in Names : at[p] = "no"
    /\ writes = {} /\ deletes = 0 /\ orphans = {}
    /\ crediting = FALSE /\ deactivating = FALSE /\ sweeping = FALSE

\* The round number fits the stage.
StageFits ==
  /\ stage = "lobby" => round = 0
  /\ stage \in {"round", "review"} => round > 0
  /\ crediting => stage = "review"

\* What is being written about the Room is at most a round behind it, and not
\* behind at all while the scores of a review are saved.
InTime(r) == r = round \/ (r + 1 = round /\ ~crediting)

WritesInTime ==
  exists /\ ~mixed =>
    /\ \A w \in writes : w.here => InTime(w.round)
    /\ \A p \in Names : at[p] = "saving" /\ here[p] => InTime(arg[p])

\* Whoever is in the room has a score in the database, or is about to.
MembersSaved ==
  exists /\ ~mixed =>
    \A p \in members : p \in saved \/ (at[p] \in {"saving", "scoring"} /\ here[p])

\* A room with people in it has its row, or a save is under way.
RowSaved ==
  exists /\ ~mixed /\ members # {} =>
    \/ row.there /\ (row.round = round \/ row.round + 1 = round)
    \/ \E w \in writes : w.here
    \/ \E p \in Names : at[p] = "saving" /\ here[p]

IInv ==
  /\ Flags /\ Values
  /\ GoneIsEmpty /\ DownIsIdle /\ StageFits
  /\ RowsAreAccountedFor
  /\ WritesInTime /\ MembersSaved /\ RowSaved

USE RegistryAssumption DEF memory, store, joins, pending

-----------------------------------------------------------------------------
(* A Room leaves the table, a save begins                                  *)

LEMMA OrphanTypes ==
  ASSUME Flags, Values, StageFits, NEW heirs, Orphan(heirs)
  PROVE  /\ here' \in [Names -> BOOLEAN] /\ crediting' = FALSE
         /\ writes' \subseteq [round : 0..MAX_ROUNDS, here : BOOLEAN]
         /\ \A w \in writes' : w.here = FALSE
         /\ orphans' \subseteq 1..MAX_ROUNDS
<1> USE DEF Orphan
<1>1. here' \in [Names -> BOOLEAN]
  <2>1. \A p \in Names : (p \in heirs) \in BOOLEAN
    OBVIOUS
  <2> QED BY <2>1, Zenon
<1>2. ASSUME NEW w \in writes'
      PROVE  w \in [round : 0..MAX_ROUNDS, here : BOOLEAN] /\ w.here = FALSE
  <2>1. PICK v \in writes : w = [v EXCEPT !.here = FALSE]
    BY <1>2
  <2>2. v \in [round : 0..MAX_ROUNDS, here : BOOLEAN]
    BY <2>1 DEF Values
  <2> QED BY <2>1, <2>2
<1>3. orphans' \subseteq 1..MAX_ROUNDS
  BY DEF Values, StageFits
<1> QED BY <1>1, <1>2, <1>3

LEMMA OrphanIsEmpty ==
  ASSUME Orphan({}), NEW p \in Names
  PROVE  here'[p] = FALSE
<1>1. here' = [q \in Names |-> q \in {}]
  BY DEF Orphan
<1>2. here'[p] = (p \in {})
  BY <1>1, Zenon
<1>3. (p \in {}) = FALSE
  OBVIOUS
<1> QED BY <1>2, <1>3, Zenon

LEMMA SaveTypes ==
  ASSUME Values, NEW r \in 0..MAX_ROUNDS
  PROVE  SaveUnderWay(r) \subseteq [round : 0..MAX_ROUNDS, here : BOOLEAN]
<1>1. [round |-> r, here |-> TRUE] \in [round : 0..MAX_ROUNDS, here : BOOLEAN]
  OBVIOUS
<1> QED BY <1>1, Zenon DEF Values, SaveUnderWay

LEMMA RoomGone ==
  ASSUME Flags, Values, StageFits, Forget, Orphan({}), deletes' \in 0..MaxDeletes,
         UNCHANGED <<backend, store, at, arg>>
  PROVE  Values'
<1>1. members' \subseteq known' /\ known' \subseteq Names
  BY DEF Forget
<1>2. stage' \in Stages /\ round' \in 0..MAX_ROUNDS
  BY DEF Forget, Stages
<1> QED BY <1>1, <1>2, OrphanTypes DEF Values

-----------------------------------------------------------------------------
(* Connects, and the Room in the table                                     *)

LEMMA ConnectUnknownStep ==
  ASSUME IInv, NEW p \in Names, ConnectUnknown(p)
  PROVE  IInv'
<1> USE DEF IInv, ConnectUnknown
<1>1. Flags'
  BY DEF Flags
<1>2. Values'
  BY DEF Values
<1>3. GoneIsEmpty' /\ DownIsIdle' /\ StageFits'
  BY DEF DownIsIdle, GoneIsEmpty, StageFits
<1>4. RowsAreAccountedFor'
  BY DEF RowsAreAccountedFor
<1>5. WritesInTime' /\ MembersSaved' /\ RowSaved'
  BY DEF WritesInTime, MembersSaved, RowSaved
<1> QED BY <1>1, <1>2, <1>3, <1>4, <1>5

LEMMA EnsureRoomStep ==
  ASSUME IInv, NEW p \in Names, EnsureRoom(p)
  PROVE  IInv'
<1> USE DEF IInv, EnsureRoom
<1>1. Flags'
  <2>1. PICK heirs : Orphan(heirs)
    OBVIOUS
  <2>2. mixed' \in BOOLEAN
    BY Zenon
  <2> QED BY <2>1, <2>2, OrphanTypes DEF Flags
<1>2. Values'
  <2>1. PICK heirs : Orphan(heirs)
    OBVIOUS
  <2>2. row.round \in 0..MAX_ROUNDS
    BY DEF Values
  <2>3. stage' \in Stages /\ round' \in 0..MAX_ROUNDS
    BY <2>2 DEF Stages
  <2>4. at' \in [Names -> {"no", "reading", "entering", "saving", "scoring"}]
    BY DEF Values
  <2>5. members' \subseteq known' /\ known' \subseteq Names
    BY DEF Values
  <2> QED BY <2>1, <2>3, <2>4, <2>5, OrphanTypes DEF Values
<1>3. GoneIsEmpty' /\ DownIsIdle' /\ StageFits'
  BY DEF DownIsIdle, GoneIsEmpty, StageFits, Values, Orphan
<1>4. RowsAreAccountedFor'
  BY DEF RowsAreAccountedFor
<1>5. WritesInTime' /\ MembersSaved' /\ RowSaved'
  BY DEF Values, WritesInTime, MembersSaved, RowSaved, Orphan
<1> QED BY <1>1, <1>2, <1>3, <1>4, <1>5

LEMMA ConnectKnownStep ==
  ASSUME IInv, NEW p \in Names, ConnectKnown(p)
  PROVE  IInv'
<1> USE DEF IInv, ConnectKnown
<1>1. Flags'
  BY DEF Flags
<1>2. Values'
  BY DEF Values
<1>3. GoneIsEmpty' /\ DownIsIdle' /\ StageFits'
  BY DEF DownIsIdle, GoneIsEmpty, StageFits
<1>4. RowsAreAccountedFor'
  BY DEF RowsAreAccountedFor
<1>5. WritesInTime' /\ MembersSaved' /\ RowSaved'
  BY DEF InTime, WritesInTime, MembersSaved, RowSaved
<1> QED BY <1>1, <1>2, <1>3, <1>4, <1>5

LEMMA EnterStep ==
  ASSUME IInv, NEW p \in Names, Enter(p)
  PROVE  IInv'
<1> USE DEF IInv, Enter
<1>1. Flags'
  BY DEF Flags
<1>2. Values'
  BY DEF Values
<1>3. GoneIsEmpty' /\ DownIsIdle' /\ StageFits'
  BY DEF DownIsIdle, GoneIsEmpty, StageFits
<1>4. RowsAreAccountedFor'
  BY DEF RowsAreAccountedFor
<1>5. WritesInTime' /\ MembersSaved' /\ RowSaved'
  BY DEF Values, InTime, WritesInTime, MembersSaved, RowSaved
<1> QED BY <1>1, <1>2, <1>3, <1>4, <1>5

LEMMA EnterSavedStep ==
  ASSUME IInv, NEW p \in Names, EnterSaved(p)
  PROVE  IInv'
<1> USE DEF IInv, EnterSaved
<1>1. Flags'
  BY DEF Flags
<1>2. Values'
  BY DEF Values, Row
<1>3. GoneIsEmpty' /\ DownIsIdle' /\ StageFits'
  BY DEF DownIsIdle, GoneIsEmpty, StageFits, Flags
<1>4. RowsAreAccountedFor'
  BY DEF GoneIsEmpty, RowsAreAccountedFor
<1>5. WritesInTime'
  BY DEF Flags, Values, InTime, WritesInTime
<1>6. MembersSaved'
  BY DEF Flags, Values, MembersSaved
<1>7. RowSaved'
  <2> SUFFICES ASSUME exists, ~mixed', members # {}
               PROVE  row'.there /\ (row'.round = round \/ row'.round + 1 = round)
    BY DEF RowSaved
  <2>1. ~mixed /\ here[p]
    BY DEF Flags
  <2>2. InTime(arg[p])
    BY <2>1 DEF WritesInTime
  <2>3. row'.there /\ row'.round = arg[p]
    BY DEF Row
  <2> QED BY <2>2, <2>3 DEF InTime, Values
<1> QED BY <1>1, <1>2, <1>3, <1>4, <1>5, <1>6, <1>7

LEMMA EnterScoredStep ==
  ASSUME IInv, NEW p \in Names, EnterScored(p)
  PROVE  IInv'
<1> USE DEF IInv, EnterScored
<1>1. Flags'
  BY DEF Flags
<1>2. Values'
  BY DEF Values
<1>3. GoneIsEmpty' /\ DownIsIdle' /\ StageFits'
  BY DEF DownIsIdle, GoneIsEmpty, StageFits
<1>4. RowsAreAccountedFor'
  BY DEF RowsAreAccountedFor
<1>5. WritesInTime' /\ MembersSaved' /\ RowSaved'
  BY DEF Flags, InTime, WritesInTime, MembersSaved, RowSaved
<1> QED BY <1>1, <1>2, <1>3, <1>4, <1>5

LEMMA LeaveStep ==
  ASSUME IInv, NEW p \in Names, Leave(p)
  PROVE  IInv'
<1> USE DEF IInv, Leave
<1>1. Flags'
  <2>1. CASE members # {p}
    BY <2>1 DEF Flags, Orphan
  <2>2. CASE members = {p}
    BY <2>2, OrphanTypes DEF Flags, Forget
  <2> QED BY <2>1, <2>2
<1>2. Values'
  <2>1. CASE members # {p}
    BY <2>1 DEF Values
  <2>2. CASE members = {p}
    <3>1. deletes' \in 0..MaxDeletes
      BY <2>2 DEF DeleteSoon, Values
    <3> QED BY <2>2, <3>1, RoomGone
  <2> QED BY <2>1, <2>2
<1>3. GoneIsEmpty'
  <2>1. CASE members # {p}
    BY <2>1 DEF GoneIsEmpty, Values
  <2>2. CASE members = {p}
    BY <2>2, OrphanTypes, OrphanIsEmpty DEF Forget, GoneIsEmpty
  <2> QED BY <2>1, <2>2
<1>4. DownIsIdle'
  BY DEF DownIsIdle, GoneIsEmpty
<1>5. StageFits'
  BY DEF StageFits, Orphan, Forget
<1>6. RowsAreAccountedFor'
  BY DEF Values, RowsAreAccountedFor, DeleteSoon
<1>7. WritesInTime' /\ MembersSaved' /\ RowSaved'
  BY DEF InTime, WritesInTime, MembersSaved, RowSaved, Forget
<1> QED BY <1>1, <1>2, <1>3, <1>4, <1>5, <1>6, <1>7

LEMMA KickStep ==
  ASSUME IInv, NEW p \in Names, Kick(p)
  PROVE  IInv'
<1> USE DEF IInv, Kick
<1>1. Flags'
  BY DEF Flags
<1>2. Values'
  BY SaveTypes DEF Values
<1>3. GoneIsEmpty' /\ DownIsIdle' /\ StageFits'
  BY DEF DownIsIdle, GoneIsEmpty, StageFits
<1>4. RowsAreAccountedFor'
  BY DEF RowsAreAccountedFor
<1>5. WritesInTime' /\ MembersSaved' /\ RowSaved'
  BY DEF InTime, WritesInTime, MembersSaved, RowSaved, SaveUnderWay
<1> QED BY <1>1, <1>2, <1>3, <1>4, <1>5

LEMMA IdleFiresStep ==
  ASSUME IInv, IdleFires
  PROVE  IInv'
<1> USE DEF IInv, IdleFires
<1>1. Flags'
  BY DEF Flags
<1>2. Values'
  BY DEF Values
<1>3. GoneIsEmpty' /\ DownIsIdle' /\ StageFits'
  BY DEF DownIsIdle, GoneIsEmpty, StageFits
<1>4. RowsAreAccountedFor'
  BY DEF RowsAreAccountedFor
<1>5. WritesInTime' /\ MembersSaved' /\ RowSaved'
  BY DEF InTime, WritesInTime, MembersSaved, RowSaved
<1> QED BY <1>1, <1>2, <1>3, <1>4, <1>5

LEMMA SweepPopsStep ==
  ASSUME IInv, SweepPops
  PROVE  IInv'
<1> USE DEF IInv, SweepPops
<1>1. Flags'
    BY OrphanTypes DEF Flags, Forget
<1>2. Values'
  <2>1. deletes' \in 0..MaxDeletes
    BY DEF DeleteSoon, Values
  <2>2. CASE exists
    BY <2>1, <2>2, RoomGone
  <2>3. CASE ~exists
    BY <2>1, <2>3 DEF Values
  <2> QED BY <2>2, <2>3
<1>3. GoneIsEmpty'
    BY OrphanTypes, OrphanIsEmpty DEF Forget, GoneIsEmpty
<1>4. DownIsIdle'
  BY DEF DownIsIdle
<1>5. StageFits'
  BY DEF StageFits, Orphan, Forget
<1>6. RowsAreAccountedFor'
  BY DEF Values, RowsAreAccountedFor, DeleteSoon
<1>7. WritesInTime' /\ MembersSaved' /\ RowSaved'
  BY DEF WritesInTime, MembersSaved, RowSaved, Forget
<1> QED BY <1>1, <1>2, <1>3, <1>4, <1>5, <1>6, <1>7

LEMMA DissolveStep ==
  ASSUME IInv, NEW p \in Names, Dissolve(p)
  PROVE  IInv'
<1> USE DEF IInv, Dissolve
<1>1. Flags'
  BY DEF Flags
<1>2. Values'
  BY DEF Stages, Values, DeleteSoon
<1>3. GoneIsEmpty' /\ DownIsIdle' /\ StageFits'
  BY DEF DownIsIdle, GoneIsEmpty, StageFits
<1>4. RowsAreAccountedFor'
  BY DEF Values, RowsAreAccountedFor, DeleteSoon
<1>5. WritesInTime' /\ MembersSaved' /\ RowSaved'
  BY DEF InTime, WritesInTime, MembersSaved, RowSaved
<1> QED BY <1>1, <1>2, <1>3, <1>4, <1>5

-----------------------------------------------------------------------------
(* The game, as far as it is written down                                  *)

LEMMA StartStep ==
  ASSUME IInv, Start
  PROVE  IInv'
<1> USE DEF IInv, Start
<1>1. Flags'
  BY DEF Flags
<1>2. Values'
  BY DEF Stages, Values
<1>3. GoneIsEmpty' /\ DownIsIdle' /\ StageFits'
  BY DEF DownIsIdle, GoneIsEmpty, StageFits
<1>4. RowsAreAccountedFor'
  BY DEF RowsAreAccountedFor
<1>5. WritesInTime' /\ MembersSaved' /\ RowSaved'
  BY DEF StageFits, Values, InTime, WritesInTime, MembersSaved, RowSaved
<1> QED BY <1>1, <1>2, <1>3, <1>4, <1>5

LEMMA RoundEndsStep ==
  ASSUME IInv, RoundEnds
  PROVE  IInv'
<1> USE DEF IInv, RoundEnds
<1>1. Flags'
  BY DEF Flags
<1>2. Values'
  BY DEF Stages, Values
<1>3. GoneIsEmpty' /\ DownIsIdle' /\ StageFits'
  BY DEF DownIsIdle, GoneIsEmpty, StageFits
<1>4. RowsAreAccountedFor'
  BY DEF RowsAreAccountedFor
<1>5. WritesInTime' /\ MembersSaved' /\ RowSaved'
  BY DEF InTime, WritesInTime, MembersSaved, RowSaved
<1> QED BY <1>1, <1>2, <1>3, <1>4, <1>5

LEMMA SaveScoresStep ==
  ASSUME IInv, SaveScores
  PROVE  IInv'
<1> USE DEF IInv, SaveScores
<1>1. Flags'
  BY DEF Flags
<1>2. Values'
  BY DEF Values
<1>3. GoneIsEmpty' /\ DownIsIdle' /\ StageFits'
  BY DEF DownIsIdle, GoneIsEmpty, StageFits
<1>4. RowsAreAccountedFor'
  BY DEF RowsAreAccountedFor
<1>5. WritesInTime' /\ MembersSaved' /\ RowSaved'
  BY DEF WritesInTime, MembersSaved, RowSaved, Quiet
<1> QED BY <1>1, <1>2, <1>3, <1>4, <1>5

LEMMA SaveResultStep ==
  ASSUME IInv, SaveResult
  PROVE  IInv'
<1> USE DEF IInv, SaveResult
<1>1. Flags'
  BY DEF Flags
<1>2. Values'
  BY DEF Stages, Values, Row, MoreRounds
<1>3. GoneIsEmpty' /\ DownIsIdle' /\ StageFits'
  BY DEF DownIsIdle, GoneIsEmpty, StageFits, Values
<1>4. RowsAreAccountedFor'
  BY DEF GoneIsEmpty, RowsAreAccountedFor
<1>5. WritesInTime' /\ MembersSaved' /\ RowSaved'
  BY DEF InTime, WritesInTime, MembersSaved, RowSaved, Row
<1> QED BY <1>1, <1>2, <1>3, <1>4, <1>5

LEMMA OrphanSavesStep ==
  ASSUME IInv, NEW r \in orphans, OrphanSaves(r)
  PROVE  IInv'
<1> USE DEF IInv, OrphanSaves
<1>1. Flags'
  BY DEF Flags
<1>2. Values'
  BY DEF Values, Row
<1>3. GoneIsEmpty' /\ DownIsIdle' /\ StageFits'
  BY DEF DownIsIdle, GoneIsEmpty, StageFits
<1>4. RowsAreAccountedFor'
  BY DEF RowsAreAccountedFor
<1>5. WritesInTime' /\ MembersSaved' /\ RowSaved'
  BY DEF WritesInTime, MembersSaved, RowSaved
<1> QED BY <1>1, <1>2, <1>3, <1>4, <1>5

LEMMA RestartStep ==
  ASSUME IInv, Restart
  PROVE  IInv'
<1> USE DEF IInv, Restart
<1>1. Flags'
  BY DEF Flags
<1>2. Values'
  <2>1. SaveUnderWay(0) \subseteq [round : 0..MAX_ROUNDS, here : BOOLEAN]
    BY SaveTypes DEF Values
  <2> QED BY <2>1 DEF Values, Stages
<1>3. GoneIsEmpty' /\ DownIsIdle' /\ StageFits'
  BY DEF DownIsIdle, GoneIsEmpty, StageFits
<1>4. RowsAreAccountedFor'
  BY DEF RowsAreAccountedFor
<1>5. WritesInTime'
  BY DEF Flags, Values, InTime, WritesInTime, Quiet, SaveUnderWay
<1>6. MembersSaved'
  BY DEF MembersSaved
<1>7. RowSaved'
  <2>1. [round |-> 0, here |-> TRUE] \in writes'
    BY DEF SaveUnderWay
  <2>2. \E w \in writes' : w.here
    BY <2>1
  <2> QED BY <2>2 DEF RowSaved
<1> QED BY <1>1, <1>2, <1>3, <1>4, <1>5, <1>6, <1>7

LEMMA SaveRoomStep ==
  ASSUME IInv, SaveRoom
  PROVE  IInv'
<1> USE DEF IInv, SaveRoom
<1>1. Flags'
  BY DEF Flags
<1>2. Values'
  BY SaveTypes DEF Values
<1>3. GoneIsEmpty' /\ DownIsIdle' /\ StageFits'
  BY DEF DownIsIdle, GoneIsEmpty, StageFits
<1>4. RowsAreAccountedFor'
  BY DEF RowsAreAccountedFor
<1>5. WritesInTime' /\ MembersSaved' /\ RowSaved'
  BY DEF InTime, WritesInTime, MembersSaved, RowSaved, SaveUnderWay
<1> QED BY <1>1, <1>2, <1>3, <1>4, <1>5

LEMMA WriteRowStep ==
  ASSUME IInv, NEW w \in writes, WriteRow(w)
  PROVE  IInv'
<1> USE DEF IInv, WriteRow
<1>1. Flags'
  BY DEF Flags
<1>2. Values'
  BY DEF Values, Row
<1>3. GoneIsEmpty' /\ DownIsIdle' /\ StageFits'
  BY DEF DownIsIdle, GoneIsEmpty, StageFits
<1>4. RowsAreAccountedFor'
  BY DEF GoneIsEmpty, RowsAreAccountedFor
<1>5. WritesInTime'
  BY DEF InTime, WritesInTime
<1>6. MembersSaved'
  BY DEF MembersSaved
<1>7. RowSaved'
  <2> SUFFICES ASSUME exists, ~mixed', members # {}
               PROVE  row'.there /\ (row'.round = round \/ row'.round + 1 = round)
    BY DEF RowSaved
  <2>1. ~mixed /\ w.here
    BY DEF Flags
  <2>2. InTime(w.round)
    BY <2>1 DEF WritesInTime
  <2>3. row'.there /\ row'.round = w.round
    BY DEF Row
  <2> QED BY <2>2, <2>3 DEF InTime, Values
<1> QED BY <1>1, <1>2, <1>3, <1>4, <1>5, <1>6, <1>7

LEMMA DeleteRowStep ==
  ASSUME IInv, DeleteRow
  PROVE  IInv'
<1> USE DEF IInv, DeleteRow
<1>1. Flags'
  BY DEF Flags
<1>2. Values'
  BY DEF Values, NoRow
<1>3. GoneIsEmpty' /\ DownIsIdle' /\ StageFits'
  BY DEF DownIsIdle, GoneIsEmpty, StageFits
<1>4. RowsAreAccountedFor'
  BY DEF RowsAreAccountedFor, NoRow
<1>5. WritesInTime' /\ MembersSaved' /\ RowSaved'
  BY DEF WritesInTime, MembersSaved, RowSaved
<1> QED BY <1>1, <1>2, <1>3, <1>4, <1>5

LEMMA DeactivateRowStep ==
  ASSUME IInv, DeactivateRow
  PROVE  IInv'
<1> USE DEF IInv, DeactivateRow
<1>1. Flags'
  BY DEF Flags
<1>2. Values'
  BY DEF Values
<1>3. GoneIsEmpty' /\ DownIsIdle' /\ StageFits'
  BY DEF DownIsIdle, GoneIsEmpty, StageFits
<1>4. RowsAreAccountedFor'
  BY DEF Values, RowsAreAccountedFor
<1>5. WritesInTime' /\ MembersSaved' /\ RowSaved'
  BY DEF Values, InTime, WritesInTime, MembersSaved, RowSaved
<1> QED BY <1>1, <1>2, <1>3, <1>4, <1>5

-----------------------------------------------------------------------------
(* Crash and restart                                                       *)

LEMMA CrashStep ==
  ASSUME IInv, Crash
  PROVE  IInv'
<1> USE DEF IInv, Crash
<1>1. Flags'
  BY DEF Flags, Forget
<1>2. Values'
  BY DEF Stages, Values, Forget
<1>3. GoneIsEmpty' /\ DownIsIdle' /\ StageFits'
  BY DEF DownIsIdle, GoneIsEmpty, StageFits, Forget
<1>4. RowsAreAccountedFor'
  BY DEF RowsAreAccountedFor
<1>5. WritesInTime' /\ MembersSaved' /\ RowSaved'
  BY DEF WritesInTime, MembersSaved, RowSaved, Forget
<1> QED BY <1>1, <1>2, <1>3, <1>4, <1>5

LEMMA LoadStep ==
  ASSUME IInv, Load
  PROVE  IInv'
<1> USE DEF IInv, Load
<1>1. Flags'
  BY DEF Flags
<1>2. Values'
  <2>1. row' \in [round : 0..MAX_ROUNDS, active : BOOLEAN, there : BOOLEAN]
    <3>1. NoRow \in [round : 0..MAX_ROUNDS, active : BOOLEAN, there : BOOLEAN]
      BY DEF NoRow
    <3>2. row' = NoRow \/ row' = row
      OBVIOUS
    <3> QED BY <3>1, <3>2 DEF Values
  <2>2. round' \in 0..MAX_ROUNDS /\ stage' \in Stages
    BY DEF Values, Stages
  <2>3. members' \subseteq known' /\ known' \subseteq Names /\ saved' \subseteq Names
    BY DEF Values, DownIsIdle, GoneIsEmpty
  <2> QED BY <2>1, <2>2, <2>3 DEF Values
<1>3. GoneIsEmpty' /\ DownIsIdle' /\ StageFits'
  BY DEF DownIsIdle, GoneIsEmpty, StageFits
<1>4. RowsAreAccountedFor'
  BY DEF RowsAreAccountedFor, NoRow, Listed
<1>5. WritesInTime' /\ MembersSaved' /\ RowSaved'
  BY DEF DownIsIdle, GoneIsEmpty, WritesInTime, MembersSaved, RowSaved
<1> QED BY <1>1, <1>2, <1>3, <1>4, <1>5

LEMMA Step ==
  IInv /\ [Next]_vars => IInv'
<1> SUFFICES ASSUME IInv, [Next]_vars PROVE IInv'
  OBVIOUS
<1>1. ASSUME NEW p \in Names,
             \/ ConnectUnknown(p) \/ EnsureRoom(p) \/ ConnectKnown(p)
             \/ Enter(p) \/ EnterSaved(p) \/ EnterScored(p)
             \/ Leave(p) \/ Kick(p) \/ Dissolve(p)
      PROVE  IInv'
  BY <1>1, ConnectUnknownStep, EnsureRoomStep, ConnectKnownStep, EnterStep, EnterSavedStep,
     EnterScoredStep, LeaveStep, KickStep, DissolveStep
<1>2. CASE \E r \in orphans : OrphanSaves(r)
  BY <1>2, OrphanSavesStep
<1>3. CASE \E w \in writes : WriteRow(w)
  BY <1>3, WriteRowStep
<1>4. CASE UNCHANGED vars
  <2> USE <1>4 DEF vars, IInv
  <2>1. Flags' /\ Values'
    BY DEF Flags, Values
  <2>2. GoneIsEmpty' /\ DownIsIdle' /\ StageFits' /\ RowsAreAccountedFor'
    BY DEF GoneIsEmpty, DownIsIdle, StageFits, RowsAreAccountedFor
  <2>3. WritesInTime' /\ MembersSaved' /\ RowSaved'
    BY DEF WritesInTime, MembersSaved, RowSaved, InTime
  <2> QED BY <2>1, <2>2, <2>3
<1> QED BY <1>1, <1>2, <1>3, <1>4, IdleFiresStep, SweepPopsStep, StartStep, RoundEndsStep,
           SaveScoresStep, SaveResultStep, RestartStep, SaveRoomStep, DeleteRowStep,
           DeactivateRowStep, CrashStep, LoadStep DEF Next

-----------------------------------------------------------------------------
\* The Room in memory, what is under way about it and what is stored fit
\* together.
THEOREM RegistryInvariant == Spec => []IInv
<1>1. Init => IInv
  <2> SUFFICES ASSUME Init PROVE IInv
    OBVIOUS
  <2> USE DEF Init, NoRow
  <2>1. Flags
    BY DEF Flags
  <2>2. Values
    BY DEF Values, Stages
  <2>3. GoneIsEmpty /\ DownIsIdle /\ StageFits /\ RowsAreAccountedFor
    BY DEF GoneIsEmpty, DownIsIdle, StageFits, RowsAreAccountedFor
  <2>4. WritesInTime /\ MembersSaved /\ RowSaved
    BY DEF WritesInTime, MembersSaved, RowSaved
  <2> QED BY <2>1, <2>2, <2>3, <2>4 DEF IInv
<1> QED BY <1>1, Step, PTL DEF Spec

\* The variables of Registry keep their types.
THEOREM RegistryTypes == Spec => []TypeOK
<1>1. IInv => TypeOK
  BY DEF IInv, Flags, Values, TypeOK
<1> QED BY <1>1, RegistryInvariant, PTL

\* disconnect, dissolve_idle_lobby: no row outlives its Room unless a delete is
\* under way, a former Room wrote it, or it is a finished game's.
THEOREM RowsAccounted == Spec => []RowsAreAccountedFor
<1>1. IInv => RowsAreAccountedFor
  BY DEF IInv
<1> QED BY <1>1, RegistryInvariant, PTL

\* save_room, save_player_score: once its saves have returned, a room with
\* people in it is in the database with all their scores, at most a round behind.
THEOREM RoomStored == Spec => []RoomIsStored
<1>1. IInv => RoomIsStored
  <2> SUFFICES ASSUME IInv, exists, members # {}, ~mixed, Quiet
               PROVE  row.there /\ members \subseteq saved /\ row.round \in {round, round - 1}
    BY DEF RoomIsStored
  <2>1. writes = {} /\ \A p \in members : at[p] \notin {"saving", "scoring"}
    BY DEF Quiet, IInv, Values
  <2>2. members \subseteq saved
    BY <2>1 DEF IInv, MembersSaved
  <2>3. row.there /\ (row.round = round \/ row.round + 1 = round)
    BY DEF Quiet, IInv, RowSaved
  <2> QED BY <2>2, <2>3 DEF IInv, Values
<1> QED BY <1>1, RegistryInvariant, PTL
=============================================================================
