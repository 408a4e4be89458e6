------------------------------ MODULE Locations ------------------------------
(***************************************************************************)
(* Where one detailer is: the stream of updates, the position last pushed, *)
(* the H3 cell sets the search reads and the columns of the profile.  Each *)
(* process has a location_worker that reads the whole stream, one message  *)
(* at a time and without a consumer group; every Redis command and the     *)
(* UPDATE of the profile are steps of their own.                           *)
(***************************************************************************)
EXTENDS Integers, Sequences, FiniteSets

CONSTANTS Positions,       \* positions
          CellOf,       \* the H3 cell (resolution 7) of a position
          Close,        \* pairs nearer than FIREBALL_DISTANCE_METERS, same heading
          LocationWorkers,
          MaxUpdates,   \* bound on the messages of a behaviour
          Nowhere

ASSUME LocationsAssumption ==
  /\ MaxUpdates \in Nat /\ Close \subseteq Positions \X Positions
  /\ Nowhere \notin Positions

VARIABLES unread,       \* messages a worker has still to read
          posted,       \* how many messages were posted
          lastPush,     \* last_push:{detailer}
          cells,        \* the cell sets that hold the detailer
          active,       \* active:{detailer}
          column,       \* current position and cell in the profile
          work,         \* what each worker is doing
          cutShort,     \* an update stopped half-way
          parallel      \* two workers have handled messages at one time

locationVars == <<unread, posted, lastPush, cells, active, column, work, cutShort, parallel>>

AtRest == [at |-> "rest"]

LocationInit ==
  /\ unread = [w \in LocationWorkers |-> <<>>] /\ posted = 0
  /\ lastPush = Nowhere /\ cells = {} /\ active = FALSE
  /\ column = [place |-> Nowhere, cell |-> Nowhere]
  /\ work = [w \in LocationWorkers |-> AtRest]
  /\ cutShort = FALSE /\ parallel = FALSE

\* POST /detailers/location.
PostLocation(p) ==
  /\ posted < MaxUpdates
  /\ posted' = posted + 1
  /\ unread' = [w \in LocationWorkers |-> Append(unread[w], p)]
  /\ UNCHANGED <<lastPush, cells, active, column, work, cutShort, parallel>>

\* A WebSocket message writes the position and leaves the cell alone.
PersistSocketLocation(p) ==
  /\ column' = [column EXCEPT !.place = p]
  /\ UNCHANGED <<unread, posted, lastPush, cells, active, work, cutShort, parallel>>

\* _process up to its early return: a small move only refreshes active.
TakeUpdate(w) ==
  /\ work[w] = AtRest /\ unread[w] # <<>>
  /\ unread' = [unread EXCEPT ![w] = Tail(@)]
  /\ parallel' = (parallel \/ \E v \in LocationWorkers \ {w} : work[v] # AtRest)
  /\ IF lastPush # Nowhere /\ <<lastPush, Head(unread[w])>> \in Close
     THEN active' = TRUE /\ UNCHANGED work
     ELSE /\ work' = [work EXCEPT ![w] = [at |-> "push", to |-> Head(unread[w]), from |-> lastPush]]
          /\ UNCHANGED active
  /\ UNCHANGED <<posted, lastPush, cells, column, cutShort>>

PushPosition(w) ==
  /\ work[w].at = "push"
  /\ lastPush' = work[w].to
  /\ work' = [work EXCEPT ![w].at = "leave"]
  /\ UNCHANGED <<unread, posted, cells, active, column, cutShort, parallel>>

\* Variant: the old cell keeps the detailer.
StayInOldCell(w) ==
  /\ work[w].at = "leave"
  /\ work' = [work EXCEPT ![w].at = "enter"]
  /\ UNCHANGED <<unread, posted, lastPush, cells, active, column, cutShort, parallel>>

\* update_h3_index: SREM if the cell changes ...
LeaveOldCell(w) ==
  /\ work[w].at = "leave"
  /\ cells' = IF work[w].from # Nowhere /\ CellOf[work[w].from] # CellOf[work[w].to]
              THEN cells \ {CellOf[work[w].from]} ELSE cells
  /\ work' = [work EXCEPT ![w].at = "enter"]
  /\ UNCHANGED <<unread, posted, lastPush, active, column, cutShort, parallel>>

\* ... SADD and SETEX ...
EnterNewCell(w) ==
  /\ work[w].at = "enter"
  /\ cells' = cells \union {CellOf[work[w].to]}
  /\ active' = TRUE
  /\ work' = [work EXCEPT ![w].at = "save"]
  /\ UNCHANGED <<unread, posted, lastPush, column, cutShort, parallel>>

\* ... and the profile.
SavePosition(w) ==
  /\ work[w].at = "save"
  /\ column' = [place |-> work[w].to, cell |-> CellOf[work[w].to]]
  /\ work' = [work EXCEPT ![w] = AtRest]
  /\ UNCHANGED <<unread, posted, lastPush, cells, active, cutShort, parallel>>

\* An error of Redis or the database: the rest of the update is skipped.
UpdateFails(w) ==
  /\ work[w] # AtRest
  /\ work' = [work EXCEPT ![w] = AtRest]
  /\ cutShort' = (cutShort \/ work[w].at # "push")
  /\ UNCHANGED <<unread, posted, lastPush, cells, active, column, parallel>>

\* The process starts anew and reads the stream from its end.
WorkerRestarts(w) ==
  /\ unread' = [unread EXCEPT ![w] = <<>>]
  /\ work' = [work EXCEPT ![w] = AtRest]
  /\ cutShort' = (cutShort \/ work[w].at \notin {"rest", "push"})
  /\ UNCHANGED <<posted, lastPush, cells, active, column, parallel>>

\* DETAILER_ACTIVE_TTL_SECONDS without an update.
ActiveExpires ==
  /\ active
  /\ active' = FALSE
  /\ UNCHANGED <<unread, posted, lastPush, cells, column, work, cutShort, parallel>>

\* find_nearby_detailers: active members of the cells around the client.
Found(around) == active /\ cells \intersect around # {}

-----------------------------------------------------------------------------

LocationNext ==
  \/ ActiveExpires
  \/ \E p \in Positions : PostLocation(p) \/ PersistSocketLocation(p)
  \/ \E w \in LocationWorkers :
       \/ TakeUpdate(w) \/ PushPosition(w) \/ LeaveOldCell(w) \/ EnterNewCell(w)
       \/ SavePosition(w) \/ UpdateFails(w) \/ WorkerRestarts(w)

LocationSpec == LocationInit /\ [][LocationNext]_locationVars

-----------------------------------------------------------------------------
(* Properties *)

\* Between two updates the detailer is found around the position last pushed
\* and nowhere else, and the profile's cell is that position's, after any
\* sequence of moves, dropped messages and restarts; an update that was cut
\* short after the push, or two processes at one time, can leave it in an old
\* cell or in none.
FoundWhereItIs ==
  (\A w \in LocationWorkers : work[w] = AtRest) /\ ~ cutShort /\ ~ parallel =>
    /\ cells = IF lastPush = Nowhere THEN {} ELSE {CellOf[lastPush]}
    /\ lastPush # Nowhere => column.cell = CellOf[lastPush]
    /\ \A c \in { CellOf[p] : p \in Positions } :
         Found({c}) => lastPush # Nowhere /\ c = CellOf[lastPush]

-----------------------------------------------------------------------------
(* The inductive invariant behind it *)

WorkRows == [at : {"push", "leave", "enter", "save"}, to : Positions,
             from : Positions \union {Nowhere}]

LocationTypes ==
  /\ unread \in [LocationWorkers -> Seq(Positions)]
  /\ work \in [LocationWorkers -> {AtRest} \union WorkRows]
  /\ lastPush \in Positions \union {Nowhere}
  /\ column \in [place : Positions \union {Nowhere},
                 cell : { CellOf[p] : p \in Positions } \union {Nowhere}]

CellsOf(p) == IF p = Nowhere THEN {} ELSE {CellOf[p]}

\* How far an update has come, alone and without an error.
Underway(w) ==
  LET u == work[w]
  IN /\ u.at = "push" => u.from = lastPush
     /\ u.at \in {"leave", "enter", "save"} => lastPush = u.to
     /\ u.at = "leave" => cells = CellsOf(u.from)
     /\ u.at = "enter" => cells \subseteq {CellOf[u.to]}
     /\ u.at = "save" => cells = {CellOf[u.to]}

Settled ==
  /\ cells = CellsOf(lastPush)
  /\ lastPush # Nowhere => column.cell = CellOf[lastPush]

LocationInv ==
  /\ LocationTypes
  /\ ~ parallel => \A v, w \in LocationWorkers : work[v] # AtRest /\ work[w] # AtRest => v = w
  /\ ~ parallel /\ ~ cutShort =>
       /\ \A w \in LocationWorkers : Underway(w)
       /\ (\A w \in LocationWorkers : work[w].at \in {"rest", "push"}) => Settled

=============================================================================
