------------------------------ MODULE Choices ------------------------------
(***************************************************************************)
(* What one client keeps for the next booking: pinned providers, vehicles  *)
(* and the preferences row with its defaults.  Pins and preferences leave  *)
(* an audit entry in the transaction that changes them.                    *)
(***************************************************************************)
EXTENDS Integers, FiniteSets

CONSTANTS Pinnable,         \* the providers
          VehicleIds, Plates,
          ChoiceCalls,      \* the requests in flight
          Frequencies,      \* the other columns of the preferences row
          MaxPins,          \* audit entries per provider and direction
          NoVehicle         \* no row, and the NULL default

ASSUME ChoicesAssumption ==
  NoVehicle \notin VehicleIds \union [plate : Plates, deleted : BOOLEAN]

VARIABLES profiles,      \* how many provider profiles each of them has
          pins,          \* client_favorites
          pinAudit,      \* FAVORITE_ADDED and FAVORITE_REMOVED entries
          vehicles,      \* the rows, deleted ones included
          preferences,   \* the row of client_profiles
          trail,         \* new_value of the last PROFILE_UPDATED entry
          crossed,       \* two open PUTs saw the same row
          choiceTxn

choiceVars == <<profiles, pins, pinAudit, vehicles, preferences, trail, crossed, choiceTxn>>

Free == [op |-> "idle"]

ChoiceInit ==
  /\ profiles = [p \in Pinnable |-> 1]
  /\ pins = {}
  /\ pinAudit = [p \in Pinnable |-> [added |-> 0, removed |-> 0]]
  /\ vehicles = [v \in VehicleIds |-> NoVehicle]
  /\ preferences \in [vehicle : {NoVehicle}, frequency : Frequencies]
  /\ trail = preferences
  /\ crossed = FALSE
  /\ choiceTxn = [c \in ChoiceCalls |-> Free]

Live == { v \in VehicleIds : vehicles[v] # NoVehicle /\ ~ vehicles[v].deleted }

\* Open transactions of others that wrote the pin of p, or the row.
PinHeld(c, p, ops) ==
  \E d \in ChoiceCalls \ {c} :
    choiceTxn[d].op \in ops /\ choiceTxn[d].of = p /\ choiceTxn[d].landed
RowHeld(c) == \E d \in ChoiceCalls \ {c} : choiceTxn[d].op = "put"

-----------------------------------------------------------------------------
(* /users/me/favorites *)

\* add_favorite reads the profile with scalar_one_or_none: two are an error.
CheckProvider(c, p) ==
  /\ choiceTxn[c] = Free
  /\ profiles[p] = 1
  /\ choiceTxn' = [choiceTxn EXCEPT ![c] = [op |-> "checked", of |-> p]]
  /\ UNCHANGED <<profiles, pins, pinAudit, vehicles, preferences, trail, crossed>>

\* INSERT ... ON CONFLICT DO NOTHING waits for whoever writes the same key.
InsertPin(c) ==
  LET p == choiceTxn[c].of IN
  /\ choiceTxn[c].op = "checked" /\ ~ PinHeld(c, p, {"add", "remove"})
  /\ choiceTxn' = [choiceTxn EXCEPT ![c] = [op |-> "add", of |-> p, landed |-> p \notin pins]]
  /\ UNCHANGED <<profiles, pins, pinAudit, vehicles, preferences, trail, crossed>>

\* A DELETE waits for another one, and does not see an open insert.
RemovePin(c, p) ==
  /\ choiceTxn[c] = Free /\ ~ PinHeld(c, p, {"remove"})
  /\ choiceTxn' = [choiceTxn EXCEPT ![c] = [op |-> "remove", of |-> p, landed |-> p \in pins]]
  /\ UNCHANGED <<profiles, pins, pinAudit, vehicles, preferences, trail, crossed>>

\* The audit entry is written when a row was.
Logged(landed) == IF landed THEN 1 ELSE 0

\* Variant: an entry for every request.
LoggedAlways(landed) == 1

CountPin(landed) == Logged(landed)

CommitPin(c) ==
  LET t == choiceTxn[c] IN
  /\ t.op \in {"add", "remove"}
  /\ LET n == CountPin(t.landed) IN
     /\ IF t.op = "add"
          THEN /\ pins' = IF t.landed THEN pins \union {t.of} ELSE pins
               /\ pinAudit' = [pinAudit EXCEPT ![t.of].added = @ + n]
               /\ choiceTxn' = [choiceTxn EXCEPT ![c] = [op |-> "reread", of |-> t.of]]
          ELSE /\ pins' = IF t.landed THEN pins \ {t.of} ELSE pins
               /\ pinAudit' = [pinAudit EXCEPT ![t.of].removed = @ + n]
               /\ choiceTxn' = [choiceTxn EXCEPT ![c] = Free]
     /\ pinAudit'[t.of].added <= MaxPins
  /\ UNCHANGED <<profiles, vehicles, preferences, trail, crossed>>

\* The answer is looked up in list_for_user: a pin removed meanwhile is an
\* error there (next() of nothing), after the commit.
AnswerPin(c) ==
  /\ choiceTxn[c].op = "reread"
  /\ choiceTxn' = [choiceTxn EXCEPT ![c] = Free]
  /\ UNCHANGED <<profiles, pins, pinAudit, vehicles, preferences, trail, crossed>>

\* The provider opens a second profile, of another type.
OpenSecondProfile(p) ==
  /\ profiles[p] = 1
  /\ profiles' = [profiles EXCEPT ![p] = 2]
  /\ UNCHANGED <<pins, pinAudit, vehicles, preferences, trail, crossed, choiceTxn>>

-----------------------------------------------------------------------------
(* /vehicles: each one commits at once *)

\* uq_vehicle_owner_plate holds for deleted rows too.
PlateFree(v, plate) ==
  \A w \in VehicleIds \ {v} : vehicles[w] # NoVehicle => vehicles[w].plate # plate

CreateVehicle(v, plate) ==
  /\ vehicles[v] = NoVehicle /\ PlateFree(v, plate)
  /\ vehicles' = [vehicles EXCEPT ![v] = [plate |-> plate, deleted |-> FALSE]]
  /\ UNCHANGED <<profiles, pins, pinAudit, preferences, trail, crossed, choiceTxn>>

UpdateVehicle(v, plate) ==
  /\ v \in Live /\ PlateFree(v, plate)
  /\ vehicles' = [vehicles EXCEPT ![v].plate = plate]
  /\ UNCHANGED <<profiles, pins, pinAudit, preferences, trail, crossed, choiceTxn>>

\* The preferences that point at the vehicle are left alone.
DeleteVehicle(v) ==
  /\ v \in Live
  /\ vehicles' = [vehicles EXCEPT ![v].deleted = TRUE]
  /\ UNCHANGED <<profiles, pins, pinAudit, preferences, trail, crossed, choiceTxn>>

-----------------------------------------------------------------------------
(* PUT /users/me/client-preferences *)

\* The row, then the check that the vehicle is one of the caller's.
ReadPreferences(c, body) ==
  /\ choiceTxn[c] = Free
  /\ body.vehicle \in Live \union {NoVehicle}
  /\ choiceTxn' = [choiceTxn EXCEPT ![c] =
       [op |-> "read", body |-> body, loaded |-> preferences]]
  /\ crossed' = (crossed \/ \E d \in ChoiceCalls \ {c} : choiceTxn[d].op \in {"read", "put"})
  /\ UNCHANGED <<profiles, pins, pinAudit, vehicles, preferences, trail>>

\* The flush writes the columns that differ from the row as loaded.
FlushPreferences(c) ==
  LET t == choiceTxn[c] IN
  /\ t.op = "read"
  /\ t.body # t.loaded => ~ RowHeld(c)
  /\ choiceTxn' = [choiceTxn EXCEPT ![c].op = "put"]
  /\ UNCHANGED <<profiles, pins, pinAudit, vehicles, preferences, trail, crossed>>

CommitPreferences(c) ==
  LET t == choiceTxn[c] IN
  /\ t.op = "put"
  /\ preferences' = [k \in DOMAIN preferences |->
                       IF t.body[k] # t.loaded[k] THEN t.body[k] ELSE preferences[k]]
  /\ trail' = t.body
  /\ choiceTxn' = [choiceTxn EXCEPT ![c] = Free]
  /\ UNCHANGED <<profiles, pins, pinAudit, vehicles, crossed>>

AbortChoice(c) ==
  /\ choiceTxn[c].op \in {"checked", "add", "remove", "read", "put"}
  /\ choiceTxn' = [choiceTxn EXCEPT ![c] = Free]
  /\ UNCHANGED <<profiles, pins, pinAudit, vehicles, preferences, trail, crossed>>

-----------------------------------------------------------------------------

PinNext ==
  \/ \E c \in ChoiceCalls :
       \/ InsertPin(c) \/ CommitPin(c) \/ AnswerPin(c) \/ AbortChoice(c)
       \/ \E p \in Pinnable : CheckProvider(c, p) \/ RemovePin(c, p)
  \/ \E p \in Pinnable : OpenSecondProfile(p)

PreferenceNext ==
  \/ \E c \in ChoiceCalls :
       \/ FlushPreferences(c) \/ CommitPreferences(c) \/ AbortChoice(c)
       \/ \E v \in VehicleIds \union {NoVehicle}, f \in Frequencies :
            ReadPreferences(c, [vehicle |-> v, frequency |-> f])
  \/ \E v \in VehicleIds :
       DeleteVehicle(v) \/ \E plate \in Plates : CreateVehicle(v, plate) \/ UpdateVehicle(v, plate)

ChoiceSpec == ChoiceInit /\ [][PinNext \/ PreferenceNext]_choiceVars

-----------------------------------------------------------------------------
(* Properties *)

\* "Caller can use the return value to decide between FAVORITE_ADDED (real new
\* pin) vs no audit": the entries of a provider tell whether it is pinned, and
\* the last preferences entry is the row, unless PUTs overlapped; a default is
\* a vehicle the client has or had.
ChoicesAudited ==
  /\ \A p \in Pinnable :
       pinAudit[p].added - pinAudit[p].removed = IF p \in pins THEN 1 ELSE 0
  /\ crossed \/ preferences = trail
  /\ preferences.vehicle # NoVehicle => vehicles[preferences.vehicle] # NoVehicle

-----------------------------------------------------------------------------
(* The inductive invariant behind it *)

PreferenceRows == [vehicle : VehicleIds \union {NoVehicle}, frequency : Frequencies]

ChoiceTypes ==
  /\ pins \subseteq Pinnable
  /\ pinAudit \in [Pinnable -> [added : Nat, removed : Nat]]
  /\ vehicles \in [VehicleIds -> {NoVehicle} \union [plate : Plates, deleted : BOOLEAN]]
  /\ preferences \in PreferenceRows
  /\ choiceTxn \in [ChoiceCalls ->
       {Free} \union [op : {"checked", "reread"}, of : Pinnable]
              \union [op : {"add", "remove"}, of : Pinnable, landed : BOOLEAN]
              \union [op : {"read", "put"}, body : PreferenceRows, loaded : PreferenceRows]]

\* A transaction that wrote a pin is the only one that did, and the pin is not
\* committed yet.
PinLanded(c) ==
  choiceTxn[c].op \in {"add", "remove"} /\ choiceTxn[c].landed =>
    /\ choiceTxn[c].of \in pins <=> choiceTxn[c].op = "remove"
    /\ ~ PinHeld(c, choiceTxn[c].of, {"add", "remove"})

\* A row or NULL.
Known(v) == v # NoVehicle => vehicles[v] # NoVehicle

PutFollows(c) ==
  choiceTxn[c].op \in {"read", "put"} =>
    /\ Known(choiceTxn[c].body.vehicle)
    /\ ~ crossed => /\ choiceTxn[c].loaded = preferences
                    /\ \A d \in ChoiceCalls \ {c} : choiceTxn[d].op \notin {"read", "put"}

ChoiceInv ==
  /\ ChoiceTypes
  /\ \A c \in ChoiceCalls : PinLanded(c) /\ PutFollows(c)
  /\ ChoicesAudited

=============================================================================
