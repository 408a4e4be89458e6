----------------------------- MODULE Addresses -----------------------------
(***************************************************************************)
(* The address book of one user, /api/v1/users/me/addresses: create with   *)
(* geocoding and an optional default, update with a new pin, set default,  *)
(* delete with promotion of a replacement.                                 *)
(***************************************************************************)
CONSTANTS AddressIds, AddressCallers,
          Lines, Cities,     \* the fields an address is found by
          NewPlaces,         \* where new addresses lie: pairs of line and city
          Moving,            \* the addresses updates are aimed at
          NoAddress, Untouched, NoPin

VARIABLES addresses, addressTxn, addressesOverlap,   \* see DefaultFlag
          place,     \* street line, city and pin of each address
          edit,      \* columns an open update is about to write
          mixed      \* addresses that two updates changed at once

addressVars == <<addresses, addressTxn, addressesOverlap, place, edit, mixed>>

Book == INSTANCE DefaultFlagProofs
          WITH Rows <- AddressIds, Callers <- AddressCallers, NoRow <- NoAddress,
               Keep <- Untouched, table <- addresses, txn <- addressTxn,
               overlapped <- addressesOverlap

Places == [line : Lines, city : Cities, pin : (Lines \X Cities) \union {NoPin}]
Edits  == [line : Lines \union {Untouched}, city : Cities \union {Untouched},
           pin : (Lines \X Cities) \union {NoPin, Untouched}]

ASSUME AddressAssumption ==
  /\ Book!Marks /\ NoAddress \notin AddressIds \union Edits
  /\ NewPlaces \subseteq Lines \X Cities
  /\ Untouched \notin Lines \union Cities \union (Lines \X Cities) \union {NoPin}

\* The geocoding adapter answers, finds nothing or fails; h3_index_r9 follows.
Geocode(line, city) == {<<line, city>>, NoPin}

AddressInit ==
  /\ Book!Init
  /\ place = [a \in AddressIds |-> NoAddress]
  /\ edit = [c \in AddressCallers |-> NoAddress]
  /\ mixed = {}

\* A statement that fails ends the transaction, and with it the edit.
EndsEdit(c) ==
  edit' = IF addressTxn'[c].pc = "idle" THEN [edit EXCEPT ![c] = NoAddress] ELSE edit

-----------------------------------------------------------------------------
(* create *)

\* The coverage gate and the geocoding, up to the first write.
BeginCreate(c) ==
  /\ \E a \in AddressIds, wanted \in BOOLEAN, p \in NewPlaces :
       /\ addresses[a] = NoAddress
       /\ \A d \in AddressCallers : addressTxn[d].row # a
       /\ \E pin \in Geocode(p[1], p[2]) :
            edit' = [edit EXCEPT ![c] = [line |-> p[1], city |-> p[2], pin |-> pin]]
       /\ Book!Begin(c, IF wanted THEN "clear" ELSE "count", a, wanted)
  /\ UNCHANGED <<place, mixed>>

\* clear_default, only when the body asks for the default.
ClearDefault(c) ==
  LET defaults == { a \in AddressIds : Book!IsDefault(Book!View(c, a)) }
  IN /\ addressTxn[c].pc = "clear"
     /\ Book!Unlocked(c, defaults)
     /\ addressTxn' = [addressTxn EXCEPT ![c].pc = "count", ![c].writes =
          [a \in AddressIds |-> IF a \in defaults THEN [deleted |-> FALSE, default |-> FALSE]
                                                  ELSE @[a]]]
     /\ UNCHANGED <<addresses, addressesOverlap, place, edit, mixed>>

\* Variant: the first address is not made the default.
InsertAsAsked(c) ==
  /\ addressTxn[c].pc = "count"
  /\ Book!Write(c, addressTxn[c].row, [deleted |-> FALSE, default |-> addressTxn[c].flag], "done")
  /\ EndsEdit(c)
  /\ UNCHANGED <<place, mixed>>

\* count_active and the INSERT: the first address is the default anyway.
InsertAddress(c) ==
  /\ addressTxn[c].pc = "count"
  /\ Book!Write(c, addressTxn[c].row,
       [deleted |-> FALSE, default |-> addressTxn[c].flag \/ Book!Active(c) = {}], "done")
  /\ EndsEdit(c)
  /\ UNCHANGED <<place, mixed>>

-----------------------------------------------------------------------------
(* update *)

\* Variant: the pin is left where it was.
BeginMoveWithoutPin(c, a, e) ==
  /\ edit' = [edit EXCEPT ![c] = [e EXCEPT !.pin = Untouched]]
  /\ UNCHANGED mixed
  /\ Book!Begin(c, "edited", a, FALSE)

\* get_or_404, the new fields and their geocoding: the pin is computed from the
\* whole row as it was read, only the changed columns are written.
BeginMove(c, a, e) ==
  /\ edit' = [edit EXCEPT ![c] = e]
  /\ mixed' = IF \E d \in AddressCallers \ {c} : addressTxn[d].row = a /\ edit[d] # NoAddress
              THEN mixed \union {a} ELSE mixed
  /\ Book!Begin(c, "edited", a, FALSE)

BeginUpdate(c) ==
  /\ addressTxn[c].pc = "idle"
  /\ \E a \in Book!Active(c) \intersect Moving :
       \/ \E line \in Lines \ {place[a].line} : \E pin \in Geocode(line, place[a].city) :
            BeginMove(c, a, [line |-> line, city |-> Untouched, pin |-> pin])
       \/ \E city \in Cities \ {place[a].city} : \E pin \in Geocode(place[a].line, city) :
            BeginMove(c, a, [line |-> Untouched, city |-> city, pin |-> pin])
  /\ UNCHANGED place

\* The flush: an UPDATE by primary key, also of a row deleted since the read.
FlushUpdate(c) ==
  /\ addressTxn[c].pc = "edited"
  /\ Book!Write(c, addressTxn[c].row, Book!View(c, addressTxn[c].row), "done")
  /\ EndsEdit(c)
  /\ UNCHANGED <<place, mixed>>

-----------------------------------------------------------------------------
(* set_default, delete, commit *)

SetDefaultAddress(c) ==
  /\ \/ \E a \in AddressIds : Book!ReadForDefault(c, a)
     \/ Book!Pivot(c)
  /\ UNCHANGED <<place, edit, mixed>>

DeleteAddress(c) ==
  /\ \/ \E a \in AddressIds : Book!ReadForDelete(c, a)
     \/ Book!SoftDelete(c) \/ Book!PickReplacement(c) \/ Book!Promote(c)
  /\ UNCHANGED <<place, edit, mixed>>

\* The route's db.commit().
CommitAddress(c) ==
  LET a == addressTxn[c].row  e == edit[c]
      new(column) == IF e[column] = Untouched THEN place[a][column] ELSE e[column]
  IN /\ Book!Commit(c)
     /\ place' = IF e = NoAddress THEN place
                 ELSE [place EXCEPT ![a] = [line |-> new("line"), city |-> new("city"),
                                            pin |-> new("pin")]]
     /\ edit' = [edit EXCEPT ![c] = NoAddress]
     /\ UNCHANGED mixed

\* An exception, a deadlock broken by PostgreSQL, the end of the process.
AbortAddress(c) ==
  /\ addressTxn[c].pc # "idle"
  /\ Book!Rollback(c)
  /\ edit' = [edit EXCEPT ![c] = NoAddress]
  /\ UNCHANGED <<place, mixed>>

AddressNext ==
  \E c \in AddressCallers :
    \/ BeginCreate(c) \/ ClearDefault(c) \/ InsertAddress(c)
    \/ BeginUpdate(c) \/ FlushUpdate(c)
    \/ SetDefaultAddress(c) \/ DeleteAddress(c)
    \/ CommitAddress(c) \/ AbortAddress(c)

AddressSpec == AddressInit /\ [][AddressNext]_addressVars

-----------------------------------------------------------------------------
(* Properties *)

\* What address_service.py promises, whatever geocoding and the database refuse:
\* a user with an address has a default one, as long as no deletion meets
\* another call, and an address's pin is the one of its street and city, unless
\* two updates changed them at once.
AddressBookConsistent ==
  /\ ~ addressesOverlap => Book!HasDefault
  /\ \A a \in AddressIds \ mixed : place[a] # NoAddress =>
       place[a].pin \in {NoPin, <<place[a].line, place[a].city>>}

-----------------------------------------------------------------------------
(* The inductive invariant behind them *)

\* The row of an address that is being created is nobody else's, and nobody else has
\* inserted it; what a transaction holds is in the table or its own new row.
Fresh(c) ==
  /\ addressTxn[c].pc = "clear" => addressTxn[c].flag
  /\ addressTxn[c].pc \in {"clear", "count"} =>
       /\ addressTxn[c].row \in AddressIds /\ addresses[addressTxn[c].row] = NoAddress
       /\ edit[c] # NoAddress
       /\ \A d \in AddressCallers : addressTxn[c].row \notin Book!Held(d)
       /\ \A d \in AddressCallers \ {c} : addressTxn[d].row # addressTxn[c].row
  /\ \A a \in Book!Held(c) : addresses[a] = NoAddress =>
       a = addressTxn[c].row /\ edit[c] # NoAddress

\* The column an edit leaves of the row as it is.
Left(c, column) == IF edit[c][column] = Untouched THEN place[addressTxn[c].row][column]
                                                  ELSE edit[c][column]

\* An edit will leave its row with the pin of its place, unless another edit of the row
\* is open.
Editing(c) ==
  edit[c] # NoAddress =>
    /\ addressTxn[c].pc \in {"clear", "count", "edited", "done"} /\ addressTxn[c].row \in AddressIds
    /\ Left(c, "line") \in Lines /\ Left(c, "city") \in Cities
    /\ addressTxn[c].row \notin mixed =>
         /\ Left(c, "pin") \in {NoPin, <<Left(c, "line"), Left(c, "city")>>}
         /\ \A d \in AddressCallers \ {c} :
              edit[d] # NoAddress => addressTxn[d].row # addressTxn[c].row

Pinned(a) ==
  /\ addresses[a] # NoAddress => place[a].line \in Lines /\ place[a].city \in Cities
  /\ place[a] # NoAddress /\ a \notin mixed =>
       place[a].pin \in {NoPin, <<place[a].line, place[a].city>>}

BookInv ==
  /\ Book!FlagInv
  /\ ~ addressesOverlap => Book!DefaultHeld
  /\ DOMAIN edit = AddressCallers /\ DOMAIN place = AddressIds
  /\ \A c \in AddressCallers : Fresh(c) /\ Editing(c)
  /\ \A a \in AddressIds : Pinned(a)

=============================================================================
