---------------------------- MODULE DefaultFlag ----------------------------
(***************************************************************************)
(* The rows of one user in a table with a default row: user_addresses and  *)
(* payment_methods, whose repositories and services repeat each other      *)
(* ("Default-flip semantics mirror AddressService").  The table carries a  *)
(* partial unique index on user_id over the default rows that are not      *)
(* soft-deleted.  The statements run at READ COMMITTED: a writer keeps the *)
(* rows it has written locked until it commits or rolls back, and one that *)
(* would enter a second default into the index waits for the transaction   *)
(* that touches the first, then fails if that one is still there.          *)
(***************************************************************************)
CONSTANTS Rows,      \* rows the user may come to have
          Callers,   \* requests and webhook deliveries
          NoRow,     \* not in the table (yet)
          Keep       \* not written by the transaction

VARIABLES table,       \* committed rows
          txn,         \* the open transaction of each caller
          overlapped   \* a deletion was under way together with another call

flagVars == <<table, txn, overlapped>>

Flags == [deleted : BOOLEAN, default : BOOLEAN]

Idle == [pc |-> "idle", row |-> NoRow, flag |-> FALSE, pick |-> NoRow,
         deleting |-> FALSE, writes |-> [r \in Rows |-> Keep]]

Init == /\ table = [r \in Rows |-> NoRow]
        /\ txn = [c \in Callers |-> Idle]
        /\ overlapped = FALSE

\* What a statement of c sees: its own writes over what is committed.
View(c, r) == IF txn[c].writes[r] = Keep THEN table[r] ELSE txn[c].writes[r]
Active(c)  == { r \in Rows : View(c, r) # NoRow /\ ~ View(c, r).deleted }

IsDefault(v) == v \in Flags /\ v.default /\ ~ v.deleted

Held(c) == { r \in Rows : txn[c].writes[r] # Keep }
Unlocked(c, R) == \A d \in Callers \ {c} : Held(d) \intersect R = {}

\* No other open transaction adds, removes or rewrites the index entry.
IndexFree(c) ==
  \A d \in Callers \ {c} : \A r \in Held(d) :
    ~ IsDefault(table[r]) /\ ~ IsDefault(txn[d].writes[r])

OtherDefault(c, r) == \E q \in Rows \ {r} : IsDefault(View(c, q))

-----------------------------------------------------------------------------
(* Transactions *)

Begin(c, pc, r, flag) ==
  /\ txn[c].pc = "idle"
  /\ txn' = [txn EXCEPT ![c] = [Idle EXCEPT !.pc = pc, !.row = r, !.flag = flag,
                                      !.deleting = (pc = "found")]]
  /\ overlapped' = (overlapped \/ \E d \in Callers \ {c} :
                      /\ txn[d].pc # "idle"
                      /\ pc = "found" \/ txn[d].deleting)
  /\ UNCHANGED table

Goto(c, pc) ==
  /\ txn' = [txn EXCEPT ![c].pc = pc]
  /\ UNCHANGED <<table, overlapped>>

Rollback(c) ==
  /\ txn' = [txn EXCEPT ![c] = Idle]
  /\ UNCHANGED <<table, overlapped>>

Commit(c) ==
  /\ txn[c].pc = "done"
  /\ table' = [r \in Rows |-> View(c, r)]
  /\ txn' = [txn EXCEPT ![c] = Idle]
  /\ UNCHANGED overlapped

\* An INSERT or UPDATE of one row; a second default breaks the unique index.
Write(c, r, v, pc) ==
  LET enters == IsDefault(v) /\ ~ IsDefault(View(c, r))
  IN /\ Unlocked(c, {r})
     /\ enters => IndexFree(c)
     /\ \/ enters /\ OtherDefault(c, r) /\ Rollback(c)
        \/ /\ ~ (enters /\ OtherDefault(c, r))
           /\ txn' = [txn EXCEPT ![c].writes[r] = v, ![c].pc = pc]
           /\ UNCHANGED <<table, overlapped>>

-----------------------------------------------------------------------------
(* set_default *)

ReadForDefault(c, r) == r \in Active(c) /\ Begin(c, "target", r, FALSE)

\* set_default_atomic: one UPDATE over the active rows.  The index is checked
\* row by row, so the statement fails if it comes to the new default before the
\* old one.  A target deleted since the read makes the handler answer 404.
Pivot(c) ==
  LET target == txn[c].row
  IN /\ txn[c].pc = "target"
     /\ Unlocked(c, Active(c))
     /\ IndexFree(c)
     /\ \/ (target \notin Active(c) \/ OtherDefault(c, target)) /\ Rollback(c)
        \/ /\ target \in Active(c)
           /\ txn' = [txn EXCEPT ![c].pc = "done", ![c].writes =
                [r \in Rows |-> IF r \in Active(c)
                                THEN [deleted |-> FALSE, default |-> r = target] ELSE @[r]]]
           /\ UNCHANGED <<table, overlapped>>

-----------------------------------------------------------------------------
(* delete *)

\* get_or_404, with the snapshot of is_default.
ReadForDelete(c, r) == r \in Active(c) /\ Begin(c, "found", r, table[r].default)

\* UPDATE ... WHERE id = r AND NOT is_deleted; its row count is not looked at.
SoftDelete(c) ==
  LET r == txn[c].row
  IN /\ txn[c].pc = "found"
     /\ Unlocked(c, {r})
     /\ IF r \in Active(c) THEN Write(c, r, [deleted |-> TRUE, default |-> FALSE], "removed")
                           ELSE Goto(c, "removed")

\* Variant: a deleted default is not replaced.
PickNobody(c) == txn[c].pc = "removed" /\ Goto(c, "done")

\* first_active: some remaining row, if the deleted one was the default.
PickReplacement(c) ==
  LET others == Active(c) \ {txn[c].row}
  IN /\ txn[c].pc = "removed"
     /\ \/ (~ txn[c].flag \/ others = {}) /\ Goto(c, "done")
        \/ /\ txn[c].flag
           /\ \E r \in others :
                /\ txn' = [txn EXCEPT ![c].pick = r,
                             ![c].pc = IF View(c, r).default THEN "done" ELSE "picked"]
                /\ UNCHANGED <<table, overlapped>>

\* replacement.is_default = True: an UPDATE by primary key, of a row that may
\* have been deleted since it was picked.
Promote(c) ==
  LET r == txn[c].pick
  IN /\ txn[c].pc = "picked"
     /\ Unlocked(c, {r})
     /\ Write(c, r, [View(c, r) EXCEPT !.default = TRUE], "done")

-----------------------------------------------------------------------------

\* "so the user always has one": whoever has an active row has a default row.
HasDefault ==
  LET active == { r \in Rows : table[r] # NoRow /\ ~ table[r].deleted }
  IN active # {} => \E r \in active : table[r].default

-----------------------------------------------------------------------------
(* The inductive invariants behind it *)

Marks == Keep \notin Flags /\ NoRow \notin Flags

\* Where a request or a delivery may stand, here or in the modules of the two tables.
Points == {"idle", "target", "found", "removed", "picked", "done",
           "clear", "count", "edited", "new", "existing", "detach"}

Txns == [pc : Points, row : Rows \union {NoRow}, flag : BOOLEAN, pick : Rows \union {NoRow},
         deleting : BOOLEAN, writes : [Rows -> Flags \union {Keep}]]

\* What the row locks and the index guarantee.  No two transactions have written
\* the same row, committed rows and every transaction's view hold one default at
\* most, and beside one that writes a default nobody touches the index.
RowLocks == \A c, d \in Callers : c # d => Held(c) \intersect Held(d) = {}

SingleDefault ==
  /\ \A q, r \in Rows : IsDefault(table[q]) /\ IsDefault(table[r]) => q = r
  /\ \A c \in Callers : \A q, r \in Rows :
       IsDefault(View(c, q)) /\ IsDefault(View(c, r)) => q = r
  /\ \A c \in Callers : (\E r \in Rows : IsDefault(txn[c].writes[r])) => IndexFree(c)

\* The row a transaction goes by is there, and its first statement is to come.
Standing(c) ==
  /\ txn[c].pc = "picked" => txn[c].pick \in Rows /\ View(c, txn[c].pick) # NoRow
  /\ txn[c].pc \in {"existing", "edited"} => View(c, txn[c].row) # NoRow
  /\ txn[c].pc \in {"target", "found", "edited", "new", "existing", "detach"} =>
       txn[c].row \in Rows /\ Held(c) = {}

FlagInv ==
  /\ table \in [Rows -> Flags \union {NoRow}]
  /\ txn \in [Callers -> Txns]
  /\ \A c \in Callers : txn[c].pc = "idle" => txn[c] = Idle
  /\ \A c \in Callers : Standing(c)
  /\ RowLocks
  /\ SingleDefault

\* A transaction that has taken the default away and has yet to set another.
Owes(c) == \/ txn[c].pc = "removed" /\ txn[c].flag
           \/ txn[c].pc = "picked"
           \/ txn[c].pc = "count" /\ txn[c].flag

\* A default among the active rows, if there are any, as c sees them.
SeesDefault(c) == Active(c) # {} => \E r \in Active(c) : View(c, r).default

\* While no deletion meets another call, a transaction sees a default unless it
\* owes one, and only a deletion removes the committed default.
Provided(c) ==
  txn[c].pc # "idle" =>
    /\ txn[c].pc \in {"found", "removed", "picked"} => txn[c].deleting
    /\ ~ Owes(c) => SeesDefault(c)
    /\ ~ txn[c].deleting => \A r \in Held(c) : IsDefault(table[r]) => ~ txn[c].writes[r].deleted
    /\ txn[c].pc = "found" => /\ txn[c].row \in Active(c)
                              /\ txn[c].flag = View(c, txn[c].row).default
    /\ txn[c].pc = "removed" => txn[c].row \notin Active(c)
    /\ txn[c].pc = "picked" => txn[c].pick \in Active(c)

DefaultHeld ==
  /\ HasDefault
  /\ \A c, d \in Callers : c # d /\ txn[c].deleting => txn[d].pc = "idle"
  /\ \A c \in Callers : Provided(c)

=============================================================================
