------------------------------- MODULE Cards -------------------------------
(***************************************************************************)
(* The saved cards of one user: the local mirror of the payment methods    *)
(* attached to the user's Stripe customer.  The user sets a default and    *)
(* deletes cards; cards appear, come back and disappear with the events    *)
(* Webhooks delivers.                                                      *)
(***************************************************************************)
CONSTANTS CardIds, CardCallers, NoCard, Unwritten

VARIABLES cards, cardTxn, cardsOverlap,   \* see DefaultFlag
          attached,     \* the cards attached to the customer at Stripe
          orphaned      \* a default was detached, or a card came back: the code
                        \* promotes nobody then

cardVars == <<cards, cardTxn, cardsOverlap, attached, orphaned>>

Mirror == INSTANCE DefaultFlagProofs
            WITH Rows <- CardIds, Callers <- CardCallers, NoRow <- NoCard,
                 Keep <- Unwritten, table <- cards, txn <- cardTxn,
                 overlapped <- cardsOverlap

ASSUME CardsAssumption == Mirror!Marks

CardInit == Mirror!Init /\ attached = {} /\ orphaned = FALSE

ActiveCards == { p \in CardIds : cards[p] # NoCard /\ ~ cards[p].deleted }

-----------------------------------------------------------------------------
(* PATCH /payment-methods/{id}/default *)

ReadDefaultTarget(c) ==
  /\ \E p \in CardIds : Mirror!ReadForDefault(c, p)
  /\ UNCHANGED <<attached, orphaned>>

PivotDefault(c) == Mirror!Pivot(c) /\ UNCHANGED <<attached, orphaned>>

-----------------------------------------------------------------------------
(* DELETE /payment-methods/{id}: the local row first, then Stripe *)

ReadCardToDelete(c) ==
  /\ \E p \in CardIds : Mirror!ReadForDelete(c, p)
  /\ UNCHANGED <<attached, orphaned>>

SoftDeleteCard(c) == Mirror!SoftDelete(c) /\ UNCHANGED <<attached, orphaned>>

ReplaceDefault(c) ==
  /\ Mirror!PickReplacement(c) \/ Mirror!Promote(c)
  /\ UNCHANGED <<attached, orphaned>>

\* The commit of a route's transaction.  A deletion has called Stripe's detach
\* before; an adapter error leaves the card attached and is only logged.
CommitCard(c, event) ==
  /\ Mirror!Commit(c)
  /\ cardTxn[c].deleting \/ event = {}
  /\ event \subseteq attached \intersect {cardTxn[c].row}
  /\ attached' = attached \ event
  /\ UNCHANGED orphaned

-----------------------------------------------------------------------------
(* upsert_from_snapshot and mark_detached_by_stripe_id *)

\* get_by_stripe_id, whatever its soft-delete status.
ReadSnapshot(c, p) ==
  /\ Mirror!Begin(c, IF cards[p] = NoCard THEN "new" ELSE "existing", p,
                  cards[p] # NoCard /\ cards[p].deleted)
  /\ UNCHANGED <<attached, orphaned>>

\* Variant: the first card is not made the default.
InsertPlain(c) ==
  /\ cardTxn[c].pc = "new"
  /\ Mirror!Write(c, cardTxn[c].row, [deleted |-> FALSE, default |-> FALSE], "done")
  /\ UNCHANGED <<attached, orphaned>>

\* The first active card is the default.  Another delivery may have inserted the
\* row since: the unique stripe_payment_method_id then ends this one.
InsertCard(c) ==
  LET p == cardTxn[c].row
  IN /\ cardTxn[c].pc = "new"
     /\ \/ /\ Mirror!Unlocked(c, {p}) /\ cards[p] # NoCard
           /\ Mirror!Rollback(c)
        \/ /\ cards[p] = NoCard
           /\ Mirror!Write(c, p, [deleted |-> FALSE, default |-> Mirror!Active(c) = {}], "done")
     /\ UNCHANGED <<attached, orphaned>>

\* The card's details; a row that was read as soft-deleted is revived, with
\* the default flag it has.
UpdateCard(c) ==
  LET p == cardTxn[c].row
  IN /\ cardTxn[c].pc = "existing"
     /\ Mirror!Write(c, p, IF cardTxn[c].flag THEN [cards[p] EXCEPT !.deleted = FALSE]
                                              ELSE cards[p], "done")
     /\ orphaned' = (orphaned \/ cardTxn[c].flag)
     /\ UNCHANGED attached

\* Variant: the default card is spared.
DetachUnlessDefault(c) ==
  LET p == cardTxn[c].row
  IN /\ cardTxn[c].pc = "detach"
     /\ Mirror!Unlocked(c, {p})
     /\ IF p \in Mirror!Active(c) /\ ~ cards[p].default
        THEN Mirror!Write(c, p, [deleted |-> TRUE, default |-> FALSE], "done")
        ELSE Mirror!Goto(c, "done")
     /\ UNCHANGED <<attached, orphaned>>

\* soft_delete_by_stripe_id: one UPDATE, and no replacement for a default.
BeginDetach(c, p) == Mirror!Begin(c, "detach", p, FALSE) /\ UNCHANGED <<attached, orphaned>>

DetachCard(c) ==
  LET p == cardTxn[c].row
  IN /\ cardTxn[c].pc = "detach"
     /\ Mirror!Unlocked(c, {p})
     /\ IF p \in Mirror!Active(c)
        THEN Mirror!Write(c, p, [deleted |-> TRUE, default |-> FALSE], "done")
        ELSE Mirror!Goto(c, "done")
     /\ orphaned' = (orphaned \/ Mirror!IsDefault(cards[p]))
     /\ UNCHANGED attached

\* An exception, a deadlock broken by PostgreSQL, the end of the process.
AbortCard(c) ==
  /\ cardTxn[c].pc # "idle"
  /\ Mirror!Rollback(c)
  /\ UNCHANGED <<attached, orphaned>>

-----------------------------------------------------------------------------

\* First card, set_default and delete keep a default among the active cards,
\* however the deliveries of Stripe interleave with each other and with a change
\* of default; a deletion that meets another call, a detached default and a card
\* that comes back are excepted.
CardDefaultKept == ~ cardsOverlap /\ ~ orphaned => Mirror!HasDefault

=============================================================================
