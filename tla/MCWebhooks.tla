---------------------------- MODULE MCWebhooks ----------------------------
(***************************************************************************)
(* Small instances of Webhooks.  The cards and the provider profile share  *)
(* nothing but the deliveries, so each behaviour takes one of them.        *)
(***************************************************************************)
EXTENDS Webhooks

VARIABLE part

mcVars == <<part, webhookVars>>

MCInit == part \in {"cards", "identity"} /\ WebhookInit

MCNext ==
  /\ part' = part
  /\ WebhookNext
  /\ part = "cards" => UNCHANGED profileVars /\ Len(stripe') <= 3
  /\ part = "identity" => UNCHANGED cardVars /\ Len(stripe') <= 2

\* A delivery that can take a step takes it in the end: Stripe tries again, and
\* a transaction that waits for a row gets its turn.  So do the user's own
\* transactions once they have begun.
MCSpec ==
  /\ MCInit
  /\ [][MCNext]_mcVars
  /\ \A h \in Deliveries : SF_webhookVars(DeliveryStep(h))
  /\ \A u \in Users : SF_webhookVars(UserStep(u) /\ cardTxn[u].pc # "idle")
=============================================================================
