------------------------------ MODULE OnceOnly ------------------------------
(***************************************************************************)
(* What the deduplication of webhooks promises: an event is recorded as    *)
(* processed in the same step as its effect, if it has one, and never has  *)
(* a second one.  Webhooks implements this.                                *)
(***************************************************************************)
EXTENDS Naturals

CONSTANT Events

VARIABLES processed,   \* events with a committed row in processed_webhooks
          effects      \* how many committed effects each event has had

Init == processed = {} /\ effects = [e \in Events |-> 0]

Process(e) ==
  /\ e \notin processed
  /\ processed' = processed \union {e}
  /\ \/ UNCHANGED effects
     \/ effects' = [effects EXCEPT ![e] = @ + 1]

Next == \E e \in Events : Process(e)

Spec == Init /\ [][Next]_<<processed, effects>>

=============================================================================
