------------------------------ MODULE MCPayment ------------------------------
(***************************************************************************)
(* Small instances of Payment: two overlapping calls, which an appointment *)
(* may take again and again, and a price of two units, so that a part can  *)
(* be refunded and the final price can lie below or above the estimate.    *)
(***************************************************************************)
EXTENDS Payment, TLC

Interchangeable == Permutations(Calls)
=============================================================================
