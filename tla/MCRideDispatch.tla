--------------------------- MODULE MCRideDispatch ---------------------------
(***************************************************************************)
(* Small instances of RideDispatch.  Rides, detailers, calls and processes  *)
(* are interchangeable in the safety run that names no one of them.         *)
(***************************************************************************)
EXTENDS RideDispatch, TLC

Interchangeable ==
  Permutations(Rides) \union Permutations(Detailers) \union Permutations(Requests)
    \union Permutations(Processes)
=============================================================================
