----------------------------- MODULE MCBooking -----------------------------
(***************************************************************************)
(* Small instances of Booking and Slots.  Both detailers share one lock    *)
(* key in SharedKey, the collision _detailer_lock_key admits.  A day is    *)
(* three units long; in MidnightShift one detailer works from the middle of  *)
(* a UTC day to the middle of the next, the others from midnight to        *)
(* midnight.                                                               *)
(***************************************************************************)
EXTENDS Slots

OwnKey    == [d \in Detailers |-> d]
SharedKey == [d \in Detailers |-> CHOOSE k \in LockKeys : TRUE]

Nomad == CHOOSE d \in Detailers : TRUE
MidnightShift == [opens  |-> [d \in Detailers |-> IF d = Nomad THEN 1 ELSE 0],
                  closes |-> [d \in Detailers |-> IF d = Nomad THEN 4 ELSE 3]]
MCOpens  == MidnightShift.opens
MCCloses == MidnightShift.closes
=============================================================================
