--------------------------- MODULE AppointmentFSM ---------------------------
(***************************************************************************)
(* The appointment status machine of domains/appointments/models.py and    *)
(* the authorisation test transition_status makes before it moves an       *)
(* appointment.  It has no state of its own: Booking, and every later      *)
(* module about appointments, reads its tables.                            *)
(***************************************************************************)

Statuses == { "pending", "confirmed", "arrived", "in_progress", "completed",
              "cancelled_by_client", "cancelled_by_detailer", "no_show",
              "searching", "no_detailer_found" }

\* TERMINAL_STATUSES: COMPLETED is not a member, a finished job keeps its
\* window in the detailer's calendar.
TerminalStatuses ==
  { "cancelled_by_client", "cancelled_by_detailer", "no_show", "no_detailer_found" }

CancelStatuses == { "cancelled_by_client", "cancelled_by_detailer" }

\* AdminRepository._REASSIGNABLE_STATUSES
ReassignableStatuses == { "pending", "searching", "no_detailer_found", "confirmed" }

Roles == { "client", "detailer", "admin" }

\* VALID_TRANSITIONS as a relation <<from, to, roles allowed>>.  SEARCHING and
\* NO_DETAILER_FOUND are not keys of the table: nothing leads out of them.
ValidTransitions ==
  LET provider == {"detailer", "admin"}
      customer == {"client", "admin"}
  IN { <<"pending",     "confirmed",             provider>>,
       <<"pending",     "cancelled_by_client",   customer>>,
       <<"pending",     "cancelled_by_detailer", provider>>,
       <<"confirmed",   "arrived",               provider>>,
       <<"confirmed",   "in_progress",           provider>>,
       <<"confirmed",   "cancelled_by_client",   customer>>,
       <<"confirmed",   "cancelled_by_detailer", provider>>,
       <<"arrived",     "in_progress",           provider>>,
       <<"arrived",     "cancelled_by_client",   customer>>,
       <<"arrived",     "cancelled_by_detailer", provider>>,
       <<"in_progress", "completed",             provider>>,
       <<"in_progress", "no_show",               provider>> }

\* Who calls transition_status: a participant of the appointment or not, with
\* the set of roles the account holds (one account may hold several).
Actors == [participant : BOOLEAN, roles : SUBSET Roles]

\* The early returns of transition_status, in order: 403 for a stranger, a
\* silent no-op when the status already is the target, 422 for a pair not in
\* the table, 403 when no role the actor holds is allowed.
MayTransition(actor, from, to) ==
  /\ actor.participant \/ "admin" \in actor.roles
  /\ from # to
  /\ \E t \in ValidTransitions :
       /\ t[1] = from
       /\ t[2] = to
       /\ actor.roles \intersect t[3] # {}

=============================================================================
