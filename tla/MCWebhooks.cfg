SPECIFICATION MCSpec
CONSTANTS
  CardIds = {p1, p2}
  CardCallers = {h1, h2, u1}
  ProfileCallers = {h1, h2, u1}
  Deliveries = {h1, h2}
  VerificationSessions = {s1}
  NoCard = NoCard
  Unwritten = Unwritten
  NoProfile = NoProfile
  Same = Same
  NoEvent = NoEvent
  MaxEvents = 3
  MaxFailures = 1
INVARIANTS DetachedIsGone  CardDefaultKept VerdictStands
PROPERTIES DeliveriesImplementOnce EventsAbsorbed
CHECK_DEADLOCK FALSE
