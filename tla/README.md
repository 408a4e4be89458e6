# RayCarwash: a TLA+ verification of the backend's concurrent core

RayCarwash is a marketplace for mobile car detailing: clients book a detailer for a
time slot or ask for an on-demand ride, pay through Stripe, and detailers accept,
do the work and are paid. The backend (`src/backend`) is a FastAPI application on
asyncio with PostgreSQL (READ COMMITTED, one transaction per request through
`get_db`), Redis (cache, locks, streams) and Stripe. Every server process also runs
the background workers.

The hard part of that program is not any one handler but what happens *between*
the statements of two of them: nearly every handler reads a row, talks to somebody,
and writes the row back by primary key. The models here keep exactly that structure:
one action per read, external call, flush, commit, signal or lock, and nothing atomic
that the code does not make atomic.

## 1. Inventory

| Component | State it keeps | Operations | What makes it hard | What makes it correct |
|---|---|---|---|---|
| **Booking and appointment status machine** `domains/appointments` | `appointments`, `appointment_cancellations`; transaction-scoped advisory locks | `create_appointment`, `get_available_slots`, `transition_status`, the administrator's reassign and force | check-then-insert under a lock; two implementations of the overlap test; status changes that decide on an unlocked read | bookings of one detailer never overlap; a free slot is offered and a taken one is not; every request is answered |
| **On-demand rides and assignment engine** `domains/matching`, `payments/rides_router.py`, `workers/assignment_worker.py` | the ride's appointment, `appointment_assignments`, Redis stream `assignment:queue` and keys `assignment:{id}`, `app.state.assignment_events` | request, offer, accept, decline, time out, give up | three commits per request; in-process events with offers in the database; one worker per process reading the same stream; time-outs racing answers; restarts | one open offer at a time; no ride or offer hangs; nothing captured that was not authorized |
| **Sessions and refresh tokens** `domains/auth` | `refresh_tokens`, `sessions`, Redis `session:{sid}` | login, rotate, log out, four kinds of revocation, cached authentication, two clean-up workers | row locks taken in opposite orders; rollback of what was done just before a 401; cache filled after its eviction | a token has one successor; a revoked session stays dead; stale cache entries end |
| **Appointment payments** `payments/service.py`, `appointments/service.py`, `admin/repository.py` | the appointment's intent id and price, `refunds`, `appointment_cancellations`; the PaymentIntent at Stripe | create intent, capture, void, refund, administrator's refund | Stripe is changed in the middle of a transaction that may roll back or overwrite | no charge without a job begun; books never claim more than Stripe paid; the money follows the status |
| **Ride ledger and seals** `payments/service_v2.py`, `ledger_seal_worker.py` | `payment_ledger`, `ledger_seals` | authorize, capture, seal a day | appended outside of the ride's transaction; sealing while entries still commit, in every process | captured was authorized; a seal is about a past day and holds all of it |
| **Stripe webhooks** `webhook_router.py` | `processed_webhooks` | deliver, deduplicate, handle | duplicated, reordered, concurrent and failed deliveries | an event takes effect once and is absorbed in the end |
| **Saved cards** `payment_method_service.py` | `payment_methods`, partial unique index over defaults | set default, delete, mirror of Stripe's events | users and deliveries lock the same rows; a late event revives a card | one default; a detached card is gone |
| **Provider profile and verification** `provider_profile_service.py`, `verification_router.py` | verification status and session, `is_active`, application | ten routes, administrator's verdicts, Stripe's verdicts | the same columns written with and without the identity check | who is visible is approved, and after Stripe verified the identity |
| **Provider offers** `providers/router.py` | profile, `provider_specialties`, `provider_services` | PUT profile, PATCH service | delete-and-insert of specialties | the profile and its specialties are those of one PUT |
| **Addresses** `address_service.py` | `user_addresses`, default flag | create, update, set default, delete | geocoding between read and write; the default index | one default; a pin belongs to its address |
| **Accounts** `auth/service.py` and its routers | lockout counter, verification and reset links, `token_version` | register, onboard, log in, verify, reset, change e-mail or phone | columns written back as values computed from an old reading | failures count; links are used once; old access tokens end |
| **Social login** `auth/routers/social.py` | `auth_providers`, `users` | log in with Google or Apple | two first logins at once; addresses that change on either side | an identity keeps its account |
| **Second factors and step-up** `totp_service.py`, `webauthn_service.py`, `step_up.py` | `totp_credentials`, passkeys, challenges and step-up window in Redis | enrol, confirm, regenerate, disable, verify; register and use a passkey | the list of backup codes is written back whole | an old or spent code is never accepted again |
| **Roles and permissions** `admin/router.py`, `auth/service.py`, `seed_rbac.py` | `roles`, grants, assignments, Redis `permissions:{uid}` | assign, revoke, grant, delete, seed, look up; roles users take by using a part of the service | a cache filled from a snapshot older than its invalidation; writers that invalidate nothing | the cache is the database's answer |
| **Profile hub** `users/hub_service.py` | reads the others | `GET /users/me?include=`, name in `PATCH` | the step-up window is looked at twice | every block asked for is there or is named as skipped; nothing sensitive without a recent credential |
| **Favourites, vehicles, preferences** `users/favorites_*`, `client_preferences_router.py`, `domains/vehicles` | `favorites`, `vehicles`, `client_preferences`, audit entries | pin, unpin, create, change, delete, PUT | idempotent calls that must be logged once | audit trail and rows agree |
| **Uploads** `vehicle_photo_service.py`, `avatar_service.py`, portfolio | rows and objects in a bucket | sign, put, confirm, replace, delete | two stores, one transaction | what is shown has bytes; the cap holds |
| **Documents and reminders** `document_expiry_checker.py` | `provider_documents`, audit stamps | upload, delete, daily check | runs in every process, sends before it commits | one reminder per threshold, and that one is sent |
| **Reviews** `domains/reviews` | `reviews`, total and average in the profile | review, hide, restore | a running average under concurrent writers | every review is counted once |
| **Idempotency keys** `app/core/idempotency.py` | Redis responses | resolve, execute, store | nothing marks a key in progress | a retry replays the first answer |
| **Location and H3 index** `workers/location_worker.py`, `infrastructure/h3` | stream, last push, cell sets, profile columns | push, move, go offline, search | five steps without a transaction, in every process | a detailer is found where it is |
| **Realtime status and pushes** `events/bus.py`, `domains/realtime` | rooms, device tokens, what the home screens show | transition, accept, push, publish, forward, subscribe, read the list | messages leave before the commit, are forwarded by a task of their own and cross lists read earlier | a screen shows the row's status once what was published is forwarded; nobody is pushed a status that never was |
| **Start-up seeding** `main.py`, `app/db/seed*.py` | catalogues | the seeds of `lifespan` in order | look-then-insert in every process that starts | rows exist once and the last start finds them |
| **Administration** `domains/admin` | rows of the others | reassign, force, refund, verdicts, roles, moderation | bypasses the rules of the others | see the components it touches |
| **Public site, promos, credits** | plain rows | catalogue reads, contact form, waitlist | a count before an insert | not modelled, see section 6 |
| **Frontends** (mobile, web) | caches of the API | user interface | outside of the backend | none here; `StatusFeed` takes from the mobile app when its home screen reads and follows |

How they interact: the routers call services, services call repositories on the
request's session; `transition_status` and the administrator reach Stripe in the
middle of a transaction; the ride router and the engine share rows, a Redis key, a
stream and, inside one process only, an `asyncio.Event`; contact changes and
password resets revoke the tokens sessions hang from; Stripe's webhooks write the card
and profile rows that users edit; workers use sessions of their own and race all of it.

## 2. Modules

| Module | What it is |
|---|---|
| `AppointmentFSM` | the status machine's tables: statuses, who may make which transition, which statuses are terminal, cancelling, reassignable |
| `BookingCalendar` | abstract specification: a booking enters a detailer's calendar in one step and only into free time |
| `Booking` | `create_appointment` with its advisory lock, and every update of an appointment's status or detailer |
| `Slots` | `get_available_slots`, on `Booking`'s rows |
| `RideDispatch` | the ride request, the assignment worker and engine, accept and decline |
| `Sessions` | token rotation, revocation, session cache, clean-up workers |
| `Payment` | the money of one appointment: row, PaymentIntent, refunds |
| `OnceOnly` | abstract specification: an event is recorded in the step of its effect, and has one at most |
| `DefaultFlag` | rows with one default per user under a partial unique index; what cards and addresses share |
| `Cards`, `ProviderProfile` | what the webhooks write: saved cards, and the profile with its verification |
| `Webhooks` | Stripe's events, their deliveries, and the users' calls beside them; composes the two |
| `Addresses`, `Accounts`, `SocialAccounts`, `SecondFactors`, `Rbac`, `Hub`, `Choices`, `Offer`, `Reviews`, `LedgerSeals`, `Locations`, `Idempotency`, `Uploads`, `Reminders`, `StatusFeed`, `Seeding` | one component each, as named in section 1 |
| `BookingProofs`, `RideProofs`, `SessionsProofs`, `PaymentProofs`, `WebhookProofs` | proofs about the module they are named for; `BookingProofs` covers `Slots` too |
| `DefaultFlagProofs` | lemmas about `DefaultFlag`, used for cards and for addresses |
| `AccessProofs` | proofs about who gets in and what is answered: `SocialAccounts`, `Accounts`, `SecondFactors`, `Rbac`, `Hub`, `Idempotency` |
| `ServiceProofs` | proofs about the other services: `Offer`, `LedgerSeals`, `Addresses`, `StatusFeed`, `Choices`, `Locations`, `Uploads`, `Reminders`, `Reviews`, `Seeding` |
| `MC*` | the instances TLC checks: constants, symmetry, and for `MCWebhooks` and `MCPlatform` which part a behaviour exercises |

Definitions named in a comment as a *variant* belong to no specification. They are
plausible bugs in one action, kept beside it; `PROJECT.json` pairs each property with a
variant that breaks it, which shows that the property is about the code.

A request of two or more steps is a record in a variable `...Txn`, indexed by the
requests that may run at one time, with its place (`pc` or `op`) and what it has read.
Row locks and uncommitted rows are derived from these records, so that a rollback frees
them by construction. A request that ended starts again, so histories have any length.

### Booking

A booking request goes `idle → requested → locked → clear → booked`, with ways out to
`conflict` (the 409) and `failed` (any exception or crash).

| Code | Model |
|---|---|
| validation and pricing in `create_appointment` | `RequestBooking` |
| `pg_advisory_xact_lock(_detailer_lock_key(id))` | `AcquireLock`; `LockKey` is any function from detailers to keys, so that collisions of the 64-bit key are included |
| `get_overlapping_count` | `CheckOverlap`, with `Calendar!Overlaps` the query's interval test |
| inserts and `get_db`'s commit | `CommitBooking`; the lock is given back by the commit itself |
| `transition_status` | `ReadForTransition`, then `CommitTransition`: read and write are apart, the write is by primary key |
| `reassign_appointment`, `force_appointment_status` | `ReadForReassign`/`CommitReassign`, `ForceStatus` |
| `rides_router.request_ride`, `accept_ride`, the engine's `_mark_no_detailer` | `RequestRide`, `ReadForAccept`/`CommitAccept`, `MarkNoDetailer`: a ride's row is inserted without a detailer and without a buffer end, and gets its detailer without a look at the calendar |

A row's `bufferEnd` is the nullable column: `NoBuffer` for a ride, on which the count's
comparison is NULL, so that the booking path never conflicts with it.
`moved` is a history variable: the ids that were given a detailer or taken out
of a terminal status after they were inserted, rides included. The code does not look at the calendar in these cases, so
nothing is promised about these rows; `booking_claim` shows what follows from that. How a
ride finds its detailer is left to `RideDispatch`.

### RideDispatch

One ride's `POST /rides/request` is three steps (`RequestRide`, `Authorize`,
`Enqueue`), because it commits twice before the XADD. Each process has a worker with
its own stream position. A worker that never read anything starts at `$`, so an entry
that arrives between two reads is lost to it (`Delivered`). `assign` is
`TryCandidate → InsertOffer → AwaitAnswer → TakeAnswer | OfferTimesOut →
CloseOffer`, ending in `MarkNoDetailer`. Scoring only orders the candidates, hence
the next candidate is any detailer not tried yet. Accept and decline are read, read,
commit, signal, and for an acceptance the ledger's CAPTURE in a transaction of its
own. `Restart` ends a process: events, stream position and calls in flight are gone,
commits stay.

### Sessions

A call's `pc` says which row locks it holds, so that locks are derived
(`HoldsToken`, `HoldsSession`) and a rollback frees them by construction.
`mark_used_atomic` is `Claim`: it waits for the row and looks at it again. A
revocation is an UPDATE of the session, then an UPDATE of the tokens that *were
visible when the statement started* (`ScanTokens`) which waits for those that are
locked (`CommitRevocation`). The 401 of a detected reuse rolls the family's
revocation back: in `PresentToken` and `Claim` it leaves only the history variable
`reused`. `BreakDeadlock` is PostgreSQL's detector.

### Payment

One appointment; every call reads, goes to Stripe and writes in one transaction
without a lock. `NextOf` is the branch of `transition_status` that decides whether
Stripe is called. Stripe is external, modelled from how the code uses it: an intent is
created once per idempotency key, captured only when held and up to its amount, not
cancelled when captured, refunded up to what was captured. With `StripeErrs` any call
may also fail for no reason. `disturbed` is a history variable, set when calls
overlapped, one failed, or the administrator forced a status.

### Slots

`Offered(d, day, length, now, list)` is the Python loop over candidate starts: working hours
as offsets from the UTC midnight of the requested date, the appointments of that UTC
day in a list ordered by their start (`Existing`), the test of each candidate against each of them.
Python compares a candidate with a buffer end that is `None` by raising a TypeError. `any` stops at the first
overlap, so a candidate raises if it reaches a row without a buffer end before one that overlaps
(`Raises`), and one such candidate is a 500 for the whole day (`Fails`).
`SlotsMatchBooking` compares the search with `Calendar!Conflicts`, the SQL of the booking path,
in every reachable calendar: it fails only on a day on which the detailer has a ride, which the
booking path does not see, and whenever it answers the two agree.

### Webhooks, Cards, ProviderProfile

Stripe creates events (`AttachAtStripe`, `UpdateAtStripe`, `DetachAtStripe`, `Decide`); a
delivery takes any event that is not processed, again and again and twice at once. `Receive` is
the `INSERT ... ON CONFLICT DO NOTHING`, which waits for another open transaction with
the same id; the handler's statements follow on the rows of `Cards` or `ProviderProfile`; the commit
makes id and effect visible together; `GiveUp` is a rollback, by an exception or by the
partial unique index. The user's calls are the same rows' other writers. `DefaultFlag`
holds what `payment_methods` and `user_addresses` have in common: clear the old default, set
the new one, wait for a row another transaction has written, fail on the index.
History variables say what the code makes no promise about: `disordered` (events of one
object received out of order), `lateLinks` (a session linked after its verdict was sent),
`cardsOverlap` and `orphaned` (deletions beside other calls, cards that come back),
`excused` (a route without the identity check, a submission without a session, an administrator's verdict, two calls at once).
`VisibleIsApproved` is stated in the composed module, because "approved" means there that Stripe has
`Verified` a session. A submission without a session approves by itself (`BypassVerification`), in
every environment and for a user without a profile too, and is excepted by name.

### The other services

| Module | Code | Actions |
|---|---|---|
| `Addresses` | `address_service.py`, `address_repository.py` | create (with geocoding), update in two steps around geocoding, set default, delete with promotion, each with flush, commit and abort |
| `Accounts` | `auth/service.py`, routers `core`, `password`, `email_verification`, contact changes | registration, onboarding, login (right or wrong password, lock, unlock by time), `IssueLink`, `ConfirmReset`, `VerifyEmail`, contact changes, refresh; one UPDATE of the changed columns at the end of each |
| `SecondFactors` | `totp_service.py`, `webauthn_service.py`, `security_router.py` | enrol, confirm, step-up by code or backup code, regenerate, disable; register and authenticate with a passkey by a challenge in Redis |
| `Rbac` | `require_permission`, role routes of `admin/router.py`, `seed_rbac.py` | look-up in four steps (Redis, snapshot, fill), assignment and removal with the drop after the commit, roles users give themselves without a drop (`ClaimRole`: completed profile, provider activation, created profile), grants, deletion, seed at a restart |
| `Reviews` | `reviews/service.py`, `repository.py` | insert with the aggregate's UPDATE in SQL, hide, restore |
| `LedgerSeals` | `ledger_seal_worker.py`, `payments/models.py` | stamp, commit, midnight, wake, read, insert, failure and crash of each process |
| `Locations` | `location_worker.py`, `h3/client.py`, `realtime/router.py` | two sources of updates, one stream, per process: compare with last push, leave the old cell, enter the new one, write the profile; go offline; restarts |
| `Idempotency` | `idempotency.py` | resolve, execute, commit, store, expire, Redis failing |
| `Uploads` | photo, avatar and portfolio services | sign, put, confirm in a HEAD (`FindPhoto`), then count and insert (`ConfirmPhoto`), replace, delete: database and bucket are separate steps |
| `Reminders` | `document_expiry_checker.py`, documents service | upload, delete, read, send, stamp, crash, midnight |
| `StatusFeed` | `appointments/router.py`, `events/bus.py`, rooms of `connection_manager.py`, `accept_ride`, the app's `HomeScreen.tsx` and its socket | read, flush, push, publish, commit; an acceptance that commits, then publishes; the three writers that tell nobody; per screen: subscribe, read the list, show it, forward a message, disconnect, lose the connection to Redis; device tokens |
| `Seeding` | `main.py` `lifespan` and its seeds | per process: the seeds in their order, each look, insert, commit or fail; stop and start again |
| `Hub` | `hub_service.py`, `include_spec.py`, `step_up.py` | first look at the window, snapshot of the row, second look, compose; sign-in beside it; PATCH of a name in read, flush, commit |
| `Choices` | favourites, vehicles, preferences | pin in check, insert, commit, answer; unpin; vehicles with their plate; PUT that writes changed columns |
| `SocialAccounts` | `social.py`, `auth_provider_repository.py` | find identity, find account, create, link, enter; registration by password, change of e-mail, deactivation |
| `Offer` | `providers/router.py`, `repository.py` | read, upsert, sync specialties, commit; PATCH of a service's terms |

Names, texts, amounts and times are model values or small integers. Formatting, logging, rate limits and the
content of messages are left out: no property is about them.

## 3. What the runs check

| Run | Instance | Shows |
|---|---|---|
| `booking_race` | 2 bookings, 1 ride, 2 updates, 2 detailers on one lock key, 3 start times, the ride at the last of them, travel buffer 1, administrator on | windows that stand where they were booked never overlap (`NoBookedOverlap`, and its inductive strengthening `BookingInv`); the slot search fails only over a ride and otherwise agrees with the booking path (`SlotsMatchBooking`); `Booking` implements `BookingCalendar` (`ImplementsCalendar`); every request is answered although keys collide and handlers fail (`BookingAnswered`) |
| `booking_claim` | the same without rides and without an administrator | **violated**: two live appointments of one detailer overlap after a status change decided on a stale read |
| `ride_engine` | 2 rides, 2 detailers, 1 accept or decline call, 1 process, 1 failure | at most one open offer per ride; every ride a worker has is decided; every offer closes |
| `ride_overlap` | 1 ride, 2 detailers, 2 calls, 2 processes, 1 failure | no CAPTURE without an AUTHORIZATION, whatever the two engines do to each other |
| `ride_claim` | 1 ride, 2 calls, 1 process, no failure | **violated**: an acceptance takes effect on a ride or an offer that is no longer open |
| `sessions` | 3 tokens, 1 family, 2 calls at a time | a token has one successor; a revoked session has no live token |
| `sessions_progress` | 2 tokens, 1 family, 2 calls at a time | calls end although they take row locks in opposite orders; a stale cache entry ends although the cache is filled again and again |
| `sessions_reuse` | 2 tokens, 2 calls | **violated**: a family whose reuse was detected still has a live token |
| `payment_races` | 2 overlapping calls, estimate 2, final price 1 to 3, Stripe may fail | charged only if the job was begun; recorded refunds were paid; undisturbed, the money follows the status |
| `payment_claim` | the same, Stripe does not fail | **violated**: a cancelled booking still holds the client's funds |
| `webhooks` | 2 deliveries, 1 user; 3 events of 2 cards, or 2 events of one verification; 1 failure | deliveries implement `OnceOnly`; every event is absorbed; a detached card is gone and a default kept; who is visible is approved and verified by Stripe, and an approval stands |
| `platform` | one component of the table above per behaviour (`part`), 2 requests or processes each | `AddressBookConsistent`, `FailuresCounted`, `OldAccessRefused`, `LinksSingleUse`, `FactorConsistent`, `CacheHonest`, `EveryReviewCounted`, `SealCoversDay`, `FoundWhereItIs`, `RetriesReplay`, `PicturesHaveBytes`, `RemindedOncePerThreshold`, `ToldWhatHappened`, `SeedsSettle`, `HubHonest`, `ChoicesAudited`, `IdentityKeepsAccount`, `OfferAsTold` |

**Type invariants** (`TypeOK`, `SealTypeOK`, `SocialTypeOK`) are parts
of the inductive invariants and proved in section 5, so no run repeats them.

**Bounds.** Every property relates at most two rows, two requests or two processes of one
kind: two bookings suffice for an overlap, two rotations for a race, a third token for a
second generation. Three start times with duration and buffer 1 give windows that are
equal, partly overlapping, touching and apart; a day of three units with one detailer
who works across midnight gives slots on both sides of it. `MaxFailures` 1 allows a failure or restart at
any point; `MAX_CANDIDATES` 2 with two detailers lets the engine run out of them. A price
below, at and above the estimate exercises a partial capture, a full one and one Stripe refuses.
`Room` in `Sessions` keeps a row for each rotation under way, so that the bound on
tokens never blocks one that is running.

| Bound | What it cuts off |
|---|---|
| `MaxEvents` 3, and in `MCNext` 3 for cards and 2 for identity | events of Stripe: attach, update and detach of one card, or of two cards in part; a refusal and an approval |
| `Moving`, `NewPlaces` | which address is updated and where addresses are created: one of two moves, to every line and city |
| `MaxWrong`, `MaxVersion`, `LOCKOUT_THRESHOLD` 2 | wrong passwords and changes of `token_version`; the threshold is reached and passed |
| `MaxIssued` 2 | sets of backup codes: an old one and a new one |
| `LastDay` 2, `FinalDay` 3, `LastMinute` 3 | the clock: a day before, the day itself and one after; every threshold; a step-up window of 2 that opens, lapses and opens again |
| `RideTimes` | when a ride is asked for: one moment, which is a start time on the second day too |
| `MaxPending` 2 | messages on their way to one screen: one to be corrected by another; a screen reads one list at a time |
| `MaxUpdates` 2 | messages in the location stream: a move and a move back or on, small or large |
| `MaxExecutions` 2 | executions under one key: the first and a second one that must not be |
| `PhotoIds` 1..3 with a cap of 1 | rows: one that is shown, one that replaces it, one too many |
| `MaxPins` 2 | audit entries per provider and direction: pin, unpin, pin again |

In `MCPlatform` the parts of `Accounts` (lockout, links, changes) and of `SecondFactors`
(codes, passkeys) are explored one at a time; they write different columns. The
parts `names`, `feed` and `pushes` stop at the first state that is excepted (`unclear`, `astray`),
because no later state can be held to the property. `feed` has screens and no devices, `pushes` devices and
screens at rest: the two are written by different steps.

**Deadlock** is checked in the runs of `Sessions` and `Payment`. In the others the number of requests, events,
days or rows is finite, and a system whose requests
have all ended stops, as does the real one. That nobody waits for ever is checked
instead, as `BookingAnswered`, `RideDecided`, `OffersClose`, `CallsEnd` and `EventsAbsorbed`.

**Fairness.** The event loop and the database run whatever can run, hence weak
fairness of each request's and each worker's own steps. That clients ask, detailers
answer or something fails is never owed. Redis drops a key when its time to live is over: weak
fairness of `ExpireEntry`. The requests of `Sessions` and of `MCWebhooks` have strong fairness,
because there new requests may come for ever: PostgreSQL queues the transactions that wait for a
row lock, so nobody is overtaken for ever; and Stripe repeats a delivery that was not answered
with 200. In `Booking` the requests for a lock are finite.

## 4. Disagreements and exceptions

The findings of `PROJECT.json`, with their lines quoted there: (1) unlocked status changes
may revive a cancelled appointment in time that was booked again (`booking_claim`); (2) accept writes
without repeating its conditions, and the engine's time-out does the same (`ride_claim`); (3) the
revocation on reuse is rolled back by the 401 that reports it (`sessions_reuse`); (4) an
intent created while its booking is cancelled is never voided (`payment_claim`).

The properties of the passing runs hold with exceptions, each a history variable in
its module. They are behaviours of the code the properties would not survive:

- *Booking and rides.* An administrator may move a row onto another one. "Log out
  everywhere" misses the successor a rotation is inserting, where no session row orders
  the two. With several processes `OneOpenOffer` does not hold: the Redis key lives as
  long as the wait and starts before it. NO_DETAILER_FOUND is written without a look at
  the status and may overwrite a confirmed ride. The slot search reads one UTC day: outside of
  it (`KeepsHours`) it offers what the booking path refuses. A ride's row has no buffer end (`models.py:103`, `rides_router.py:54-63`):
once a detailer has one, the slot search raises a TypeError for the day unless its candidates meet
another appointment first (`appointments/service.py:212-244`), and `/matching`, which catches an HTTPException only
(`domains/matching/router.py:119`), then fails for all detailers, while the overlap count compares with NULL and the
booking path books over the ride.
- *Money.* Refunds on the books may exceed the price where a rolled-back capture left a
  larger charge; a final price above the hold makes the capture fail, which the code only logs.
- *Cards.* An update or setup event that arrives after the detachment revives the card
  until the detachment is received; detaching or reviving promotes nobody to default; a
  deletion may promote a row that is deleted meanwhile; `set_default` may fail on the index.
- *Verification.* `PUT /detailers/me` creates a visible profile and `PATCH /me/status` switches
  visibility without a look at the status; `submit` without a session approves at once
  ("dev bypass", in every environment, and without a profile it creates one that is approved and active) and with one resets to pending, also after the approval;
  a verdict that comes before the link is dropped; suspension and the administrator's rejection leave `is_active`.
- *Addresses.* Two updates of one address mix their columns and pins; a deletion beside
  another call may leave no default.
- *Accounts.* Parallel wrong passwords count once; the counter survives the end of a lock.
  Two requests for a link at once leave two; `consume` reads and then updates, so two
  confirmations at once both succeed, though its docstring calls it atomic (`password_reset_token_repository.py:81-85`). Two changes at once write one `token_version`. A
  reset leaves refresh tokens alive. The attempts at a phone code are undone by the
  rollback of their own error, so that lock never closes.
- *Social login.* No exception: the two unique indexes decide every race, at the price
  of an error for the loser.
- *Second factors.* Regenerating beside a step-up brings the old codes back. A challenge
  is read and deleted in two commands. One of the two routes that delete a passkey has no guard for the last one.
- *Roles.* Only the administrator's assignment and removal drop the cache. Roles a user comes by
  do not (`provider_profile_service.activate`, `profiles_service._grant_role_if_missing`, `complete-profile`), nor do
  routes that change a role's grants; what was cached before stays until it expires; a look-up under way
  at a revocation caches the old set again; a lost drop leaves it until it expires. The seed
  gives default grants back that an administrator took away.
- *Hub.* The gap is in the property: the window may lapse between the two looks, and a
  block is then missing without a word, though the comment at `hub_service.py:92-94` says it is named. Concurrent PATCHes of the two halves of a name lose
  one, and a first name of two words is split at the first.
- *Choices and offers.* PUTs of preferences at once mix their columns, PATCHes of one
  service theirs. A deleted vehicle stays the default and keeps its plate. The UPDATE of a
  provider profile names the user only and writes a mechanic profile too.
- *Reviews.* An average that is NULL stays NULL; hidden reviews are still counted.
- *Seals.* Only yesterday is sealed: a midnight every process missed leaves its day open, an
  entry that was not committed at midnight is not in the seal.
- *Locations.* An update cut short after the push leaves the detailer in an old cell or in
  none; two processes that read one stream undo each other's steps.
- *Idempotency.* Two calls under way at once both run. No route opts in at this commit.
- *Uploads.* A rollback after the object was deleted leaves a row without bytes; so does a key that is
  confirmed twice at the cap; two confirmations at once exceed the cap.
- *Reminders.* A run that fails after sending, or runs that overlap, send twice.
- *Status feed.* Messages leave before the commit: a change that is overtaken or rolled
  back was announced all the same. An acceptance commits first and is told to nobody if its process ends in between.
  NO_DETAILER_FOUND, a forced status and the reassignment of a ride are written without a message.
  Publishing may fail after money was moved. The app replaces its list by an answer whenever it arrives: one that was
  read between a message and its commit or before the screen subscribed, or that a message overtook, stays on the screen (`current`
  is false then). A socket whose connection to Redis was lost for a while has missed what was published.
- *Seeding.* Processes that start together insert testimonials and questions twice, and
  every later start ends in an exception (`main.py` says "Each function is idempotent");
  rows with a unique key make one of them fail to start. Nothing in the
  code sets `is_deleted` on zones, cities, promos, testimonials or questions, so the filters on it are left out.

## 5. What is proved

`tlapm` checks every proof below to its last leaf. Each proof has the same
plan: an inductive invariant, stated beside the component (or, where it adds a line or two only,
beside the proof) and put to TLC before it was put to the prover;
`Init` implies it; one lemma per action, or per group of actions that touch the same
variables, says that a step keeps it; the last step is temporal logic. The
invariant's parts are named for the actor they speak of, so that a step
of one actor has to show that part and only a frame condition for the others.

The assumptions are those the modules declare, and TLC evaluates each of them in the runs: bounds and
prices are naturals, tables are functions over the sets they are indexed by, and a null
value (`NoRow`, `NoPin`, `Never`, `NoDate`, ...) is none of the values of its column, which is what
SQL's NULL and Python's `None` are. `Uploads` and `Reminders` need finite sets of rows and thresholds,
because they count and take a maximum; `Hub` needs the halves of a name to be lists of words.

### Core

**`BookingProofs`**: from `BookingAssumption` (sizes are naturals, keys are
a function). `NoBookedOverlap` alone is not inductive: a state in which a request is past
its overlap count although a conflicting row exists would satisfy it and break it
in the next step. `BookingInv` adds what the lock gives: a request that is
`locked` or `clear` owns the lock of its detailer's key, and a `clear` request has no
conflicting row except moved ones. Rides have no window and are moved as soon as a detailer has one,
so the lemma about them (`RideStep`) is about types and ids only. Two requests of one detailer need one key, hence
`SectionExclusive`, hence a commit of another request cannot invalidate a count. The
refinement maps every step but the commit to a stutter and `CommitBooking` to
`BookingCalendar`'s booking, for which the count has to be still true at
the commit, which is what `BookingInv` says. `SlotsAgree`, from `SlotsAssumption`, needs the row types only: it is about
two computations on one calendar, the loop of the slot search and the SQL of the booking path. A booking
inside its day can conflict only with rows of that day (`DayOrder`, `ConflictIsRead`), provided the detailer
`KeepsHours`, which is where the search reads less than the booking path. If the search fails, some row of its list has no buffer
end, so the day has a ride; if it answers, no candidate was compared with such a row,
and the count's comparison with NULL takes none of them for a conflict either.

**`RideProofs`**: from `RideAssumption`. `RideInv` follows a ride: authorized before it is
queued, so what lies in a queue (`WorkerSafe`) or is offered is authorized, and
so is whatever is answered (`AnswerSafe`: a call beyond its check had an offer, and offers
never vanish). That gives `AuthorizedBeforeCapture` for any number of
processes. `OneEngine` is a part for one process only: a ride occurs once in the
queue or in hand, has no offer before it is in hand, and its only open offer is
the one its worker waits for. `SingleOffer` has this premise in its statement.

**`SessionsProofs`**: from `SessionsAssumption` and `NoRowAssumption` (`None` is no token
and no row). `SessionsInv` consists of `Lineage` (a successor's parent is used, and has no second
successor), `SessionRows` (a revoked session has no live member), and what each
call in flight relies on: `RotationSafe` (a claimed token is still unspent and its
session not revoked, because a revocation would have to wait for the token's row),
`RevocationSafe` (the scan contains the whole family once the session's row is locked,
because whoever would add to the family needs that row) and `LocksExclusive`. Only these
together exclude the race of a rotation that adds a token after the scan.

**`PaymentProofs`**: from `PaymentAssumption` (a positive estimate, a percentage). `ChargedOnlyIfStarted` needs `Purposeful` (who captures is completing
a job that was started) and that uncaptured intents have no charge. `SettlesCleanly`
needs, while nothing has disturbed the history, that at most one call is under way and
what Stripe and the row look like at each of its steps (`Undisturbed`). `RefundsArePaid` is
about a sum: what Stripe has paid covers the books and what the calls at `recording` are about to book. `BooksInv`
says that with a function from sets of calls to totals (`Sums`), which changes in each set
with the call that moves (`SumChanges`) and starts at zero, so that no induction over the calls is needed.
TLC does not evaluate `BooksInv`: it quantifies over functions into the naturals.

### Webhooks, cards, verification

**`DefaultFlagProofs`** is about the pattern cards and addresses share. `FlagInv` is what PostgreSQL
gives: no two transactions hold a row, and neither the committed rows nor any transaction's view of them
have two defaults; the last needs that beside a transaction that
writes a default nobody touches the index. `DefaultHeld` is what the code gives while no deletion
meets another call: a transaction sees a default among its rows unless it has just taken it away and `Owes`
one, and only a deletion takes the committed one away. The lemmas are per statement
(clear, set, remove, promote, commit), with the rows, flags and callers as parameters, and are used for both tables.

**`WebhookProofs`**: from `WebhooksAssumption`, `ProfileAssumption` (`Same`, the unwritten column, is no value of
a column) and `CardsAssumption`. There are four invariants.
- `HookInv` is about ids only: a delivery holds
  the id of an event that is neither processed nor held by another one, and only a processed
  event has had its effect. `EveryStepDedup` shows that every action of the composed
  specification does one of four things to ids and effects, whatever it does to cards and profiles;
  the refinement of `OnceOnly` follows from these four.
- `ProfileInv` treats the profile in the
  same way: `VisibleIsApproved` is not inductive, because a transaction that passed the identity check
  may commit later; so at most one is open until something excuses it, and what it will
  leave (`Merged`) keeps to the rule. That an approval is Stripe's is a second invariant beside it (`ByStripe`): without a
  verified session no column says or will say "approved", because only a delivery about a verified session writes
  that outside of the exceptions, and a session that was verified stays so (`VerifiedStays`). `EveryStepProfile` sorts the actions into edits
  that keep it, excused ones, commits and drops.
- `VerdictStands` needs to know where events come from and go. `EventInv`: every event is about
  a card or a session Stripe knows, a session is not asked about after it was verified, and what is received in order
  is received after all that came earlier is processed. `VerdictInv`: a session that left the row does not come back unnoticed
  (`Linked`), a delivery that has found the row is about to write its verdict to that row (`Verdict`), and once a
  verification is processed no column still to be written undoes it (`Approved`).
- `CardInv` is the same for cards. `DetachedIsGone` speaks of the state in which everything is processed, which no step
  sees coming, so the invariant speaks of each event: the last event about a card
  says whether it is attached (`Told`), and one that was received in order has removed the card or holds it
  in order to (`Gone`). `Serving` keeps deliveries to their own card, `Sparing` keeps
  users' calls from bringing one back.

### Access

**`AccessProofs`** has one part per component; they share no variable.
- *Social login*, from `SocialAssumption`. `SocialInv` says of each login in flight what it
  knows from its reads and its own INSERTs (`LoginSafe`), and of each two that they
  hold no INSERT of one address or one identity (`LoginsApart`), which is what the two
  unique indexes give.
- *Accounts*, from `AccountsAssumption` and `NoAccountAssumption`. The three properties compare the row with history;
  what breaks them is a value read earlier. So `AccountInv` says for each kind of request that a request alone
  of its kind has read what is still there: the counter (`CountersAgree`), the
  version (`VersionsOrdered`: no token is of a later one and dead ones are of an earlier one), the live
  links (`LinksSeen`), the reset link (`ResetsAlone`). Two of a kind are in `races`
  (`RacesNoticed`). A login beside a change of credentials is not excepted and need not be: the token it hands
  out has the version it read, which is never later than the row's.
- *Second factors*, from `FactorsAssumption` and `FactorValuesAssumption`. `FactorConsistent` is about the committed row; `FactorInv` says the same of the row
  as it `Written` will be when the open request commits, so that a code that is being spent is gone from it.
- *Roles*: unless the entry was `outrun` (by a drop while a look-up was under way, or by any change nobody drops it for while it was
  cached or being read, such as `ClaimRole`), what a look-up has read and not cached yet is what the database says (`RbacInv`), and so is
  what is cached once no drop is pending.
- *Hub*, from `HubAssumption`. Sensitive blocks are for a recent credential: neither Redis, nor the row, nor an open
  sign-in knows of a later credential than the last one shown (`StampsOrdered`), and what a request has
  decided at its gate was right at the time it noted (`ReadingSound`). Names: the column is the halves joined
  (`NameJoined`), which needs that a first half has one word, the case outside of `unclear`.
- *Idempotency keys*, from `NoResponseAssumption`: what is stored under a key is the response of the operation with this
  user, key and body (`KeyInv`), and an operation that is not `unprotected` runs in one request at most, has not taken effect
  while its handler runs, and has its response stored, or about to be, afterwards (`RunsOnce`).

### Services

**`ServiceProofs`**, likewise.
- *Offers*, from `OfferAssumption` (terms are functions, no terms is not one of them).
  `OfferInv` says what a request relies on (`OfferSafe`: the specialties it replaced are still
  the committed ones, the service it read stands) and why (`OffersApart`: the row lock keeps two
  PUTs apart, PATCHes that met are `tangled`).
- *Ledger seals*, from `SealsAssumption`. `SealCoversDay` speaks of finished seals; `SealInv` adds that no stamp is ahead
  of the clock and that what a worker has in hand is a past day and, once read, a set
  that `Covers` it: entries of a past day become visible too late to count, so a set that
  was right when it was read stays right until it is inserted, in any number of processes.
- *Addresses*, from `AddressAssumption`. `BookInv` rests on `DefaultFlagProofs` for the default and says of an open edit that the row
  it will leave has the pin of its place (`Editing`); an edit writes the columns that changed only, so that
  holds unless another edit of the row is open, which makes it `mixed`. `Fresh` keeps a new row to its creator.
- *Status feed*, from `FeedAssumption` (`NoStatus` is no status). The `News` is what was published and is about to be committed, or else
  the row's status. `Follows`: the last message on its way to a screen is the news; with none on its way, so is what the screen shows
  if it is `current`, and the answer it awaits if that is `fresh`. Pushes are in the history or about to be (`PushFollows`).
- *Choices*, from `ChoicesAssumption`. `PinLanded`: a transaction whose INSERT or DELETE took effect is the only one on
  that pin, and its audit entry commits with it. `PutFollows`: a PUT has read the row as it is, unless PUTs have `crossed`.
- *Locations*, from `LocationsAssumption`. `Underway` follows the five steps of an update: which of last push, cell sets and columns are
  already new at each of them.
- *Uploads*, from `UploadsAssumption`. A key about to be shown has its object and is nobody else's (`BroughtOnce`), a
  shown one keeps it until the transaction that takes it away (`PhotoKept`, `AvatarKept`, `Taking`), and a confirmation has found
  room (`Capped`), which uses that the set of rows is finite.
- *Reminders*, from `RemindersAssumption`. What a run of a day had to send is sent from the moment it opens its transaction
  (`Reminded`), and every reminder sent is stamped or about to be (`SentOnce`). It needs that every bucket is one of the thresholds:
  `MinIsThere` and `MaxIsThere` prove that a finite, non-empty set of numbers has a least and a greatest one.
  Induction over finite sets is out of reach, because the library's induction theorems take an operator as a parameter;
  `SmallestSet` takes its place: among the subsets of a finite set that fail there is a
  smallest one, since their strict ordering is well-founded.
- *Reviews*, from `ReviewsAssumption`. Who has added a rating holds the profile's row and has counted all that is committed
  (`ReviewHeld`), which a second review at once cannot disturb. The rest is arithmetic: `Including` moves the mean by a rounding of at most
  a hundredth per review (`MeanStep`). For the sum of the stars, `SumIsAdditive` shows by smallest counterexamples that the library's
  recursive `MapThenSumSet` is the additive function on the subsets of a finite set, hence `SumWithOneMore`.
- *Seeding*, from no assumption. What comes before the seed a process is at has been committed (`PastAreThere`), and while
  starts do not overlap, what a process did not find is still not there when it inserts (`OneAtATime`).

| Theorem | States |
|---|---|
| `BookingProofs!TypeCorrect`, `BookingInvariant` | types, inductive invariant |
| `BookingProofs!BookingsDisjoint` | `NoBookedOverlap` |
| `BookingProofs!SectionExclusive` | `ExclusiveSection` |
| `BookingProofs!Refinement` | `ImplementsCalendar` |
| `BookingProofs!SlotsAgree` | `SlotsMatchBooking` |
| `RideProofs!RideInvariant`, `RideTypeCorrect` | inductive invariant, types |
| `RideProofs!AuthorizedBeforeCapture` | `CapturedWasAuthorized` |
| `RideProofs!SingleOffer` | `OneOpenOffer`, for one process |
| `SessionsProofs!SessionsInvariant`, `SessionsTypeCorrect` | inductive invariant, types |
| `SessionsProofs!SingleUse` | `OneSuccessor` |
| `SessionsProofs!RevokedStaysDead` | `RevokedSessionIsDead` |
| `PaymentProofs!PaymentInvariant`, `PaymentTypeCorrect` | inductive invariant, types |
| `PaymentProofs!NoChargeBeforeStart` | `ChargedOnlyIfStarted` |
| `PaymentProofs!RefundsWerePaid` | `RefundsArePaid` |
| `PaymentProofs!MoneyFollowsStatus` | `SettlesCleanly` |
| `WebhookProofs!HookInvariant`, `Deduplication` | inductive invariant, `DeliveriesImplementOnce` |
| `WebhookProofs!ProfileInvariant`, `VisibleWasApproved` | inductive invariant, `VisibleIsApproved` |
| `WebhookProofs!VerdictInvariant`, `VerificationStands` | inductive invariant, `VerdictStands` |
| `WebhookProofs!DefaultCard`, `CardDefaultIsKept` | locks and index, `CardDefaultKept` |
| `WebhookProofs!CardInvariant`, `DetachedCardsGo` | inductive invariant, `DetachedIsGone` |
| `AccessProofs!SocialInvariant`, `OneAccountPerIdentity` | inductive invariant with types, `IdentityKeepsAccount` |
| `AccessProofs!AccountInvariant` | inductive invariant |
| `AccessProofs!LockoutCounts`, `RevocationIsInstant`, `LinksActOnce` | `FailuresCounted`, `OldAccessRefused`, `LinksSingleUse` |
| `AccessProofs!FactorsSound` | `FactorConsistent` |
| `AccessProofs!CacheIsHonest` | `CacheHonest` |
| `AccessProofs!HubIsHonest` | `HubHonest` |
| `AccessProofs!RetriesAreReplayed` | `RetriesReplay` |
| `ServiceProofs!SealInvariant`, `DaysAreCovered` | inductive invariant with types, `SealCoversDay` |
| `ServiceProofs!OfferInvariant`, `LastPutStands` | inductive invariant, `OfferAsTold` |
| `ServiceProofs!BookInvariant`, `AddressBookIsConsistent` | inductive invariant, `AddressBookConsistent` |
| `ServiceProofs!FeedInvariant`, `FeedIsTold` | inductive invariant, `ToldWhatHappened` |
| `ServiceProofs!ChoicesAreAudited` | `ChoicesAudited` |
| `ServiceProofs!DetailerFoundWhereItIs` | `FoundWhereItIs` |
| `ServiceProofs!PicturesKeepBytes` | `PicturesHaveBytes` |
| `ServiceProofs!ReviewsAreCounted` | `EveryReviewCounted` |
| `ServiceProofs!RemindersGoOutOnce` | `RemindedOncePerThreshold` |
| `ServiceProofs!StartUpIsHarmless` | `SeedsSettle` |

TLC's runs show all properties on the instances above; the theorems hold for every
value of the constants that satisfies the named assumptions. Every invariant of the passing runs is the
subject of a theorem, and both refinements are. What stays with TLC is liveness (`BookingAnswered`, `RideDecided`,
`OffersClose`, `CallsEnd`, `EventsAbsorbed`, `StaleEntryExpires`), because the prover has no
rules for fairness and ENABLED. `OneOpenOffer`'s theorem has one process as its premise.
The runs that end in a violation are counterexamples and have nothing to prove.

## 6. Not modelled, and what could follow

- The public site (`domains/public`): catalogue reads, contact messages (a count, then an insert, so the cap may be
  passed by two at once), the waitlist (a unique e-mail; its position is a count that leaves out deleted rows).
- Promos and credits: previews and plain inserts. No booking or payment redeems a promo
  code or spends a credit, so there is no protocol to check.
- Prices, fare estimates and their tokens, cancellation previews: arithmetic on one request's
  data. A fare token can be used again until it expires; the preview's refund rows are
  not what the cancellation does.
- `payment_intent.succeeded` and the creation of the Stripe customer (two first payments at once may create two).
- Chat, fan-out of other topics over Redis, e-mail: best effort, nothing promised.
- Listings, dashboards and catalogue edits of the administrator: queries and single-row writes.
- Alembic migrations, which run before the processes start, and the schemas that only
  validate one request.
- The frontends, cryptography, formatting and scoring, which only yield values the
  models choose freely.

What could follow: a specification of a ride's life (searching, then decided once) that `RideDispatch` implements with one process; the
engine itself beside the booking calendar, of which `Booking` has the statements that write a ride's row.
