------------------------------ MODULE Seeding ------------------------------
(***************************************************************************)
(* What a server process does before it serves (main.py, lifespan): one    *)
(* seed function after the other, each in a session of its own, each       *)
(* reading which of its rows exist and inserting the missing ones.         *)
(* Several processes start on one database: a deployment with more than    *)
(* one worker, or a new release beside the old one.                        *)
(*                                                                         *)
(* A catalogue is one row: a seed function commits all of its entries or   *)
(* none.  The environment is not production, so the admin user is seeded.  *)
(***************************************************************************)
EXTENDS Naturals, Sequences

CONSTANTS Servers

VARIABLES
  rows,         \* rows[c]: copies of catalogue c that are committed
  wiring,       \* the catalogues the seeded detailers were linked to
  server,       \* server[s]: where the process s is
  overlapped    \* two processes were starting at the same time

seedVars == <<rows, wiring, server, overlapped>>

\* A start-up that seeds the detailers before the services they offer.
EarlyDetailers == <<"rbac", "admin", "categories", "specialties", "detailers", "services",
                    "addons", "testimonials", "faq", "zones", "zips", "cities", "promos">>

\* The order of the calls in lifespan.
StartUp == <<"rbac", "admin", "categories", "specialties", "services", "addons",
             "detailers", "testimonials", "faq", "zones", "zips", "cities", "promos">>

Catalogues == {StartUp[i] : i \in 1 .. Len(StartUp)}

\* Testimonials and FAQ entries have no unique column: their seeds look a row
\* up by (name, sort_order) and (category, question) only.
Unkeyed == {"testimonials", "faq"}

\* What the seeded detailers are linked to when it exists already.
Linked == {"specialties", "services"}

Down    == [at |-> "down",    step |-> 0]
Serving == [at |-> "serving", step |-> 0]
Failed  == [at |-> "failed",  step |-> 0]

Starting(s) == server[s].at \in {"looking", "inserting"}
Stage(s)    == StartUp[server[s].step]

SeedInit ==
  /\ rows = [c \in Catalogues |-> 0]
  /\ wiring = {}
  /\ server = [s \in Servers |-> Down]
  /\ overlapped = FALSE

-----------------------------------------------------------------------------
Start(s) ==
  /\ server[s] \in {Down, Failed}
  /\ server' = [server EXCEPT ![s] = [at |-> "looking", step |-> 1]]
  /\ overlapped' = (overlapped \/ \E o \in Servers : Starting(o))
  /\ UNCHANGED <<rows, wiring>>

\* The process ends, at any point: an open transaction is rolled back.
Stop(s) ==
  /\ server[s] # Down
  /\ server' = [server EXCEPT ![s] = Down]
  /\ UNCHANGED <<rows, wiring, overlapped>>

Past(s) == IF server[s].step = Len(StartUp)
           THEN Serving
           ELSE [at |-> "looking", step |-> server[s].step + 1]

\* scalar_one_or_none: a second row is MultipleResultsFound, and an exception
\* in lifespan ends the process.
\* The look-ups skip soft-deleted rows; no code soft-deletes one of these catalogues.
LookFor(s, c) ==
  /\ server[s].at = "looking" /\ Stage(s) = c
  /\ server' = [server EXCEPT ![s] =
       IF rows[c] = 0 THEN [at |-> "inserting", step |-> server[s].step]
       ELSE IF rows[c] = 1 THEN Past(s) ELSE Failed]
  /\ UNCHANGED <<rows, wiring, overlapped>>

\* A unique index refuses what another process committed in between.
Insert(s, c) ==
  /\ server[s].at = "inserting" /\ Stage(s) = c
  /\ IF c \notin Unkeyed /\ rows[c] > 0
     THEN server' = [server EXCEPT ![s] = Failed] /\ UNCHANGED rows
     ELSE server' = [server EXCEPT ![s] = Past(s)] /\ rows' = [rows EXCEPT ![c] = @ + 1]
  /\ UNCHANGED overlapped

Seed(s, c) == LookFor(s, c) \/ (Insert(s, c) /\ UNCHANGED wiring)

SeedRoles(s)         == Seed(s, "rbac")
SeedAdminUser(s)    == Seed(s, "admin")
SeedCategories(s)   == Seed(s, "categories")
SeedSpecialties(s)  == Seed(s, "specialties")
SeedServices(s)     == Seed(s, "services")
SeedAddons(s)       == Seed(s, "addons")
SeedTestimonials(s) == Seed(s, "testimonials")
SeedFaq(s)          == Seed(s, "faq")
SeedZones(s)        == Seed(s, "zones")
SeedZips(s)         == Seed(s, "zips")
SeedCities(s)       == Seed(s, "cities")
SeedPromos(s)       == Seed(s, "promos")

\* The role the detailers need is there, rbac being seeded first; they are
\* linked to those of their services and specialties that exist by then.
SeedDetailers(s) ==
  \/ LookFor(s, "detailers")
  \/ /\ Insert(s, "detailers")
     /\ wiring' = IF rows' = rows THEN wiring ELSE {c \in Linked : rows[c] > 0}

SeedNext ==
  \E s \in Servers :
    \/ Start(s) \/ Stop(s)
    \/ SeedRoles(s) \/ SeedAdminUser(s) \/ SeedCategories(s) \/ SeedSpecialties(s)
    \/ SeedServices(s) \/ SeedAddons(s) \/ SeedDetailers(s)
    \/ SeedTestimonials(s) \/ SeedFaq(s)
    \/ SeedZones(s) \/ SeedZips(s) \/ SeedCities(s) \/ SeedPromos(s)

SeedSpec == SeedInit /\ [][SeedNext]_seedVars

-----------------------------------------------------------------------------
\* A process that serves finds every catalogue, the seeded detailers offer
\* services and specialties (lifespan seeds them after what they refer to, and
\* a crash between two seeds is made good by the next start), and a start
\* fails or writes a row twice only if two processes were starting together:
\* the look before each insert makes one start after another harmless.
SeedsSettle ==
  /\ \A s \in Servers : server[s] = Serving => \A c \in Catalogues : rows[c] > 0
  /\ rows["detailers"] > 0 => wiring = Linked
  /\ ~ overlapped => /\ \A c \in Catalogues : rows[c] <= 1
                     /\ \A s \in Servers : server[s] # Failed

-----------------------------------------------------------------------------
(* The inductive invariant behind it *)

SeedTypes ==
  /\ rows \in [Catalogues -> Nat]
  /\ server \in [Servers -> {Down, Serving, Failed} \union
                    [at : {"looking", "inserting"}, step : 1 .. Len(StartUp)]]

\* What comes before the seed a process is at has been committed, by it or before it.
PastAreThere(s) ==
  /\ Starting(s) => \A i \in 1 .. (server[s].step - 1) : rows[StartUp[i]] > 0
  /\ server[s] = Serving => \A c \in Catalogues : rows[c] > 0

\* One process starts at a time: what it did not find is still not there.
OneAtATime ==
  /\ \A s, o \in Servers : Starting(s) /\ Starting(o) => s = o
  /\ \A c \in Catalogues : rows[c] <= 1
  /\ \A s \in Servers : /\ server[s] # Failed
                        /\ server[s].at = "inserting" => rows[Stage(s)] = 0

SeedInv ==
  /\ SeedTypes
  /\ \A s \in Servers : PastAreThere(s)
  /\ rows["detailers"] > 0 => wiring = Linked
  /\ ~ overlapped => OneAtATime

=============================================================================
