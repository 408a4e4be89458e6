----------------------------- MODULE StatusFeed -----------------------------
(***************************************************************************)
(* What the parties of one appointment are told of its status: the push    *)
(* notifications that the event bus sends from inside the service, the     *)
(* messages published in the appointment's room, which every socket's task *)
(* forwards in its own time, and the home screens that read their list and *)
(* join the room of the appointment that is under way.  A status change    *)
(* tells its news before it commits, an acceptance after, and three        *)
(* writers tell nobody.  A room keeps no messages.                         *)
(***************************************************************************)
EXTENDS Naturals, Sequences, FiniteSets, AppointmentFSM

CONSTANTS Changes,      \* requests that change the status
          Screens,      \* open home screens
          MaxPending,   \* bound on the messages on their way to one screen
          NoStatus

ASSUME FeedAssumption == NoStatus \notin Statuses /\ MaxPending \in Nat

Parties == {"client", "detailer"}

VARIABLES status,       \* the committed status
          reached,      \* the statuses it has had
          change,       \* the requests under way
          devices,      \* parties with a registered device token
          pushed,       \* what each party has been pushed
          screen,       \* what each screen shows, awaits and has been sent
          astray        \* a change overlapped another one, was rolled back after it
                        \* was told or not told after it was committed, or was
                        \* made by a writer that tells nobody

feedVars == <<status, reached, change, devices, pushed, screen, astray>>

NoChange == [at |-> "rest"]

\* pending: published and not forwarded yet; reading: the answer on its way, and
\* fresh unless a message has overtaken it; current: shows is not an old answer.
Closed == [subscribed |-> FALSE, pending |-> << >>, shows |-> NoStatus, current |-> FALSE,
           reading |-> NoStatus, fresh |-> FALSE]

\* A booking, or a ride that is being offered.
FeedInit ==
  /\ status \in {"pending", "searching"} /\ reached = {}
  /\ change = [c \in Changes |-> NoChange]
  /\ devices \in SUBSET Parties
  /\ pushed = [p \in Parties |-> {}]
  /\ screen = [v \in Screens |-> Closed]
  /\ astray = FALSE

Writing == { c \in Changes : change[c].at \in {"flushed", "pushed", "published"} }
Quiet   == \A c \in Changes : change[c] = NoChange

\* on_status_changed: the client hears of everything but its own cancellation.
Addressee(s) == IF s = "cancelled_by_client" THEN "detailer" ELSE "client"
Told(p) == { s \in reached : Addressee(s) = p }

-----------------------------------------------------------------------------
(* PATCH /status and POST /cancel *)

\* The appointment is loaded and the transition allowed; a status it already has
\* is no error: nothing is written, and it is announced again.
ReadStatus(c, to) ==
  /\ change[c] = NoChange
  /\ status = to \/ \E a \in Actors : MayTransition(a, status, to)
  /\ change' = [change EXCEPT ![c] =
       [at |-> IF status = to THEN "same" ELSE "read", to |-> to]]
  /\ astray' = (astray \/ ~ Quiet)
  /\ UNCHANGED <<status, reached, devices, pushed, screen>>

\* The UPDATE is flushed; it waits for another one.
FlushStatus(c) ==
  /\ change[c].at = "read" /\ Writing = {}
  /\ change' = [change EXCEPT ![c].at = "flushed"]
  /\ UNCHANGED <<status, reached, devices, pushed, screen, astray>>

\* bus.emit: errors of the handler or of Expo are logged and ignored.
PushStatus(c) ==
  LET to == change[c].to  p == Addressee(to)
  IN /\ change[c].at = "flushed"
     /\ change' = [change EXCEPT ![c].at = "pushed"]
     /\ \/ p \in devices /\ pushed' = [pushed EXCEPT ![p] = @ \union {to}]
        \/ UNCHANGED pushed
     /\ UNCHANGED <<status, reached, devices, screen, astray>>

\* A PUBLISH reaches the sockets whose task is subscribed at this moment.
SentToAll(news) ==
  [v \in Screens |-> IF screen[v].subscribed
                     THEN [screen[v] EXCEPT !.pending = Append(@, news)] ELSE screen[v]]

RoomForMore == \A v \in Screens : Len(screen[v].pending) < MaxPending

\* After the message a change has to commit; an announcement without one is done.
AfterPublish(c) == IF change[c].at = "pushed" THEN [change[c] EXCEPT !.at = "published"]
                                              ELSE NoChange

\* Variant: the route announces the status it had loaded.
PublishLoaded(c) ==
  /\ change[c].at \in {"pushed", "same", "accepted"} /\ RoomForMore
  /\ change' = [change EXCEPT ![c] = AfterPublish(c)]
  /\ screen' = SentToAll(status)
  /\ UNCHANGED <<status, reached, devices, pushed, astray>>

\* broadcast, and the PUBLISH of accept_ride.
PublishStatus(c) ==
  /\ change[c].at \in {"pushed", "same", "accepted"} /\ RoomForMore
  /\ change' = [change EXCEPT ![c] = AfterPublish(c)]
  /\ screen' = SentToAll(change[c].to)
  /\ UNCHANGED <<status, reached, devices, pushed, astray>>

CommitStatus(c) ==
  /\ change[c].at = "published"
  /\ status' = change[c].to
  /\ reached' = reached \union {change[c].to}
  /\ change' = [change EXCEPT ![c] = NoChange]
  /\ UNCHANGED <<devices, pushed, screen, astray>>

\* An error, Redis at the PUBLISH included, or the end of the process: what was sent
\* stays sent, and what was committed without a message stays untold.
ChangeFails(c) ==
  /\ change[c] # NoChange
  /\ change' = [change EXCEPT ![c] = NoChange]
  /\ astray' = (astray \/ change[c].at \in {"pushed", "published", "accepted"})
  /\ UNCHANGED <<status, reached, devices, pushed, screen>>

-----------------------------------------------------------------------------
(* PUT /rides/{id}/accept: no event, and the message after the commit *)

ReadRide(c) ==
  /\ change[c] = NoChange /\ status = "searching"
  /\ change' = [change EXCEPT ![c] = [at |-> "accepting", to |-> "confirmed"]]
  /\ astray' = (astray \/ ~ Quiet)
  /\ UNCHANGED <<status, reached, devices, pushed, screen>>

\* The UPDATE does not look at the status again.
CommitRide(c) ==
  /\ change[c].at = "accepting" /\ Writing = {}
  /\ status' = change[c].to
  /\ reached' = reached \union {change[c].to}
  /\ change' = [change EXCEPT ![c].at = "accepted"]
  /\ UNCHANGED <<devices, pushed, screen, astray>>

-----------------------------------------------------------------------------
(* The writers that tell nobody *)

WrittenQuietly(to) ==
  /\ Writing = {}
  /\ status' = to
  /\ astray' = TRUE
  /\ UNCHANGED <<reached, change, devices, pushed, screen>>

\* force_appointment_status.
ForceStatus(to) == WrittenQuietly(to)

\* _mark_no_detailer: the engine has run out of detailers, whatever the status is now.
MarkNoDetailer == WrittenQuietly("no_detailer_found")

\* The administrator's reassignment of a ride that nobody has taken.
ReviveRide ==
  /\ status \in {"searching", "no_detailer_found"}
  /\ WrittenQuietly("pending")

-----------------------------------------------------------------------------
(* Screens and devices *)

\* The statuses whose appointment a home screen keeps a socket for.
Followed == {"confirmed", "arrived", "in_progress"}

\* connect and SUBSCRIBE, once a list has been read.
Subscribe(v) ==
  /\ ~ screen[v].subscribed /\ screen[v].shows \in Followed
  /\ screen' = [screen EXCEPT ![v].subscribed = TRUE]
  /\ UNCHANGED <<status, reached, change, devices, pushed, astray>>

\* GET /mine reads the rows.  Between a PUBLISH and its commit it finds the old
\* status, and without a subscription nothing corrects the answer later.
ReadList(v) ==
  /\ screen[v].reading = NoStatus
  /\ screen' = [screen EXCEPT ![v] =
       [@ EXCEPT !.reading = status,
                 !.fresh = /\ screen[v].subscribed
                           /\ \A c \in Changes : change[c].at # "published"]]
  /\ UNCHANGED <<status, reached, change, devices, pushed, astray>>

\* The answer replaces the list, whatever was shown since it was read.
ShowList(v) ==
  /\ screen[v].reading # NoStatus
  /\ screen' = [screen EXCEPT ![v] =
       [@ EXCEPT !.shows = screen[v].reading, !.current = screen[v].fresh,
                 !.reading = NoStatus, !.fresh = FALSE]]
  /\ UNCHANGED <<status, reached, change, devices, pushed, astray>>

\* subscribe_and_forward sends the next message; onStatusChange shows it.
Forward(v) ==
  /\ screen[v].pending # << >>
  /\ screen' = [screen EXCEPT ![v] =
       [@ EXCEPT !.shows = Head(screen[v].pending), !.current = TRUE,
                 !.pending = Tail(screen[v].pending), !.fresh = FALSE]]
  /\ UNCHANGED <<status, reached, change, devices, pushed, astray>>

\* The screen keeps what it shows and the answer it awaits, now without a message
\* to correct them.
Deafened(v, subscribed) ==
  /\ screen[v].subscribed
  /\ screen' = [screen EXCEPT ![v] =
       [@ EXCEPT !.subscribed = subscribed, !.pending = << >>, !.current = FALSE, !.fresh = FALSE]]
  /\ UNCHANGED <<status, reached, change, devices, pushed, astray>>

\* The socket breaks or is closed, or a message cannot be forwarded.
Disconnect(v) == Deafened(v, FALSE)

\* The connection to Redis breaks and comes back: what was published in between is
\* gone, and the socket does not notice.
LoseMessages(v) == Deafened(v, TRUE)

RegisterDevice(p) ==
  /\ devices' = devices \union {p}
  /\ UNCHANGED <<status, reached, change, pushed, screen, astray>>

UnregisterDevice(p) ==
  /\ devices' = devices \ {p}
  /\ UNCHANGED <<status, reached, change, pushed, screen, astray>>

FeedNext ==
  \/ \E c \in Changes :
       \/ FlushStatus(c) \/ PushStatus(c) \/ PublishStatus(c) \/ CommitStatus(c) \/ ChangeFails(c)
       \/ ReadRide(c) \/ CommitRide(c)
       \/ \E to \in Statuses : ReadStatus(c, to)
  \/ MarkNoDetailer \/ ReviveRide
  \/ \E to \in Statuses : ForceStatus(to)
  \/ \E v \in Screens :
       Subscribe(v) \/ ReadList(v) \/ ShowList(v) \/ Forward(v) \/ Disconnect(v) \/ LoseMessages(v)
  \/ \E p \in Parties : RegisterDevice(p) \/ UnregisterDevice(p)

FeedSpec == FeedInit /\ [][FeedNext]_feedVars

-----------------------------------------------------------------------------
(* Properties *)

\* Between two changes, once everything published is forwarded, a subscribed screen
\* shows the status of the row although reads, answers, messages and commits cross:
\* if what it shows is a message or the answer to a read that was not made between a
\* message and its commit, or before it subscribed, and that no message overtook.  And
\* nobody has been pushed a status the appointment never had or one that is not for
\* them.  Excepted are changes that overlap, that fail between message and commit, and
\* the writers that tell nobody.
ToldWhatHappened ==
  Quiet /\ ~ astray =>
    /\ \A v \in Screens :
         screen[v].current /\ screen[v].pending = << >> => screen[v].shows = status
    /\ \A p \in Parties : pushed[p] \subseteq Told(p)

-----------------------------------------------------------------------------
(* The inductive invariant behind it *)

ChangeRow == [at : {"read", "same", "flushed", "pushed", "published", "accepting", "accepted"},
              to : Statuses]

ScreenRow == [subscribed : BOOLEAN, pending : Seq(Statuses),
              shows : Statuses \union {NoStatus}, current : BOOLEAN,
              reading : Statuses \union {NoStatus}, fresh : BOOLEAN]

FeedTypes ==
  /\ change \in [Changes -> {NoChange} \union ChangeRow]
  /\ pushed \in [Parties -> SUBSET Statuses]
  /\ screen \in [Screens -> ScreenRow]
  /\ status \in Statuses

\* The news: the row's status, or what was published and is about to be committed.
News(s) == \/ \E c \in Changes : change[c].at = "published" /\ change[c].to = s
           \/ (\A c \in Changes : change[c].at # "published") /\ s = status

\* The last message on the way to a screen s is the news; without one, what it shows
\* and the answer it awaits are.  A committed acceptance owes its message.
Follows(s) ==
  /\ ~ s.subscribed => s.pending = << >> /\ ~ s.current /\ ~ s.fresh
  /\ s.fresh => s.reading # NoStatus
  /\ (\A c \in Changes : change[c].at # "accepted") =>
       IF s.pending # << >> THEN News(s.pending[Len(s.pending)])
       ELSE /\ s.current => News(s.shows)
            /\ s.fresh => News(s.reading)

\* What was pushed is the appointment's history, or about to be.
PushFollows(p) ==
  \A s \in pushed[p] :
    /\ Addressee(s) = p
    /\ \/ s \in reached
       \/ \E c \in Changes : change[c].at \in {"pushed", "published"} /\ change[c].to = s

FeedInv ==
  /\ FeedTypes
  /\ ~ astray => /\ \A c, d \in Changes : change[c] # NoChange /\ change[d] # NoChange => c = d
                 /\ \A c \in Changes :
                      change[c].at \in {"same", "accepted"} => change[c].to = status
                 /\ \A v \in Screens : Follows(screen[v])
                 /\ \A p \in Parties : PushFollows(p)

=============================================================================
