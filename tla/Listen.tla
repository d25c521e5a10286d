-------------------------------- MODULE Listen --------------------------------
(***************************************************************************)
(* How the Firestore client answers a get(): a listener that waits for the *)
(* backend while the client may be online and takes the cache once it is   *)
(* offline, the view and the target it opens, the watch stream that serves *)
(* it, and OnlineStateTracker, which decides what "offline" is.            *)
(*                                                                         *)
(* All of it runs on one worker queue, so each handler is an action.  The  *)
(* result of a query is one version of it.  The same query keeps its       *)
(* target id, so messages about an earlier listen to it can arrive when a  *)
(* later one is waiting.                                                   *)
(***************************************************************************)
EXTENDS Integers, Sequences, FiniteSets

CONSTANTS
  Queries,         \* what is asked for
  Gets,            \* calls of get() that may be open at once
  MaxVersion,      \* bound on the versions of a query's result
  MaxUnread,       \* bound on requests and messages under way when a get opens a target
  MaxDisruptions   \* bound on broken streams and changed networks

ASSUME BoundsAssumption ==
  /\ MaxVersion \in Nat \ {0} /\ MaxUnread \in Nat /\ MaxDisruptions \in Nat

VARIABLES
  gets,        \* the listeners
  view,        \* query_views_by_query_, and with it listen_targets_
  cache,       \* version of each result in the local store, 0 for none
  target,      \* target_states_ and pending_document_updates_
  online,      \* state_ and watch_stream_failures_ (0 or not), and the timer
  stream,      \* the watch stream
  requests,    \* requests the backend has not read, by query
  messages,    \* messages the client has not read
  watched,     \* what the backend does for each query
  cloud,       \* version of each result in the backend
  disruptions  \* broken streams and changed networks so far

vars == <<gets, view, cache, target, online, stream, requests, messages,
          watched, cloud, disruptions>>

Versions == 1..MaxVersion

Idle == [at |-> "idle"]
Get  == {Idle} \cup [at: {"listening", "answered"}, query: Queries]
View == [open: BOOLEAN, current: BOOLEAN, since: 0..MaxVersion]
Target == [outstanding: Int, current: BOOLEAN, changed: BOOLEAN, doc: 0..MaxVersion]
Online == [state: {"Unknown", "Online", "Offline"}, failed: BOOLEAN, timer: BOOLEAN]
Stream == [state: {"Initial", "Starting", "Backoff", "Open", "Error"}, idle: BOOLEAN]
Request == [kind: {"watch", "unwatch"}, resume: 0..MaxVersion]
Message == [kind: {"Added", "Removed", "Doc", "Current"}, query: Queries, version: 0..MaxVersion]
           \cup [kind: {"Snapshot"}]
Watched == [as: {"no", "added", "current"}, sent: 0..MaxVersion, due: BOOLEAN]

TypeOK ==
  /\ gets \in [Gets -> Get]
  /\ view \in [Queries -> View]
  /\ cache \in [Queries -> 0..MaxVersion]
  /\ target \in [Queries -> Target]
  /\ online \in Online
  /\ stream \in Stream
  /\ requests \in [Queries -> Seq(Request)]
  /\ messages \in Seq(Message)
  /\ watched \in [Queries -> Watched]
  /\ cloud \in [Queries -> Versions]
  /\ disruptions \in 0..MaxDisruptions

Closed  == [open |-> FALSE, current |-> FALSE, since |-> 0]
Fresh   == [outstanding |-> 0, current |-> FALSE, changed |-> FALSE, doc |-> 0]
Unknown == [state |-> "Unknown", failed |-> FALSE, timer |-> FALSE]
Stopped == [state |-> "Initial", idle |-> FALSE]
Unwatched == [as |-> "no", sent |-> 0, due |-> FALSE]

Init ==
  /\ gets = [g \in Gets |-> Idle]
  /\ view = [q \in Queries |-> Closed]
  /\ cache = [q \in Queries |-> 0]
  /\ target = [q \in Queries |-> Fresh]
  /\ online = Unknown
  /\ stream = Stopped
  /\ requests = [q \in Queries |-> <<>>] /\ messages = <<>>
  /\ watched = [q \in Queries |-> Unwatched]
  /\ cloud = [q \in Queries |-> 1]
  /\ disruptions = 0

-----------------------------------------------------------------------------
(* The online state.                                                       *)

\* HandleWatchStreamStart: the first attempt gets ten seconds.
OnStreamStart(o) ==
  IF o.failed THEN o ELSE [o EXCEPT !.state = "Unknown", !.timer = TRUE]

\* HandleWatchStreamFailure: one failed attempt is enough.
OnStreamFailure(o) ==
  IF o.state = "Online" THEN [o EXCEPT !.state = "Unknown"]
  ELSE [state |-> "Offline", failed |-> TRUE, timer |-> FALSE]

\* Mutant: the timer runs on.
UpdateStateOnly(s) == [online EXCEPT !.state = s, !.failed = FALSE]

\* UpdateState(s).
UpdateState(s) == [state |-> s, failed |-> FALSE, timer |-> FALSE]

\* Offline, no view is in sync (View::ApplyOnlineStateChange).
ViewsUnder(o, v) ==
  IF o.state = "Offline" THEN [q \in Queries |-> [v[q] EXCEPT !.current = FALSE]] ELSE v

\* ShouldRaiseInitialEvent, with wait_for_sync_when_online: in sync, or offline.
Raised(o, v) == v.current \/ o.state = "Offline"

\* The listeners that are raised when the views are v and the online state o.
Answered(o, v) ==
  [g \in Gets |-> IF gets[g].at = "listening" /\ Raised(o, v[gets[g].query])
                  THEN [gets[g] EXCEPT !.at = "answered"] ELSE gets[g]]

\* SetAndBroadcast: o is the online state now, v the views before they hear of it.
Broadcast(o, v) ==
  /\ online' = o
  /\ view' = ViewsUnder(o, v)
  /\ gets' = Answered(o, ViewsUnder(o, v))

-----------------------------------------------------------------------------
(* The stream.                                                             *)

Started == stream.state \in {"Starting", "Backoff", "Open"}
Open    == stream.state = "Open"

\* Stream::Start: at once, or after the backoff when the last one failed.
Begun(s) == [state |-> IF s = "Error" THEN "Backoff" ELSE "Starting", idle |-> FALSE]

\* What the stream carried and what was known of its targets is gone.
Forgotten ==
  /\ target' = [q \in Queries |-> Fresh]
  /\ requests' = [q \in Queries |-> <<>>] /\ messages' = <<>>
  /\ watched' = [q \in Queries |-> Unwatched]

\* SendWatchRequest and SendUnwatchRequest: a response is outstanding.
Asked(t) == [t EXCEPT !.outstanding = @ + 1]
Watch(q) == [kind |-> "watch", resume |-> cache[q]]
Unwatch  == [kind |-> "unwatch", resume |-> 0]

Disrupt == disruptions < MaxDisruptions /\ disruptions' = disruptions + 1

-----------------------------------------------------------------------------
(* Gets.                                                                   *)

\* GetDocument, AddQueryListener on a view that is there: its snapshot decides.
JoinListeners(g, q) ==
  /\ gets[g] = Idle /\ view[q].open
  /\ gets' = [gets EXCEPT ![g] =
       [at |-> IF Raised(online, view[q]) THEN "answered" ELSE "listening", query |-> q]]
  /\ UNCHANGED <<view, cache, target, online, stream, requests, messages, watched,
                 cloud, disruptions>>

\* GetDocument, the first listener: a view of the cache, then the target.
GetDocument(g, q) ==
  /\ gets[g] = Idle /\ ~view[q].open
  /\ Len(requests[q]) <= MaxUnread /\ Len(messages) <= MaxUnread
  /\ gets' = [gets EXCEPT ![g] =
       [at |-> IF online.state = "Offline" THEN "answered" ELSE "listening", query |-> q]]
  /\ view' = [view EXCEPT ![q] = [open |-> TRUE, current |-> FALSE, since |-> cloud[q]]]
  /\ IF ~Started THEN
       /\ stream' = Begun(stream.state)
       /\ online' = OnStreamStart(online)
       /\ target' = [p \in Queries |-> Fresh]
       /\ UNCHANGED requests
     ELSE IF Open THEN
       /\ stream' = [stream EXCEPT !.idle = FALSE]
       /\ target' = [target EXCEPT ![q] = Asked(@)]
       /\ requests' = [requests EXCEPT ![q] = Append(@, Watch(q))]
       /\ UNCHANGED online
     ELSE UNCHANGED <<stream, target, requests, online>>
  /\ UNCHANGED <<cache, messages, watched, cloud, disruptions>>

\* RemoveQueryListener, one of several.
LeaveListeners(g) ==
  /\ gets[g].at = "answered"
  /\ \E h \in Gets \ {g} : gets[h] # Idle /\ gets[h].query = gets[g].query
  /\ gets' = [gets EXCEPT ![g] = Idle]
  /\ UNCHANGED <<view, cache, target, online, stream, requests, messages, watched,
                 cloud, disruptions>>

\* RemoveQueryListener, the last: the view and the target go.  With no target
\* left an open stream is idle, and one that is not open says nothing of whether
\* the client is online.
StopListening(g) ==
  LET q == gets[g].query
      empty == \A p \in Queries \ {q} : ~view[p].open
  IN
  /\ gets[g].at = "answered"
  /\ \A h \in Gets \ {g} : gets[h] # Idle => gets[h].query # q
  /\ gets' = [gets EXCEPT ![g] = Idle]
  /\ view' = [view EXCEPT ![q] = Closed]
  /\ IF Open THEN
       /\ target' = [target EXCEPT ![q] = Asked(@)]
       /\ requests' = [requests EXCEPT ![q] = Append(@, Unwatch)]
       /\ stream' = [stream EXCEPT !.idle = empty]
       /\ UNCHANGED online
     ELSE
       /\ online' = IF empty THEN UpdateState("Unknown") ELSE online
       /\ UNCHANGED <<target, requests, stream>>
  /\ UNCHANGED <<cache, messages, watched, cloud, disruptions>>

-----------------------------------------------------------------------------
(* What happens to the stream.                                             *)

\* The token is there: the stream opens and all targets are asked for again.
ResumeStartWithCredentials ==
  /\ stream.state = "Starting"
  /\ stream' = [stream EXCEPT !.state = "Open"]
  /\ target' = [q \in Queries |-> IF view[q].open THEN Asked(target[q]) ELSE target[q]]
  /\ requests' = [q \in Queries |-> IF view[q].open THEN <<Watch(q)>> ELSE <<>>]
  /\ UNCHANGED <<gets, view, cache, online, messages, watched, cloud, disruptions>>

BackoffElapsed ==
  /\ stream.state = "Backoff"
  /\ stream' = [stream EXCEPT !.state = "Starting"]
  /\ UNCHANGED <<gets, view, cache, target, online, requests, messages, watched,
                 cloud, disruptions>>

\* OnWatchStreamClose with an error: tried again while there are targets.
WatchStreamFails ==
  /\ stream.state \in {"Starting", "Open"} /\ Disrupt
  /\ Forgotten
  /\ IF \E q \in Queries : view[q].open
     THEN stream' = Begun("Error") /\ Broadcast(OnStreamStart(OnStreamFailure(online)), view)
     ELSE stream' = [Stopped EXCEPT !.state = "Error"] /\ Broadcast(UpdateState("Unknown"), view)
  /\ UNCHANGED <<cache, cloud>>

\* A minute without a target: the stream is stopped.
IdleTimeout ==
  /\ stream.idle
  /\ stream' = Stopped /\ Forgotten
  /\ Broadcast(UpdateState("Unknown"), view)
  /\ UNCHANGED <<cache, cloud, disruptions>>

\* RestartNetwork: the device gets another network, or a token changes.
RestartNetwork ==
  /\ Disrupt /\ Forgotten
  /\ IF \E q \in Queries : view[q].open
     THEN stream' = Begun("Initial") /\ Broadcast(OnStreamStart(UpdateState("Unknown")), view)
     ELSE stream' = Stopped /\ Broadcast(UpdateState("Unknown"), view)
  /\ UNCHANGED <<cache, cloud>>

\* Ten seconds without a word from the backend.
OnlineStateTimeout ==
  /\ online.timer
  /\ Broadcast([online EXCEPT !.state = "Offline", !.timer = FALSE], view)
  /\ UNCHANGED <<cache, target, stream, requests, messages, watched, cloud, disruptions>>

-----------------------------------------------------------------------------
(* What the client makes of the backend's messages (WatchChangeAggregator). *)

\* Mutant: outstanding responses are not waited for.
ActiveAtOnce(q) == view[q].open

\* A target counts while it is listened to and no response is outstanding.
Active(q) == view[q].open /\ target[q].outstanding = 0

Responded(t) == [t EXCEPT !.outstanding = @ - 1]

\* Added: what was pending of an earlier listen is dropped.
TargetAdded(q) ==
  LET t == Responded(target[q]) IN
  [target EXCEPT ![q] = IF t.outstanding = 0 THEN [t EXCEPT !.changed = FALSE] ELSE t]

\* Mutant: the target is forgotten although a later listen is outstanding.
TargetRemovedAtOnce(q) == [target EXCEPT ![q] = [Fresh EXCEPT !.doc = target[q].doc]]

TargetRemoved(q) ==
  LET t == Responded(target[q]) IN
  [target EXCEPT ![q] = IF t.outstanding = 0 THEN [Fresh EXCEPT !.doc = t.doc] ELSE t]

DocumentChanged(q, v) ==
  IF Active(q) THEN [target EXCEPT ![q].changed = TRUE, ![q].doc = v] ELSE target

MarkCurrent(q) ==
  IF Active(q) THEN [target EXCEPT ![q].changed = TRUE, ![q].current = TRUE] ELSE target

\* CreateRemoteEvent, for the targets ...
Reported == [q \in Queries |-> IF Active(q) THEN [target[q] EXCEPT !.changed = FALSE, !.doc = 0]
                               ELSE [target[q] EXCEPT !.doc = 0]]

\* ... for the views, whose targets have changed ...
Synced == [q \in Queries |-> IF Active(q) /\ target[q].changed
                             THEN [view[q] EXCEPT !.current = target[q].current] ELSE view[q]]

\* ... and for the local store, which takes what is newer.
Stored == [q \in Queries |-> IF target[q].doc > cache[q] THEN target[q].doc ELSE cache[q]]

\* OnWatchStreamChange: whatever comes, the client is online.
OnWatchStreamChange ==
  LET m == Head(messages) IN
  /\ Open /\ messages # <<>>
  /\ messages' = Tail(messages)
  /\ \/ /\ m.kind # "Snapshot"
        /\ target' = CASE m.kind = "Added" -> TargetAdded(m.query)
                       [] m.kind = "Removed" -> TargetRemoved(m.query)
                       [] m.kind = "Doc" -> DocumentChanged(m.query, m.version)
                       [] m.kind = "Current" -> MarkCurrent(m.query)
        /\ Broadcast(UpdateState("Online"), view)
        /\ UNCHANGED cache
     \/ /\ m.kind = "Snapshot"
        /\ target' = Reported /\ cache' = Stored
        /\ Broadcast(UpdateState("Online"), Synced)
  /\ UNCHANGED <<stream, requests, watched, cloud, disruptions>>

-----------------------------------------------------------------------------
(* The backend, external.                                                  *)

Says(m) == messages' = Append(messages, m)
About(k, q, v) == [kind |-> k, query |-> q, version |-> v]

\* It takes up a target from where the client has it, or drops it.
BackendReads(q) ==
  /\ requests[q] # <<>>
  /\ requests' = [requests EXCEPT ![q] = Tail(@)]
  /\ LET r == Head(requests[q]) IN
       IF r.kind = "watch"
       THEN /\ watched' = [watched EXCEPT ![q] = [Unwatched EXCEPT !.as = "added", !.sent = r.resume]]
            /\ Says(About("Added", q, 0))
       ELSE /\ watched' = [watched EXCEPT ![q] = Unwatched]
            /\ Says(About("Removed", q, 0))
  /\ UNCHANGED <<gets, view, cache, target, online, stream, cloud, disruptions>>

\* It sends what the client has not got ...
BackendSends(q) ==
  /\ watched[q].as # "no" /\ watched[q].sent # cloud[q]
  /\ watched' = [watched EXCEPT ![q].sent = cloud[q], ![q].due = TRUE]
  /\ Says(About("Doc", q, cloud[q]))
  /\ UNCHANGED <<gets, view, cache, target, online, stream, requests, cloud, disruptions>>

\* ... says that this is all ...
BackendIsCurrent(q) ==
  /\ watched[q].as = "added" /\ watched[q].sent = cloud[q]
  /\ watched' = [watched EXCEPT ![q].as = "current", ![q].due = TRUE]
  /\ Says(About("Current", q, 0))
  /\ UNCHANGED <<gets, view, cache, target, online, stream, requests, cloud, disruptions>>

\* ... and closes a snapshot over all targets.
BackendSnapshot ==
  /\ \E q \in Queries : watched[q].due
  /\ watched' = [q \in Queries |-> [watched[q] EXCEPT !.due = FALSE]]
  /\ Says([kind |-> "Snapshot"])
  /\ UNCHANGED <<gets, view, cache, target, online, stream, requests, cloud, disruptions>>

\* Somebody writes.
BackendChanges(q) ==
  /\ cloud[q] < MaxVersion
  /\ cloud' = [cloud EXCEPT ![q] = @ + 1]
  /\ UNCHANGED <<gets, view, cache, target, online, stream, requests, messages, watched, disruptions>>

-----------------------------------------------------------------------------
(* The specification.                                                      *)

App ==
  \E g \in Gets :
    \/ \E q \in Queries : JoinListeners(g, q) \/ GetDocument(g, q)
    \/ LeaveListeners(g)
    \/ StopListening(g)

Client ==
  \/ ResumeStartWithCredentials \/ BackoffElapsed
  \/ OnlineStateTimeout
  \/ OnWatchStreamChange

Network == WatchStreamFails \/ RestartNetwork \/ IdleTimeout

Backend ==
  \/ \E q \in Queries : BackendReads(q) \/ BackendSends(q) \/ BackendIsCurrent(q)
  \/ BackendSnapshot

Next == App \/ Client \/ Network \/ Backend \/ \E q \in Queries : BackendChanges(q)

Spec == Init /\ [][Next]_vars

\* The client's own timers, tokens and tasks come.
ClientFairness ==
  /\ WF_vars(ResumeStartWithCredentials) /\ WF_vars(BackoffElapsed)
  /\ WF_vars(OnlineStateTimeout) /\ WF_vars(OnWatchStreamChange)

\* The backend may be silent for ever.
SilentBackendSpec == Spec /\ ClientFairness

\* It reads, sends and closes its snapshots.
FairSpec ==
  /\ Spec /\ ClientFairness
  /\ \A q \in Queries :
       WF_vars(BackendReads(q)) /\ WF_vars(BackendSends(q)) /\ WF_vars(BackendIsCurrent(q))
  /\ WF_vars(BackendSnapshot)

-----------------------------------------------------------------------------
(* What is checked.                                                        *)

\* A view in sync shows what the backend had when the view was opened, or later:
\* what is still arriving about an earlier listen to the same target, the
\* stream before this one or another target never passes for it.
SyncedIsFresh ==
  \A q \in Queries : view[q].open /\ view[q].current => cache[q] >= view[q].since

IsAnswer(m, q)  == m.kind \in {"Added", "Removed"} /\ m.query = q
IsCurrent(m, q) == m.kind = "Current" /\ m.query = q

\* The i-th of the messages s comes after all answers to requests about q.
Settled(s, i, q) == i \in DOMAIN s /\ \A j \in DOMAIN s : j >= i => ~IsAnswer(s[j], q)

\* A snapshot that covers q closes what comes up to message i.
SnapshotBehind(i, q) ==
  watched[q].due \/ \E j \in DOMAIN messages : j > i /\ messages[j].kind = "Snapshot"

\* q is to be called current, or has been, and a snapshot that says so is due.
CurrentComes(q) ==
  \/ \E i \in DOMAIN messages :
       Settled(messages, i, q) /\ IsCurrent(messages[i], q) /\ SnapshotBehind(i, q)
  \/ Active(q) /\ target[q].changed /\ target[q].current /\ SnapshotBehind(0, q)

\* A get that waits is waited for: its view could not have answered it yet, the
\* stream is under way and no idle timer will stop it, and on an open stream the
\* backend has a request to read, a target to call current, or has said so in a
\* message that will not be taken for one about an earlier listen.
NobodyWaitsInVain ==
  \A g \in Gets : gets[g].at = "listening" =>
    LET q == gets[g].query IN
    /\ view[q].open /\ ~Raised(online, view[q])
    /\ Started /\ ~stream.idle
    /\ Open => requests[q] # <<>> \/ watched[q].as = "added" \/ CurrentComes(q)

\* A get that is answered while the client is not offline is answered with what
\* the backend had when the view was opened, or later, never with the cache it
\* was told not to trust.
AnswersAreFresh ==
  [][\A g \in Gets :
       gets[g].at # "answered" /\ gets'[g].at = "answered" /\ online'.state # "Offline" =>
         LET q == gets'[g].query IN cache'[q] >= view'[q].since]_vars

\* What OnlineStateTracker asserts: its timer runs only while nothing is decided
\* and a stream is up, so it never meets another one nor fires late, and to be
\* online clears the failures.
TrackerAsserts ==
  /\ online.timer => online.state = "Unknown" /\ ~online.failed /\ Started
  /\ online.state = "Online" => ~online.failed

\* Each get is answered, from the backend or from the cache.
GetEnds ==
  \A g \in Gets : gets[g].at = "listening" ~> gets[g].at # "listening"

\* "If the timeout is reached, we transition to Offline rather than waiting
\* indefinitely": with a target, the online state is decided.
OnlineIsDecided ==
  (online.state = "Unknown" /\ \E q \in Queries : view[q].open)
    ~> (online.state # "Unknown" \/ \A q \in Queries : ~view[q].open)

\* "We have a freshly added target, so we need to reset any state that we had
\* previously": a target counted as current is one that the backend has called
\* current since it was added.
CurrentIsOfThisListen ==
  \A q \in Queries : Active(q) /\ target[q].current => watched[q].as = "current"
=============================================================================
