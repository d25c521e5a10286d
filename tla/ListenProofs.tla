----------------------------- MODULE ListenProofs ------------------------------
(***************************************************************************)
(* Proofs about Listen for every set of queries and gets, any number of    *)
(* versions and disruptions.                                               *)
(*                                                                         *)
(* A target keeps its id from one listen to the next, and the backend's    *)
(* messages name the target only.  What keeps an answer to an earlier      *)
(* listen from passing for one to this is a count: the responses           *)
(* outstanding are the requests not read and the answers not read          *)
(* (Counted).  A target that counts has no answer ahead of it, so all that *)
(* is still to come was said of the listen the view was opened for         *)
(* (Settled), and each of those words is worth a version no older than     *)
(* that (FreshWords).                                                      *)
(*                                                                         *)
(* The same count keeps the "current" a listener waits for from being      *)
(* taken for one about an earlier listen and dropped: until the view is in *)
(* sync, a request, the backend or a settled message is about to bring it  *)
(* there (Served), so nobody waits in vain.                                *)
(***************************************************************************)
EXTENDS Listen, TLAPS, FiniteSetTheorems, FunctionTheorems, SequenceTheorems

-----------------------------------------------------------------------------
(* The invariant.                                                          *)

IsDoc(m, q) == m.kind = "Doc" /\ m.query = q

\* Where s holds an answer to a request about q.
AnswersIn(s, q) == {i \in DOMAIN s : IsAnswer(s[i], q)}

\* A document of the present listen is on its way.
DocComes(s, q) == \E i \in DOMAIN s : Settled(s, i, q) /\ IsDoc(s[i], q)

\* The backend has read all that was asked of q, last that it watch it.
Agreed(q) == view[q].open /\ Open /\ requests[q] = <<>>

\* The client has what the backend had when the view was opened.
Got(q) == view[q].since <= cache[q] \/ view[q].since <= target[q].doc

\* Without a stream nothing is known and nothing under way.
QuietWhenClosed ==
  ~Open => /\ target = [q \in Queries |-> Fresh]
           /\ requests = [q \in Queries |-> <<>>] /\ messages = <<>>
           /\ watched = [q \in Queries |-> Unwatched]

Counted(q) ==
  Open => target[q].outstanding = Len(requests[q]) + Cardinality(AnswersIn(messages, q))

\* The last word asked of a query with a view is to watch it, and from what the
\* cache has.
AskedLast(q) ==
  /\ view[q].open /\ requests[q] # <<>> => requests[q][Len(requests[q])].kind = "watch"
  /\ \A i \in DOMAIN requests[q] :
       requests[q][i].kind = "watch" => requests[q][i].resume <= cache[q]

ViewNotAhead(q) == view[q].open => view[q].since <= cloud[q]

\* What a settled message is worth.
DocsFresh(q) ==
  \A i \in DOMAIN messages :
    Settled(messages, i, q) /\ IsDoc(messages[i], q) => view[q].since <= messages[i].version

CurrentsFresh(q) ==
  \A i \in DOMAIN messages :
    Settled(messages, i, q) /\ IsCurrent(messages[i], q) =>
      Got(q) \/ \E j \in DOMAIN messages :
                  j < i /\ Settled(messages, j, q) /\ IsDoc(messages[j], q)

SentFresh(q) ==
  watched[q].as # "no" /\ view[q].since <= watched[q].sent => Got(q) \/ DocComes(messages, q)

FreshWords(q) == Agreed(q) => DocsFresh(q) /\ CurrentsFresh(q) /\ SentFresh(q)

ChangedIsFresh(q) == Active(q) /\ target[q].changed => Got(q)

SyncedFresh(q) == view[q].open /\ view[q].current => cache[q] >= view[q].since

QueryInv(q) ==
  /\ Counted(q) /\ AskedLast(q) /\ ViewNotAhead(q)
  /\ FreshWords(q) /\ ChangedIsFresh(q) /\ SyncedFresh(q)

IInv == TypeOK /\ QuietWhenClosed /\ \A q \in Queries : QueryInv(q)

\* The named parts.
LEMMA Parts ==
  IInv => /\ TypeOK /\ QuietWhenClosed
          /\ \A q \in Queries : /\ Counted(q) /\ AskedLast(q) /\ ViewNotAhead(q)
                                 /\ FreshWords(q) /\ ChangedIsFresh(q) /\ SyncedFresh(q)
BY DEF IInv, QueryInv

-----------------------------------------------------------------------------
(* Types.                                                                  *)

\* What the module starts from has its type.
LEMMA Constants ==
  /\ Idle \in Get /\ Closed \in View /\ Fresh \in Target /\ Unknown \in Online
  /\ Stopped \in Stream /\ Unwatched \in Watched
  /\ 0 \in 0..MaxVersion /\ MaxVersion \in Nat /\ Versions \subseteq 0..MaxVersion
BY BoundsAssumption
   DEF Idle, Get, Closed, View, Fresh, Target, Unknown, Online, Stopped, Stream,
       Unwatched, Watched, Versions

\* What the listeners and the tracker are told keeps the types.
LEMMA BroadcastType ==
  ASSUME NEW o \in Online, NEW v \in [Queries -> View], gets \in [Gets -> Get], Broadcast(o, v)
  PROVE  online' \in Online /\ view' \in [Queries -> View] /\ gets' \in [Gets -> Get]
<1>1. ViewsUnder(o, v) \in [Queries -> View]
  BY DEF ViewsUnder, View
<1>2. \A w : Answered(o, w) \in [Gets -> Get]
  <2>1. ASSUME NEW w, NEW g \in Gets PROVE Answered(o, w)[g] \in Get
    <3>1. CASE gets[g].at = "listening" /\ Raised(o, w[gets[g].query])
      <4>1. gets[g] \in [at: {"listening", "answered"}, query: Queries]
        BY <3>1 DEF Get, Idle
      <4>2. [gets[g] EXCEPT !.at = "answered"] \in [at: {"listening", "answered"}, query: Queries]
        BY <4>1
      <4>. QED BY <3>1, <4>2 DEF Answered, Get
    <3>2. CASE ~(gets[g].at = "listening" /\ Raised(o, w[gets[g].query]))
      BY <3>2 DEF Answered
    <3>. QED BY <3>1, <3>2
  <2>. QED BY <2>1 DEF Answered
<1>. QED BY <1>1, <1>2 DEF Broadcast

\* So does the tracker itself.
LEMMA TrackerType ==
  ASSUME NEW o \in Online
  PROVE  /\ OnStreamStart(o) \in Online /\ OnStreamFailure(o) \in Online
         /\ [o EXCEPT !.state = "Offline", !.timer = FALSE] \in Online
         /\ \A x \in {"Unknown", "Online", "Offline"} : UpdateState(x) \in Online
BY DEF OnStreamStart, OnStreamFailure, Online, UpdateState

LEMMA ForgottenType ==
  ASSUME Forgotten
  PROVE  /\ target' \in [Queries -> Target] /\ requests' \in [Queries -> Seq(Request)]
         /\ messages' \in Seq(Message) /\ watched' \in [Queries -> Watched]
BY Constants DEF Forgotten

LEMMA StreamType ==
  /\ \A x \in {"Initial", "Starting", "Backoff", "Open", "Error"} : Begun(x) \in Stream
  /\ [Stopped EXCEPT !.state = "Error"] \in Stream
BY DEF Begun, Stream, Stopped

\* Requests and messages.
LEMMA WordsType ==
  ASSUME TypeOK, NEW q \in Queries
  PROVE  /\ Watch(q) \in Request /\ Unwatch \in Request
         /\ \A t \in Target : Asked(t) \in Target /\ Responded(t) \in Target
         /\ \A k \in {"Added", "Removed", "Doc", "Current"}, v \in 0..MaxVersion : About(k, q, v) \in Message
         /\ [kind |-> "Snapshot"] \in Message
<1>1. Watch(q) \in Request /\ Unwatch \in Request
  BY Constants DEF TypeOK, Watch, Unwatch, Request
<1>2. \A t \in Target : Asked(t) \in Target /\ Responded(t) \in Target
  BY DEF Asked, Responded, Target
<1>3. \A k \in {"Added", "Removed", "Doc", "Current"}, v \in 0..MaxVersion : About(k, q, v) \in Message
  BY DEF About, Message
<1>4. [kind |-> "Snapshot"] \in Message
  BY DEF Message
<1>. QED BY <1>1, <1>2, <1>3, <1>4

LEMMA AppendTyped ==
  ASSUME NEW S, NEW s \in Seq(S), NEW e \in S
  PROVE  Append(s, e) \in Seq(S)
BY AppendProperties

-----------------------------------------------------------------------------

\* The app's steps keep the types.
LEMMA AppType == TypeOK /\ App => TypeOK'
<1> SUFFICES ASSUME TypeOK, App PROVE TypeOK'
  OBVIOUS
<1> USE Constants
<1>1. ASSUME NEW g \in Gets, NEW q \in Queries, JoinListeners(g, q) PROVE TypeOK'
  BY <1>1 DEF JoinListeners, TypeOK, Get
<1>2. ASSUME NEW g \in Gets, NEW q \in Queries, GetDocument(g, q) PROVE TypeOK'
  <2>1. gets' \in [Gets -> Get] /\ view' \in [Queries -> View]
    BY <1>2 DEF GetDocument, TypeOK, Get, View, Versions
  <2>2. target' \in [Queries -> Target]
    BY <1>2, WordsType DEF GetDocument, TypeOK
  <2>3. requests' \in [Queries -> Seq(Request)]
    <3>1. requests[q] \in Seq(Request) /\ Watch(q) \in Request
      BY WordsType DEF TypeOK
    <3>2. Append(requests[q], Watch(q)) \in Seq(Request)
      BY <3>1, AppendTyped
    <3>. QED BY <1>2, <3>2 DEF GetDocument, TypeOK
  <2>4. stream' \in Stream
    <3>1. stream \in Stream /\ [stream EXCEPT !.idle = FALSE] \in Stream /\ Begun(stream.state) \in Stream
      BY DEF TypeOK, Stream, Begun
    <3>2. stream' \in {stream, [stream EXCEPT !.idle = FALSE], Begun(stream.state)}
      BY <1>2 DEF GetDocument
    <3>. QED BY <3>1, <3>2
  <2>5. online' \in Online
    BY <1>2, TrackerType DEF GetDocument, TypeOK
  <2>. QED BY <1>2, <2>1, <2>2, <2>3, <2>4, <2>5 DEF GetDocument, TypeOK
<1>3. ASSUME NEW g \in Gets, LeaveListeners(g) PROVE TypeOK'
  BY <1>3 DEF LeaveListeners, TypeOK
<1>4. ASSUME NEW g \in Gets, StopListening(g) PROVE TypeOK'
  <2>1. gets[g].query \in Queries
    BY <1>4 DEF StopListening, TypeOK, Get, Idle
  <2>2. gets' \in [Gets -> Get] /\ view' \in [Queries -> View]
    BY <1>4 DEF StopListening, TypeOK
  <2>3. target' \in [Queries -> Target]
    <3>1. target[gets[g].query] \in Target /\ Asked(target[gets[g].query]) \in Target
      BY <2>1, WordsType DEF TypeOK
    <3>. QED BY <1>4, <3>1 DEF StopListening, TypeOK
  <2>4. requests' \in [Queries -> Seq(Request)]
    <3>1. requests[gets[g].query] \in Seq(Request) /\ Unwatch \in Request
      BY <2>1, WordsType DEF TypeOK
    <3>2. Append(requests[gets[g].query], Unwatch) \in Seq(Request)
      BY <3>1, AppendTyped
    <3>. QED BY <1>4, <3>2 DEF StopListening, TypeOK
  <2>5. stream' \in Stream
    BY <1>4 DEF StopListening, TypeOK, Stream
  <2>6. online' \in Online
    BY <1>4, TrackerType DEF StopListening, TypeOK
  <2>. QED BY <1>4, <2>2, <2>3, <2>4, <2>5, <2>6 DEF StopListening, TypeOK
<1>. QED BY <1>1, <1>2, <1>3, <1>4 DEF App

\* What the client makes of a message keeps the type of its targets.
LEMMA TargetType ==
  ASSUME TypeOK, NEW q \in Queries, NEW v \in 0..MaxVersion
  PROVE  /\ TargetAdded(q) \in [Queries -> Target] /\ TargetRemoved(q) \in [Queries -> Target]
         /\ DocumentChanged(q, v) \in [Queries -> Target] /\ MarkCurrent(q) \in [Queries -> Target]
<1>1. target \in [Queries -> Target] /\ Responded(target[q]) \in Target
  BY WordsType DEF TypeOK
<1>2. TargetAdded(q) \in [Queries -> Target]
  BY <1>1 DEF TargetAdded, Target
<1>3. TargetRemoved(q) \in [Queries -> Target]
  BY <1>1 DEF TargetRemoved, Target, Fresh
<1>4. DocumentChanged(q, v) \in [Queries -> Target]
  BY <1>1 DEF DocumentChanged, Target
<1>5. MarkCurrent(q) \in [Queries -> Target]
  BY <1>1 DEF MarkCurrent, Target
<1>. QED BY <1>2, <1>3, <1>4, <1>5

LEMMA SyncedType == TypeOK => Synced \in [Queries -> View]
<1> SUFFICES ASSUME TypeOK, NEW q \in Queries
             PROVE  /\ view[q] \in View
                    /\ [view[q] EXCEPT !.current = target[q].current] \in View
  BY DEF Synced
<1>. QED BY DEF TypeOK, Target, View

LEMMA MessageKnown ==
  ASSUME NEW m \in Message
  PROVE  \/ m.kind \in {"Added", "Removed", "Doc", "Current"} /\ m.query \in Queries /\ m.version \in 0..MaxVersion
         \/ m.kind = "Snapshot"
BY DEF Message

\* The client's.
LEMMA ClientType == TypeOK /\ Client => TypeOK'
<1> SUFFICES ASSUME TypeOK, Client PROVE TypeOK'
  OBVIOUS
<1> USE Constants
<1>1. CASE ResumeStartWithCredentials
  <2>1. target' \in [Queries -> Target]
    BY <1>1, WordsType DEF ResumeStartWithCredentials, TypeOK
  <2>2. requests' \in [Queries -> Seq(Request)]
    BY <1>1, WordsType DEF ResumeStartWithCredentials
  <2>. QED BY <1>1, <2>1, <2>2 DEF ResumeStartWithCredentials, TypeOK, Stream
<1>2. CASE BackoffElapsed
  BY <1>2 DEF BackoffElapsed, TypeOK, Stream
<1>3. CASE OnlineStateTimeout
  BY <1>3, BroadcastType, TrackerType DEF OnlineStateTimeout, TypeOK
<1>4. CASE OnWatchStreamChange
  <2> DEFINE m == Head(messages)
  <2>1. m \in Message /\ messages' \in Seq(Message)
    BY <1>4, HeadTailProperties DEF OnWatchStreamChange, TypeOK
  <2>2. UpdateState("Online") \in Online
    BY TrackerType
  <2>3. CASE m.kind # "Snapshot"
    <3>1. m.query \in Queries /\ m.version \in 0..MaxVersion /\ m.kind \in {"Added", "Removed", "Doc", "Current"}
      BY <2>1, <2>3, MessageKnown
    <3>2. target' \in [Queries -> Target]
      BY <1>4, <2>3, <3>1, TargetType DEF OnWatchStreamChange
    <3>3. Broadcast(UpdateState("Online"), view) /\ UNCHANGED cache
      BY <1>4, <2>3 DEF OnWatchStreamChange
    <3>. QED BY <1>4, <2>1, <2>2, <3>2, <3>3, BroadcastType DEF OnWatchStreamChange, TypeOK
  <2>4. CASE m.kind = "Snapshot"
    <3>1. target' = Reported /\ cache' = Stored /\ Broadcast(UpdateState("Online"), Synced)
      BY <1>4, <2>4 DEF OnWatchStreamChange
    <3>2. Reported \in [Queries -> Target] /\ Stored \in [Queries -> 0..MaxVersion]
      BY DEF Reported, Stored, TypeOK, Target
    <3>3. Synced \in [Queries -> View]
      BY SyncedType
    <3>. QED BY <1>4, <2>1, <2>2, <3>1, <3>2, <3>3, BroadcastType DEF OnWatchStreamChange, TypeOK
  <2>. QED BY <2>3, <2>4
<1>. QED BY <1>1, <1>2, <1>3, <1>4 DEF Client

\* The network's.
LEMMA NetworkType == TypeOK /\ Network => TypeOK'
<1> SUFFICES ASSUME TypeOK, Network PROVE TypeOK'
  OBVIOUS
<1> USE Constants
<1>1. Forgotten /\ UNCHANGED <<cache, cloud>> /\ disruptions' \in 0..MaxDisruptions
  BY BoundsAssumption DEF Network, WatchStreamFails, RestartNetwork, IdleTimeout, Disrupt, TypeOK
<1>2. stream' \in Stream
  BY StreamType DEF Network, WatchStreamFails, RestartNetwork, IdleTimeout
<1>3. \E o \in Online : Broadcast(o, view)
  <2>1. online \in Online /\ UpdateState("Unknown") \in Online
    BY TrackerType DEF TypeOK
  <2>2. OnStreamStart(OnStreamFailure(online)) \in Online /\ OnStreamStart(UpdateState("Unknown")) \in Online
    BY <2>1, TrackerType
  <2>. QED BY <2>1, <2>2 DEF Network, WatchStreamFails, RestartNetwork, IdleTimeout
<1>. QED BY <1>1, <1>2, <1>3, BroadcastType, ForgottenType DEF TypeOK

\* The backend's.
LEMMA BackendType == TypeOK /\ (Backend \/ \E q \in Queries : BackendChanges(q)) => TypeOK'
<1> SUFFICES ASSUME TypeOK, Backend \/ \E q \in Queries : BackendChanges(q) PROVE TypeOK'
  OBVIOUS
<1> USE Constants
<1>1. ASSUME NEW q \in Queries, BackendReads(q) PROVE TypeOK'
  <2>1. requests[q] \in Seq(Request) /\ requests[q] # <<>>
    BY <1>1 DEF BackendReads, TypeOK
  <2>2. Head(requests[q]) \in Request /\ Tail(requests[q]) \in Seq(Request)
    BY <2>1, HeadTailProperties
  <2>3. requests' \in [Queries -> Seq(Request)]
    BY <1>1, <2>2 DEF BackendReads, TypeOK
  <2>4. watched' \in [Queries -> Watched]
    <3>1. /\ [Unwatched EXCEPT !.as = "added", !.sent = Head(requests[q]).resume] \in Watched
          /\ Unwatched \in Watched
      BY <2>2 DEF Watched, Request, Unwatched
    <3>. QED BY <1>1, <3>1 DEF BackendReads, TypeOK
  <2>5. messages' \in Seq(Message)
    <3>1. messages \in Seq(Message) /\ About("Added", q, 0) \in Message /\ About("Removed", q, 0) \in Message
      BY WordsType DEF TypeOK
    <3>2. messages' = Append(messages, About("Added", q, 0)) \/ messages' = Append(messages, About("Removed", q, 0))
      BY <1>1 DEF BackendReads, Says
    <3>. QED BY <3>1, <3>2, AppendTyped
  <2>. QED BY <1>1, <2>3, <2>4, <2>5 DEF BackendReads, TypeOK
<1>2. ASSUME NEW q \in Queries, BackendSends(q) PROVE TypeOK'
  <2>1. cloud[q] \in 0..MaxVersion
    BY DEF TypeOK
  <2>2. watched' \in [Queries -> Watched]
    BY <1>2, <2>1 DEF BackendSends, TypeOK, Watched
  <2>3. messages' \in Seq(Message)
    BY <1>2, <2>1, WordsType, AppendTyped DEF BackendSends, TypeOK, Says
  <2>. QED BY <1>2, <2>2, <2>3 DEF BackendSends, TypeOK
<1>3. ASSUME NEW q \in Queries, BackendIsCurrent(q) PROVE TypeOK'
  <2>1. watched' \in [Queries -> Watched]
    BY <1>3 DEF BackendIsCurrent, TypeOK, Watched
  <2>2. messages' \in Seq(Message)
    BY <1>3, WordsType, AppendTyped DEF BackendIsCurrent, TypeOK, Says
  <2>. QED BY <1>3, <2>1, <2>2 DEF BackendIsCurrent, TypeOK
<1>4. CASE BackendSnapshot
  <2>1. watched' \in [Queries -> Watched]
    BY <1>4 DEF BackendSnapshot, TypeOK, Watched
  <2>2. messages' \in Seq(Message)
    <3>1. [kind |-> "Snapshot"] \in Message
      BY DEF Message
    <3>. QED BY <1>4, <3>1, AppendTyped DEF BackendSnapshot, TypeOK, Says
  <2>. QED BY <1>4, <2>1, <2>2 DEF BackendSnapshot, TypeOK
<1>5. ASSUME NEW q \in Queries, BackendChanges(q) PROVE TypeOK'
  BY <1>5 DEF BackendChanges, TypeOK, Versions
<1>. QED BY <1>1, <1>2, <1>3, <1>4, <1>5 DEF Backend

LEMMA TypeInit == Init => TypeOK
BY Constants, BoundsAssumption DEF Init, TypeOK, Versions

LEMMA TypeNext == TypeOK /\ [Next]_vars => TypeOK'
<1>1. CASE UNCHANGED vars
  BY <1>1 DEF vars, TypeOK
<1>. QED BY <1>1, AppType, ClientType, NetworkType, BackendType DEF Next

\* Type correctness of the client's and the backend's state.
THEOREM TypeCorrect == Spec => []TypeOK
BY TypeInit, TypeNext, PTL DEF Spec

-----------------------------------------------------------------------------
(* The tracker.                                                            *)

\* OnlineStateTracker's assertions hold wherever it is called from: its timer
\* runs only while a stream is up and nothing is decided.
THEOREM TrackerIsAsAsserted == Spec => []TrackerAsserts
<1>1. Init => TrackerAsserts
  BY DEF Init, TrackerAsserts, Unknown
<1>2. TypeOK /\ TrackerAsserts /\ [Next]_vars => TrackerAsserts'
  <2> SUFFICES ASSUME TypeOK, TrackerAsserts, [Next]_vars PROVE TrackerAsserts'
    OBVIOUS
  <2>1. online \in Online /\ stream \in Stream
    BY DEF TypeOK
  <2> USE DEF TrackerAsserts, Started, OnStreamStart, OnStreamFailure, UpdateState, Broadcast, Begun, Stopped
  <2>2. CASE App
    <3>1. ASSUME NEW g \in Gets, NEW q \in Queries, JoinListeners(g, q) PROVE TrackerAsserts'
      BY <3>1 DEF JoinListeners
    <3>2. ASSUME NEW g \in Gets, NEW q \in Queries, GetDocument(g, q) PROVE TrackerAsserts'
      <4>1. CASE ~Started
        <5>1. stream'.state \in {"Starting", "Backoff"} /\ online' = OnStreamStart(online)
          BY <3>2, <4>1 DEF GetDocument
        <5>. QED BY <2>1, <5>1 DEF Online
      <4>2. CASE Started
        BY <2>1, <3>2, <4>2 DEF GetDocument, Online, Stream
      <4>. QED BY <4>1, <4>2
    <3>3. ASSUME NEW g \in Gets, LeaveListeners(g) PROVE TrackerAsserts'
      BY <3>3 DEF LeaveListeners
    <3>4. ASSUME NEW g \in Gets, StopListening(g) PROVE TrackerAsserts'
      BY <2>1, <3>4 DEF StopListening, Stream, Open
    <3>. QED BY <2>2, <3>1, <3>2, <3>3, <3>4 DEF App
  <2>3. CASE Client
    <3>1. CASE ResumeStartWithCredentials
      BY <2>1, <3>1 DEF ResumeStartWithCredentials, Stream
    <3>2. CASE BackoffElapsed
      BY <2>1, <3>2 DEF BackoffElapsed, Stream
    <3>3. CASE OnlineStateTimeout
      BY <2>1, <3>3 DEF OnlineStateTimeout, Online
    <3>4. CASE OnWatchStreamChange
      BY <2>1, <3>4 DEF OnWatchStreamChange
    <3>. QED BY <2>3, <3>1, <3>2, <3>3, <3>4 DEF Client
  <2>4. CASE Network
    <3>1. \/ online' = UpdateState("Unknown")
          \/ online' = OnStreamStart(UpdateState("Unknown")) /\ stream' = Begun("Initial")
          \/ online' = OnStreamStart(OnStreamFailure(online)) /\ stream' = Begun("Error")
      BY <2>4 DEF Network, WatchStreamFails, RestartNetwork, IdleTimeout
    <3>2. Begun("Initial").state = "Starting" /\ Begun("Error").state = "Backoff"
      OBVIOUS
    <3>3. /\ OnStreamFailure(online) \in Online
          /\ OnStreamFailure(online).timer = FALSE /\ OnStreamFailure(online).state # "Online"
      BY <2>1 DEF Online
    <3>4. ASSUME NEW o \in Online, o.timer = FALSE, o.state # "Online",
                 online' = OnStreamStart(o), stream'.state \in {"Starting", "Backoff"}
          PROVE  TrackerAsserts'
      BY <3>4 DEF Online
    <3>5. UpdateState("Unknown") \in Online
      BY DEF Online
    <3>6. CASE online' = UpdateState("Unknown")
      BY <3>6
    <3>7. CASE online' = OnStreamStart(UpdateState("Unknown")) /\ stream' = Begun("Initial")
      BY <3>2, <3>4, <3>5, <3>7
    <3>8. CASE online' = OnStreamStart(OnStreamFailure(online)) /\ stream' = Begun("Error")
      <4> DEFINE o == OnStreamFailure(online)
      <4>1. o \in Online /\ o.timer = FALSE /\ o.state # "Online"
        BY <3>3
      <4>2. online' = OnStreamStart(o) /\ stream'.state \in {"Starting", "Backoff"}
        BY <3>2, <3>8
      <4> HIDE DEF o
      <4>. QED BY <3>4, <4>1, <4>2
    <3>. QED BY <3>1, <3>6, <3>7, <3>8
  <2>5. CASE Backend \/ \E q \in Queries : BackendChanges(q)
    BY <2>5 DEF Backend, BackendReads, BackendSends, BackendIsCurrent, BackendSnapshot, BackendChanges
  <2>6. CASE UNCHANGED vars
    BY <2>6 DEF vars
  <2>. QED BY <2>2, <2>3, <2>4, <2>5, <2>6 DEF Next
<1>. QED BY <1>1, <1>2, TypeCorrect, PTL DEF Spec
-----------------------------------------------------------------------------
(* Answers in a sequence of messages.                                      *)

LEMMA AnswersFinite ==
  ASSUME NEW s \in Seq(Message), NEW q
  PROVE  /\ IsFiniteSet(AnswersIn(s, q)) /\ Cardinality(AnswersIn(s, q)) \in Nat
         /\ Cardinality(AnswersIn(s, q)) = 0 <=> \A i \in DOMAIN s : ~IsAnswer(s[i], q)
<1>1. Len(s) \in Nat /\ DOMAIN s = 1..Len(s)
  BY LenProperties
<1>2. IsFiniteSet(1..Len(s)) /\ AnswersIn(s, q) \in SUBSET (1..Len(s))
  BY <1>1, FS_Interval DEF AnswersIn
<1>3. IsFiniteSet(AnswersIn(s, q))
  BY <1>2, FS_Subset
<1>4. Cardinality(AnswersIn(s, q)) \in Nat /\ (Cardinality(AnswersIn(s, q)) = 0 <=> AnswersIn(s, q) = {})
  BY <1>3, FS_CardinalityType, FS_EmptySet
<1>. QED BY <1>3, <1>4 DEF AnswersIn

LEMMA AnswersAppend ==
  ASSUME NEW s \in Seq(Message), NEW m \in Message, NEW q
  PROVE  Cardinality(AnswersIn(Append(s, m), q))
           = Cardinality(AnswersIn(s, q)) + IF IsAnswer(m, q) THEN 1 ELSE 0
<1> DEFINE a == Append(s, m)
           A == AnswersIn(s, q)
<1>1. /\ Len(s) \in Nat /\ DOMAIN s = 1..Len(s) /\ DOMAIN a = 1..(Len(s) + 1)
      /\ a[Len(s) + 1] = m /\ \A i \in 1..Len(s) : a[i] = s[i]
  BY LenProperties, AppendProperties
<1>2. AnswersIn(a, q) = IF IsAnswer(m, q) THEN A \cup {Len(s) + 1} ELSE A
  <2>1. \A i : i \in DOMAIN a <=> i \in DOMAIN s \/ i = Len(s) + 1
    BY <1>1
  <2>2. \A i \in DOMAIN s : a[i] = s[i]
    BY <1>1
  <2>3. a[Len(s) + 1] = m
    BY <1>1
  <2> HIDE DEF a
  <2>. QED BY <2>1, <2>2, <2>3 DEF AnswersIn
<1>3. Len(s) + 1 \notin A
  BY <1>1 DEF AnswersIn
<1>4. IsFiniteSet(A) /\ Cardinality(A) \in Nat
  BY AnswersFinite
<1>5. Cardinality(A \cup {Len(s) + 1}) = Cardinality(A) + 1
  BY <1>3, <1>4, FS_AddElement
<1> HIDE DEF A, a
<1>6. Cardinality(AnswersIn(a, q)) = Cardinality(A) + IF IsAnswer(m, q) THEN 1 ELSE 0
  BY <1>2, <1>4, <1>5
<1>. QED BY <1>6 DEF A, a

LEMMA AnswersTail ==
  ASSUME NEW s \in Seq(Message), s # <<>>, NEW q
  PROVE  Cardinality(AnswersIn(s, q))
           = Cardinality(AnswersIn(Tail(s), q)) + IF IsAnswer(Head(s), q) THEN 1 ELSE 0
<1> DEFINE t == Tail(s)
           T == AnswersIn(t, q)
           S == AnswersIn(s, q) \ {1}
           f == [i \in T |-> i + 1]
<1>1. /\ t \in Seq(Message) /\ Len(s) \in Nat \ {0} /\ DOMAIN s = 1..Len(s)
      /\ DOMAIN t = 1..(Len(s) - 1) /\ \A i \in 1..(Len(s) - 1) : t[i] = s[i + 1]
  BY LenProperties, HeadTailProperties, EmptySeq
<1>2. Head(s) = s[1]
  OBVIOUS
<1>3. \A i \in T : i \in Int /\ i + 1 \in S
  BY <1>1 DEF AnswersIn
<1>4. \A j \in S : j \in Int /\ j - 1 \in T /\ (j - 1) + 1 = j
  BY <1>1 DEF AnswersIn
<1>5. IsFiniteSet(T) /\ Cardinality(T) \in Nat
  BY <1>1, AnswersFinite
<1>6. IsFiniteSet(S) /\ Cardinality(S) = Cardinality(T)
  <2> HIDE DEF S, T
  <2>1. f \in [T -> S] /\ \A i, j \in T : f[i] = f[j] => i = j
    BY <1>3
  <2>2. \A j \in S : \E i \in T : f[i] = j
    BY <1>4
  <2>3. f \in Bijection(T, S)
    BY <2>1, <2>2, Fun_IsBij
  <2>4. ExistsBijection(T, S)
    BY <2>3 DEF ExistsBijection
  <2>. QED BY <1>5, <2>4, FS_Bijection
<1>7. AnswersIn(s, q) = IF IsAnswer(Head(s), q) THEN S \cup {1} ELSE S
  BY <1>1, <1>2 DEF AnswersIn
<1>8. Cardinality(S \cup {1}) = Cardinality(S) + 1
  <2>1. 1 \notin S
    OBVIOUS
  <2>. QED BY <1>6, <2>1, FS_AddElement
<1> HIDE DEF S, T, t
<1>9. Cardinality(AnswersIn(s, q)) = Cardinality(T) + IF IsAnswer(Head(s), q) THEN 1 ELSE 0
  BY <1>5, <1>6, <1>7, <1>8
<1>. QED BY <1>9 DEF T, t

\* A message at the end is settled unless it is an answer, and an answer
\* unsettles all before it.
LEMMA SettledAppend ==
  ASSUME NEW s \in Seq(Message), NEW m \in Message, NEW q
  PROVE  /\ DOMAIN Append(s, m) = 1..(Len(s) + 1) /\ DOMAIN s = 1..Len(s) /\ Len(s) \in Nat
         /\ Append(s, m)[Len(s) + 1] = m /\ \A i \in DOMAIN s : Append(s, m)[i] = s[i]
         /\ IsAnswer(m, q) => \A i : ~Settled(Append(s, m), i, q)
         /\ ~IsAnswer(m, q) => /\ Settled(Append(s, m), Len(s) + 1, q)
                               /\ \A i \in DOMAIN s : Settled(Append(s, m), i, q) <=> Settled(s, i, q)
<1> DEFINE a == Append(s, m)
<1>1. /\ Len(s) \in Nat /\ DOMAIN s = 1..Len(s) /\ DOMAIN a = 1..(Len(s) + 1)
      /\ a[Len(s) + 1] = m /\ \A i \in DOMAIN s : a[i] = s[i]
  BY LenProperties, AppendProperties
<1> HIDE DEF a
<1>2. IsAnswer(m, q) => \A i : ~Settled(a, i, q)
  BY <1>1 DEF Settled
<1>3. ASSUME ~IsAnswer(m, q) PROVE Settled(a, Len(s) + 1, q)
  <2>1. \A j \in DOMAIN a : j >= Len(s) + 1 => j = Len(s) + 1
    BY <1>1
  <2>. QED BY <1>1, <1>3, <2>1 DEF Settled
<1>4. ASSUME ~IsAnswer(m, q), NEW i \in DOMAIN s PROVE Settled(a, i, q) <=> Settled(s, i, q)
  <2>1. \A j : j \in DOMAIN a <=> j \in DOMAIN s \/ j = Len(s) + 1
    BY <1>1
  <2>. QED BY <1>1, <1>4, <2>1 DEF Settled
<1>. QED BY <1>1, <1>2, <1>3, <1>4 DEF a

\* The rest of the messages.
LEMMA SettledTail ==
  ASSUME NEW s \in Seq(Message), s # <<>>, NEW q
  PROVE  /\ DOMAIN s = 1..Len(s) /\ Len(s) \in Nat \ {0} /\ DOMAIN Tail(s) = 1..(Len(s) - 1)
         /\ Head(s) = s[1]
         /\ \A i \in DOMAIN Tail(s) :
              /\ i \in Nat /\ i + 1 \in DOMAIN s /\ Tail(s)[i] = s[i + 1]
              /\ Settled(Tail(s), i, q) <=> Settled(s, i + 1, q)
         /\ \A j \in DOMAIN s : j # 1 => j - 1 \in DOMAIN Tail(s) /\ (j - 1) + 1 = j
<1> DEFINE t == Tail(s)
<1>1. /\ Len(s) \in Nat \ {0} /\ DOMAIN s = 1..Len(s)
      /\ DOMAIN t = 1..(Len(s) - 1) /\ \A i \in 1..(Len(s) - 1) : t[i] = s[i + 1]
  BY LenProperties, HeadTailProperties, EmptySeq
<1>2. Head(s) = s[1]
  OBVIOUS
<1> HIDE DEF t
<1>3. \A j \in DOMAIN s : j # 1 => j - 1 \in DOMAIN t /\ (j - 1) + 1 = j
  BY <1>1
<1>4. ASSUME NEW i \in DOMAIN t
      PROVE  /\ i \in Nat /\ i + 1 \in DOMAIN s /\ t[i] = s[i + 1]
             /\ Settled(t, i, q) <=> Settled(s, i + 1, q)
  <2>1. i \in Nat /\ i + 1 \in DOMAIN s /\ t[i] = s[i + 1]
    BY <1>1
  <2>2. ASSUME Settled(t, i, q), NEW j \in DOMAIN s, j >= i + 1 PROVE ~IsAnswer(s[j], q)
    <3>1. j - 1 \in DOMAIN t /\ j - 1 >= i /\ t[j - 1] = s[j]
      BY <1>1, <2>1, <2>2
    <3>. QED BY <2>2, <3>1 DEF Settled
  <2>3. ASSUME Settled(s, i + 1, q), NEW j \in DOMAIN t, j >= i PROVE ~IsAnswer(t[j], q)
    <3>1. j + 1 \in DOMAIN s /\ j + 1 >= i + 1 /\ t[j] = s[j + 1]
      BY <1>1, <2>1, <2>3
    <3>. QED BY <2>3, <3>1 DEF Settled
  <2>. QED BY <2>1, <2>2, <2>3 DEF Settled
<1>. QED BY <1>1, <1>2, <1>3, <1>4 DEF t

-----------------------------------------------------------------------------
(* Steps that leave most of it alone.                                      *)

\* A query of which nothing is read, said or asked keeps what is known of it.
LEMMA Untouched ==
  ASSUME IInv, NEW q \in Queries, messages' = messages, Open' <=> Open, cache' = cache,
         requests'[q] = requests[q], target'[q] = target[q], watched'[q] = watched[q],
         view'[q].open = view[q].open, view'[q].since = view[q].since,
         view'[q].current => view[q].current, cloud'[q] \in Nat, cloud'[q] >= cloud[q]
  PROVE  QueryInv(q)'
<1>1. /\ view[q] \in View /\ cloud[q] \in Nat /\ cloud'[q] >= cloud[q] /\ view[q].since \in Nat
  BY Parts, BoundsAssumption DEF TypeOK, View, Versions
<1>2. Counted(q)'
  BY Parts DEF Counted
<1>3. AskedLast(q)'
  BY Parts DEF AskedLast
<1>4. ViewNotAhead(q)'
  <2>1. ViewNotAhead(q)
    BY Parts
  <2>2. ASSUME view'[q].open PROVE view'[q].since <= cloud'[q]
    BY <1>1, <2>1, <2>2 DEF ViewNotAhead
  <2>. QED BY <2>2 DEF ViewNotAhead
<1>5. FreshWords(q)'
  <2>1. FreshWords(q)
    BY Parts
  <2>2. (Agreed(q)' <=> Agreed(q)) /\ (Got(q)' <=> Got(q))
    BY DEF Agreed, Got
  <2>3. DocsFresh(q) => DocsFresh(q)'
    BY DEF DocsFresh
  <2>4. CurrentsFresh(q) => CurrentsFresh(q)'
    BY <2>2 DEF CurrentsFresh
  <2>5. SentFresh(q) => SentFresh(q)'
    BY <2>2 DEF SentFresh
  <2>. QED BY <2>1, <2>2, <2>3, <2>4, <2>5 DEF FreshWords
<1>6. ChangedIsFresh(q)'
  BY Parts DEF ChangedIsFresh, Active, Got
<1>7. SyncedFresh(q)'
  BY Parts DEF SyncedFresh
<1>. QED BY <1>2, <1>3, <1>4, <1>5, <1>6, <1>7 DEF QueryInv

\* No stream, nothing under way: only what the views show can be wrong.
LEMMA WithoutStream ==
  ASSUME ~Open', target' = [q \in Queries |-> Fresh],
         requests' = [q \in Queries |-> <<>>], messages' = <<>>,
         watched' = [q \in Queries |-> Unwatched],
         \A q \in Queries : ViewNotAhead(q)' /\ SyncedFresh(q)'
  PROVE  QuietWhenClosed' /\ \A q \in Queries : QueryInv(q)'
<1>1. QuietWhenClosed'
  BY DEF QuietWhenClosed
<1>2. ASSUME NEW q \in Queries PROVE QueryInv(q)'
  <2>1. Counted(q)'
    BY DEF Counted
  <2>2. AskedLast(q)'
    BY DEF AskedLast
  <2>3. FreshWords(q)'
    BY DEF FreshWords, Agreed
  <2>4. ChangedIsFresh(q)'
    BY DEF ChangedIsFresh, Fresh
  <2>. QED BY <2>1, <2>2, <2>3, <2>4 DEF QueryInv
<1>. QED BY <1>1, <1>2

\* What the listeners hear takes no view's place and puts none in sync.
LEMMA BroadcastViews ==
  ASSUME NEW o \in Online, NEW v \in [Queries -> View], Broadcast(o, v), NEW q \in Queries
  PROVE  /\ view'[q].open = v[q].open /\ view'[q].since = v[q].since
         /\ view'[q].current => v[q].current
<1>1. v[q] \in View
  OBVIOUS
<1>. QED BY <1>1 DEF Broadcast, ViewsUnder, View

-----------------------------------------------------------------------------
(* Gets.                                                                   *)

LEMMA GetDocumentFresh ==
  ASSUME IInv, NEW g \in Gets, NEW q \in Queries, GetDocument(g, q)
  PROVE  QuietWhenClosed' /\ \A p \in Queries : QueryInv(p)'
<1>1. /\ view' = [view EXCEPT ![q] = [open |-> TRUE, current |-> FALSE, since |-> cloud[q]]]
      /\ UNCHANGED <<cache, messages, watched, cloud>>
  BY DEF GetDocument
<1>2. /\ TypeOK /\ view'[q] = [open |-> TRUE, current |-> FALSE, since |-> cloud[q]]
      /\ cloud[q] \in Nat /\ \A p \in Queries : p # q => view'[p] = view[p]
  BY <1>1, Parts, BoundsAssumption DEF TypeOK, Versions
<1>3. \A p \in Queries : ViewNotAhead(p)' /\ SyncedFresh(p)'
  <2>1. ViewNotAhead(q)' /\ SyncedFresh(q)'
    BY <1>1, <1>2 DEF ViewNotAhead, SyncedFresh
  <2>2. \A p \in Queries : p # q => ViewNotAhead(p)' /\ SyncedFresh(p)'
    BY <1>1, <1>2, Parts DEF ViewNotAhead, SyncedFresh
  <2>. QED BY <2>1, <2>2
<1>4. CASE ~Open
  <2>1. ~Open' /\ target' = [p \in Queries |-> Fresh] /\ requests' = requests
    <3>1. target = [p \in Queries |-> Fresh]
      BY <1>4, Parts DEF QuietWhenClosed
    <3>2. CASE ~Started
      BY <3>2 DEF GetDocument, Open, Begun
    <3>3. CASE Started
      BY <1>4, <3>1, <3>3 DEF GetDocument, Open
    <3>. QED BY <3>2, <3>3
  <2>2. /\ requests' = [p \in Queries |-> <<>>] /\ messages' = <<>>
        /\ watched' = [p \in Queries |-> Unwatched]
    BY <1>1, <1>4, <2>1, Parts DEF QuietWhenClosed
  <2>. QED BY <1>3, <2>1, <2>2, WithoutStream
<1>5. CASE Open
  <2>1. /\ stream' = [stream EXCEPT !.idle = FALSE]
        /\ target' = [target EXCEPT ![q] = Asked(@)]
        /\ requests' = [requests EXCEPT ![q] = Append(@, Watch(q))]
    BY <1>5 DEF GetDocument, Started, Open
  <2>2. Open'
    BY <1>2, <1>5, <2>1 DEF Open, TypeOK, Stream
  <2>3. ASSUME NEW p \in Queries, p # q PROVE QueryInv(p)'
    <3>1. requests'[p] = requests[p] /\ target'[p] = target[p] /\ cloud'[p] \in Nat /\ cloud'[p] >= cloud[p]
      BY <1>1, <1>2, <2>1, <2>3, BoundsAssumption DEF TypeOK, Versions
    <3>. QED BY <1>1, <1>2, <1>5, <2>2, <2>3, <3>1, Untouched
  <2>4. QueryInv(q)'
    <3>1. /\ requests[q] \in Seq(Request) /\ Watch(q) \in Request /\ messages \in Seq(Message)
          /\ target[q] \in Target
      BY <1>2, WordsType DEF TypeOK
    <3>2. /\ requests'[q] = Append(requests[q], Watch(q))
          /\ target'[q] = Asked(target[q])
      BY <1>2, <2>1 DEF TypeOK
    <3>3. target'[q].outstanding = target[q].outstanding + 1
      BY <3>1, <3>2 DEF Asked, Target
    <3>4. /\ Len(requests[q]) \in Nat /\ Len(requests'[q]) = Len(requests[q]) + 1
          /\ requests'[q][Len(requests[q]) + 1] = Watch(q)
          /\ \A i \in 1..Len(requests[q]) : requests'[q][i] = requests[q][i]
          /\ DOMAIN requests[q] = 1..Len(requests[q])
          /\ DOMAIN requests'[q] = 1..(Len(requests[q]) + 1)
      BY <3>1, <3>2, LenProperties, AppendProperties
    <3>5. Cardinality(AnswersIn(messages, q)) \in Nat
      BY <3>1, AnswersFinite
    <3>6. target[q].outstanding = Len(requests[q]) + Cardinality(AnswersIn(messages, q))
      BY <1>5, Parts DEF Counted
    <3>7. Counted(q)'
      BY <1>1, <3>3, <3>4, <3>5, <3>6 DEF Counted
    <3>8. AskedLast(q)'
      <4>1. requests'[q][Len(requests'[q])].kind = "watch"
        BY <3>4 DEF Watch
      <4>2. ASSUME NEW i \in DOMAIN requests'[q], requests'[q][i].kind = "watch"
            PROVE  requests'[q][i].resume <= cache[q]
        <5>1. CASE i = Len(requests[q]) + 1
          <6>1. cache[q] \in Nat
            BY <1>2, BoundsAssumption DEF TypeOK
          <6>2. requests'[q][i].resume = cache[q]
            BY <3>4, <5>1 DEF Watch
          <6>. QED BY <6>1, <6>2
        <5>2. CASE i \in 1..Len(requests[q])
          BY <3>4, <4>2, <5>2, Parts DEF AskedLast
        <5>. QED BY <3>4, <5>1, <5>2
      <4>. QED BY <1>1, <4>1, <4>2 DEF AskedLast
    <3>9. requests'[q] # <<>> /\ target'[q].outstanding # 0
      BY <3>3, <3>4, <3>5, <3>6
    <3>10. FreshWords(q)' /\ ChangedIsFresh(q)'
      BY <3>9 DEF FreshWords, Agreed, ChangedIsFresh, Active
    <3>. QED BY <1>3, <3>7, <3>8, <3>10 DEF QueryInv
  <2>. QED BY <2>2, <2>3, <2>4 DEF QuietWhenClosed
<1>. QED BY <1>4, <1>5

LEMMA StopListeningFresh ==
  ASSUME IInv, NEW g \in Gets, StopListening(g)
  PROVE  QuietWhenClosed' /\ \A p \in Queries : QueryInv(p)'
<1>1. PICK q \in Queries : q = gets[g].query
  BY Parts DEF StopListening, TypeOK, Get, Idle
<1>2. /\ view' = [view EXCEPT ![q] = Closed] /\ UNCHANGED <<cache, messages, watched, cloud>>
  BY <1>1 DEF StopListening
<1>3. /\ TypeOK /\ view'[q] = Closed /\ \A p \in Queries : p # q => view'[p] = view[p]
  BY <1>1, <1>2, Parts DEF TypeOK
<1>4. \A p \in Queries : ViewNotAhead(p)' /\ SyncedFresh(p)'
  <2>1. ViewNotAhead(q)' /\ SyncedFresh(q)'
    BY <1>3 DEF ViewNotAhead, SyncedFresh, Closed
  <2>2. \A p \in Queries : p # q => ViewNotAhead(p)' /\ SyncedFresh(p)'
    BY <1>2, <1>3, Parts DEF ViewNotAhead, SyncedFresh
  <2>. QED BY <2>1, <2>2
<1>5. CASE ~Open
  <2>1. UNCHANGED <<target, requests, stream>>
    BY <1>5 DEF StopListening
  <2>2. /\ ~Open' /\ target' = [p \in Queries |-> Fresh] /\ requests' = [p \in Queries |-> <<>>]
        /\ messages' = <<>> /\ watched' = [p \in Queries |-> Unwatched]
    BY <1>2, <1>5, <2>1, Parts DEF QuietWhenClosed, Open
  <2>. QED BY <1>4, <2>2, WithoutStream
<1>6. CASE Open
  <2>1. /\ target' = [target EXCEPT ![q] = Asked(@)]
        /\ requests' = [requests EXCEPT ![q] = Append(@, Unwatch)]
        /\ \E b : stream' = [stream EXCEPT !.idle = b]
    BY <1>1, <1>6 DEF StopListening
  <2>2. Open'
    BY <1>3, <1>6, <2>1 DEF Open, TypeOK, Stream
  <2>3. ASSUME NEW p \in Queries, p # q PROVE QueryInv(p)'
    <3>1. requests'[p] = requests[p] /\ target'[p] = target[p] /\ cloud'[p] \in Nat /\ cloud'[p] >= cloud[p]
      BY <1>2, <1>3, <2>1, <2>3, BoundsAssumption DEF TypeOK, Versions
    <3>. QED BY <1>2, <1>3, <1>6, <2>2, <2>3, <3>1, Untouched
  <2>4. QueryInv(q)'
    <3>1. /\ requests[q] \in Seq(Request) /\ Unwatch \in Request /\ messages \in Seq(Message)
          /\ target[q] \in Target
      BY <1>1, <1>3, WordsType DEF TypeOK
    <3>2. requests'[q] = Append(requests[q], Unwatch) /\ target'[q] = Asked(target[q])
      BY <1>1, <1>3, <2>1 DEF TypeOK
    <3>3. target'[q].outstanding = target[q].outstanding + 1
      BY <3>1, <3>2 DEF Asked, Target
    <3>4. /\ Len(requests[q]) \in Nat /\ Len(requests'[q]) = Len(requests[q]) + 1
          /\ requests'[q][Len(requests[q]) + 1] = Unwatch
          /\ \A i \in 1..Len(requests[q]) : requests'[q][i] = requests[q][i]
          /\ DOMAIN requests[q] = 1..Len(requests[q])
          /\ DOMAIN requests'[q] = 1..(Len(requests[q]) + 1)
      BY <3>1, <3>2, LenProperties, AppendProperties
    <3>5. Cardinality(AnswersIn(messages, q)) \in Nat
      BY <3>1, AnswersFinite
    <3>6. target[q].outstanding = Len(requests[q]) + Cardinality(AnswersIn(messages, q))
      BY <1>1, <1>6, Parts DEF Counted
    <3>7. Counted(q)'
      BY <1>2, <3>3, <3>4, <3>5, <3>6 DEF Counted
    <3>8. ~view'[q].open
      BY <1>3 DEF Closed
    <3>9. AskedLast(q)'
      <4>1. ASSUME NEW i \in DOMAIN requests'[q], requests'[q][i].kind = "watch"
            PROVE  requests'[q][i].resume <= cache[q]
        <5>1. i # Len(requests[q]) + 1
          BY <3>4, <4>1 DEF Unwatch
        <5>2. i \in 1..Len(requests[q])
          BY <3>4, <5>1
        <5>. QED BY <1>1, <3>4, <4>1, <5>2, Parts DEF AskedLast
      <4>. QED BY <1>2, <3>8, <4>1 DEF AskedLast
    <3>10. FreshWords(q)' /\ ChangedIsFresh(q)'
      BY <3>8 DEF FreshWords, Agreed, ChangedIsFresh, Active
    <3>. QED BY <1>1, <1>4, <3>7, <3>9, <3>10 DEF QueryInv
  <2>. QED BY <1>1, <2>2, <2>3, <2>4 DEF QuietWhenClosed
<1>. QED BY <1>5, <1>6

\* A get that joins or leaves others changes no view.
LEMMA GetsFresh ==
  ASSUME IInv, UNCHANGED <<view, cache, target, stream, requests, messages, watched, cloud>>
  PROVE  QuietWhenClosed' /\ \A p \in Queries : QueryInv(p)'
<1>2. Open' <=> Open
  BY DEF Open
<1>1. QuietWhenClosed'
  BY <1>2, Parts DEF QuietWhenClosed
<1>3. ASSUME NEW p \in Queries PROVE QueryInv(p)'
  <2>1. cloud'[p] \in Nat /\ cloud'[p] >= cloud[p]
    BY Parts, BoundsAssumption DEF TypeOK, Versions
  <2>. QED BY <1>2, <2>1, Untouched
<1>. QED BY <1>1, <1>3

-----------------------------------------------------------------------------
(* The stream.                                                             *)

LEMMA ResumeFresh ==
  ASSUME IInv, ResumeStartWithCredentials
  PROVE  QuietWhenClosed' /\ \A p \in Queries : QueryInv(p)'
<1>1. ~Open
  BY DEF ResumeStartWithCredentials, Open
<1>2. /\ target = [q \in Queries |-> Fresh] /\ messages = <<>>
      /\ watched = [q \in Queries |-> Unwatched]
  BY <1>1, Parts DEF QuietWhenClosed
<1>3. /\ UNCHANGED <<view, cache, messages, watched, cloud>>
      /\ target' = [q \in Queries |-> IF view[q].open THEN Asked(target[q]) ELSE target[q]]
      /\ requests' = [q \in Queries |-> IF view[q].open THEN <<Watch(q)>> ELSE <<>>]
  BY DEF ResumeStartWithCredentials
<1>4. Open'
  BY Parts DEF ResumeStartWithCredentials, Open, TypeOK, Stream
<1>5. ASSUME NEW q \in Queries PROVE QueryInv(q)'
  <2>1. Cardinality(AnswersIn(messages', q)) = 0
    <3>1. messages' = <<>> /\ messages' \in Seq(Message) /\ DOMAIN messages' = {}
      BY <1>2, <1>3
    <3>2. \A i \in DOMAIN messages' : ~IsAnswer(messages'[i], q)
      BY <3>1
    <3>. QED BY <3>1, <3>2, AnswersFinite
  <2>2. /\ view[q].open => target'[q].outstanding = 1 /\ requests'[q] = <<Watch(q)>>
        /\ ~view[q].open => target'[q].outstanding = 0 /\ requests'[q] = <<>>
        /\ target'[q].changed = FALSE
    BY <1>2, <1>3 DEF Asked, Fresh
  <2>3. Counted(q)'
    <3>1. target'[q].outstanding = Len(requests'[q]) /\ Len(requests'[q]) \in Nat
      BY <2>2
    <3>2. target'[q].outstanding = Len(requests'[q]) + Cardinality(AnswersIn(messages', q))
      BY <2>1, <3>1
    <3>. QED BY <3>2 DEF Counted
  <2>4. AskedLast(q)'
    <3>1. cache[q] \in Nat
      BY Parts, BoundsAssumption DEF TypeOK
    <3>2. CASE view[q].open
      BY <1>3, <2>2, <3>1, <3>2 DEF AskedLast, Watch
    <3>3. CASE ~view[q].open
      BY <1>3, <2>2, <3>3 DEF AskedLast
    <3>. QED BY <3>2, <3>3
  <2>5. FreshWords(q)'
    BY <1>3, <2>2 DEF FreshWords, Agreed
  <2>6. ViewNotAhead(q)' /\ ChangedIsFresh(q)' /\ SyncedFresh(q)'
    BY <1>3, <2>2, Parts DEF ViewNotAhead, ChangedIsFresh, SyncedFresh
  <2>. QED BY <2>3, <2>4, <2>5, <2>6 DEF QueryInv
<1>. QED BY <1>4, <1>5 DEF QuietWhenClosed

LEMMA NetworkFresh ==
  ASSUME IInv, Network
  PROVE  QuietWhenClosed' /\ \A p \in Queries : QueryInv(p)'
<1>1. Forgotten /\ UNCHANGED <<cache, cloud>>
  BY DEF Network, WatchStreamFails, RestartNetwork, IdleTimeout
<1>2. ~Open'
  BY DEF Network, WatchStreamFails, RestartNetwork, IdleTimeout, Open, Begun, Stopped
<1>3. \E o \in Online : Broadcast(o, view)
  <2>1. online \in Online /\ UpdateState("Unknown") \in Online
    BY Parts, TrackerType DEF TypeOK
  <2>2. OnStreamStart(OnStreamFailure(online)) \in Online /\ OnStreamStart(UpdateState("Unknown")) \in Online
    BY <2>1, TrackerType
  <2>. QED BY <2>1, <2>2 DEF Network, WatchStreamFails, RestartNetwork, IdleTimeout
<1>4. ASSUME NEW q \in Queries PROVE ViewNotAhead(q)' /\ SyncedFresh(q)'
  <2>1. /\ view'[q].open = view[q].open /\ view'[q].since = view[q].since
        /\ view'[q].current => view[q].current
    BY <1>3, Parts, BroadcastViews DEF TypeOK
  <2>. QED BY <1>1, <2>1, Parts DEF ViewNotAhead, SyncedFresh
<1>. QED BY <1>1, <1>2, <1>4, WithoutStream DEF Forgotten

LEMMA BackoffFresh ==
  ASSUME IInv, BackoffElapsed
  PROVE  QuietWhenClosed' /\ \A p \in Queries : QueryInv(p)'
<1>1. /\ ~Open /\ ~Open' /\ UNCHANGED <<view, cache, target, requests, messages, watched, cloud>>
  BY DEF BackoffElapsed, Open
<1>2. \A q \in Queries : ViewNotAhead(q)' /\ SyncedFresh(q)'
  BY <1>1, Parts DEF ViewNotAhead, SyncedFresh
<1>. QED BY <1>1, <1>2, Parts, WithoutStream DEF QuietWhenClosed

LEMMA TimeoutFresh ==
  ASSUME IInv, OnlineStateTimeout
  PROVE  QuietWhenClosed' /\ \A p \in Queries : QueryInv(p)'
<1>1. /\ UNCHANGED <<cache, target, stream, requests, messages, watched, cloud>>
      /\ Open' <=> Open
  BY DEF OnlineStateTimeout, Open
<1>2. \E o \in Online : Broadcast(o, view)
  BY Parts, TrackerType DEF OnlineStateTimeout, TypeOK
<1>3. ASSUME NEW q \in Queries PROVE QueryInv(q)'
  <2>1. /\ view'[q].open = view[q].open /\ view'[q].since = view[q].since
        /\ view'[q].current => view[q].current
    BY <1>2, Parts, BroadcastViews DEF TypeOK
  <2>2. cloud'[q] \in Nat /\ cloud'[q] >= cloud[q]
    BY <1>1, Parts, BoundsAssumption DEF TypeOK, Versions
  <2>. QED BY <1>1, <2>1, <2>2, Untouched
<1>. QED BY <1>1, <1>3, Parts DEF QuietWhenClosed

-----------------------------------------------------------------------------
(* Reading a message.                                                      *)

\* A target counts when all that was asked of it has been answered.
LEMMA ActiveIsSettled ==
  ASSUME IInv, NEW q \in Queries, Open, messages # <<>>
  PROVE  Active(q) <=> Agreed(q) /\ Settled(messages, 1, q)
<1>1. messages \in Seq(Message) /\ requests[q] \in Seq(Request)
  BY Parts DEF TypeOK
<1>2. /\ Cardinality(AnswersIn(messages, q)) \in Nat
      /\ Cardinality(AnswersIn(messages, q)) = 0 <=> \A i \in DOMAIN messages : ~IsAnswer(messages[i], q)
  BY <1>1, AnswersFinite
<1>3. target[q].outstanding = Len(requests[q]) + Cardinality(AnswersIn(messages, q))
  BY Parts DEF Counted
<1>4. Len(requests[q]) \in Nat /\ (Len(requests[q]) = 0 <=> requests[q] = <<>>)
  BY <1>1, LenProperties, EmptySeq
<1>5. Settled(messages, 1, q) <=> \A i \in DOMAIN messages : ~IsAnswer(messages[i], q)
  <2>1. 1 \in DOMAIN messages /\ \A i \in DOMAIN messages : i >= 1
    BY <1>1, SettledTail
  <2>. QED BY <2>1 DEF Settled
<1>6. target[q].outstanding = 0 <=>
        requests[q] = <<>> /\ \A i \in DOMAIN messages : ~IsAnswer(messages[i], q)
  BY <1>2, <1>3, <1>4
<1>. QED BY <1>5, <1>6 DEF Active, Agreed

\* The words still to come stay fresh when one is read and what it brings is kept.
LEMMA ReadKeepsWords ==
  ASSUME IInv, NEW q \in Queries, Open, messages # <<>>, messages' = Tail(messages),
         UNCHANGED <<stream, requests, watched>>,
         view'[q].open = view[q].open, view'[q].since = view[q].since, Got(q) => Got(q)',
         Agreed(q) /\ Settled(messages, 1, q) /\ IsDoc(Head(messages), q) => Got(q)'
  PROVE  FreshWords(q)'
<1> DEFINE t == Tail(messages)
<1>1. messages \in Seq(Message)
  BY Parts DEF TypeOK
<1>2. /\ DOMAIN messages = 1..Len(messages) /\ Head(messages) = messages[1]
      /\ \A i \in DOMAIN t :
           /\ i \in Nat /\ i + 1 \in DOMAIN messages /\ t[i] = messages[i + 1]
           /\ Settled(t, i, q) <=> Settled(messages, i + 1, q)
      /\ \A j \in DOMAIN messages : j # 1 => j - 1 \in DOMAIN t /\ (j - 1) + 1 = j
  BY <1>1, SettledTail
<1> HIDE DEF t
<1>3. messages' = t
  BY DEF t
<1>4. ASSUME Agreed(q)' PROVE DocsFresh(q)' /\ CurrentsFresh(q)' /\ SentFresh(q)'
  <2>1. Agreed(q)
    BY <1>4 DEF Agreed, Open
  <2>2. DocsFresh(q) /\ CurrentsFresh(q) /\ SentFresh(q)
    BY <2>1, Parts DEF FreshWords
  <2>3. DocsFresh(q)'
    BY <1>2, <1>3, <2>2 DEF DocsFresh
  <2>4. ASSUME NEW j \in DOMAIN messages, Settled(messages, j, q), IsDoc(messages[j], q), ~Got(q)'
        PROVE  j - 1 \in DOMAIN t /\ (j - 1) + 1 = j /\ Settled(t, j - 1, q) /\ IsDoc(t[j - 1], q)
    <3>1. j # 1
      BY <1>2, <2>1, <2>4
    <3>2. j - 1 \in DOMAIN t /\ (j - 1) + 1 = j
      BY <1>2, <3>1
    <3>3. t[j - 1] = messages[j] /\ (Settled(t, j - 1, q) <=> Settled(messages, j, q))
      BY <1>2, <3>2
    <3>. QED BY <2>4, <3>2, <3>3
  <2>5. CurrentsFresh(q)'
    <3>1. ASSUME NEW i \in DOMAIN t, Settled(t, i, q), IsCurrent(t[i], q), ~Got(q)'
          PROVE  \E j \in DOMAIN t : j < i /\ Settled(t, j, q) /\ IsDoc(t[j], q)
      <4>1. i \in Nat /\ i + 1 \in DOMAIN messages /\ Settled(messages, i + 1, q) /\ IsCurrent(messages[i + 1], q)
        BY <1>2, <3>1
      <4>2. PICK j \in DOMAIN messages : j < i + 1 /\ Settled(messages, j, q) /\ IsDoc(messages[j], q)
        BY <2>2, <3>1, <4>1 DEF CurrentsFresh
      <4>3. j - 1 \in DOMAIN t /\ (j - 1) + 1 = j /\ Settled(t, j - 1, q) /\ IsDoc(t[j - 1], q)
        BY <2>4, <3>1, <4>2
      <4>4. j - 1 < i
        BY <1>2, <4>1, <4>2
      <4>. QED BY <4>3, <4>4
    <3>. QED BY <1>3, <3>1 DEF CurrentsFresh
  <2>6. SentFresh(q)'
    <3>1. ASSUME watched[q].as # "no", view[q].since <= watched[q].sent, ~Got(q)'
          PROVE  DocComes(t, q)
      <4>1. PICK j \in DOMAIN messages : Settled(messages, j, q) /\ IsDoc(messages[j], q)
        BY <2>2, <3>1 DEF SentFresh, DocComes
      <4>2. j - 1 \in DOMAIN t /\ Settled(t, j - 1, q) /\ IsDoc(t[j - 1], q)
        BY <2>4, <3>1, <4>1
      <4>. QED BY <4>2 DEF DocComes
    <3>. QED BY <1>3, <3>1 DEF SentFresh
  <2>. QED BY <2>3, <2>5, <2>6
<1>. QED BY <1>4 DEF FreshWords

\* A response read, a response less outstanding.
LEMMA ReadKeepsCount ==
  ASSUME IInv, NEW q \in Queries, Open, messages # <<>>, messages' = Tail(messages),
         UNCHANGED <<stream, requests>>, target'[q] \in Target,
         target'[q].outstanding = target[q].outstanding - IF IsAnswer(Head(messages), q) THEN 1 ELSE 0
  PROVE  Counted(q)'
<1>1. messages \in Seq(Message) /\ requests[q] \in Seq(Request) /\ Tail(messages) \in Seq(Message)
  BY Parts, HeadTailProperties DEF TypeOK
<1>2. /\ Cardinality(AnswersIn(messages, q)) \in Nat /\ Cardinality(AnswersIn(Tail(messages), q)) \in Nat
      /\ Len(requests[q]) \in Nat
  BY <1>1, AnswersFinite, LenProperties
<1>3. Cardinality(AnswersIn(messages, q))
        = Cardinality(AnswersIn(Tail(messages), q)) + IF IsAnswer(Head(messages), q) THEN 1 ELSE 0
  BY <1>1, AnswersTail
<1>4. target[q].outstanding = Len(requests[q]) + Cardinality(AnswersIn(messages, q))
  BY Parts DEF Counted
<1>5. target'[q].outstanding = Len(requests[q]) + Cardinality(AnswersIn(Tail(messages), q))
  BY <1>2, <1>3, <1>4
<1>. QED BY <1>5 DEF Counted

\* Reading keeps the rest, if what changed or counts as in sync is fresh.
LEMMA ReadKeepsQuery ==
  ASSUME IInv, NEW q \in Queries, Open, messages # <<>>, messages' = Tail(messages),
         UNCHANGED <<stream, requests, watched, cloud>>, target'[q] \in Target,
         target'[q].outstanding = target[q].outstanding - IF IsAnswer(Head(messages), q) THEN 1 ELSE 0,
         view'[q].open = view[q].open, view'[q].since = view[q].since,
         cache[q] \in Nat, cache'[q] \in Nat, cache'[q] >= cache[q],
         Got(q) => Got(q)',
         Agreed(q) /\ Settled(messages, 1, q) /\ IsDoc(Head(messages), q) => Got(q)',
         ChangedIsFresh(q)', SyncedFresh(q)'
  PROVE  QueryInv(q)'
<1>1. Counted(q)' /\ FreshWords(q)'
  BY ReadKeepsCount, ReadKeepsWords
<1>2. AskedLast(q)'
  <2>1. ASSUME NEW i \in DOMAIN requests[q], requests[q][i].kind = "watch"
        PROVE  requests[q][i].resume <= cache'[q]
    <3>1. requests[q][i].resume <= cache[q]
      BY <2>1, Parts DEF AskedLast
    <3>2. requests[q][i] \in Request
      BY Parts, LenProperties DEF TypeOK
    <3>3. requests[q][i].resume \in Nat
      BY <3>2, BoundsAssumption DEF Request
    <3>. QED BY <3>1, <3>3
  <2>. QED BY <2>1, Parts DEF AskedLast
<1>3. ViewNotAhead(q)'
  BY Parts DEF ViewNotAhead
<1>. QED BY <1>1, <1>2, <1>3 DEF QueryInv

\* A message about another target.
LEMMA OthersReadFresh ==
  ASSUME IInv, NEW q \in Queries, Open, messages # <<>>, messages' = Tail(messages),
         UNCHANGED <<stream, requests, watched, cloud, cache>>, target'[q] = target[q],
         Head(messages).query # q, Head(messages).kind # "Snapshot",
         view'[q].open = view[q].open, view'[q].since = view[q].since, view'[q].current => view[q].current
  PROVE  QueryInv(q)'
<1>1. target[q] \in Target /\ cache[q] \in Nat
  BY Parts, BoundsAssumption DEF TypeOK
<1>2. ~IsAnswer(Head(messages), q) /\ ~IsDoc(Head(messages), q)
  BY DEF IsAnswer, IsDoc
<1>3. Got(q)' <=> Got(q)
  BY DEF Got
<1>4. ChangedIsFresh(q)' /\ SyncedFresh(q)'
  BY <1>3, Parts DEF ChangedIsFresh, Active, SyncedFresh
<1>5. target'[q].outstanding = target[q].outstanding - IF IsAnswer(Head(messages), q) THEN 1 ELSE 0
  BY <1>1, <1>2 DEF Target
<1>6. cache'[q] \in Nat /\ cache'[q] >= cache[q] /\ target'[q] \in Target
  BY <1>1
<1>7. UNCHANGED <<stream, requests, watched, cloud>>
  OBVIOUS
<1>. QED BY <1>1, <1>2, <1>3, <1>4, <1>5, <1>6, <1>7, ReadKeepsQuery

\* A message about the target: whatever it is, what counts as changed is fresh.
LEMMA OwnReadFresh ==
  ASSUME IInv, NEW q \in Queries, Open, messages # <<>>, messages' = Tail(messages),
         UNCHANGED <<stream, requests, watched, cloud, cache>>, target' \in [Queries -> Target],
         NEW m \in Message, m = Head(messages), m.query = q,
         \/ m.kind = "Added" /\ target' = TargetAdded(q)
         \/ m.kind = "Removed" /\ target' = TargetRemoved(q)
         \/ m.kind = "Doc" /\ target' = DocumentChanged(q, m.version)
         \/ m.kind = "Current" /\ target' = MarkCurrent(q),
         view'[q].open = view[q].open, view'[q].since = view[q].since, view'[q].current => view[q].current
  PROVE  QueryInv(q)'
<1>1. /\ target \in [Queries -> Target] /\ target[q] \in Target /\ cache[q] \in Nat
      /\ view[q].since \in Nat
  BY Parts, BoundsAssumption DEF TypeOK, View
<1>2. SyncedFresh(q)'
  BY Parts DEF SyncedFresh
<1>3. Active(q) <=> Agreed(q) /\ Settled(messages, 1, q)
  BY ActiveIsSettled
<1>4. /\ messages \in Seq(Message) /\ 1 \in DOMAIN messages /\ messages[1] = m
      /\ \A j \in DOMAIN messages : ~(j < 1)
  <2>1. messages \in Seq(Message)
    BY Parts DEF TypeOK
  <2>. QED BY <2>1, SettledTail
<1>5. CASE m.kind \in {"Added", "Removed"}
  <2>1. IsAnswer(m, q) /\ ~IsDoc(m, q)
    BY <1>5 DEF IsAnswer, IsDoc
  <2> DEFINE t == Responded(target[q])
  <2>2. /\ t \in Target /\ t.outstanding = target[q].outstanding - 1 /\ t.doc = target[q].doc
    <3>1. t \in Target
      BY <1>1, Parts, WordsType
    <3>. QED BY <1>1, <3>1 DEF Responded, Target
  <2>3. /\ target'[q].outstanding = t.outstanding /\ target'[q].doc = t.doc
        /\ t.outstanding = 0 => ~target'[q].changed
    <3> HIDE DEF t
    <3>1. CASE target' = TargetAdded(q)
      BY <1>1, <2>2, <3>1 DEF TargetAdded, Target, t
    <3>2. CASE target' = TargetRemoved(q)
      BY <1>1, <2>2, <3>2 DEF TargetRemoved, Target, Fresh, t
    <3>. QED BY <1>5, <3>1, <3>2
  <2> HIDE DEF t
  <2>4. Got(q) => Got(q)'
    BY <2>2, <2>3 DEF Got
  <2>5. ChangedIsFresh(q)'
    BY <2>3 DEF ChangedIsFresh, Active
  <2>6. target'[q].outstanding = target[q].outstanding - IF IsAnswer(m, q) THEN 1 ELSE 0
    BY <2>1, <2>2, <2>3
  <2>. QED BY <1>1, <1>2, <2>1, <2>4, <2>5, <2>6, ReadKeepsQuery
<1>6. CASE m.kind \in {"Doc", "Current"}
  <2>1. ~IsAnswer(m, q) /\ (m.kind = "Doc" => IsDoc(m, q)) /\ (m.kind = "Current" => IsCurrent(m, q) /\ ~IsDoc(m, q))
    BY <1>6 DEF IsAnswer, IsDoc, IsCurrent
  <2>2. CASE Active(q)
    <3>1. /\ target'[q].outstanding = target[q].outstanding
          /\ m.kind = "Doc" => target'[q].doc = m.version
          /\ m.kind = "Current" => target'[q].doc = target[q].doc
      BY <1>1, <1>6, <2>2 DEF DocumentChanged, MarkCurrent, Target
    <3>2. DocsFresh(q) /\ CurrentsFresh(q)
      BY <1>3, <2>2, Parts DEF FreshWords
    <3>3. Got(q)'
      <4>1. CASE m.kind = "Doc"
        <5>1. view[q].since <= m.version
          BY <1>3, <1>4, <2>1, <2>2, <3>2, <4>1 DEF DocsFresh
        <5>. QED BY <3>1, <4>1, <5>1 DEF Got
      <4>2. CASE m.kind = "Current"
        <5>1. Got(q)
          BY <1>3, <1>4, <2>1, <2>2, <3>2, <4>2 DEF CurrentsFresh
        <5>. QED BY <3>1, <4>2, <5>1 DEF Got
      <4>. QED BY <1>6, <4>1, <4>2
    <3>4. ChangedIsFresh(q)'
      BY <3>3 DEF ChangedIsFresh
    <3>5. target'[q].outstanding = target[q].outstanding - IF IsAnswer(m, q) THEN 1 ELSE 0
      BY <1>1, <2>1, <3>1 DEF Target
    <3>. QED BY <1>1, <1>2, <3>3, <3>4, <3>5, ReadKeepsQuery
  <2>3. CASE ~Active(q)
    <3>1. target' = target
      BY <1>6, <2>3 DEF DocumentChanged, MarkCurrent
    <3>2. Got(q)' <=> Got(q)
      BY <3>1 DEF Got
    <3>3. ChangedIsFresh(q)'
      BY <2>3, <3>1 DEF ChangedIsFresh, Active
    <3>4. target'[q].outstanding = target[q].outstanding - IF IsAnswer(m, q) THEN 1 ELSE 0
      BY <1>1, <2>1, <3>1 DEF Target
    <3>. QED BY <1>1, <1>2, <1>3, <2>3, <3>2, <3>3, <3>4, ReadKeepsQuery
  <2>. QED BY <2>2, <2>3
<1>. QED BY <1>5, <1>6

\* A snapshot: the views take over what changed and the cache what is newer.
LEMMA SnapshotFresh ==
  ASSUME IInv, NEW q \in Queries, Open, messages # <<>>, messages' = Tail(messages),
         UNCHANGED <<stream, requests, watched, cloud>>, Head(messages).kind = "Snapshot",
         target' = Reported, cache' = Stored,
         view'[q].open = Synced[q].open, view'[q].since = Synced[q].since,
         view'[q].current => Synced[q].current
  PROVE  QueryInv(q)'
<1>1. /\ target[q] \in Target /\ cache[q] \in Nat /\ view[q] \in View /\ view[q].since \in Nat
      /\ target[q].doc \in Nat /\ target[q].outstanding \in Int
  BY Parts, BoundsAssumption DEF TypeOK, View, Target
<1>2. ~IsAnswer(Head(messages), q) /\ ~IsDoc(Head(messages), q)
  BY DEF IsAnswer, IsDoc
<1>3. /\ target'[q] \in Target /\ target'[q].outstanding = target[q].outstanding
      /\ Active(q) => ~target'[q].changed
  BY <1>1, Constants DEF Reported, Target
<1>4. /\ cache'[q] = IF target[q].doc > cache[q] THEN target[q].doc ELSE cache[q]
      /\ cache'[q] \in Nat /\ cache'[q] >= cache[q] /\ cache'[q] >= target[q].doc
  BY <1>1 DEF Stored
<1>5. /\ view'[q].open = view[q].open /\ view'[q].since = view[q].since
      /\ view'[q].current => view[q].current \/ (Active(q) /\ target[q].changed)
  BY <1>1 DEF Synced, View
<1>6. Got(q) => view[q].since <= cache'[q]
  BY <1>1, <1>4 DEF Got
<1>7. Got(q) => Got(q)'
  BY <1>5, <1>6 DEF Got
<1>8. ChangedIsFresh(q)'
  BY <1>3, <1>5 DEF ChangedIsFresh, Active
<1>9. SyncedFresh(q)'
  <2>1. SyncedFresh(q) /\ ChangedIsFresh(q)
    BY Parts
  <2>2. ASSUME view'[q].open, view'[q].current PROVE cache'[q] >= view'[q].since
    <3>1. CASE view[q].current
      BY <1>1, <1>4, <1>5, <2>1, <2>2, <3>1 DEF SyncedFresh
    <3>2. CASE Active(q) /\ target[q].changed
      BY <1>1, <1>4, <1>5, <1>6, <2>1, <3>2 DEF ChangedIsFresh
    <3>. QED BY <1>5, <2>2, <3>1, <3>2
  <2>. QED BY <2>2 DEF SyncedFresh
<1>10. target'[q].outstanding = target[q].outstanding - IF IsAnswer(Head(messages), q) THEN 1 ELSE 0
  BY <1>1, <1>2, <1>3
<1>. QED BY <1>1, <1>2, <1>3, <1>4, <1>5, <1>7, <1>8, <1>9, <1>10, ReadKeepsQuery

LEMMA MessageReadFresh ==
  ASSUME IInv, TypeOK', OnWatchStreamChange
  PROVE  QuietWhenClosed' /\ \A p \in Queries : QueryInv(p)'
<1>1. /\ Open /\ messages # <<>> /\ messages' = Tail(messages)
      /\ UNCHANGED <<stream, requests, watched, cloud>>
  BY DEF OnWatchStreamChange
<1>2. TypeOK /\ UpdateState("Online") \in Online /\ target' \in [Queries -> Target]
  BY Parts, TrackerType DEF TypeOK
<1>3. PICK m \in Message : m = Head(messages)
  BY <1>1, <1>2, HeadTailProperties DEF TypeOK
<1>4. CASE m.kind = "Snapshot"
  <2>1. target' = Reported /\ cache' = Stored /\ Broadcast(UpdateState("Online"), Synced)
    BY <1>3, <1>4 DEF OnWatchStreamChange
  <2>2. Synced \in [Queries -> View]
    BY <1>2, SyncedType
  <2>3. ASSUME NEW q \in Queries PROVE QueryInv(q)'
    <3>1. /\ view'[q].open = Synced[q].open /\ view'[q].since = Synced[q].since
          /\ view'[q].current => Synced[q].current
      BY <1>2, <2>1, <2>2, BroadcastViews
    <3>. QED BY <1>1, <1>3, <1>4, <2>1, <3>1, SnapshotFresh
  <2>. QED BY <1>1, <2>3 DEF QuietWhenClosed, Open
<1>5. CASE m.kind # "Snapshot"
  <2>1. /\ m.query \in Queries /\ m.version \in 0..MaxVersion
        /\ m.kind \in {"Added", "Removed", "Doc", "Current"}
    BY <1>5, MessageKnown
  <2>2. /\ \/ m.kind = "Added" /\ target' = TargetAdded(m.query)
           \/ m.kind = "Removed" /\ target' = TargetRemoved(m.query)
           \/ m.kind = "Doc" /\ target' = DocumentChanged(m.query, m.version)
           \/ m.kind = "Current" /\ target' = MarkCurrent(m.query)
        /\ Broadcast(UpdateState("Online"), view) /\ UNCHANGED cache
    BY <1>3, <1>5, <2>1 DEF OnWatchStreamChange
  <2>3. ASSUME NEW q \in Queries PROVE QueryInv(q)'
    <3>1. /\ view'[q].open = view[q].open /\ view'[q].since = view[q].since
          /\ view'[q].current => view[q].current
      BY <1>2, <2>2, BroadcastViews DEF TypeOK
    <3>2. CASE m.query = q
      BY <1>1, <1>2, <1>3, <2>2, <3>1, <3>2, OwnReadFresh
    <3>3. CASE m.query # q
      <4>1. target'[q] = target[q]
        BY <1>2, <2>1, <2>2, <3>3
           DEF TypeOK, TargetAdded, TargetRemoved, DocumentChanged, MarkCurrent
      <4>. QED BY <1>1, <1>3, <1>5, <2>2, <3>1, <3>3, <4>1, OthersReadFresh
    <3>. QED BY <3>2, <3>3
  <2>. QED BY <1>1, <2>3 DEF QuietWhenClosed, Open
<1>. QED BY <1>4, <1>5

-----------------------------------------------------------------------------
(* The backend.                                                            *)

\* It speaks to a client with a stream only.
LEMMA BackendNeedsStream ==
  ASSUME IInv, Backend
  PROVE  Open /\ Open' /\ QuietWhenClosed'
<1>1. Open
  <2>1. SUFFICES ASSUME ~Open PROVE FALSE
    OBVIOUS
  <2>2. requests = [q \in Queries |-> <<>>] /\ watched = [q \in Queries |-> Unwatched]
    BY <2>1, Parts DEF QuietWhenClosed
  <2>. QED BY <2>2 DEF Backend, BackendReads, BackendSends, BackendIsCurrent, BackendSnapshot, Unwatched
<1>2. stream' = stream
  BY DEF Backend, BackendReads, BackendSends, BackendIsCurrent, BackendSnapshot
<1>. QED BY <1>1, <1>2 DEF QuietWhenClosed, Open

\* A word that is no answer about q, and fresh if it is about q.
LEMMA SaidFresh ==
  ASSUME IInv, NEW q \in Queries, NEW m \in Message, messages' = Append(messages, m), ~IsAnswer(m, q),
         UNCHANGED <<view, cache, target, stream, cloud>>, requests'[q] = requests[q],
         Agreed(q) /\ IsDoc(m, q) => view[q].since <= m.version,
         Agreed(q) /\ IsCurrent(m, q) => Got(q) \/ DocComes(messages, q),
         Agreed(q) /\ watched'[q].as # "no" /\ view[q].since <= watched'[q].sent =>
           Got(q) \/ DocComes(messages, q) \/ IsDoc(m, q)
  PROVE  QueryInv(q)'
<1> DEFINE a == Append(messages, m)
           n == Len(messages) + 1
<1>1. messages \in Seq(Message)
  BY Parts DEF TypeOK
<1>2. /\ DOMAIN messages = 1..Len(messages) /\ Len(messages) \in Nat /\ DOMAIN a = 1..n
      /\ a[n] = m /\ Settled(a, n, q)
      /\ \A i \in DOMAIN messages : a[i] = messages[i] /\ (Settled(a, i, q) <=> Settled(messages, i, q))
  BY <1>1, SettledAppend
<1>3. messages' = a
  OBVIOUS
<1>4. Cardinality(AnswersIn(a, q)) = Cardinality(AnswersIn(messages, q))
  BY <1>1, AnswersAppend, AnswersFinite
<1> HIDE DEF a, n
<1>5. Counted(q)'
  BY <1>3, <1>4, Parts DEF Counted, Open
<1>6. AskedLast(q)' /\ ViewNotAhead(q)' /\ ChangedIsFresh(q)' /\ SyncedFresh(q)'
  BY Parts DEF AskedLast, ViewNotAhead, ChangedIsFresh, SyncedFresh, Active, Got
<1>7. ASSUME Agreed(q)' PROVE DocsFresh(q)' /\ CurrentsFresh(q)' /\ SentFresh(q)'
  <2>1. Agreed(q) /\ (Got(q)' <=> Got(q))
    BY <1>7 DEF Agreed, Open, Got
  <2>2. DocsFresh(q) /\ CurrentsFresh(q) /\ SentFresh(q)
    BY <2>1, Parts DEF FreshWords
  <2>3. \A i \in DOMAIN a : i \in DOMAIN messages \/ i = n
    BY <1>2 DEF n
  <2>4. \A i \in DOMAIN messages : i \in DOMAIN a /\ i < n
    BY <1>2 DEF n
  <2>5. DocsFresh(q)'
    BY <1>2, <1>3, <2>1, <2>2, <2>3 DEF DocsFresh
  <2>6. ASSUME DocComes(messages, q)
        PROVE  \E j \in DOMAIN a : j < n /\ Settled(a, j, q) /\ IsDoc(a[j], q)
    BY <1>2, <2>4, <2>6 DEF DocComes
  <2>7. CurrentsFresh(q)'
    <3>1. ASSUME NEW i \in DOMAIN a, Settled(a, i, q), IsCurrent(a[i], q), ~Got(q)
          PROVE  \E j \in DOMAIN a : j < i /\ Settled(a, j, q) /\ IsDoc(a[j], q)
      <4>1. CASE i = n
        BY <1>2, <2>1, <2>6, <3>1, <4>1
      <4>2. CASE i \in DOMAIN messages
        <5>1. PICK j \in DOMAIN messages : j < i /\ Settled(messages, j, q) /\ IsDoc(messages[j], q)
          BY <1>2, <2>2, <3>1, <4>2 DEF CurrentsFresh
        <5>. QED BY <1>2, <2>4, <5>1
      <4>. QED BY <2>3, <4>1, <4>2
    <3>. QED BY <1>3, <2>1, <3>1 DEF CurrentsFresh
  <2>8. SentFresh(q)'
    <3>1. ASSUME watched'[q].as # "no", view[q].since <= watched'[q].sent, ~Got(q)
          PROVE  DocComes(a, q)
      <4>1. CASE IsDoc(m, q)
        <5>1. n \in DOMAIN a
          BY <1>2 DEF n
        <5>. QED BY <1>2, <4>1, <5>1 DEF DocComes
      <4>2. CASE DocComes(messages, q)
        BY <2>6, <4>2 DEF DocComes
      <4>. QED BY <2>1, <3>1, <4>1, <4>2
    <3>. QED BY <1>3, <2>1, <3>1 DEF SentFresh
  <2>. QED BY <2>5, <2>7, <2>8
<1>. QED BY <1>5, <1>6, <1>7 DEF QueryInv, FreshWords

\* A word about another query, or about all.
LEMMA OthersSaidFresh ==
  ASSUME IInv, NEW q \in Queries, NEW m \in Message, messages' = Append(messages, m),
         m.kind = "Snapshot" \/ m.query # q,
         UNCHANGED <<view, cache, target, stream, cloud>>, requests'[q] = requests[q],
         watched'[q].as = watched[q].as, watched'[q].sent = watched[q].sent
  PROVE  QueryInv(q)'
<1>1. ~IsAnswer(m, q) /\ ~IsDoc(m, q) /\ ~IsCurrent(m, q)
  BY DEF IsAnswer, IsDoc, IsCurrent
<1>2. Agreed(q) => SentFresh(q)
  BY Parts DEF FreshWords
<1>3. Agreed(q) /\ watched'[q].as # "no" /\ view[q].since <= watched'[q].sent =>
        Got(q) \/ DocComes(messages, q) \/ IsDoc(m, q)
  BY <1>2 DEF SentFresh
<1>. QED BY <1>1, <1>3, SaidFresh

LEMMA ReadsFresh ==
  ASSUME IInv, NEW p \in Queries, BackendReads(p)
  PROVE  \A q \in Queries : QueryInv(q)'
<1> DEFINE r == Head(requests[p])
           k == IF r.kind = "watch" THEN "Added" ELSE "Removed"
           m == About(k, p, 0)
<1>1. /\ requests[p] \in Seq(Request) /\ requests[p] # <<>> /\ messages \in Seq(Message)
      /\ requests' = [requests EXCEPT ![p] = Tail(@)] /\ requests \in [Queries -> Seq(Request)]
      /\ UNCHANGED <<view, cache, target, stream, cloud>> /\ watched \in [Queries -> Watched]
  BY Parts DEF BackendReads, TypeOK
<1>2. m \in Message /\ messages' = Append(messages, m) /\ IsAnswer(m, p) /\ m.query = p
  <2>1. m \in Message
    BY Parts, WordsType, Constants
  <2>. QED BY <2>1 DEF BackendReads, Says, IsAnswer, About
<1>3. /\ r.kind = "watch" => watched'[p].sent = r.resume
      /\ r.kind # "watch" => watched'[p].as = "no"
      /\ \A q \in Queries : q # p => watched'[q] = watched[q]
  <2>1. CASE r.kind = "watch"
    <3>1. watched' = [watched EXCEPT ![p] = [Unwatched EXCEPT !.as = "added", !.sent = r.resume]]
      BY <2>1 DEF BackendReads
    <3>2. [Unwatched EXCEPT !.as = "added", !.sent = r.resume].sent = r.resume
      BY DEF Unwatched
    <3>. QED BY <1>1, <2>1, <3>1, <3>2
  <2>2. CASE r.kind # "watch"
    <3>1. watched' = [watched EXCEPT ![p] = Unwatched]
      BY <2>2 DEF BackendReads
    <3>. QED BY <1>1, <2>2, <3>1 DEF Unwatched
  <2>. QED BY <2>1, <2>2
<1>4. Open
  BY BackendNeedsStream DEF Backend
<1> HIDE DEF m, k
<1>5. ASSUME NEW q \in Queries, q # p PROVE QueryInv(q)'
  BY <1>1, <1>2, <1>3, <1>5, OthersSaidFresh
<1>6. QueryInv(p)'
  <2>1. /\ Len(requests[p]) \in Nat \ {0} /\ DOMAIN requests[p] = 1..Len(requests[p])
        /\ Len(requests'[p]) = Len(requests[p]) - 1 /\ requests'[p] \in Seq(Request)
        /\ DOMAIN requests'[p] = 1..(Len(requests[p]) - 1)
        /\ \A i \in 1..(Len(requests[p]) - 1) : requests'[p][i] = requests[p][i + 1]
        /\ r = requests[p][1]
    <3>1. requests'[p] = Tail(requests[p])
      BY <1>1
    <3>2. Len(requests[p]) \in Nat \ {0}
      BY <1>1, LenProperties, EmptySeq
    <3>. QED BY <1>1, <3>1, <3>2, LenProperties, HeadTailProperties
  <2> HIDE DEF r
  <2>2. Counted(p)'
    <3>1. Cardinality(AnswersIn(messages, p)) \in Nat
      BY <1>1, AnswersFinite
    <3>2. Cardinality(AnswersIn(messages', p)) = Cardinality(AnswersIn(messages, p)) + 1
      BY <1>1, <1>2, <3>1, AnswersAppend
    <3>3. target[p].outstanding = Len(requests[p]) + Cardinality(AnswersIn(messages, p))
      BY <1>4, Parts DEF Counted
    <3>4. target'[p].outstanding = Len(requests'[p]) + Cardinality(AnswersIn(messages', p))
      BY <1>1, <2>1, <3>1, <3>2, <3>3
    <3>. QED BY <3>4 DEF Counted
  <2>3. AskedLast(p)'
    <3>1. ASSUME view[p].open, requests'[p] # <<>>
          PROVE  requests'[p][Len(requests'[p])].kind = "watch"
      <4>1. Len(requests'[p]) # 0
        BY <2>1, <3>1, EmptySeq
      <4>2. requests'[p][Len(requests'[p])] = requests[p][Len(requests[p])]
        <5>1. PICK n \in Nat : n = Len(requests[p]) - 1
          BY <2>1
        <5>2. n = Len(requests'[p]) /\ n + 1 = Len(requests[p])
          BY <2>1, <5>1
        <5>3. n \in 1..n
          BY <4>1, <5>2
        <5>4. requests'[p][n] = requests[p][n + 1]
          BY <2>1, <5>1, <5>3
        <5>. QED BY <5>2, <5>4
      <4>. QED BY <1>1, <3>1, <4>2, Parts DEF AskedLast
    <3>2. \A i \in DOMAIN requests'[p] :
            requests'[p][i].kind = "watch" => requests'[p][i].resume <= cache[p]
      <4>1. \A i \in DOMAIN requests'[p] :
              i + 1 \in DOMAIN requests[p] /\ requests'[p][i] = requests[p][i + 1]
        BY <2>1
      <4>. QED BY <4>1, Parts DEF AskedLast
    <3>. QED BY <1>1, <3>1, <3>2 DEF AskedLast
  <2>4. ViewNotAhead(p)' /\ ChangedIsFresh(p)' /\ SyncedFresh(p)'
    BY <1>1, Parts DEF ViewNotAhead, ChangedIsFresh, SyncedFresh, Active, Got
  <2>5. ASSUME Agreed(p)' PROVE DocsFresh(p)' /\ CurrentsFresh(p)' /\ SentFresh(p)'
    <3>1. \A i : ~Settled(messages', i, p)
      BY <1>1, <1>2, SettledAppend
    <3>2. DocsFresh(p)' /\ CurrentsFresh(p)'
      BY <3>1 DEF DocsFresh, CurrentsFresh
    <3>3. view[p].open /\ Len(requests[p]) = 1 /\ r = requests[p][Len(requests[p])]
      <4>1. view[p].open /\ requests'[p] = <<>>
        BY <1>1, <2>5 DEF Agreed
      <4>2. Len(requests[p]) - 1 = 0
        BY <2>1, <4>1, EmptySeq
      <4>. QED BY <2>1, <4>1, <4>2
    <3>4. r.kind = "watch" /\ r.resume <= cache[p]
      BY <1>1, <2>1, <3>3, Parts DEF AskedLast
    <3>5. /\ view[p].since \in Nat /\ cache[p] \in Nat /\ r.resume \in Nat
      <4>1. r \in Request
        BY <1>1, HeadTailProperties DEF r
      <4>. QED BY <4>1, Parts, BoundsAssumption DEF TypeOK, View, Request
    <3>6. view[p].since <= watched'[p].sent => view[p].since <= cache[p]
      BY <1>3, <3>4, <3>5
    <3>. QED BY <1>1, <3>2, <3>6 DEF SentFresh, Got
  <2>. QED BY <2>2, <2>3, <2>4, <2>5 DEF QueryInv, FreshWords
<1>. QED BY <1>5, <1>6

LEMMA SendsFresh ==
  ASSUME IInv, NEW p \in Queries, BackendSends(p)
  PROVE  \A q \in Queries : QueryInv(q)'
<1> DEFINE m == About("Doc", p, cloud[p])
<1>1. /\ messages' = Append(messages, m) /\ watched \in [Queries -> Watched]
      /\ UNCHANGED <<view, cache, target, stream, requests, cloud>>
      /\ \A q \in Queries : q # p => watched'[q] = watched[q]
  BY Parts DEF BackendSends, Says, TypeOK
<1>2. m \in Message /\ m.kind = "Doc" /\ m.query = p /\ m.version = cloud[p]
  <2>1. cloud[p] \in 0..MaxVersion
    BY Parts, Constants DEF TypeOK
  <2>. QED BY <2>1, Parts, WordsType DEF About
<1> HIDE DEF m
<1>3. ASSUME NEW q \in Queries, q # p PROVE QueryInv(q)'
  BY <1>1, <1>2, <1>3, OthersSaidFresh
<1>4. QueryInv(p)'
  <2>1. IsDoc(m, p) /\ ~IsAnswer(m, p) /\ ~IsCurrent(m, p)
    BY <1>2 DEF IsDoc, IsAnswer, IsCurrent
  <2>2. Agreed(p) => view[p].since <= m.version
    BY <1>2, Parts DEF Agreed, ViewNotAhead
  <2>. QED BY <1>1, <1>2, <2>1, <2>2, SaidFresh
<1>. QED BY <1>3, <1>4

LEMMA IsCurrentFresh ==
  ASSUME IInv, NEW p \in Queries, BackendIsCurrent(p)
  PROVE  \A q \in Queries : QueryInv(q)'
<1> DEFINE m == About("Current", p, 0)
<1>1. /\ messages' = Append(messages, m) /\ watched \in [Queries -> Watched]
      /\ UNCHANGED <<view, cache, target, stream, requests, cloud>>
      /\ watched[p].as = "added" /\ watched[p].sent = cloud[p]
      /\ \A q \in Queries : q # p => watched'[q] = watched[q]
  BY Parts DEF BackendIsCurrent, Says, TypeOK
<1>2. m \in Message /\ m.kind = "Current" /\ m.query = p
  BY Parts, WordsType, Constants DEF About
<1> HIDE DEF m
<1>3. ASSUME NEW q \in Queries, q # p PROVE QueryInv(q)'
  BY <1>1, <1>2, <1>3, OthersSaidFresh
<1>4. QueryInv(p)'
  <2>1. IsCurrent(m, p) /\ ~IsAnswer(m, p) /\ ~IsDoc(m, p)
    BY <1>2 DEF IsDoc, IsAnswer, IsCurrent
  <2>2. ASSUME Agreed(p) PROVE Got(p) \/ DocComes(messages, p)
    <3>1. SentFresh(p) /\ ViewNotAhead(p)
      BY <2>2, Parts DEF FreshWords
    <3>. QED BY <1>1, <2>2, <3>1 DEF SentFresh, ViewNotAhead, Agreed
  <2>. QED BY <1>1, <1>2, <2>1, <2>2, SaidFresh
<1>. QED BY <1>3, <1>4

LEMMA SnapshotSaidFresh ==
  ASSUME IInv, BackendSnapshot
  PROVE  \A q \in Queries : QueryInv(q)'
<1>1. PICK m \in Message : messages' = Append(messages, m) /\ m.kind = "Snapshot"
  <2>1. [kind |-> "Snapshot"] \in Message /\ [kind |-> "Snapshot"].kind = "Snapshot"
    BY DEF Message
  <2>. QED BY <2>1 DEF BackendSnapshot, Says
<1>2. /\ UNCHANGED <<view, cache, target, stream, requests, cloud>>
      /\ \A q \in Queries : watched'[q].as = watched[q].as /\ watched'[q].sent = watched[q].sent
  BY Parts DEF BackendSnapshot, TypeOK, Watched
<1>. QED BY <1>1, <1>2, OthersSaidFresh

LEMMA ChangesFresh ==
  ASSUME IInv, TypeOK', NEW p \in Queries, BackendChanges(p)
  PROVE  QuietWhenClosed' /\ \A q \in Queries : QueryInv(q)'
<1>1. /\ UNCHANGED <<view, cache, target, stream, requests, messages, watched>>
      /\ cloud' = [cloud EXCEPT ![p] = @ + 1]
  BY DEF BackendChanges
<1>2. (Open' <=> Open) /\ QuietWhenClosed'
  BY <1>1, Parts DEF Open, QuietWhenClosed
<1>3. ASSUME NEW q \in Queries PROVE QueryInv(q)'
  <2>1. cloud'[q] \in Nat /\ cloud'[q] >= cloud[q]
    BY <1>1, Parts, BoundsAssumption DEF TypeOK, Versions
  <2>. QED BY <1>1, <1>2, <2>1, Untouched
<1>. QED BY <1>2, <1>3

-----------------------------------------------------------------------------
(* The invariant holds.                                                    *)

LEMMA InvInit == Init => IInv
<1> SUFFICES ASSUME Init PROVE IInv
  OBVIOUS
<1>1. TypeOK /\ QuietWhenClosed
  BY TypeInit DEF Init, QuietWhenClosed
<1>2. ASSUME NEW q \in Queries PROVE QueryInv(q)
  BY <1>2 DEF Init, QueryInv, Counted, AskedLast, ViewNotAhead, FreshWords, ChangedIsFresh, SyncedFresh,
              Agreed, Active, Closed, Open, Stopped
<1>. QED BY <1>1, <1>2 DEF IInv

LEMMA InvNext == IInv /\ [Next]_vars => IInv'
<1> SUFFICES ASSUME IInv, [Next]_vars PROVE IInv'
  OBVIOUS
<1>1. TypeOK'
  BY Parts, TypeNext
<1>2. CASE App
  BY <1>1, <1>2, GetDocumentFresh, StopListeningFresh, GetsFresh
     DEF App, JoinListeners, LeaveListeners, IInv
<1>3. CASE Client
  BY <1>1, <1>3, ResumeFresh, BackoffFresh, TimeoutFresh, MessageReadFresh DEF Client, IInv
<1>4. CASE Network
  BY <1>1, <1>4, NetworkFresh DEF IInv
<1>5. CASE Backend
  BY <1>1, <1>5, BackendNeedsStream, ReadsFresh, SendsFresh, IsCurrentFresh, SnapshotSaidFresh
     DEF Backend, IInv
<1>6. CASE \E q \in Queries : BackendChanges(q)
  BY <1>1, <1>6, ChangesFresh DEF IInv
<1>7. CASE UNCHANGED vars
  BY <1>1, <1>7, GetsFresh DEF vars, IInv
<1>. QED BY <1>2, <1>3, <1>4, <1>5, <1>6, <1>7 DEF Next

\* The invariant that carries SyncedIsFresh.
THEOREM InvariantHolds == Spec => []IInv
BY InvInit, InvNext, PTL DEF Spec

\* A view in sync shows what the backend had when it was opened, or later:
\* nothing said of an earlier listen, another target or the stream before passes
\* for an answer to this one.
THEOREM SyncedStaysFresh == Spec => []SyncedIsFresh
<1>1. IInv => SyncedIsFresh
  BY Parts DEF SyncedIsFresh, SyncedFresh
<1>. QED BY <1>1, InvariantHolds, PTL

-----------------------------------------------------------------------------
(* Who waits, and for what.                                                *)

\* A listener has a view, and waits only while that would not answer it.
Heard ==
  \A g \in Gets : gets[g] # Idle =>
    /\ view[gets[g].query].open
    /\ gets[g].at = "listening" => ~Raised(online, view[gets[g].query])

\* A view has a stream that nothing is about to stop, and without a stream
\* nothing is said of whether the client is online.
StreamServes ==
  /\ \A q \in Queries : view[q].open => Started /\ ~stream.idle
  /\ stream.idle => Open
  /\ ~Started => online.state = "Unknown"

\* The backend has called q current in this listen, and the view shows it.
Synchronised(q) ==
  Active(q) /\ target[q].current /\ view[q].current /\ online.state = "Online"

\* On an open stream a view is in sync, or something is under way that brings
\* it there.  That the view says so is not enough: it may be from the stream
\* before this one, and fall back with the first documents of this.
Served(q) ==
  Open /\ view[q].open =>
    requests[q] # <<>> \/ watched[q].as = "added" \/ CurrentComes(q) \/ Synchronised(q)

WInv == Heard /\ StreamServes /\ \A q \in Queries : Served(q)

\* A listener hears what the views come to.
LEMMA BroadcastHeard ==
  ASSUME TypeOK, Heard, NEW o \in Online, NEW v \in [Queries -> View], Broadcast(o, v),
         \A q \in Queries : v[q].open = view[q].open
  PROVE  Heard'
<1>1. /\ online' = o /\ view' = ViewsUnder(o, v) /\ gets' = Answered(o, view')
      /\ view' \in [Queries -> View] /\ \A q \in Queries : view'[q].open = view[q].open
  BY BroadcastType, BroadcastViews DEF Broadcast, TypeOK
<1>2. SUFFICES ASSUME NEW g \in Gets, gets'[g] # Idle
               PROVE  /\ view'[gets'[g].query].open
                      /\ gets'[g].at = "listening" => ~Raised(online', view'[gets'[g].query])
  BY DEF Heard, Raised
<1>3. gets[g] \in Get
  BY DEF TypeOK
<1>4. gets[g] # Idle
  BY <1>1, <1>2 DEF Answered, Idle
<1>5. gets[g] \in [at: {"listening", "answered"}, query: Queries]
  BY <1>3, <1>4 DEF Get
<1>6. gets'[g].query = gets[g].query
  BY <1>1, <1>5 DEF Answered
<1>7. gets'[g].at = "listening" => ~Raised(online', view'[gets[g].query])
  BY <1>1, <1>5 DEF Answered
<1>. QED BY <1>1, <1>4, <1>5, <1>6, <1>7 DEF Heard

\* Views come and go with their listeners.
LEMMA HeardNext == TypeOK /\ TypeOK' /\ TrackerAsserts /\ StreamServes /\ Heard /\ [Next]_vars => Heard'
<1> SUFFICES ASSUME TypeOK, TypeOK', TrackerAsserts, StreamServes, Heard, [Next]_vars PROVE Heard'
  OBVIOUS
<1>0. view \in [Queries -> View] /\ online \in Online /\ gets \in [Gets -> Get]
  BY DEF TypeOK
<1>1. ASSUME NEW g \in Gets, NEW q \in Queries, JoinListeners(g, q) PROVE Heard'
  BY <1>0, <1>1 DEF JoinListeners, Heard, Idle, Raised
<1>2. ASSUME NEW g \in Gets, NEW q \in Queries, GetDocument(g, q) PROVE Heard'
  <2>1. /\ gets' = [gets EXCEPT ![g] = [at |-> IF online.state = "Offline" THEN "answered" ELSE "listening", query |-> q]]
        /\ view' = [view EXCEPT ![q] = [open |-> TRUE, current |-> FALSE, since |-> cloud[q]]]
        /\ ~view[q].open
    BY <1>2 DEF GetDocument
  <2>2. online'.state # "Offline" <=> online.state # "Offline"
    <3>1. CASE ~Started
      <4>1. online.state = "Unknown" /\ online' = OnStreamStart(online)
        BY <1>2, <3>1 DEF StreamServes, GetDocument
      <4>. QED BY <1>0, <4>1 DEF OnStreamStart, Online
    <3>2. CASE Started
      BY <1>2, <3>2 DEF GetDocument
    <3>. QED BY <3>1, <3>2
  <2>3. ASSUME NEW h \in Gets, h # g, gets'[h] # Idle
        PROVE  /\ view'[gets'[h].query].open
               /\ gets'[h].at = "listening" => ~Raised(online', view'[gets'[h].query])
    <3>1. gets'[h] = gets[h] /\ gets[h] # Idle
      BY <1>0, <2>1, <2>3
    <3>2. view[gets[h].query].open /\ gets[h].query \in Queries
      BY <1>0, <3>1 DEF Heard, Get
    <3>3. view'[gets[h].query] = view[gets[h].query]
      BY <1>0, <2>1, <3>2
    <3>. QED BY <2>2, <3>1, <3>2, <3>3 DEF Heard, Raised
  <2>4. /\ view'[gets'[g].query].open
        /\ gets'[g].at = "listening" => ~Raised(online', view'[gets'[g].query])
    BY <1>0, <2>1, <2>2 DEF Raised
  <2>. QED BY <2>3, <2>4 DEF Heard, Raised
<1>3. ASSUME NEW g \in Gets, LeaveListeners(g) PROVE Heard'
  BY <1>0, <1>3 DEF LeaveListeners, Heard, Raised
<1>4. ASSUME NEW g \in Gets, StopListening(g) PROVE Heard'
  <2>1. /\ gets' = [gets EXCEPT ![g] = Idle] /\ view' = [view EXCEPT ![gets[g].query] = Closed]
        /\ \A h \in Gets \ {g} : gets[h] # Idle => gets[h].query # gets[g].query
        /\ online' = online \/ online' = UpdateState("Unknown")
    BY <1>4 DEF StopListening
  <2>2. ASSUME NEW h \in Gets, gets'[h] # Idle
        PROVE  /\ view'[gets'[h].query].open
               /\ gets'[h].at = "listening" => ~Raised(online', view'[gets'[h].query])
    <3>1. h # g /\ gets'[h] = gets[h] /\ gets[h] # Idle
      BY <1>0, <2>1, <2>2
    <3>2. gets[h].query \in Queries /\ gets[h].query # gets[g].query
      BY <1>0, <2>1, <3>1 DEF Get
    <3>3. view'[gets[h].query] = view[gets[h].query]
      BY <1>0, <2>1, <3>2
    <3>4. online'.state = "Offline" => online.state = "Offline"
      BY <2>1 DEF UpdateState
    <3>. QED BY <3>1, <3>3, <3>4 DEF Heard, Raised
  <2>. QED BY <2>2 DEF Heard, Raised
<1>5. CASE ResumeStartWithCredentials \/ BackoffElapsed
  BY <1>5 DEF ResumeStartWithCredentials, BackoffElapsed, Heard, Raised
<1>6. CASE OnlineStateTimeout
  <2>1. Broadcast([online EXCEPT !.state = "Offline", !.timer = FALSE], view)
    BY <1>6 DEF OnlineStateTimeout
  <2>2. [online EXCEPT !.state = "Offline", !.timer = FALSE] \in Online
    BY <1>0, TrackerType
  <2>. QED BY <1>0, <2>1, <2>2, BroadcastHeard
<1>7. CASE OnWatchStreamChange
  <2>1. Broadcast(UpdateState("Online"), view) \/ Broadcast(UpdateState("Online"), Synced)
    BY <1>7 DEF OnWatchStreamChange
  <2>2. UpdateState("Online") \in Online /\ Synced \in [Queries -> View]
    BY TrackerType, SyncedType DEF TypeOK
  <2>3. \A q \in Queries : Synced[q].open = view[q].open
    BY <1>0 DEF Synced, View
  <2>. QED BY <1>0, <2>1, <2>2, <2>3, BroadcastHeard
<1>8. CASE Network
  <2>1. UpdateState("Unknown") \in Online /\ OnStreamStart(OnStreamFailure(online)) \in Online
        /\ OnStreamStart(UpdateState("Unknown")) \in Online
    BY <1>0, TrackerType
  <2>2. \/ Broadcast(UpdateState("Unknown"), view) \/ Broadcast(OnStreamStart(OnStreamFailure(online)), view)
        \/ Broadcast(OnStreamStart(UpdateState("Unknown")), view)
    BY <1>8 DEF Network, WatchStreamFails, RestartNetwork, IdleTimeout
  <2>. QED BY <1>0, <2>1, <2>2, BroadcastHeard
<1>9. CASE Backend \/ \E q \in Queries : BackendChanges(q)
  <2>1. UNCHANGED <<gets, view, online>>
    BY <1>9 DEF Backend, BackendReads, BackendSends, BackendIsCurrent, BackendSnapshot, BackendChanges
  <2>. QED BY <2>1 DEF Heard, Raised
<1>10. CASE UNCHANGED vars
  BY <1>10 DEF vars, Heard, Raised
<1>. QED BY <1>1, <1>2, <1>3, <1>4, <1>5, <1>6, <1>7, <1>8, <1>9, <1>10 DEF Next, App, Client

LEMMA StreamServesNext == TypeOK /\ TrackerAsserts /\ StreamServes /\ [Next]_vars => StreamServes'
<1> SUFFICES ASSUME TypeOK, TrackerAsserts, StreamServes, [Next]_vars PROVE StreamServes'
  OBVIOUS
<1>0. /\ view \in [Queries -> View] /\ online \in Online /\ gets \in [Gets -> Get]
      /\ stream \in Stream
  BY DEF TypeOK
<1>1. ASSUME NEW g \in Gets, NEW q \in Queries, JoinListeners(g, q) PROVE StreamServes'
  BY <1>1 DEF JoinListeners, StreamServes, Started, Open
<1>2. ASSUME NEW g \in Gets, NEW q \in Queries, GetDocument(g, q) PROVE StreamServes'
  <2>1. CASE ~Started
    BY <1>2, <2>1 DEF GetDocument, StreamServes, Started, Open, Begun
  <2>2. CASE Started /\ Open
    BY <1>0, <1>2, <2>2 DEF GetDocument, StreamServes, Started, Open, Stream
  <2>3. CASE Started /\ ~Open
    BY <1>2, <2>3 DEF GetDocument, StreamServes, Started, Open
  <2>. QED BY <2>1, <2>2, <2>3
<1>3. ASSUME NEW g \in Gets, LeaveListeners(g) PROVE StreamServes'
  BY <1>3 DEF LeaveListeners, StreamServes, Started, Open
<1>4. ASSUME NEW g \in Gets, StopListening(g) PROVE StreamServes'
  <2>1. view' = [view EXCEPT ![gets[g].query] = Closed]
    BY <1>4 DEF StopListening
  <2>2. \A p \in Queries : view'[p].open => p # gets[g].query /\ view[p].open
    BY <1>0, <2>1 DEF Closed
  <2>3. CASE Open
    <3>1. stream' = [stream EXCEPT !.idle = \A p \in Queries \ {gets[g].query} : ~view[p].open]
      BY <1>4, <2>3 DEF StopListening
    <3>2. stream'.state = "Open"
      BY <1>0, <2>3, <3>1 DEF Open, Stream
    <3>3. \A p \in Queries : view'[p].open => ~stream'.idle
      BY <1>0, <2>2, <3>1 DEF Stream
    <3>. QED BY <3>2, <3>3 DEF StreamServes, Started, Open
  <2>4. CASE ~Open
    <3>1. stream' = stream /\ (online' = online \/ online' = UpdateState("Unknown"))
      BY <1>4, <2>4 DEF StopListening
    <3>. QED BY <2>2, <3>1 DEF StreamServes, Started, Open, UpdateState
  <2>. QED BY <2>3, <2>4
<1>5. CASE ResumeStartWithCredentials \/ BackoffElapsed
  BY <1>0, <1>5 DEF ResumeStartWithCredentials, BackoffElapsed, StreamServes, Started, Open, Stream
<1>6. CASE OnlineStateTimeout
  <2>1. Started /\ UNCHANGED stream /\ Broadcast([online EXCEPT !.state = "Offline", !.timer = FALSE], view)
    BY <1>6 DEF OnlineStateTimeout, TrackerAsserts
  <2>2. [online EXCEPT !.state = "Offline", !.timer = FALSE] \in Online
    BY <1>0, TrackerType
  <2>3. \A q \in Queries : view'[q].open = view[q].open
    BY <1>0, <2>1, <2>2, BroadcastViews
  <2>. QED BY <2>1, <2>3 DEF StreamServes, Started, Open
<1>7. CASE OnWatchStreamChange
  <2>1. /\ Open /\ UNCHANGED stream
        /\ Broadcast(UpdateState("Online"), view) \/ Broadcast(UpdateState("Online"), Synced)
    BY <1>7 DEF OnWatchStreamChange
  <2>2. UpdateState("Online") \in Online /\ Synced \in [Queries -> View]
    BY TrackerType, SyncedType DEF TypeOK
  <2>3. \A q \in Queries : Synced[q].open = view[q].open
    BY <1>0 DEF Synced, View
  <2>4. \A q \in Queries : view'[q].open = view[q].open
    BY <1>0, <2>1, <2>2, <2>3, BroadcastViews
  <2>. QED BY <2>1, <2>4 DEF StreamServes, Started, Open
<1>8. CASE Network
  <2>1. \/ Broadcast(UpdateState("Unknown"), view) /\ ~stream'.idle /\ ~Open' /\ ~Started' /\ \A q \in Queries : ~view[q].open
        \/ /\ ~stream'.idle /\ Started'
           /\ \E o \in Online : Broadcast(o, view)
    <3>1. CASE IdleTimeout
      BY <3>1 DEF IdleTimeout, StreamServes, Stopped, Open, Started
    <3>2. CASE RestartNetwork
      <4>1. OnStreamStart(UpdateState("Unknown")) \in Online
        BY <1>0, TrackerType
      <4>. QED BY <3>2, <4>1 DEF RestartNetwork, Stopped, Begun, Open, Started
    <3>3. CASE WatchStreamFails
      <4>1. OnStreamStart(OnStreamFailure(online)) \in Online
        BY <1>0, TrackerType
      <4>. QED BY <3>3, <4>1 DEF WatchStreamFails, Stopped, Begun, Open, Started
    <3>. QED BY <1>8, <3>1, <3>2, <3>3 DEF Network
  <2>2. UpdateState("Unknown") \in Online
    BY <1>0, TrackerType
  <2>3. \A q \in Queries : view'[q].open = view[q].open
    BY <1>0, <2>1, <2>2, BroadcastViews
  <2>. QED BY <2>1, <2>3 DEF StreamServes, Broadcast, UpdateState
<1>9. CASE Backend \/ \E q \in Queries : BackendChanges(q)
  <2>1. UNCHANGED <<stream, view, online>>
    BY <1>9 DEF Backend, BackendReads, BackendSends, BackendIsCurrent, BackendSnapshot, BackendChanges
  <2>. QED BY <2>1 DEF StreamServes, Started, Open
<1>10. CASE UNCHANGED vars
  BY <1>10 DEF vars, StreamServes, Started, Open
<1>. QED BY <1>1, <1>2, <1>3, <1>4, <1>5, <1>6, <1>7, <1>8, <1>9, <1>10 DEF Next, App, Client

-----------------------------------------------------------------------------
(* What is under way for a view.                                           *)

\* A step that neither says nor asks anything about q.
LEMMA StillServed ==
  ASSUME NEW q \in Queries, Served(q), Open' => Open, messages' = messages,
         requests'[q] = requests[q], target'[q] = target[q], watched'[q] = watched[q],
         view'[q].open => view[q].open,
         view'[q].open /\ Synchronised(q) => view'[q].current /\ online'.state = "Online"
  PROVE  Served(q)'
<1> SUFFICES ASSUME Open', view'[q].open
             PROVE  requests'[q] # <<>> \/ watched'[q].as = "added" \/ CurrentComes(q)' \/ Synchronised(q)'
  BY DEF Served
<1>1. CurrentComes(q) => CurrentComes(q)'
  BY DEF CurrentComes, SnapshotBehind, Active
<1>2. Synchronised(q) => Synchronised(q)'
  BY DEF Synchronised, Active
<1>. QED BY <1>1, <1>2 DEF Served

\* One more message takes nothing away from a query it does not answer.
LEMMA SaidServed ==
  ASSUME NEW q \in Queries, messages \in Seq(Message), NEW m \in Message, messages' = Append(messages, m),
         ~IsAnswer(m, q), UNCHANGED <<view, online, stream>>, requests'[q] = requests[q],
         target'[q] = target[q], watched[q].due => watched'[q].due \/ m.kind = "Snapshot",
         watched[q].as = "added" => watched'[q].as = "added" \/ CurrentComes(q)',
         Served(q)
  PROVE  Served(q)'
<1> DEFINE a == Append(messages, m)
           n == Len(messages) + 1
<1>1. /\ DOMAIN messages = 1..Len(messages) /\ Len(messages) \in Nat /\ DOMAIN a = 1..n /\ a[n] = m
      /\ \A i \in DOMAIN messages : a[i] = messages[i] /\ (Settled(a, i, q) <=> Settled(messages, i, q))
  BY SettledAppend
<1>2. \A i \in DOMAIN messages : i \in DOMAIN a /\ n > i
  BY <1>1
<1>3. n \in DOMAIN a /\ n > 0
  BY <1>1
<1>4. messages' = a
  OBVIOUS
<1> HIDE DEF a, n
<1>5. \A i \in DOMAIN messages \cup {0} : SnapshotBehind(i, q) => SnapshotBehind(i, q)'
  BY <1>1, <1>2, <1>3, <1>4 DEF SnapshotBehind
<1>6. CurrentComes(q) => CurrentComes(q)'
  <2>1. Active(q)' <=> Active(q)
    BY DEF Active
  <2>. QED BY <1>1, <1>2, <1>4, <1>5, <2>1 DEF CurrentComes
<1>7. Synchronised(q) => Synchronised(q)'
  BY DEF Synchronised, Active
<1>8. Open' <=> Open
  BY DEF Open
<1>. QED BY <1>6, <1>7, <1>8 DEF Served

\* Gets open and close views, and ask.
LEMMA AppServed ==
  ASSUME IInv, App, NEW p \in Queries, Served(p)
  PROVE  Served(p)'
<1>0. /\ view \in [Queries -> View] /\ requests \in [Queries -> Seq(Request)]
      /\ target \in [Queries -> Target] /\ stream \in Stream
  BY Parts DEF TypeOK
<1>1. CASE UNCHANGED <<view, target, online, stream, requests, messages, watched>>
  BY <1>1, StillServed DEF Synchronised, Open
<1>2. ASSUME NEW g \in Gets, NEW q \in Queries, GetDocument(g, q) PROVE Served(p)'
  <2>1. view' = [view EXCEPT ![q] = [open |-> TRUE, current |-> FALSE, since |-> cloud[q]]]
        /\ UNCHANGED <<messages, watched>>
    BY <1>2 DEF GetDocument
  <2>2. CASE ~Started
    BY <1>2, <2>2 DEF GetDocument, Served, Begun, Open
  <2>3. CASE Started /\ ~Open
    BY <1>2, <2>3 DEF GetDocument, Served, Open
  <2>4. CASE Started /\ Open
    <3>1. /\ target' = [target EXCEPT ![q] = Asked(@)]
          /\ requests' = [requests EXCEPT ![q] = Append(@, Watch(q))] /\ UNCHANGED online
      BY <1>2, <2>4 DEF GetDocument
    <3>2. CASE p = q
      <4>1. requests[q] \in Seq(Request) /\ Watch(q) \in Request
        BY Parts, WordsType DEF TypeOK
      <4>2. requests'[q] = Append(requests[q], Watch(q)) /\ Append(requests[q], Watch(q)) # <<>>
        BY <1>0, <3>1, <4>1, AppendProperties
      <4>. QED BY <3>2, <4>2 DEF Served
    <3>3. CASE p # q
      <4>1. view'[p] = view[p] /\ target'[p] = target[p] /\ requests'[p] = requests[p]
        BY <1>0, <2>1, <3>1, <3>3
      <4>. QED BY <2>1, <2>4, <3>1, <4>1, StillServed DEF Synchronised
    <3>. QED BY <3>2, <3>3
  <2>. QED BY <2>2, <2>3, <2>4
<1>3. ASSUME NEW g \in Gets, StopListening(g) PROVE Served(p)'
  <2>1. view' = [view EXCEPT ![gets[g].query] = Closed] /\ UNCHANGED <<messages, watched>>
    BY <1>3 DEF StopListening
  <2>2. CASE p = gets[g].query
    BY <1>0, <2>1, <2>2 DEF Served, Closed
  <2>3. CASE p # gets[g].query /\ ~Open
    BY <1>3, <2>3 DEF StopListening, Served, Open
  <2>4. CASE p # gets[g].query /\ Open
    <3>1. /\ target' = [target EXCEPT ![gets[g].query] = Asked(@)]
          /\ requests' = [requests EXCEPT ![gets[g].query] = Append(@, Unwatch)] /\ UNCHANGED online
      BY <1>3, <2>4 DEF StopListening
    <3>2. view'[p] = view[p] /\ target'[p] = target[p] /\ requests'[p] = requests[p]
      BY <1>0, <2>1, <2>4, <3>1
    <3>. QED BY <2>1, <2>4, <3>1, <3>2, StillServed DEF Synchronised
  <2>. QED BY <2>2, <2>3, <2>4
<1>. QED BY <1>1, <1>2, <1>3 DEF App, JoinListeners, LeaveListeners

\* An answer the backend has said settles nothing; the last request read is to
\* watch, if there is a view.
LEMMA BackendServed ==
  ASSUME IInv, Backend, NEW q \in Queries, Served(q)
  PROVE  Served(q)'
<1>0. /\ TypeOK /\ messages \in Seq(Message) /\ watched \in [Queries -> Watched]
      /\ requests \in [Queries -> Seq(Request)] /\ requests[q] \in Seq(Request)
  BY Parts DEF TypeOK
<1>1. ASSUME NEW p \in Queries, BackendReads(p) PROVE Served(q)'
  <2>1. /\ UNCHANGED <<view, online, stream, target>> /\ requests[p] # <<>>
        /\ requests' = [requests EXCEPT ![p] = Tail(@)]
    BY <1>1 DEF BackendReads
  <2>2. CASE p # q
    <3>1. PICK m \in Message : messages' = Append(messages, m) /\ m.query = p /\ m.kind \in {"Added", "Removed"}
      <4>1. About("Added", p, 0) \in Message /\ About("Removed", p, 0) \in Message
        BY <1>0, WordsType, Constants
      <4>. QED BY <1>1, <4>1 DEF BackendReads, Says, About
    <3>2. ~IsAnswer(m, q) /\ watched'[q] = watched[q] /\ requests'[q] = requests[q]
      BY <1>0, <1>1, <2>1, <2>2, <3>1 DEF BackendReads, IsAnswer
    <3>. QED BY <1>0, <2>1, <3>1, <3>2, SaidServed
  <2>3. CASE p = q
    <3> SUFFICES ASSUME view[q].open, requests'[q] = <<>> PROVE watched'[q].as = "added"
      BY <2>1 DEF Served
    <3>1. requests[q] = <<Head(requests[q])>>
      <4>1. Tail(requests[q]) = <<>>
        BY <1>0, <2>1, <2>3
      <4>2. Len(requests[q]) \in Nat \ {0} /\ Len(Tail(requests[q])) = Len(requests[q]) - 1
        BY <1>0, <2>1, <2>3, LenProperties, EmptySeq, HeadTailProperties
      <4>3. Len(requests[q]) - 1 = 0
        <5>1. Len(<<>>) = 0
          OBVIOUS
        <5>. QED BY <4>1, <4>2, <5>1
      <4>4. Len(requests[q]) = 1
        BY <4>2, <4>3
      <4>. QED BY <1>0, <4>4
    <3>2. Head(requests[q]).kind = "watch"
      <4>1. requests[q][Len(requests[q])].kind = "watch"
        BY <2>1, <2>3, Parts DEF AskedLast
      <4>. QED BY <3>1, <4>1
    <3>3. watched' = [watched EXCEPT ![q] = [Unwatched EXCEPT !.as = "added", !.sent = Head(requests[q]).resume]]
      BY <1>1, <2>3, <3>2 DEF BackendReads
    <3>. QED BY <1>0, <3>3 DEF Unwatched
  <2>. QED BY <2>2, <2>3
<1>2. ASSUME NEW p \in Queries, BackendSends(p) PROVE Served(q)'
  <2>1. /\ UNCHANGED <<view, online, stream, target, requests>> /\ Says(About("Doc", p, cloud[p]))
        /\ watched' = [watched EXCEPT ![p].sent = cloud[p], ![p].due = TRUE]
    BY <1>2 DEF BackendSends
  <2>2. PICK m \in Message : messages' = Append(messages, m) /\ m.kind = "Doc"
    <3>1. cloud[p] \in 0..MaxVersion
      BY <1>0, Constants DEF TypeOK
    <3>2. About("Doc", p, cloud[p]) \in Message
      BY <1>0, <3>1, WordsType
    <3>. QED BY <2>1, <3>2 DEF Says, About
  <2>3. ~IsAnswer(m, q) /\ (watched[q].due => watched'[q].due) /\ watched'[q].as = watched[q].as
    BY <1>0, <2>1, <2>2 DEF IsAnswer, Watched
  <2>. QED BY <1>0, <2>1, <2>2, <2>3, SaidServed
<1>3. ASSUME NEW p \in Queries, BackendIsCurrent(p) PROVE Served(q)'
  <2>1. /\ UNCHANGED <<view, online, stream, target, requests>> /\ Says(About("Current", p, 0))
        /\ watched' = [watched EXCEPT ![p].as = "current", ![p].due = TRUE]
    BY <1>3 DEF BackendIsCurrent
  <2>2. PICK m \in Message : messages' = Append(messages, m) /\ m.kind = "Current" /\ m.query = p
    <3>1. About("Current", p, 0) \in Message
      BY <1>0, WordsType, Constants
    <3>. QED BY <2>1, <3>1 DEF Says, About
  <2>3. ~IsAnswer(m, q) /\ (watched[q].due => watched'[q].due)
    BY <1>0, <2>1, <2>2 DEF IsAnswer, Watched
  <2>4. p # q => watched'[q].as = watched[q].as
    BY <1>0, <2>1
  <2>5. p = q => CurrentComes(q)'
    <3>1. PICK n \in Nat : n = Len(messages) + 1
      BY <1>0
    <3>2. DOMAIN Append(messages, m) = 1..n /\ Append(messages, m)[n] = m /\ Settled(Append(messages, m), n, q)
      BY <1>0, <2>3, <3>1, SettledAppend
    <3>3. n \in DOMAIN Append(messages, m)
      BY <1>0, <3>1, <3>2
    <3>4. p = q => watched'[q].due
      BY <1>0, <2>1 DEF Watched
    <3>. QED BY <2>2, <3>2, <3>3, <3>4 DEF CurrentComes, SnapshotBehind, IsCurrent
  <2>. QED BY <1>0, <2>1, <2>2, <2>3, <2>4, <2>5, SaidServed
<1>4. CASE BackendSnapshot
  <2>1. /\ UNCHANGED <<view, online, stream, target, requests>> /\ watched'[q].as = watched[q].as
    BY <1>0, <1>4 DEF BackendSnapshot, Watched
  <2>2. PICK m \in Message : messages' = Append(messages, m) /\ m.kind = "Snapshot"
    <3>1. [kind |-> "Snapshot"] \in Message /\ [kind |-> "Snapshot"].kind = "Snapshot"
      BY DEF Message
    <3>. QED BY <1>4, <3>1 DEF BackendSnapshot, Says
  <2>3. ~IsAnswer(m, q)
    BY <2>2 DEF IsAnswer
  <2>. QED BY <1>0, <2>1, <2>2, <2>3, SaidServed
<1>. QED BY <1>1, <1>2, <1>3, <1>4 DEF Backend

\* Reading brings what was said of q nearer: a settled "current" becomes the
\* target's, and the snapshot behind it the view's.
LEMMA ReadServed ==
  ASSUME IInv, OnWatchStreamChange, NEW q \in Queries, Served(q)
  PROVE  Served(q)'
<1>1. /\ Open /\ messages # <<>> /\ messages' = Tail(messages) /\ messages \in Seq(Message)
      /\ UNCHANGED <<stream, requests, watched>>
  BY Parts DEF OnWatchStreamChange, TypeOK
<1>2. PICK m \in Message : m = Head(messages)
  BY <1>1, HeadTailProperties
<1>3. /\ TypeOK /\ view \in [Queries -> View] /\ target \in [Queries -> Target] /\ Synced \in [Queries -> View]
  BY Parts, SyncedType DEF TypeOK
<1>4. /\ online' = UpdateState("Online") /\ online'.state = "Online"
      /\ m.kind # "Snapshot" => view' = view
      /\ m.kind = "Snapshot" => view' = Synced /\ target' = Reported
  BY <1>2 DEF OnWatchStreamChange, Broadcast, ViewsUnder, UpdateState
<1>5. view'[q].open = view[q].open
  BY <1>3, <1>4 DEF Synced, View
<1> SUFFICES ASSUME view[q].open, requests[q] = <<>>, watched[q].as # "added"
             PROVE  CurrentComes(q)' \/ Synchronised(q)'
  BY <1>1, <1>5 DEF Served
<1>6. CurrentComes(q) \/ Synchronised(q)
  BY <1>1 DEF Served
<1>7. Active(q) <=> Settled(messages, 1, q)
  BY <1>1, ActiveIsSettled DEF Agreed
<1>8. /\ m = messages[1] /\ DOMAIN messages \subseteq Nat
      /\ \A i \in DOMAIN Tail(messages) :
           /\ Tail(messages)[i] = messages[i + 1]
           /\ Settled(Tail(messages), i, q) <=> Settled(messages, i + 1, q)
      /\ \A j \in DOMAIN messages : j # 1 => j - 1 \in DOMAIN Tail(messages) /\ (j - 1) + 1 = j
  BY <1>1, <1>2, SettledTail
<1>9. ASSUME NEW i \in DOMAIN messages \cup {0}, NEW k \in Nat, k = IF i = 0 THEN 0 ELSE i - 1,
             SnapshotBehind(i, q), i = 0 => m.kind # "Snapshot"
      PROVE  SnapshotBehind(k, q)'
  <2>1. CASE watched[q].due
    BY <1>1, <2>1 DEF SnapshotBehind
  <2>2. CASE \E j \in DOMAIN messages : j > i /\ messages[j].kind = "Snapshot"
    <3>1. PICK j \in DOMAIN messages : j > i /\ messages[j].kind = "Snapshot"
      BY <2>2
    <3>2. j # 1 /\ i \in Nat /\ j \in Nat
      BY <1>8, <1>9, <3>1
    <3>3. j - 1 \in DOMAIN Tail(messages) /\ Tail(messages)[j - 1].kind = "Snapshot"
      BY <1>8, <3>1, <3>2
    <3>4. j - 1 > k
      BY <1>8, <1>9, <3>1, <3>2
    <3>. QED BY <1>1, <3>3, <3>4 DEF SnapshotBehind
  <2>. QED BY <1>9, <2>1, <2>2 DEF SnapshotBehind
<1>10. ASSUME NEW i \in DOMAIN messages, i # 1, Settled(messages, i, q), IsCurrent(messages[i], q),
              SnapshotBehind(i, q)
       PROVE  CurrentComes(q)'
  <2>1. PICK k \in Nat : k = i - 1 /\ k \in DOMAIN Tail(messages) /\ k + 1 = i /\ k < i
    <3>1. i \in Nat /\ i - 1 \in DOMAIN Tail(messages) /\ (i - 1) + 1 = i
      BY <1>8, <1>10
    <3>2. i - 1 \in Nat
      BY <1>1, <3>1, SettledTail
    <3>. QED BY <3>1, <3>2
  <2>2. Settled(Tail(messages), k, q) /\ IsCurrent(Tail(messages)[k], q)
    BY <1>8, <1>10, <2>1
  <2>3. i # 0
    BY <2>1
  <2>4. SnapshotBehind(k, q)'
    BY <1>9, <1>10, <2>1, <2>3
  <2>. QED BY <1>1, <2>1, <2>2, <2>4 DEF CurrentComes
<1>11. CASE m.kind = "Snapshot"
  <2>1. view' = Synced /\ target' = Reported
    BY <1>4, <1>11
  <2>2. ASSUME Active(q), target[q].current, target[q].changed \/ view[q].current
        PROVE  Synchronised(q)'
    <3>1. target'[q] = [target[q] EXCEPT !.changed = FALSE, !.doc = 0]
      BY <2>1, <2>2 DEF Reported
    <3>2. target'[q].outstanding = 0 /\ target'[q].current
      BY <1>3, <2>2, <3>1 DEF Active, Target
    <3>3. view'[q].current
      BY <1>3, <2>1, <2>2 DEF Synced, View
    <3>. QED BY <1>4, <1>5, <3>2, <3>3 DEF Synchronised, Active
  <2>3. ~IsCurrent(messages[1], q)
    BY <1>8, <1>11 DEF IsCurrent
  <2>. QED BY <1>6, <1>10, <2>2, <2>3 DEF CurrentComes, Synchronised
<1>12. CASE m.kind # "Snapshot"
  <2>1. view' = view
    BY <1>4, <1>12
  <2>2. ASSUME Active(q)
        PROVE  /\ target'[q].outstanding = 0
               /\ target[q].changed => target'[q].changed
               /\ target[q].current => target'[q].current
               /\ IsCurrent(m, q) => target'[q].changed /\ target'[q].current
    <3>1. ~IsAnswer(m, q)
      <4>1. Settled(messages, 1, q)
        BY <1>7, <2>2
      <4>. QED BY <1>8, <4>1 DEF Settled
    <3>2. /\ m.kind \in {"Added", "Removed", "Doc", "Current"} /\ m.query \in Queries
      BY <1>2, <1>12, MessageKnown
    <3>3. target' = CASE m.kind = "Added" -> TargetAdded(m.query)
                       [] m.kind = "Removed" -> TargetRemoved(m.query)
                       [] m.kind = "Doc" -> DocumentChanged(m.query, m.version)
                       [] m.kind = "Current" -> MarkCurrent(m.query)
      BY <1>2, <1>12 DEF OnWatchStreamChange
    <3>4. target[q] \in Target /\ target[q].outstanding = 0
      BY <1>3, <2>2 DEF Active
    <3>5. CASE m.query # q
      <4>1. target'[q] = target[q] /\ ~IsCurrent(m, q)
        BY <1>3, <3>2, <3>3, <3>5 DEF TargetAdded, TargetRemoved, DocumentChanged, MarkCurrent, IsCurrent
      <4>. QED BY <3>4, <4>1
    <3>6. CASE m.query = q /\ m.kind = "Doc"
      <4>1. target' = [target EXCEPT ![q].changed = TRUE, ![q].doc = m.version]
        BY <2>2, <3>3, <3>6 DEF DocumentChanged
      <4>2. target'[q].outstanding = 0 /\ target'[q].changed /\ target'[q].current = target[q].current
        BY <1>3, <3>4, <4>1 DEF Target
      <4>. QED BY <3>6, <4>2 DEF IsCurrent
    <3>7. CASE m.query = q /\ m.kind = "Current"
      <4>1. target' = [target EXCEPT ![q].changed = TRUE, ![q].current = TRUE]
        BY <2>2, <3>3, <3>7 DEF MarkCurrent
      <4>2. target'[q].outstanding = 0 /\ target'[q].changed /\ target'[q].current
        BY <1>3, <3>4, <4>1 DEF Target
      <4>. QED BY <4>2
    <3>. QED BY <3>1, <3>2, <3>5, <3>6, <3>7 DEF IsAnswer
  <2>3. Active(q) => Active(q)'
    BY <1>5, <2>2 DEF Active
  <2>4. CASE Synchronised(q)
    BY <1>4, <2>1, <2>2, <2>3, <2>4 DEF Synchronised
  <2>5. CASE Active(q) /\ target[q].changed /\ target[q].current /\ SnapshotBehind(0, q)
    <3>1. SnapshotBehind(0, q)'
      BY <1>9, <1>12, <2>5
    <3>. QED BY <2>2, <2>3, <2>5, <3>1 DEF CurrentComes
  <2>6. ASSUME NEW i \in DOMAIN messages, Settled(messages, i, q), IsCurrent(messages[i], q),
               SnapshotBehind(i, q)
        PROVE  CurrentComes(q)'
    <3>1. CASE i = 1
      <4>1. Active(q) /\ IsCurrent(m, q)
        BY <1>7, <1>8, <2>6, <3>1
      <4>2. SnapshotBehind(0, q)'
        BY <1>9, <2>6, <3>1
      <4>. QED BY <2>2, <2>3, <4>1, <4>2 DEF CurrentComes
    <3>. QED BY <1>10, <2>6, <3>1
  <2>. QED BY <1>6, <2>4, <2>5, <2>6 DEF CurrentComes
<1>. QED BY <1>11, <1>12

LEMMA ServedNext ==
  IInv /\ TrackerAsserts /\ (\A q \in Queries : Served(q)) /\ [Next]_vars => \A q \in Queries : Served(q)'
<1> SUFFICES ASSUME IInv, TrackerAsserts, NEW q \in Queries, Served(q), [Next]_vars PROVE Served(q)'
  OBVIOUS
<1>1. CASE App
  BY <1>1, AppServed
<1>2. CASE Client
  <2>1. CASE ResumeStartWithCredentials
    <3>1. view[q].open => requests'[q] = <<Watch(q)>>
      BY <2>1 DEF ResumeStartWithCredentials
    <3>. QED BY <2>1, <3>1 DEF Served, ResumeStartWithCredentials
  <2>2. CASE BackoffElapsed
    BY <2>2, Parts DEF BackoffElapsed, Served, Open, TypeOK, Stream
  <2>3. CASE OnlineStateTimeout
    <3>1. Broadcast([online EXCEPT !.state = "Offline", !.timer = FALSE], view)
          /\ UNCHANGED <<target, stream, requests, messages, watched>>
      BY <2>3 DEF OnlineStateTimeout
    <3>2. online \in Online /\ view \in [Queries -> View]
      BY Parts DEF TypeOK
    <3>3. [online EXCEPT !.state = "Offline", !.timer = FALSE] \in Online
      BY <3>2, TrackerType
    <3>4. view'[q].open = view[q].open
      BY <3>1, <3>2, <3>3, BroadcastViews
    <3>5. ~Synchronised(q)
      BY <2>3 DEF OnlineStateTimeout, TrackerAsserts, Synchronised
    <3>. QED BY <3>1, <3>4, <3>5, StillServed DEF Open
  <2>4. CASE OnWatchStreamChange
    BY <2>4, ReadServed
  <2>. QED BY <1>2, <2>1, <2>2, <2>3, <2>4 DEF Client
<1>3. CASE Network
  BY <1>3 DEF Network, WatchStreamFails, RestartNetwork, IdleTimeout, Served, Open, Begun, Stopped
<1>4. CASE Backend
  BY <1>4, BackendServed
<1>5. CASE \E p \in Queries : BackendChanges(p)
  <2>1. UNCHANGED <<view, target, online, stream, requests, messages, watched>>
    BY <1>5 DEF BackendChanges
  <2>. QED BY <2>1, StillServed DEF Synchronised, Open
<1>6. CASE UNCHANGED vars
  BY <1>6, StillServed DEF vars, Synchronised, Open
<1>. QED BY <1>1, <1>2, <1>3, <1>4, <1>5, <1>6 DEF Next

\* The invariant that carries NobodyWaitsInVain.
THEOREM WaitersServed == Spec => []WInv
<1>1. Init => WInv
  BY DEF Init, WInv, Heard, StreamServes, Served, Closed, Stopped, Open, Unknown, Idle
<1>2. IInv /\ IInv' /\ TrackerAsserts /\ WInv /\ [Next]_vars => WInv'
  BY HeardNext, StreamServesNext, ServedNext, Parts DEF WInv, IInv
<1>. QED BY <1>1, <1>2, InvariantHolds, TrackerIsAsAsserted, PTL DEF Spec

\* A get that waits has a stream, and on an open one something under way that
\* answers it: this is what the backend and the client only have to go on with.
THEOREM NobodyIsLeftWaiting == Spec => []NobodyWaitsInVain
<1>1. IInv /\ WInv => NobodyWaitsInVain
  <2> SUFFICES ASSUME IInv, WInv, NEW g \in Gets, gets[g].at = "listening"
               PROVE  LET q == gets[g].query IN
                      /\ view[q].open /\ ~Raised(online, view[q])
                      /\ Started /\ ~stream.idle
                      /\ Open => requests[q] # <<>> \/ watched[q].as = "added" \/ CurrentComes(q)
    BY DEF NobodyWaitsInVain
  <2>1. gets[g] # Idle /\ gets[g].query \in Queries
    BY Parts DEF TypeOK, Get, Idle
  <2>2. view[gets[g].query].open /\ ~Raised(online, view[gets[g].query])
    BY <2>1 DEF WInv, Heard
  <2>3. ~Synchronised(gets[g].query)
    BY <2>2 DEF Synchronised, Raised
  <2>. QED BY <2>1, <2>2, <2>3 DEF WInv, StreamServes, Served
<1>. QED BY <1>1, InvariantHolds, WaitersServed, PTL

\* Whoever is answered while the client is not offline is answered by a view in
\* sync, and so with what the backend had when the view was opened, or later.
THEOREM AnswersStayFresh == Spec => AnswersAreFresh
<1>1. IInv /\ IInv' /\ TrackerAsserts /\ WInv /\ WInv' /\ [Next]_vars =>
        [\A g \in Gets :
           gets[g].at # "answered" /\ gets'[g].at = "answered" /\ online'.state # "Offline" =>
             LET q == gets'[g].query IN cache'[q] >= view'[q].since]_vars
  <2> SUFFICES ASSUME IInv, IInv', TrackerAsserts, WInv, WInv', Next, NEW g \in Gets,
                      gets[g].at # "answered", gets'[g].at = "answered", online'.state # "Offline"
               PROVE  cache'[gets'[g].query] >= view'[gets'[g].query].since
    OBVIOUS
  <2>1. gets \in [Gets -> Get] /\ gets' \in [Gets -> Get] /\ view \in [Queries -> View] /\ online \in Online
    BY DEF IInv, TypeOK
  <2>2. gets'[g] # Idle /\ gets'[g].query \in Queries /\ gets'[g] # gets[g]
    BY <2>1 DEF Get, Idle
  <2>3. view'[gets'[g].query].open
    BY <2>2 DEF WInv, Heard
  <2>4. SUFFICES view'[gets'[g].query].current
    <3>1. PICK q \in Queries : q = gets'[g].query
      BY <2>2
    <3>2. SyncedFresh(q)'
      BY DEF IInv, QueryInv
    <3>. QED BY <2>3, <2>4, <3>1, <3>2 DEF SyncedFresh
  <2>5. ASSUME NEW o, NEW v, Broadcast(o, v) PROVE view'[gets'[g].query].current
    <3>1. online' = o /\ view' = ViewsUnder(o, v) /\ gets' = Answered(o, view')
      BY <2>5 DEF Broadcast
    <3>2. gets[g].at = "listening" /\ Raised(o, view'[gets[g].query])
      BY <2>2, <3>1 DEF Answered
    <3>3. gets'[g].query = gets[g].query
      BY <2>1, <2>2, <3>1, <3>2 DEF Answered, Get, Idle
    <3>. QED BY <3>1, <3>2, <3>3 DEF Raised
  <2>6. CASE App
    <3>1. ASSUME NEW h \in Gets, NEW q \in Queries, JoinListeners(h, q) PROVE view'[gets'[g].query].current
      <4>1. h = g /\ gets'[g].query = q /\ Raised(online, view[q]) /\ UNCHANGED <<view, online>>
        BY <2>1, <2>2, <3>1 DEF JoinListeners
      <4>. QED BY <4>1 DEF Raised
    <3>2. ASSUME NEW h \in Gets, NEW q \in Queries, GetDocument(h, q) PROVE FALSE
      <4>1. gets' = [gets EXCEPT ![h] = [at |-> IF online.state = "Offline" THEN "answered" ELSE "listening", query |-> q]]
        BY <3>2 DEF GetDocument
      <4>2. online.state = "Offline"
        BY <2>1, <2>2, <4>1
      <4>3. Started
        BY <4>2 DEF WInv, StreamServes
      <4>4. online' = online
        BY <3>2, <4>3 DEF GetDocument
      <4>. QED BY <4>2, <4>4
    <3>3. ASSUME NEW h \in Gets, LeaveListeners(h) \/ StopListening(h) PROVE FALSE
      <4>1. gets' = [gets EXCEPT ![h] = Idle]
        BY <3>3 DEF LeaveListeners, StopListening
      <4>. QED BY <2>1, <2>2, <4>1
    <3>. QED BY <2>6, <3>1, <3>2, <3>3 DEF App
  <2>7. CASE Client
    BY <2>2, <2>5, <2>7 DEF Client, ResumeStartWithCredentials, BackoffElapsed, OnlineStateTimeout, OnWatchStreamChange
  <2>8. CASE Network
    BY <2>5, <2>8 DEF Network, WatchStreamFails, RestartNetwork, IdleTimeout
  <2>9. CASE Backend \/ \E q \in Queries : BackendChanges(q)
    BY <2>2, <2>9 DEF Backend, BackendReads, BackendSends, BackendIsCurrent, BackendSnapshot, BackendChanges
  <2>. QED BY <2>6, <2>7, <2>8, <2>9 DEF Next
<1>. QED BY <1>1, InvariantHolds, TrackerIsAsAsserted, WaitersServed, PTL DEF Spec, AnswersAreFresh
=============================================================================
