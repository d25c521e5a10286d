---------------------------- MODULE WritePipeline ----------------------------
(***************************************************************************)
(* How the Firestore client gets a write to the backend and its answer to  *)
(* the caller: SyncEngine's callbacks, the mutation queue of LocalStore,   *)
(* RemoteStore's write pipeline and the write stream below it.             *)
(*                                                                         *)
(* All of it runs on one worker queue, so each handler is an action.  The  *)
(* backend answers the requests of a stream in order and without naming    *)
(* them; a stream that breaks loses what is under way in either direction, *)
(* whether or not the backend had applied it, and the next stream sends    *)
(* the pipeline again.  The queue is on disk, one per user, and outlives   *)
(* the process; callbacks and pipeline do not.                             *)
(***************************************************************************)
EXTENDS Integers, Sequences, FiniteSets

CONSTANTS
  Users,             \* users who sign in on this device
  MaxPendingWrites,  \* kMaxPendingWrites, 10 in the code
  MaxWrites,         \* bound on the writes the app issues
  MaxDisruptions     \* bound on broken streams, restarts and user changes

ASSUME MaxPendingAssumption == MaxPendingWrites \in Nat \ {0}
ASSUME WriteBoundsAssumption == MaxWrites \in Nat /\ MaxDisruptions \in Nat

VARIABLES
  user,        \* current_user_
  queue,       \* the rows of the mutation queues, by user
  nextId,      \* next_batch_id_
  callbacks,   \* mutation_callbacks_, by user
  waits,       \* pending_writes_callbacks_
  enabled,     \* is_network_enabled_
  pipeline,    \* write_pipeline_
  stream,      \* the write stream
  wire,        \* what the stream carries each way
  issued,      \* writes issued so far
  applied,     \* writes the backend has applied at least once
  told,        \* what the caller of each write was told
  disruptions  \* broken streams, restarts and user changes so far

local   == <<user, queue, nextId, callbacks, waits>>
remote  == <<enabled, pipeline, stream, wire>>
history == <<issued, applied, told>>
vars    == <<local, remote, history, disruptions>>

Nums == 1..MaxWrites

\* A batch has the id its queue gave it; num tells writes apart for good, since
\* ids are given out again once their rows are gone.
Batch == [id: Nat \ {0}, num: Nums]

NumsOf(q) == {q[i].num : i \in DOMAIN q}

States == {"Initial", "Starting", "Backoff", "Open", "Error"}

TypeOK ==
  /\ user \in Users
  /\ queue \in [Users -> Seq(Batch)]
  /\ nextId \in Nat \ {0}
  /\ callbacks \in [Users -> SUBSET Batch]
  /\ waits \subseteq [id: Nat \ {0}, nums: SUBSET Nums]
  /\ enabled \in BOOLEAN
  /\ pipeline \in Seq(Batch)
  /\ stream \in [state: States, handshaken: BOOLEAN, idle: BOOLEAN]
  /\ wire \in [requests: Seq(Batch), responses: Seq(Batch), refused: BOOLEAN]
  /\ issued \in 0..MaxWrites
  /\ applied \subseteq Nums
  /\ told \in [Nums -> {"nothing", "ok", "failed"}]
  /\ disruptions \in 0..MaxDisruptions

Stopped == [state |-> "Initial", handshaken |-> FALSE, idle |-> FALSE]
Failed  == [Stopped EXCEPT !.state = "Error"]
Silent  == [requests |-> <<>>, responses |-> <<>>, refused |-> FALSE]

Init ==
  /\ user \in Users
  /\ queue = [u \in Users |-> <<>>]
  /\ nextId = 1
  /\ callbacks = [u \in Users |-> {}]
  /\ waits = {}
  /\ enabled = TRUE
  /\ pipeline = <<>>
  /\ stream = Stopped /\ wire = Silent
  /\ issued = 0 /\ applied = {}
  /\ told = [n \in Nums |-> "nothing"]
  /\ disruptions = 0

-----------------------------------------------------------------------------
(* The stream and the pipeline.                                            *)

Started(s) == s.state \in {"Starting", "Backoff", "Open"}
Live(s)    == s.state = "Open" /\ s.handshaken

\* Stream::Start: at once, or after the backoff when the last one failed.
Begun(s) == [s EXCEPT !.state = IF @ = "Error" THEN "Backoff" ELSE "Starting"]

\* Mutant: the highest id is given out once more.
LoadNextBatchIdOffByOne(q) ==
  LET ids == {0} \cup UNION {{q[u][i].id : i \in DOMAIN q[u]} : u \in Users}
  IN CHOOSE m \in ids : \A k \in ids : k <= m

\* One more than the highest id of any user's row.
LoadNextBatchIdFromDb(q) ==
  LET ids == {0} \cup UNION {{q[u][i].id : i \in DOMAIN q[u]} : u \in Users}
  IN 1 + (CHOOSE m \in ids : \A k \in ids : k <= m)

\* How many rows of q have an id up to last.
Passed(q, last) ==
  CHOOSE k \in 0..Len(q) : \A i \in DOMAIN q : i <= k <=> q[i].id <= last

\* The rows after the last batch of pipeline p.
RowsAfter(p, q) ==
  IF p = <<>> THEN q ELSE SubSeq(q, Passed(q, p[Len(p)].id) + 1, Len(q))

\* What FillWritePipeline adds to pipeline p.
Refill(on, p, q) ==
  LET rows == RowsAfter(p, q)
      room == MaxPendingWrites - Len(p)
  IN IF on THEN SubSeq(rows, 1, IF room < Len(rows) THEN room ELSE Len(rows)) ELSE <<>>

\* Mutant: the idle check goes on although a write is sent.
StreamAfterFillIdle(on, p, new, s) ==
  CASE ~on -> s
    [] on /\ p \o new = <<>> -> [s EXCEPT !.idle = (s.state = "Open")]
    [] on /\ p \o new # <<>> -> IF Started(s) THEN s ELSE Begun(s)

\* It is started when there is something to send, and marked idle when it is
\* open for nothing; a write to it ends the idle check.
StreamAfterFill(on, p, new, s) ==
  CASE ~on -> s
    [] on /\ p \o new = <<>> -> [s EXCEPT !.idle = (s.state = "Open")]
    [] on /\ p \o new # <<>> ->
         IF ~Started(s) THEN Begun(s)
         ELSE IF Live(s) /\ new # <<>> THEN [s EXCEPT !.idle = FALSE] ELSE s

\* FillWritePipeline: from queue q into pipeline p over stream s, whose wire
\* carries w.
FillWritePipeline(on, p, q, s, w) ==
  LET new == Refill(on, p, q) IN
  /\ pipeline' = p \o new
  /\ wire' = IF Live(s) THEN [w EXCEPT !.requests = @ \o new] ELSE w
  /\ stream' = StreamAfterFill(on, p, new, s)

\* Stop: a stream that failed before stays failed.
StoppedStream == IF Started(stream) THEN Stopped ELSE stream

\* Mutant: it waits for the next write to be tried again.
RetriedLater(p) == Failed

\* A stream that failed is tried again when there is still something to send.
Retried(p) == IF enabled /\ p # <<>> THEN Begun(Failed) ELSE Failed

Disrupt == disruptions < MaxDisruptions /\ disruptions' = disruptions + 1

-----------------------------------------------------------------------------
(* What the app and the device do.                                         *)

\* WriteMutations: the batch goes into the queue, its callback beside it.
WriteMutations ==
  LET b == [id |-> nextId, num |-> issued + 1]
      q == [queue EXCEPT ![user] = Append(@, b)]
  IN
  /\ issued < MaxWrites
  /\ issued' = issued + 1
  /\ queue' = q /\ nextId' = nextId + 1
  /\ callbacks' = [callbacks EXCEPT ![user] = @ \cup {b}]
  /\ FillWritePipeline(enabled, pipeline, q[user], stream, wire)
  /\ UNCHANGED <<user, waits, enabled, applied, told, disruptions>>

\* Mutant: the wait hangs on the oldest write.
RegisterPendingWritesCallbackFirst ==
  LET q == queue[user] IN
  /\ q # <<>> /\ waits = {}
  /\ waits' = {[id |-> q[1].id, nums |-> NumsOf(q)]}
  /\ UNCHANGED <<user, queue, nextId, callbacks, remote, history, disruptions>>

\* waitForPendingWrites hangs on the newest write; with none it returns at once.
\* One wait at a time.
RegisterPendingWritesCallback ==
  LET q == queue[user] IN
  /\ q # <<>> /\ waits = {}
  /\ waits' = {[id |-> q[Len(q)].id, nums |-> NumsOf(q)]}
  /\ UNCHANGED <<user, queue, nextId, callbacks, remote, history, disruptions>>

DisableNetwork ==
  /\ enabled /\ Disrupt
  /\ enabled' = FALSE
  /\ pipeline' = <<>> /\ stream' = StoppedStream /\ wire' = Silent
  /\ UNCHANGED <<local, history>>

EnableNetwork ==
  /\ ~enabled
  /\ enabled' = TRUE
  /\ FillWritePipeline(TRUE, <<>>, queue[user], stream, wire)
  /\ UNCHANGED <<local, history, disruptions>>

\* Mutant: the pipeline is kept over the restart of the streams.
RestartNetworkKeepingPipeline(q) ==
  FillWritePipeline(TRUE, pipeline, q, Stopped, Silent)

\* Mutant: what the old stream carried is read from the new one.
RestartNetworkKeepingWire(q) == FillWritePipeline(TRUE, <<>>, q, Stopped, wire)

\* Both streams are stopped, their backoff inhibited, and the pipeline is filled
\* again from queue q.
RestartNetwork(q) == FillWritePipeline(TRUE, <<>>, q, Stopped, Silent)

\* The device gets another network.
ConnectivityChanged ==
  /\ enabled /\ Disrupt
  /\ RestartNetwork(queue[user])
  /\ UNCHANGED <<local, enabled, history>>

\* HandleCredentialChange: another user signs in, or the same one gets a new
\* token.  The queue is exchanged before the streams are restarted.
HandleCredentialChange(u) ==
  /\ Disrupt
  /\ user' = u
  /\ IF u = user THEN UNCHANGED <<waits, nextId>>
     ELSE waits' = {} /\ nextId' = LoadNextBatchIdFromDb(queue)
  /\ IF enabled THEN RestartNetwork(queue[u]) ELSE UNCHANGED <<pipeline, stream, wire>>
  /\ UNCHANGED <<queue, callbacks, enabled, history>>

\* The process is killed and started again.
Restart ==
  /\ Disrupt
  /\ nextId' = LoadNextBatchIdFromDb(queue)
  /\ callbacks' = [u \in Users |-> {}] /\ waits' = {}
  /\ enabled' = TRUE
  /\ RestartNetwork(queue[user])
  /\ UNCHANGED <<user, queue, history>>

-----------------------------------------------------------------------------
(* What the stream does.                                                   *)

\* The token is there: the stream opens and sends its handshake.
ResumeStartWithCredentials ==
  /\ stream.state = "Starting"
  /\ stream' = [stream EXCEPT !.state = "Open"]
  /\ UNCHANGED <<local, enabled, pipeline, wire, history, disruptions>>

\* There is no token, or the handshake is refused.
StreamFailsToStart ==
  /\ Started(stream) /\ ~Live(stream) /\ stream.state # "Backoff"
  /\ Disrupt
  /\ stream' = Retried(pipeline) /\ wire' = Silent
  /\ UNCHANGED <<local, enabled, pipeline, history>>

BackoffElapsed ==
  /\ stream.state = "Backoff"
  /\ stream' = [stream EXCEPT !.state = "Starting"]
  /\ UNCHANGED <<local, enabled, pipeline, wire, history, disruptions>>

\* Mutant: only the first batch of the pipeline is sent.
OnWriteStreamHandshakeCompleteOne ==
  /\ stream.state = "Open" /\ ~stream.handshaken
  /\ stream' = [stream EXCEPT !.handshaken = TRUE]
  /\ wire' = [wire EXCEPT !.requests = SubSeq(pipeline, 1, 1)]
  /\ UNCHANGED <<local, enabled, pipeline, history, disruptions>>

\* The handshake is answered: the whole pipeline is sent.
OnWriteStreamHandshakeComplete ==
  /\ stream.state = "Open" /\ ~stream.handshaken
  /\ stream' = [stream EXCEPT !.handshaken = TRUE, !.idle = @ /\ pipeline = <<>>]
  /\ wire' = [wire EXCEPT !.requests = pipeline]
  /\ UNCHANGED <<local, enabled, pipeline, history, disruptions>>

\* The backend, external: the next request is applied and answered ...
BackendApplies ==
  /\ wire.requests # <<>> /\ ~wire.refused
  /\ applied' = applied \cup {Head(wire.requests).num}
  /\ wire' = [wire EXCEPT !.requests = Tail(@), !.responses = Append(@, Head(wire.requests))]
  /\ UNCHANGED <<local, enabled, pipeline, stream, issued, told, disruptions>>

\* ... or refused for good, which ends the stream once its answers are read.
BackendRefuses ==
  /\ wire.requests # <<>> /\ ~wire.refused
  /\ wire' = [wire EXCEPT !.refused = TRUE]
  /\ UNCHANGED <<local, enabled, pipeline, stream, history, disruptions>>

\* RemoveMutationBatch: the row under that id goes.
RowsWithout(q, id) ==
  LET k == CHOOSE i \in DOMAIN q : q[i].id = id
  IN SubSeq(q, 1, k - 1) \o SubSeq(q, k + 1, Len(q))

\* Mutant: the callback is called and stays.
SettledOnceMore(o) ==
  LET b == Head(pipeline)
      called == {c \in callbacks[user] : c.id = b.id}
  IN
  /\ queue' = [queue EXCEPT ![user] = RowsWithout(@, b.id)]
  /\ waits' = {w \in waits : w.id # b.id}
  /\ told' = [n \in Nums |-> IF n \in {c.num : c \in called} THEN o ELSE told[n]]
  /\ UNCHANGED <<user, nextId, callbacks>>

\* The first batch of the pipeline is settled with outcome o: its row goes, and
\* the callback under its id is called.
Settled(o) ==
  LET b == Head(pipeline)
      called == {c \in callbacks[user] : c.id = b.id}
  IN
  /\ queue' = [queue EXCEPT ![user] = RowsWithout(@, b.id)]
  /\ callbacks' = [callbacks EXCEPT ![user] = @ \ called]
  /\ waits' = {w \in waits : w.id # b.id}
  /\ told' = [n \in Nums |-> IF n \in {c.num : c \in called} THEN o ELSE told[n]]
  /\ UNCHANGED <<user, nextId>>

\* OnWriteStreamMutationResult: the result is for the first batch of the
\* pipeline, whichever batch the backend meant.
OnWriteStreamMutationResult ==
  /\ Live(stream) /\ wire.responses # <<>>
  /\ Settled("ok")
  /\ FillWritePipeline(enabled, Tail(pipeline), queue'[user], stream,
                       [wire EXCEPT !.responses = Tail(@)])
  /\ UNCHANGED <<enabled, issued, applied, disruptions>>

\* HandleWriteError, a permanent one: the first batch of the pipeline is to
\* blame, and the next start does without backoff.
WriteRefused ==
  /\ Live(stream) /\ wire.refused /\ wire.responses = <<>>
  /\ Settled("failed")
  /\ FillWritePipeline(enabled, Tail(pipeline), queue'[user], Stopped, Silent)
  /\ UNCHANGED <<enabled, issued, applied, disruptions>>

\* The stream breaks with an error that may pass.
WriteStreamBreaks ==
  /\ Live(stream) /\ Disrupt
  /\ stream' = Retried(pipeline) /\ wire' = Silent
  /\ UNCHANGED <<local, enabled, pipeline, history>>

\* A minute without a write: the stream is stopped.
IdleTimeout ==
  /\ stream.idle
  /\ stream' = Stopped /\ wire' = Silent
  /\ UNCHANGED <<local, enabled, pipeline, history, disruptions>>

-----------------------------------------------------------------------------
(* The specification.                                                      *)

Device ==
  \/ WriteMutations \/ RegisterPendingWritesCallback
  \/ DisableNetwork \/ EnableNetwork \/ ConnectivityChanged
  \/ \E u \in Users : HandleCredentialChange(u)
  \/ Restart

WriteStream ==
  \/ ResumeStartWithCredentials \/ StreamFailsToStart \/ BackoffElapsed
  \/ OnWriteStreamHandshakeComplete
  \/ OnWriteStreamMutationResult \/ WriteRefused
  \/ WriteStreamBreaks \/ IdleTimeout

Backend == BackendApplies \/ BackendRefuses

Next == Device \/ WriteStream \/ Backend

Spec == Init /\ [][Next]_vars

\* Tokens, timers and handshakes come, the backend goes on with what it was
\* sent, and what arrives is read.  Nothing is said of the app, of the device
\* or of a minute's idleness.
FairSpec ==
  /\ Spec
  /\ WF_vars(ResumeStartWithCredentials) /\ WF_vars(BackoffElapsed)
  /\ WF_vars(OnWriteStreamHandshakeComplete)
  /\ WF_vars(Backend)
  /\ WF_vars(OnWriteStreamMutationResult) /\ WF_vars(WriteRefused)

-----------------------------------------------------------------------------
(* What is checked.                                                        *)

\* The pipeline is the first rows of the current user's queue, whatever was
\* refilled, settled, restarted or exchanged under it, and as many of them as
\* it may hold: nothing is skipped or left waiting for the next write, nothing
\* is sent twice over one stream, nobody's writes go out under another user's
\* credentials.
PipelineIsQueuePrefix ==
  LET q    == queue[user]
      room == IF enabled THEN MaxPendingWrites ELSE 0
  IN pipeline = SubSeq(q, 1, IF room < Len(q) THEN room ELSE Len(q))

\* Answers name no write: OnWriteStreamMutationResult and HandleWriteError
\* take the pipeline's first.  So what the stream still owes an answer for, read
\* or not, must be the pipeline, in its order.
AnswersMatch ==
  IF Live(stream) THEN wire.responses \o wire.requests = pipeline ELSE wire = Silent

\* A caller is told its write is in the backend only when it is, however many
\* streams it took and whoever signed in meanwhile.
AckedWasApplied == \A n \in Nums : told[n] = "ok" => n \in applied

\* The idle timer never stops a stream that still has something to carry, as
\* OnWriteStreamClose asserts.
IdleIsIdle == stream.idle => Live(stream) /\ pipeline = <<>>

\* Whoever waits is waited for: each callback has its row in its user's queue,
\* each waitForPendingWrites hangs on a row of the current user, of a queue that
\* is not empty something is in the pipeline while the network is on, and what
\* is in the pipeline has a stream under way that no idle timer will stop.
NobodyWaitsInVain ==
  /\ \A u \in Users : \A c \in callbacks[u] : \E i \in DOMAIN queue[u] : queue[u][i] = c
  /\ \A w \in waits : \E i \in DOMAIN queue[user] : queue[user][i].id = w.id
  /\ enabled /\ queue[user] # <<>> => pipeline # <<>>
  /\ pipeline # <<>> => Started(stream)
  /\ IdleIsIdle

\* waitForPendingWrites completes only when every write that was pending when
\* it was called is settled, though it hangs on one batch id alone; only
\* another user or the end of the process takes it away before.
WaitsForAll ==
  [][\A w \in waits \ waits' :
       w.nums \cap NumsOf(queue'[user]) = {} \/ disruptions' # disruptions]_vars

\* With the network on and the user staying, every queue is emptied, once the
\* disruptions are over.
QueueDrains ==
  \A u \in Users :
    (user = u /\ enabled /\ queue[u] # <<>>) ~> (queue[u] = <<>> \/ user # u \/ ~enabled)

\* What the app may take the client for: a queue per user, emptied in order,
\* whose callers are told once.
AbstractQueue ==
  INSTANCE WriteQueue WITH
    pending   <- [u \in Users |-> [i \in DOMAIN queue[u] |-> queue[u][i].num]],
    listening <- UNION {{c.num : c \in callbacks[u]} : u \in Users}

SettlesInOrder == AbstractQueue!Spec

\* Of the writes of one user that are still queued, the backend has the first
\* ones: none overtakes another, over however many streams, restarts and
\* sign-ins they are sent.
AppliedInOrder == AbstractQueue!AppliedInOrder

\* The caller of a write is told once, although the write may be sent and
\* answered over several streams and ids are given out again.
ToldOnce == AbstractQueue!ToldOnce
=============================================================================
