# A formal model of the social app

The repository is a Flutter application: users register, write posts with
pictures, like each other's posts and chat. Its logic is the 2 400 lines of Dart
under `src/lib`; there is no server code, because Firebase is the server. Two
facts make it hard to get right.

Dart runs a single event loop, code between two `await`s is atomic, and
*nothing* in this app keeps a method from being called again while an earlier call
of it is parked at an `await`. All calls share the fields of a few cubits, every
request may fail, and the process may be killed at any `await`.

And everything the app knows of its backend comes through the Firestore client
(vendored, in C++, under `src/ios/Pods/FirebaseFirestore`): it keeps a queue of
unsent writes on disk, shows them as if they were stored, sends them again when a
stream breaks, and answers reads from the backend or from its cache depending on
whether it believes it is online.

This directory holds TLA+ modules of both, TLC configurations that
check them on small instances, and TLAPS proofs of their safety
properties for every instance.

## 1. Inventory

File names are relative to `src/lib`; "cubit" is
`controller/cubit/social_app_cubit.dart`.

| Part | State it keeps | Operations | Hard because | Correct when |
|---|---|---|---|---|
| Feed (cubit:192-271, `feeds_screen.dart`) | `posts`, `postId`, `like`, `likeState`, four collections read with one index; the rows on the screen | `getPostData`/`_postLoop` (3 awaits per post), `likePost` (2), `uploadPost` after the add (2, then a load of its own) | overlapping loads fill the same lists; `likePost` keeps an index across awaits; writes are shown before they are stored and may be taken back | the four lists describe the same post at an index; a tap acts on the post it was aimed at; hearts, counts, cloud and backend agree; loads do not undo likes; all calls end |
| Publishing (cubit:141-190, `add_post.dart`) | `postImage`, `postImageUrl`, both shared by all posts and never reset | pick, cancel, `uploadPostImage`, `uploadPost` up to the add | two posts' uploads overlap; failed uploads are swallowed; leftovers of an earlier post | a post has the picture it was posted with |
| Session (`main.dart`, login and register cubits and screens, `sharedprefrence.dart`) | account in FirebaseAuth, `'uid'` in the preferences, global `uId`, documents in `users`, which form is up and whether it spins | `userLogin`, `userRegister` + `createUser`, both links between the forms, start | three answers to "who is the user" updated at different moments; kills and errors between them; cubits closed under a call; the keyboard submits past the spinner | nobody is remembered without a profile; FirebaseAuth and the preferences agree; the spinner ends |
| Chat (cubit:273-330, `chat_screen*.dart`) | two boxes per conversation, `messages`, listeners that are never cancelled, `users` | `uploadChatMessage` (two adds in a row), `getChatMessage` (a listener), `getUserChat` | half-sent messages; order of overlapping sends; all listeners assign one field | copies agree; order kept; one conversation on display; messages settle |
| Profile (cubit:25-40, 66-139, `edit_profile.dart`) | `getUser`, `personImage`, `profileImage`, the user's document | `getUserData`, two pickers, `updateProfile` (up to 2 uploads, 2 unawaited updates, 1 update, 1 read) | Update is never disabled; unawaited writes; an uncaught error in the middle | a success comes after all its writes; the profile on display is the stored one |
| Firestore client, writes (`sync_engine.cc`, `leveldb_mutation_queue.cc`, `remote_store.cc`, `write_stream.cc`, `stream.cc`) | mutation queue on disk per user, callbacks, pipeline of at most ten, the write stream and its timers | issue a write, wait for pending writes, network off and on, change of user, restart; handshake, result, refusal, break, backoff, idle timeout | results name no write; streams break between sending and answer; users change under a full pipeline; ids are given out again | each caller is told the truth, once and in order; every queue drains |
| Firestore client, reads (`event_manager.cc`, `query_listener.cc`, `view.cc`, `remote_event.cc`, `watch_stream.cc`, `online_state_tracker.cc`) | listeners, views, targets and what is outstanding for each, cache, online state and its timer, the watch stream | `get()` begins and ends; watch changes; stream fails, restarts, idles; ten seconds pass | answers to an earlier listen arrive during a later one, under the same target id; online is inferred | an answer "from the backend" is not older than its question; every get is answered |
| Main screen, settings, notifications, states, observer, widgets | `currentIndex`; nothing else | tab changes, topic subscription, logging, layout | – | – |

How they interact: `main` reads the uid, builds the one `SocialAppCubit` and at
once calls `getPostData`, `getUserData` and `getUserChat` on it. Screens call
methods of the cubit and are rebuilt by every state it emits. Login and register
screens own a cubit each, closed with the screen. The parts meet in the fields
of the cubit (the feed reads `getUser`, a post its picture), in the global
`uId`, and in the one Firestore queue of the device. Below, the client's parts meet in
its one worker queue, on which every callback, timer and message is a task.

`PROJECT.json` lists all components with their status, and under `hazards` the
places where the code can go wrong in ways a test would hardly reach, each with
the properties that watch it.

## 2. Modules

| Module | Models | Run by | Proved in |
|---|---|---|---|
| `Feed` | loading, liking and uploading, on one device | `feed_taps`, `feed_reload`, `feed_live` | `FeedProofs` |
| `Publish` | composing a post up to its add | `publish_pictures` | `PublishProofs` |
| `Session` | start, sign-in, registration | `session_signin` | `SessionProofs` |
| `Chat` | messages and listeners on several devices | `chat_talk`, `chat_shown` | `ChatProofs` |
| `Mailbox` | abstract: what a sender's messages promise | `Chat`'s property `ArrivesInOrder` | `ChatProofs` |
| `Profile` | reading and updating the user's document | `profile_save` | `ProfileProofs` |
| `WritePipeline` | the client's way of a write to the backend and back | `write_pipeline` | `WritePipelineProofs` |
| `WriteQueue` | abstract: what the app may take that for | `WritePipeline`'s property `SettlesInOrder` | `WritePipelineProofs` |
| `Listen` | the client's `get()`, from listener to watch stream | `gets`, `gets_readded`, `gets_silent` | `ListenProofs` |

`MCFeed`, `MCPublish`, `MCChat` and `MCListen` only add the symmetry sets of
runs that check no liveness. (`gets` runs `MCListen` without its symmetry.)
Definitions called "Mutant" in a comment are plausible bugs of
the definition that follows them; no action uses them, and each property has one
that makes it fail (`mutants` in `PROJECT.json`).

The app modules and the client modules fit together by what `WriteQueue`
states: the app modules take the client for a queue of writes that outlives the
process, is settled in order and tells each caller at most once, and
`WritePipeline` is shown to be one. They are not composed into one state
machine: the product of an app module and the pipeline has no property that the
two do not have apart, and too many states.

Conventions the app modules share:

* A method with awaits is a set of *slots*; a slot holds the step its call is
  parked at (`at`) and the locals it still needs. An action runs from one await
  to the next. Several slots are several calls in flight, so interleavings are
  those of the event loop, no more.
* An answer and an error are two actions; both are enabled whenever a request
  is out. The error path is the `catchError` of the code, or its absence.
* `writes` is the Firestore client's queue, oldest first. What it holds is
  already visible to the client's own reads (the overlay). The head is
  acknowledged or rejected; a rejection takes it out of the overlay. `by` is the
  call awaiting the write. `Restart` forgets the process, keeps the queue, and
  sets every `by` to `Nil`: the writes are sent later with nobody waiting.
* Bookkeeping variables record history that the properties speak about
  (listed last in VARIABLES). No action's guard reads them.
* Requests to FirebaseAuth, Storage and the preferences have answers or errors;
  a Storage upload gives a file a URL, written as the file itself.

### Feed

| Code | Model |
|---|---|
| `getPostData` up to the query | `StartLoad` |
| query answer, lists emptied, first `likes` read issued | `QueryAnswer` |
| `_postLoop`, own like exists / not / `{'like': false}` stored | `ReadMine` / `ReadMineMissing` / `SetMineAcked` |
| `_postLoop`, count read, id and post added, next post | `CountAnswer` |
| a failing read or write | `ReadFails`, `WriteFails` |
| `uploadPost` from the add | `StartUpload`, `AddAcked`, `SeedAcked` (then it is a load) |
| `likePost` | `LikePost`, `LikeSaved` / `LikeNotSaved`, `LikesCounted` / `LikesNotCounted` |
| rebuild of `FeedsScreen` | `Build` |
| other users, queue left by an earlier process, kill and start | `OthersPost`, `OrphanAcked`/`OrphanRejected`, `Restart` |

A number of likes is kept as the post it was counted for and whether it includes
this user's like; others' likes are noise to every property. `mine` is this user's
like documents as the client shows them, `acked` the same at the backend.

Two reloads at once *do* break the lists: the second empties them and the first
goes on appending. `clean` says that this has not happened since the last
reload, `current` that the screen was drawn since. The properties hold under
`clean`: they say that overlapping loads (and a tap that outlives a reload) are the
*only* way to lose alignment. `drifted` names posts whose like changed behind a
filled list: a rejected write, which the code does not roll back, or the late
seed of a post liked before its `uploadPost` was done. `uncounted` names posts
whose recount failed.

### Publish

`postImage` and `postImageUrl` as the cubit has them, slots for `uploadPost`
calls that wait for their upload, and the sequence of posts added. An upload's
answer and the building of the post are one action: the callback stores the
URL, and the two futures that complete after it run before any other event, so
no other call can write the field in between. That is what makes
`PostHasItsPicture` true in spite of the shared field, and why it is worth
proving. A post without a picture of its own takes the leftover URL;
`OtherwiseEarlierPicture` bounds what that can be.

### Session

`attempt` holds calls of `userLogin` and `userRegister`; `on` says whether the
screen that made the call is on top, below a route still being animated in
(its cubit is open and its listener still navigates), or disposed of (emit
does nothing). `saves` is the order in which the platform performs the
`setString` calls. `queued` are the documents of `users` in the client's queue;
Firestore keeps one queue per account and sends only that of the account signed
in, so `Sendable` asks for `auth = u`. History: `cut` are accounts whose
registration stopped before their document was stored, `unsaved` accounts
whose uid could not be persisted since they last signed in, `early` says that a registration
showed the main screen before the uid was stored, which the code does at
`social_app_register_cubit.dart:58`.

Assumptions: `setString` answers true or false and does not throw; an email
names an account and its uid; profiles are never deleted (no code does).

### Chat and Mailbox

`box[u][p]` is the collection `users/u/chats/p/message`, `writes[u]` the queue of
u's device, `send[u]` the calls of `uploadChatMessage` on it. A message is a number,
its `dateTime`: `Send` takes one greater than those its sender has used, which
assumes a device's clock does not go back; clocks of different devices are not
compared. `subs[u]` are the peers with a listener, which grows only;
`Snapshot` may fire for any of them and assigns `messages`. A listener added
again gets its first snapshot anew (`seen` back to `Nil`).

`Mailbox` is what the pair of adds promises to the addressee: sent messages
arrive at most once, in the order their sender sent them, or are lost.
`ArrivesInOrder == Mail!Spec` is the refinement, with `MessageStatus` as the
mapping: a message is pending until its copy is in the addressee's box or
neither a call nor a queue holds it any more. What that is worth to the addressee is said of
`Mailbox` itself: no message arrives while an earlier one of its sender is still to come
(`NoOvertaking`), and what became of a message never changes (`SettledForGood`).

### Profile

One document with two text and two picture fields. `TextStage` and `CoverStage`
are the continuations that several actions share, because the code goes on to
the next stage after an answer and after an error alike. `stale` records that a write was
refused or a read failed since `getUser` was last read.
`Phones` are the texts typed as a phone number: an empty phone is replaced by the
user's name (cubit:134), so a stored phone may be any text, but a typed one may not.

### WritePipeline and WriteQueue

Everything runs on the client's worker queue, so an action is one task of it.

| Code | Model |
|---|---|
| `SyncEngine::WriteMutations`, `LocalStore::WriteLocally`, `RemoteStore::FillWritePipeline` | `WriteMutations` |
| `RegisterPendingWritesCallback` | the same |
| `DisableNetwork`, `EnableNetwork` | the same |
| `RestartNetwork`, from the connectivity monitor | `ConnectivityChanged` |
| `HandleCredentialChange`, both in `SyncEngine` and in `RemoteStore` | `HandleCredentialChange` |
| process killed, `LevelDbMutationQueue::Start` | `Restart`, `LoadNextBatchIdFromDb` |
| `Stream::ResumeStartWithCredentials`, `OnStreamRead` of the handshake | `ResumeStartWithCredentials`, `OnWriteStreamHandshakeComplete` |
| `Stream::BackOff` and its end, `HandleHandshakeError`, a break | `StreamFailsToStart`, `BackoffElapsed`, `WriteStreamBreaks` |
| `OnWriteStreamMutationResult`, `HandleSuccessfulWrite` | `OnWriteStreamMutationResult` |
| `HandleWriteError`, permanent, `HandleRejectedWrite` | `WriteRefused` |
| `MarkIdle`, `CancelIdleCheck`, the timer | `idle`, `IdleTimeout` |
| the backend | `BackendApplies`, `BackendRefuses` (external) |

A batch has the `id` its queue gave it and a number `num` of the model's own,
because ids are given out again: at each start of a queue the next one is one
more than the highest id that has a row in *any* user's queue, so an id whose
row is gone comes back. The code tells writes apart by `id` only; the properties by
`num`. `FillWritePipeline` is one operator for the five places that call it,
and says what becomes of pipeline, stream and wire together, since it starts the
stream, sends on it or marks it idle as part of the same task. A stream that
breaks loses both directions of the wire, after the backend may have applied
what it was sent; what is sent again is applied again, which `WriteQueue` allows.
A permanent error blames the pipeline's first write once the answers before
it have been read.

`WriteQueue` knows no pipeline, stream, wire or batch id: writes of the current user
are applied in order, settled from the front, "ok" only if applied, and callers
are told unless the process ended. `SettlesInOrder == AbstractQueue!Spec`, with each
user's rows mapped to their numbers and the callbacks to who is listening. Two
consequences are stated of `WriteQueue` and proved of `WritePipeline`: of two queued writes the
backend never has the later one alone (`AppliedInOrder`), and what a caller was told
is never taken back or said again otherwise (`ToldOnce`).

### Listen

| Code | Model |
|---|---|
| `FirestoreClient` get: `AddQueryListener`, first of a query or not | `GetDocument`, `JoinListeners` |
| `RemoveQueryListener`, last or not, `RemoteStore::StopListening` | `StopListening`, `LeaveListeners` |
| `QueryListener::ShouldRaiseInitialEvent`, `ApplyOnlineStateChange` | `Raised`, `Answered`, `ViewsUnder`, `Broadcast` |
| `OnlineStateTracker` | `OnStreamStart`, `OnStreamFailure`, `UpdateState`, `OnlineStateTimeout` |
| `OnWatchStreamOpen`, `OnWatchStreamClose`, `RestartNetwork`, idle timer | `ResumeStartWithCredentials`, `WatchStreamFails`, `RestartNetwork`, `IdleTimeout` |
| `WatchChangeAggregator::HandleTargetChange`, `HandleDocumentChange`, `CreateRemoteEvent` | `TargetAdded`, `TargetRemoved`, `MarkCurrent`, `DocumentChanged`, `Reported`, `Synced`, `Stored` |
| the backend | `BackendReads`, `BackendSends`, `BackendIsCurrent`, `BackendSnapshot`, `BackendChanges` (external) |

The result of a query is one version. `since` is the version the backend
had when the view was opened: that is what "fresh" is measured against. A query that
is dropped and asked for again keeps its target id, so the backend's messages
about the earlier listen and the later one look alike; the aggregator tells
them apart by counting the responses outstanding, and a target is `Active` only at zero. The
backend answers each request, reads the requests of one target in order, and
sends documents, then the current mark, then a snapshot over all targets; targets
progress independently. `MaxUnread` bounds what is under way when a get opens
a target.

## 3. Runs

| Run | Instance | Checks |
|---|---|---|
| `feed_taps` | 2 posts, 1 load, 2 taps, 2 queued writes | `TypeOK`, `HeartMatchesCloud`, `QuietFeedIsStored`, `CountMatchesHeart` |
| `feed_reload` | 2 posts, 2 loads, 2 queued writes | `RowsAligned`, `TapHitsShownPost` |
| `feed_live` | 1 post, 1 load, 1 upload, 1 tap, 3 queued writes, fair | `NobodyWaitsInVain`, `LoadNeverUnlikes`, `CallEnds`, `TapEnds` |
| `publish_pictures` | 3 files, 2 posts in flight, 4 posts | `PostHasItsPicture`, `OtherwiseEarlierPicture` |
| `session_signin` | 2 accounts, 2 calls, fair | `PersistedHasProfile`, `AuthMatchesPrefs`, `MainIsPersisted`, `NobodyWaitsInVain`, `SpinnerEnds`, `AttemptEnds` |
| `chat_talk` | 2 users with a device each, 2 calls per device, 2 messages, fair | `CopiesAgree`, `NobodyWaitsInVain`, `ArrivesInOrder` (refinement of `Mailbox`), `MessageSettles`, `StoredIsShown` |
| `chat_shown` | 3 users, 2 devices, 1 call per device, 2 messages | `OneConversationShown` |
| `profile_save` | 2 texts, 1 file, 2 updates, 1 queued write, fair | `SettledBeforeRead`, `UserIsCurrent`, `NobodyWaitsInVain`, `UpdateEnds` |
| `write_pipeline` | 2 users, 4 writes, pipeline of 2, 2 disruptions, fair | `PipelineIsQueuePrefix`, `AnswersMatch`, `AckedWasApplied`, `AppliedInOrder`, `NobodyWaitsInVain`, `WaitsForAll`, `SettlesInOrder` (refinement of `WriteQueue`), `QueueDrains` |
| `gets` | 1 query, 2 gets, 2 versions, 2 disruptions, fair | `SyncedIsFresh`, `TrackerAsserts`, `NobodyWaitsInVain`, `GetEnds` |
| `gets_readded` | 1 query, 2 gets, 1 disruption | refutes `CurrentIsOfThisListen` (section 6) |
| `gets_silent` | 1 query, 1 get, 1 disruption, silent backend | refutes `OnlineIsDecided` (section 6) |

`TypeOK` is a run's invariant in `Feed` only; `TypeCorrect` proves it for each module
without an instance. `HeartMatchesCloud` is checked without uploads in `feed_taps`; the
theorem `HeartsMatchTheCloud` covers them.

`NobodyWaitsInVain` is the safety half of a module's liveness properties: whoever
waits has something in the state that can end the wait, and nothing in a queue
waits for somebody who has gone on. A lost wake-up violates it after a few
steps, where the liveness property needs a cycle, and unlike
the latter it can be proved for every instance (section 5).

Why the bounds are enough. Two calls of one method are the least that overlap,
and no property compares three calls. Two posts make an index that is wrong
different from one that is right. In `feed_live` one post is enough, because
what an upload adds is a second writer of *the same* like document. `MaxWrites` of the
app modules bounds the queue at the moment a call enqueues: 2 lets one write cover another,
3 adds one left by a dead process, and in `Profile` the writes of an update that has
begun are not counted, so 1 leaves room for two updates' writes and an orphan. Two
messages with two calls let one be sent while the other's second add is still to be
issued. Three users in `chat_shown` give a device two
conversations. Three files in `publish_pictures` are two uploads in flight and a
leftover. In `profile_save` `Phones` is empty: every update then takes the branch that
replaces an empty phone by the name; the theorem covers the other branch.
A pipeline of 2 with 4 writes has rows in and behind the pipeline and a
refill after each settled one, and two disruptions break a stream while it
is recovering from a break. In `gets`, two versions make a stale answer different
from a fresh one, and two gets of one query can follow each other under one
target id. The theorems of section 5 remove the bounds.

Deadlock checking is off in the client runs only: their writes and disruptions are
bounded, so a state in which all is settled is a legitimate end. The app modules
always have a `Restart`; states that only `Restart` leaves would be caught
by the liveness properties.

## 4. Fairness

In the app modules `FairSpec` puts weak fairness on *answers* only: each parked
call is in the end answered with a value **or an error** (`CallAnswered`,
`TapAnswered`, `AuthAnswers`, `SaveAnswered`, `ReadAnswered`, `UploadAnswered`), each
device's queue gets its head acknowledged or rejected (`WriteAnswered`), and each change
of a box reaches its listeners (`Snapshot`). That is what the plugins promise
their callers while the device is online sometimes: futures complete.
The user, the other users, restarts and the choice between answer and error are
never fair. In `Session` a document is only sent while its account is signed in, so
`AttemptEnds` has to except a registration overtaken by another sign-in:
its future does stay open for as long as that lasts.

`StoredIsShown` speaks of the only chat opened since the start. With two of them
the display depends on which listener fired last, and no fairness changes that.

In the client modules fairness is on the client's own tasks (a token that arrives, a
timer that runs out, a message that is read) and on the backend's answers.
What the app does, idleness and disruptions are never fair; disruptions are bounded, so
`QueueDrains` and `GetEnds` speak of what happens once they are over, and
they hold with backoffs and all because each break is followed by a new start
whenever there is something left to carry. `QueueDrains` is the
fairness the app modules assume of `WriteAnswered`, derived from that of timers and
messages. `SilentBackendSpec` drops the backend's part: the comment
that `OnlineIsDecided` quotes is about a backend that says nothing.

## 5. Proofs

Every invariant, action property and refinement that the passing runs check is proved
by TLAPS for every value of the constants, from the named assumptions on them
alone: slots, `Nil` and data are disjoint (`SlotsAssumption`, `NilAssumption`,
`UsersAssumption`, `IdsAssumption`, `ValuesAssumption`, `PicturesAssumption`), ids are
numbers and posts finitely many (`PostIdsAssumption`), bounds are natural numbers
(`MaxWritesAssumption`, `MaxPostsAssumption`, `WriteBoundsAssumption`, `BoundsAssumption`), and
the pipeline has room for one (`MaxPendingAssumption`). None of the invariants is
inductive as it stands. In each proof module `InvariantHolds` is the
strengthening, `TypeCorrect` the type invariant, and the other theorems follow from these, some
through a second layer on top of them (who waits for what, below).

**Feed.** `IInv` adds:

* `CallsInLoop`: a call inside the loop stands at a document of its answer, only such a call is of
  the last reload (`fresh`), a tap in flight has a post;
* `OneFreshCall`, `LoadInStep`: one call fills the lists, and has put in exactly the
  rows before its document, plus the heart when it waits for the count. This is
  why `RowsAligned` survives the awaits inside an iteration;
* `ShownIsPrefix`, `TapsOnRows`: the screen shows a first part of the rows, a tap's index
  is the row of its post, until a reload makes both old;
* `LoadHeartMatches`: the heart already added for the row under way agrees with the cloud too;
* `OverlayIsLastWrite`: the overlay is the last queued like of a post, or
  what the backend stores, which gives `QuietFeedIsStored` for an empty queue;
* `CallsWriteFalse`: only taps write `true`, so that a rejected write of a load
  cannot undo a like.

It is proved in layers, each using those before: types (`TypeAlways`), rows
(`RowsAlways`), hearts (`HeartsAlways`), queue (`QueueAlways`), counts. Each layer
has a lemma for what its indifferent actions leave alone (`QuietIsQuiet`, `RowsQuiet`,
`HeartsQuiet`, `CountsKept`) and one per action that matters. The theorems:
`TypeCorrect`, `RowsStayAligned`, `TapsHitShownPosts`, `HeartsMatchTheCloud`,
`QuietFeedStored`, `CountsMatchHearts`, `LoadsNeverUnlike` (an action property, from
`CallsWriteFalse` and the overlay) and `InvariantHolds`.

**Publish.** `OtherwiseEarlierPicture` speaks of the posts' pictures, and a new post
takes its picture from `postImageUrl`; the strengthening `UrlOfEarlierPost` says where
that URL comes from: a post already added, with a picture that was uploaded.
`AddKeepsInv` proves the four parts for any action that adds a post, and the
actions only have to say with which arguments they do.

**Profile.** `WritesOfUpdates` says where an update's writes stand in the queue:
nowhere before its first upload and after its text is settled, pictures only while
the second picture is uploaded, pictures and then the text while that is awaited.
Since the queue is FIFO, the settled text had everything of its call before it,
which is `SettledBeforeRead` (`SuccessIsSettled`). `FormSeen` (an update runs only with `getUser`
loaded) closes the types; `UserIsCurrent` is inductive beside these
(`DisplayIsCurrent`).

**Session.** `NewestWrite` relates the account signed in to the *last* of the
pending `setString` calls, or to the preferences when there is none, unless
excused: not persisted, or its document is still being written. `OneWriteEach` says that the
calls waiting for a save are those in the queue. `DocumentsOwed` accounts for each
account without a profile, `StartedAsUser` for a process that knew its user at
the start. From these `AuthAndPrefsAgree`, `PersistedUserHasProfile`, `MainScreenIsPersisted`.

**Chat.** `QueueInv` is about the queues: rows of one half are in the order of
their messages, and a second add already queued is of an older message than any first add
whose call will issue another (`QueuesOrdered`); rows and calls
correspond (`CallsHaveRows`, `RowsHaveCalls`, `RowsOfSender`). `BoxInv` relates them to the
boxes: what still leads to the addressee is not there yet (`NotYetThere`), a second
add follows the first one's outcome (`OwnFirst`), a first add nobody waits for belongs to
a message given up (`OrphansLost`). `CopiesStayTogether` and `OneConversationAtATime` are
parts of it; `ImplementsMailbox` proves the refinement: each action
changes the status of at most one message, as `Mailbox` allows, and an arrival is the oldest
pending message of its sender and addressee by `QueuesOrdered`.

**WritePipeline.** `Consistent` says of pipeline, queue, stream and wire
together that the pipeline starts the queue, that what the live stream owes is the pipeline, and
that an idle stream has nothing to do. `FillKeepsConsistent` proves once that
`FillWritePipeline` establishes it after any of the changes its callers make. `RowsNumbered`
(ids and numbers ascend in each queue and are below the next ones) is why an id reused after a
restart meets no row, and `CallbacksQueued` why it meets no callback. `WaitsCover` is why a
wait on one id waits for all. With `AnsweredWereApplied` an "ok" is true. The
refinement `ImplementsWriteQueue` maps `BackendApplies` to `Apply(i)` (the requests before it are
answered, so applied) and both ways to settle to `Settle`.

**Listen.** `Counted` says what a target's count of outstanding responses is: its requests not
read plus its answers not read. So a target that counts (`Active`) has no answer ahead
of it, and what is on the wire about it was said of the present listen (`Settled`).
`FreshWords` gives each such word its worth: a document is of a version no older than the
view, a current mark comes with one or finds the cache as new already, and what the backend
believes the client to have is there or on its way. `AskedLast` is what makes this true when the backend
takes up the target. `SyncedStaysFresh` follows, and `TrackerIsAsAsserted` needs the
types only. It is worth knowing that `SyncedIsFresh` holds in spite of the leftover mark of
`gets_readded`: a view follows its target's mark only with a change of the present listen
(`ChangedIsFresh`), and each such change is fresh. `AnswersStayFresh` carries this to
the gets: a step that answers one while the client is not offline finds its view in sync.

**Who waits, and for what.** `NobodyIsLeftWaiting`, in six modules, proves
`NobodyWaitsInVain` for any number of calls, users, queries and disruptions. It is as much of
the liveness properties as a prover of safety can show: in each state with
somebody waiting, an action that fairness speaks of is due to move the wait on.

* *Feed*, *Session*, *Chat*, *Profile*: who is parked at a write has it queued, once, and
  the queue's rows are those their callers are parked at. In Session also a spinner shows only
  while a call owes the form an answer, in Chat an open chat has its listener and shows what that
  one last heard.
* *WritePipeline*: `QInv` adds to `IInv` that the pipeline is *filled* (as many rows as
  there is room for, none without a network) and has a stream under way (`Served`), that waits hang
  on rows, and that who is still to be told was told nothing. `FillServes` proves
  once that `FillWritePipeline` establishes the former after any change. `PipelineIsQueuePrefix` is stated with
  that length: a prefix shorter than there is room for would be a queue nobody sends.
* *Listen*: the hard one, since the answer a get waits for comes in messages that a count
  may declare to be about an earlier listen. `Served` says that on an open stream a view is
  `Synchronised`, or a request is to be read, or the backend has a target to call current, or it has said
  so in a message after all answers (`Settled`) with a snapshot behind it
  (`CurrentComes`). Settled means that the target counts when the message is read
  (`ActiveIsSettled`), so the word is taken (`ReadServed`); and the last request the
  backend reads is to watch (`AskedLast`, `BackendServed`). That the *view* is in sync is too
  weak to be inductive: it may be so from the stream before, and fall back with the first documents of
  this one; hence `Synchronised` asks for the target's mark as well. `StreamServes`
  says that views have a stream no idle timer will stop, `Heard` that nobody waits whom the views
  could have answered.

What `Mailbox` and `WriteQueue` amount to is proved of their implementations:
`MessagesNeverOvertaken` and `OutcomesAreFinal` of Chat, `WritesAppliedInOrder` and
`CallersToldOnce` of WritePipeline.

**Model-checked only**: the liveness properties `CallEnds`, `TapEnds`, `SpinnerEnds`,
`AttemptEnds`, `MessageSettles`, `StoredIsShown`, `UpdateEnds`, `QueueDrains` and `GetEnds`
(fairness and ENABLED are outside the prover's reach), on the instances of section 3. What is
proved of them is `NobodyWaitsInVain`; that the actions due are taken, and that the steps they make
come to an end, is left to TLC.

## 6. What the model shows about the code

Two comments of the client say more than its code does, and a run each exhibits it:

* `gets_readded`: `TargetState::ClearPendingChanges` (`remote_event.cc:88`) drops pending
  documents but not `current_`, although its caller announces that "we need to reset
  any state that we had previously" (`remote_event.cc:158-160`). A query dropped and
  asked for again before the backend has answered is counted as current while the
  backend has only added it.
* `gets_silent`: when the last target goes while the stream is starting,
  `StopListening` (`remote_store.cc:187`) sets the online state to Unknown, which cancels
  the ten seconds' timer; the next `Listen` finds the stream started and sets none. With
  a silent backend a get then waits for as long as the stream does, where the comment at
  `online_state_tracker.cc:48-50` promises Offline "rather than waiting indefinitely".

No document or test of the app itself contradicts its code: the README is
the Flutter template's, and `test/widget_test.dart` tests the
template's counter, which this app does not have. The history variables, however,
mark precisely where the app's guarantees stop:

* two loads at once, or a tap that is still in flight when a load starts, may leave the lists
  misaligned until the next load (`clean`);
* a like that fails to save stays on display, and a like given to one's own post before its
  upload is done is lost (`drifted`);
* a registration killed or rejected midway leaves an account without a profile (`cut`),
  and that account can sign in afterwards;
* a uid that cannot be persisted leaves FirebaseAuth and the preferences apart (`unsaved`);
* a message may stay with one side only (`refused`, `lost`);
* after two chats have been opened, the open one may display the other's messages;
* a post without a picture takes that of an earlier post.

## 7. Not modelled

Of the repository's implementation files, nearly all (about 650 000 lines) are
vendored: BoringSSL, gRPC, Abseil, LevelDB, nanopb, FirebaseAuth, Storage and Messaging, and the
Firestore SDK. The app's own Dart code is under 2 400 lines, and it is covered down to
layout. Of the vendored code the two client modules model the parts the app's
behaviour rests on; the rest is cryptography, parsing, transport and generated tables, which
has its own maintainers and no bearing on the properties stated here. The share of all
lines that a definition stands for is therefore small, and cannot be otherwise.

In the app:

* The first session after a sign-in, in which the global `uId` is still null and
  `doc(null)` is a fresh document each time. `Session` models `uId`; the other
  modules are about sessions in which it is the user.
* `getUserChat`: `Chat` lets a user open a chat with anybody, a superset of the list read once
  per process.
* Cubit states with no effect but a redraw, toasts, layout, texts, clocks across devices.
* Names of Storage objects (bare file names: two users' `image.png` collide).
* Other devices of the same user, deletion of anything (there is no code for it).
* Topics and push messages, which keep no state.

In the client:

* Of writes: stream tokens, transactions, responses that cannot be parsed, and the moment
  between telling a caller and removing the row, which is inside one task.
* Of reads: existence filters, limbo resolution, targets the backend refuses, results that
  arrive in parts (a result is one version), permanent listeners of several documents, queries on the
  cache, garbage collection.
* Assumptions: a stream that has ended is dead at the backend too, so nothing it carried takes effect
  later; callbacks of a user who signed out stay until that user is current again.

## 8. Plan

Done, in this order: `Feed` with its proofs (the core: most state, most
interleavings), `Session`, `Chat` with `Mailbox`, `Profile`, `Publish`; then the client, `WritePipeline`
with `WriteQueue` and `Listen`; then the proofs of all of them.

Next:

1. `Contacts`: `getUserChat` and the list of users, composed with `Chat`.
2. `App`: `Session` composed with the start-up cascade (`getPostData`, `getUserData`,
   `getUserChat` under the `uId` read at the start), for the first session with `uId` null
   and what it writes to the backend.
3. An abstract `Likes` specification (a set of posts a user likes, changed by taps, shown
   sooner or later) that `Feed` implements while `clean`.
4. `Listen` with results of several documents: existence filters, limbo resolution, and a
   snapshot of a target that is current before all of its documents are in the cache.
