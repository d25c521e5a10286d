-------------------------------- MODULE Feed --------------------------------
(***************************************************************************)
(* The feed of one signed-in user on one device: the posts half of         *)
(* SocialAppCubit (getPostData, _postLoop, likePost, uploadPost), the      *)
(* rows FeedsScreen builds from it, and the Firestore client under them.   *)
(*                                                                         *)
(* Dart runs one event loop, so code between two awaits is atomic and each *)
(* await splits its method into two actions.  Several calls may be parked  *)
(* at an await at once, and all of them write the same four lists.         *)
(*                                                                         *)
(* The Firestore client overlays the writes it has queued on everything it *)
(* answers, and sends them in order; a rejected write is taken back out of *)
(* the overlay.  The queue survives a restart of the app.                  *)
(***************************************************************************)
EXTENDS Integers, Sequences, FiniteSets

CONSTANTS
  PostIds,    \* ids that documents of `posts' can get; a query answers in id order
  Loads,      \* slots for getPostData calls in flight together
  Uploads,    \* slots for uploadPost calls, each ending in a getPostData of its own
  Taps,       \* slots for likePost calls in flight together
  Nil,        \* the caller of a write issued before a restart; no post
  MaxWrites   \* bound on the queue of unacknowledged writes

ASSUME PostIdsAssumption == PostIds \subseteq Nat /\ IsFiniteSet(PostIds)
Calls == Loads \cup Uploads

ASSUME SlotsAssumption == Calls \cap Taps = {} /\ Nil \notin Calls \cup Taps
ASSUME MaxWritesAssumption == MaxWrites \in Nat

VARIABLES
  \* Firestore, as this client's SDK shows it
  ids,         \* document ids drawn so far (an auto id is drawn once)
  cloudPosts,  \* ids of the documents of `posts'
  mine,        \* this user's document under each post's `likes', overlay included
  acked,       \* the same at the backend
  writes,      \* queued writes, oldest first
  \* fields of SocialAppCubit
  posts, postId, like, likeState,
  \* the rows of the last build of FeedsScreen
  shown,
  \* calls parked at an await
  call, tap,
  \* bookkeeping of the properties, read by no action's guard
  clean,       \* only the call that last emptied the lists has filled them since
  current,     \* `shown' was built after the lists were last emptied
  drifted,     \* posts whose like changed in the cloud behind a filled list
  uncounted    \* posts whose likes could not be read again after a tap

cloud == <<ids, cloudPosts, mine, acked, writes>>
lists == <<posts, postId, like, likeState>>
notes == <<clean, current, drifted, uncounted>>
vars  == <<cloud, lists, shown, call, tap, notes>>

-----------------------------------------------------------------------------
LikeDoc == {"none", "no", "yes"}    \* no document, {'like': false}, {'like': true}

Steps == {"idle", "adding", "seeding", "query", "readMine", "setMine", "count"}

Call == [at: Steps, docs: Seq(PostIds), next: Nat \ {0}, fresh: BOOLEAN]
Tap  == [at: {"idle", "saving", "counting"}, post: PostIds \cup {Nil},
         index: Nat, fresh: BOOLEAN]

\* A count is kept as the post it was taken from and whether it includes this
\* user's own like: what other users add to the number is noise here.
Count == [post: PostIds, mine: BOOLEAN]

Write == [kind: {"add", "like"}, post: PostIds, val: LikeDoc,
          by: Calls \cup Taps \cup {Nil}]

TypeOK ==
  /\ cloudPosts \subseteq ids
  /\ ids \subseteq PostIds
  /\ mine \in [PostIds -> LikeDoc]
  /\ acked \in [PostIds -> LikeDoc]
  /\ writes \in Seq(Write)
  /\ posts \in Seq(PostIds)
  /\ postId \in Seq(PostIds)
  /\ like \in Seq(Count)
  /\ likeState \in Seq(BOOLEAN)
  /\ shown \in Seq(PostIds)
  /\ call \in [Calls -> Call]
  /\ tap \in [Taps -> Tap]
  /\ clean \in BOOLEAN
  /\ current \in BOOLEAN
  /\ drifted \subseteq PostIds
  /\ uncounted \subseteq PostIds

\* A call at a step outside _postLoop holds no answer.
CallAt(s) == [at |-> s, docs |-> <<>>, next |-> 1, fresh |-> FALSE]
IdleCall  == CallAt("idle")
IdleTap  == [at |-> "idle", post |-> Nil, index |-> 0, fresh |-> FALSE]

Init ==
  /\ ids = {} /\ cloudPosts = {} /\ writes = <<>>
  /\ mine = [p \in PostIds |-> "none"]
  /\ acked = [p \in PostIds |-> "none"]
  /\ posts = <<>> /\ postId = <<>> /\ like = <<>> /\ likeState = <<>>
  /\ shown = <<>>
  /\ call = [c \in Calls |-> IdleCall]
  /\ tap = [t \in Taps |-> IdleTap]
  /\ clean = TRUE /\ current = TRUE /\ drifted = {} /\ uncounted = {}

-----------------------------------------------------------------------------
(* The Firestore client.                                                   *)

\* Mutant: the field is read under a name no document has, which gives null.
HeartNull(p) == Nil

\* The heart a read of this user's like of p gives.
Heart(p) == mine[p] = "yes"

\* Mutant: the existence check is dropped and false written every time.
MissingAlways(p) == TRUE

Missing(p) == mine[p] = "none"

Room == Len(writes) < MaxWrites

AddWrite(p, who)     == [kind |-> "add", post |-> p, val |-> "none", by |-> who]
LikeWrite(p, v, who) == [kind |-> "like", post |-> p, val |-> v, by |-> who]

\* A get of the collection answers its documents in id order.
Answers(S) ==
  {s \in [1..Cardinality(S) -> S] : \A i, j \in DOMAIN s : i < j => s[i] < s[j]}

\* The write at the head of the queue is the one `who' awaits.
Awaited(who) == writes # <<>> /\ Head(writes).by = who

\* The head is acknowledged: it moves from the overlay to the backend.
HeadAcked ==
  LET w == Head(writes) IN
  /\ acked' = IF w.kind = "like" THEN [acked EXCEPT ![w.post] = w.val] ELSE acked
  /\ UNCHANGED <<ids, cloudPosts>>

\* The posts whose heart is not what it was, as far as the cloud tells.
HeartsMoved == {p \in PostIds : Heart(p) # Heart(p)'}

\* The head is rejected: the overlay loses it.
HeadRejected ==
  LET w == Head(writes)
      covered == \E k \in 2..Len(writes) :
                    writes[k].kind = "like" /\ writes[k].post = w.post
  IN
  /\ writes' = Tail(writes)
  /\ cloudPosts' = IF w.kind = "add" THEN cloudPosts \ {w.post} ELSE cloudPosts
  /\ mine' = IF w.kind = "like" /\ ~covered
             THEN [mine EXCEPT ![w.post] = acked[w.post]] ELSE mine
  /\ drifted' = drifted \cup HeartsMoved
  /\ UNCHANGED <<ids, acked>>

-----------------------------------------------------------------------------
(* getPostData and _postLoop.                                              *)

\* Mutant: likeState is not emptied.
EmptyListsKeepHearts ==
  posts' = <<>> /\ postId' = <<>> /\ like' = <<>> /\ UNCHANGED likeState

EmptyLists == posts' = <<>> /\ postId' = <<>> /\ like' = <<>> /\ likeState' = <<>>

\* onRefresh, the start-up cascade: the query is issued.
StartLoad(c) ==
  /\ call[c].at = "idle"
  /\ call' = [call EXCEPT ![c] = CallAt("query")]
  /\ UNCHANGED <<cloud, lists, shown, tap, notes>>

\* The query is answered: _postLoop empties the four lists and reads the like
\* of the first post; every other parked call now holds an older feed.
QueryAnswer(c) ==
  /\ call[c].at = "query"
  /\ EmptyLists
  /\ \E docs \in Answers(cloudPosts) :
       call' = [d \in Calls |->
                  IF d # c THEN [call[d] EXCEPT !.fresh = FALSE]
                  ELSE IF docs = <<>> THEN IdleCall
                  ELSE [at |-> "readMine", docs |-> docs, next |-> 1, fresh |-> TRUE]]
  /\ tap' = [t \in Taps |-> [tap[t] EXCEPT !.fresh = FALSE]]
  /\ clean' = TRUE /\ current' = FALSE /\ drifted' = {} /\ uncounted' = {}
  /\ UNCHANGED <<cloud, shown>>

Doc(c) == call[c].docs[call[c].next]

\* This user's like document exists: its value becomes the row's heart.
ReadMine(c) ==
  /\ call[c].at = "readMine" /\ ~Missing(Doc(c))
  /\ likeState' = Append(likeState, Heart(Doc(c)))
  /\ call' = [call EXCEPT ![c].at = "count"]
  /\ clean' = (clean /\ call[c].fresh)
  /\ UNCHANGED <<cloud, posts, postId, like, shown, tap, current, drifted, uncounted>>

\* It does not exist: {'like': false} is written before the heart is added.
ReadMineMissing(c) ==
  /\ call[c].at = "readMine" /\ Missing(Doc(c)) /\ Room
  /\ writes' = Append(writes, LikeWrite(Doc(c), "no", c))
  /\ mine' = [mine EXCEPT ![Doc(c)] = "no"]
  /\ call' = [call EXCEPT ![c].at = "setMine"]
  /\ UNCHANGED <<ids, cloudPosts, acked, lists, shown, tap, notes>>

\* Mutant: the heart of a post seen for the first time is filled.
SetMineAckedFilled(c) ==
  /\ call[c].at = "setMine" /\ Awaited(c)
  /\ HeadAcked /\ writes' = Tail(writes)
  /\ likeState' = Append(likeState, TRUE)
  /\ call' = [call EXCEPT ![c].at = "count"]
  /\ clean' = (clean /\ call[c].fresh)
  /\ UNCHANGED <<mine, posts, postId, like, shown, tap, current, drifted, uncounted>>

SetMineAcked(c) ==
  /\ call[c].at = "setMine" /\ Awaited(c)
  /\ HeadAcked /\ writes' = Tail(writes)
  /\ likeState' = Append(likeState, FALSE)
  /\ call' = [call EXCEPT ![c].at = "count"]
  /\ clean' = (clean /\ call[c].fresh)
  /\ UNCHANGED <<mine, posts, postId, like, shown, tap, current, drifted, uncounted>>

\* Mutant: postId is a list, and an id is put in front.
AddIdFirst(seq, p) == <<p>> \o seq

\* LinkedHashSet.add: postId is a set of strings, kept in insertion order.
AddId(seq, p) == IF \E k \in DOMAIN seq : seq[k] = p THEN seq ELSE Append(seq, p)

\* The loop goes on with the next document, or the call ends after the last.
NextDoc(r) ==
  IF r.next = Len(r.docs) THEN IdleCall
  ELSE [r EXCEPT !.at = "readMine", !.next = r.next + 1]

\* The likes are counted and the row is complete.  `posts' is a set too, but of
\* PostModel, which has no ==: every instance is a new element.
CountAnswer(c) ==
  /\ call[c].at = "count"
  /\ like' = Append(like, [post |-> Doc(c), mine |-> Heart(Doc(c))])
  /\ postId' = AddId(postId, Doc(c))
  /\ posts' = Append(posts, Doc(c))
  /\ call' = [call EXCEPT ![c] = NextDoc(call[c])]
  /\ clean' = (clean /\ call[c].fresh)
  /\ UNCHANGED <<cloud, likeState, shown, tap, current, drifted, uncounted>>

\* A read fails: catchError reports it and the lists stay as they are.
ReadFails(c) ==
  /\ call[c].at \in {"query", "readMine", "count"}
  /\ call' = [call EXCEPT ![c] = IdleCall]
  /\ UNCHANGED <<cloud, lists, shown, tap, notes>>

-----------------------------------------------------------------------------
(* uploadPost, from the add on.                                            *)

\* The post is added under a new id and is visible to this client at once.
StartUpload(c, p) ==
  /\ call[c].at = "idle" /\ p \notin ids /\ Room
  /\ ids' = ids \cup {p}
  /\ cloudPosts' = cloudPosts \cup {p}
  /\ writes' = Append(writes, AddWrite(p, c))
  /\ call' = [call EXCEPT ![c] = CallAt("adding")]
  /\ UNCHANGED <<mine, acked, lists, shown, tap, notes>>

\* The add is acknowledged: the author's own like is set to false.
AddAcked(c) ==
  /\ call[c].at = "adding" /\ Awaited(c)
  /\ LET p == Head(writes).post IN
     /\ writes' = Append(Tail(writes), LikeWrite(p, "no", c))
     /\ mine' = [mine EXCEPT ![p] = "no"]
  /\ HeadAcked
  /\ drifted' = drifted \cup HeartsMoved
  /\ call' = [call EXCEPT ![c].at = "seeding"]
  /\ UNCHANGED <<lists, shown, tap, clean, current, uncounted>>

\* The like is acknowledged: uploadPost reports success and reloads the feed.
SeedAcked(c) ==
  /\ call[c].at = "seeding" /\ Awaited(c)
  /\ HeadAcked /\ writes' = Tail(writes)
  /\ call' = [call EXCEPT ![c].at = "query"]
  /\ UNCHANGED <<mine, lists, shown, tap, notes>>

\* Mutant: the error is swallowed and the call never resumed.
WriteFailsSilently(c) ==
  /\ call[c].at \in {"setMine", "adding", "seeding"} /\ Awaited(c)
  /\ HeadRejected
  /\ UNCHANGED <<call, lists, shown, tap, clean, current, uncounted>>

\* Any write awaited by a call fails: catchError ends the call.
WriteFails(c) ==
  /\ call[c].at \in {"setMine", "adding", "seeding"} /\ Awaited(c)
  /\ HeadRejected
  /\ call' = [call EXCEPT ![c] = IdleCall]
  /\ UNCHANGED <<lists, shown, tap, clean, current, uncounted>>

-----------------------------------------------------------------------------
(* likePost, called by the heart of a row on display.                      *)

\* Mutant: the value the heart had, not the one it gets, is written.
ToggledLate(i) == IF likeState[i] THEN "yes" ELSE "no"

Toggled(i) == IF likeState[i] THEN "no" ELSE "yes"

\* postId.elementAt and likeState[] throw beyond their ends: nothing happens.
LikePost(t, i) ==
  /\ tap[t].at = "idle" /\ Room
  /\ i \in DOMAIN shown /\ i \in DOMAIN postId /\ i \in DOMAIN likeState
  /\ likeState' = [likeState EXCEPT ![i] = ~@]
  /\ writes' = Append(writes, LikeWrite(postId[i], Toggled(i), t))
  /\ mine' = [mine EXCEPT ![postId[i]] = Toggled(i)]
  /\ tap' = [tap EXCEPT ![t] =
               [at |-> "saving", post |-> postId[i], index |-> i, fresh |-> TRUE]]
  /\ UNCHANGED <<ids, cloudPosts, acked, posts, postId, like, shown, call, notes>>

\* Mutant: the likes are not read again after the save.
LikeSavedUncounted(t) ==
  /\ tap[t].at = "saving" /\ Awaited(t)
  /\ HeadAcked /\ writes' = Tail(writes)
  /\ tap' = [tap EXCEPT ![t] = IdleTap]
  /\ UNCHANGED <<mine, lists, shown, call, notes>>

\* The like is saved, or is not and the heart stays turned over: either way the
\* likes are read again.
LikeSaved(t) ==
  /\ tap[t].at = "saving" /\ Awaited(t)
  /\ HeadAcked /\ writes' = Tail(writes)
  /\ tap' = [tap EXCEPT ![t].at = "counting"]
  /\ UNCHANGED <<mine, lists, shown, call, notes>>

\* Mutant: a failed save is never reported to the caller.
LikeNotSavedSilently(t) ==
  /\ tap[t].at = "saving" /\ Awaited(t)
  /\ HeadRejected
  /\ UNCHANGED <<tap, lists, shown, call, clean, current, uncounted>>

LikeNotSaved(t) ==
  /\ tap[t].at = "saving" /\ Awaited(t)
  /\ HeadRejected
  /\ tap' = [tap EXCEPT ![t].at = "counting"]
  /\ UNCHANGED <<lists, shown, call, clean, current, uncounted>>

\* The count goes to the index the tap had, whatever row that is by now; beyond
\* the end the assignment throws and is caught.
LikesCounted(t) ==
  LET p == tap[t].post  i == tap[t].index IN
  /\ tap[t].at = "counting"
  /\ IF i \in DOMAIN like
     THEN /\ like' = [like EXCEPT ![i] = [post |-> p, mine |-> Heart(p)]]
          /\ clean' = (clean /\ tap[t].fresh)
     ELSE UNCHANGED <<like, clean>>
  /\ tap' = [tap EXCEPT ![t] = IdleTap]
  /\ UNCHANGED <<cloud, posts, postId, likeState, shown, call, current, drifted, uncounted>>

LikesNotCounted(t) ==
  /\ tap[t].at = "counting"
  /\ tap' = [tap EXCEPT ![t] = IdleTap]
  /\ uncounted' = uncounted \cup {tap[t].post}
  /\ UNCHANGED <<cloud, lists, shown, call, clean, current, drifted>>

-----------------------------------------------------------------------------
(* The screen, the other users and the process itself.                     *)

\* Every emit rebuilds FeedsScreen; changeBottomNav alone can emit at any time.
Build ==
  /\ shown' = posts /\ current' = TRUE
  /\ UNCHANGED <<cloud, lists, call, tap, clean, drifted, uncounted>>

\* Another user's post reaches this client.
OthersPost(p) ==
  /\ p \notin ids
  /\ ids' = ids \cup {p} /\ cloudPosts' = cloudPosts \cup {p}
  /\ UNCHANGED <<mine, acked, writes, lists, shown, call, tap, notes>>

\* A write left by an earlier process is sent; nobody awaits it.
OrphanAcked ==
  /\ Awaited(Nil)
  /\ HeadAcked /\ writes' = Tail(writes)
  /\ UNCHANGED <<mine, lists, shown, call, tap, notes>>

OrphanRejected ==
  /\ Awaited(Nil)
  /\ HeadRejected
  /\ UNCHANGED <<lists, shown, call, tap, clean, current, uncounted>>

\* The app is killed and started again: the cubit is new, the queue is not.
Restart ==
  /\ writes' = [k \in DOMAIN writes |-> [writes[k] EXCEPT !.by = Nil]]
  /\ EmptyLists
  /\ shown' = <<>>
  /\ call' = [c \in Calls |-> IdleCall]
  /\ tap' = [t \in Taps |-> IdleTap]
  /\ clean' = TRUE /\ current' = TRUE /\ drifted' = {} /\ uncounted' = {}
  /\ UNCHANGED <<ids, cloudPosts, mine, acked>>

\* What the network owes a parked call: an answer or an error.
CallAnswered(c) ==
  \/ QueryAnswer(c) \/ ReadMine(c) \/ ReadMineMissing(c) \/ CountAnswer(c) \/ ReadFails(c)

TapAnswered(t) == LikesCounted(t) \/ LikesNotCounted(t)

WriteAnswered ==
  \/ \E c \in Calls : SetMineAcked(c) \/ AddAcked(c) \/ SeedAcked(c) \/ WriteFails(c)
  \/ \E t \in Taps : LikeSaved(t) \/ LikeNotSaved(t)
  \/ OrphanAcked \/ OrphanRejected

Next ==
  \/ \E c \in Loads : StartLoad(c)
  \/ \E c \in Uploads, p \in PostIds : StartUpload(c, p)
  \/ \E c \in Calls : CallAnswered(c)
  \/ \E t \in Taps, i \in DOMAIN shown : LikePost(t, i)
  \/ \E t \in Taps : TapAnswered(t)
  \/ WriteAnswered
  \/ Build
  \/ \E p \in PostIds : OthersPost(p)
  \/ Restart

Spec == Init /\ [][Next]_vars

\* Every request is answered, with a value or an error, in the end.
FairSpec ==
  /\ Spec
  /\ \A c \in Calls : WF_vars(CallAnswered(c))
  /\ \A t \in Taps : WF_vars(TapAnswered(t))
  /\ WF_vars(WriteAnswered)

-----------------------------------------------------------------------------
(* Properties.  `clean' says that no call of before the last reload has     *)
(* written into the lists that reload began; every way to lose it is an     *)
(* overlap of two calls.                                                    *)

\* While no older call has written into them, the four lists that feeds_screen
\* indexes with one index describe the same post at every index, each post
\* once, and no row lacks its heart (social_app_cubit.dart:208-244).
RowsAligned ==
  clean =>
    /\ postId = posts
    /\ \A i, j \in DOMAIN posts : i < j => posts[i] < posts[j]
    /\ DOMAIN like = DOMAIN posts
    /\ \A i \in DOMAIN posts : like[i].post = posts[i]
    /\ Len(likeState) \in {Len(posts), Len(posts) + 1}

\* A tap on a row drawn since the last reload acts on the post the row shows,
\* and neither lookup of the handler is out of range (feeds_screen.dart:281-287).
TapHitsShownPost ==
  clean /\ current =>
    \A i \in DOMAIN shown :
      i \in DOMAIN postId /\ i \in DOMAIN likeState /\ postId[i] = shown[i]

\* A heart is filled exactly when this user's like is in the cloud as this
\* client sees it: a reload, taps and their answers in any order keep the two
\* together, save for posts whose like was rejected or reseeded.
HeartMatchesCloud ==
  clean => \A i \in DOMAIN posts :
             posts[i] \in drifted \/ likeState[i] = (mine[posts[i]] = "yes")

\* Once no write is queued, what the hearts show is what the backend stores.
QuietFeedIsStored ==
  clean /\ writes = <<>> =>
    \A i \in DOMAIN posts :
      posts[i] \in drifted \/ likeState[i] = (acked[posts[i]] = "yes")

\* A row's number of likes includes this user's like exactly when its heart is
\* filled, unless a tap on the row is still in flight or its recount failed.
CountMatchesHeart ==
  clean => \A i \in DOMAIN posts :
             \/ posts[i] \in drifted \cup uncounted
             \/ like[i].mine = likeState[i]
             \/ \E t \in Taps : tap[t].fresh /\ tap[t].index = i

Loading(c) == call[c].at \in {"query", "readMine", "setMine", "count"}

\* Loading the feed never takes a like back: the {'like': false} a load writes
\* for a post it believes unseen never lands on a like given meanwhile, nor does
\* the failure of that write undo one.
LoadNeverUnlikes ==
  [][\A c \in Calls : Loading(c) /\ call'[c].at # call[c].at =>
       \A p \in PostIds : mine[p] = "yes" => mine'[p] = "yes"]_vars

\* Who is parked until a write is acknowledged.
Waits(who) ==
  \/ who \in Calls /\ call[who].at \in {"adding", "seeding", "setMine"}
  \/ who \in Taps /\ tap[who].at = "saving"

\* The write `who' is parked at: its own kind, on the post it is about.
Awaits(who, w) ==
  \/ who \in Calls /\ \/ call[who].at = "adding" /\ w.kind = "add"
                      \/ call[who].at = "seeding" /\ w.kind = "like" /\ w.val = "no"
                      \/ call[who].at = "setMine" /\ w = LikeWrite(Doc(who), "no", who)
  \/ who \in Taps /\ tap[who].at = "saving" /\ w.kind = "like" /\ w.post = tap[who].post

WritesAwaited ==
  \A k \in DOMAIN writes : writes[k].by # Nil => Awaits(writes[k].by, writes[k])

WaitersHaveWrites ==
  \A who \in Calls \cup Taps : Waits(who) => \E k \in DOMAIN writes : writes[k].by = who

OneWriteEach ==
  \A j, k \in DOMAIN writes : writes[j].by = writes[k].by /\ writes[j].by # Nil => j = k

\* What CallEnds and TapEnds rest on: whoever is parked at a write has one in the
\* queue, and every write is the one its caller is parked at, so the write at the
\* head can always be answered and its answer always resumes somebody, or belongs
\* to a process that is gone (social_app_cubit.dart:178-179, 220-223, 248-253).
NobodyWaitsInVain == WaitersHaveWrites /\ WritesAwaited /\ OneWriteEach

\* Every getPostData and uploadPost ends, so the refresh indicator goes away.
CallEnds == \A c \in Calls : call[c].at # "idle" ~> call[c].at = "idle"

\* Every likePost ends, and its row can be counted again.
TapEnds == \A t \in Taps : tap[t].at # "idle" ~> tap[t].at = "idle"

-----------------------------------------------------------------------------
(* The inductive invariant; FeedProofs proves that it is one.               *)

Loop == {"readMine", "setMine", "count"}

\* A call inside _postLoop stands at a document of its answer, and only such a
\* call is of the last reload; a tap in flight has a post.
CallsInLoop ==
  /\ \A c \in Calls : call[c].at \in Loop => call[c].next \in DOMAIN call[c].docs
  /\ \A c \in Calls : call[c].fresh => call[c].at \in Loop
  /\ \A t \in Taps : tap[t].at # "idle" => tap[t].post \in PostIds
  /\ \A t \in Taps : tap[t].fresh => tap[t].at # "idle"

OneFreshCall == \A c, d \in Calls : call[c].fresh /\ call[d].fresh => c = d

\* The call of the last reload has put exactly the rows before its document
\* into the lists, and its document's heart when it is at the count.
LoadInStep ==
  clean => \A c \in Calls : call[c].fresh =>
    /\ call[c].next = Len(posts) + 1
    /\ \A i \in DOMAIN posts : posts[i] = call[c].docs[i]
    /\ \A i, j \in DOMAIN call[c].docs : i < j => call[c].docs[i] < call[c].docs[j]
    /\ Len(likeState) = IF call[c].at = "count" THEN Len(posts) + 1 ELSE Len(posts)

\* Its document's heart is what the cloud has; none is filled while the call
\* waits for its {'like': false}.
LoadHeartMatches ==
  clean => \A c \in Calls : call[c].fresh =>
    /\ call[c].at = "count" =>
         Doc(c) \in drifted \/ likeState[call[c].next] = (mine[Doc(c)] = "yes")
    /\ call[c].at = "setMine" => Doc(c) \in drifted \/ mine[Doc(c)] # "yes"

\* What is on display since the last reload is a first part of the rows.
ShownIsPrefix ==
  clean /\ current =>
    \A i \in DOMAIN shown : i \in DOMAIN posts /\ shown[i] = posts[i]

\* A tap of after the last reload still points at the row of its post.
TapsOnRows ==
  clean => \A t \in Taps : tap[t].fresh =>
             tap[t].index \in DOMAIN posts /\ posts[tap[t].index] = tap[t].post

LikeOf(w, p) == w.kind = "like" /\ w.post = p

\* Overlay m of queue q over backend a shows the last queued like of a post, or
\* the stored one.
Overlays(m, a, q) ==
  /\ \A p \in PostIds : (\A k \in DOMAIN q : ~LikeOf(q[k], p)) => m[p] = a[p]
  /\ \A k \in DOMAIN q :
       /\ q[k].kind = "like"
       /\ \A j \in DOMAIN q : j > k => ~LikeOf(q[j], q[k].post)
       => m[q[k].post] = q[k].val

OverlayIsLastWrite == Overlays(mine, acked, writes)

\* Only taps write {'like': true}.
CallsWriteFalse ==
  \A k \in DOMAIN writes : writes[k].by \in Calls => writes[k].val # "yes"

TypeInv  == TypeOK /\ CallsInLoop
RowsInv  == OneFreshCall /\ LoadInStep /\ RowsAligned /\ ShownIsPrefix /\ TapsOnRows
HeartInv == LoadHeartMatches /\ HeartMatchesCloud
QueueInv == OverlayIsLastWrite /\ CallsWriteFalse

IInv ==
  /\ TypeInv /\ RowsInv /\ HeartInv /\ QueueInv
  /\ CountMatchesHeart /\ NobodyWaitsInVain

=============================================================================
