----------------------------- MODULE FeedProofs -----------------------------
(***************************************************************************)
(* Proofs about Feed for every set of posts and of slots and every queue   *)
(* bound.  IInv, at the end of Feed, is inductive; the properties follow.  *)
(***************************************************************************)
EXTENDS Feed, TLAPS, FiniteSetTheorems, SequenceTheorems

\* What an answered query holds: every document once, in id order.
LEMMA AnswersType ==
  ASSUME NEW S \in SUBSET PostIds, NEW docs \in Answers(S)
  PROVE  /\ docs \in Seq(PostIds)
         /\ docs # <<>> => 1 \in DOMAIN docs
         /\ \A i, j \in DOMAIN docs : i < j => docs[i] < docs[j]
<1>1. Cardinality(S) \in Nat
  BY PostIdsAssumption, FS_Subset, FS_CardinalityType
<1>2. docs \in [1..Cardinality(S) -> PostIds]
  BY <1>1 DEF Answers
<1>3. docs \in Seq(PostIds)
  BY <1>1, <1>2, SeqDef
<1>4. docs # <<>> => 1 \in DOMAIN docs
  BY <1>3
<1>. QED BY <1>3, <1>4 DEF Answers

\* The head of a non-empty queue is a write, and so is all that follows it.
LEMMA QueueType ==
  ASSUME TypeOK, writes # <<>>
  PROVE  /\ Head(writes) \in Write
         /\ Head(writes) = writes[1]
         /\ Head(writes).post \in PostIds
         /\ Head(writes).val \in LikeDoc
         /\ Tail(writes) \in Seq(Write)
<1>1. writes \in Seq(Write)
  BY DEF TypeOK
<1>2. Head(writes) \in Write /\ Tail(writes) \in Seq(Write)
  BY <1>1, HeadTailProperties
<1>. QED BY <1>1, <1>2 DEF Write

LEMMA DocType ==
  ASSUME TypeInv, NEW c \in Calls, call[c].at \in Loop
  PROVE  Doc(c) \in PostIds
<1>1. call[c].docs \in Seq(PostIds) /\ call[c].next \in DOMAIN call[c].docs
  BY DEF TypeInv, TypeOK, CallsInLoop, Call
<1>. QED BY <1>1 DEF Doc

\* A parked call moves to its next step, or ends.
LEMMA CallMoves ==
  ASSUME TypeOK, NEW c \in Calls, NEW s \in Steps, call' = [call EXCEPT ![c].at = s]
  PROVE  /\ call' \in [Calls -> Call]
         /\ call'[c].at = s
         /\ \A d \in Calls : d # c => call'[d] = call[d]
         /\ \A d \in Calls : /\ call'[d].docs = call[d].docs
                             /\ call'[d].next = call[d].next
                             /\ call'[d].fresh = call[d].fresh
BY DEF TypeOK, Call

LEMMA CallEndsHere ==
  ASSUME TypeOK, NEW c \in Calls, call' = [call EXCEPT ![c] = IdleCall]
  PROVE  /\ call' \in [Calls -> Call]
         /\ call'[c].at = "idle" /\ ~call'[c].fresh
         /\ \A d \in Calls : d # c => call'[d] = call[d]
BY DEF TypeOK, Call, IdleCall, CallAt, Steps

LEMMA CallStarts ==
  ASSUME TypeOK, NEW c \in Calls, NEW s \in Steps,
         call' = [call EXCEPT ![c] = CallAt(s)]
  PROVE  /\ call' \in [Calls -> Call]
         /\ call'[c].at = s /\ ~call'[c].fresh
         /\ \A d \in Calls : d # c => call'[d] = call[d]
BY DEF TypeOK, Call, CallAt

\* The loop moves to the next document of its answer, or ends.
LEMMA NextDocType ==
  ASSUME TypeInv, NEW c \in Calls, call[c].at \in Loop
  PROVE  LET r == NextDoc(call[c])  last == call[c].next = Len(call[c].docs) IN
         /\ r \in Call
         /\ r.at \in Loop => r.next \in DOMAIN r.docs
         /\ r.fresh => r.at \in Loop
         /\ last => r = IdleCall
         /\ ~last => /\ r.at = "readMine" /\ r.next = call[c].next + 1
                     /\ r.docs = call[c].docs /\ r.fresh = call[c].fresh
<1>1. call[c] \in Call /\ call[c].next \in DOMAIN call[c].docs
  BY DEF TypeInv, TypeOK, CallsInLoop
<1>2. CASE call[c].next = Len(call[c].docs)
  BY <1>2 DEF NextDoc, Call, IdleCall, CallAt, Steps, Loop
<1>3. CASE call[c].next # Len(call[c].docs)
  <2> DEFINE r == [call[c] EXCEPT !.at = "readMine", !.next = call[c].next + 1]
  <2>1. NextDoc(call[c]) = r
    BY <1>3 DEF NextDoc
  <2>2. /\ call[c].docs \in Seq(PostIds) /\ call[c].next \in 1..Len(call[c].docs)
    BY <1>1 DEF Call
  <2>3. call[c].next + 1 \in Nat \ {0} /\ call[c].next + 1 \in DOMAIN call[c].docs
    BY <1>3, <2>2
  <2>4. r \in Call
    BY <1>1, <2>3 DEF Call, Steps
  <2>5. /\ r.at = "readMine" /\ r.next = call[c].next + 1
        /\ r.docs = call[c].docs /\ r.fresh = call[c].fresh
    BY <1>1 DEF Call
  <2> HIDE DEF r
  <2>. QED BY <1>3, <2>1, <2>3, <2>4, <2>5 DEF Loop
<1>. QED BY <1>2, <1>3

LEMMA TapMoves ==
  ASSUME TypeOK, NEW t \in Taps, NEW s \in {"idle", "saving", "counting"},
         tap' = [tap EXCEPT ![t].at = s]
  PROVE  /\ tap' \in [Taps -> Tap]
         /\ tap'[t].at = s
         /\ \A u \in Taps : u # t => tap'[u] = tap[u]
         /\ \A u \in Taps : /\ tap'[u].post = tap[u].post
                            /\ tap'[u].index = tap[u].index
                            /\ tap'[u].fresh = tap[u].fresh
BY DEF TypeOK, Tap

LEMMA TapEndsHere ==
  ASSUME TypeOK, NEW t \in Taps, tap' = [tap EXCEPT ![t] = IdleTap]
  PROVE  /\ tap' \in [Taps -> Tap]
         /\ tap'[t].at = "idle" /\ ~tap'[t].fresh
         /\ \A u \in Taps : u # t => tap'[u] = tap[u]
BY DEF TypeOK, Tap, IdleTap

LEMMA HeadAckedType ==
  ASSUME TypeOK, writes # <<>>, HeadAcked
  PROVE  /\ acked' \in [PostIds -> LikeDoc]
         /\ ids' = ids /\ cloudPosts' = cloudPosts
BY QueueType DEF TypeOK, HeadAcked

LEMMA HeadRejectedType ==
  ASSUME TypeOK, writes # <<>>, HeadRejected
  PROVE  /\ mine' \in [PostIds -> LikeDoc]
         /\ writes' \in Seq(Write)
         /\ drifted' \subseteq PostIds
         /\ cloudPosts' \subseteq cloudPosts
         /\ ids' = ids /\ acked' = acked
<1>1. mine' \in [PostIds -> LikeDoc]
  BY QueueType DEF TypeOK, HeadRejected
<1>2. writes' \in Seq(Write)
  BY QueueType DEF TypeOK, HeadRejected
<1>3. drifted' \subseteq PostIds
  BY DEF TypeOK, HeadRejected, HeartsMoved
<1>. QED BY <1>1, <1>2, <1>3 DEF HeadRejected

LEMMA TypeInit == Init => TypeInv
BY DEF Init, TypeInv, TypeOK, CallsInLoop, LikeDoc, Call, Tap, IdleCall, CallAt, IdleTap,
       Steps, Loop

\* A step that moves one call to s, inside or out of the loop, keeps every call's
\* place in it.
LEMMA LoopKept ==
  ASSUME TypeInv, NEW c \in Calls, NEW s \in Steps,
         call' = [call EXCEPT ![c].at = s], tap' = tap,
         s \in Loop => call[c].at \in Loop, call[c].fresh => s \in Loop
  PROVE  call' \in [Calls -> Call] /\ CallsInLoop'
<1>1. /\ call' \in [Calls -> Call] /\ call'[c].at = s
      /\ \A d \in Calls : d # c => call'[d] = call[d]
      /\ \A d \in Calls : /\ call'[d].docs = call[d].docs
                          /\ call'[d].next = call[d].next
                          /\ call'[d].fresh = call[d].fresh
  BY CallMoves DEF TypeInv
<1>2. \A d \in Calls : call'[d].at \in Loop => call'[d].next \in DOMAIN call'[d].docs
  BY <1>1 DEF TypeInv, CallsInLoop
<1>3. \A d \in Calls : call'[d].fresh => call'[d].at \in Loop
  BY <1>1 DEF TypeInv, CallsInLoop
<1>. QED BY <1>1, <1>2, <1>3 DEF TypeInv, CallsInLoop

\* A step that starts or ends one call outside the loop does so too.
LEMMA LoopStarted ==
  ASSUME TypeInv, NEW c \in Calls, NEW s \in Steps \ Loop,
         call' = [call EXCEPT ![c] = CallAt(s)], tap' = tap
  PROVE  call' \in [Calls -> Call] /\ CallsInLoop'
<1>1. /\ call' \in [Calls -> Call] /\ call'[c].at = s /\ ~call'[c].fresh
      /\ \A d \in Calls : d # c => call'[d] = call[d]
  BY CallStarts DEF TypeInv
<1>2. \A d \in Calls : call'[d].at \in Loop => call'[d].next \in DOMAIN call'[d].docs
  BY <1>1 DEF TypeInv, CallsInLoop
<1>3. \A d \in Calls : call'[d].fresh => call'[d].at \in Loop
  BY <1>1 DEF TypeInv, CallsInLoop
<1>. QED BY <1>1, <1>2, <1>3 DEF TypeInv, CallsInLoop

\* Every step keeps the types and leaves the calls inside _postLoop at a
\* document of their answer.
LEMMA TypeStep == TypeInv /\ [Next]_vars => TypeInv'
<1> SUFFICES ASSUME TypeInv, [Next]_vars PROVE TypeInv'
  OBVIOUS
<1> USE DEF cloud, lists, notes
<1>1. ASSUME NEW c \in Loads, StartLoad(c) PROVE TypeInv'
  <2>1. c \in Calls /\ "query" \in Steps \ Loop
    BY DEF Calls, Steps, Loop
  <2>3. call' = [call EXCEPT ![c] = CallAt("query")] /\ tap' = tap
    BY <1>1 DEF StartLoad
  <2>2. call' \in [Calls -> Call] /\ CallsInLoop'
    BY <2>1, <2>3, LoopStarted
  <2>. QED
    BY <1>1, <2>2 DEF StartLoad, TypeInv, TypeOK
<1>2. ASSUME NEW c \in Uploads, NEW p \in PostIds, StartUpload(c, p) PROVE TypeInv'
  <2>1. AddWrite(p, c) \in Write
    BY DEF AddWrite, Write, Calls, LikeDoc
  <2>2. writes' \in Seq(Write)
    BY <1>2, <2>1 DEF StartUpload, TypeInv, TypeOK
  <2>3. c \in Calls /\ "adding" \in Steps \ Loop
    BY DEF Calls, Steps, Loop
  <2>5. call' = [call EXCEPT ![c] = CallAt("adding")] /\ tap' = tap
    BY <1>2 DEF StartUpload
  <2>4. call' \in [Calls -> Call] /\ CallsInLoop'
    BY <2>3, <2>5, LoopStarted
  <2>. QED
    BY <1>2, <2>2, <2>4 DEF StartUpload, TypeInv, TypeOK
<1>3. ASSUME NEW c \in Calls, QueryAnswer(c) PROVE TypeInv'
  <2>1. PICK docs \in Answers(cloudPosts) :
          call' = [d \in Calls |->
                     IF d # c THEN [call[d] EXCEPT !.fresh = FALSE]
                     ELSE IF docs = <<>> THEN IdleCall
                     ELSE [at |-> "readMine", docs |-> docs, next |-> 1, fresh |-> TRUE]]
    BY <1>3 DEF QueryAnswer
  <2>2. docs \in Seq(PostIds) /\ (docs # <<>> => 1 \in DOMAIN docs)
    BY AnswersType DEF TypeInv, TypeOK
  <2>3. call' \in [Calls -> Call]
    <3>1. ASSUME NEW d \in Calls PROVE [call[d] EXCEPT !.fresh = FALSE] \in Call
      BY DEF TypeInv, TypeOK, Call
    <3>2. [at |-> "readMine", docs |-> docs, next |-> 1, fresh |-> TRUE] \in Call
      BY <2>2 DEF Call, Steps
    <3>3. IdleCall \in Call
      BY DEF IdleCall, CallAt, Call, Steps
    <3>. QED BY <2>1, <3>1, <3>2, <3>3
  <2>4. tap' \in [Taps -> Tap]
    <3>1. tap' = [t \in Taps |-> [tap[t] EXCEPT !.fresh = FALSE]]
      BY <1>3 DEF QueryAnswer
    <3>2. ASSUME NEW t \in Taps PROVE [tap[t] EXCEPT !.fresh = FALSE] \in Tap
      BY DEF TypeInv, TypeOK, Tap
    <3>. QED BY <3>1, <3>2
  <2>5. \A d \in Calls : d # c => /\ call'[d].at = call[d].at
                                  /\ call'[d].docs = call[d].docs
                                  /\ call'[d].next = call[d].next
                                /\ ~call'[d].fresh
    BY <2>1 DEF TypeInv, TypeOK, Call
  <2>6. call'[c] = IF docs = <<>> THEN IdleCall
                   ELSE [at |-> "readMine", docs |-> docs, next |-> 1, fresh |-> TRUE]
    BY <2>1
  <2>7. \A t \in Taps : /\ tap'[t].at = tap[t].at
                        /\ tap'[t].post = tap[t].post
                        /\ ~tap'[t].fresh
    BY <1>3 DEF QueryAnswer, TypeInv, TypeOK, Tap
  <2>8. CallsInLoop'
    <3>1. \A d \in Calls : call'[d].at \in Loop => call'[d].next \in DOMAIN call'[d].docs
      BY <2>2, <2>5, <2>6 DEF TypeInv, CallsInLoop, IdleCall, CallAt, Loop
    <3>2. \A d \in Calls : call'[d].fresh => call'[d].at \in Loop
      BY <2>5, <2>6 DEF IdleCall, CallAt, Loop
    <3>. QED BY <2>7, <3>1, <3>2 DEF TypeInv, CallsInLoop
  <2>9. /\ ids' = ids /\ cloudPosts' = cloudPosts /\ mine' = mine /\ acked' = acked
        /\ writes' = writes /\ shown' = shown
    BY <1>3 DEF QueryAnswer
  <2>10. /\ posts' = <<>> /\ postId' = <<>> /\ like' = <<>> /\ likeState' = <<>>
         /\ clean' = TRUE /\ current' = FALSE /\ drifted' = {} /\ uncounted' = {}
    BY <1>3 DEF QueryAnswer, EmptyLists
  <2>11. TypeOK'
    BY <2>3, <2>4, <2>9, <2>10, EmptySeq DEF TypeInv, TypeOK
  <2>. QED
    BY <2>8, <2>11 DEF TypeInv
<1>4. ASSUME NEW c \in Calls, ReadMine(c) PROVE TypeInv'
  <2>1. Heart(Doc(c)) \in BOOLEAN
    BY DEF Heart
  <2>2. "count" \in Steps /\ "count" \in Loop /\ call[c].at \in Loop
    BY <1>4 DEF ReadMine, Steps, Loop
  <2>5. call' = [call EXCEPT ![c].at = "count"] /\ tap' = tap
    BY <1>4 DEF ReadMine
  <2>3. call' \in [Calls -> Call] /\ CallsInLoop'
    BY <2>2, <2>5, LoopKept
  <2>4. likeState' \in Seq(BOOLEAN) /\ clean' \in BOOLEAN
    BY <1>4, <2>1 DEF ReadMine, TypeInv, TypeOK, Call
  <2>. QED
    BY <1>4, <2>3, <2>4 DEF ReadMine, TypeInv, TypeOK
<1>5. ASSUME NEW c \in Calls, ReadMineMissing(c) PROVE TypeInv'
  <2>1. Doc(c) \in PostIds
    BY <1>5, DocType DEF ReadMineMissing, Loop
  <2>2. LikeWrite(Doc(c), "no", c) \in Write
    BY <2>1 DEF LikeWrite, Write, LikeDoc
  <2>3. writes' \in Seq(Write)
    BY <1>5, <2>2 DEF ReadMineMissing, TypeInv, TypeOK
  <2>4. mine' \in [PostIds -> LikeDoc]
    BY <1>5, <2>1 DEF ReadMineMissing, TypeInv, TypeOK, LikeDoc
  <2>5. "setMine" \in Steps /\ "setMine" \in Loop /\ call[c].at \in Loop
    BY <1>5 DEF ReadMineMissing, Steps, Loop
  <2>7. call' = [call EXCEPT ![c].at = "setMine"] /\ tap' = tap
    BY <1>5 DEF ReadMineMissing
  <2>6. call' \in [Calls -> Call] /\ CallsInLoop'
    BY <2>5, <2>7, LoopKept
  <2>. QED
    BY <1>5, <2>3, <2>4, <2>6 DEF ReadMineMissing, TypeInv, TypeOK
<1>6. ASSUME NEW c \in Calls, SetMineAcked(c) PROVE TypeInv'
  <2>1. "count" \in Steps /\ "count" \in Loop /\ call[c].at \in Loop
    BY <1>6 DEF SetMineAcked, Steps, Loop
  <2>5. call' = [call EXCEPT ![c].at = "count"] /\ tap' = tap
    BY <1>6 DEF SetMineAcked
  <2>2. call' \in [Calls -> Call] /\ CallsInLoop'
    BY <2>1, <2>5, LoopKept
  <2>3. likeState' \in Seq(BOOLEAN) /\ clean' \in BOOLEAN
    BY <1>6 DEF SetMineAcked, TypeInv, TypeOK, Call
  <2>4. /\ acked' \in [PostIds -> LikeDoc] /\ ids' = ids /\ cloudPosts' = cloudPosts
        /\ writes' \in Seq(Write)
    BY <1>6, HeadAckedType, QueueType DEF SetMineAcked, Awaited, TypeInv
  <2>. QED
    BY <1>6, <2>2, <2>3, <2>4 DEF SetMineAcked, TypeInv, TypeOK
<1>7. ASSUME NEW c \in Calls, CountAnswer(c) PROVE TypeInv'
  <2>1. Doc(c) \in PostIds /\ Heart(Doc(c)) \in BOOLEAN
    BY <1>7, DocType DEF CountAnswer, Loop, Heart
  <2>2. postId' \in Seq(PostIds) /\ posts' \in Seq(PostIds) /\ like' \in Seq(Count)
    BY <1>7, <2>1 DEF CountAnswer, AddId, TypeInv, TypeOK, Count
  <2>3. call[c] \in Call /\ call[c].next \in DOMAIN call[c].docs
    BY <1>7 DEF CountAnswer, TypeInv, TypeOK, CallsInLoop, Loop
  <2>4. call' = [call EXCEPT ![c] = NextDoc(call[c])]
    BY <1>7 DEF CountAnswer
  <2>5. /\ NextDoc(call[c]) \in Call
        /\ NextDoc(call[c]).at \in Loop =>
             NextDoc(call[c]).next \in DOMAIN NextDoc(call[c]).docs
        /\ NextDoc(call[c]).fresh => NextDoc(call[c]).at \in Loop
    BY <1>7, NextDocType DEF CountAnswer, TypeInv, TypeOK, Loop
  <2>7. call' \in [Calls -> Call]
    BY <2>4, <2>5 DEF TypeInv, TypeOK
  <2>8. CallsInLoop'
    BY <1>7, <2>4, <2>5 DEF CountAnswer, TypeInv, TypeOK, CallsInLoop
  <2>9. clean' \in BOOLEAN
    BY <1>7, <2>3 DEF CountAnswer, TypeInv, TypeOK, Call
  <2>. QED
    BY <1>7, <2>2, <2>7, <2>8, <2>9 DEF CountAnswer, TypeInv, TypeOK
<1>8. ASSUME NEW c \in Calls, ReadFails(c) PROVE TypeInv'
  <2>1. "idle" \in Steps \ Loop
    BY DEF Steps, Loop
  <2>2. call' = [call EXCEPT ![c] = CallAt("idle")] /\ tap' = tap
    BY <1>8 DEF ReadFails, IdleCall
  <2>3. call' \in [Calls -> Call] /\ CallsInLoop'
    BY <2>1, <2>2, LoopStarted
  <2>. QED
    BY <1>8, <2>3 DEF ReadFails, TypeInv, TypeOK
<1>9. ASSUME NEW c \in Calls, AddAcked(c) PROVE TypeInv'
  <2>1. Head(writes).post \in PostIds /\ Tail(writes) \in Seq(Write)
    BY <1>9, QueueType DEF AddAcked, Awaited, TypeInv
  <2>2. LikeWrite(Head(writes).post, "no", c) \in Write
    BY <2>1 DEF LikeWrite, Write, LikeDoc
  <2>3. writes' \in Seq(Write) /\ mine' \in [PostIds -> LikeDoc]
    BY <1>9, <2>1, <2>2 DEF AddAcked, TypeInv, TypeOK, LikeDoc
  <2>4. drifted' \subseteq PostIds
    BY <1>9 DEF AddAcked, HeartsMoved, TypeInv, TypeOK
  <2>5. acked' \in [PostIds -> LikeDoc] /\ ids' = ids /\ cloudPosts' = cloudPosts
    BY <1>9, HeadAckedType DEF AddAcked, Awaited, TypeInv
  <2>6. call' \in [Calls -> Call] /\ CallsInLoop'
    <3>1. "seeding" \in Steps /\ "seeding" \notin Loop
      BY DEF Steps, Loop
    <3>2. ~call[c].fresh
      BY <1>9 DEF AddAcked, TypeInv, CallsInLoop, Loop
    <3>3. call' = [call EXCEPT ![c].at = "seeding"] /\ tap' = tap
      BY <1>9 DEF AddAcked
    <3>. QED BY <3>1, <3>2, <3>3, LoopKept
  <2>. QED
    BY <1>9, <2>3, <2>4, <2>5, <2>6 DEF AddAcked, TypeInv, TypeOK
<1>10. ASSUME NEW c \in Calls, SeedAcked(c) PROVE TypeInv'
  <2>1. "query" \in Steps /\ "query" \notin Loop
    BY DEF Steps, Loop
  <2>2. ~call[c].fresh
    BY <1>10 DEF SeedAcked, TypeInv, CallsInLoop, Loop
  <2>5. call' = [call EXCEPT ![c].at = "query"] /\ tap' = tap
    BY <1>10 DEF SeedAcked
  <2>4. call' \in [Calls -> Call] /\ CallsInLoop'
    BY <2>1, <2>2, <2>5, LoopKept
  <2>3. /\ acked' \in [PostIds -> LikeDoc] /\ ids' = ids /\ cloudPosts' = cloudPosts
        /\ writes' \in Seq(Write)
    BY <1>10, HeadAckedType, QueueType DEF SeedAcked, Awaited, TypeInv
  <2>. QED
    BY <1>10, <2>3, <2>4 DEF SeedAcked, TypeInv, TypeOK
<1>11. ASSUME NEW c \in Calls, WriteFails(c) PROVE TypeInv'
  <2>1. "idle" \in Steps \ Loop
    BY DEF Steps, Loop
  <2>2. call' = [call EXCEPT ![c] = CallAt("idle")] /\ tap' = tap
    BY <1>11 DEF WriteFails, IdleCall
  <2>3. call' \in [Calls -> Call] /\ CallsInLoop'
    BY <2>1, <2>2, LoopStarted
  <2>4. /\ mine' \in [PostIds -> LikeDoc] /\ writes' \in Seq(Write)
        /\ drifted' \subseteq PostIds /\ cloudPosts' \subseteq cloudPosts
        /\ ids' = ids /\ acked' = acked
    BY <1>11, HeadRejectedType DEF WriteFails, Awaited, TypeInv
  <2>. QED
    BY <1>11, <2>3, <2>4 DEF WriteFails, TypeInv, TypeOK
<1>12. ASSUME NEW t \in Taps, NEW i \in DOMAIN shown, LikePost(t, i) PROVE TypeInv'
  <2>1. i \in Nat /\ postId[i] \in PostIds /\ Toggled(i) \in {"yes", "no"}
    BY <1>12 DEF LikePost, Toggled, TypeInv, TypeOK
  <2>2. LikeWrite(postId[i], Toggled(i), t) \in Write
    BY <2>1 DEF LikeWrite, Write, LikeDoc
  <2>3. writes' \in Seq(Write) /\ mine' \in [PostIds -> LikeDoc]
    BY <1>12, <2>1, <2>2 DEF LikePost, TypeInv, TypeOK, LikeDoc
  <2>4. likeState' \in Seq(BOOLEAN)
    BY <1>12 DEF LikePost, TypeInv, TypeOK
  <2>5. tap' \in [Taps -> Tap]
    BY <1>12, <2>1 DEF LikePost, TypeInv, TypeOK, Tap
  <2>6. CallsInLoop'
    BY <1>12, <2>1 DEF LikePost, TypeInv, TypeOK, CallsInLoop
  <2>. QED
    BY <1>12, <2>3, <2>4, <2>5, <2>6 DEF LikePost, TypeInv, TypeOK
<1>13. ASSUME NEW t \in Taps, LikeSaved(t) PROVE TypeInv'
  <2>1. tap' \in [Taps -> Tap] /\ CallsInLoop'
    BY <1>13, TapMoves DEF LikeSaved, TypeInv, CallsInLoop
  <2>2. /\ acked' \in [PostIds -> LikeDoc] /\ ids' = ids /\ cloudPosts' = cloudPosts
        /\ writes' \in Seq(Write)
    BY <1>13, HeadAckedType, QueueType DEF LikeSaved, Awaited, TypeInv
  <2>. QED
    BY <1>13, <2>1, <2>2 DEF LikeSaved, TypeInv, TypeOK
<1>14. ASSUME NEW t \in Taps, LikeNotSaved(t) PROVE TypeInv'
  <2>1. tap' \in [Taps -> Tap] /\ CallsInLoop'
    BY <1>14, TapMoves DEF LikeNotSaved, TypeInv, CallsInLoop
  <2>. QED
    BY <1>14, <2>1, HeadRejectedType DEF LikeNotSaved, Awaited, TypeInv, TypeOK
<1>15. ASSUME NEW t \in Taps, LikesCounted(t) PROVE TypeInv'
  <2>1. tap[t].post \in PostIds /\ Heart(tap[t].post) \in BOOLEAN
    BY <1>15 DEF LikesCounted, TypeInv, CallsInLoop, Heart
  <2>2. [post |-> tap[t].post, mine |-> Heart(tap[t].post)] \in Count
    BY <2>1 DEF Count
  <2>3. like' \in Seq(Count)
    <3>1. CASE tap[t].index \in DOMAIN like
      <4>1. like' = [like EXCEPT ![tap[t].index] =
                       [post |-> tap[t].post, mine |-> Heart(tap[t].post)]]
        BY <1>15, <3>1 DEF LikesCounted
      <4>. QED BY <2>2, <3>1, <4>1 DEF TypeInv, TypeOK
    <3>2. CASE tap[t].index \notin DOMAIN like
      BY <1>15, <3>2 DEF LikesCounted, TypeInv, TypeOK
    <3>. QED BY <3>1, <3>2
  <2>4. clean' \in BOOLEAN
    BY <1>15 DEF LikesCounted, TypeInv, TypeOK, Tap
  <2>. QED
    BY <1>15, <2>3, <2>4 DEF LikesCounted, TypeInv, TypeOK, CallsInLoop, Tap, IdleTap
<1>16. ASSUME NEW t \in Taps, LikesNotCounted(t) PROVE TypeInv'
  <2>1. tap[t].post \in PostIds
    BY <1>16 DEF LikesNotCounted, TypeInv, CallsInLoop
  <2>. QED
    BY <1>16, <2>1 DEF LikesNotCounted, TypeInv, TypeOK, CallsInLoop, Tap, IdleTap
<1>17. CASE OrphanAcked
  BY <1>17, QueueType, HeadAckedType DEF OrphanAcked, Awaited, TypeInv, TypeOK, CallsInLoop
<1>18. CASE OrphanRejected
  BY <1>18, HeadRejectedType DEF OrphanRejected, Awaited, TypeInv, TypeOK, CallsInLoop
<1>19. CASE Build
  BY <1>19 DEF Build, TypeInv, TypeOK, CallsInLoop
<1>20. ASSUME NEW p \in PostIds, OthersPost(p) PROVE TypeInv'
  BY <1>20 DEF OthersPost, TypeInv, TypeOK, CallsInLoop
<1>21. CASE Restart
  <2>1. writes' \in Seq(Write)
    <3>1. writes' = [k \in 1..Len(writes) |-> [writes[k] EXCEPT !.by = Nil]]
      BY <1>21 DEF Restart, TypeInv, TypeOK
    <3>2. ASSUME NEW w \in Write PROVE [w EXCEPT !.by = Nil] \in Write
      BY DEF Write
    <3>3. Len(writes) \in Nat /\ \A k \in 1..Len(writes) : writes[k] \in Write
      BY DEF TypeInv, TypeOK
    <3>4. \A k \in 1..Len(writes) : [writes[k] EXCEPT !.by = Nil] \in Write
      BY <3>2, <3>3
    <3>5. writes' \in [1..Len(writes) -> Write]
      BY <3>1, <3>4
    <3>. QED BY <3>3, <3>5
  <2>2. call' \in [Calls -> Call] /\ tap' \in [Taps -> Tap] /\ CallsInLoop'
    BY <1>21 DEF Restart, CallsInLoop, Call, Tap, IdleCall, CallAt, IdleTap, Steps, Loop
  <2>. QED
    BY <1>21, <2>1, <2>2 DEF Restart, EmptyLists, TypeInv, TypeOK
<1>22. CASE UNCHANGED vars
  BY <1>22 DEF vars, TypeInv, TypeOK, CallsInLoop
<1>. QED
  BY <1>1, <1>2, <1>3, <1>4, <1>5, <1>6, <1>7, <1>8, <1>9, <1>10, <1>11, <1>12,
     <1>13, <1>14, <1>15, <1>16, <1>17, <1>18, <1>19, <1>20, <1>21, <1>22
     DEF Next, CallAnswered, TapAnswered, WriteAnswered

LEMMA TypeAlways == Spec => []TypeInv
<1>1. Init => TypeInv
  BY TypeInit
<1>2. TypeInv /\ [Next]_vars => TypeInv'
  BY TypeStep
<1>. QED BY <1>1, <1>2, PTL DEF Spec

\* The lists, the queue and the parked calls of the cubit always hold what the
\* code declares them to hold.
THEOREM TypeCorrect == Spec => []TypeOK
BY TypeAlways, PTL DEF TypeInv

-----------------------------------------------------------------------------
(* The rows.                                                               *)

\* The step puts nothing into the lists or on display, lets no call or tap
\* become fresh, and moves no fresh call to or from the count.
QuietCalls ==
  \A c \in Calls : call'[c].fresh =>
    /\ call[c].fresh
    /\ call'[c].next = call[c].next /\ call'[c].docs = call[c].docs
    /\ (call'[c].at = "count") <=> (call[c].at = "count")

QuietTaps ==
  \A t \in Taps : tap'[t].fresh =>
    tap[t].fresh /\ tap'[t].post = tap[t].post /\ tap'[t].index = tap[t].index

QuietStep ==
  /\ UNCHANGED <<posts, postId, like, likeState, shown, clean, current>>
  /\ QuietCalls /\ QuietTaps

\* The actions that are quiet.
Quiet ==
  \/ \E c \in Loads : StartLoad(c)
  \/ \E c \in Uploads, p \in PostIds : StartUpload(c, p)
  \/ \E c \in Calls : ReadMineMissing(c) \/ ReadFails(c) \/ AddAcked(c) \/ SeedAcked(c)
                     \/ WriteFails(c)
  \/ \E t \in Taps : LikeSaved(t) \/ LikeNotSaved(t) \/ LikesNotCounted(t)
  \/ OrphanAcked \/ OrphanRejected
  \/ \E p \in PostIds : OthersPost(p)
  \/ UNCHANGED vars

LEMMA QuietIsQuiet ==
  ASSUME TypeInv, Quiet
  PROVE  QuietStep
<1> USE DEF cloud, lists, notes
<1>1. ASSUME NEW c \in Loads, StartLoad(c) PROVE QuietStep
  <2>1. c \in Calls /\ "query" \in Steps
    BY DEF Calls, Steps
  <2>. QED
    BY <1>1, <2>1, CallStarts DEF StartLoad, TypeInv, QuietStep, QuietCalls, QuietTaps
<1>2. ASSUME NEW c \in Uploads, NEW p \in PostIds, StartUpload(c, p) PROVE QuietStep
  <2>1. c \in Calls /\ "adding" \in Steps
    BY DEF Calls, Steps
  <2>. QED
    BY <1>2, <2>1, CallStarts DEF StartUpload, TypeInv, QuietStep, QuietCalls, QuietTaps
<1>3. ASSUME NEW c \in Calls, ReadMineMissing(c) PROVE QuietStep
  <2>1. "setMine" \in Steps
    BY DEF Steps
  <2>. QED
    BY <1>3, <2>1, CallMoves DEF ReadMineMissing, TypeInv, QuietStep, QuietCalls, QuietTaps
<1>4. ASSUME NEW c \in Calls, ReadFails(c) PROVE QuietStep
  BY <1>4, CallEndsHere DEF ReadFails, TypeInv, QuietStep, QuietCalls, QuietTaps
<1>5. ASSUME NEW c \in Calls, AddAcked(c) PROVE QuietStep
  <2>1. "seeding" \in Steps
    BY DEF Steps
  <2>. QED
    BY <1>5, <2>1, CallMoves DEF AddAcked, TypeInv, QuietStep, QuietCalls, QuietTaps
<1>6. ASSUME NEW c \in Calls, SeedAcked(c) PROVE QuietStep
  <2>1. "query" \in Steps
    BY DEF Steps
  <2>. QED
    BY <1>6, <2>1, CallMoves DEF SeedAcked, TypeInv, QuietStep, QuietCalls, QuietTaps
<1>7. ASSUME NEW c \in Calls, WriteFails(c) PROVE QuietStep
  BY <1>7, CallEndsHere DEF WriteFails, TypeInv, QuietStep, QuietCalls, QuietTaps
<1>8. ASSUME NEW t \in Taps, LikeSaved(t) PROVE QuietStep
  BY <1>8, TapMoves DEF LikeSaved, TypeInv, QuietStep, QuietCalls, QuietTaps
<1>9. ASSUME NEW t \in Taps, LikeNotSaved(t) PROVE QuietStep
  BY <1>9, TapMoves DEF LikeNotSaved, TypeInv, QuietStep, QuietCalls, QuietTaps
<1>10. ASSUME NEW t \in Taps, LikesNotCounted(t) PROVE QuietStep
  BY <1>10, TapEndsHere DEF LikesNotCounted, TypeInv, QuietStep, QuietCalls, QuietTaps
<1>11. CASE OrphanAcked
  BY <1>11 DEF OrphanAcked, QuietStep, QuietCalls, QuietTaps
<1>12. CASE OrphanRejected
  BY <1>12 DEF OrphanRejected, QuietStep, QuietCalls, QuietTaps
<1>13. ASSUME NEW p \in PostIds, OthersPost(p) PROVE QuietStep
  BY <1>13 DEF OthersPost, QuietStep, QuietCalls, QuietTaps
<1>14. CASE UNCHANGED vars
  BY <1>14 DEF vars, QuietStep, QuietCalls, QuietTaps
<1>. QED
  BY <1>1, <1>2, <1>3, <1>4, <1>5, <1>6, <1>7, <1>8, <1>9, <1>10, <1>11, <1>12, <1>13,
     <1>14 DEF Quiet

LEMMA RowsQuiet ==
  ASSUME RowsInv, QuietStep
  PROVE  RowsInv'
<1> USE DEF RowsInv, QuietStep
<1>1. OneFreshCall'
  BY DEF OneFreshCall, QuietCalls
<1>2. LoadInStep'
  BY DEF LoadInStep, QuietCalls
<1>3. RowsAligned'
  BY DEF RowsAligned
<1>4. ShownIsPrefix'
  BY DEF ShownIsPrefix
<1>5. TapsOnRows'
  BY DEF TapsOnRows, QuietTaps
<1>. QED BY <1>1, <1>2, <1>3, <1>4, <1>5

\* A reload begins: the lists are empty and its call is the only fresh one.
LEMMA RowsQueryAnswer ==
  ASSUME TypeInv, NEW c \in Calls, QueryAnswer(c)
  PROVE  RowsInv'
<1> USE DEF cloud, lists, notes
<1>1. PICK docs \in Answers(cloudPosts) :
        call' = [d \in Calls |->
                   IF d # c THEN [call[d] EXCEPT !.fresh = FALSE]
                   ELSE IF docs = <<>> THEN IdleCall
                   ELSE [at |-> "readMine", docs |-> docs, next |-> 1, fresh |-> TRUE]]
  BY DEF QueryAnswer
<1>2. \A i, j \in DOMAIN docs : i < j => docs[i] < docs[j]
  BY AnswersType DEF TypeInv, TypeOK
<1>3. \A d \in Calls : call'[d].fresh =>
        /\ d = c
        /\ call'[d].at = "readMine" /\ call'[d].docs = docs /\ call'[d].next = 1
  BY <1>1 DEF TypeInv, TypeOK, Call, IdleCall, CallAt
<1>4. \A t \in Taps : ~tap'[t].fresh
  BY DEF QueryAnswer, TypeInv, TypeOK, Tap
<1>5. posts' = <<>> /\ postId' = <<>> /\ like' = <<>> /\ likeState' = <<>>
  BY DEF QueryAnswer, EmptyLists
<1>6. current' = FALSE
  BY DEF QueryAnswer
<1>7. OneFreshCall'
  BY <1>3 DEF OneFreshCall
<1>8. LoadInStep'
  BY <1>2, <1>3, <1>5 DEF LoadInStep
<1>9. RowsAligned' /\ ShownIsPrefix' /\ TapsOnRows'
  BY <1>4, <1>5, <1>6 DEF RowsAligned, ShownIsPrefix, TapsOnRows
<1>. QED BY <1>7, <1>8, <1>9 DEF RowsInv

\* A heart is added: the call is at the count, one heart ahead of the rows.
LEMMA RowsHeartAdded ==
  ASSUME TypeInv, RowsInv, NEW c \in Calls, NEW b \in BOOLEAN,
         call[c].at \in {"readMine", "setMine"},
         likeState' = Append(likeState, b),
         call' = [call EXCEPT ![c].at = "count"],
         clean' = (clean /\ call[c].fresh),
         UNCHANGED <<posts, postId, like, shown, tap, current>>
  PROVE  RowsInv'
<1>1. /\ call'[c].at = "count"
      /\ \A d \in Calls : d # c => call'[d] = call[d]
      /\ \A d \in Calls : /\ call'[d].docs = call[d].docs
                          /\ call'[d].next = call[d].next
                          /\ call'[d].fresh = call[d].fresh
  BY CallMoves DEF TypeInv, Steps
<1>2. OneFreshCall'
  BY <1>1 DEF RowsInv, OneFreshCall
<1>3. ASSUME clean' PROVE clean /\ call[c].fresh /\ \A d \in Calls : call'[d].fresh => d = c
  BY <1>1, <1>3 DEF RowsInv, OneFreshCall
<1>4. ASSUME clean'
      PROVE  Len(likeState) = Len(posts) /\ Len(likeState') = Len(posts) + 1
  BY <1>3, <1>4 DEF RowsInv, LoadInStep, TypeInv, TypeOK
<1>5. LoadInStep'
  BY <1>1, <1>3, <1>4 DEF RowsInv, LoadInStep
<1>6. RowsAligned'
  BY <1>3, <1>4 DEF RowsInv, RowsAligned
<1>7. ShownIsPrefix' /\ TapsOnRows'
  BY <1>3 DEF RowsInv, ShownIsPrefix, TapsOnRows
<1>. QED BY <1>2, <1>5, <1>6, <1>7 DEF RowsInv

\* A row is completed: the document's id is larger than every id before it, so
\* postId really grows, and the four lists are of one length again.
LEMMA RowsCountAnswer ==
  ASSUME TypeInv, RowsInv, NEW c \in Calls, CountAnswer(c)
  PROVE  RowsInv'
<1> USE DEF cloud, lists, notes
<1>1. call[c].at \in Loop
  BY DEF CountAnswer, Loop
<1>2. /\ call' = [call EXCEPT ![c] = NextDoc(call[c])]
      /\ call'[c] = NextDoc(call[c])
      /\ \A d \in Calls : d # c => call'[d] = call[d]
  BY DEF CountAnswer, TypeInv, TypeOK
<1>3. /\ call'[c].fresh => call'[c] # IdleCall
      /\ call'[c] # IdleCall =>
           /\ call'[c].at = "readMine" /\ call'[c].next = call[c].next + 1
           /\ call'[c].docs = call[c].docs /\ call'[c].fresh = call[c].fresh
  BY <1>1, <1>2, NextDocType DEF IdleCall, CallAt
<1>4. OneFreshCall'
  BY <1>2, <1>3 DEF RowsInv, OneFreshCall
<1>5. CASE ~clean'
  BY <1>4, <1>5 DEF RowsInv, LoadInStep, RowsAligned, ShownIsPrefix, TapsOnRows
<1>6. CASE clean'
  <2>1. clean /\ call[c].fresh /\ \A d \in Calls : call'[d].fresh => d = c
    BY <1>2, <1>6 DEF CountAnswer, RowsInv, OneFreshCall
  <2>2. /\ call[c].next = Len(posts) + 1
        /\ \A i \in DOMAIN posts : posts[i] = call[c].docs[i]
        /\ \A i, j \in DOMAIN call[c].docs : i < j => call[c].docs[i] < call[c].docs[j]
        /\ Len(likeState) = Len(posts) + 1
    BY <2>1 DEF RowsInv, LoadInStep, CountAnswer
  <2>3. call[c].docs \in Seq(PostIds) /\ Len(posts) + 1 \in 1..Len(call[c].docs)
    BY <1>1, <2>2 DEF TypeInv, TypeOK, CallsInLoop, Call
  <2>4. /\ Doc(c) = call[c].docs[Len(posts) + 1]
        /\ Doc(c) \in PostIds
        /\ \A i \in DOMAIN posts : posts[i] < Doc(c)
    <3>1. Doc(c) = call[c].docs[Len(posts) + 1] /\ Doc(c) \in PostIds
      BY <1>1, <2>2, DocType DEF Doc
    <3>2. ASSUME NEW i \in DOMAIN posts PROVE posts[i] < Doc(c)
      <4>1. i \in 1..Len(posts)
        BY DEF TypeInv, TypeOK
      <4>2. /\ i \in DOMAIN call[c].docs /\ i < Len(posts) + 1
            /\ Len(posts) + 1 \in DOMAIN call[c].docs
        BY <2>3, <4>1
      <4>. QED BY <2>2, <3>1, <4>2
    <3>. QED BY <3>1, <3>2
  <2>5. posts \in Seq(PostIds) /\ postId = posts /\ posts' = Append(posts, Doc(c))
    BY <2>1 DEF CountAnswer, RowsInv, RowsAligned, TypeInv, TypeOK
  <2>6. \A i \in DOMAIN posts : posts[i] # Doc(c)
    <3>1. \A i \in DOMAIN posts : posts[i] \in PostIds
      BY DEF TypeInv, TypeOK
    <3>2. \A p \in PostIds : p \in Nat
      BY PostIdsAssumption
    <3>. QED BY <2>4, <3>1, <3>2
  <2>7. postId' = posts'
    BY <2>5, <2>6 DEF CountAnswer, AddId
  <2>8. /\ Len(posts') = Len(posts) + 1
        /\ \A i \in DOMAIN posts : posts'[i] = posts[i]
        /\ posts'[Len(posts) + 1] = Doc(c)
    BY <2>4, <2>5
  <2>9. \A i, j \in DOMAIN posts' : i < j => posts'[i] < posts'[j]
    BY <2>1, <2>4, <2>5, <2>8 DEF RowsInv, RowsAligned
  <2>10. /\ Len(like) = Len(posts) /\ like \in Seq(Count)
         /\ like' = Append(like, [post |-> Doc(c), mine |-> Heart(Doc(c))])
    BY <2>1, <2>5 DEF CountAnswer, RowsInv, RowsAligned, TypeInv, TypeOK
  <2>11. [post |-> Doc(c), mine |-> Heart(Doc(c))] \in Count
    BY <2>4 DEF Count, Heart
  <2>12. DOMAIN like' = DOMAIN posts' /\ \A i \in DOMAIN posts' : like'[i].post = posts'[i]
    BY <2>1, <2>4, <2>5, <2>8, <2>10, <2>11 DEF RowsInv, RowsAligned
  <2>13. likeState' = likeState
    BY DEF CountAnswer
  <2>14. RowsAligned'
    BY <2>2, <2>5, <2>7, <2>8, <2>9, <2>12, <2>13 DEF RowsAligned
  <2>15. LoadInStep'
    <3> SUFFICES ASSUME call'[c].fresh
                 PROVE  /\ call'[c].next = Len(posts') + 1
                        /\ \A i \in DOMAIN posts' : posts'[i] = call'[c].docs[i]
                        /\ call'[c].docs = call[c].docs
                        /\ Len(likeState') = Len(posts') /\ call'[c].at # "count"
      BY <2>1, <2>2 DEF LoadInStep
    <3>1. /\ call'[c].at = "readMine" /\ call'[c].next = call[c].next + 1
          /\ call'[c].docs = call[c].docs
      BY <1>3
    <3>2. ASSUME NEW i \in DOMAIN posts' PROVE posts'[i] = call[c].docs[i]
      <4>1. i \in DOMAIN posts \/ i = Len(posts) + 1
        BY <2>4, <2>5, <2>8
      <4>. QED BY <2>2, <2>4, <2>8, <4>1
    <3>. QED BY <2>2, <2>8, <2>13, <3>1, <3>2
  <2>16. ShownIsPrefix' /\ TapsOnRows'
    BY <2>1, <2>5, <2>8 DEF CountAnswer, RowsInv, ShownIsPrefix, TapsOnRows, TypeInv, TypeOK
  <2>. QED BY <1>4, <2>14, <2>15, <2>16 DEF RowsInv
<1>. QED BY <1>5, <1>6 DEF CountAnswer, TypeInv, TypeOK

\* A tap turns one heart over and remembers the row and its post.
LEMMA RowsLikePost ==
  ASSUME TypeInv, RowsInv, NEW t \in Taps, NEW i \in DOMAIN shown, LikePost(t, i)
  PROVE  RowsInv'
<1> USE DEF cloud, lists, notes
<1>1. /\ UNCHANGED <<posts, postId, like, shown, call, clean, current>>
      /\ i \in DOMAIN postId
  BY DEF LikePost
<1>2. Len(likeState') = Len(likeState)
  BY DEF LikePost, TypeInv, TypeOK
<1>3. /\ tap'[t].post = postId[i] /\ tap'[t].index = i
      /\ \A u \in Taps : u # t => tap'[u] = tap[u]
  BY DEF LikePost, TypeInv, TypeOK
<1>4. OneFreshCall' /\ LoadInStep'
  BY <1>1, <1>2 DEF RowsInv, OneFreshCall, LoadInStep
<1>5. RowsAligned' /\ ShownIsPrefix'
  BY <1>1, <1>2 DEF RowsInv, RowsAligned, ShownIsPrefix
<1>6. TapsOnRows'
  BY <1>1, <1>3 DEF RowsInv, RowsAligned, TapsOnRows
<1>. QED BY <1>4, <1>5, <1>6 DEF RowsInv

\* A recount goes to the row of its post, unless it is of an earlier feed.
LEMMA RowsLikesCounted ==
  ASSUME TypeInv, RowsInv, NEW t \in Taps, LikesCounted(t)
  PROVE  RowsInv'
<1> USE DEF cloud, lists, notes
<1>1. UNCHANGED <<posts, postId, likeState, shown, call, current>>
  BY DEF LikesCounted
<1>2. ~tap'[t].fresh /\ \A u \in Taps : u # t => tap'[u] = tap[u]
  BY TapEndsHere DEF LikesCounted, TypeInv
<1>3. clean' => clean
  BY DEF LikesCounted
<1>4. OneFreshCall' /\ LoadInStep' /\ ShownIsPrefix' /\ TapsOnRows'
  BY <1>1, <1>2, <1>3 DEF RowsInv, OneFreshCall, LoadInStep, ShownIsPrefix, TapsOnRows
<1>5. ASSUME tap[t].index \notin DOMAIN like PROVE RowsAligned'
  BY <1>1, <1>3, <1>5 DEF LikesCounted, RowsInv, RowsAligned
<1>6. ASSUME tap[t].index \in DOMAIN like PROVE RowsAligned'
  <2>1. clean' => tap[t].fresh
    BY <1>6 DEF LikesCounted
  <2>2. like' = [like EXCEPT ![tap[t].index] =
                   [post |-> tap[t].post, mine |-> Heart(tap[t].post)]]
    BY <1>6 DEF LikesCounted
  <2>3. DOMAIN like' = DOMAIN like
    BY <2>2
  <2>4. clean' => \A i \in DOMAIN like : like'[i].post = posts[i]
    BY <1>3, <1>6, <2>1, <2>2 DEF RowsInv, RowsAligned, TapsOnRows, TypeInv, TypeOK
  <2>. QED BY <1>1, <1>3, <2>3, <2>4 DEF RowsInv, RowsAligned
<1>7. RowsAligned'
  BY <1>5, <1>6
<1>. QED BY <1>4, <1>7 DEF RowsInv

LEMMA RowsStep == TypeInv /\ RowsInv /\ [Next]_vars => RowsInv'
<1> SUFFICES ASSUME TypeInv, RowsInv, [Next]_vars PROVE RowsInv'
  OBVIOUS
<1> USE DEF cloud, lists, notes
<1>1. CASE Quiet
  BY <1>1, QuietIsQuiet, RowsQuiet
<1>2. ASSUME NEW c \in Calls, ReadMine(c) PROVE RowsInv'
  <2>1. Heart(Doc(c)) \in BOOLEAN
    BY DEF Heart
  <2>. QED BY <1>2, <2>1, RowsHeartAdded DEF ReadMine
<1>3. ASSUME NEW c \in Calls, SetMineAcked(c) PROVE RowsInv'
  BY <1>3, RowsHeartAdded DEF SetMineAcked
<1>4. CASE Build
  BY <1>4 DEF Build, RowsInv, OneFreshCall, LoadInStep, RowsAligned, ShownIsPrefix, TapsOnRows
<1>5. CASE Restart
  <2>1. /\ posts' = <<>> /\ postId' = <<>> /\ like' = <<>> /\ likeState' = <<>>
        /\ shown' = <<>>
        /\ \A c \in Calls : ~call'[c].fresh
        /\ \A t \in Taps : ~tap'[t].fresh
    BY <1>5 DEF Restart, EmptyLists, IdleCall, CallAt, IdleTap
  <2>. QED
    BY <2>1 DEF RowsInv, OneFreshCall, LoadInStep, RowsAligned, ShownIsPrefix, TapsOnRows
<1>. QED
  BY <1>1, <1>2, <1>3, <1>4, <1>5, RowsQueryAnswer, RowsCountAnswer, RowsLikePost,
     RowsLikesCounted DEF Next, Quiet, CallAnswered, TapAnswered, WriteAnswered

LEMMA RowsAlways == Spec => [](TypeInv /\ RowsInv)
<1>1. Init => RowsInv
  BY DEF Init, RowsInv, OneFreshCall, LoadInStep, RowsAligned, ShownIsPrefix, TapsOnRows,
         IdleCall, CallAt, IdleTap
<1>2. TypeInv /\ RowsInv /\ [Next]_vars => RowsInv'
  BY RowsStep
<1>. QED BY <1>1, <1>2, TypeAlways, PTL DEF Spec

\* While no older call has written into them, the four lists the rows are drawn
\* from describe the same post at every index.
THEOREM RowsStayAligned == Spec => []RowsAligned
BY RowsAlways, PTL DEF RowsInv

\* A tap on a row drawn since the last reload acts on the post the row shows,
\* also while a reload is filling the lists behind it.
THEOREM TapsHitShownPosts == Spec => []TapHitsShownPost
<1>1. TypeInv /\ RowsInv => TapHitsShownPost
  <2> SUFFICES ASSUME TypeInv, RowsInv, clean, current, NEW i \in DOMAIN shown
               PROVE  i \in DOMAIN postId /\ i \in DOMAIN likeState /\ postId[i] = shown[i]
    BY DEF TapHitsShownPost
  <2>1. i \in DOMAIN posts /\ shown[i] = posts[i]
    BY DEF RowsInv, ShownIsPrefix
  <2>2. postId = posts /\ Len(likeState) \in {Len(posts), Len(posts) + 1}
    BY DEF RowsInv, RowsAligned
  <2>3. i \in DOMAIN likeState
    BY <2>1, <2>2 DEF TypeInv, TypeOK
  <2>. QED BY <2>1, <2>2, <2>3
<1>. QED BY <1>1, RowsAlways, PTL

-----------------------------------------------------------------------------
(* The hearts.                                                             *)

\* The step leaves each heart of the cloud as it is, or notes that it drifted,
\* and brings a call to its {'like': false} only where that is written.
QuietHearts ==
  /\ drifted \subseteq drifted'
  /\ \A p \in PostIds : p \in drifted' \/ (mine'[p] = "yes") = (mine[p] = "yes")
  /\ \A c \in Calls : call'[c].fresh /\ call'[c].at = "setMine" =>
       call[c].at = "setMine" \/ mine'[Doc(c)] = "no"

LEMMA RejectedHearts ==
  ASSUME TypeOK, HeadRejected
  PROVE  /\ drifted \subseteq drifted'
         /\ \A p \in PostIds : p \in drifted' \/ (mine'[p] = "yes") = (mine[p] = "yes")
BY DEF HeadRejected, HeartsMoved, Heart

LEMMA QuietKeepsHearts ==
  ASSUME TypeInv, Quiet
  PROVE  QuietHearts
<1> USE DEF cloud, lists, notes
<1>1. ASSUME NEW c \in Loads, StartLoad(c) PROVE QuietHearts
  <2>1. c \in Calls /\ "query" \in Steps
    BY DEF Calls, Steps
  <2>. QED
    BY <1>1, <2>1, CallStarts DEF StartLoad, TypeInv, QuietHearts
<1>2. ASSUME NEW c \in Uploads, NEW p \in PostIds, StartUpload(c, p) PROVE QuietHearts
  <2>1. c \in Calls /\ "adding" \in Steps
    BY DEF Calls, Steps
  <2>. QED
    BY <1>2, <2>1, CallStarts DEF StartUpload, TypeInv, QuietHearts
<1>3. ASSUME NEW c \in Calls, ReadMineMissing(c) PROVE QuietHearts
  <2>1. Doc(c) \in PostIds
    BY <1>3, DocType DEF ReadMineMissing, Loop
  <2>2. mine'[Doc(c)] = "no" /\ \A p \in PostIds : p # Doc(c) => mine'[p] = mine[p]
    BY <1>3, <2>1 DEF ReadMineMissing, TypeInv, TypeOK
  <2>3. mine[Doc(c)] = "none"
    BY <1>3 DEF ReadMineMissing, Missing
  <2>4. \A d \in Calls : d # c => call'[d] = call[d]
    BY <1>3 DEF ReadMineMissing, TypeInv, TypeOK
  <2>5. drifted' = drifted
    BY <1>3 DEF ReadMineMissing
  <2>. QED BY <2>2, <2>3, <2>4, <2>5 DEF QuietHearts
<1>4. ASSUME NEW c \in Calls, ReadFails(c) PROVE QuietHearts
  BY <1>4, CallEndsHere DEF ReadFails, TypeInv, QuietHearts
<1>5. ASSUME NEW c \in Calls, AddAcked(c) PROVE QuietHearts
  <2>1. "seeding" \in Steps
    BY DEF Steps
  <2>2. \A d \in Calls : call'[d].at = "setMine" => call[d].at = "setMine"
    BY <1>5, <2>1, CallMoves DEF AddAcked, TypeInv
  <2>3. drifted' = drifted \cup HeartsMoved
    BY <1>5 DEF AddAcked
  <2>. QED BY <2>2, <2>3 DEF QuietHearts, HeartsMoved, Heart
<1>6. ASSUME NEW c \in Calls, SeedAcked(c) PROVE QuietHearts
  <2>1. "query" \in Steps
    BY DEF Steps
  <2>. QED
    BY <1>6, <2>1, CallMoves DEF SeedAcked, TypeInv, QuietHearts
<1>7. ASSUME NEW c \in Calls, WriteFails(c) PROVE QuietHearts
  BY <1>7, CallEndsHere, RejectedHearts DEF WriteFails, TypeInv, QuietHearts
<1>8. ASSUME NEW t \in Taps, LikeSaved(t) PROVE QuietHearts
  BY <1>8 DEF LikeSaved, QuietHearts
<1>9. ASSUME NEW t \in Taps, LikeNotSaved(t) PROVE QuietHearts
  BY <1>9, RejectedHearts DEF LikeNotSaved, TypeInv, QuietHearts
<1>10. ASSUME NEW t \in Taps, LikesNotCounted(t) PROVE QuietHearts
  BY <1>10 DEF LikesNotCounted, QuietHearts
<1>11. CASE OrphanAcked
  BY <1>11 DEF OrphanAcked, QuietHearts
<1>12. CASE OrphanRejected
  BY <1>12, RejectedHearts DEF OrphanRejected, TypeInv, QuietHearts
<1>13. ASSUME NEW p \in PostIds, OthersPost(p) PROVE QuietHearts
  BY <1>13 DEF OthersPost, QuietHearts
<1>14. CASE UNCHANGED vars
  BY <1>14 DEF vars, QuietHearts
<1>. QED
  BY <1>1, <1>2, <1>3, <1>4, <1>5, <1>6, <1>7, <1>8, <1>9, <1>10, <1>11, <1>12, <1>13,
     <1>14 DEF Quiet

LEMMA HeartsQuiet ==
  ASSUME TypeInv, HeartInv, QuietStep, QuietHearts
  PROVE  HeartInv'
<1>1. HeartMatchesCloud'
  <2>1. \A i \in DOMAIN posts : posts[i] \in PostIds
    BY DEF TypeInv, TypeOK
  <2>. QED BY <2>1 DEF HeartInv, HeartMatchesCloud, QuietStep, QuietHearts
<1>2. LoadHeartMatches'
  <2> SUFFICES ASSUME clean', NEW c \in Calls, call'[c].fresh
               PROVE  /\ call'[c].at = "count" =>
                           \/ Doc(c)' \in drifted'
                           \/ likeState'[call'[c].next] = (mine'[Doc(c)'] = "yes")
                      /\ call'[c].at = "setMine" =>
                           Doc(c)' \in drifted' \/ mine'[Doc(c)'] # "yes"
    BY DEF LoadHeartMatches
  <2>1. /\ clean /\ call[c].fresh /\ likeState' = likeState
        /\ call'[c].next = call[c].next /\ Doc(c)' = Doc(c)
        /\ (call'[c].at = "count") <=> (call[c].at = "count")
    BY DEF QuietStep, QuietCalls, Doc
  <2>2. Doc(c) \in PostIds
    BY <2>1, DocType DEF TypeInv, CallsInLoop
  <2>. QED BY <2>1, <2>2 DEF HeartInv, LoadHeartMatches, QuietHearts
<1>. QED BY <1>1, <1>2 DEF HeartInv

LEMMA HeartsHeartAdded ==
  ASSUME TypeInv, RowsInv, HeartInv, NEW c \in Calls, NEW b \in BOOLEAN,
         call[c].at \in {"readMine", "setMine"},
         clean /\ call[c].fresh => Doc(c) \in drifted \/ b = (mine[Doc(c)] = "yes"),
         likeState' = Append(likeState, b),
         call' = [call EXCEPT ![c].at = "count"],
         clean' = (clean /\ call[c].fresh),
         UNCHANGED <<mine, posts, drifted>>
  PROVE  HeartInv'
<1>1. \A d \in Calls : /\ call'[d].docs = call[d].docs
                       /\ call'[d].next = call[d].next
                       /\ call'[d].fresh = call[d].fresh
  BY CallMoves DEF TypeInv, Steps
<1>2. SUFFICES ASSUME clean' PROVE HeartInv'
  BY DEF HeartInv, LoadHeartMatches, HeartMatchesCloud
<1>3. clean /\ call[c].fresh /\ \A d \in Calls : call'[d].fresh => d = c
  BY <1>1, <1>2 DEF RowsInv, OneFreshCall
<1>4. /\ call[c].next = Len(posts) + 1 /\ Len(likeState) = Len(posts)
      /\ likeState \in Seq(BOOLEAN)
  BY <1>3 DEF RowsInv, LoadInStep, TypeInv, TypeOK
<1>5. /\ likeState'[call[c].next] = b
      /\ \A i \in DOMAIN posts : likeState'[i] = likeState[i]
  BY <1>4 DEF TypeInv, TypeOK
<1>6. HeartMatchesCloud'
  BY <1>3, <1>5 DEF HeartInv, HeartMatchesCloud
<1>7. Doc(c)' = Doc(c) /\ call'[c].next = call[c].next /\ call'[c].at = "count"
  BY <1>1, CallMoves DEF Doc, TypeInv, Steps
<1>8. LoadHeartMatches'
  BY <1>3, <1>5, <1>7 DEF LoadHeartMatches
<1>. QED BY <1>6, <1>8 DEF HeartInv

LEMMA HeartsCountAnswer ==
  ASSUME TypeInv, RowsInv, HeartInv, NEW c \in Calls, CountAnswer(c)
  PROVE  HeartInv'
<1> USE DEF cloud, lists, notes
<1>1. SUFFICES ASSUME clean' PROVE HeartInv'
  BY DEF HeartInv, LoadHeartMatches, HeartMatchesCloud
<1>2. clean /\ call[c].fresh /\ call[c].at = "count"
  BY <1>1 DEF CountAnswer
<1>3. Doc(c) \in PostIds
  BY <1>2, DocType DEF Loop
<1>4. /\ mine' = mine /\ drifted' = drifted /\ likeState' = likeState
      /\ posts' = Append(posts, Doc(c))
      /\ call' = [call EXCEPT ![c] = NextDoc(call[c])]
  BY DEF CountAnswer
<1>5. \A d \in Calls : call'[d].fresh => call'[d].at \notin {"count", "setMine"}
  <2>1. \A d \in Calls : d # c => call'[d] = call[d]
    BY <1>4 DEF TypeInv, TypeOK
  <2>2. \A d \in Calls : d # c => ~call[d].fresh
    BY <1>2 DEF RowsInv, OneFreshCall
  <2>3. call'[c].fresh => call'[c].at = "readMine"
    <3>1. call'[c] = NextDoc(call[c])
      BY <1>4 DEF TypeInv, TypeOK
    <3>. QED BY <1>2, <3>1, NextDocType DEF IdleCall, CallAt, Loop
  <2>. QED BY <2>1, <2>2, <2>3
<1>6. LoadHeartMatches'
  BY <1>5 DEF LoadHeartMatches
<1>7. call[c].next = Len(posts) + 1
  BY <1>2 DEF RowsInv, LoadInStep
<1>8. Doc(c) \in drifted \/ likeState[Len(posts) + 1] = (mine[Doc(c)] = "yes")
  BY <1>2, <1>7 DEF HeartInv, LoadHeartMatches
<1>9. ASSUME NEW i \in DOMAIN posts'
      PROVE  posts'[i] \in drifted \/ likeState[i] = (mine[posts'[i]] = "yes")
  <2>1. posts \in Seq(PostIds)
    BY DEF TypeInv, TypeOK
  <2>2. /\ i \in DOMAIN posts \/ i = Len(posts) + 1
        /\ i \in DOMAIN posts => posts'[i] = posts[i]
        /\ i = Len(posts) + 1 => posts'[i] = Doc(c)
    BY <1>3, <1>4, <2>1
  <2>. QED BY <1>2, <1>8, <2>2 DEF HeartInv, HeartMatchesCloud
<1>10. HeartMatchesCloud'
  BY <1>4, <1>9 DEF HeartMatchesCloud
<1>. QED BY <1>6, <1>10 DEF HeartInv

\* A tap turns the heart and the cloud's like of the same post, and of no other.
LEMMA HeartsLikePost ==
  ASSUME TypeInv, RowsInv, HeartInv,
         NEW t \in Taps, NEW i \in DOMAIN shown, LikePost(t, i)
  PROVE  HeartInv'
<1> USE DEF cloud, lists, notes
<1>1. SUFFICES ASSUME clean PROVE HeartInv'
  BY DEF LikePost, HeartInv, LoadHeartMatches, HeartMatchesCloud
<1>2. /\ postId = posts /\ i \in DOMAIN posts /\ i \in DOMAIN likeState
      /\ \A j, k \in DOMAIN posts : j < k => posts[j] < posts[k]
  BY <1>1 DEF LikePost, RowsInv, RowsAligned
<1>3. /\ posts' = posts /\ call' = call /\ drifted' = drifted /\ clean' = clean
      /\ likeState' = [likeState EXCEPT ![i] = ~likeState[i]]
      /\ mine' = [mine EXCEPT ![posts[i]] = Toggled(i)]
  BY <1>2 DEF LikePost
<1>4. /\ \A j \in DOMAIN posts : posts[j] \in PostIds /\ posts[j] \in Nat /\ j \in Nat
      /\ i \in 1..Len(posts)
  <2>1. posts \in Seq(PostIds)
    BY DEF TypeInv, TypeOK
  <2>2. \A p \in PostIds : p \in Nat
    BY PostIdsAssumption
  <2>. QED BY <1>2, <2>1, <2>2
<1>5. likeState'[i] = ~likeState[i] /\ \A j \in Nat : j # i => likeState'[j] = likeState[j]
  BY <1>2, <1>3 DEF TypeInv, TypeOK
<1>6. mine'[posts[i]] = Toggled(i) /\ \A p \in PostIds : p # posts[i] => mine'[p] = mine[p]
  BY <1>2, <1>3, <1>4 DEF TypeInv, TypeOK
<1>7. likeState'[i] = (mine'[posts[i]] = "yes")
  <2>1. likeState[i] \in BOOLEAN
    BY <1>2 DEF TypeInv, TypeOK
  <2>. QED BY <1>5, <1>6, <2>1 DEF Toggled
<1>8. HeartMatchesCloud'
  <2>1. ASSUME NEW j \in DOMAIN posts, j # i PROVE posts[j] # posts[i]
    <3>1. j < i \/ i < j
      BY <1>4, <2>1
    <3>. QED BY <1>2, <1>4, <3>1
  <2>2. ASSUME NEW j \in DOMAIN posts
        PROVE  posts[j] \in drifted \/ likeState'[j] = (mine'[posts[j]] = "yes")
    <3>1. CASE j = i
      BY <1>7, <3>1
    <3>2. CASE j # i
      BY <1>1, <1>4, <1>5, <1>6, <2>1, <3>2 DEF HeartInv, HeartMatchesCloud
    <3>. QED BY <3>1, <3>2
  <2>. QED BY <1>3, <2>2 DEF HeartMatchesCloud
<1>9. LoadHeartMatches'
  <2> SUFFICES ASSUME NEW c \in Calls, call[c].fresh
               PROVE  /\ call[c].at = "count" =>
                           \/ Doc(c) \in drifted
                           \/ likeState'[call[c].next] = (mine'[Doc(c)] = "yes")
                      /\ call[c].at = "setMine" =>
                           Doc(c) \in drifted \/ mine'[Doc(c)] # "yes"
    BY <1>3 DEF LoadHeartMatches, Doc
  <2>1. /\ call[c].next = Len(posts) + 1
        /\ posts[i] = call[c].docs[i]
        /\ \A j, k \in DOMAIN call[c].docs : j < k => call[c].docs[j] < call[c].docs[k]
    BY <1>1, <1>2 DEF RowsInv, LoadInStep
  <2>2. call[c].docs \in Seq(PostIds) /\ Len(posts) + 1 \in 1..Len(call[c].docs)
    BY <2>1 DEF TypeInv, TypeOK, CallsInLoop, Call
  <2>3. /\ i \in DOMAIN call[c].docs /\ Len(posts) + 1 \in DOMAIN call[c].docs
        /\ i < Len(posts) + 1 /\ i # call[c].next /\ call[c].next \in Nat
    BY <1>4, <2>1, <2>2
  <2>4. posts[i] < Doc(c)
    BY <2>1, <2>3 DEF Doc
  <2>5. Doc(c) \in PostIds
    BY <2>1, <2>2 DEF Doc
  <2>6. Doc(c) # posts[i]
    <3>1. Doc(c) \in Nat
      BY <2>5, PostIdsAssumption
    <3>. QED BY <1>2, <1>4, <2>4, <3>1
  <2>7. likeState'[call[c].next] = likeState[call[c].next] /\ mine'[Doc(c)] = mine[Doc(c)]
    BY <1>5, <1>6, <2>3, <2>5, <2>6
  <2>. QED BY <1>1, <2>7 DEF HeartInv, LoadHeartMatches
<1>. QED BY <1>8, <1>9 DEF HeartInv

LEMMA HeartsStep == TypeInv /\ RowsInv /\ HeartInv /\ [Next]_vars => HeartInv'
<1> SUFFICES ASSUME TypeInv, RowsInv, HeartInv, [Next]_vars PROVE HeartInv'
  OBVIOUS
<1> USE DEF cloud, lists, notes
<1>1. CASE Quiet
  BY <1>1, QuietIsQuiet, QuietKeepsHearts, HeartsQuiet
<1>2. ASSUME NEW c \in Calls, ReadMine(c) PROVE HeartInv'
  <2>1. Heart(Doc(c)) \in BOOLEAN /\ Heart(Doc(c)) = (mine[Doc(c)] = "yes")
    BY DEF Heart
  <2>. QED BY <1>2, <2>1, HeartsHeartAdded DEF ReadMine
<1>3. ASSUME NEW c \in Calls, SetMineAcked(c) PROVE HeartInv'
  <2>1. clean /\ call[c].fresh => Doc(c) \in drifted \/ FALSE = (mine[Doc(c)] = "yes")
    BY <1>3 DEF SetMineAcked, HeartInv, LoadHeartMatches
  <2>. QED BY <1>3, <2>1, HeartsHeartAdded DEF SetMineAcked
<1>4. ASSUME NEW c \in Calls, QueryAnswer(c) PROVE HeartInv'
  <2>1. posts' = <<>>
    BY <1>4 DEF QueryAnswer, EmptyLists
  <2>2. \A d \in Calls : call'[d].fresh => call'[d].at = "readMine"
    BY <1>4 DEF QueryAnswer, TypeInv, TypeOK, Call, IdleCall, CallAt
  <2>. QED BY <2>1, <2>2 DEF HeartInv, LoadHeartMatches, HeartMatchesCloud
<1>5. ASSUME NEW t \in Taps, LikesCounted(t) PROVE HeartInv'
  <2>1. UNCHANGED <<mine, drifted, posts, likeState, call>> /\ (clean' => clean)
    BY <1>5 DEF LikesCounted
  <2>. QED BY <2>1 DEF HeartInv, LoadHeartMatches, HeartMatchesCloud, Doc
<1>6. CASE Build
  BY <1>6 DEF Build, HeartInv, LoadHeartMatches, HeartMatchesCloud, Doc
<1>7. CASE Restart
  <2>1. posts' = <<>> /\ \A c \in Calls : ~call'[c].fresh
    BY <1>7 DEF Restart, EmptyLists, IdleCall, CallAt
  <2>. QED BY <2>1 DEF HeartInv, LoadHeartMatches, HeartMatchesCloud
<1>. QED
  BY <1>1, <1>2, <1>3, <1>4, <1>5, <1>6, <1>7, HeartsCountAnswer, HeartsLikePost
     DEF Next, Quiet, CallAnswered, TapAnswered, WriteAnswered

LEMMA HeartsAlways == Spec => [](TypeInv /\ RowsInv /\ HeartInv)
<1>1. Init => HeartInv
  BY DEF Init, HeartInv, LoadHeartMatches, HeartMatchesCloud, IdleCall, CallAt
<1>2. TypeInv /\ RowsInv /\ HeartInv /\ [Next]_vars => HeartInv'
  BY HeartsStep
<1>. QED BY <1>1, <1>2, RowsAlways, PTL DEF Spec

\* A heart on display is filled exactly when this user's like is in the cloud,
\* in every order of reloads, taps, their answers and their failures.
THEOREM HeartsMatchTheCloud == Spec => []HeartMatchesCloud
BY HeartsAlways, PTL DEF HeartInv

-----------------------------------------------------------------------------
(* The queue and its overlay.                                              *)

\* A queued like is what the overlay shows from then on.
LEMMA OverlayAppend ==
  ASSUME NEW m \in [PostIds -> LikeDoc], NEW a \in [PostIds -> LikeDoc],
         NEW q \in Seq(Write), NEW w \in Write, w.kind = "like", Overlays(m, a, q)
  PROVE  Overlays([m EXCEPT ![w.post] = w.val], a, Append(q, w))
<1> DEFINE n == [m EXCEPT ![w.post] = w.val]
           r == Append(q, w)
<1>1. /\ DOMAIN r = 1..(Len(q) + 1) /\ DOMAIN q = 1..Len(q) /\ Len(q) \in Nat
      /\ \A k \in 1..Len(q) : r[k] = q[k] /\ q[k] \in Write
      /\ r[Len(q) + 1] = w
  OBVIOUS
<1>2. /\ w.post \in PostIds /\ n[w.post] = w.val
      /\ \A p \in PostIds : p # w.post => n[p] = m[p]
      /\ \A k \in 1..Len(q) : q[k].post \in PostIds
  BY <1>1 DEF Write
<1> HIDE DEF n, r
<1>3. ASSUME NEW p \in PostIds, \A k \in DOMAIN r : ~LikeOf(r[k], p) PROVE n[p] = a[p]
  <2>1. p # w.post
    BY <1>1, <1>3 DEF LikeOf
  <2>2. \A k \in DOMAIN q : ~LikeOf(q[k], p)
    BY <1>1, <1>3
  <2>. QED BY <1>2, <2>1, <2>2 DEF Overlays
<1>4. ASSUME NEW k \in DOMAIN r, r[k].kind = "like",
             \A j \in DOMAIN r : j > k => ~LikeOf(r[j], r[k].post)
      PROVE  n[r[k].post] = r[k].val
  <2>1. CASE k = Len(q) + 1
    BY <1>1, <1>2, <2>1
  <2>2. CASE k \in 1..Len(q)
    <3>1. r[k] = q[k] /\ q[k].post # w.post
      BY <1>1, <1>4, <2>2 DEF LikeOf
    <3>2. \A j \in DOMAIN q : j > k => ~LikeOf(q[j], q[k].post)
      BY <1>1, <1>4, <2>2
    <3>. QED BY <1>1, <1>2, <1>4, <2>2, <3>1, <3>2 DEF Overlays
  <2>. QED BY <1>1, <2>1, <2>2
<1>5. Overlays(n, a, r)
  BY <1>3, <1>4 DEF Overlays
<1>. QED BY <1>5 DEF n, r

\* A queued post leaves the overlay of the likes as it is.
LEMMA OverlayAppendAdd ==
  ASSUME NEW m \in [PostIds -> LikeDoc], NEW a \in [PostIds -> LikeDoc],
         NEW q \in Seq(Write), NEW w \in Write, w.kind = "add", Overlays(m, a, q)
  PROVE  Overlays(m, a, Append(q, w))
<1> DEFINE r == Append(q, w)
<1>1. /\ DOMAIN r = 1..(Len(q) + 1) /\ DOMAIN q = 1..Len(q) /\ Len(q) \in Nat
      /\ \A k \in 1..Len(q) : r[k] = q[k]
      /\ r[Len(q) + 1] = w
  OBVIOUS
<1> HIDE DEF r
<1>2. ASSUME NEW p \in PostIds, \A k \in DOMAIN r : ~LikeOf(r[k], p) PROVE m[p] = a[p]
  BY <1>1, <1>2 DEF Overlays
<1>3. ASSUME NEW k \in DOMAIN r, r[k].kind = "like",
             \A j \in DOMAIN r : j > k => ~LikeOf(r[j], r[k].post)
      PROVE  m[r[k].post] = r[k].val
  <2>1. k \in 1..Len(q)
    BY <1>1, <1>3
  <2>2. r[k] = q[k] /\ \A j \in DOMAIN q : j > k => ~LikeOf(q[j], q[k].post)
    BY <1>1, <1>3, <2>1
  <2>. QED BY <1>1, <1>3, <2>1, <2>2 DEF Overlays
<1>4. Overlays(m, a, r)
  BY <1>2, <1>3 DEF Overlays
<1>. QED BY <1>4 DEF r

\* What is left of a queue when its head is gone.
LEMMA TailOfQueue ==
  ASSUME NEW q \in Seq(Write), q # <<>>
  PROVE  /\ Len(q) \in Nat \ {0} /\ DOMAIN q = 1..Len(q)
         /\ Head(q) = q[1] /\ q[1] \in Write /\ q[1].post \in PostIds
         /\ q[1].val \in LikeDoc /\ q[1].kind \in {"add", "like"}
         /\ Tail(q) \in Seq(Write)
         /\ DOMAIN Tail(q) = 1..(Len(q) - 1)
         /\ \A k \in 1..(Len(q) - 1) : Tail(q)[k] = q[k + 1] /\ k + 1 \in DOMAIN q
         /\ \A k \in DOMAIN q : k # 1 => k - 1 \in 1..(Len(q) - 1) /\ Tail(q)[k - 1] = q[k]
<1>1. Len(q) \in Nat \ {0} /\ DOMAIN q = 1..Len(q)
  OBVIOUS
<1>2. /\ Tail(q) \in Seq(Write) /\ Len(Tail(q)) = Len(q) - 1
      /\ \A k \in 1..Len(Tail(q)) : Tail(q)[k] = q[k + 1]
  BY HeadTailProperties
<1>3. Head(q) = q[1] /\ q[1] \in Write
  BY <1>1
<1>4. q[1].post \in PostIds /\ q[1].val \in LikeDoc /\ q[1].kind \in {"add", "like"}
  BY <1>3 DEF Write
<1>5. DOMAIN Tail(q) = 1..(Len(q) - 1)
  BY <1>2
<1>6. \A k \in 1..(Len(q) - 1) : Tail(q)[k] = q[k + 1] /\ k + 1 \in DOMAIN q
  BY <1>1, <1>2
<1>7. ASSUME NEW k \in DOMAIN q, k # 1
      PROVE  k - 1 \in 1..(Len(q) - 1) /\ Tail(q)[k - 1] = q[k]
  <2>1. k - 1 \in 1..(Len(q) - 1) /\ (k - 1) + 1 = k
    BY <1>1, <1>7
  <2>. QED BY <1>6, <2>1
<1>. QED BY <1>1, <1>2, <1>3, <1>4, <1>5, <1>6, <1>7

LEMMA PostsOfQueue ==
  ASSUME NEW q \in Seq(Write)
  PROVE  \A k \in DOMAIN q : q[k].post \in PostIds
<1>1. \A k \in DOMAIN q : q[k] \in Write
  OBVIOUS
<1>. QED BY <1>1 DEF Write

\* An acknowledged like moves to the backend without a change of the overlay.
LEMMA OverlayAcked ==
  ASSUME NEW m \in [PostIds -> LikeDoc], NEW a \in [PostIds -> LikeDoc],
         NEW q \in Seq(Write), q # <<>>, Overlays(m, a, q)
  PROVE  LET w == Head(q) IN
         Overlays(m, IF w.kind = "like" THEN [a EXCEPT ![w.post] = w.val] ELSE a, Tail(q))
<1> DEFINE w == q[1]
           b == IF w.kind = "like" THEN [a EXCEPT ![w.post] = w.val] ELSE a
           r == Tail(q)
<1>1. /\ \A k \in DOMAIN r : k \in Nat /\ k + 1 \in DOMAIN q /\ r[k] = q[k + 1]
      /\ \A k \in DOMAIN q : k # 1 => k - 1 \in DOMAIN r /\ r[k - 1] = q[k]
      /\ w.post \in PostIds /\ Head(q) = w /\ 1 \in DOMAIN q
      /\ \A k \in DOMAIN q : k \in Nat /\ k >= 1
  BY TailOfQueue
<1>2. /\ w.kind = "like" => b[w.post] = w.val
      /\ \A p \in PostIds : (w.kind # "like" \/ p # w.post) => b[p] = a[p]
  BY <1>1
<1> HIDE DEF b, r, w
<1>3. ASSUME NEW p \in PostIds, \A k \in DOMAIN r : ~LikeOf(r[k], p) PROVE m[p] = b[p]
  <2>1. ASSUME NEW k \in DOMAIN q, k > 1 PROVE ~LikeOf(q[k], p)
    <3>1. k - 1 \in DOMAIN r /\ r[k - 1] = q[k]
      BY <1>1, <2>1
    <3>. QED BY <1>3, <3>1
  <2>2. CASE LikeOf(w, p)
    <3>1. w.kind = "like" /\ p = w.post /\ w = q[1]
      BY <2>2 DEF LikeOf, w
    <3>2. m[w.post] = w.val
      BY <1>1, <2>1, <3>1 DEF Overlays
    <3>. QED BY <1>2, <3>1, <3>2
  <2>3. CASE ~LikeOf(w, p)
    <3>1. \A k \in DOMAIN q : ~LikeOf(q[k], p)
      BY <1>1, <2>1, <2>3 DEF w
    <3>2. m[p] = a[p]
      BY <3>1 DEF Overlays
    <3>. QED BY <1>2, <2>3, <3>2 DEF LikeOf
  <2>. QED BY <2>2, <2>3
<1>4. ASSUME NEW k \in DOMAIN r, r[k].kind = "like",
             \A j \in DOMAIN r : j > k => ~LikeOf(r[j], r[k].post)
      PROVE  m[r[k].post] = r[k].val
  <2>1. k + 1 \in DOMAIN q /\ q[k + 1] = r[k]
    BY <1>1
  <2>2. ASSUME NEW j \in DOMAIN q, j > k + 1 PROVE ~LikeOf(q[j], r[k].post)
    <3>1. j # 1 /\ j - 1 > k
      BY <1>1, <2>2
    <3>. QED BY <1>1, <1>4, <3>1
  <2>. QED BY <1>4, <2>1, <2>2 DEF Overlays
<1>5. Overlays(m, b, r)
  BY <1>3, <1>4 DEF Overlays
<1>. QED BY <1>1, <1>5 DEF b, r, w

\* A rejected like leaves the overlay, which falls back to the backend unless a
\* later like covers it.
LEMMA OverlayRejected ==
  ASSUME NEW m \in [PostIds -> LikeDoc], NEW a \in [PostIds -> LikeDoc],
         NEW q \in Seq(Write), q # <<>>, Overlays(m, a, q)
  PROVE  LET w == Head(q)
             covered == \E k \in 2..Len(q) : q[k].kind = "like" /\ q[k].post = w.post
         IN Overlays(IF w.kind = "like" /\ ~covered THEN [m EXCEPT ![w.post] = a[w.post]]
                     ELSE m, a, Tail(q))
<1> DEFINE w == q[1]
           covered == \E k \in 2..Len(q) : q[k].kind = "like" /\ q[k].post = w.post
           n == IF w.kind = "like" /\ ~covered THEN [m EXCEPT ![w.post] = a[w.post]] ELSE m
           r == Tail(q)
<1>1. /\ \A k \in DOMAIN r : k \in Nat /\ k + 1 \in DOMAIN q /\ r[k] = q[k + 1]
      /\ \A k \in DOMAIN q : k # 1 => k - 1 \in DOMAIN r /\ r[k - 1] = q[k]
      /\ w.post \in PostIds /\ Head(q) = w /\ 1 \in DOMAIN q
      /\ \A k \in DOMAIN q : k \in Nat /\ k >= 1
      /\ DOMAIN q = 1..Len(q) /\ Len(q) \in Nat
      /\ \A k \in DOMAIN r : k + 1 \in 2..Len(q)
      /\ \A k \in DOMAIN r : r[k].post \in PostIds
  <2>1. Tail(q) \in Seq(Write)
    BY TailOfQueue
  <2>2. \A k \in DOMAIN Tail(q) : Tail(q)[k].post \in PostIds
    BY <2>1, PostsOfQueue
  <2>. QED BY <2>2, TailOfQueue
<1>2. covered <=> \E k \in DOMAIN r : LikeOf(r[k], w.post)
  <2>1. ASSUME NEW k \in 2..Len(q), LikeOf(q[k], w.post)
        PROVE  \E j \in DOMAIN r : LikeOf(r[j], w.post)
    <3>1. k \in DOMAIN q /\ k # 1
      BY <1>1
    <3>2. k - 1 \in DOMAIN r /\ r[k - 1] = q[k]
      BY <1>1, <3>1
    <3> HIDE DEF r
    <3>. QED BY <2>1, <3>2
  <2>2. ASSUME NEW k \in DOMAIN r, LikeOf(r[k], w.post)
        PROVE  \E j \in 2..Len(q) : LikeOf(q[j], w.post)
    <3>1. k + 1 \in 2..Len(q) /\ r[k] = q[k + 1]
      BY <1>1
    <3> HIDE DEF r
    <3>. QED BY <2>2, <3>1
  <2>3. covered <=> \E k \in 2..Len(q) : LikeOf(q[k], w.post)
    BY DEF LikeOf
  <2> HIDE DEF r, w, covered
  <2>. QED BY <2>1, <2>2, <2>3
<1>3. /\ \A p \in PostIds : p # w.post => n[p] = m[p]
      /\ w.kind = "like" /\ ~covered => n[w.post] = a[w.post]
      /\ w.kind # "like" \/ covered => n = m
  BY <1>1
<1> HIDE DEF n, r, w, covered
<1>4. ASSUME NEW p \in PostIds, \A k \in DOMAIN r : ~LikeOf(r[k], p) PROVE n[p] = a[p]
  <2>1. CASE LikeOf(w, p)
    BY <1>2, <1>3, <1>4, <2>1 DEF LikeOf
  <2>2. CASE ~LikeOf(w, p)
    <3>1. \A k \in DOMAIN q : ~LikeOf(q[k], p)
      BY <1>1, <1>4, <2>2 DEF w
    <3>2. m[p] = a[p]
      BY <3>1 DEF Overlays
    <3>3. n[p] = m[p]
      BY <1>3, <2>2 DEF LikeOf
    <3>. QED BY <3>2, <3>3
  <2>. QED BY <2>1, <2>2
<1>5. ASSUME NEW k \in DOMAIN r, r[k].kind = "like",
             \A j \in DOMAIN r : j > k => ~LikeOf(r[j], r[k].post)
      PROVE  n[r[k].post] = r[k].val
  <2>1. k + 1 \in DOMAIN q /\ q[k + 1] = r[k] /\ r[k].post \in PostIds
    BY <1>1
  <2>2. ASSUME NEW j \in DOMAIN q, j > k + 1 PROVE ~LikeOf(q[j], r[k].post)
    <3>1. j # 1 /\ j - 1 > k
      BY <1>1, <2>2
    <3>. QED BY <1>1, <1>5, <3>1
  <2>3. m[r[k].post] = r[k].val
    BY <1>5, <2>1, <2>2 DEF Overlays
  <2>4. n[r[k].post] = m[r[k].post]
    BY <1>2, <1>3, <1>5, <2>1 DEF LikeOf
  <2>. QED BY <2>3, <2>4
<1>6. Overlays(n, a, r)
  BY <1>4, <1>5 DEF Overlays
<1>. QED BY <1>1, <1>6 DEF n, r, w, covered

\* Every write added to the queue by a call is {'like': false} or a post.
LEMMA FalseAppend ==
  ASSUME NEW q \in Seq(Write), NEW w \in Write, w.by \in Calls => w.val # "yes",
         \A k \in DOMAIN q : q[k].by \in Calls => q[k].val # "yes"
  PROVE  \A k \in DOMAIN Append(q, w) :
           Append(q, w)[k].by \in Calls => Append(q, w)[k].val # "yes"
<1> DEFINE r == Append(q, w)
<1>1. /\ DOMAIN r = 1..(Len(q) + 1) /\ DOMAIN q = 1..Len(q) /\ Len(q) \in Nat
      /\ \A k \in 1..Len(q) : r[k] = q[k]
      /\ r[Len(q) + 1] = w
  OBVIOUS
<1> HIDE DEF r
<1>2. \A k \in DOMAIN r : r[k].by \in Calls => r[k].val # "yes"
  <2> SUFFICES ASSUME NEW k \in DOMAIN r PROVE r[k].by \in Calls => r[k].val # "yes"
    OBVIOUS
  <2>1. CASE k = Len(q) + 1
    BY <1>1, <2>1
  <2>2. CASE k \in 1..Len(q)
    BY <1>1, <2>2
  <2>. QED BY <1>1, <2>1, <2>2
<1>. QED BY <1>2 DEF r

LEMMA FalseTail ==
  ASSUME NEW q \in Seq(Write), q # <<>>,
         \A k \in DOMAIN q : q[k].by \in Calls => q[k].val # "yes"
  PROVE  \A k \in DOMAIN Tail(q) : Tail(q)[k].by \in Calls => Tail(q)[k].val # "yes"
<1> SUFFICES ASSUME NEW k \in DOMAIN Tail(q)
             PROVE  Tail(q)[k].by \in Calls => Tail(q)[k].val # "yes"
  OBVIOUS
<1>1. Tail(q)[k] = q[k + 1] /\ k + 1 \in DOMAIN q
  BY TailOfQueue
<1>. QED BY <1>1

LEMMA QueueAcked ==
  ASSUME TypeOK, QueueInv, writes # <<>>, HeadAcked, writes' = Tail(writes), mine' = mine
  PROVE  QueueInv'
<1>1. writes \in Seq(Write) /\ mine \in [PostIds -> LikeDoc] /\ acked \in [PostIds -> LikeDoc]
  BY DEF TypeOK
<1>2. OverlayIsLastWrite'
  BY <1>1, OverlayAcked DEF QueueInv, OverlayIsLastWrite, HeadAcked
<1>3. CallsWriteFalse'
  BY <1>1, FalseTail DEF QueueInv, CallsWriteFalse
<1>. QED BY <1>2, <1>3 DEF QueueInv

LEMMA QueueRejected ==
  ASSUME TypeOK, QueueInv, writes # <<>>, HeadRejected
  PROVE  QueueInv'
<1>1. writes \in Seq(Write) /\ mine \in [PostIds -> LikeDoc] /\ acked \in [PostIds -> LikeDoc]
  BY DEF TypeOK
<1>2. writes' = Tail(writes) /\ acked' = acked
  BY DEF HeadRejected
<1>3. OverlayIsLastWrite'
  BY <1>1, <1>2, OverlayRejected DEF QueueInv, OverlayIsLastWrite, HeadRejected
<1>4. CallsWriteFalse'
  BY <1>1, <1>2, FalseTail DEF QueueInv, CallsWriteFalse
<1>. QED BY <1>3, <1>4 DEF QueueInv

LEMMA QueueLiked ==
  ASSUME TypeOK, QueueInv, NEW p \in PostIds, NEW v \in LikeDoc,
         NEW who \in Calls \cup Taps \cup {Nil}, who \in Calls => v # "yes",
         writes' = Append(writes, LikeWrite(p, v, who)),
         mine' = [mine EXCEPT ![p] = v], acked' = acked
  PROVE  QueueInv'
<1> DEFINE w == LikeWrite(p, v, who)
<1>1. w \in Write /\ w.kind = "like" /\ w.post = p /\ w.val = v /\ w.by = who
  BY DEF LikeWrite, Write
<1>2. writes \in Seq(Write) /\ mine \in [PostIds -> LikeDoc] /\ acked \in [PostIds -> LikeDoc]
  BY DEF TypeOK
<1> HIDE DEF w
<1>3. writes' = Append(writes, w)
  BY DEF w
<1>4. OverlayIsLastWrite'
  BY <1>1, <1>2, <1>3, OverlayAppend DEF QueueInv, OverlayIsLastWrite
<1>5. CallsWriteFalse'
  BY <1>1, <1>2, <1>3, FalseAppend DEF QueueInv, CallsWriteFalse
<1>. QED BY <1>4, <1>5 DEF QueueInv

LEMMA QueueStep == TypeInv /\ QueueInv /\ [Next]_vars => QueueInv'
<1> SUFFICES ASSUME TypeInv, QueueInv, [Next]_vars PROVE QueueInv'
  OBVIOUS
<1> USE DEF cloud, lists, notes
<1>1. ASSUME UNCHANGED <<mine, acked, writes>> PROVE QueueInv'
  BY <1>1 DEF QueueInv, OverlayIsLastWrite, CallsWriteFalse
<1>2. ASSUME NEW c \in Uploads, NEW p \in PostIds, StartUpload(c, p) PROVE QueueInv'
  <2> DEFINE w == AddWrite(p, c)
  <2>1. w \in Write /\ w.kind = "add" /\ w.val # "yes"
    BY DEF AddWrite, Write, Calls, LikeDoc
  <2>2. writes \in Seq(Write) /\ mine \in [PostIds -> LikeDoc] /\ acked \in [PostIds -> LikeDoc]
    BY DEF TypeInv, TypeOK
  <2> HIDE DEF w
  <2>3. writes' = Append(writes, w) /\ mine' = mine /\ acked' = acked
    BY <1>2 DEF StartUpload, w
  <2>4. OverlayIsLastWrite'
    BY <2>1, <2>2, <2>3, OverlayAppendAdd DEF QueueInv, OverlayIsLastWrite
  <2>5. CallsWriteFalse'
    BY <2>1, <2>2, <2>3, FalseAppend DEF QueueInv, CallsWriteFalse
  <2>. QED BY <2>4, <2>5 DEF QueueInv
<1>3. ASSUME NEW c \in Calls, ReadMineMissing(c) PROVE QueueInv'
  <2>1. Doc(c) \in PostIds /\ "no" \in LikeDoc
    BY <1>3, DocType DEF ReadMineMissing, Loop, LikeDoc
  <2>. QED BY <1>3, <2>1, QueueLiked DEF ReadMineMissing, TypeInv
<1>4. ASSUME NEW t \in Taps, NEW i \in DOMAIN shown, LikePost(t, i) PROVE QueueInv'
  <2>1. postId[i] \in PostIds /\ Toggled(i) \in LikeDoc /\ t \notin Calls
    BY <1>4, SlotsAssumption DEF LikePost, Toggled, LikeDoc, TypeInv, TypeOK
  <2>. QED BY <1>4, <2>1, QueueLiked DEF LikePost, TypeInv
<1>5. ASSUME NEW c \in Calls, AddAcked(c) PROVE QueueInv'
  <2> DEFINE h == Head(writes)
             w == LikeWrite(h.post, "no", c)
             b == IF h.kind = "like" THEN [acked EXCEPT ![h.post] = h.val] ELSE acked
             q == Tail(writes)
  <2>1. writes # <<>> /\ writes \in Seq(Write) /\ mine \in [PostIds -> LikeDoc]
        /\ acked \in [PostIds -> LikeDoc]
    BY <1>5 DEF AddAcked, Awaited, TypeInv, TypeOK
  <2>2. q \in Seq(Write) /\ h.post \in PostIds /\ h.val \in LikeDoc
    BY <2>1, QueueType DEF TypeInv
  <2>3. b \in [PostIds -> LikeDoc]
    BY <2>1, <2>2
  <2>4. w \in Write /\ w.kind = "like" /\ w.post = h.post /\ w.val = "no" /\ w.val # "yes"
    BY <2>2 DEF LikeWrite, Write, LikeDoc
  <2>5. Overlays(mine, b, q)
    BY <2>1, OverlayAcked DEF QueueInv, OverlayIsLastWrite
  <2>6. \A k \in DOMAIN q : q[k].by \in Calls => q[k].val # "yes"
    BY <2>1, FalseTail DEF QueueInv, CallsWriteFalse
  <2>7. writes' = Append(q, w) /\ mine' = [mine EXCEPT ![w.post] = w.val] /\ acked' = b
    BY <1>5, <2>4 DEF AddAcked, HeadAcked
  <2> HIDE DEF h, w, b, q
  <2>8. OverlayIsLastWrite'
    BY <2>1, <2>2, <2>3, <2>4, <2>5, <2>7, OverlayAppend DEF OverlayIsLastWrite
  <2>9. CallsWriteFalse'
    BY <2>2, <2>4, <2>6, <2>7, FalseAppend DEF CallsWriteFalse
  <2>. QED BY <2>8, <2>9 DEF QueueInv
<1>6. ASSUME NEW c \in Calls, SetMineAcked(c) PROVE QueueInv'
  BY <1>6, QueueAcked DEF SetMineAcked, Awaited, TypeInv
<1>7. ASSUME NEW c \in Calls, SeedAcked(c) PROVE QueueInv'
  BY <1>7, QueueAcked DEF SeedAcked, Awaited, TypeInv
<1>8. ASSUME NEW t \in Taps, LikeSaved(t) PROVE QueueInv'
  BY <1>8, QueueAcked DEF LikeSaved, Awaited, TypeInv
<1>9. CASE OrphanAcked
  BY <1>9, QueueAcked DEF OrphanAcked, Awaited, TypeInv
<1>10. ASSUME NEW c \in Calls, WriteFails(c) PROVE QueueInv'
  BY <1>10, QueueRejected DEF WriteFails, Awaited, TypeInv
<1>11. ASSUME NEW t \in Taps, LikeNotSaved(t) PROVE QueueInv'
  BY <1>11, QueueRejected DEF LikeNotSaved, Awaited, TypeInv
<1>12. CASE OrphanRejected
  BY <1>12, QueueRejected DEF OrphanRejected, Awaited, TypeInv
<1>13. CASE Restart
  <2>1. writes \in Seq(Write) /\ mine' = mine /\ acked' = acked
    BY <1>13 DEF Restart, TypeInv, TypeOK
  <2>2. /\ DOMAIN writes' = DOMAIN writes
        /\ \A k \in DOMAIN writes : writes'[k] = [writes[k] EXCEPT !.by = Nil]
    BY <1>13 DEF Restart
  <2>3. \A k \in DOMAIN writes : /\ writes'[k].kind = writes[k].kind
                                 /\ writes'[k].post = writes[k].post
                                 /\ writes'[k].val = writes[k].val
                                 /\ writes'[k].by = Nil
    <3>1. SUFFICES ASSUME NEW k \in DOMAIN writes
                   PROVE  /\ writes'[k].kind = writes[k].kind
                          /\ writes'[k].post = writes[k].post
                          /\ writes'[k].val = writes[k].val
                          /\ writes'[k].by = Nil
      OBVIOUS
    <3>2. writes[k] \in Write
      BY <2>1
    <3>. QED BY <2>2, <3>2 DEF Write
  <2>4. OverlayIsLastWrite'
    BY <2>1, <2>2, <2>3 DEF QueueInv, OverlayIsLastWrite, Overlays, LikeOf
  <2>5. CallsWriteFalse'
    BY <2>2, <2>3, SlotsAssumption DEF CallsWriteFalse
  <2>. QED BY <2>4, <2>5 DEF QueueInv
<1>14. ASSUME NEW c \in Calls, StartLoad(c) \/ CallAnswered(c)
       PROVE  QueueInv'
  BY <1>1, <1>3, <1>14
     DEF StartLoad, CallAnswered, QueryAnswer, ReadMine, CountAnswer, ReadFails
<1>15. ASSUME NEW t \in Taps, TapAnswered(t) PROVE QueueInv'
  BY <1>1, <1>15 DEF TapAnswered, LikesCounted, LikesNotCounted
<1>16. ASSUME NEW p \in PostIds, OthersPost(p) PROVE QueueInv'
  BY <1>1, <1>16 DEF OthersPost
<1>17. CASE Build \/ UNCHANGED vars
  BY <1>1, <1>17 DEF Build, vars
<1>. QED
  BY <1>2, <1>4, <1>5, <1>6, <1>7, <1>8, <1>9, <1>10, <1>11, <1>12, <1>13, <1>14, <1>15,
     <1>16, <1>17 DEF Next, WriteAnswered, Calls

LEMMA QueueAlways == Spec => [](TypeInv /\ QueueInv)
<1>1. Init => QueueInv
  BY DEF Init, QueueInv, OverlayIsLastWrite, Overlays, CallsWriteFalse
<1>2. TypeInv /\ QueueInv /\ [Next]_vars => QueueInv'
  BY QueueStep
<1>. QED BY <1>1, <1>2, TypeAlways, PTL DEF Spec

\* With nothing queued the hearts show what the backend stores: no order of
\* acknowledgements, rejections and restarts leaves a like shown but not kept.
THEOREM QuietFeedStored == Spec => []QuietFeedIsStored
<1>1. TypeInv /\ QueueInv /\ HeartInv => QuietFeedIsStored
  <2> SUFFICES ASSUME TypeInv, QueueInv, HeartInv, clean, writes = <<>>,
                      NEW i \in DOMAIN posts
               PROVE  posts[i] \in drifted \/ likeState[i] = (acked[posts[i]] = "yes")
    BY DEF QuietFeedIsStored
  <2>1. posts[i] \in PostIds
    BY DEF TypeInv, TypeOK
  <2>2. mine[posts[i]] = acked[posts[i]]
    BY <2>1 DEF QueueInv, OverlayIsLastWrite, Overlays
  <2>. QED BY <2>2 DEF HeartInv, HeartMatchesCloud
<1>. QED BY <1>1, QueueAlways, HeartsAlways, PTL

\* A rejected write that was no like given leaves every like given in place.
LEMMA RejectedKeepsLikes ==
  ASSUME TypeInv, QueueInv, writes # <<>>, HeadRejected, Head(writes).val # "yes",
         NEW p \in PostIds, mine[p] = "yes"
  PROVE  mine'[p] = "yes"
<1> DEFINE w == Head(writes)
           covered == \E k \in 2..Len(writes) :
                        writes[k].kind = "like" /\ writes[k].post = w.post
<1>1. mine' = IF w.kind = "like" /\ ~covered
              THEN [mine EXCEPT ![w.post] = acked[w.post]] ELSE mine
  BY DEF HeadRejected
<1>2. writes \in Seq(Write) /\ w = writes[1] /\ 1 \in DOMAIN writes
      /\ DOMAIN writes = 1..Len(writes) /\ Len(writes) \in Nat
  BY TailOfQueue DEF TypeInv, TypeOK
<1>3. w.kind = "like" /\ ~covered => mine[w.post] = w.val
  <2> SUFFICES ASSUME w.kind = "like", ~covered PROVE mine[w.post] = w.val
    OBVIOUS
  <2>1. ASSUME NEW j \in DOMAIN writes, j > 1 PROVE ~LikeOf(writes[j], w.post)
    <3>1. j \in 2..Len(writes)
      BY <1>2, <2>1
    <3>. QED BY <3>1 DEF LikeOf
  <2> HIDE DEF w, covered
  <2>. QED BY <1>2, <2>1 DEF QueueInv, OverlayIsLastWrite, Overlays
<1>4. w.kind = "like" /\ ~covered => w.post # p
  BY <1>3
<1> HIDE DEF w, covered
<1>. QED BY <1>1, <1>4 DEF TypeInv, TypeOK

\* No step of a load takes a like back: not its {'like': false}, which goes only
\* to a post without a like, and not the failure of that write.
THEOREM LoadsNeverUnlike == Spec => LoadNeverUnlikes
<1> USE DEF cloud, lists, notes
<1>1. ASSUME TypeInv, QueueInv, [Next]_vars
      PROVE  [\A c \in Calls : Loading(c) /\ call'[c].at # call[c].at =>
                \A p \in PostIds : mine[p] = "yes" => mine'[p] = "yes"]_vars
  <2> SUFFICES ASSUME Next, NEW c \in Calls, Loading(c), call'[c].at # call[c].at,
                      NEW p \in PostIds, mine[p] = "yes"
               PROVE  mine'[p] = "yes"
    BY <1>1
  <2>1. ASSUME mine' = mine PROVE mine'[p] = "yes"
    BY <2>1
  <2>2. ASSUME NEW d \in Calls, ReadMineMissing(d) PROVE mine'[p] = "yes"
    <3>1. Doc(d) \in PostIds /\ mine[Doc(d)] = "none"
      BY <1>1, <2>2, DocType DEF ReadMineMissing, Loop, Missing
    <3>. QED BY <1>1, <2>2, <3>1 DEF ReadMineMissing, TypeInv, TypeOK
  <2>3. ASSUME NEW d \in Calls, AddAcked(d) PROVE mine'[p] = "yes"
    <3>1. "seeding" \in Steps /\ call' = [call EXCEPT ![d].at = "seeding"]
      BY <2>3 DEF AddAcked, Steps
    <3>2. \A e \in Calls : e # d => call'[e] = call[e]
      BY <1>1, <3>1, CallMoves DEF TypeInv
    <3>3. d = c
      BY <3>2
    <3>. QED BY <2>3, <3>3 DEF AddAcked, Loading
  <2>4. ASSUME NEW d \in Calls, WriteFails(d) PROVE mine'[p] = "yes"
    <3>1. writes # <<>> /\ writes \in Seq(Write) /\ Head(writes).by = d
      BY <1>1, <2>4 DEF WriteFails, Awaited, TypeInv, TypeOK
    <3>2. Head(writes).val # "yes"
      BY <1>1, <3>1, TailOfQueue DEF QueueInv, CallsWriteFalse
    <3>. QED BY <1>1, <2>4, <3>1, <3>2, RejectedKeepsLikes DEF WriteFails
  <2>5. ASSUME NEW t \in Taps, NEW i \in DOMAIN shown, LikePost(t, i) PROVE FALSE
    BY <2>5 DEF LikePost
  <2>6. ASSUME NEW t \in Taps, LikeNotSaved(t) PROVE FALSE
    BY <2>6 DEF LikeNotSaved
  <2>7. CASE OrphanRejected
    BY <2>7 DEF OrphanRejected
  <2>8. ASSUME NEW d \in Calls, CallAnswered(d) PROVE mine'[p] = "yes"
    BY <2>1, <2>2, <2>8 DEF CallAnswered, QueryAnswer, ReadMine, CountAnswer, ReadFails
  <2>9. CASE WriteAnswered
    BY <2>1, <2>3, <2>4, <2>6, <2>7, <2>9
       DEF WriteAnswered, SetMineAcked, SeedAcked, LikeSaved, OrphanAcked
  <2>. QED
    BY <2>1, <2>5, <2>8, <2>9
       DEF Next, StartLoad, StartUpload, TapAnswered, LikesCounted, LikesNotCounted, Build,
           OthersPost, Restart
<1>. QED BY <1>1, QueueAlways, PTL DEF Spec, LoadNeverUnlikes

-----------------------------------------------------------------------------
(* The numbers of likes.                                                   *)

LEMMA CountsKept ==
  ASSUME CountMatchesHeart, UNCHANGED <<posts, like, likeState, clean>>,
         drifted \subseteq drifted', uncounted \subseteq uncounted',
         \A t \in Taps : tap'[t].fresh = tap[t].fresh /\ tap'[t].index = tap[t].index
  PROVE  CountMatchesHeart'
BY DEF CountMatchesHeart

LEMMA CountsHeartAdded ==
  ASSUME TypeInv, RowsInv, CountMatchesHeart, NEW c \in Calls, NEW b \in BOOLEAN,
         likeState' = Append(likeState, b), clean' = (clean /\ call[c].fresh),
         UNCHANGED <<posts, like, tap, drifted, uncounted>>
  PROVE  CountMatchesHeart'
<1> SUFFICES ASSUME clean' PROVE CountMatchesHeart'
  BY DEF CountMatchesHeart
<1>1. Len(likeState) \in {Len(posts), Len(posts) + 1} /\ posts \in Seq(PostIds)
      /\ likeState \in Seq(BOOLEAN)
  BY DEF RowsInv, RowsAligned, TypeInv, TypeOK
<1>2. \A i \in DOMAIN posts : likeState'[i] = likeState[i]
  BY <1>1
<1>. QED BY <1>2 DEF CountMatchesHeart

LEMMA CountsCountAnswer ==
  ASSUME TypeInv, RowsInv, HeartInv, CountMatchesHeart, NEW c \in Calls, CountAnswer(c)
  PROVE  CountMatchesHeart'
<1> USE DEF cloud, lists, notes
<1> SUFFICES ASSUME clean' PROVE CountMatchesHeart'
  BY DEF CountMatchesHeart
<1>1. clean /\ call[c].fresh /\ call[c].at = "count"
  BY DEF CountAnswer
<1>2. Doc(c) \in PostIds /\ Heart(Doc(c)) = (mine[Doc(c)] = "yes")
  BY <1>1, DocType DEF Loop, Heart
<1>3. UNCHANGED <<likeState, tap, drifted, uncounted>>
  BY DEF CountAnswer
<1> DEFINE new == [post |-> Doc(c), mine |-> Heart(Doc(c))]
<1>4. new \in Count /\ new.mine = (mine[Doc(c)] = "yes")
  BY <1>2 DEF Count, Heart
<1> HIDE DEF new
<1>5. /\ posts' = Append(posts, Doc(c)) /\ like' = Append(like, new)
      /\ posts \in Seq(PostIds) /\ like \in Seq(Count) /\ Len(like) = Len(posts)
  BY <1>1 DEF CountAnswer, new, RowsInv, RowsAligned, TypeInv, TypeOK
<1>6. Doc(c) \in drifted \/ likeState[Len(posts) + 1] = (mine[Doc(c)] = "yes")
  BY <1>1 DEF HeartInv, LoadHeartMatches, RowsInv, LoadInStep
<1>7. ASSUME NEW i \in DOMAIN posts'
      PROVE  \/ posts'[i] \in drifted \cup uncounted
             \/ like'[i].mine = likeState[i]
             \/ \E t \in Taps : tap[t].fresh /\ tap[t].index = i
  <2>1. CASE i \in DOMAIN posts
    <3>1. posts'[i] = posts[i] /\ like'[i] = like[i]
      BY <1>2, <1>4, <1>5, <2>1
    <3>. QED BY <1>1, <2>1, <3>1 DEF CountMatchesHeart
  <2>2. CASE i = Len(posts) + 1
    <3>1. posts'[i] = Doc(c) /\ like'[i] = new
      BY <1>2, <1>4, <1>5, <2>2
    <3>. QED BY <1>4, <1>6, <2>2, <3>1
  <2>. QED BY <1>2, <1>5, <2>1, <2>2
<1>. QED BY <1>3, <1>7 DEF CountMatchesHeart

LEMMA CountsLikePost ==
  ASSUME TypeInv, CountMatchesHeart, NEW t \in Taps, NEW i \in DOMAIN shown, LikePost(t, i)
  PROVE  CountMatchesHeart'
<1> USE DEF cloud, lists, notes
<1>1. UNCHANGED <<posts, like, clean, drifted, uncounted>>
  BY DEF LikePost
<1>2. /\ tap'[t].fresh /\ tap'[t].index = i
      /\ \A u \in Taps : u # t => tap'[u] = tap[u]
      /\ ~tap[t].fresh
  BY DEF LikePost, TypeInv, TypeOK, CallsInLoop
<1>3. \A j \in DOMAIN posts : j # i => likeState'[j] = likeState[j]
  BY DEF LikePost, TypeInv, TypeOK
<1>. QED BY <1>1, <1>2, <1>3 DEF CountMatchesHeart

\* A recount settles the row of its post: the heart is the cloud's by then.
LEMMA CountsLikesCounted ==
  ASSUME TypeInv, RowsInv, HeartInv, CountMatchesHeart, NEW t \in Taps, LikesCounted(t)
  PROVE  CountMatchesHeart'
<1> USE DEF cloud, lists, notes
<1> SUFFICES ASSUME clean' PROVE CountMatchesHeart'
  BY DEF CountMatchesHeart
<1>1. clean /\ UNCHANGED <<posts, likeState, drifted, uncounted>>
  BY DEF LikesCounted
<1>2. ~tap'[t].fresh /\ \A u \in Taps : u # t => tap'[u] = tap[u]
  BY TapEndsHere DEF LikesCounted, TypeInv
<1>3. DOMAIN like = DOMAIN posts
  BY <1>1 DEF RowsInv, RowsAligned
<1>4. CASE ~tap[t].fresh
  <2>1. like' = like
    BY <1>4 DEF LikesCounted
  <2>. QED BY <1>1, <1>2, <1>4, <2>1 DEF CountMatchesHeart
<1>5. CASE tap[t].fresh
  <2>1. tap[t].index \in DOMAIN posts /\ posts[tap[t].index] = tap[t].post
    BY <1>1, <1>5 DEF RowsInv, TapsOnRows
  <2>2. like' = [like EXCEPT ![tap[t].index] =
                   [post |-> tap[t].post, mine |-> Heart(tap[t].post)]]
    BY <1>3, <2>1 DEF LikesCounted
  <2>3. /\ like'[tap[t].index].mine = (mine[tap[t].post] = "yes")
        /\ \A j \in DOMAIN posts : j # tap[t].index => like'[j] = like[j]
    BY <1>3, <2>1, <2>2 DEF Heart
  <2>4. \/ tap[t].post \in drifted
        \/ likeState[tap[t].index] = (mine[tap[t].post] = "yes")
    BY <1>1, <2>1 DEF HeartInv, HeartMatchesCloud
  <2>. QED BY <1>1, <1>2, <2>1, <2>3, <2>4 DEF CountMatchesHeart
<1>. QED BY <1>4, <1>5

LEMMA CountsLikesNotCounted ==
  ASSUME TypeInv, RowsInv, CountMatchesHeart, NEW t \in Taps, LikesNotCounted(t)
  PROVE  CountMatchesHeart'
<1> USE DEF cloud, lists, notes
<1>1. UNCHANGED <<posts, like, likeState, clean, drifted>>
  BY DEF LikesNotCounted
<1>2. uncounted' = uncounted \cup {tap[t].post}
  BY DEF LikesNotCounted
<1>3. \A u \in Taps : u # t => tap'[u] = tap[u]
  BY TapEndsHere DEF LikesNotCounted, TypeInv
<1>4. clean /\ tap[t].fresh => posts[tap[t].index] = tap[t].post
  BY DEF RowsInv, TapsOnRows
<1>. QED BY <1>1, <1>2, <1>3, <1>4 DEF CountMatchesHeart

LEMMA CountsStep ==
  TypeInv /\ RowsInv /\ HeartInv /\ CountMatchesHeart /\ [Next]_vars => CountMatchesHeart'
<1> SUFFICES ASSUME TypeInv, RowsInv, HeartInv, CountMatchesHeart, [Next]_vars
             PROVE  CountMatchesHeart'
  OBVIOUS
<1> USE DEF cloud, lists, notes
<1>1. ASSUME Quiet, UNCHANGED <<tap, uncounted>> PROVE CountMatchesHeart'
  BY <1>1, QuietIsQuiet, QuietKeepsHearts, CountsKept DEF QuietStep, QuietHearts
<1>2. ASSUME NEW t \in Taps, LikeSaved(t) \/ LikeNotSaved(t) PROVE CountMatchesHeart'
  <2>1. Quiet /\ uncounted' = uncounted
    BY <1>2 DEF Quiet, LikeSaved, LikeNotSaved
  <2>2. \A u \in Taps : tap'[u].fresh = tap[u].fresh /\ tap'[u].index = tap[u].index
    BY <1>2, TapMoves DEF LikeSaved, LikeNotSaved, TypeInv
  <2>. QED BY <2>1, <2>2, QuietIsQuiet, QuietKeepsHearts, CountsKept DEF QuietStep, QuietHearts
<1>3. ASSUME NEW c \in Calls, ReadMine(c) PROVE CountMatchesHeart'
  <2>1. Heart(Doc(c)) \in BOOLEAN
    BY DEF Heart
  <2>. QED BY <1>3, <2>1, CountsHeartAdded DEF ReadMine
<1>4. ASSUME NEW c \in Calls, SetMineAcked(c) PROVE CountMatchesHeart'
  BY <1>4, CountsHeartAdded DEF SetMineAcked
<1>5. ASSUME posts' = <<>> PROVE CountMatchesHeart'
  BY <1>5 DEF CountMatchesHeart
<1>6. ASSUME NEW c \in Calls, QueryAnswer(c) PROVE CountMatchesHeart'
  BY <1>5, <1>6 DEF QueryAnswer, EmptyLists
<1>7. CASE Restart
  BY <1>5, <1>7 DEF Restart, EmptyLists
<1>8. CASE Build
  BY <1>8 DEF Build, CountMatchesHeart
<1>9. ASSUME NEW c \in Calls, CallAnswered(c) PROVE CountMatchesHeart'
  <2>1. ASSUME ReadMineMissing(c) \/ ReadFails(c) PROVE CountMatchesHeart'
    BY <1>1, <2>1 DEF Quiet, ReadMineMissing, ReadFails
  <2>. QED BY <1>3, <1>6, <1>9, <2>1, CountsCountAnswer DEF CallAnswered
<1>10. CASE WriteAnswered
  <2>1. ASSUME NEW c \in Calls, AddAcked(c) \/ SeedAcked(c) \/ WriteFails(c)
        PROVE  CountMatchesHeart'
    BY <1>1, <2>1 DEF Quiet, AddAcked, SeedAcked, WriteFails
  <2>2. CASE OrphanAcked \/ OrphanRejected
    BY <1>1, <2>2 DEF Quiet, OrphanAcked, OrphanRejected
  <2>. QED BY <1>2, <1>4, <1>10, <2>1, <2>2 DEF WriteAnswered
<1>11. ASSUME NEW c \in Loads, StartLoad(c) PROVE CountMatchesHeart'
  BY <1>1, <1>11 DEF Quiet, StartLoad
<1>12. ASSUME NEW c \in Uploads, NEW p \in PostIds, StartUpload(c, p) PROVE CountMatchesHeart'
  BY <1>1, <1>12 DEF Quiet, StartUpload
<1>13. ASSUME NEW p \in PostIds, OthersPost(p) PROVE CountMatchesHeart'
  BY <1>1, <1>13 DEF Quiet, OthersPost
<1>14. CASE UNCHANGED vars
  BY <1>1, <1>14 DEF Quiet, vars
<1>15. ASSUME NEW t \in Taps, TapAnswered(t) PROVE CountMatchesHeart'
  BY <1>15, CountsLikesCounted, CountsLikesNotCounted DEF TapAnswered
<1>. QED
  BY <1>7, <1>8, <1>9, <1>10, <1>11, <1>12, <1>13, <1>14, <1>15, CountsLikePost DEF Next

\* A row's number counts this user exactly when its heart is filled, once no tap
\* on the row is in flight and whichever way the answers were ordered.
THEOREM CountsMatchHearts == Spec => []CountMatchesHeart
<1>1. Init => CountMatchesHeart
  BY DEF Init, CountMatchesHeart
<1>2. TypeInv /\ RowsInv /\ HeartInv /\ CountMatchesHeart /\ [Next]_vars => CountMatchesHeart'
  BY CountsStep
<1>. QED BY <1>1, <1>2, HeartsAlways, PTL DEF Spec

-----------------------------------------------------------------------------
(* Who waits, and what for.                                                *)

\* What a caller is parked at depends on its own state only.
LEMMA AwaitsKept ==
  ASSUME NEW who,
         \A c \in Calls : c = who => call'[c].at = call[c].at /\ Doc(c)' = Doc(c),
         \A t \in Taps : t = who => tap'[t].at = tap[t].at /\ tap'[t].post = tap[t].post
  PROVE  /\ Waits(who)' <=> Waits(who)
         /\ \A w : Awaits(who, w)' <=> Awaits(who, w)
BY DEF Waits, Awaits

\* Whoever awaits a write waits; Nil does not.
LEMMA AwaitersWait ==
  ASSUME NEW who, NEW w, Awaits(who, w)
  PROVE  Waits(who) /\ who \in Calls \cup Taps
BY DEF Awaits, Waits

\* All callers but who stay where they are.
OthersStay(who) ==
  /\ \A c \in Calls : c # who => call'[c].at = call[c].at /\ Doc(c)' = Doc(c)
  /\ \A t \in Taps : t # who => tap'[t].at = tap[t].at /\ tap'[t].post = tap[t].post

\* The queue is as it was, and who moves at most between steps that await no write.
LEMMA WaitsKept ==
  ASSUME NobodyWaitsInVain, writes' = writes, NEW who, OthersStay(who),
         ~Waits(who), ~Waits(who)'
  PROVE  NobodyWaitsInVain'
<1>1. \A v : v # who => /\ Waits(v)' <=> Waits(v)
                       /\ \A w : Awaits(v, w)' <=> Awaits(v, w)
  BY AwaitsKept DEF OthersStay
<1>2. \A k \in DOMAIN writes : writes[k].by # Nil => writes[k].by # who
  BY AwaitersWait DEF NobodyWaitsInVain, WritesAwaited
<1>3. WaitersHaveWrites'
  BY <1>1 DEF NobodyWaitsInVain, WaitersHaveWrites
<1>4. \A k \in DOMAIN writes : writes[k].by # Nil => Awaits(writes[k].by, writes[k])'
  BY <1>1, <1>2 DEF NobodyWaitsInVain, WritesAwaited
<1>5. WritesAwaited'
  BY <1>4 DEF WritesAwaited
<1>. QED BY <1>3, <1>5 DEF NobodyWaitsInVain, OneWriteEach

\* who queues w and parks at it.
LEMMA WaitBegins ==
  ASSUME TypeInv, NobodyWaitsInVain, NEW who \in Calls \cup Taps, OthersStay(who),
         ~Waits(who), NEW w \in Write, w.by = who, Awaits(who, w)',
         writes' = Append(writes, w)
  PROVE  NobodyWaitsInVain'
<1>1. \A v : v # who => /\ Waits(v)' <=> Waits(v)
                       /\ \A x : Awaits(v, x)' <=> Awaits(v, x)
  BY AwaitsKept DEF OthersStay
<1>2. \A k \in DOMAIN writes : writes[k].by # who
  BY AwaitersWait, SlotsAssumption DEF NobodyWaitsInVain, WritesAwaited
<1>3. /\ DOMAIN writes' = DOMAIN writes \cup {Len(writes) + 1}
      /\ writes'[Len(writes) + 1] = w
      /\ \A k \in DOMAIN writes : writes'[k] = writes[k]
  BY DEF TypeInv, TypeOK
<1>4. WaitersHaveWrites'
  BY <1>1, <1>3 DEF NobodyWaitsInVain, WaitersHaveWrites
<1>5. ASSUME NEW k \in DOMAIN writes', writes'[k].by # Nil
      PROVE  Awaits(writes[k].by, writes[k])'
  BY <1>1, <1>2, <1>3, <1>5 DEF NobodyWaitsInVain, WritesAwaited
<1>6. OneWriteEach'
  BY <1>2, <1>3 DEF NobodyWaitsInVain, OneWriteEach
<1>. QED BY <1>4, <1>5, <1>6 DEF NobodyWaitsInVain, WritesAwaited

\* The head of the queue is answered, and who, parked at it, goes on; or it
\* belongs to nobody.
LEMMA WaitEnds ==
  ASSUME TypeInv, NobodyWaitsInVain, NEW who, Awaited(who), OthersStay(who),
         ~Waits(who)', writes' = Tail(writes)
  PROVE  NobodyWaitsInVain'
<1>1. \A v : v # who => /\ Waits(v)' <=> Waits(v)
                       /\ \A x : Awaits(v, x)' <=> Awaits(v, x)
  BY AwaitsKept DEF OthersStay
<1>2. /\ writes \in Seq(Write) /\ writes # <<>> /\ Head(writes) = writes[1]
      /\ writes[1].by = who
  BY QueueType DEF Awaited, TypeInv, TypeOK
<1>3. /\ Len(writes) \in Nat /\ DOMAIN writes = 1..Len(writes)
      /\ 1 \in DOMAIN writes
      /\ DOMAIN writes' = 1..(Len(writes) - 1)
      /\ \A k \in DOMAIN writes' : k + 1 \in DOMAIN writes /\ writes'[k] = writes[k + 1]
      /\ \A k \in DOMAIN writes : k # 1 => k - 1 \in DOMAIN writes'
                                      /\ writes'[k - 1] = writes[k]
  BY <1>2, TailOfQueue DEF TypeInv, TypeOK
<1>4. \A k \in DOMAIN writes' : writes'[k].by # Nil => writes'[k].by # who
  BY <1>2, <1>3 DEF NobodyWaitsInVain, OneWriteEach
<1>5. ASSUME NEW v \in Calls \cup Taps, Waits(v)'
      PROVE  \E k \in DOMAIN writes' : writes'[k].by = v
  <2>1. v # who
    BY <1>5
  <2>2. PICK k \in DOMAIN writes : writes[k].by = v
    BY <1>1, <1>5, <2>1 DEF NobodyWaitsInVain, WaitersHaveWrites
  <2>. QED BY <1>2, <1>3, <2>1, <2>2
<1>6. ASSUME NEW k \in DOMAIN writes', writes'[k].by # Nil
      PROVE  Awaits(writes[k].by, writes[k])'
  <2>1. Awaits(writes[k + 1].by, writes[k + 1])
    BY <1>3, <1>6 DEF NobodyWaitsInVain, WritesAwaited
  <2>. QED BY <1>1, <1>3, <1>4, <1>6, <2>1
<1>7. OneWriteEach'
  <2>1. ASSUME NEW j \in DOMAIN writes', NEW k \in DOMAIN writes',
               writes'[j].by = writes'[k].by, writes'[j].by # Nil
        PROVE  j = k
    <3>1. j + 1 = k + 1
      BY <1>3, <2>1 DEF NobodyWaitsInVain, OneWriteEach
    <3>. QED BY <1>3, <3>1
  <2>. QED BY <2>1 DEF OneWriteEach
<1>. QED BY <1>5, <1>6, <1>7 DEF NobodyWaitsInVain, WritesAwaited, WaitersHaveWrites

\* The head is answered, and who, parked at it, queues w and parks at that.
LEMMA WaitGoesOn ==
  ASSUME TypeInv, NobodyWaitsInVain, NEW who \in Calls \cup Taps, Awaited(who),
         OthersStay(who), NEW w \in Write, w.by = who, Awaits(who, w)',
         writes' = Append(Tail(writes), w)
  PROVE  NobodyWaitsInVain'
<1>1. \A v : v # who => /\ Waits(v)' <=> Waits(v)
                       /\ \A x : Awaits(v, x)' <=> Awaits(v, x)
  BY AwaitsKept DEF OthersStay
<1>2. /\ writes \in Seq(Write) /\ writes # <<>> /\ writes[1].by = who
      /\ Tail(writes) \in Seq(Write)
  BY QueueType DEF Awaited, TypeInv, TypeOK
<1> DEFINE n == Len(writes)
<1>3. /\ n \in Nat \ {0} /\ DOMAIN writes = 1..n
      /\ DOMAIN writes' = 1..n
      /\ writes'[n] = w
      /\ \A k \in 1..(n - 1) : writes'[k] = writes[k + 1]
      /\ \A k \in 2..n : writes'[k - 1] = writes[k]
  <2>1. /\ n \in Nat \ {0} /\ DOMAIN writes = 1..n
        /\ DOMAIN Tail(writes) = 1..(n - 1)
        /\ \A k \in 1..(n - 1) : Tail(writes)[k] = writes[k + 1]
    BY <1>2, TailOfQueue
  <2>2. Len(Tail(writes)) = n - 1
    BY <1>2, <2>1
  <2>3. /\ DOMAIN writes' = 1..n /\ writes'[n] = w
        /\ \A k \in 1..(n - 1) : writes'[k] = Tail(writes)[k]
    BY <1>2, <2>1, <2>2
  <2>. QED BY <2>1, <2>3
<1> HIDE DEF n
<1>4. \A k \in 1..(n - 1) : writes'[k].by # who
  BY <1>2, <1>3, SlotsAssumption DEF NobodyWaitsInVain, OneWriteEach
<1>5. ASSUME NEW v \in Calls \cup Taps PROVE Waits(v)' => \E k \in 1..n : writes'[k].by = v
  <2>1. CASE v = who
    BY <1>3, <2>1
  <2>2. CASE v # who /\ Waits(v)
    <3>1. PICK k \in 1..n : writes[k].by = v
      BY <1>3, <2>2 DEF NobodyWaitsInVain, WaitersHaveWrites
    <3>2. k \in 2..n
      BY <1>2, <1>3, <2>2, <3>1
    <3>3. k - 1 \in 1..n
      BY <1>3, <3>2
    <3>. QED BY <1>3, <3>1, <3>2, <3>3
  <2>. QED BY <1>1, <2>1, <2>2
<1>6. ASSUME NEW k \in 1..n, writes'[k].by # Nil PROVE Awaits(writes[k].by, writes[k])'
  <2>1. CASE k = n
    BY <1>3, <2>1
  <2>2. CASE k # n
    <3>1. k \in 1..(n - 1) /\ k + 1 \in 1..n
      BY <1>3, <2>2
    <3>2. Awaits(writes[k + 1].by, writes[k + 1])
      BY <1>3, <1>6, <3>1 DEF NobodyWaitsInVain, WritesAwaited
    <3>. QED BY <1>1, <1>3, <1>4, <3>1, <3>2
  <2>. QED BY <2>1, <2>2
<1>7. ASSUME NEW j \in 1..n, NEW k \in 1..n, writes'[j].by = writes'[k].by,
             writes'[j].by # Nil
      PROVE  j = k
  <2>1. CASE j = n \/ k = n
    <3>1. ~(j \in 1..(n - 1)) /\ ~(k \in 1..(n - 1))
      BY <1>3, <1>4, <1>7, <2>1
    <3>. QED BY <1>3, <3>1
  <2>2. CASE j # n /\ k # n
    <3>1. /\ j \in 1..(n - 1) /\ k \in 1..(n - 1)
          /\ j + 1 \in DOMAIN writes /\ k + 1 \in DOMAIN writes
      BY <1>3, <2>2
    <3>2. j + 1 = k + 1
      BY <1>3, <1>7, <3>1 DEF NobodyWaitsInVain, OneWriteEach
    <3>. QED BY <3>2
  <2>. QED BY <2>1, <2>2
<1>. QED BY <1>3, <1>5, <1>6, <1>7
         DEF NobodyWaitsInVain, WritesAwaited, WaitersHaveWrites, OneWriteEach

\* A step of one call, and of no tap, leaves the others where they are.
LEMMA OneCallMoves ==
  ASSUME NEW c \in Calls, tap' = tap, \A d \in Calls : d # c => call'[d] = call[d]
  PROVE  OthersStay(c)
BY DEF OthersStay, Doc

LEMMA OneTapMoves ==
  ASSUME NEW t \in Taps, call' = call, \A u \in Taps : u # t => tap'[u] = tap[u]
  PROVE  OthersStay(t)
BY DEF OthersStay, Doc

LEMMA WaitStep == TypeInv /\ NobodyWaitsInVain /\ [Next]_vars => NobodyWaitsInVain'
<1> SUFFICES ASSUME TypeInv, NobodyWaitsInVain, [Next]_vars PROVE NobodyWaitsInVain'
  OBVIOUS
<1> USE DEF cloud, lists, notes
<1>0. /\ \A c \in Calls : c \notin Taps /\ c # Nil
      /\ \A t \in Taps : t \notin Calls /\ t # Nil
      /\ Nil \notin Calls /\ Nil \notin Taps
  BY SlotsAssumption
<1>1. ASSUME UNCHANGED <<call, tap, writes>> PROVE NobodyWaitsInVain'
  <2>1. OthersStay(Nil) /\ ~Waits(Nil) /\ ~Waits(Nil)'
    BY <1>0, <1>1 DEF OthersStay, Doc, Waits
  <2>. QED BY <1>1, <2>1, WaitsKept
<1>2. ASSUME NEW c \in Calls, NEW s \in Steps, call' = [call EXCEPT ![c].at = s], tap' = tap
      PROVE  OthersStay(c) /\ call'[c].at = s /\ Doc(c)' = Doc(c)
  BY <1>2, CallMoves, OneCallMoves DEF TypeInv, Doc
<1>3. ASSUME NEW c \in Calls, NEW s \in Steps, call' = [call EXCEPT ![c] = CallAt(s)],
             tap' = tap
      PROVE  OthersStay(c) /\ call'[c].at = s
  BY <1>3, CallStarts, OneCallMoves DEF TypeInv
<1>4. ASSUME NEW c \in Loads, StartLoad(c) PROVE NobodyWaitsInVain'
  <2>1. c \in Calls /\ "query" \in Steps
    BY DEF Calls, Steps
  <2>2. OthersStay(c) /\ call'[c].at = "query"
    BY <1>3, <1>4, <2>1 DEF StartLoad
  <2>3. ~Waits(c) /\ ~Waits(c)'
    BY <1>0, <1>4, <2>1, <2>2 DEF StartLoad, Waits
  <2>. QED BY <1>4, <2>2, <2>3, WaitsKept DEF StartLoad
<1>5. ASSUME NEW c \in Uploads, NEW p \in PostIds, StartUpload(c, p) PROVE NobodyWaitsInVain'
  <2>1. c \in Calls /\ "adding" \in Steps
    BY DEF Calls, Steps
  <2>2. OthersStay(c) /\ call'[c].at = "adding"
    BY <1>3, <1>5, <2>1 DEF StartUpload
  <2>3. AddWrite(p, c) \in Write /\ AddWrite(p, c).by = c /\ AddWrite(p, c).kind = "add"
    BY <2>1 DEF AddWrite, Write, LikeDoc
  <2>6. PICK w \in Write : w = AddWrite(p, c)
    BY <2>3
  <2>4. ~Waits(c) /\ Awaits(c, w)'
    BY <1>0, <1>5, <2>1, <2>2, <2>3, <2>6 DEF StartUpload, Waits, Awaits
  <2>5. writes' = Append(writes, w)
    BY <1>5, <2>6 DEF StartUpload
  <2>. QED BY <2>1, <2>2, <2>3, <2>4, <2>5, <2>6, WaitBegins
<1>6. ASSUME NEW c \in Calls, CallAnswered(c) PROVE NobodyWaitsInVain'
  <2>1. CASE QueryAnswer(c)
    <3>1. PICK docs \in Answers(cloudPosts) :
            call' = [d \in Calls |->
                       IF d # c THEN [call[d] EXCEPT !.fresh = FALSE]
                       ELSE IF docs = <<>> THEN IdleCall
                       ELSE [at |-> "readMine", docs |-> docs, next |-> 1, fresh |-> TRUE]]
      BY <2>1 DEF QueryAnswer
    <3>2. \A d \in Calls : d # c => call'[d].at = call[d].at /\ Doc(d)' = Doc(d)
      BY <3>1 DEF TypeInv, TypeOK, Call, Doc
    <3>3. \A t \in Taps : tap'[t].at = tap[t].at /\ tap'[t].post = tap[t].post
      BY <2>1 DEF QueryAnswer, TypeInv, TypeOK, Tap
    <3>4. call[c].at = "query" /\ call'[c].at \in {"idle", "readMine"}
      BY <2>1, <3>1 DEF QueryAnswer, IdleCall, CallAt
    <3>5. OthersStay(c) /\ ~Waits(c) /\ ~Waits(c)'
      BY <1>0, <3>2, <3>3, <3>4 DEF OthersStay, Waits
    <3>. QED BY <2>1, <3>5, WaitsKept DEF QueryAnswer
  <2>2. CASE ReadMine(c)
    <3>1. OthersStay(c) /\ call'[c].at = "count"
      BY <1>2, <2>2 DEF ReadMine, Steps
    <3>2. ~Waits(c) /\ ~Waits(c)'
      BY <1>0, <2>2, <3>1 DEF ReadMine, Waits
    <3>. QED BY <2>2, <3>1, <3>2, WaitsKept DEF ReadMine
  <2>3. CASE ReadMineMissing(c)
    <3>1. OthersStay(c) /\ call'[c].at = "setMine" /\ Doc(c)' = Doc(c)
      BY <1>2, <2>3 DEF ReadMineMissing, Steps
    <3>5. LikeWrite(Doc(c), "no", c) \in Write
      BY <2>3, DocType DEF ReadMineMissing, Loop, LikeWrite, Write, LikeDoc
    <3>6. PICK w \in Write : w = LikeWrite(Doc(c), "no", c)
      BY <3>5
    <3>2. w.by = c
      BY <3>6 DEF LikeWrite
    <3>3. ~Waits(c) /\ Awaits(c, w)'
      BY <1>0, <2>3, <3>1, <3>6 DEF ReadMineMissing, Waits, Awaits, LikeWrite
    <3>4. writes' = Append(writes, w)
      BY <2>3, <3>6 DEF ReadMineMissing
    <3>. QED BY <3>1, <3>2, <3>3, <3>4, WaitBegins
  <2>4. CASE CountAnswer(c)
    <3>1. \A d \in Calls : d # c => call'[d] = call[d]
      BY <2>4 DEF CountAnswer, TypeInv, TypeOK
    <3>2. call'[c] = NextDoc(call[c])
      BY <2>4 DEF CountAnswer, TypeInv, TypeOK
    <3>3. call'[c].at \in {"idle", "readMine"}
      BY <2>4, <3>2, NextDocType DEF CountAnswer, Loop, IdleCall, CallAt
    <3>4. OthersStay(c) /\ ~Waits(c) /\ ~Waits(c)'
      BY <1>0, <2>4, <3>1, <3>3, OneCallMoves DEF CountAnswer, Waits
    <3>. QED BY <2>4, <3>4, WaitsKept DEF CountAnswer
  <2>5. CASE ReadFails(c)
    <3>1. OthersStay(c) /\ call'[c].at = "idle"
      BY <1>3, <2>5 DEF ReadFails, IdleCall, Steps
    <3>2. ~Waits(c) /\ ~Waits(c)'
      BY <1>0, <2>5, <3>1 DEF ReadFails, Waits
    <3>. QED BY <2>5, <3>1, <3>2, WaitsKept DEF ReadFails
  <2>. QED BY <1>6, <2>1, <2>2, <2>3, <2>4, <2>5 DEF CallAnswered
<1>7. CASE WriteAnswered
  <2>1. ASSUME NEW c \in Calls, SetMineAcked(c) PROVE NobodyWaitsInVain'
    <3>1. OthersStay(c) /\ call'[c].at = "count"
      BY <1>2, <2>1 DEF SetMineAcked, Steps
    <3>2. ~Waits(c)'
      BY <1>0, <3>1 DEF Waits
    <3>. QED BY <2>1, <3>1, <3>2, WaitEnds DEF SetMineAcked
  <2>2. ASSUME NEW c \in Calls, AddAcked(c) PROVE NobodyWaitsInVain'
    <3>1. OthersStay(c) /\ call'[c].at = "seeding"
      BY <1>2, <2>2 DEF AddAcked, Steps
    <3>2. Head(writes).post \in PostIds
      BY <2>2, QueueType DEF AddAcked, Awaited, TypeInv
    <3>6. LikeWrite(Head(writes).post, "no", c) \in Write
      BY <3>2 DEF LikeWrite, Write, LikeDoc
    <3>7. PICK w \in Write : w = LikeWrite(Head(writes).post, "no", c)
      BY <3>6
    <3>3. w.by = c /\ w.kind = "like" /\ w.val = "no"
      BY <3>7 DEF LikeWrite
    <3>4. writes' = Append(Tail(writes), w) /\ Awaited(c)
      BY <2>2, <3>7 DEF AddAcked
    <3>5. Awaits(c, w)'
      BY <3>1, <3>3 DEF Awaits
    <3>. QED BY <3>1, <3>3, <3>4, <3>5, WaitGoesOn
  <2>3. ASSUME NEW c \in Calls, SeedAcked(c) PROVE NobodyWaitsInVain'
    <3>1. OthersStay(c) /\ call'[c].at = "query"
      BY <1>2, <2>3 DEF SeedAcked, Steps
    <3>2. ~Waits(c)'
      BY <1>0, <3>1 DEF Waits
    <3>. QED BY <2>3, <3>1, <3>2, WaitEnds DEF SeedAcked
  <2>4. ASSUME NEW c \in Calls, WriteFails(c) PROVE NobodyWaitsInVain'
    <3>1. OthersStay(c) /\ call'[c].at = "idle"
      BY <1>3, <2>4 DEF WriteFails, IdleCall, Steps
    <3>2. ~Waits(c)'
      BY <1>0, <3>1 DEF Waits
    <3>. QED BY <2>4, <3>1, <3>2, WaitEnds DEF WriteFails, HeadRejected
  <2>5. ASSUME NEW t \in Taps, LikeSaved(t) \/ LikeNotSaved(t) PROVE NobodyWaitsInVain'
    <3>1. /\ Awaited(t) /\ writes' = Tail(writes) /\ call' = call
          /\ tap' = [tap EXCEPT ![t].at = "counting"]
      BY <2>5 DEF LikeSaved, LikeNotSaved, HeadRejected
    <3>2. tap'[t].at = "counting" /\ \A u \in Taps : u # t => tap'[u] = tap[u]
      BY <3>1, TapMoves DEF TypeInv
    <3>3. OthersStay(t) /\ ~Waits(t)'
      BY <1>0, <3>1, <3>2, OneTapMoves DEF Waits
    <3>. QED BY <3>1, <3>3, WaitEnds
  <2>6. CASE OrphanAcked \/ OrphanRejected
    <3>1. Awaited(Nil) /\ writes' = Tail(writes) /\ UNCHANGED <<call, tap>>
      BY <2>6 DEF OrphanAcked, OrphanRejected, HeadRejected
    <3>2. OthersStay(Nil) /\ ~Waits(Nil)'
      BY <1>0, <3>1 DEF OthersStay, Doc, Waits
    <3>. QED BY <3>1, <3>2, WaitEnds
  <2>. QED BY <1>7, <2>1, <2>2, <2>3, <2>4, <2>5, <2>6 DEF WriteAnswered
<1>8. ASSUME NEW t \in Taps, NEW i \in DOMAIN shown, LikePost(t, i) PROVE NobodyWaitsInVain'
  <2>1. postId[i] \in PostIds /\ Toggled(i) \in LikeDoc
    BY <1>8 DEF LikePost, Toggled, LikeDoc, TypeInv, TypeOK
  <2>7. LikeWrite(postId[i], Toggled(i), t) \in Write
    BY <2>1 DEF LikeWrite, Write
  <2>5. PICK w \in Write : w = LikeWrite(postId[i], Toggled(i), t)
    BY <2>7
  <2>2. w.by = t /\ w.kind = "like" /\ w.post = postId[i]
    BY <2>5 DEF LikeWrite
  <2>3. /\ tap[t].at = "idle" /\ call' = call
        /\ tap'[t].at = "saving" /\ tap'[t].post = w.post
        /\ \A u \in Taps : u # t => tap'[u] = tap[u]
    BY <1>8, <2>2 DEF LikePost, TypeInv, TypeOK
  <2>4. writes' = Append(writes, w)
    BY <1>8, <2>5 DEF LikePost
  <2>6. OthersStay(t) /\ ~Waits(t) /\ Awaits(t, w)'
    BY <1>0, <2>2, <2>3, OneTapMoves DEF Waits, Awaits
  <2>. QED BY <2>2, <2>4, <2>6, WaitBegins
<1>9. ASSUME NEW t \in Taps, TapAnswered(t) PROVE NobodyWaitsInVain'
  <2>1. /\ tap[t].at = "counting" /\ tap' = [tap EXCEPT ![t] = IdleTap]
        /\ call' = call /\ writes' = writes
    BY <1>9 DEF TapAnswered, LikesCounted, LikesNotCounted
  <2>2. tap'[t].at = "idle" /\ \A u \in Taps : u # t => tap'[u] = tap[u]
    BY <2>1, TapEndsHere DEF TypeInv
  <2>3. OthersStay(t) /\ ~Waits(t) /\ ~Waits(t)'
    BY <1>0, <2>1, <2>2, OneTapMoves DEF Waits
  <2>. QED BY <2>1, <2>3, WaitsKept
<1>10. CASE Restart
  <2>1. \A who : ~Waits(who)'
    BY <1>10 DEF Restart, Waits, IdleCall, CallAt, IdleTap
  <2>2. writes' = [k \in DOMAIN writes |-> [writes[k] EXCEPT !.by = Nil]]
    BY <1>10 DEF Restart
  <2>3. \A k \in DOMAIN writes : [writes[k] EXCEPT !.by = Nil].by = Nil
    BY DEF TypeInv, TypeOK, Write
  <2>4. DOMAIN writes' = DOMAIN writes /\ \A k \in DOMAIN writes' : writes'[k].by = Nil
    BY <2>2, <2>3
  <2>. QED BY <2>1, <2>4
       DEF NobodyWaitsInVain, WaitersHaveWrites, WritesAwaited, OneWriteEach
<1>11. CASE Build
  BY <1>1, <1>11 DEF Build
<1>12. ASSUME NEW p \in PostIds, OthersPost(p) PROVE NobodyWaitsInVain'
  BY <1>1, <1>12 DEF OthersPost
<1>13. CASE UNCHANGED vars
  BY <1>1, <1>13 DEF vars
<1>. QED
  BY <1>4, <1>5, <1>6, <1>7, <1>8, <1>9, <1>10, <1>11, <1>12, <1>13 DEF Next

\* Nobody is parked at a write that is not queued, and the head of the queue is
\* always the write its caller is parked at: no call and no tap can be left waiting.
THEOREM NobodyIsLeftWaiting == Spec => []NobodyWaitsInVain
<1>1. Init => NobodyWaitsInVain
  BY DEF Init, NobodyWaitsInVain, WaitersHaveWrites, WritesAwaited, OneWriteEach, Waits,
         IdleCall, CallAt, IdleTap
<1>2. TypeInv /\ NobodyWaitsInVain /\ [Next]_vars => NobodyWaitsInVain'
  BY WaitStep
<1>. QED BY <1>1, <1>2, TypeAlways, PTL DEF Spec

\* The whole inductive invariant, as the runs check it on small instances.
THEOREM InvariantHolds == Spec => []IInv
BY HeartsAlways, QueueAlways, CountsMatchHearts, NobodyIsLeftWaiting, PTL DEF IInv

=============================================================================
