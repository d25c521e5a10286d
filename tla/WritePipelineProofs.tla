------------------------- MODULE WritePipelineProofs --------------------------
(***************************************************************************)
(* Proofs about WritePipeline for every set of users, every size of the    *)
(* pipeline and any number of writes and disruptions.                      *)
(*                                                                         *)
(* Answers name no write, and callbacks and waits are found by batch id    *)
(* alone, so all rests on how the rows of a queue are numbered             *)
(* (RowsNumbered) and on the stream, the wire and the pipeline telling the *)
(* same story (Consistent), which FillWritePipeline must keep wherever it  *)
(* is called from (FillKeepsConsistent).  With it each step is one of      *)
(* WriteQueue's or changes nothing there.                                  *)
(***************************************************************************)
EXTENDS WritePipeline, TLAPS, SequenceTheorems, WellFoundedInduction

-----------------------------------------------------------------------------
(* Sequences of rows.                                                      *)

\* A non-empty set of numbers up to n has a greatest.
LEMMA GreatestExists ==
  ASSUME NEW n \in Nat, NEW S \in SUBSET (0..n), S # {}
  PROVE  \E m \in S : \A k \in S : k <= m
<1> DEFINE T == {n - k : k \in S}
           R == OpToRel(<, Nat)
<1>1. IsWellFoundedOn(R, Nat)
  BY NatLessThanWellFounded
<1>2. T \subseteq Nat /\ T # {}
  <2>1. PICK s \in S : TRUE
    OBVIOUS
  <2>2. n - s \in T
    BY <2>1
  <2>3. \A k \in S : n - k \in Nat
    OBVIOUS
  <2>. QED BY <2>2, <2>3
<1>3. \A x, y \in Nat : x < y => <<x, y>> \in R
  BY DEF OpToRel
<1>4. \A k \in S : n - k \in T
  OBVIOUS
<1> HIDE DEF R, T
<1>5. PICK x \in T : \A y \in T : ~ (<<y, x>> \in R)
  BY <1>1, <1>2, WFMin
<1>6. \A y \in T : ~(y < x)
  BY <1>2, <1>3, <1>5
<1>7. PICK m \in S : x = n - m
  BY <1>5 DEF T
<1>8. \A k \in S : ~(n - k < n - m)
  BY <1>4, <1>6, <1>7
<1>. QED BY <1>7, <1>8

\* Rows are numbered in their order.
Grows(q) ==
  \A i, j \in DOMAIN q : i < j => q[i].id < q[j].id /\ q[i].num < q[j].num

\* p is the first rows of q.
First(p, q) == Len(p) <= Len(q) /\ p = SubSeq(q, 1, Len(p))

LEMMA BatchesAssociate ==
  ASSUME NEW a \in Seq(Batch), NEW b \in Seq(Batch), NEW c \in Seq(Batch)
  PROVE  (a \o b) \o c = a \o (b \o c)
<1>1. \A r, s, t \in Seq(Batch) : (r \o s) \o t = r \o (s \o t)
  BY ConcatAssociative, SMTT(60)
<1>. QED BY <1>1

LEMMA BatchType ==
  \A b \in Batch : b.id \in Nat \ {0} /\ b.num \in Nat /\ b.num \in Nums
BY WriteBoundsAssumption DEF Batch, Nums

LEMMA FirstPointwise ==
  ASSUME NEW q \in Seq(Batch), NEW p \in Seq(Batch)
  PROVE  First(p, q) <=> Len(p) <= Len(q) /\ \A i \in 1..Len(p) : p[i] = q[i]
<1>1. Len(p) \in Nat /\ Len(q) \in Nat /\ \A i \in 1..Len(q) : q[i] \in Batch
  BY LenProperties
<1>2. ASSUME Len(p) <= Len(q)
      PROVE  /\ SubSeq(q, 1, Len(p)) \in Seq(Batch)
             /\ Len(SubSeq(q, 1, Len(p))) = Len(p)
             /\ \A i \in 1..Len(p) : SubSeq(q, 1, Len(p))[i] = q[i]
  <2>1. \A i \in 1..Len(p) : q[i] \in Batch
    BY <1>1, <1>2
  <2>. QED BY <1>1, <2>1, SubSeqProperties
<1>3. First(p, q) => Len(p) <= Len(q) /\ \A i \in 1..Len(p) : p[i] = q[i]
  BY <1>2 DEF First
<1>4. ASSUME Len(p) <= Len(q), \A i \in 1..Len(p) : p[i] = q[i]
      PROVE  First(p, q)
  BY <1>2, <1>4, SeqEqual DEF First
<1>. QED BY <1>3, <1>4

\* A new row keeps the order when its numbers exceed the others'.
\* More rows behind q change nothing of its first ones.
LEMMA FirstOfMore ==
  ASSUME NEW q \in Seq(Batch), NEW b \in Batch, NEW p \in Seq(Batch), First(p, q)
  PROVE  Append(q, b) \in Seq(Batch) /\ First(p, Append(q, b))
<1>1. Len(p) \in Nat /\ Len(q) \in Nat /\ Len(p) <= Len(q) /\ \A i \in 1..Len(p) : p[i] = q[i]
  BY FirstPointwise, LenProperties
<1>2. /\ Append(q, b) \in Seq(Batch) /\ Len(Append(q, b)) = Len(q) + 1
      /\ \A i \in 1..Len(q) : Append(q, b)[i] = q[i]
  BY AppendProperties
<1>3. Len(p) <= Len(Append(q, b)) /\ \A i \in 1..Len(p) : p[i] = Append(q, b)[i]
  BY <1>1, <1>2
<1>. QED BY <1>2, <1>3, FirstPointwise

LEMMA GrowsAppend ==
  ASSUME NEW q \in Seq(Batch), NEW b \in Batch, Grows(q),
         \A i \in DOMAIN q : q[i].id < b.id /\ q[i].num < b.num
  PROVE  /\ Append(q, b) \in Seq(Batch) /\ Append(q, b) # <<>> /\ Grows(Append(q, b))
         /\ Len(Append(q, b)) = Len(q) + 1
         /\ DOMAIN Append(q, b) = 1..(Len(q) + 1) /\ DOMAIN q = 1..Len(q)
         /\ Append(q, b)[Len(q) + 1] = b
         /\ \A i \in DOMAIN q : Append(q, b)[i] = q[i]
<1>1. /\ Len(q) \in Nat /\ DOMAIN q = 1..Len(q)
      /\ Append(q, b) \in Seq(Batch) /\ Append(q, b) # <<>>
      /\ Len(Append(q, b)) = Len(q) + 1
      /\ DOMAIN Append(q, b) = 1..(Len(q) + 1)
      /\ Append(q, b)[Len(q) + 1] = b
      /\ \A i \in 1..Len(q) : Append(q, b)[i] = q[i]
  BY LenProperties, AppendProperties
<1>2. ASSUME NEW i \in 1..(Len(q) + 1), NEW j \in 1..(Len(q) + 1), i < j
      PROVE  Append(q, b)[i].id < Append(q, b)[j].id /\ Append(q, b)[i].num < Append(q, b)[j].num
  <2>1. CASE j = Len(q) + 1
    BY <1>1, <1>2, <2>1
  <2>2. CASE j \in 1..Len(q)
    BY <1>1, <1>2, <2>2 DEF Grows
  <2>. QED BY <1>1, <2>1, <2>2
<1>. QED BY <1>1, <1>2 DEF Grows

\* The queue behind its oldest row.
LEMMA GrowsTail ==
  ASSUME NEW q \in Seq(Batch), q # <<>>, Grows(q)
  PROVE  /\ Tail(q) \in Seq(Batch) /\ Grows(Tail(q))
         /\ Head(q) \in Batch /\ Head(q) = q[1]
         /\ Len(q) \in Nat \ {0} /\ DOMAIN q = 1..Len(q)
         /\ Len(Tail(q)) = Len(q) - 1 /\ DOMAIN Tail(q) = 1..(Len(q) - 1)
         /\ \A i \in 1..(Len(q) - 1) : Tail(q)[i] = q[i + 1]
         /\ \A i \in DOMAIN q : i # 1 => Head(q).id < q[i].id /\ Head(q).num < q[i].num
<1>1. /\ Len(q) \in Nat \ {0} /\ DOMAIN q = 1..Len(q)
      /\ Tail(q) \in Seq(Batch) /\ Head(q) \in Batch /\ Head(q) = q[1]
      /\ Len(Tail(q)) = Len(q) - 1 /\ DOMAIN Tail(q) = 1..(Len(q) - 1)
      /\ \A i \in 1..(Len(q) - 1) : Tail(q)[i] = q[i + 1]
  BY LenProperties, HeadTailProperties, EmptySeq
<1>2. Grows(Tail(q))
  BY <1>1 DEF Grows
<1>. QED BY <1>1, <1>2 DEF Grows

\* RemoveMutationBatch of the oldest row.
LEMMA RowsWithoutOldest ==
  ASSUME NEW q \in Seq(Batch), q # <<>>, Grows(q)
  PROVE  RowsWithout(q, Head(q).id) = Tail(q)
<1>1. \A i \in DOMAIN q : q[i].id = Head(q).id <=> i = 1
  BY GrowsTail, BatchType, LenProperties
<1>2. 1 \in DOMAIN q
  BY GrowsTail
<1> DEFINE k == CHOOSE i \in DOMAIN q : q[i].id = Head(q).id
<1>3. k = 1
  BY <1>1, <1>2
<1>4. SubSeq(q, 1, 0) = <<>> /\ SubSeq(q, 2, Len(q)) = Tail(q)
  BY SubSeqEmpty, TailIsSubSeq
<1>5. <<>> \o Tail(q) = Tail(q)
  BY ConcatEmptySeq, GrowsTail
<1>6. RowsWithout(q, Head(q).id) = SubSeq(q, 1, k - 1) \o SubSeq(q, k + 1, Len(q))
  BY DEF RowsWithout
<1> HIDE DEF k
<1>7. k - 1 = 0 /\ k + 1 = 2
  BY <1>3
<1>. QED BY <1>4, <1>5, <1>6, <1>7

\* The rows up to that of row m's id are the first m.
LEMMA PassedIs ==
  ASSUME NEW q \in Seq(Batch), Grows(q), NEW m \in 1..Len(q)
  PROVE  Passed(q, q[m].id) = m
<1>1. Len(q) \in Nat /\ DOMAIN q = 1..Len(q) /\ \A i \in 1..Len(q) : q[i].id \in Nat
  BY LenProperties, BatchType
<1>2. m \in 0..Len(q) /\ \A i \in DOMAIN q : i <= m <=> q[i].id <= q[m].id
  BY <1>1 DEF Grows
<1>3. ASSUME NEW k \in 0..Len(q), \A i \in DOMAIN q : i <= k <=> q[i].id <= q[m].id
      PROVE  k = m
  <2>1. m <= k
    BY <1>1, <1>3
  <2>2. CASE k > m
    <3>1. m + 1 \in DOMAIN q /\ m + 1 <= k
      BY <1>1, <2>2
    <3>2. q[m + 1].id <= q[m].id
      BY <1>3, <3>1
    <3>3. q[m].id < q[m + 1].id
      BY <1>1, <3>1 DEF Grows
    <3>. QED BY <1>1, <3>1, <3>2, <3>3
  <2>. QED BY <1>1, <2>1, <2>2
<1>. QED BY <1>2, <1>3 DEF Passed

\* What FillWritePipeline adds goes on where the pipeline ends.
LEMMA RefillContinues ==
  ASSUME NEW q \in Seq(Batch), Grows(q), NEW p \in Seq(Batch), First(p, q), NEW on \in BOOLEAN
  PROVE  LET new == Refill(on, p, q) IN
         /\ new \in Seq(Batch) /\ p \o new \in Seq(Batch)
         /\ First(p \o new, q)
         /\ ~on => new = <<>>
         /\ on /\ p = <<>> /\ q # <<>> => new # <<>>
         /\ on /\ Len(p) <= MaxPendingWrites =>
              Len(p \o new) = IF MaxPendingWrites < Len(q) THEN MaxPendingWrites ELSE Len(q)
<1> DEFINE rows == RowsAfter(p, q)
           room == MaxPendingWrites - Len(p)
           n == IF room < Len(rows) THEN room ELSE Len(rows)
           new == Refill(on, p, q)
<1>1. Len(p) \in Nat /\ Len(q) \in Nat /\ \A i \in 1..Len(q) : q[i] \in Batch
  BY LenProperties
<1>2. Len(p) <= Len(q) /\ \A i \in 1..Len(p) : p[i] = q[i]
  BY FirstPointwise
<1>3. /\ rows \in Seq(Batch) /\ Len(rows) = Len(q) - Len(p)
      /\ \A i \in 1..Len(rows) : rows[i] = q[Len(p) + i]
  <2>1. CASE p = <<>>
    <3>1. Len(p) = 0
      BY <2>1, EmptySeq
    <3>. QED BY <1>1, <2>1, <3>1 DEF RowsAfter
  <2>2. CASE p # <<>>
    <3>1. Len(p) \in 1..Len(q)
      BY <1>1, <1>2, <2>2, EmptySeq
    <3>2. Passed(q, p[Len(p)].id) = Len(p)
      BY <1>2, <3>1, PassedIs
    <3>3. rows = SubSeq(q, Len(p) + 1, Len(q))
      BY <2>2, <3>2 DEF RowsAfter
    <3>4. \A i \in (Len(p) + 1)..Len(q) : q[i] \in Batch
      BY <1>1
    <3>5. /\ SubSeq(q, Len(p) + 1, Len(q)) \in Seq(Batch)
          /\ Len(SubSeq(q, Len(p) + 1, Len(q))) = Len(q) - Len(p)
          /\ \A i \in 1..(Len(q) - Len(p)) : SubSeq(q, Len(p) + 1, Len(q))[i] = q[Len(p) + i]
      <4> DEFINE from == Len(p) + 1
      <4>1. from \in Int /\ Len(q) \in Int
        BY <1>1
      <4>2. /\ SubSeq(q, from, Len(q)) \in Seq(Batch)
            /\ Len(SubSeq(q, from, Len(q))) = IF from <= Len(q) THEN Len(q) - from + 1 ELSE 0
            /\ \A i \in 1..(Len(q) - from + 1) : SubSeq(q, from, Len(q))[i] = q[from + i - 1]
        BY <3>4, <4>1, SubSeqProperties
      <4>. QED BY <1>1, <1>2, <4>2
    <3>. QED BY <3>3, <3>5
  <2>. QED BY <2>1, <2>2
<1>4. Len(rows) \in Nat /\ room \in Int /\ n \in Int /\ n <= Len(rows)
  BY <1>1, <1>2, <1>3, MaxPendingAssumption
<1>5. new = IF on THEN SubSeq(rows, 1, n) ELSE <<>>
  BY DEF Refill
<1>6. CASE ~on
  <2>1. new = <<>> /\ new \in Seq(Batch)
    BY <1>5, <1>6
  <2>2. p \o new = p
    BY <2>1, ConcatEmptySeq
  <2>. QED BY <1>6, <2>1, <2>2
<1>7. CASE on
  <2> HIDE DEF rows, n, new
  <2>1. \A i \in 1..n : rows[i] \in Batch
    BY <1>1, <1>2, <1>3, <1>4
  <2>2. /\ new \in Seq(Batch)
        /\ Len(new) = IF 1 <= n THEN n ELSE 0
        /\ \A i \in 1..n : new[i] = rows[i]
    BY <1>4, <1>5, <1>7, <2>1, SubSeqProperties
  <2>3. /\ p \o new \in Seq(Batch) /\ Len(p \o new) = Len(p) + Len(new)
        /\ \A i \in 1..(Len(p) + Len(new)) :
             (p \o new)[i] = IF i <= Len(p) THEN p[i] ELSE new[i - Len(p)]
    BY <2>2, ConcatProperties
  <2>4. Len(p \o new) <= Len(q)
    BY <1>1, <1>2, <1>3, <1>4, <2>2, <2>3
  <2>5. ASSUME NEW i \in 1..Len(p \o new) PROVE (p \o new)[i] = q[i]
    <3>1. CASE i <= Len(p)
      BY <1>1, <1>2, <2>2, <2>3, <3>1
    <3>2. CASE i > Len(p)
      <4>1. i - Len(p) \in 1..n /\ i - Len(p) \in 1..Len(rows)
        BY <1>1, <1>4, <2>2, <2>3, <3>2
      <4>2. new[i - Len(p)] = rows[i - Len(p)] /\ rows[i - Len(p)] = q[Len(p) + (i - Len(p))]
        BY <1>3, <2>2, <4>1
      <4>3. (p \o new)[i] = new[i - Len(p)] /\ Len(p) + (i - Len(p)) = i
        BY <1>1, <2>2, <2>3, <3>2
      <4>. QED BY <4>2, <4>3
    <3>. QED BY <1>1, <3>1, <3>2
  <2>6. First(p \o new, q)
    BY <2>3, <2>4, <2>5, FirstPointwise
  <2>7. ASSUME p = <<>>, q # <<>> PROVE new # <<>>
    <3>1. Len(p) = 0 /\ Len(q) \in Nat \ {0}
      BY <2>7, EmptySeq
    <3>2. 1 <= n
      BY <1>3, <3>1, MaxPendingAssumption DEF n
    <3>. QED BY <1>4, <2>2, <3>2, EmptySeq
  <2>8. ASSUME Len(p) <= MaxPendingWrites
        PROVE  Len(p \o new) = IF MaxPendingWrites < Len(q) THEN MaxPendingWrites ELSE Len(q)
    BY <1>1, <1>2, <1>3, <2>2, <2>3, <2>8, MaxPendingAssumption DEF n
  <2>. QED BY <1>7, <2>2, <2>3, <2>6, <2>7, <2>8 DEF new
<1>. QED BY <1>6, <1>7

-----------------------------------------------------------------------------
(* The invariant.                                                          *)

Stream == [state: States, handshaken: BOOLEAN, idle: BOOLEAN]
Wire   == [requests: Seq(Batch), responses: Seq(Batch), refused: BOOLEAN]

\* Network `on', pipeline p, queue q, stream s and its wire w tell one story.
Consistent(on, p, q, s, w) ==
  /\ First(p, q)
  /\ IF Live(s) THEN w.responses \o w.requests = p ELSE w = Silent
  /\ s.idle => Live(s) /\ p = <<>>
  /\ s.handshaken => s.state = "Open"
  /\ Started(s) /\ ~Live(s) => p # <<>>
  /\ ~on => p = <<>> /\ ~Started(s)
  /\ w.refused => w.requests # <<>>

\* In each queue batch ids and writes ascend; nothing issued later has either;
\* no write is in two queues.
RowsNumbered ==
  /\ \A u \in Users : Grows(queue[u])
  /\ \A u \in Users : \A i \in DOMAIN queue[u] :
       queue[u][i].id < nextId /\ queue[u][i].num <= issued
  /\ \A u, v \in Users : \A i \in DOMAIN queue[u], j \in DOMAIN queue[v] :
       queue[u][i].num = queue[v][j].num => u = v

\* Each callback waits for a row of its user's queue.
CallbacksQueued ==
  \A u \in Users : \A c \in callbacks[u] : \E i \in DOMAIN queue[u] : queue[u][i] = c

\* A wait hangs on an id that none of the writes it waits for exceeds.
WaitsCover ==
  \A w \in waits : \A n \in w.nums :
    /\ n <= issued
    /\ \A i \in DOMAIN queue[user] : queue[user][i].num = n => queue[user][i].id <= w.id

\* The backend answers what it has applied.
AnsweredWereApplied == \A i \in DOMAIN wire.responses : wire.responses[i].num \in applied

\* Only what was issued is applied.
AppliedWereIssued == \A n \in applied : n <= issued

IInv ==
  /\ TypeOK
  /\ RowsNumbered /\ CallbacksQueued /\ WaitsCover
  /\ Consistent(enabled, pipeline, queue[user], stream, wire)
  /\ AnsweredWereApplied /\ AppliedWereIssued /\ AckedWasApplied

-----------------------------------------------------------------------------
(* What keeps the story straight.                                          *)

LEMMA StreamTypes ==
  /\ Stopped \in Stream /\ ~Started(Stopped) /\ ~Live(Stopped) /\ ~Stopped.idle /\ ~Stopped.handshaken
  /\ Failed \in Stream /\ ~Started(Failed) /\ ~Live(Failed) /\ ~Failed.idle /\ ~Failed.handshaken
  /\ \A s \in Stream : ~Started(s) /\ ~s.handshaken =>
       /\ Begun(s) \in Stream /\ Started(Begun(s)) /\ ~Live(Begun(s))
       /\ Begun(s).idle = s.idle /\ ~Begun(s).handshaken
  /\ Silent \in Wire /\ Silent.requests = <<>> /\ Silent.responses = <<>> /\ ~Silent.refused
<1>1. <<>> \in Seq(Batch)
  BY EmptySeq
<1>. QED BY <1>1 DEF Stopped, Failed, Begun, Started, Live, Stream, States, Silent, Wire

\* A pipeline that starts the queue still does when it is filled, and the stream
\* carries what is added.
LEMMA FillKeepsConsistent ==
  ASSUME NEW on \in BOOLEAN, NEW p \in Seq(Batch), NEW q \in Seq(Batch), NEW s \in Stream,
         NEW w \in Wire, Grows(q), Consistent(on, p, q, s, w),
         FillWritePipeline(on, p, q, s, w)
  PROVE  /\ pipeline' \in Seq(Batch) /\ stream' \in Stream /\ wire' \in Wire
         /\ Consistent(on, pipeline', q, stream', wire')
         /\ wire'.responses = w.responses
<1> DEFINE new == Refill(on, p, q)
<1>1. /\ new \in Seq(Batch) /\ p \o new \in Seq(Batch) /\ First(p \o new, q)
      /\ ~on => new = <<>>
  BY RefillContinues DEF Consistent
<1>2. p \o new = <<>> => p = <<>> /\ new = <<>>
  BY <1>1, ConcatEqualIffEmpty
<1>3. new = <<>> => p \o new = p
  BY ConcatEmptySeq
<1>4. /\ pipeline' = p \o new
      /\ wire' = IF Live(s) THEN [w EXCEPT !.requests = @ \o new] ELSE w
      /\ stream' = StreamAfterFill(on, p, new, s)
  BY DEF FillWritePipeline
<1> HIDE DEF new
<1>5. w.requests \in Seq(Batch) /\ w.responses \in Seq(Batch)
  BY DEF Wire
<1>6. /\ wire' \in Wire /\ wire'.responses = w.responses /\ wire'.refused = w.refused
      /\ wire'.requests = IF Live(s) THEN w.requests \o new ELSE w.requests
  BY <1>1, <1>4, <1>5, ConcatProperties DEF Wire
<1>7. Live(s) => wire'.responses \o wire'.requests = pipeline'
  <2>1. (w.responses \o w.requests) \o new = w.responses \o (w.requests \o new)
    <3> DEFINE a == w.responses
               b == w.requests
    <3>1. a \in Seq(Batch) /\ b \in Seq(Batch) /\ new \in Seq(Batch)
      BY <1>1, <1>5
    <3> HIDE DEF a, b
    <3>2. (a \o b) \o new = a \o (b \o new)
      BY <3>1, BatchesAssociate, SMTT(60)
    <3>. QED BY <3>2 DEF a, b
  <2>2. Live(s) => w.responses \o w.requests = p
    BY DEF Consistent
  <2>. QED BY <1>4, <1>6, <2>1, <2>2
<1>8. wire'.refused => wire'.requests # <<>>
  BY <1>1, <1>5, <1>6, ConcatEqualIffEmpty DEF Consistent
<1>9. CASE ~on
  <2>1. stream' = s /\ ~Live(s) /\ pipeline' = p /\ wire' = w
    BY <1>1, <1>3, <1>4, <1>9 DEF StreamAfterFill, Consistent, Started, Live
  <2>. QED BY <1>1, <1>6, <2>1
<1>10. CASE on /\ p \o new = <<>>
  <2>1. s.state = "Open" <=> Live(s)
    BY <1>2, <1>10 DEF Consistent, Started, Live
  <2>2. /\ stream' \in Stream /\ stream'.state = s.state /\ stream'.handshaken = s.handshaken
        /\ stream'.idle = (s.state = "Open")
    BY <1>4, <1>10 DEF StreamAfterFill, Stream
  <2>3. (Live(stream') <=> Live(s)) /\ (Started(stream') <=> Started(s))
    BY <2>2 DEF Live, Started
  <2>. QED BY <1>1, <1>2, <1>4, <1>6, <1>7, <1>8, <1>10, <2>1, <2>2, <2>3 DEF Consistent
<1>11. CASE on /\ p \o new # <<>> /\ ~Started(s)
  <2>1. ~Live(s) /\ ~s.idle /\ ~s.handshaken
    BY <1>11 DEF Consistent, Live, Started
  <2>2. stream' = Begun(s) /\ wire' = w
    BY <1>4, <1>11, <2>1 DEF StreamAfterFill
  <2>3. /\ stream' \in Stream /\ Started(stream') /\ ~Live(stream')
        /\ ~stream'.idle /\ ~stream'.handshaken
    BY <1>11, <2>1, <2>2, StreamTypes
  <2>. QED BY <1>1, <1>4, <1>6, <1>11, <2>1, <2>2, <2>3 DEF Consistent
<1>12. CASE on /\ p \o new # <<>> /\ Started(s) /\ Live(s) /\ new # <<>>
  <2>1. /\ stream' \in Stream /\ stream'.state = s.state /\ stream'.handshaken = s.handshaken
        /\ ~stream'.idle
    BY <1>4, <1>12 DEF StreamAfterFill, Stream
  <2>2. Live(stream')
    BY <1>12, <2>1 DEF Live
  <2>. QED BY <1>1, <1>4, <1>6, <1>7, <1>8, <1>12, <2>1, <2>2 DEF Consistent
<1>13. CASE on /\ p \o new # <<>> /\ Started(s) /\ ~(Live(s) /\ new # <<>>)
  <2>1. stream' = s
    BY <1>4, <1>13 DEF StreamAfterFill
  <2>2. s.idle => FALSE
    BY <1>3, <1>13 DEF Consistent
  <2>. QED BY <1>1, <1>4, <1>6, <1>7, <1>8, <1>13, <2>1, <2>2 DEF Consistent
<1>. QED BY <1>4, <1>6, <1>1, <1>9, <1>10, <1>11, <1>12, <1>13

\* What restarts the streams fills an empty pipeline over a stream that stopped.
LEMMA FreshConsistent ==
  ASSUME NEW q \in Seq(Batch), NEW s \in Stream, ~Started(s), ~s.idle, ~s.handshaken
  PROVE  /\ \A on \in BOOLEAN : Consistent(on, <<>>, q, s, Silent)
         /\ \A p \in Seq(Batch) : First(p, q) => Consistent(TRUE, p, q, s, Silent)
<1>1. First(<<>>, q)
  <2>1. Len(<<>>) = 0 /\ Len(q) \in Nat /\ SubSeq(q, 1, 0) = <<>>
    BY LenProperties, SubSeqEmpty
  <2>. QED BY <2>1 DEF First
<1>. QED BY <1>1, StreamTypes DEF Consistent, Live, Started

\* The parts of the invariant, and the shape of the current user's queue.
LEMMA Parts ==
  ASSUME IInv
  PROVE  /\ TypeOK /\ RowsNumbered /\ CallbacksQueued /\ WaitsCover
         /\ Consistent(enabled, pipeline, queue[user], stream, wire)
         /\ AnsweredWereApplied /\ AppliedWereIssued /\ AckedWasApplied
         /\ user \in Users /\ queue[user] \in Seq(Batch) /\ Grows(queue[user])
         /\ enabled \in BOOLEAN /\ pipeline \in Seq(Batch) /\ stream \in Stream
         /\ wire \in Wire /\ wire.requests \in Seq(Batch) /\ wire.responses \in Seq(Batch)
         /\ issued \in Nat
BY WriteBoundsAssumption DEF IInv, TypeOK, RowsNumbered, Stream, Wire

\* An id that no row has: any id is below the next.
LEMMA NextIdIsNew ==
  ASSUME TypeOK, RowsNumbered
  PROVE  /\ LoadNextBatchIdFromDb(queue) \in Nat \ {0}
         /\ \A u \in Users : \A i \in DOMAIN queue[u] : queue[u][i].id < LoadNextBatchIdFromDb(queue)
<1> DEFINE ids == {0} \cup UNION {{queue[u][i].id : i \in DOMAIN queue[u]} : u \in Users}
           top == CHOOSE m \in ids : \A k \in ids : k <= m
<1>1. \A u \in Users : \A i \in DOMAIN queue[u] : queue[u][i].id \in Nat /\ queue[u][i].id < nextId
  BY BatchType, LenProperties DEF TypeOK, RowsNumbered
<1>2. nextId \in Nat
  BY DEF TypeOK
<1>3. ids \in SUBSET (0..nextId) /\ ids # {}
  BY <1>1, <1>2
<1>4. \E m \in ids : \A k \in ids : k <= m
  BY <1>2, <1>3, GreatestExists
<1>5. top \in ids /\ \A k \in ids : k <= top
  BY <1>4
<1>6. \A u \in Users : \A i \in DOMAIN queue[u] : queue[u][i].id \in ids
  OBVIOUS
<1>7. LoadNextBatchIdFromDb(queue) = 1 + top
  BY DEF LoadNextBatchIdFromDb
<1> HIDE DEF ids, top
<1>8. top \in Nat
  BY <1>2, <1>3, <1>5
<1>9. \A u \in Users : \A i \in DOMAIN queue[u] : queue[u][i].id <= top
  BY <1>5, <1>6
<1>. QED BY <1>1, <1>7, <1>8, <1>9

LEMMA InitInv == Init => IInv
<1>1. SUFFICES ASSUME Init PROVE IInv
  OBVIOUS
<1>2. <<>> \in Seq(Batch) /\ DOMAIN <<>> = {} /\ \A u \in Users : queue[u] = <<>>
  BY <1>1, EmptySeq DEF Init
<1>3. TypeOK
  BY <1>1, <1>2, StreamTypes, WriteBoundsAssumption DEF Init, TypeOK, Stream, Wire
<1>4. Consistent(enabled, pipeline, queue[user], stream, wire)
  BY <1>1, <1>2, StreamTypes, FreshConsistent DEF Init
<1>5. RowsNumbered /\ CallbacksQueued /\ WaitsCover
  BY <1>1, <1>2 DEF Init, RowsNumbered, CallbacksQueued, WaitsCover, Grows
<1>6. AnsweredWereApplied /\ AppliedWereIssued /\ AckedWasApplied
  BY <1>1, <1>2, StreamTypes DEF Init, AnsweredWereApplied, AppliedWereIssued, AckedWasApplied
<1>. QED BY <1>3, <1>4, <1>5, <1>6 DEF IInv

-----------------------------------------------------------------------------
(* Steps of the stream and the network, which leave the queue alone.       *)

LEMMA RemoteStep ==
  ASSUME IInv, UNCHANGED <<local, issued, told>>,
         enabled' \in BOOLEAN, pipeline' \in Seq(Batch), stream' \in Stream, wire' \in Wire,
         Consistent(enabled', pipeline', queue[user], stream', wire'),
         wire'.responses \in {<<>>, wire.responses}, applied' = applied,
         disruptions' \in 0..MaxDisruptions
  PROVE  IInv'
<1>1. TypeOK'
  BY Parts DEF TypeOK, local, Stream, Wire
<1>2. RowsNumbered' /\ CallbacksQueued' /\ WaitsCover'
  BY Parts DEF RowsNumbered, CallbacksQueued, WaitsCover, local
<1>3. Consistent(enabled, pipeline, queue[user], stream, wire)'
  BY DEF local, Consistent
<1>4. AnsweredWereApplied'
  BY Parts DEF AnsweredWereApplied
<1>5. AppliedWereIssued' /\ AckedWasApplied'
  BY Parts DEF AppliedWereIssued, AckedWasApplied
<1>. QED BY <1>1, <1>2, <1>3, <1>4, <1>5 DEF IInv

\* The network goes, or comes back with nothing on the wire.
LEMMA NetworkInv ==
  ASSUME IInv, DisableNetwork \/ EnableNetwork \/ ConnectivityChanged
  PROVE  IInv'
<1>1. /\ StoppedStream \in Stream /\ ~Started(StoppedStream) /\ ~StoppedStream.idle
      /\ ~StoppedStream.handshaken
  BY Parts, StreamTypes DEF StoppedStream, Consistent, Started, Live
<1>2. <<>> \in Seq(Batch)
  BY EmptySeq
<1>3. CASE DisableNetwork
  <2>1. Consistent(FALSE, <<>>, queue[user], StoppedStream, Silent)
    BY <1>1, Parts, FreshConsistent
  <2>2. disruptions' \in 0..MaxDisruptions
    BY <1>3, Parts, WriteBoundsAssumption DEF DisableNetwork, Disrupt, TypeOK
  <2>. QED BY <1>1, <1>2, <1>3, <2>1, <2>2, StreamTypes, RemoteStep DEF DisableNetwork, history
<1>4. CASE EnableNetwork
  <2>1. pipeline = <<>> /\ ~Started(stream) /\ ~stream.idle /\ ~stream.handshaken
    BY <1>4, Parts DEF EnableNetwork, Consistent, Started, Live
  <2>2. wire = Silent
    BY <2>1, Parts DEF Consistent, Live, Started
  <2>3. Consistent(TRUE, <<>>, queue[user], stream, wire)
    BY <2>1, <2>2, Parts, FreshConsistent
  <2>4. /\ pipeline' \in Seq(Batch) /\ stream' \in Stream /\ wire' \in Wire
        /\ Consistent(TRUE, pipeline', queue[user], stream', wire')
        /\ wire'.responses = wire.responses
    BY <1>2, <1>4, <2>3, Parts, FillKeepsConsistent DEF EnableNetwork
  <2>. QED BY <1>4, <2>4, Parts, RemoteStep DEF EnableNetwork, history, TypeOK
<1>5. CASE ConnectivityChanged
  <2>1. Consistent(TRUE, <<>>, queue[user], Stopped, Silent)
    BY Parts, StreamTypes, FreshConsistent
  <2>2. /\ pipeline' \in Seq(Batch) /\ stream' \in Stream /\ wire' \in Wire
        /\ Consistent(TRUE, pipeline', queue[user], stream', wire')
        /\ wire'.responses = <<>>
    <3>1. FillWritePipeline(TRUE, <<>>, queue[user], Stopped, Silent)
      BY <1>5 DEF ConnectivityChanged, RestartNetwork
    <3>2. /\ queue[user] \in Seq(Batch) /\ Grows(queue[user])
          /\ Stopped \in Stream /\ Silent \in Wire /\ Silent.responses = <<>>
      BY Parts, StreamTypes
    <3>. QED BY <1>2, <2>1, <3>1, <3>2, FillKeepsConsistent
  <2>3. disruptions' \in 0..MaxDisruptions
    BY <1>5, Parts, WriteBoundsAssumption DEF ConnectivityChanged, Disrupt, TypeOK
  <2>. QED BY <1>5, <2>2, <2>3, RemoteStep DEF ConnectivityChanged, history
<1>. QED BY <1>3, <1>4, <1>5

\* The stream starts, waits, ends or breaks; the backend ends it.
LEMMA StreamInv ==
  ASSUME IInv,
         \/ ResumeStartWithCredentials \/ StreamFailsToStart \/ BackoffElapsed
         \/ OnWriteStreamHandshakeComplete \/ WriteStreamBreaks \/ IdleTimeout
         \/ BackendRefuses
  PROVE  IInv'
<1>1. UNCHANGED <<local, issued, told, enabled, pipeline>> /\ applied' = applied
  BY DEF ResumeStartWithCredentials, StreamFailsToStart, BackoffElapsed, BackendRefuses,
         OnWriteStreamHandshakeComplete, WriteStreamBreaks, IdleTimeout, history
<1>2. disruptions' \in 0..MaxDisruptions
  BY Parts, WriteBoundsAssumption
     DEF ResumeStartWithCredentials, StreamFailsToStart, BackoffElapsed, BackendRefuses,
         OnWriteStreamHandshakeComplete, WriteStreamBreaks, IdleTimeout, Disrupt, TypeOK
<1>3. SUFFICES /\ stream' \in Stream /\ wire' \in Wire
               /\ Consistent(enabled, pipeline, queue[user], stream', wire')
               /\ wire'.responses \in {<<>>, wire.responses}
  BY <1>1, <1>2, Parts, RemoteStep
<1>4. CASE StreamFailsToStart \/ WriteStreamBreaks
  <2>1. enabled /\ stream' = Retried(pipeline) /\ wire' = Silent
    BY <1>4, Parts DEF StreamFailsToStart, WriteStreamBreaks, Consistent, Live, Started
  <2>2. CASE pipeline = <<>>
    <3>1. stream' = Failed
      BY <2>1, <2>2 DEF Retried
    <3>. QED BY <2>1, <2>2, <3>1, Parts, StreamTypes, FreshConsistent
  <2>3. CASE pipeline # <<>>
    <3>1. stream' = Begun(Failed)
      BY <2>1, <2>3 DEF Retried
    <3>2. /\ stream' \in Stream /\ Started(stream') /\ ~Live(stream')
          /\ ~stream'.idle /\ ~stream'.handshaken
      BY <3>1, StreamTypes
    <3>. QED BY <2>1, <2>3, <3>2, Parts, StreamTypes DEF Consistent
  <2>. QED BY <2>2, <2>3
<1>5. CASE ResumeStartWithCredentials \/ BackoffElapsed
  <2>1. /\ wire' = wire /\ ~Live(stream) /\ Started(stream)
        /\ ~stream.handshaken /\ ~stream.idle
    BY <1>5, Parts DEF ResumeStartWithCredentials, BackoffElapsed, Live, Started, Consistent
  <2>2. /\ stream' \in Stream /\ Started(stream') /\ ~Live(stream')
        /\ ~stream'.handshaken /\ ~stream'.idle
    BY <1>5, <2>1, Parts
       DEF ResumeStartWithCredentials, BackoffElapsed, Live, Started, Stream, States
  <2>. QED BY <2>1, <2>2, Parts DEF Consistent
<1>6. CASE OnWriteStreamHandshakeComplete
  <2>1. /\ ~Live(stream) /\ Started(stream) /\ ~stream.idle /\ enabled
        /\ wire = Silent
    BY <1>6, Parts DEF OnWriteStreamHandshakeComplete, Live, Started, Consistent
  <2>2. /\ stream' \in Stream /\ Live(stream') /\ Started(stream') /\ ~stream'.idle
        /\ stream'.state = "Open"
    BY <1>6, <2>1, Parts
       DEF OnWriteStreamHandshakeComplete, Live, Started, Stream, States
  <2>3. /\ wire' \in Wire /\ wire'.responses = <<>> /\ wire'.requests = pipeline
        /\ ~wire'.refused
    BY <1>6, <2>1, Parts, StreamTypes DEF OnWriteStreamHandshakeComplete, Wire
  <2>4. wire'.responses \o wire'.requests = pipeline
    BY <2>3, Parts, ConcatEmptySeq
  <2>. QED BY <2>1, <2>2, <2>3, <2>4, Parts DEF Consistent
<1>7. CASE IdleTimeout
  <2>1. pipeline = <<>> /\ stream' = Stopped /\ wire' = Silent
    BY <1>7, Parts DEF IdleTimeout, Consistent
  <2>. QED BY <2>1, Parts, StreamTypes, FreshConsistent
<1>8. CASE BackendRefuses
  <2>1. /\ wire' \in Wire /\ wire'.responses = wire.responses
        /\ wire'.requests = wire.requests /\ wire.requests # <<>> /\ stream' = stream
    BY <1>8, Parts DEF BackendRefuses, Wire
  <2>2. Live(stream)
    BY <2>1, Parts, StreamTypes DEF Consistent
  <2>. QED BY <2>1, <2>2, Parts DEF Consistent
<1>. QED BY <1>4, <1>5, <1>6, <1>7, <1>8

-----------------------------------------------------------------------------
(* Steps of the app, the user and the process.                             *)

\* The batch goes to the end of the queue under numbers nobody has.
LEMMA WriteInv ==
  ASSUME IInv, WriteMutations
  PROVE  IInv'
<1> DEFINE b == [id |-> nextId, num |-> issued + 1]
           q == queue[user]
<1>1. /\ nextId \in Nat \ {0} /\ issued \in Nat /\ issued + 1 \in Nums /\ user \in Users
      /\ queue \in [Users -> Seq(Batch)] /\ q \in Seq(Batch) /\ Grows(q)
  BY Parts, WriteBoundsAssumption DEF TypeOK, WriteMutations, Nums
<1>2. b \in Batch /\ b.id = nextId /\ b.num = issued + 1
  BY <1>1 DEF Batch
<1>3. \A i \in DOMAIN q : q[i].id < b.id /\ q[i].num < b.num
  BY <1>1, <1>2, Parts, BatchType, LenProperties DEF RowsNumbered
<1>4. /\ Append(q, b) \in Seq(Batch) /\ Append(q, b) # <<>> /\ Grows(Append(q, b))
      /\ Len(Append(q, b)) = Len(q) + 1
      /\ DOMAIN Append(q, b) = 1..(Len(q) + 1) /\ DOMAIN q = 1..Len(q)
      /\ Append(q, b)[Len(q) + 1] = b
      /\ \A i \in DOMAIN q : Append(q, b)[i] = q[i]
  BY <1>1, <1>2, <1>3, GrowsAppend
<1>5. /\ queue' = [queue EXCEPT ![user] = Append(q, b)]
      /\ nextId' = nextId + 1 /\ issued' = issued + 1
      /\ callbacks' = [callbacks EXCEPT ![user] = @ \cup {b}]
      /\ FillWritePipeline(enabled, pipeline, Append(q, b), stream, wire)
      /\ UNCHANGED <<user, waits, enabled, applied, told, disruptions>>
  BY <1>1 DEF WriteMutations
<1> HIDE DEF b, q
<1>6. queue'[user] = Append(q, b) /\ \A u \in Users : u # user => queue'[u] = queue[u]
  BY <1>1, <1>5
<1>17. /\ enabled \in BOOLEAN /\ pipeline \in Seq(Batch) /\ stream \in Stream /\ wire \in Wire
      /\ Consistent(enabled, pipeline, q, stream, wire)
      /\ callbacks \in [Users -> SUBSET Batch]
  BY Parts DEF q, TypeOK
<1>7. Consistent(enabled, pipeline, Append(q, b), stream, wire)
  <2>4. First(pipeline, Append(q, b))
    BY <1>1, <1>2, <1>17, FirstOfMore DEF Consistent
  <2>. QED BY <1>17, <2>4 DEF Consistent
<1>8. /\ pipeline' \in Seq(Batch) /\ stream' \in Stream /\ wire' \in Wire
      /\ Consistent(enabled, pipeline', Append(q, b), stream', wire')
      /\ wire'.responses = wire.responses
  BY <1>4, <1>5, <1>7, <1>17, FillKeepsConsistent
<1>9. TypeOK'
  <2>1. queue' \in [Users -> Seq(Batch)]
    BY <1>1, <1>4, <1>5
  <2>2. callbacks' \in [Users -> SUBSET Batch]
    BY <1>1, <1>2, <1>5, Parts DEF TypeOK
  <2>3. nextId' \in Nat \ {0} /\ issued' \in 0..MaxWrites
    BY <1>1, <1>5, WriteBoundsAssumption DEF Nums
  <2>. QED BY <1>5, <1>8, <2>1, <2>2, <2>3, Parts DEF TypeOK, Stream, Wire
<1>10. ASSUME NEW u \in Users, NEW i \in DOMAIN queue'[u]
       PROVE  \/ i \in DOMAIN queue[u] /\ queue'[u][i] = queue[u][i]
              \/ u = user /\ queue'[u][i] = b
  BY <1>1, <1>4, <1>6 DEF q
<1>11. \A u \in Users : \A i \in DOMAIN queue[u] :
         /\ i \in DOMAIN queue'[u] /\ queue'[u][i] = queue[u][i]
         /\ queue[u][i].id \in Nat /\ queue[u][i].num \in Nat
         /\ queue[u][i].id < nextId /\ queue[u][i].num <= issued
  <2>1. \A u \in Users : \A i \in DOMAIN queue[u] :
          /\ i \in DOMAIN queue'[u] /\ queue'[u][i] = queue[u][i] /\ queue[u][i] \in Batch
    <3>1. \A u \in Users : \A i \in DOMAIN queue[u] : queue[u][i] \in Batch
      BY <1>1, LenProperties
    <3>2. \A i \in DOMAIN queue[user] : i \in DOMAIN queue'[user] /\ queue'[user][i] = queue[user][i]
      <4>1. Len(q) \in Nat
        BY <1>1, LenProperties
      <4>. QED BY <1>4, <1>6, <4>1 DEF q
    <3>. QED BY <1>6, <3>1, <3>2
  <2>. QED BY <2>1, Parts, BatchType DEF RowsNumbered
<1>12. RowsNumbered'
  <2>1. \A u \in Users : Grows(queue'[u])
    BY <1>4, <1>6, Parts DEF RowsNumbered
  <2>2. \A u \in Users : \A i \in DOMAIN queue'[u] :
          queue'[u][i].id < nextId' /\ queue'[u][i].num <= issued'
    BY <1>1, <1>2, <1>5, <1>10, <1>11
  <2>3. \A u, v \in Users : \A i \in DOMAIN queue'[u], j \in DOMAIN queue'[v] :
          queue'[u][i].num = queue'[v][j].num => u = v
    <3>1. \A u \in Users : \A i \in DOMAIN queue[u] : queue[u][i].num # b.num
      BY <1>1, <1>2, <1>11
    <3>. QED BY <1>10, <3>1, Parts DEF RowsNumbered
  <2>. QED BY <2>1, <2>2, <2>3 DEF RowsNumbered, Grows
<1>13. CallbacksQueued'
  <2>1. Len(q) + 1 \in DOMAIN queue'[user] /\ queue'[user][Len(q) + 1] = b
    <3>1. Len(q) \in Nat
      BY <1>1, LenProperties
    <3>. QED BY <1>4, <1>6, <3>1
  <2>2. \A u \in Users : \A c \in callbacks'[u] : c \in callbacks[u] \/ (u = user /\ c = b)
    <3>1. callbacks'[user] = callbacks[user] \cup {b}
      BY <1>1, <1>5, <1>17
    <3>2. \A u \in Users : u # user => callbacks'[u] = callbacks[u]
      BY <1>1, <1>5, <1>17
    <3>3. ASSUME NEW u \in Users, NEW c \in callbacks'[u]
          PROVE  c \in callbacks[u] \/ (u = user /\ c = b)
      <4>1. CASE u = user
        <5>1. c \in callbacks[user] \cup {b}
          BY <3>1, <4>1
        <5>. QED BY <4>1, <5>1
      <4>2. CASE u # user
        BY <3>2, <4>2
      <4>. QED BY <4>1, <4>2
    <3>. QED BY <3>3
  <2>3. ASSUME NEW u \in Users, NEW c \in callbacks[u]
        PROVE  \E i \in DOMAIN queue'[u] : queue'[u][i] = c
    BY <1>11, Parts DEF CallbacksQueued
  <2>. QED BY <2>1, <2>2, <2>3 DEF CallbacksQueued
<1>14. WaitsCover'
  <2>1. \A w \in waits : \A n \in w.nums : n \in Nat
    BY Parts, WriteBoundsAssumption DEF TypeOK, Nums
  <2>2. ASSUME NEW w \in waits, NEW n \in w.nums
        PROVE  /\ n <= issued'
               /\ \A i \in DOMAIN queue'[user] : queue'[user][i].num = n => queue'[user][i].id <= w.id
    <3>1. n \in Nat /\ n <= issued /\ n # b.num
      BY <1>1, <1>2, <2>1, <2>2, Parts DEF WaitsCover
    <3>2. \A i \in DOMAIN queue[user] : queue[user][i].num = n => queue[user][i].id <= w.id
      BY Parts DEF WaitsCover
    <3>3. n <= issued'
      BY <1>1, <1>5, <3>1
    <3>4. ASSUME NEW i \in DOMAIN queue'[user], queue'[user][i].num = n
          PROVE  i \in DOMAIN queue[user] /\ queue'[user][i] = queue[user][i]
      BY <1>1, <1>10, <3>1, <3>4
    <3>. QED BY <3>2, <3>3, <3>4
  <2>. QED BY <1>5, <2>2 DEF WaitsCover
<1>15. Consistent(enabled, pipeline, queue[user], stream, wire)'
  BY <1>5, <1>6, <1>8 DEF Consistent
<1>16. AnsweredWereApplied' /\ AppliedWereIssued' /\ AckedWasApplied'
  <2>1. \A n \in applied : n \in Nat
    BY Parts, WriteBoundsAssumption DEF TypeOK, Nums
  <2>. QED BY <1>1, <1>5, <1>8, <2>1, Parts
           DEF AnsweredWereApplied, AppliedWereIssued, AckedWasApplied
<1>. QED BY <1>9, <1>12, <1>13, <1>14, <1>15, <1>16 DEF IInv

LEMMA WaitInv ==
  ASSUME IInv, RegisterPendingWritesCallback
  PROVE  IInv'
<1> DEFINE q == queue[user]
<1>1. q \in Seq(Batch) /\ q # <<>> /\ Grows(q) /\ issued \in Nat
  BY Parts DEF RegisterPendingWritesCallback
<1>2. Len(q) \in Nat \ {0} /\ DOMAIN q = 1..Len(q) /\ \A i \in 1..Len(q) : q[i] \in Batch
  BY <1>1, LenProperties, EmptySeq
<1>3. waits' = {[id |-> q[Len(q)].id, nums |-> NumsOf(q)]}
  BY DEF RegisterPendingWritesCallback
<1>4. UNCHANGED <<user, queue, nextId, callbacks, remote, history, disruptions>>
  BY DEF RegisterPendingWritesCallback
<1> HIDE DEF q
<1>5. q[Len(q)].id \in Nat \ {0} /\ NumsOf(q) \subseteq Nums
  BY <1>2, BatchType DEF NumsOf
<1>6. TypeOK'
  BY <1>3, <1>4, <1>5, Parts DEF TypeOK, remote, history
<1>7. WaitsCover'
  <2>1. \A i \in DOMAIN q : q[i].num <= issued /\ q[i].id <= q[Len(q)].id
    <3>1. \A i \in DOMAIN q : q[i].num <= issued
      BY Parts DEF RowsNumbered, q
    <3>2. \A i \in DOMAIN q : i < Len(q) => q[i].id < q[Len(q)].id
      BY <1>1, <1>2 DEF Grows
    <3>. QED BY <1>2, <3>1, <3>2, BatchType
  <2>2. \A n \in NumsOf(q) : n <= issued
    BY <2>1 DEF NumsOf
  <2>. QED BY <1>3, <1>4, <2>1, <2>2 DEF WaitsCover, history, q
<1>8. RowsNumbered' /\ CallbacksQueued'
  BY <1>4, Parts DEF RowsNumbered, CallbacksQueued, history
<1>9. Consistent(enabled, pipeline, queue[user], stream, wire)'
  BY <1>4, Parts DEF remote, Consistent
<1>10. AnsweredWereApplied' /\ AppliedWereIssued' /\ AckedWasApplied'
  BY <1>4, Parts DEF AnsweredWereApplied, AppliedWereIssued, AckedWasApplied, history, remote
<1>. QED BY <1>6, <1>7, <1>8, <1>9, <1>10 DEF IInv

\* The streams are restarted over the queue of whoever is signed in.
LEMMA RestartedConsistent ==
  ASSUME IInv, NEW u \in Users, RestartNetwork(queue[u])
  PROVE  /\ pipeline' \in Seq(Batch) /\ stream' \in Stream /\ wire' \in Wire
         /\ Consistent(TRUE, pipeline', queue[u], stream', wire')
         /\ wire'.responses = <<>>
<1>1. /\ queue[u] \in Seq(Batch) /\ Grows(queue[u]) /\ <<>> \in Seq(Batch)
      /\ Stopped \in Stream /\ Silent \in Wire /\ Silent.responses = <<>>
  BY Parts, StreamTypes, EmptySeq DEF TypeOK, RowsNumbered
<1>2. Consistent(TRUE, <<>>, queue[u], Stopped, Silent)
  BY <1>1, StreamTypes, FreshConsistent
<1>. QED BY <1>1, <1>2, FillKeepsConsistent DEF RestartNetwork

\* Another user, or the same with another token.
LEMMA CredentialInv ==
  ASSUME IInv, NEW u \in Users, HandleCredentialChange(u)
  PROVE  IInv'
<1>1. user' = u /\ UNCHANGED <<queue, callbacks, enabled, history>>
  BY DEF HandleCredentialChange
<1>2. /\ nextId' \in Nat \ {0}
      /\ \A v \in Users : \A i \in DOMAIN queue[v] : queue[v][i].id < nextId'
      /\ u = user \/ waits' = {}
      /\ u = user => waits' = waits
      /\ waits' \subseteq waits
  BY Parts, NextIdIsNew DEF HandleCredentialChange, TypeOK, RowsNumbered
<1>3. /\ pipeline' \in Seq(Batch) /\ stream' \in Stream /\ wire' \in Wire
      /\ Consistent(enabled, pipeline', queue[u], stream', wire')
      /\ wire'.responses \in {<<>>, wire.responses}
  <2>1. CASE enabled
    <3>1. RestartNetwork(queue[u]) /\ enabled = TRUE
      BY <2>1, Parts DEF HandleCredentialChange
    <3>. QED BY <3>1, RestartedConsistent
  <2>2. CASE ~enabled
    <3>1. UNCHANGED <<pipeline, stream, wire>>
      BY <2>2 DEF HandleCredentialChange
    <3>2. /\ pipeline = <<>> /\ ~Started(stream) /\ ~stream.idle /\ ~stream.handshaken
          /\ enabled = FALSE
      BY <2>2, Parts DEF Consistent, Live, Started
    <3>3. wire = Silent
      BY <3>2, Parts DEF Consistent, Live, Started
    <3>4. Consistent(FALSE, <<>>, queue[u], stream, Silent)
      BY <3>2, Parts, FreshConsistent DEF TypeOK
    <3>. QED BY <3>1, <3>2, <3>3, <3>4, Parts
  <2>. QED BY <2>1, <2>2
<1>4. disruptions' \in 0..MaxDisruptions
  BY Parts, WriteBoundsAssumption DEF HandleCredentialChange, Disrupt, TypeOK
<1>5. TypeOK'
  BY <1>1, <1>2, <1>3, <1>4, Parts DEF TypeOK, Stream, Wire, history
<1>6. RowsNumbered' /\ CallbacksQueued'
  BY <1>1, <1>2, Parts DEF RowsNumbered, CallbacksQueued, history
<1>7. WaitsCover'
  BY <1>1, <1>2, Parts DEF WaitsCover, history
<1>8. Consistent(enabled, pipeline, queue[user], stream, wire)'
  BY <1>1, <1>3 DEF Consistent
<1>9. AnsweredWereApplied' /\ AppliedWereIssued' /\ AckedWasApplied'
  BY <1>1, <1>3, Parts DEF AnsweredWereApplied, AppliedWereIssued, AckedWasApplied, history
<1>. QED BY <1>5, <1>6, <1>7, <1>8, <1>9 DEF IInv

LEMMA RestartInv ==
  ASSUME IInv, Restart
  PROVE  IInv'
<1>1. /\ UNCHANGED <<user, queue, history>> /\ enabled' = TRUE /\ waits' = {}
      /\ callbacks' = [u \in Users |-> {}]
  BY DEF Restart
<1>2. /\ nextId' \in Nat \ {0}
      /\ \A v \in Users : \A i \in DOMAIN queue[v] : queue[v][i].id < nextId'
  BY Parts, NextIdIsNew DEF Restart
<1>3. /\ pipeline' \in Seq(Batch) /\ stream' \in Stream /\ wire' \in Wire
      /\ Consistent(TRUE, pipeline', queue[user], stream', wire')
      /\ wire'.responses = <<>>
  BY Parts, RestartedConsistent DEF Restart
<1>4. disruptions' \in 0..MaxDisruptions
  BY Parts, WriteBoundsAssumption DEF Restart, Disrupt, TypeOK
<1>5. TypeOK'
  BY <1>1, <1>2, <1>3, <1>4, Parts DEF TypeOK, Stream, Wire, history
<1>6. RowsNumbered' /\ CallbacksQueued' /\ WaitsCover'
  BY <1>1, <1>2, Parts DEF RowsNumbered, CallbacksQueued, WaitsCover, history
<1>7. Consistent(enabled, pipeline, queue[user], stream, wire)'
  BY <1>1, <1>3 DEF Consistent
<1>8. AnsweredWereApplied' /\ AppliedWereIssued' /\ AckedWasApplied'
  BY <1>1, <1>3, Parts DEF AnsweredWereApplied, AppliedWereIssued, AckedWasApplied, history
<1>. QED BY <1>5, <1>6, <1>7, <1>8 DEF IInv

-----------------------------------------------------------------------------
(* Steps of the backend, and its answers.                                  *)

\* What is next on a wire that carries requests is the row behind those answered.
LEMMA NextRequest ==
  ASSUME IInv, wire.requests # <<>>
  PROVE  /\ Live(stream) /\ pipeline # <<>>
         /\ Len(wire.responses) + 1 \in 1..Len(queue[user])
         /\ Head(wire.requests) = queue[user][Len(wire.responses) + 1]
         /\ \A j \in 1..Len(wire.responses) : wire.responses[j] = queue[user][j]
<1> DEFINE r == wire.responses
           w == wire.requests
           q == queue[user]
<1>1. /\ Live(stream) /\ r \o w = pipeline /\ First(pipeline, q)
      /\ r \in Seq(Batch) /\ w \in Seq(Batch) /\ w # <<>> /\ q \in Seq(Batch)
      /\ pipeline \in Seq(Batch)
  BY Parts, StreamTypes DEF Consistent
<1> HIDE DEF r, w, q
<1>2. Len(r) \in Nat /\ Len(w) \in Nat /\ Len(w) # 0 /\ Head(w) = w[1] /\ Len(q) \in Nat
  BY <1>1, LenProperties, EmptySeq, HeadTailProperties
<1>3. /\ Len(pipeline) = Len(r) + Len(w)
      /\ \A i \in 1..(Len(r) + Len(w)) :
           pipeline[i] = IF i <= Len(r) THEN r[i] ELSE w[i - Len(r)]
  BY <1>1, ConcatProperties
<1>4. Len(pipeline) <= Len(q) /\ \A i \in 1..Len(pipeline) : pipeline[i] = q[i]
  BY <1>1, FirstPointwise
<1>5. Len(r) + 1 \in 1..Len(pipeline)
  BY <1>2, <1>3
<1>6. pipeline[Len(r) + 1] = w[1]
  BY <1>2, <1>3, <1>5
<1>7. \A j \in 1..Len(r) : j \in 1..Len(pipeline) /\ pipeline[j] = r[j]
  BY <1>2, <1>3
<1>8. pipeline # <<>>
  BY <1>1, <1>2, <1>3, EmptySeq
<1>9. Len(r) + 1 \in 1..Len(q) /\ w[1] = q[Len(r) + 1]
  <2>1. Len(r) + 1 \in 1..Len(q)
    BY <1>2, <1>3, <1>4
  <2>2. pipeline[Len(r) + 1] = q[Len(r) + 1]
    BY <1>4, <1>5
  <2>. QED BY <1>6, <2>1, <2>2
<1>10. \A j \in 1..Len(r) : r[j] = q[j]
  BY <1>4, <1>7
<1>. QED BY <1>1, <1>2, <1>8, <1>9, <1>10 DEF r, w, q

\* A request moves from one direction of the wire to the other.
LEMMA ApplyInv ==
  ASSUME IInv, BackendApplies
  PROVE  IInv'
<1> DEFINE b == Head(wire.requests)
<1>1. /\ wire.requests # <<>> /\ ~wire.refused
      /\ applied' = applied \cup {b.num}
      /\ wire' = [wire EXCEPT !.requests = Tail(@), !.responses = Append(@, b)]
      /\ UNCHANGED <<local, enabled, pipeline, stream, issued, told, disruptions>>
  BY DEF BackendApplies
<1>2. /\ b \in Batch /\ Tail(wire.requests) \in Seq(Batch)
      /\ Append(wire.responses, b) \in Seq(Batch) /\ <<b>> \in Seq(Batch)
      /\ Append(wire.responses, b) = wire.responses \o <<b>>
      /\ wire.requests = <<b>> \o Tail(wire.requests)
  <2>1. b \in Batch /\ Tail(wire.requests) \in Seq(Batch)
    BY <1>1, Parts, HeadTailProperties
  <2>2. Append(wire.responses, b) \in Seq(Batch) /\ Append(wire.responses, b) = wire.responses \o <<b>>
    BY <2>1, Parts, AppendProperties, AppendIsConcat
  <2>3. wire.requests = <<b>> \o Tail(wire.requests)
    <3> DEFINE r == wire.requests
    <3>1. r \in Seq(Batch) /\ r # <<>>
      BY <1>1, Parts
    <3> HIDE DEF r
    <3>2. /\ Len(r) \in Nat \ {0} /\ SubSeq(r, 1, Len(r)) = r /\ Tail(r) = SubSeq(r, 2, Len(r))
          /\ Head(r) = r[1]
      BY <3>1, EmptySeq, SubSeqFull, TailIsSubSeq, HeadTailProperties
    <3>3. SubSeq(r, 1, Len(r)) = <<r[1]>> \o SubSeq(r, 2, Len(r))
      BY <3>1, <3>2, SubSeqRecursiveFirst
    <3>. QED BY <3>2, <3>3 DEF r
  <2>. QED BY <2>1, <2>2, <2>3
<1> HIDE DEF b
<1>3. /\ wire' \in Wire /\ wire'.requests = Tail(wire.requests)
      /\ wire'.responses = Append(wire.responses, b) /\ ~wire'.refused
  BY <1>1, <1>2, Parts DEF Wire
<1>4. Live(stream) /\ wire'.responses \o wire'.requests = pipeline
  <2>1. (wire.responses \o <<b>>) \o Tail(wire.requests) = wire.responses \o (<<b>> \o Tail(wire.requests))
    <3> DEFINE r == wire.responses
               t == Tail(wire.requests)
               v == <<b>>
    <3>1. r \in Seq(Batch) /\ v \in Seq(Batch) /\ t \in Seq(Batch)
      BY <1>2, Parts
    <3> HIDE DEF r, t, v
    <3>2. (r \o v) \o t = r \o (v \o t)
      BY <3>1, BatchesAssociate
    <3>. QED BY <3>2 DEF r, t, v
  <2>. QED BY <1>1, <1>2, <1>3, <2>1, NextRequest, Parts DEF Consistent
<1>5. b.num \in Nums /\ b.num <= issued
  BY <1>1, <1>2, NextRequest, Parts, BatchType, LenProperties DEF RowsNumbered, b
<1>6. TypeOK'
  BY <1>1, <1>3, <1>5, Parts DEF TypeOK, local, Wire
<1>7. RowsNumbered' /\ CallbacksQueued' /\ WaitsCover'
  BY <1>1, Parts DEF RowsNumbered, CallbacksQueued, WaitsCover, local
<1>8. Consistent(enabled, pipeline, queue[user], stream, wire)'
  BY <1>1, <1>3, <1>4, Parts DEF Consistent, local
<1>9. AnsweredWereApplied'
  <2>1. /\ Len(wire.responses) \in Nat /\ DOMAIN wire.responses = 1..Len(wire.responses)
        /\ DOMAIN Append(wire.responses, b) = 1..(Len(wire.responses) + 1)
        /\ Append(wire.responses, b)[Len(wire.responses) + 1] = b
        /\ \A i \in 1..Len(wire.responses) : Append(wire.responses, b)[i] = wire.responses[i]
    BY <1>2, Parts, LenProperties, AppendProperties
  <2>. QED BY <1>1, <1>3, <2>1, Parts DEF AnsweredWereApplied
<1>10. AppliedWereIssued' /\ AckedWasApplied'
  BY <1>1, <1>5, Parts DEF AppliedWereIssued, AckedWasApplied
<1>. QED BY <1>6, <1>7, <1>8, <1>9, <1>10 DEF IInv

\* The pipeline's first batch is the queue's oldest row, which goes with its
\* callback and the waits on its id: what stays is still numbered.
LEMMA SettledKeeps ==
  ASSUME IInv, NEW o \in {"ok", "failed"}, pipeline # <<>>, Settled(o),
         UNCHANGED <<issued, applied>>, o = "ok" => Head(pipeline).num \in applied
  PROVE  /\ queue[user] # <<>> /\ Head(pipeline) = Head(queue[user])
         /\ Tail(queue[user]) \in Seq(Batch) /\ Grows(Tail(queue[user]))
         /\ queue' = [queue EXCEPT ![user] = Tail(queue[user])]
         /\ Tail(pipeline) \in Seq(Batch) /\ First(Tail(pipeline), Tail(queue[user]))
         /\ {c \in callbacks[user] : c.id = Head(pipeline).id}
              = callbacks[user] \cap {Head(pipeline)}
         /\ callbacks' \in [Users -> SUBSET Batch] /\ waits' \subseteq waits
         /\ told' \in [Nums -> {"nothing", "ok", "failed"}]
         /\ RowsNumbered' /\ CallbacksQueued' /\ WaitsCover' /\ AckedWasApplied'
<1> DEFINE q == queue[user]
           b == Head(pipeline)
           called == {c \in callbacks[user] : c.id = b.id}
<1>1. /\ user \in Users /\ q \in Seq(Batch) /\ Grows(q) /\ First(pipeline, q)
      /\ pipeline \in Seq(Batch)
      /\ queue \in [Users -> Seq(Batch)] /\ callbacks \in [Users -> SUBSET Batch]
      /\ told \in [Nums -> {"nothing", "ok", "failed"}]
  BY Parts DEF TypeOK, Consistent
<1>2. /\ queue' = [queue EXCEPT ![user] = RowsWithout(q, b.id)]
      /\ callbacks' = [callbacks EXCEPT ![user] = @ \ called]
      /\ waits' = {w \in waits : w.id # b.id}
      /\ told' = [n \in Nums |-> IF n \in {c.num : c \in called} THEN o ELSE told[n]]
      /\ user' = user /\ nextId' = nextId
  BY <1>1 DEF Settled
<1> HIDE DEF q, b, called
<1>3. /\ Len(pipeline) \in Nat \ {0} /\ Len(q) \in Nat \ {0} /\ q # <<>>
      /\ Len(pipeline) <= Len(q) /\ \A i \in 1..Len(pipeline) : pipeline[i] = q[i]
  <2>1. Len(pipeline) \in Nat \ {0} /\ Len(q) \in Nat
    BY <1>1, EmptySeq, LenProperties
  <2>2. Len(pipeline) <= Len(q) /\ \A i \in 1..Len(pipeline) : pipeline[i] = q[i]
    BY <1>1, FirstPointwise
  <2>. QED BY <2>1, <2>2, EmptySeq
<1>4. /\ Tail(q) \in Seq(Batch) /\ Grows(Tail(q)) /\ Head(q) \in Batch /\ Head(q) = q[1]
      /\ DOMAIN q = 1..Len(q) /\ Len(Tail(q)) = Len(q) - 1
      /\ DOMAIN Tail(q) = 1..(Len(q) - 1)
      /\ \A i \in 1..(Len(q) - 1) : Tail(q)[i] = q[i + 1]
      /\ \A i \in DOMAIN q : i # 1 => Head(q).id < q[i].id /\ Head(q).num < q[i].num
  BY <1>1, <1>3, GrowsTail
<1>5. b = Head(q)
  <2>1. Head(pipeline) = pipeline[1]
    BY <1>1, HeadTailProperties
  <2>. QED BY <1>3, <1>4, <2>1 DEF b
<1>6. queue' = [queue EXCEPT ![user] = Tail(q)]
  BY <1>1, <1>2, <1>3, <1>5, RowsWithoutOldest
<1>7. queue'[user] = Tail(q) /\ \A u \in Users : u # user => queue'[u] = queue[u]
  BY <1>1, <1>6
<1>8. Tail(pipeline) \in Seq(Batch) /\ First(Tail(pipeline), Tail(q))
  <2>1. /\ Tail(pipeline) \in Seq(Batch) /\ Len(Tail(pipeline)) = Len(pipeline) - 1
        /\ \A i \in 1..Len(Tail(pipeline)) : Tail(pipeline)[i] = pipeline[i + 1]
    BY <1>1, HeadTailProperties
  <2>2. Len(Tail(pipeline)) <= Len(Tail(q))
    BY <1>3, <1>4, <2>1
  <2>3. \A i \in 1..Len(Tail(pipeline)) : Tail(pipeline)[i] = Tail(q)[i]
    BY <1>3, <1>4, <2>1
  <2>. QED BY <1>4, <2>1, <2>2, <2>3, FirstPointwise
\* Rows have the ids of their callbacks, and no two of them one id.
<1>9. called = callbacks[user] \cap {b}
  <2>1. \A i \in DOMAIN q : q[i].id = b.id => q[i] = b
    <3>1. \A i \in DOMAIN q : q[i].id \in Nat
      BY <1>1, BatchType, LenProperties
    <3>2. 1 \in DOMAIN q
      BY <1>3, <1>4
    <3>. QED BY <1>4, <1>5, <3>1, <3>2
  <2>2. \A c \in callbacks[user] : \E i \in DOMAIN q : q[i] = c
    BY <1>1, Parts DEF CallbacksQueued, q
  <2>. QED BY <2>1, <2>2 DEF called
<1>10. /\ callbacks' \in [Users -> SUBSET Batch]
       /\ callbacks'[user] = callbacks[user] \ {b}
       /\ \A u \in Users : u # user => callbacks'[u] = callbacks[u]
  BY <1>1, <1>2, <1>9
\* Every row that is left was there, and is not the oldest.
<1>11. ASSUME NEW u \in Users, NEW i \in DOMAIN queue'[u]
       PROVE  \E j \in DOMAIN queue[u] :
                queue'[u][i] = queue[u][j] /\ (u = user => j # 1 /\ queue[u][j] # b)
  <2>1. CASE u = user
    <3>1. i + 1 \in DOMAIN q /\ i + 1 # 1 /\ queue'[u][i] = q[i + 1]
      BY <1>3, <1>4, <1>7, <2>1
    <3>2. q[i + 1] # b
      BY <1>1, <1>4, <1>5, <3>1, BatchType, LenProperties
    <3>. QED BY <2>1, <3>1, <3>2 DEF q
  <2>2. CASE u # user
    BY <1>7, <2>2
  <2>. QED BY <2>1, <2>2
<1>12. RowsNumbered'
  <2>1. \A u \in Users : Grows(queue'[u])
    BY <1>4, <1>7, Parts DEF RowsNumbered
  <2>. QED BY <1>2, <1>11, <2>1, Parts DEF RowsNumbered, Grows
<1>13. CallbacksQueued'
  <2>1. ASSUME NEW u \in Users, NEW c \in callbacks'[u]
        PROVE  \E i \in DOMAIN queue'[u] : queue'[u][i] = c
    <3>1. CASE u = user
      <4>1. c \in callbacks[user] /\ c # b
        BY <1>10, <2>1, <3>1
      <4>2. PICK i \in DOMAIN q : q[i] = c
        BY <1>1, <4>1, Parts DEF CallbacksQueued, q
      <4>3. i - 1 \in DOMAIN Tail(q) /\ Tail(q)[i - 1] = c
        BY <1>3, <1>4, <1>5, <4>1, <4>2
      <4>. QED BY <1>7, <3>1, <4>3
    <3>2. CASE u # user
      <4>1. c \in callbacks[u] /\ queue'[u] = queue[u]
        BY <1>7, <1>10, <2>1, <3>2
      <4>. QED BY <4>1, Parts DEF CallbacksQueued
    <3>. QED BY <3>1, <3>2
  <2>. QED BY <2>1 DEF CallbacksQueued
<1>14. WaitsCover'
  <2>1. waits' \subseteq waits
    BY <1>2
  <2>. QED BY <1>1, <1>2, <1>11, <2>1, Parts DEF WaitsCover
<1>15. told' \in [Nums -> {"nothing", "ok", "failed"}]
  BY <1>1, <1>2
<1>16. AckedWasApplied'
  <2>1. \A n \in Nums : told'[n] # told[n] => n = b.num /\ told'[n] = o
    BY <1>2, <1>9
  <2>. QED BY <2>1, Parts DEF AckedWasApplied, b
<1>. QED BY <1>2, <1>3, <1>4, <1>5, <1>6, <1>8, <1>9, <1>10, <1>12, <1>13, <1>14, <1>15, <1>16
         DEF q, b, called

\* What the stream owes an answer for, and its first answer is for.
LEMMA FirstAnswer ==
  ASSUME IInv, Live(stream), wire.responses # <<>>
  PROVE  /\ pipeline # <<>> /\ Head(wire.responses) = Head(pipeline)
         /\ Head(pipeline).num \in applied
         /\ Tail(wire.responses) \in Seq(Batch)
         /\ Tail(wire.responses) \o wire.requests = Tail(pipeline)
<1> DEFINE r == wire.responses
           w == wire.requests
<1>1. /\ r \o w = pipeline /\ r \in Seq(Batch) /\ r # <<>> /\ w \in Seq(Batch)
      /\ pipeline \in Seq(Batch)
      /\ \A i \in DOMAIN r : r[i].num \in applied
  BY Parts DEF Consistent, AnsweredWereApplied
<1> HIDE DEF r, w
<1>2. /\ Len(r) \in Nat /\ Len(r) # 0 /\ Len(w) \in Nat /\ DOMAIN r = 1..Len(r)
      /\ Head(r) = r[1] /\ Tail(r) \in Seq(Batch) /\ Len(Tail(r)) = Len(r) - 1
      /\ \A i \in 1..Len(Tail(r)) : Tail(r)[i] = r[i + 1]
  BY <1>1, LenProperties, EmptySeq, HeadTailProperties
<1>3. /\ Len(pipeline) = Len(r) + Len(w)
      /\ \A i \in 1..(Len(r) + Len(w)) : pipeline[i] = IF i <= Len(r) THEN r[i] ELSE w[i - Len(r)]
  BY <1>1, ConcatProperties
<1>4. pipeline # <<>>
  BY <1>1, <1>2, <1>3, EmptySeq
<1>5. /\ Head(pipeline) = pipeline[1] /\ Tail(pipeline) \in Seq(Batch)
      /\ Len(Tail(pipeline)) = Len(pipeline) - 1
      /\ \A i \in 1..Len(Tail(pipeline)) : Tail(pipeline)[i] = pipeline[i + 1]
  BY <1>1, <1>4, HeadTailProperties
<1>6. Head(r) = Head(pipeline) /\ Head(pipeline).num \in applied
  BY <1>1, <1>2, <1>3, <1>5
<1>7. /\ Tail(r) \o w \in Seq(Batch) /\ Len(Tail(r) \o w) = Len(Tail(r)) + Len(w)
      /\ \A i \in 1..(Len(Tail(r)) + Len(w)) :
           (Tail(r) \o w)[i] = IF i <= Len(Tail(r)) THEN Tail(r)[i] ELSE w[i - Len(Tail(r))]
  BY <1>1, <1>2, ConcatProperties
<1>8. Len(Tail(r) \o w) = Len(Tail(pipeline))
  BY <1>2, <1>3, <1>5, <1>7
<1>9. ASSUME NEW i \in 1..Len(Tail(r) \o w) PROVE (Tail(r) \o w)[i] = Tail(pipeline)[i]
  <2>1. Tail(pipeline)[i] = pipeline[i + 1] /\ i + 1 \in 1..(Len(r) + Len(w))
    BY <1>2, <1>3, <1>5, <1>8, <1>9
  <2>2. CASE i <= Len(Tail(r))
    BY <1>2, <1>3, <1>7, <2>1, <2>2
  <2>3. CASE ~(i <= Len(Tail(r)))
    <3>1. pipeline[i + 1] = w[i + 1 - Len(r)]
      BY <1>2, <1>3, <2>1, <2>3
    <3>2. (Tail(r) \o w)[i] = w[i - Len(Tail(r))] /\ i - Len(Tail(r)) = i + 1 - Len(r)
      BY <1>2, <1>7, <1>9, <2>3
    <3>. QED BY <2>1, <3>1, <3>2
  <2>. QED BY <2>2, <2>3
<1>10. Tail(r) \o w = Tail(pipeline)
  BY <1>5, <1>7, <1>8, <1>9, SeqEqual
<1>. QED BY <1>2, <1>4, <1>6, <1>10 DEF r, w

\* The stream and the wire over which the pipeline is refilled after an answer.
LEMMA AfterAnswer ==
  ASSUME IInv, NEW o \in {"ok", "failed"}, pipeline # <<>>, Settled(o),
         UNCHANGED <<enabled, issued, applied, disruptions>>,
         o = "ok" => Head(pipeline).num \in applied,
         NEW s \in Stream, NEW w \in Wire,
         First(Tail(pipeline), Tail(queue[user]))
           => Consistent(enabled, Tail(pipeline), Tail(queue[user]), s, w),
         \A i \in DOMAIN w.responses : w.responses[i].num \in applied,
         FillWritePipeline(enabled, Tail(pipeline), queue'[user], s, w)
  PROVE  IInv'
<1>1. /\ Tail(queue[user]) \in Seq(Batch) /\ Grows(Tail(queue[user]))
      /\ queue' = [queue EXCEPT ![user] = Tail(queue[user])]
      /\ Tail(pipeline) \in Seq(Batch) /\ First(Tail(pipeline), Tail(queue[user]))
      /\ callbacks' \in [Users -> SUBSET Batch] /\ waits' \subseteq waits
      /\ told' \in [Nums -> {"nothing", "ok", "failed"}]
      /\ RowsNumbered' /\ CallbacksQueued' /\ WaitsCover' /\ AckedWasApplied'
  BY SettledKeeps
<1>2. queue'[user] = Tail(queue[user]) /\ user' = user /\ nextId' = nextId
  BY <1>1, Parts DEF Settled, TypeOK
<1>3. Consistent(enabled, Tail(pipeline), Tail(queue[user]), s, w)
  BY <1>1
<1>4. /\ pipeline' \in Seq(Batch) /\ stream' \in Stream /\ wire' \in Wire
      /\ Consistent(enabled, pipeline', Tail(queue[user]), stream', wire')
      /\ wire'.responses = w.responses
  <2>1. FillWritePipeline(enabled, Tail(pipeline), Tail(queue[user]), s, w)
    BY <1>2
  <2>2. enabled \in BOOLEAN
    BY Parts
  <2>. QED BY <1>1, <1>3, <2>1, <2>2, FillKeepsConsistent
<1>5. TypeOK'
  <2>1. queue' \in [Users -> Seq(Batch)]
    BY <1>1, Parts DEF TypeOK
  <2>. QED BY <1>1, <1>2, <1>4, <2>1, Parts DEF TypeOK, Stream, Wire
<1>6. Consistent(enabled, pipeline, queue[user], stream, wire)'
  BY <1>2, <1>4 DEF Consistent
<1>7. AnsweredWereApplied' /\ AppliedWereIssued'
  BY <1>4, Parts DEF AnsweredWereApplied, AppliedWereIssued
<1>. QED BY <1>1, <1>5, <1>6, <1>7 DEF IInv

LEMMA ResultInv ==
  ASSUME IInv, OnWriteStreamMutationResult
  PROVE  IInv'
<1> DEFINE w == [wire EXCEPT !.responses = Tail(@)]
<1>1. /\ Live(stream) /\ wire.responses # <<>> /\ Settled("ok")
      /\ FillWritePipeline(enabled, Tail(pipeline), queue'[user], stream, w)
      /\ UNCHANGED <<enabled, issued, applied, disruptions>>
  BY DEF OnWriteStreamMutationResult
<1>2. /\ pipeline # <<>> /\ Head(pipeline).num \in applied
      /\ Tail(wire.responses) \in Seq(Batch)
      /\ Tail(wire.responses) \o wire.requests = Tail(pipeline)
  BY <1>1, FirstAnswer
<1>3. /\ w \in Wire /\ w.responses = Tail(wire.responses) /\ w.requests = wire.requests
      /\ w.refused = wire.refused
  BY <1>2, Parts DEF Wire
<1> HIDE DEF w
<1>4. \A i \in DOMAIN w.responses : w.responses[i].num \in applied
  <2>1. wire.responses \in Seq(Batch) /\ Len(Tail(wire.responses)) = Len(wire.responses) - 1
    BY <1>1, Parts, HeadTailProperties
  <2>2. /\ Len(wire.responses) \in Nat /\ DOMAIN wire.responses = 1..Len(wire.responses)
        /\ DOMAIN Tail(wire.responses) = 1..Len(Tail(wire.responses))
        /\ \A i \in 1..Len(Tail(wire.responses)) : Tail(wire.responses)[i] = wire.responses[i + 1]
    BY <1>1, <1>2, <2>1, LenProperties, HeadTailProperties
  <2>. QED BY <1>3, <2>1, <2>2, Parts DEF AnsweredWereApplied
<1>5. First(Tail(pipeline), Tail(queue[user]))
        => Consistent(enabled, Tail(pipeline), Tail(queue[user]), stream, w)
  BY <1>1, <1>2, <1>3, Parts DEF Consistent, Live, Started
<1>. QED BY <1>1, <1>2, <1>3, <1>4, <1>5, Parts, AfterAnswer

LEMMA RefusedInv ==
  ASSUME IInv, WriteRefused
  PROVE  IInv'
<1>1. /\ Live(stream) /\ wire.refused /\ Settled("failed")
      /\ FillWritePipeline(enabled, Tail(pipeline), queue'[user], Stopped, Silent)
      /\ UNCHANGED <<enabled, issued, applied, disruptions>>
  BY DEF WriteRefused
<1>2. pipeline # <<>> /\ enabled = TRUE
  BY <1>1, Parts, NextRequest DEF Consistent, Live, Started
<1>3. First(Tail(pipeline), Tail(queue[user]))
        => Consistent(enabled, Tail(pipeline), Tail(queue[user]), Stopped, Silent)
  <2>1. Tail(pipeline) \in Seq(Batch) /\ Tail(queue[user]) \in Seq(Batch)
    BY <1>1, <1>2, SettledKeeps
  <2>. QED BY <1>2, <2>1, StreamTypes, FreshConsistent
<1>4. \A i \in DOMAIN Silent.responses : Silent.responses[i].num \in applied
  BY StreamTypes
<1>. QED BY <1>1, <1>2, <1>3, <1>4, StreamTypes, AfterAnswer

LEMMA NextInv == IInv /\ [Next]_vars => IInv'
<1>1. SUFFICES ASSUME IInv, [Next]_vars PROVE IInv'
  OBVIOUS
<1>2. CASE UNCHANGED vars
  <2>1. UNCHANGED <<user, queue, nextId, callbacks, waits, enabled, pipeline, stream, wire,
                    issued, applied, told, disruptions>>
    BY <1>2 DEF vars, local, remote, history
  <2>2. TypeOK'
    BY <1>1, <2>1, Parts DEF TypeOK
  <2>3. RowsNumbered' /\ CallbacksQueued' /\ WaitsCover'
    BY <1>1, <2>1, Parts DEF RowsNumbered, CallbacksQueued, WaitsCover
  <2>4. Consistent(enabled, pipeline, queue[user], stream, wire)'
    BY <1>1, <2>1, Parts DEF Consistent
  <2>5. AnsweredWereApplied' /\ AppliedWereIssued' /\ AckedWasApplied'
    BY <1>1, <2>1, Parts DEF AnsweredWereApplied, AppliedWereIssued, AckedWasApplied
  <2>. QED BY <2>2, <2>3, <2>4, <2>5 DEF IInv
<1>3. CASE Device
  BY <1>1, <1>3, WriteInv, WaitInv, NetworkInv, CredentialInv, RestartInv DEF Device
<1>4. CASE WriteStream
  BY <1>1, <1>4, StreamInv, ResultInv, RefusedInv DEF WriteStream
<1>5. CASE Backend
  BY <1>1, <1>5, StreamInv, ApplyInv DEF Backend
<1>. QED BY <1>1, <1>2, <1>3, <1>4, <1>5 DEF Next

-----------------------------------------------------------------------------
(* A wait ends with what it waits for.                                     *)

LEMMA WaitStep ==
  ASSUME IInv, [Next]_vars, NEW w \in waits, w \notin waits', disruptions' = disruptions
  PROVE  w.nums \cap NumsOf(queue'[user]) = {}
<1>1. PICK o \in {"ok", "failed"} :
        /\ Settled(o) /\ pipeline # <<>> /\ UNCHANGED <<issued, applied>>
        /\ o = "ok" => Head(pipeline).num \in applied
  <2>1. disruptions \in Nat
    BY Parts, WriteBoundsAssumption DEF TypeOK
  <2>2. ~UNCHANGED waits
    OBVIOUS
  <2>3. ~UNCHANGED vars /\ ~UNCHANGED local
    BY <2>2 DEF vars, local
  <2>4. /\ ~WriteMutations /\ ~DisableNetwork /\ ~EnableNetwork /\ ~ConnectivityChanged
        /\ ~Restart /\ \A u \in Users : ~HandleCredentialChange(u)
    <3>1. ~Disrupt
      BY <2>1 DEF Disrupt
    <3>2. ~WriteMutations
      BY <2>2 DEF WriteMutations
    <3>3. ~EnableNetwork
      BY <2>3 DEF EnableNetwork
    <3>. QED BY <3>1, <3>2, <3>3
             DEF DisableNetwork, ConnectivityChanged, Restart, HandleCredentialChange
  <2>5. ~RegisterPendingWritesCallback
    BY DEF RegisterPendingWritesCallback
  <2>6. /\ ~ResumeStartWithCredentials /\ ~StreamFailsToStart /\ ~BackoffElapsed
        /\ ~OnWriteStreamHandshakeComplete /\ ~WriteStreamBreaks /\ ~IdleTimeout
        /\ ~BackendApplies /\ ~BackendRefuses
    BY <2>3
       DEF ResumeStartWithCredentials, StreamFailsToStart, BackoffElapsed, BackendRefuses,
           OnWriteStreamHandshakeComplete, WriteStreamBreaks, IdleTimeout, BackendApplies
  <2>7. OnWriteStreamMutationResult \/ WriteRefused
    BY <2>3, <2>4, <2>5, <2>6 DEF Next, Device, WriteStream, Backend
  <2>8. CASE OnWriteStreamMutationResult
    BY <2>8, FirstAnswer DEF OnWriteStreamMutationResult
  <2>9. CASE WriteRefused
    <3>1. pipeline # <<>>
      BY <2>9, Parts, NextRequest DEF WriteRefused, Consistent
    <3>. QED BY <2>9, <3>1 DEF WriteRefused
  <2>. QED BY <2>7, <2>8, <2>9
<1> DEFINE q == queue[user]
<1>2. /\ q # <<>> /\ Head(pipeline) = Head(q) /\ queue' = [queue EXCEPT ![user] = Tail(q)]
      /\ q \in Seq(Batch) /\ Grows(q) /\ queue \in [Users -> Seq(Batch)] /\ user \in Users
  <2>1. q # <<>> /\ Head(pipeline) = Head(q) /\ queue' = [queue EXCEPT ![user] = Tail(q)]
    BY <1>1, SettledKeeps
  <2>. QED BY <2>1, Parts DEF TypeOK
<1>3. \A n \in w.nums : \A i \in DOMAIN q : q[i].num = n => q[i].id <= w.id
  BY Parts DEF WaitsCover
<1>4. waits' = {v \in waits : v.id # Head(pipeline).id}
  <2>1. Settled(o)
    BY <1>1
  <2>. QED BY <2>1 DEF Settled
<1> HIDE DEF q
<1>5. w.id = Head(q).id
  BY <1>2, <1>4
<1>6. /\ DOMAIN q = 1..Len(q) /\ Len(q) \in Nat /\ DOMAIN Tail(q) = 1..(Len(q) - 1)
      /\ \A i \in 1..(Len(q) - 1) : Tail(q)[i] = q[i + 1]
      /\ \A i \in DOMAIN q : i # 1 => Head(q).id < q[i].id
      /\ Head(q).id \in Nat /\ \A i \in DOMAIN q : q[i].id \in Nat
  BY <1>2, GrowsTail, BatchType, LenProperties
<1>7. ASSUME NEW i \in DOMAIN Tail(q) PROVE Tail(q)[i].num \notin w.nums
  <2>1. i + 1 \in DOMAIN q /\ i + 1 # 1 /\ Tail(q)[i] = q[i + 1]
    BY <1>6
  <2>2. Head(q).id < q[i + 1].id
    BY <1>6, <2>1
  <2>3. ~(q[i + 1].id <= w.id)
    BY <1>5, <1>6, <2>1, <2>2
  <2>. QED BY <1>3, <2>1, <2>3
<1>8. queue'[user] = Tail(q)
  BY <1>2
<1>. QED BY <1>7, <1>8 DEF NumsOf

-----------------------------------------------------------------------------
(* Who waits, what the backend has of a queue, and who has been told.      *)

\* Pipeline p holds as many rows of q as it may.
Filled(on, p, q) ==
  LET room == IF on THEN MaxPendingWrites ELSE 0
  IN Len(p) = IF room < Len(q) THEN room ELSE Len(q)

\* ... and whatever it holds has a stream under way.
Served(on, p, q, s) == Filled(on, p, q) /\ (p # <<>> => Started(s))

\* Each wait hangs on the id of a row.
WaitsHang == \A w \in waits : \E i \in DOMAIN queue[user] : queue[user][i].id = w.id

\* What is in the backend of a queue is its beginning.
AppliedFirst ==
  \A u \in Users : \A i, j \in DOMAIN queue[u] :
    i < j /\ queue[u][j].num \in applied => queue[u][i].num \in applied

\* Who is still to be told has been told nothing, nor has who is yet to come.
CallersUntold ==
  /\ \A u \in Users : \A c \in callbacks[u] : told[c.num] = "nothing"
  /\ \A n \in Nums : n > issued => told[n] = "nothing"

QInv ==
  /\ IInv
  /\ Served(enabled, pipeline, queue[user], stream)
  /\ WaitsHang /\ AppliedFirst /\ CallersUntold

\* Of all steps, few change the queues, what hangs on them and what is told.
LEMMA StepKinds ==
  ASSUME IInv, [Next]_vars
  PROVE  \/ WriteMutations \/ RegisterPendingWritesCallback \/ BackendApplies \/ Restart
         \/ \E u \in Users : HandleCredentialChange(u)
         \/ \E o \in {"ok", "failed"} :
              /\ Settled(o) /\ pipeline # <<>> /\ UNCHANGED <<issued, applied>>
              /\ o = "ok" => Head(pipeline).num \in applied
         \/ UNCHANGED <<local, history>>
<1>1. CASE UNCHANGED vars
  BY <1>1 DEF vars
<1>2. CASE DisableNetwork \/ EnableNetwork \/ ConnectivityChanged
  BY <1>2 DEF DisableNetwork, EnableNetwork, ConnectivityChanged
<1>3. CASE \/ ResumeStartWithCredentials \/ StreamFailsToStart \/ BackoffElapsed
           \/ OnWriteStreamHandshakeComplete \/ WriteStreamBreaks \/ IdleTimeout
           \/ BackendRefuses
  BY <1>3
     DEF ResumeStartWithCredentials, StreamFailsToStart, BackoffElapsed, BackendRefuses,
         OnWriteStreamHandshakeComplete, WriteStreamBreaks, IdleTimeout
<1>4. CASE OnWriteStreamMutationResult
  BY <1>4, FirstAnswer DEF OnWriteStreamMutationResult
<1>5. CASE WriteRefused
  <2>1. pipeline # <<>>
    BY <1>5, Parts, NextRequest DEF WriteRefused, Consistent
  <2>. QED BY <1>5, <2>1 DEF WriteRefused
<1>. QED BY <1>1, <1>2, <1>3, <1>4, <1>5 DEF Next, Device, WriteStream, Backend

\* FillWritePipeline leaves no room that a row could take, and starts the stream.
LEMMA FillServes ==
  ASSUME NEW on \in BOOLEAN, NEW p \in Seq(Batch), NEW q \in Seq(Batch), NEW s \in Stream, NEW w,
         Grows(q), First(p, q), ~on => p = <<>>, Len(p) <= MaxPendingWrites,
         FillWritePipeline(on, p, q, s, w)
  PROVE  Served(on, pipeline', q, stream')
<1> DEFINE new == Refill(on, p, q)
<1>1. pipeline' = p \o new /\ stream' = StreamAfterFill(on, p, new, s)
  BY DEF FillWritePipeline
<1>2. Len(q) \in Nat
  BY LenProperties
<1>3. CASE on
  <2>1. Len(p \o new) = IF MaxPendingWrites < Len(q) THEN MaxPendingWrites ELSE Len(q)
    BY <1>3, RefillContinues
  <2> HIDE DEF new
  <2>2. ASSUME pipeline' # <<>> PROVE Started(stream')
    <3>1. stream' = IF ~Started(s) THEN Begun(s)
                    ELSE IF Live(s) /\ new # <<>> THEN [s EXCEPT !.idle = FALSE] ELSE s
      BY <1>1, <1>3, <2>2 DEF StreamAfterFill
    <3>. QED BY <3>1 DEF Started, Begun, Stream
  <2>. QED BY <1>1, <1>3, <2>1, <2>2 DEF Filled, Served
<1>4. CASE ~on
  <2>1. new = <<>> /\ p = <<>>
    BY <1>4, RefillContinues
  <2> HIDE DEF new
  <2>2. pipeline' = <<>> /\ Len(pipeline') = 0
    BY <1>1, <2>1, ConcatEmptySeq, EmptySeq
  <2>. QED BY <1>2, <1>4, <2>2 DEF Filled, Served
<1>. QED BY <1>3, <1>4

LEMMA RestartServes ==
  ASSUME IInv, NEW u \in Users, RestartNetwork(queue[u])
  PROVE  Served(TRUE, pipeline', queue[u], stream')
<1>1. /\ queue[u] \in Seq(Batch) /\ Grows(queue[u]) /\ <<>> \in Seq(Batch) /\ Len(<<>>) = 0
      /\ 0 <= MaxPendingWrites
  BY Parts, EmptySeq, MaxPendingAssumption DEF TypeOK, RowsNumbered
<1>2. First(<<>>, queue[u]) /\ Stopped \in Stream
  BY <1>1, StreamTypes, FreshConsistent DEF Consistent
<1>. QED BY <1>1, <1>2, FillServes DEF RestartNetwork

LEMMA ServedStep ==
  ASSUME QInv, [Next]_vars
  PROVE  Served(enabled, pipeline, queue[user], stream)'
<1>1. IInv /\ Served(enabled, pipeline, queue[user], stream)
  BY DEF QInv
<1>2. /\ queue \in [Users -> Seq(Batch)] /\ user \in Users /\ queue[user] \in Seq(Batch)
      /\ pipeline \in Seq(Batch) /\ enabled \in BOOLEAN /\ First(pipeline, queue[user])
      /\ ~enabled => pipeline = <<>> /\ ~Started(stream)
      /\ stream \in Stream
      /\ Len(queue[user]) \in Nat /\ MaxPendingWrites \in Nat
  BY <1>1, Parts, LenProperties, MaxPendingAssumption DEF TypeOK, Consistent
<1>3. Len(pipeline) <= MaxPendingWrites
  BY <1>1, <1>2 DEF Served, Filled
<1>4. ASSUME UNCHANGED <<enabled, pipeline, queue, user>>, pipeline # <<>> => Started(stream')
      PROVE  Served(enabled, pipeline, queue[user], stream)'
  BY <1>1, <1>4 DEF Served, Filled
<1>5. CASE WriteMutations
  <2> DEFINE b == [id |-> nextId, num |-> issued + 1]
  <2>1. /\ FillWritePipeline(enabled, pipeline, queue'[user], stream, wire)
        /\ user' = user /\ enabled' = enabled /\ queue' = [queue EXCEPT ![user] = Append(@, b)]
    BY <1>2, <1>5 DEF WriteMutations
  <2>2. b \in Batch
    BY <1>1, <1>5, Parts, WriteBoundsAssumption DEF WriteMutations, TypeOK, Batch, Nums
  <2> HIDE DEF b
  <2>3. queue'[user] = Append(queue[user], b)
    BY <1>2, <2>1
  <2>4. Append(queue[user], b) \in Seq(Batch) /\ First(pipeline, Append(queue[user], b))
    BY <1>2, <2>2, FirstOfMore
  <2>5. Grows(queue'[user])
    BY <1>1, <1>2, <2>1, NextInv DEF IInv, RowsNumbered
  <2>6. Served(enabled, pipeline', queue'[user], stream')
    BY <1>2, <1>3, <2>1, <2>3, <2>4, <2>5, FillServes
  <2>. QED BY <2>1, <2>6 DEF Served, Filled
<1>6. CASE RegisterPendingWritesCallback \/ UNCHANGED vars
  BY <1>1, <1>4, <1>6 DEF RegisterPendingWritesCallback, vars, local, remote, Served
<1>7. CASE DisableNetwork
  <2>1. enabled' = FALSE /\ pipeline' = <<>> /\ queue' = queue /\ user' = user
    BY <1>7 DEF DisableNetwork, local
  <2>2. Len(<<>>) = 0
    BY EmptySeq
  <2>. QED BY <1>2, <2>1, <2>2 DEF Served, Filled
<1>8. CASE EnableNetwork
  <2>1. /\ enabled' = TRUE /\ queue' = queue /\ user' = user
        /\ FillWritePipeline(TRUE, <<>>, queue[user], stream, wire)
    BY <1>8 DEF EnableNetwork, local
  <2>2. /\ Grows(queue[user]) /\ <<>> \in Seq(Batch) /\ Len(<<>>) = 0
        /\ First(<<>>, queue[user]) /\ Len(<<>>) <= MaxPendingWrites
    BY <1>1, <1>2, Parts, EmptySeq, StreamTypes, FreshConsistent, MaxPendingAssumption DEF Consistent
  <2>3. Served(TRUE, pipeline', queue[user], stream')
    BY <1>2, <2>1, <2>2, FillServes
  <2>. QED BY <2>1, <2>3 DEF Served, Filled
<1>9. CASE ConnectivityChanged \/ Restart
  <2>1. RestartNetwork(queue[user]) /\ queue' = queue /\ user' = user /\ enabled' = TRUE
    BY <1>2, <1>9 DEF ConnectivityChanged, Restart, local
  <2>2. Served(TRUE, pipeline', queue[user], stream')
    BY <1>1, <1>2, <2>1, RestartServes
  <2>. QED BY <2>1, <2>2 DEF Served, Filled
<1>10. ASSUME NEW u \in Users, HandleCredentialChange(u)
       PROVE  Served(enabled, pipeline, queue[user], stream)'
  <2>1. user' = u /\ queue' = queue /\ enabled' = enabled
    BY <1>10 DEF HandleCredentialChange
  <2>2. CASE enabled
    <3>1. RestartNetwork(queue[u]) /\ enabled = TRUE
      BY <1>2, <1>10, <2>2 DEF HandleCredentialChange
    <3>2. Served(TRUE, pipeline', queue[u], stream')
      BY <1>1, <3>1, RestartServes
    <3>. QED BY <2>1, <3>1, <3>2 DEF Served, Filled
  <2>3. CASE ~enabled
    <3>1. pipeline' = <<>> /\ Len(<<>>) = 0 /\ Len(queue[u]) \in Nat
      BY <1>2, <1>10, <2>3, EmptySeq, LenProperties DEF HandleCredentialChange
    <3>. QED BY <2>1, <2>3, <3>1 DEF Served, Filled
  <2>. QED BY <2>2, <2>3
<1>11. CASE \/ ResumeStartWithCredentials \/ StreamFailsToStart \/ BackoffElapsed
            \/ OnWriteStreamHandshakeComplete \/ WriteStreamBreaks \/ IdleTimeout
            \/ BackendRefuses \/ BackendApplies
  <2>1. UNCHANGED <<enabled, pipeline, queue, user>>
    BY <1>11
       DEF ResumeStartWithCredentials, StreamFailsToStart, BackoffElapsed, BackendRefuses,
           OnWriteStreamHandshakeComplete, WriteStreamBreaks, IdleTimeout, BackendApplies, local
  <2>2. CASE StreamFailsToStart \/ WriteStreamBreaks
    <3>1. enabled /\ stream' = Retried(pipeline)
      BY <1>2, <2>2 DEF StreamFailsToStart, WriteStreamBreaks, Live, Started
    <3>2. pipeline # <<>> => Started(stream')
      BY <3>1, StreamTypes DEF Retried
    <3>. QED BY <1>4, <2>1, <3>2
  <2>3. CASE ResumeStartWithCredentials \/ BackoffElapsed \/ OnWriteStreamHandshakeComplete
    <3>1. Started(stream')
      BY <1>2, <2>3
         DEF ResumeStartWithCredentials, BackoffElapsed, OnWriteStreamHandshakeComplete, Started, Stream
    <3>. QED BY <1>4, <2>1, <3>1
  <2>4. CASE IdleTimeout
    <3>1. pipeline = <<>>
      BY <1>1, <2>4, Parts DEF IdleTimeout, Consistent
    <3>. QED BY <1>4, <2>1, <3>1
  <2>5. CASE BackendRefuses \/ BackendApplies
    <3>1. stream' = stream
      BY <2>5 DEF BackendRefuses, BackendApplies
    <3>. QED BY <1>1, <1>4, <2>1, <3>1 DEF Served
  <2>. QED BY <1>11, <2>2, <2>3, <2>4, <2>5
<1>12. CASE OnWriteStreamMutationResult \/ WriteRefused
  <2>1. PICK o \in {"ok", "failed"} :
          /\ Settled(o) /\ pipeline # <<>> /\ UNCHANGED <<issued, applied, enabled>>
          /\ o = "ok" => Head(pipeline).num \in applied
    <3>1. CASE OnWriteStreamMutationResult
      BY <1>1, <3>1, FirstAnswer DEF OnWriteStreamMutationResult
    <3>2. CASE WriteRefused
      <4>1. pipeline # <<>>
        BY <1>1, <3>2, Parts, NextRequest DEF WriteRefused, Consistent
      <4>. QED BY <3>2, <4>1 DEF WriteRefused
    <3>. QED BY <1>12, <3>1, <3>2
  <2>2. PICK s \in Stream : \E w : FillWritePipeline(enabled, Tail(pipeline), queue'[user], s, w)
    BY <1>2, <1>12, StreamTypes DEF OnWriteStreamMutationResult, WriteRefused
  <2>3. /\ Tail(queue[user]) \in Seq(Batch) /\ Grows(Tail(queue[user]))
        /\ queue' = [queue EXCEPT ![user] = Tail(queue[user])]
        /\ Tail(pipeline) \in Seq(Batch) /\ First(Tail(pipeline), Tail(queue[user]))
    BY <1>1, <2>1, SettledKeeps
  <2>4. queue'[user] = Tail(queue[user]) /\ user' = user
    BY <1>2, <2>1, <2>3 DEF Settled
  <2>5. Len(Tail(pipeline)) <= MaxPendingWrites
    <3>1. Len(Tail(pipeline)) = Len(pipeline) - 1 /\ Len(pipeline) \in Nat
      BY <1>2, <2>1, HeadTailProperties, LenProperties
    <3>. QED BY <1>2, <1>3, <3>1
  <2>6. Served(enabled, pipeline', Tail(queue[user]), stream')
    BY <1>2, <2>1, <2>2, <2>3, <2>4, <2>5, FillServes
  <2>. QED BY <2>1, <2>4, <2>6 DEF Served, Filled
<1>. QED BY <1>5, <1>6, <1>7, <1>8, <1>9, <1>10, <1>11, <1>12 DEF Next, Device, WriteStream, Backend

\* Where the rows of a queue go when a write is issued or settled.
LEMMA RowsAfterWrite ==
  ASSUME IInv, WriteMutations
  PROVE  /\ user' = user /\ issued' = issued + 1
         /\ \A u \in Users : \A i \in DOMAIN queue[u] :
              i \in DOMAIN queue'[u] /\ queue'[u][i] = queue[u][i]
         /\ \A u \in Users : \A j \in DOMAIN queue'[u] :
              \/ j \in DOMAIN queue[u] /\ \A i \in DOMAIN queue'[u] : i < j => i \in DOMAIN queue[u]
              \/ /\ queue'[u][j].num = issued + 1
                 /\ \A i \in DOMAIN queue'[u] : ~(j < i)
<1> DEFINE b == [id |-> nextId, num |-> issued + 1]
           q == queue[user]
<1>1. /\ queue \in [Users -> Seq(Batch)] /\ user \in Users /\ q \in Seq(Batch) /\ Grows(q)
      /\ b \in Batch
  <2>1. queue \in [Users -> Seq(Batch)] /\ user \in Users /\ q \in Seq(Batch) /\ Grows(q)
    BY Parts DEF TypeOK
  <2>2. b \in Batch
    BY Parts, WriteBoundsAssumption DEF WriteMutations, TypeOK, Batch, Nums
  <2>. QED BY <2>1, <2>2
<1>2. queue' = [queue EXCEPT ![user] = Append(@, b)] /\ user' = user /\ issued' = issued + 1
  BY DEF WriteMutations
<1>3. b.num = issued + 1
  OBVIOUS
<1> HIDE DEF b, q
<1>4. /\ Len(q) \in Nat /\ DOMAIN q = 1..Len(q)
      /\ DOMAIN Append(q, b) = 1..(Len(q) + 1) /\ Append(q, b)[Len(q) + 1] = b
      /\ \A i \in 1..Len(q) : Append(q, b)[i] = q[i]
  <2>1. Append(q, b) \in Seq(Batch) /\ Len(Append(q, b)) = Len(q) + 1
    BY <1>1, AppendProperties
  <2>. QED BY <1>1, <2>1, LenProperties, AppendProperties
<1>5. queue'[user] = Append(q, b) /\ \A u \in Users : u # user => queue'[u] = queue[u]
  BY <1>1, <1>2 DEF q
<1>6. ASSUME NEW u \in Users, NEW i \in DOMAIN queue[u]
      PROVE  i \in DOMAIN queue'[u] /\ queue'[u][i] = queue[u][i]
  BY <1>4, <1>5 DEF q
<1>7. ASSUME NEW u \in Users, NEW j \in DOMAIN queue'[u]
      PROVE  \/ j \in DOMAIN queue[u] /\ \A i \in DOMAIN queue'[u] : i < j => i \in DOMAIN queue[u]
             \/ /\ queue'[u][j].num = issued + 1
                /\ \A i \in DOMAIN queue'[u] : ~(j < i)
  <2>1. CASE u # user
    BY <1>5, <2>1
  <2>2. CASE u = user /\ j = Len(q) + 1
    BY <1>3, <1>4, <1>5, <2>2
  <2>3. CASE u = user /\ j \in 1..Len(q)
    BY <1>4, <1>5, <2>3 DEF q
  <2>. QED BY <1>4, <1>5, <2>1, <2>2, <2>3
<1>. QED BY <1>2, <1>6, <1>7

LEMMA RowsAfterSettled ==
  ASSUME IInv, NEW o \in {"ok", "failed"}, pipeline # <<>>, Settled(o),
         UNCHANGED <<issued, applied>>, o = "ok" => Head(pipeline).num \in applied
  PROVE  /\ user' = user
         /\ 1 \in DOMAIN queue[user] /\ queue[user][1] = Head(pipeline)
         /\ \A i \in DOMAIN queue[user] : i # 1 =>
              i - 1 \in DOMAIN queue'[user] /\ queue'[user][i - 1] = queue[user][i]
         /\ \A i \in DOMAIN queue'[user] :
              i + 1 \in DOMAIN queue[user] /\ queue'[user][i] = queue[user][i + 1]
         /\ \A u \in Users : u # user => queue'[u] = queue[u]
<1> DEFINE q == queue[user]
<1>1. /\ q # <<>> /\ Head(pipeline) = Head(q) /\ queue' = [queue EXCEPT ![user] = Tail(q)]
      /\ q \in Seq(Batch) /\ Grows(q) /\ queue \in [Users -> Seq(Batch)] /\ user \in Users
      /\ user' = user
  <2>1. q # <<>> /\ Head(pipeline) = Head(q) /\ queue' = [queue EXCEPT ![user] = Tail(q)]
    BY SettledKeeps
  <2>. QED BY <2>1, Parts DEF TypeOK, Settled
<1>2. queue'[user] = Tail(q) /\ \A u \in Users : u # user => queue'[u] = queue[u]
  BY <1>1
<1> HIDE DEF q
<1>3. /\ Head(q) = q[1] /\ Len(q) \in Nat \ {0} /\ DOMAIN q = 1..Len(q)
      /\ DOMAIN Tail(q) = 1..(Len(q) - 1)
      /\ \A i \in 1..(Len(q) - 1) : Tail(q)[i] = q[i + 1]
  BY <1>1, GrowsTail
<1>4. ASSUME NEW i \in DOMAIN q, i # 1 PROVE i - 1 \in DOMAIN Tail(q) /\ Tail(q)[i - 1] = q[i]
  BY <1>3, <1>4
<1>5. \A i \in DOMAIN Tail(q) : i + 1 \in DOMAIN q
  BY <1>3
<1>. QED BY <1>1, <1>2, <1>3, <1>4, <1>5 DEF q

\* A wait leaves with its row.
LEMMA HangStep ==
  ASSUME QInv, [Next]_vars
  PROVE  WaitsHang'
<1>1. IInv /\ WaitsHang
  BY DEF QInv
<1>2. user \in Users /\ waits \subseteq [id : Nat \ {0}, nums : SUBSET Nums]
  BY <1>1, Parts DEF TypeOK
<1>3. ASSUME UNCHANGED <<waits, queue, user>> PROVE WaitsHang'
  BY <1>1, <1>3 DEF WaitsHang
<1>4. CASE WriteMutations
  BY <1>1, <1>2, <1>4, RowsAfterWrite DEF WaitsHang, WriteMutations
<1>5. CASE RegisterPendingWritesCallback
  <2>1. /\ queue[user] # <<>> /\ queue' = queue /\ user' = user /\ queue[user] \in Seq(Batch)
        /\ waits' = {[id |-> queue[user][Len(queue[user])].id, nums |-> NumsOf(queue[user])]}
    BY <1>1, <1>5, Parts DEF RegisterPendingWritesCallback
  <2>2. Len(queue[user]) \in DOMAIN queue[user]
    BY <2>1, LenProperties, EmptySeq
  <2>. QED BY <2>1, <2>2 DEF WaitsHang
<1>6. CASE BackendApplies \/ UNCHANGED <<local, history>>
  BY <1>3, <1>6 DEF BackendApplies, local
<1>7. CASE Restart
  BY <1>7 DEF Restart, WaitsHang
<1>8. ASSUME NEW u \in Users, HandleCredentialChange(u) PROVE WaitsHang'
  BY <1>3, <1>8 DEF HandleCredentialChange, WaitsHang
<1>9. ASSUME NEW o \in {"ok", "failed"}, pipeline # <<>>, Settled(o),
             UNCHANGED <<issued, applied>>, o = "ok" => Head(pipeline).num \in applied
      PROVE  WaitsHang'
  <2>1. waits' = {w \in waits : w.id # Head(pipeline).id}
    BY <1>9 DEF Settled
  <2>2. /\ user' = user /\ queue[user][1] = Head(pipeline)
        /\ \A i \in DOMAIN queue[user] : i # 1 =>
             i - 1 \in DOMAIN queue'[user] /\ queue'[user][i - 1] = queue[user][i]
    BY <1>1, <1>9, RowsAfterSettled
  <2>3. ASSUME NEW w \in waits' PROVE \E i \in DOMAIN queue'[user] : queue'[user][i].id = w.id
    <3>1. w \in waits /\ w.id # queue[user][1].id
      BY <2>1, <2>2
    <3>2. PICK i \in DOMAIN queue[user] : queue[user][i].id = w.id
      BY <1>1, <3>1 DEF WaitsHang
    <3>3. i # 1
      BY <3>1, <3>2
    <3>. QED BY <2>2, <3>2, <3>3
  <2>. QED BY <2>2, <2>3 DEF WaitsHang
<1>. QED BY <1>1, <1>4, <1>5, <1>6, <1>7, <1>8, <1>9, StepKinds

\* The backend takes a queue from its beginning.
LEMMA AppliedStep ==
  ASSUME QInv, [Next]_vars
  PROVE  AppliedFirst'
<1>1. IInv /\ AppliedFirst
  BY DEF QInv
<1>2. ASSUME UNCHANGED <<queue, applied>> PROVE AppliedFirst'
  BY <1>1, <1>2 DEF AppliedFirst
<1>3. CASE WriteMutations
  <2>1. applied' = applied /\ issued + 1 \notin applied
    BY <1>1, <1>3, Parts, WriteBoundsAssumption DEF WriteMutations, AppliedWereIssued, TypeOK
  <2>2. ASSUME NEW u \in Users, NEW i \in DOMAIN queue'[u], NEW j \in DOMAIN queue'[u],
               i < j, queue'[u][j].num \in applied
        PROVE  queue'[u][i].num \in applied
    <3>1. j \in DOMAIN queue[u] /\ i \in DOMAIN queue[u]
      BY <1>1, <1>3, <2>1, <2>2, RowsAfterWrite
    <3>2. queue'[u][j] = queue[u][j] /\ queue'[u][i] = queue[u][i]
      BY <1>1, <1>3, <3>1, RowsAfterWrite
    <3>. QED BY <1>1, <2>2, <3>1, <3>2 DEF AppliedFirst
  <2>. QED BY <2>1, <2>2 DEF AppliedFirst
<1>4. CASE BackendApplies
  <2> DEFINE k == Len(wire.responses) + 1
             n == Head(wire.requests).num
  <2>1. /\ wire.requests # <<>> /\ applied' = applied \cup {n} /\ queue' = queue
    BY <1>4 DEF BackendApplies, local
  <2>2. /\ k \in 1..Len(queue[user]) /\ n = queue[user][k].num
        /\ \A j \in 1..Len(wire.responses) : wire.responses[j] = queue[user][j]
    BY <1>1, <2>1, NextRequest
  <2>3. /\ Len(wire.responses) \in Nat /\ DOMAIN wire.responses = 1..Len(wire.responses)
        /\ \A j \in 1..Len(wire.responses) : wire.responses[j].num \in applied
    BY <1>1, Parts, LenProperties DEF AnsweredWereApplied
  <2>4. /\ queue[user] \in Seq(Batch) /\ DOMAIN queue[user] = 1..Len(queue[user])
        /\ Len(queue[user]) \in Nat /\ user \in Users
        /\ \A u \in Users : Grows(queue[u]) /\ queue[u] \in Seq(Batch)
    BY <1>1, Parts, LenProperties DEF TypeOK, RowsNumbered
  <2> HIDE DEF n
  <2>5. ASSUME NEW u \in Users, NEW i \in DOMAIN queue[u], NEW j \in DOMAIN queue[u],
               i < j, queue[u][j].num \in applied \cup {n}
        PROVE  queue[u][i].num \in applied
    <3>1. CASE queue[u][j].num \in applied
      BY <1>1, <2>5, <3>1 DEF AppliedFirst
    <3>2. CASE queue[u][j].num = n
      <4>1. u = user
        BY <1>1, <2>2, <2>4, <3>2, Parts DEF RowsNumbered
      <4>2. j = k
        <5>1. j \in 1..Len(queue[user]) /\ queue[user][j].num = queue[user][k].num
          BY <2>2, <2>4, <3>2, <4>1
        <5>2. \A m \in 1..Len(queue[user]) : queue[user][m].num \in Nat
          BY <2>4, BatchType, LenProperties
        <5>3. k \in 1..Len(queue[user]) /\ Grows(queue[user])
          BY <2>2, <2>4
        <5> HIDE DEF k
        <5>4. ~(j < k) /\ ~(k < j)
          BY <2>4, <5>1, <5>2, <5>3 DEF Grows
        <5>. QED BY <2>4, <5>1, <5>3, <5>4
      <4>3. i \in 1..Len(wire.responses)
        BY <2>3, <2>4, <2>5, <4>1, <4>2
      <4>. QED BY <2>2, <2>3, <4>1, <4>3
    <3>. QED BY <2>5, <3>1, <3>2
  <2>. QED BY <2>1, <2>5 DEF AppliedFirst
<1>5. CASE RegisterPendingWritesCallback \/ Restart \/ UNCHANGED <<local, history>>
  BY <1>2, <1>5 DEF RegisterPendingWritesCallback, Restart, local, history
<1>6. ASSUME NEW u \in Users, HandleCredentialChange(u) PROVE AppliedFirst'
  BY <1>2, <1>6 DEF HandleCredentialChange, history
<1>7. ASSUME NEW o \in {"ok", "failed"}, pipeline # <<>>, Settled(o),
             UNCHANGED <<issued, applied>>, o = "ok" => Head(pipeline).num \in applied
      PROVE  AppliedFirst'
  <2>1. /\ \A i \in DOMAIN queue'[user] :
             i + 1 \in DOMAIN queue[user] /\ queue'[user][i] = queue[user][i + 1]
        /\ \A u \in Users : u # user => queue'[u] = queue[u]
    BY <1>1, <1>7, RowsAfterSettled
  <2>2. ASSUME NEW u \in Users, NEW i \in DOMAIN queue'[u], NEW j \in DOMAIN queue'[u],
               i < j, queue'[u][j].num \in applied
        PROVE  queue'[u][i].num \in applied
    <3>1. CASE u # user
      BY <1>1, <2>1, <2>2, <3>1 DEF AppliedFirst
    <3>2. CASE u = user
      <4>1. /\ i + 1 \in DOMAIN queue[user] /\ queue'[user][i] = queue[user][i + 1]
            /\ j + 1 \in DOMAIN queue[user] /\ queue'[user][j] = queue[user][j + 1]
        BY <2>1, <2>2, <3>2
      <4>2. i + 1 < j + 1
        <5>1. queue[user] \in Seq(Batch) /\ queue'[user] \in Seq(Batch)
          BY <1>1, <1>7, SettledKeeps, Parts DEF TypeOK
        <5>2. i \in Nat /\ j \in Nat
          BY <2>2, <3>2, <5>1, LenProperties
        <5>. QED BY <2>2, <5>2
      <4>3. user \in Users
        BY <1>1, Parts
      <4>. QED BY <1>1, <2>2, <3>2, <4>1, <4>2, <4>3 DEF AppliedFirst
    <3>. QED BY <3>1, <3>2
  <2>. QED BY <1>7, <2>2 DEF AppliedFirst
<1>. QED BY <1>1, <1>3, <1>4, <1>5, <1>6, <1>7, StepKinds

\* Rows with one number are one row.
LEMMA OneRowEach ==
  ASSUME IInv, NEW u \in Users, NEW c \in callbacks[u], NEW v \in Users, NEW d \in callbacks[v],
         c.num = d.num
  PROVE  u = v /\ c = d
<1>1. PICK i \in DOMAIN queue[u] : queue[u][i] = c
  BY Parts DEF CallbacksQueued
<1>2. PICK j \in DOMAIN queue[v] : queue[v][j] = d
  BY Parts DEF CallbacksQueued
<1>3. u = v
  BY <1>1, <1>2, Parts DEF RowsNumbered
<1>4. queue[u] \in Seq(Batch) /\ Grows(queue[u])
  BY Parts DEF TypeOK, RowsNumbered
<1>5. DOMAIN queue[u] = 1..Len(queue[u]) /\ Len(queue[u]) \in Nat /\ \A m \in DOMAIN queue[u] : queue[u][m].num \in Nat
  BY <1>4, LenProperties, BatchType
<1>6. ~(i < j) /\ ~(j < i)
  BY <1>1, <1>2, <1>3, <1>4, <1>5 DEF Grows
<1>. QED BY <1>1, <1>2, <1>3, <1>5, <1>6

\* Whom a settled write's callbacks tell.
LEMMA SettledTells ==
  ASSUME IInv, CallersUntold, NEW o \in {"ok", "failed"}, pipeline # <<>>, Settled(o),
         UNCHANGED <<issued, applied>>, o = "ok" => Head(pipeline).num \in applied
  PROVE  /\ \A n \in Nums : told'[n] # told[n] =>
              told[n] = "nothing" /\ n <= issued
              /\ \A u \in Users : \A c \in callbacks'[u] : c.num # n
         /\ \A u \in Users : callbacks'[u] \subseteq callbacks[u]
<1> DEFINE called == {c \in callbacks[user] : c.id = Head(pipeline).id}
<1>1. /\ callbacks' = [callbacks EXCEPT ![user] = @ \ called]
      /\ told' = [n \in Nums |-> IF n \in {c.num : c \in called} THEN o ELSE told[n]]
      /\ called \subseteq callbacks[user] /\ user \in Users
      /\ callbacks \in [Users -> SUBSET Batch]
  BY Parts DEF Settled, TypeOK
<1> HIDE DEF called
<1>2. /\ callbacks'[user] = callbacks[user] \ called
      /\ \A u \in Users : u # user => callbacks'[u] = callbacks[u]
  BY <1>1
<1>3. \A u \in Users : callbacks'[u] \subseteq callbacks[u]
  BY <1>2
<1>4. ASSUME NEW n \in Nums, told'[n] # told[n]
      PROVE  told[n] = "nothing" /\ n <= issued
             /\ \A u \in Users : \A c \in callbacks'[u] : c.num # n
  <2>1. PICK d \in called : d.num = n
    BY <1>1, <1>4
  <2>2. d \in callbacks[user]
    BY <1>1
  <2>3. told[n] = "nothing"
    BY <1>1, <2>1, <2>2 DEF CallersUntold
  <2>4. n <= issued
    BY <1>1, <2>1, <2>2, Parts DEF CallbacksQueued, RowsNumbered
  <2>5. ASSUME NEW u \in Users, NEW c \in callbacks'[u], c.num = n PROVE FALSE
    <3>1. c \in callbacks[u]
      BY <1>3
    <3>2. u = user /\ c = d
      BY <1>1, <2>1, <2>2, <2>5, <3>1, OneRowEach
    <3>. QED BY <1>2, <2>5, <3>2
  <2>. QED BY <2>3, <2>4, <2>5
<1>. QED BY <1>3, <1>4

LEMMA UntoldStep ==
  ASSUME QInv, [Next]_vars
  PROVE  CallersUntold' /\ \A n \in Nums : told[n] # "nothing" => told'[n] = told[n]
<1>1. IInv /\ CallersUntold
  BY DEF QInv
<1>2. ASSUME UNCHANGED <<callbacks, issued, told>>
      PROVE  CallersUntold' /\ \A n \in Nums : told[n] # "nothing" => told'[n] = told[n]
  BY <1>1, <1>2 DEF CallersUntold
<1>3. CASE WriteMutations
  <2> DEFINE b == [id |-> nextId, num |-> issued + 1]
  <2>1. /\ callbacks' = [callbacks EXCEPT ![user] = @ \cup {b}]
        /\ issued < MaxWrites /\ issued' = issued + 1 /\ told' = told
    BY <1>3 DEF WriteMutations
  <2>2. /\ issued \in Nat /\ issued + 1 \in Nums /\ user \in Users
        /\ callbacks \in [Users -> SUBSET Batch] /\ b.num = issued + 1
    BY <1>1, <2>1, Parts, WriteBoundsAssumption DEF TypeOK, Nums
  <2> HIDE DEF b
  <2>3. told[issued + 1] = "nothing"
    BY <1>1, <2>2 DEF CallersUntold
  <2>4. \A u \in Users : \A c \in callbacks'[u] : c \in callbacks[u] \/ c = b
    <3>1. callbacks'[user] = callbacks[user] \cup {b} /\ \A u \in Users : u # user => callbacks'[u] = callbacks[u]
      BY <2>1, <2>2
    <3>. QED BY <3>1
  <2>5. \A u \in Users : \A c \in callbacks'[u] : told'[c.num] = "nothing"
    BY <1>1, <2>1, <2>2, <2>3, <2>4 DEF CallersUntold
  <2>6. \A n \in Nums : n > issued' => told'[n] = "nothing"
    BY <1>1, <2>1, <2>2, WriteBoundsAssumption DEF CallersUntold, Nums
  <2>. QED BY <2>1, <2>5, <2>6 DEF CallersUntold
<1>4. CASE RegisterPendingWritesCallback \/ BackendApplies \/ UNCHANGED <<local, history>>
  BY <1>2, <1>4 DEF RegisterPendingWritesCallback, BackendApplies, local, history
<1>5. CASE Restart
  BY <1>1, <1>5 DEF Restart, CallersUntold, history
<1>6. ASSUME NEW u \in Users, HandleCredentialChange(u)
      PROVE  CallersUntold' /\ \A n \in Nums : told[n] # "nothing" => told'[n] = told[n]
  BY <1>2, <1>6 DEF HandleCredentialChange, history
<1>7. ASSUME NEW o \in {"ok", "failed"}, pipeline # <<>>, Settled(o),
             UNCHANGED <<issued, applied>>, o = "ok" => Head(pipeline).num \in applied
      PROVE  CallersUntold' /\ \A n \in Nums : told[n] # "nothing" => told'[n] = told[n]
  <2>1. /\ \A n \in Nums : told'[n] # told[n] =>
             told[n] = "nothing" /\ n <= issued
             /\ \A u \in Users : \A c \in callbacks'[u] : c.num # n
        /\ \A u \in Users : callbacks'[u] \subseteq callbacks[u]
    BY <1>1, <1>7, SettledTells
  <2>2. \A u \in Users : \A c \in callbacks[u] : c.num \in Nums
    BY <1>1, Parts, BatchType DEF TypeOK
  <2>3. issued \in Nat /\ \A n \in Nums : n \in Nat
    BY <1>1, Parts, WriteBoundsAssumption DEF Nums
  <2>4. \A n \in Nums : n > issued => told'[n] = "nothing"
    BY <1>1, <2>1, <2>3 DEF CallersUntold
  <2>5. \A u \in Users : \A c \in callbacks'[u] : told'[c.num] = "nothing"
    BY <1>1, <2>1, <2>2 DEF CallersUntold
  <2>. QED BY <1>7, <2>1, <2>4, <2>5 DEF CallersUntold
<1>. QED BY <1>1, <1>3, <1>4, <1>5, <1>6, <1>7, StepKinds

LEMMA QueueInit == Init => QInv
<1>1. SUFFICES ASSUME Init PROVE QInv
  OBVIOUS
<1>2. queue[user] = <<>> /\ Len(<<>>) = 0 /\ DOMAIN <<>> = {} /\ \A u \in Users : queue[u] = <<>>
  BY <1>1, EmptySeq DEF Init
<1>3. Served(enabled, pipeline, queue[user], stream)
  BY <1>1, <1>2, MaxPendingAssumption DEF Init, Served, Filled
<1>4. WaitsHang /\ AppliedFirst /\ CallersUntold
  BY <1>1, <1>2 DEF Init, WaitsHang, AppliedFirst, CallersUntold
<1>. QED BY <1>1, <1>3, <1>4, InitInv DEF QInv

LEMMA QueueNext == QInv /\ [Next]_vars => QInv'
BY NextInv, ServedStep, HangStep, AppliedStep, UntoldStep DEF QInv

\* A pipeline that starts the queue and is filled is the rows it may hold.
LEMMA PrefixIs ==
  ASSUME QInv
  PROVE  PipelineIsQueuePrefix
BY Parts DEF QInv, Served, Filled, Consistent, First, PipelineIsQueuePrefix

LEMMA NobodyWaits ==
  ASSUME QInv
  PROVE  NobodyWaitsInVain
<1>1. IInv /\ Served(enabled, pipeline, queue[user], stream) /\ WaitsHang
  BY DEF QInv
<1>2. /\ CallbacksQueued /\ Consistent(enabled, pipeline, queue[user], stream, wire)
      /\ queue[user] \in Seq(Batch) /\ pipeline \in Seq(Batch)
  BY <1>1, Parts
<1>3. ASSUME enabled, queue[user] # <<>> PROVE pipeline # <<>>
  <2>1. Len(queue[user]) \in Nat \ {0}
    BY <1>2, <1>3, EmptySeq, LenProperties
  <2>2. Len(pipeline) # 0
    BY <1>1, <1>3, <2>1, MaxPendingAssumption DEF Served, Filled
  <2>. QED BY <2>2, EmptySeq
<1>4. pipeline # <<>> => Started(stream)
  BY <1>1 DEF Served
<1>5. IdleIsIdle
  BY <1>2 DEF Consistent, IdleIsIdle
<1>. QED BY <1>1, <1>2, <1>3, <1>4, <1>5 DEF NobodyWaitsInVain, CallbacksQueued, WaitsHang

-----------------------------------------------------------------------------
(* WriteQueue is what the client implements.                               *)

\* The writes of a queue, as WriteQueue keeps them.
NumSeq(q) == [i \in DOMAIN q |-> q[i].num]

LEMMA NumSeqType ==
  ASSUME NEW q \in Seq(Batch)
  PROVE  /\ NumSeq(q) \in Seq(Nums) /\ Len(NumSeq(q)) = Len(q)
         /\ DOMAIN NumSeq(q) = 1..Len(q) /\ DOMAIN q = 1..Len(q) /\ Len(q) \in Nat
         /\ \A i \in 1..Len(q) : NumSeq(q)[i] = q[i].num
<1>1. Len(q) \in Nat /\ DOMAIN q = 1..Len(q) /\ \A i \in 1..Len(q) : q[i].num \in Nums
  BY LenProperties, BatchType
<1>2. NumSeq(q) = [i \in 1..Len(q) |-> q[i].num]
  BY <1>1 DEF NumSeq
<1>3. NumSeq(q) \in Seq(Nums)
  BY <1>1, <1>2, IsASeq
<1>4. DOMAIN NumSeq(q) = 1..Len(NumSeq(q)) /\ Len(NumSeq(q)) \in Nat
  BY <1>3, LenProperties
<1>. QED BY <1>1, <1>2, <1>3, <1>4

LEMMA NumSeqAppend ==
  ASSUME NEW q \in Seq(Batch), NEW b \in Batch
  PROVE  NumSeq(Append(q, b)) = Append(NumSeq(q), b.num)
<1>1. /\ Append(q, b) \in Seq(Batch) /\ Len(Append(q, b)) = Len(q) + 1 /\ Len(q) \in Nat
      /\ Append(q, b)[Len(q) + 1] = b /\ \A i \in 1..Len(q) : Append(q, b)[i] = q[i]
  BY AppendProperties, LenProperties
<1>2. NumSeq(q) \in Seq(Nums) /\ Len(NumSeq(q)) = Len(q) /\ b.num \in Nums
  BY NumSeqType, BatchType
<1>3. /\ Append(NumSeq(q), b.num) \in Seq(Nums) /\ Len(Append(NumSeq(q), b.num)) = Len(q) + 1
      /\ Append(NumSeq(q), b.num)[Len(q) + 1] = b.num
      /\ \A i \in 1..Len(q) : Append(NumSeq(q), b.num)[i] = q[i].num
  BY <1>2, NumSeqType, AppendProperties
<1>4. /\ NumSeq(Append(q, b)) \in Seq(Nums) /\ Len(NumSeq(Append(q, b))) = Len(q) + 1
      /\ \A i \in 1..(Len(q) + 1) : NumSeq(Append(q, b))[i] = Append(q, b)[i].num
  BY <1>1, NumSeqType
<1>5. \A i \in 1..(Len(q) + 1) : NumSeq(Append(q, b))[i] = Append(NumSeq(q), b.num)[i]
  <2>1. \A i \in 1..(Len(q) + 1) : i \in 1..Len(q) \/ i = Len(q) + 1
    BY <1>1
  <2>. QED BY <1>1, <1>3, <1>4, <2>1
<1>. QED BY <1>3, <1>4, <1>5, SeqEqual

LEMMA NumSeqTail ==
  ASSUME NEW q \in Seq(Batch), q # <<>>
  PROVE  /\ NumSeq(Tail(q)) = Tail(NumSeq(q)) /\ NumSeq(q) # <<>>
         /\ Head(NumSeq(q)) = Head(q).num
<1>1. /\ Tail(q) \in Seq(Batch) /\ Len(Tail(q)) = Len(q) - 1 /\ Head(q) = q[1]
      /\ Len(q) \in Nat /\ Len(q) # 0
      /\ \A i \in 1..Len(Tail(q)) : Tail(q)[i] = q[i + 1]
  BY HeadTailProperties, LenProperties, EmptySeq
<1>2. NumSeq(q) \in Seq(Nums) /\ NumSeq(q) # <<>> /\ Len(NumSeq(q)) = Len(q)
  BY <1>1, NumSeqType, EmptySeq
<1>3. /\ Tail(NumSeq(q)) \in Seq(Nums) /\ Len(Tail(NumSeq(q))) = Len(q) - 1
      /\ Head(NumSeq(q)) = NumSeq(q)[1]
      /\ \A i \in 1..(Len(q) - 1) : Tail(NumSeq(q))[i] = NumSeq(q)[i + 1]
  BY <1>2, HeadTailProperties
<1>4. \A i \in 1..Len(q) : NumSeq(q)[i] = q[i].num
  BY NumSeqType
<1>5. /\ NumSeq(Tail(q)) \in Seq(Nums) /\ Len(NumSeq(Tail(q))) = Len(q) - 1
      /\ \A i \in 1..(Len(q) - 1) : NumSeq(Tail(q))[i] = Tail(q)[i].num
  BY <1>1, NumSeqType
<1>6. \A i \in 1..(Len(q) - 1) : NumSeq(Tail(q))[i] = Tail(NumSeq(q))[i]
  BY <1>1, <1>3, <1>4, <1>5
<1>7. NumSeq(Tail(q)) = Tail(NumSeq(q))
  BY <1>3, <1>5, <1>6, SeqEqual
<1>. QED BY <1>1, <1>2, <1>3, <1>4, <1>7

\* The two variables of WriteQueue that WritePipeline keeps otherwise.
Pending   == [u \in Users |-> [i \in DOMAIN queue[u] |-> queue[u][i].num]]
Listening == UNION {{c.num : c \in callbacks[u]} : u \in Users}

LEMMA PendingIs ==
  ASSUME TypeOK
  PROVE  \A u \in Users : Pending[u] = NumSeq(queue[u])
BY DEF Pending, NumSeq

LEMMA InitQueue == Init => AbstractQueue!Init
<1>1. SUFFICES ASSUME Init PROVE AbstractQueue!Init
  OBVIOUS
<1>2. \A u \in Users : queue[u] = <<>> /\ callbacks[u] = {}
  BY <1>1 DEF Init
<1>3. NumSeq(<<>>) = <<>>
  <2>1. <<>> \in Seq(Batch) /\ Len(<<>>) = 0
    BY EmptySeq
  <2>2. NumSeq(<<>>) \in Seq(Nums) /\ Len(NumSeq(<<>>)) = 0
    BY <2>1, NumSeqType
  <2>. QED BY <2>2, EmptySeq
<1>4. Pending = [u \in Users |-> <<>>]
  BY <1>2, <1>3 DEF Pending, NumSeq
<1>5. Listening = {}
  BY <1>2 DEF Listening
<1>. QED BY <1>1, <1>4, <1>5 DEF Init, AbstractQueue!Init, AbstractQueue!Nums, Nums, Pending, Listening

LEMMA SubmitQueue ==
  ASSUME IInv, WriteMutations
  PROVE  AbstractQueue!Submit
<1> DEFINE b == [id |-> nextId, num |-> issued + 1]
<1>1. /\ queue' = [queue EXCEPT ![user] = Append(@, b)]
      /\ callbacks' = [callbacks EXCEPT ![user] = @ \cup {b}]
      /\ issued < MaxWrites /\ issued' = issued + 1
      /\ UNCHANGED <<user, applied, told>>
  BY DEF WriteMutations
<1>2. /\ b \in Batch /\ b.num = issued + 1 /\ user \in Users
      /\ queue \in [Users -> Seq(Batch)] /\ callbacks \in [Users -> SUBSET Batch]
  <2>1. nextId \in Nat \ {0} /\ issued + 1 \in Nums
    BY <1>1, Parts, WriteBoundsAssumption DEF TypeOK, Nums
  <2>2. b \in Batch /\ b.num = issued + 1
    BY <2>1 DEF Batch
  <2>. QED BY <2>2, Parts DEF TypeOK
<1> HIDE DEF b
<1>3. Pending' = [Pending EXCEPT ![user] = Append(@, issued + 1)]
  <2>1. queue'[user] = Append(queue[user], b) /\ \A u \in Users : u # user => queue'[u] = queue[u]
    BY <1>1, <1>2
  <2>2. NumSeq(queue'[user]) = Append(NumSeq(queue[user]), issued + 1)
    BY <1>2, <2>1, NumSeqAppend
  <2>3. Pending' = [u \in Users |-> NumSeq(queue'[u])] /\ Pending = [u \in Users |-> NumSeq(queue[u])]
    BY DEF Pending, NumSeq
  <2>4. \A u \in Users : NumSeq(queue'[u]) = IF u = user THEN Append(NumSeq(queue[user]), issued + 1)
                                                         ELSE NumSeq(queue[u])
    BY <2>1, <2>2
  <2>. QED BY <1>2, <2>3, <2>4
<1>4. Listening' = Listening \cup {issued + 1}
  <2>1. callbacks'[user] = callbacks[user] \cup {b} /\ \A u \in Users : u # user => callbacks'[u] = callbacks[u]
    BY <1>1, <1>2
  <2>2. ASSUME NEW n PROVE n \in Listening' <=> n \in Listening \/ n = issued + 1
    <3>1. n \in Listening' <=> \E u \in Users : \E c \in callbacks'[u] : n = c.num
      BY DEF Listening
    <3>2. n \in Listening <=> \E u \in Users : \E c \in callbacks[u] : n = c.num
      BY DEF Listening
    <3>3. \A u \in Users : \A c : c \in callbacks'[u] <=> c \in callbacks[u] \/ (u = user /\ c = b)
      <4>1. \A c : c \in callbacks'[user] <=> c \in callbacks[user] \/ c = b
        BY <2>1
      <4>. QED BY <2>1, <4>1
    <3>. QED BY <1>2, <3>1, <3>2, <3>3
  <2>. QED BY <2>2
<1>. QED BY <1>1, <1>3, <1>4 DEF AbstractQueue!Submit, Pending, Listening

\* The write that is answered, or refused, is the oldest pending; its caller is
\* told if it still listens.
LEMMA SettleQueue ==
  ASSUME IInv, NEW o \in {"ok", "failed"}, pipeline # <<>>, Settled(o),
         UNCHANGED <<issued, applied>>, o = "ok" => Head(pipeline).num \in applied
  PROVE  AbstractQueue!Settle(o)
<1> DEFINE q == queue[user]
           b == Head(q)
<1>1. /\ user \in Users /\ q \in Seq(Batch) /\ q # <<>> /\ Head(pipeline) = b
      /\ queue' = [queue EXCEPT ![user] = Tail(q)]
      /\ {c \in callbacks[user] : c.id = b.id} = callbacks[user] \cap {b}
      /\ queue \in [Users -> Seq(Batch)] /\ callbacks \in [Users -> SUBSET Batch]
      /\ told \in [Nums -> {"nothing", "ok", "failed"}]
  BY SettledKeeps, Parts DEF TypeOK
<1>2. /\ callbacks' = [callbacks EXCEPT ![user] = @ \ (callbacks[user] \cap {b})]
      /\ told' = [n \in Nums |-> IF n \in {c.num : c \in callbacks[user] \cap {b}} THEN o ELSE told[n]]
      /\ user' = user
  <2> DEFINE called == {c \in callbacks[user] : c.id = b.id}
  <2>1. /\ callbacks' = [callbacks EXCEPT ![user] = @ \ called]
        /\ told' = [n \in Nums |-> IF n \in {c.num : c \in called} THEN o ELSE told[n]]
        /\ user' = user
    <3>1. called = {c \in callbacks[user] : c.id = Head(pipeline).id}
      BY <1>1
    <3> HIDE DEF called
    <3>. QED BY <3>1 DEF Settled
  <2>2. called = callbacks[user] \cap {b}
    BY <1>1
  <2> HIDE DEF called
  <2>. QED BY <2>1, <2>2
<1>3. b \in Batch /\ b.num \in Nums /\ \E i \in DOMAIN q : q[i] = b
  <2>1. 1 \in DOMAIN q /\ b = q[1] /\ b \in Batch
    BY <1>1, Parts, GrowsTail
  <2>. QED BY <2>1, BatchType
<1>4. Pending[user] # <<>> /\ Head(Pending[user]) = b.num
  BY <1>1, PendingIs, Parts, NumSeqTail
\* No other callback is for the write of the oldest row.
<1>5. \A u \in Users : \A c \in callbacks[u] : c.num = b.num => u = user /\ c = b
  <2>1. ASSUME NEW u \in Users, NEW c \in callbacks[u], c.num = b.num
        PROVE  u = user /\ c = b
    <3>1. PICK i \in DOMAIN queue[u] : queue[u][i] = c
      BY Parts DEF CallbacksQueued
    <3>2. PICK j \in DOMAIN q : q[j] = b
      BY <1>3
    <3>3. u = user
      BY <1>1, <2>1, <3>1, <3>2, Parts DEF RowsNumbered
    <3>4. /\ DOMAIN q = 1..Len(q) /\ Len(q) \in Nat
          /\ \A k \in DOMAIN q : k # 1 => b.num < q[k].num
          /\ b.num \in Nat /\ b = q[1]
      BY <1>1, <1>3, Parts, GrowsTail, BatchType
    <3>5. i = 1
      BY <2>1, <3>1, <3>3, <3>4
    <3>. QED BY <3>1, <3>3, <3>4, <3>5
  <2>. QED BY <2>1
<1> HIDE DEF q, b
<1>6. Pending' = [Pending EXCEPT ![user] = Tail(@)]
  <2>1. queue'[user] = Tail(q) /\ \A u \in Users : u # user => queue'[u] = queue[u]
    BY <1>1
  <2>2. NumSeq(queue'[user]) = Tail(NumSeq(q))
    BY <1>1, <2>1, NumSeqTail
  <2>3. Pending' = [u \in Users |-> NumSeq(queue'[u])] /\ Pending = [u \in Users |-> NumSeq(queue[u])]
    BY DEF Pending, NumSeq
  <2>4. \A u \in Users : NumSeq(queue'[u]) = IF u = user THEN Tail(NumSeq(queue[user]))
                                                         ELSE NumSeq(queue[u])
    BY <2>1, <2>2 DEF q
  <2>. QED BY <1>1, <2>3, <2>4
<1>7. \A n : n \in Listening <=> \E u \in Users : \E c \in callbacks[u] : n = c.num
  BY DEF Listening
<1>8. Listening' = Listening \ {b.num}
  <2>1. callbacks'[user] = callbacks[user] \ {b} /\ \A u \in Users : u # user => callbacks'[u] = callbacks[u]
    BY <1>1, <1>2
  <2>2. ASSUME NEW n PROVE n \in Listening' <=> n \in Listening /\ n # b.num
    <3>1. n \in Listening' <=> \E u \in Users : \E c \in callbacks'[u] : n = c.num
      BY DEF Listening
    <3>2. \A u \in Users : \A c : c \in callbacks'[u] <=> c \in callbacks[u] /\ ~(u = user /\ c = b)
      <4>1. \A c : c \in callbacks'[user] <=> c \in callbacks[user] /\ c # b
        BY <2>1
      <4>2. ASSUME NEW u \in Users, NEW c
            PROVE  c \in callbacks'[u] <=> c \in callbacks[u] /\ ~(u = user /\ c = b)
        <5>1. CASE u = user
          BY <4>1, <5>1
        <5>2. CASE u # user
          BY <2>1, <5>2
        <5>. QED BY <5>1, <5>2
      <4>. QED BY <4>2
    <3>. QED BY <1>5, <1>7, <3>1, <3>2
  <2>. QED BY <2>2
<1>9. told' = IF b.num \in Listening THEN [told EXCEPT ![b.num] = o] ELSE told
  <2>1. b.num \in Listening <=> b \in callbacks[user]
    <3>1. ASSUME b.num \in Listening PROVE b \in callbacks[user]
      <4>1. PICK u \in Users : \E c \in callbacks[u] : b.num = c.num
        BY <1>7, <3>1
      <4>2. PICK c \in callbacks[u] : b.num = c.num
        BY <4>1
      <4>. QED BY <1>5, <4>2
    <3>2. ASSUME b \in callbacks[user] PROVE b.num \in Listening
      BY <1>1, <1>7, <3>2
    <3>. QED BY <3>1, <3>2
  <2>2. CASE b \in callbacks[user]
    <3>1. \A n : n \in {c.num : c \in callbacks[user] \cap {b}} <=> n = b.num
      BY <2>2
    <3>2. told' = [n \in Nums |-> IF n = b.num THEN o ELSE told[n]]
      BY <1>2, <3>1
    <3>. QED BY <1>1, <1>3, <2>1, <2>2, <3>2
  <2>3. CASE b \notin callbacks[user]
    <3>1. \A n : n \notin {c.num : c \in callbacks[user] \cap {b}}
      BY <2>3
    <3>2. told' = [n \in Nums |-> told[n]]
      BY <1>2, <3>1
    <3>. QED BY <1>1, <2>1, <2>3, <3>2
  <2>. QED BY <2>2, <2>3
<1>10. o = "ok" => b.num \in applied
  BY <1>1
<1>. QED BY <1>2, <1>4, <1>6, <1>8, <1>9, <1>10
         DEF AbstractQueue!Settle, Pending, Listening

\* What the backend applies has all before it applied: they are answered.
LEMMA ApplyQueue ==
  ASSUME IInv, BackendApplies
  PROVE  \E i \in DOMAIN Pending[user] : AbstractQueue!Apply(i)
<1> DEFINE k == Len(wire.responses) + 1
           q == queue[user]
<1>1. /\ k \in 1..Len(q) /\ Head(wire.requests) = q[k] /\ Len(wire.responses) \in Nat
      /\ \A j \in 1..Len(wire.responses) : wire.responses[j] = q[j]
      /\ \A j \in 1..Len(wire.responses) : wire.responses[j].num \in applied
  <2>1. wire.requests # <<>>
    BY DEF BackendApplies
  <2>2. Len(wire.responses) \in Nat /\ DOMAIN wire.responses = 1..Len(wire.responses)
    BY Parts, LenProperties
  <2>. QED BY <2>1, <2>2, NextRequest, Parts DEF AnsweredWereApplied
<1>2. UNCHANGED <<user, queue, callbacks, issued, told>> /\ applied' = applied \cup {Head(wire.requests).num}
  BY DEF BackendApplies, local
<1>3. /\ DOMAIN Pending[user] = 1..Len(q) /\ Len(q) \in Nat
      /\ \A i \in 1..Len(q) : Pending[user][i] = q[i].num
  BY PendingIs, Parts, NumSeqType
<1>4. \A j \in 1..(k - 1) : Pending[user][j] \in applied
  <2>1. k - 1 = Len(wire.responses)
    BY <1>1
  <2>2. \A j \in 1..(k - 1) : j \in 1..Len(q) /\ j \in 1..Len(wire.responses)
    BY <1>1, <1>3, <2>1
  <2>. QED BY <1>1, <1>3, <2>2
<1> HIDE DEF k, q
<1>5. applied' = applied \cup {Pending[user][k]}
  BY <1>1, <1>2, <1>3
<1>6. Pending' = Pending /\ Listening' = Listening
  BY <1>2 DEF Pending, Listening
<1>7. AbstractQueue!Apply(k)
  BY <1>2, <1>4, <1>5, <1>6 DEF AbstractQueue!Apply, Pending, Listening
<1>. QED BY <1>1, <1>3, <1>7

\* Each step is one of WriteQueue's, or none.
LEMMA StepQueue ==
  ASSUME IInv, [Next]_vars
  PROVE  [AbstractQueue!Next]_(AbstractQueue!vars)
<1>1. ASSUME UNCHANGED <<user, queue, callbacks, issued, applied, told>>
      PROVE  UNCHANGED AbstractQueue!vars
  BY <1>1 DEF AbstractQueue!vars
<1>2. CASE UNCHANGED vars
  BY <1>1, <1>2 DEF vars, local, history
<1>3. CASE WriteMutations
  BY <1>3, SubmitQueue DEF AbstractQueue!Next
<1>4. CASE RegisterPendingWritesCallback \/ DisableNetwork \/ EnableNetwork \/ ConnectivityChanged
  BY <1>1, <1>4
     DEF RegisterPendingWritesCallback, DisableNetwork, EnableNetwork, ConnectivityChanged,
         local, history
<1>5. ASSUME NEW u \in Users, HandleCredentialChange(u)
      PROVE  AbstractQueue!SignIn(u)
  BY <1>5 DEF HandleCredentialChange, AbstractQueue!SignIn, history
<1>6. CASE Restart
  <2>1. Listening' = {}
    BY <1>6 DEF Restart, Listening
  <2>2. AbstractQueue!Kill
    BY <1>6, <2>1 DEF Restart, AbstractQueue!Kill, Listening, history
  <2>. QED BY <2>2 DEF AbstractQueue!Next
<1>7. CASE \/ ResumeStartWithCredentials \/ StreamFailsToStart \/ BackoffElapsed
           \/ OnWriteStreamHandshakeComplete \/ WriteStreamBreaks \/ IdleTimeout
           \/ BackendRefuses
  BY <1>1, <1>7
     DEF ResumeStartWithCredentials, StreamFailsToStart, BackoffElapsed, BackendRefuses,
         OnWriteStreamHandshakeComplete, WriteStreamBreaks, IdleTimeout, local, history
<1>8. CASE BackendApplies
  <2>1. PICK i \in DOMAIN Pending[user] : AbstractQueue!Apply(i)
    BY <1>8, ApplyQueue
  <2>. QED BY <2>1 DEF AbstractQueue!Next, Pending
<1>9. CASE OnWriteStreamMutationResult
  <2>1. AbstractQueue!Settle("ok")
    BY <1>9, FirstAnswer, SettleQueue DEF OnWriteStreamMutationResult
  <2>. QED BY <2>1 DEF AbstractQueue!Next
<1>10. CASE WriteRefused
  <2>1. pipeline # <<>>
    BY <1>10, Parts, NextRequest DEF WriteRefused, Consistent
  <2>2. AbstractQueue!Settle("failed")
    BY <1>10, <2>1, SettleQueue DEF WriteRefused
  <2>. QED BY <2>2 DEF AbstractQueue!Next
<1>. QED BY <1>2, <1>3, <1>4, <1>5, <1>6, <1>7, <1>8, <1>9, <1>10
         DEF Next, Device, WriteStream, Backend, AbstractQueue!Next

-----------------------------------------------------------------------------
(* The theorems.                                                           *)

\* Queue, pipeline, stream, wire, callbacks and waits tell one story.
THEOREM InvariantHolds == Spec => []IInv
BY InitInv, NextInv, PTL DEF Spec

\* The pipeline is filled as far as it goes, and whatever hangs on a row finds it.
THEOREM QueueHolds == Spec => []QInv
BY QueueInit, QueueNext, PTL DEF Spec

\* Queues, pipeline, stream and wire keep their types; batch ids stay positive
\* however often they are given out again (leveldb_mutation_queue.cc).
THEOREM TypeCorrect == Spec => []TypeOK
<1>1. IInv => TypeOK
  BY DEF IInv
<1>. QED BY <1>1, InvariantHolds, PTL

\* RemoteStore's pipeline is always the first rows of the current user's queue, and
\* as many as it may hold (remote_store.cc, FillWritePipeline and
\* OnWriteStreamMutationResult).
THEOREM PipelineStartsQueue == Spec => []PipelineIsQueuePrefix
BY QueueHolds, PrefixIs, PTL

\* The answers still owed are for the pipeline, in its order, so taking each for
\* the first batch blames and acknowledges the right one (remote_store.cc).
THEOREM AnswersAreForPipeline == Spec => []AnswersMatch
<1>1. IInv => AnswersMatch
  BY DEF IInv, Consistent, AnswersMatch
<1>. QED BY <1>1, InvariantHolds, PTL

\* No caller is told its write is stored before the backend has it (sync_engine.cc,
\* HandleSuccessfulWrite).
THEOREM AcknowledgedIsApplied == Spec => []AckedWasApplied
<1>1. IInv => AckedWasApplied
  BY DEF IInv
<1>. QED BY <1>1, InvariantHolds, PTL

\* The idle timer runs only on a live stream with an empty pipeline (stream.cc).
THEOREM IdleStreamIsIdle == Spec => []IdleIsIdle
<1>1. IInv => IdleIsIdle
  BY DEF IInv, Consistent, IdleIsIdle
<1>. QED BY <1>1, InvariantHolds, PTL

\* waitForPendingWrites, which hangs on one batch id, outlasts every write that was
\* pending when it was called (sync_engine.cc).
THEOREM WaitCoversAll == Spec => WaitsForAll
<1>1. IInv /\ [Next]_vars
        => [\A w \in waits \ waits' :
              w.nums \cap NumsOf(queue'[user]) = {} \/ disruptions' # disruptions]_vars
  BY WaitStep
<1>. QED BY <1>1, InvariantHolds, PTL DEF Spec, WaitsForAll

\* SyncEngine, LocalStore, RemoteStore and the write stream together are a
\* WriteQueue: writes are applied and settled in the order they were issued, each
\* caller told at most once, through breaks, restarts and changes of user.
THEOREM ImplementsWriteQueue == Spec => SettlesInOrder
<1>1. Init => AbstractQueue!Init
  BY InitQueue
<1>2. IInv /\ [Next]_vars => [AbstractQueue!Next]_(AbstractQueue!vars)
  BY StepQueue
<1>. QED BY <1>1, <1>2, InvariantHolds, PTL DEF Spec, SettlesInOrder, AbstractQueue!Spec

\* Callbacks and waits hang on rows, rows that may go are in the pipeline, the
\* pipeline has a stream that no timer stops: what QueueDrains needs besides
\* fairness, for any number of users, writes and disruptions (sync_engine.cc,
\* remote_store.cc, stream.cc).
THEOREM NobodyIsLeftWaiting == Spec => []NobodyWaitsInVain
BY QueueHolds, NobodyWaits, PTL

\* Of two writes of a user that are still queued the backend never has the later
\* one alone.
THEOREM WritesAppliedInOrder == Spec => []AppliedInOrder
<1>1. QInv => AppliedInOrder
  BY DEF QInv, AppliedFirst, AppliedInOrder, AbstractQueue!AppliedInOrder
<1>. QED BY <1>1, QueueHolds, PTL

\* The caller of a write is told at most one outcome, whatever streams, restarts
\* and reused ids came between (sync_engine.cc, HandleSuccessfulWrite).
THEOREM CallersToldOnce == Spec => ToldOnce
<1>1. QInv /\ [Next]_vars
        => [\A n \in AbstractQueue!Nums : told[n] # "nothing" => told'[n] = told[n]]_(AbstractQueue!vars)
  BY UntoldStep DEF AbstractQueue!Nums, Nums
<1>. QED BY <1>1, QueueHolds, PTL DEF Spec, ToldOnce, AbstractQueue!ToldOnce
=============================================================================
