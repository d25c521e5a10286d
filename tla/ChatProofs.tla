----------------------------- MODULE ChatProofs -----------------------------
(***************************************************************************)
(* Proofs about Chat for all sets of users, devices, slots and messages.   *)
(*                                                                         *)
(* A call holds nothing but its message, and its writes sit in a queue     *)
(* among those of other calls and of dead processes, so all rests on the   *)
(* queues: each call waits for one row (CallsHaveRows, RowsHaveCalls), the *)
(* rows of either kind are in the order of their messages, and a first add *)
(* that somebody waits for is later than every second add (Ordered).  That *)
(* makes rows unique, keeps the copies together, and makes each step one   *)
(* of Mailbox or none.                                                     *)
(***************************************************************************)
EXTENDS Chat, TLAPS, SequenceTheorems

InQueue(q) == {q[k] : k \in DOMAIN q}

Rows(u) == InQueue(writes[u])

\* A row that leads to the addressee: its second add, or a first add whose call
\* will issue the second.
Bound(r) == r.half = "peer" \/ r.by # Nil

\* The rows are in the order of their messages.
Ordered(q) ==
  \A i, j \in DOMAIN q :
    /\ i < j /\ q[i].half = q[j].half => q[i].msg < q[j].msg
    /\ q[i].half = "own" /\ q[i].by # Nil /\ q[j].half = "peer" => q[j].msg < q[i].msg

QueuesOrdered == \A u \in Devices : Ordered(writes[u])

NotToOneself ==
  /\ \A m \in Ids : sent[m] # Nil => sent[m].from \in Devices /\ sent[m].from # sent[m].to
  /\ \A u \in Devices : open[u] # u

RowsOfSender ==
  \A u \in Devices : \A r \in Rows(u) : sent[r.msg] # Nil /\ sent[r.msg].from = u

CallsHaveRows ==
  \A u \in Devices, s \in Slots :
    send[u][s] # IdleCall => Add(send[u][s].msg, send[u][s].at, s) \in Rows(u)

RowsHaveCalls ==
  \A u \in Devices : \A r \in Rows(u) :
    r.by # Nil => send[u][r.by] = [at |-> r.half, msg |-> r.msg]

BoxesOfConversation == \A u, p \in Users : box[u][p] \subseteq Conversation(u, p)

\* What still leads to the addressee has not arrived.
NotYetThere ==
  \A u \in Devices : \A r \in Rows(u) : Bound(r) => r.msg \notin box[sent[r.msg].to][u]

\* The second add is issued when the first is settled.
OwnFirst ==
  \A u \in Devices : \A r \in Rows(u) :
    r.half = "peer" => r.msg \in box[u][sent[r.msg].to] \/ <<r.msg, "own">> \in refused

OrphansLost ==
  \A u \in Devices : \A r \in Rows(u) : r.half = "own" /\ r.by = Nil => r.msg \in lost

\* Queues and calls; what the boxes hold follows from these.
QueueInv ==
  /\ QueuesOrdered /\ NotToOneself /\ RowsOfSender
  /\ CallsHaveRows /\ RowsHaveCalls

BoxInv ==
  /\ BoxesOfConversation /\ NotYetThere /\ OwnFirst /\ OrphansLost
  /\ CopiesAgree /\ OneConversationShown

IInv == TypeOK /\ QueueInv /\ BoxInv

-----------------------------------------------------------------------------
(* Queues.                                                                 *)

LEMMA WriteType ==
  ASSUME NEW r \in Write
  PROVE  /\ r.msg \in Ids /\ r.msg \in Nat /\ r.msg # Nil /\ ~(r.msg < r.msg)
         /\ r.half \in {"own", "peer"} /\ r.by \in Slots \cup {Nil}
         /\ r = Add(r.msg, r.half, r.by)
<1>1. r.msg \in Ids /\ r.half \in Halves /\ r.by \in Slots \cup {Nil} /\ r = Add(r.msg, r.half, r.by)
  BY DEF Write, Add
<1>2. Ids \subseteq Nat /\ Nil \notin Ids
  BY IdsAssumption
<1>3. r.msg \in Nat /\ r.msg # Nil
  BY <1>1, <1>2
<1>4. ~(r.msg < r.msg)
  BY <1>3
<1>. QED BY <1>1, <1>3, <1>4 DEF Halves

LEMMA OrderedTail ==
  ASSUME NEW q \in Seq(Write), q # <<>>, Ordered(q)
  PROVE  /\ Tail(q) \in Seq(Write) /\ Head(q) \in Write /\ Ordered(Tail(q))
         /\ Head(q) \in InQueue(q)
         /\ InQueue(Tail(q)) = InQueue(q) \ {Head(q)}
         /\ \A r \in InQueue(q) :
              /\ r \in Write
              /\ r # Head(q) /\ r.half = Head(q).half => Head(q).msg < r.msg
<1> DEFINE h == Head(q)
           t == Tail(q)
<1>1. /\ Len(q) \in Nat /\ Len(q) # 0 /\ DOMAIN q = 1..Len(q)
      /\ t \in Seq(Write) /\ h = q[1] /\ DOMAIN t = 1..(Len(q) - 1)
      /\ \A k \in 1..(Len(q) - 1) : t[k] = q[k + 1]
  BY LenProperties, HeadTailProperties, EmptySeq
<1>2. \A k \in DOMAIN q : q[k] \in Write
  BY ElementOfSeq, <1>1
<1>3. 1 \in DOMAIN q /\ \A k \in DOMAIN t : k \in Nat /\ k + 1 \in DOMAIN q /\ t[k] = q[k + 1] /\ 1 < k + 1
  BY <1>1
<1> HIDE DEF t, h
<1>4. Ordered(t)
  <2>1. ASSUME NEW i \in DOMAIN t, NEW j \in DOMAIN t
        PROVE  /\ i < j /\ t[i].half = t[j].half => t[i].msg < t[j].msg
               /\ t[i].half = "own" /\ t[i].by # Nil /\ t[j].half = "peer" => t[j].msg < t[i].msg
    <3>1. i < j => i + 1 < j + 1
      BY <1>3
    <3>. QED BY <1>3, <3>1 DEF Ordered
  <2>. QED BY <2>1 DEF Ordered
<1>5. \A k \in DOMAIN q : k = 1 \/ (k - 1 \in DOMAIN t /\ q[k] = t[k - 1])
  BY <1>1
<1>6. \A k \in DOMAIN t : t[k].half = h.half => h.msg < t[k].msg
  BY <1>1, <1>3 DEF Ordered
<1>7. \A k \in DOMAIN t : t[k] # h
  <2>1. h \in Write /\ ~(h.msg < h.msg)
    BY <1>1, <1>2, <1>3, WriteType
  <2>. QED BY <1>6, <2>1
<1>8. InQueue(t) = InQueue(q) \ {h}
  <2>1. \A r : r \in InQueue(t) => r \in InQueue(q) /\ r # h
    BY <1>3, <1>7 DEF InQueue
  <2>2. \A r : r \in InQueue(q) /\ r # h => r \in InQueue(t)
    BY <1>1, <1>5 DEF InQueue
  <2>. QED BY <2>1, <2>2
<1>9. \A r \in InQueue(q) : r \in Write /\ (r # h /\ r.half = h.half => h.msg < r.msg)
  BY <1>1, <1>2, <1>5, <1>6 DEF InQueue
<1>. QED BY <1>1, <1>2, <1>3, <1>4, <1>8, <1>9 DEF h, t, InQueue

LEMMA OrderedAppend ==
  ASSUME NEW q \in Seq(Write), NEW x \in Write, Ordered(q),
         \A r \in InQueue(q) :
           /\ r.half = x.half => r.msg < x.msg
           /\ x.half = "own" /\ x.by # Nil /\ r.half = "peer" => r.msg < x.msg
           /\ r.half = "own" /\ r.by # Nil /\ x.half = "peer" => x.msg < r.msg
  PROVE  /\ Append(q, x) \in Seq(Write) /\ Ordered(Append(q, x))
         /\ InQueue(Append(q, x)) = InQueue(q) \cup {x}
<1> DEFINE a == Append(q, x)
<1>1. /\ Len(q) \in Nat /\ DOMAIN q = 1..Len(q) /\ a \in Seq(Write)
      /\ DOMAIN a = 1..(Len(q) + 1) /\ a[Len(q) + 1] = x
      /\ \A k \in 1..Len(q) : a[k] = q[k]
  BY LenProperties, AppendProperties
<1> HIDE DEF a
<1>2. \A k \in DOMAIN a : (k \in DOMAIN q /\ a[k] = q[k]) \/ (k = Len(q) + 1 /\ a[k] = x)
  BY <1>1
<1>3. \A k \in DOMAIN q : k \in DOMAIN a /\ a[k] = q[k] /\ q[k] \in InQueue(q) /\ k < Len(q) + 1
  BY <1>1 DEF InQueue
<1>4. Ordered(a)
  <2>1. ASSUME NEW i \in DOMAIN a, NEW j \in DOMAIN a
        PROVE  /\ i < j /\ a[i].half = a[j].half => a[i].msg < a[j].msg
               /\ a[i].half = "own" /\ a[i].by # Nil /\ a[j].half = "peer" => a[j].msg < a[i].msg
    <3>1. CASE i \in DOMAIN q /\ j \in DOMAIN q
      BY <1>3, <3>1 DEF Ordered
    <3>2. CASE i \in DOMAIN q /\ j = Len(q) + 1 /\ a[j] = x
      BY <1>3, <3>2
    <3>3. CASE i = Len(q) + 1 /\ a[i] = x /\ j \in DOMAIN q
      <4>1. ~(i < j)
        BY <1>1, <3>3
      <4>. QED BY <1>3, <3>3, <4>1
    <3>4. CASE i = Len(q) + 1 /\ a[i] = x /\ j = Len(q) + 1 /\ a[j] = x
      BY <1>1, <3>4
    <3>. QED BY <1>2, <3>1, <3>2, <3>3, <3>4
  <2>. QED BY <2>1 DEF Ordered
<1>5. Len(q) + 1 \in DOMAIN a
  BY <1>1
<1>6. InQueue(a) = InQueue(q) \cup {x}
  BY <1>1, <1>2, <1>3, <1>5 DEF InQueue
<1>. QED BY <1>1, <1>4, <1>6 DEF a

\* A row that somebody waits for is the only one of its message that leads to
\* the addressee.
LEMMA OnlyRow ==
  ASSUME NEW q \in Seq(Write), Ordered(q), NEW r \in InQueue(q), NEW x \in InQueue(q),
         r.msg = x.msg, Bound(r), Bound(x)
  PROVE  r = x
<1>1. PICK i \in DOMAIN q : r = q[i]
  BY DEF InQueue
<1>2. PICK j \in DOMAIN q : x = q[j]
  BY DEF InQueue
<1>3. i \in Nat /\ j \in Nat /\ r \in Write /\ x \in Write
  BY <1>1, <1>2, LenProperties, ElementOfSeq
<1>4. ~(r.msg < x.msg) /\ ~(x.msg < r.msg) /\ r.half \in {"own", "peer"} /\ x.half \in {"own", "peer"}
  BY <1>3, WriteType
<1>5. r.half = x.half
  BY <1>1, <1>2, <1>3, <1>4 DEF Ordered, Bound
<1>6. i = j
  BY <1>1, <1>2, <1>3, <1>4, <1>5 DEF Ordered
<1>. QED BY <1>1, <1>2, <1>6

-----------------------------------------------------------------------------
(* An answer to the head of a queue.                                       *)

LEMMA Parts ==
  ASSUME IInv
  PROVE  /\ TypeOK /\ QueuesOrdered /\ NotToOneself /\ RowsOfSender /\ CallsHaveRows
         /\ RowsHaveCalls /\ BoxesOfConversation /\ NotYetThere /\ OwnFirst /\ OrphansLost
         /\ CopiesAgree /\ OneConversationShown
         /\ Devices \subseteq Users /\ Nil \notin Users /\ Nil \notin Slots
BY UsersAssumption, SlotsAssumption DEF IInv, QueueInv, BoxInv

\* What is known of a row.
LEMMA RowKnown ==
  ASSUME IInv, NEW u \in Devices, NEW r \in Rows(u)
  PROVE  /\ r \in Write /\ r.msg \in Ids /\ r.half \in {"own", "peer"}
         /\ sent[r.msg] \in Header /\ sent[r.msg].from = u /\ sent[r.msg].to \in Users
         /\ sent[r.msg].to # u /\ u \in Users
         /\ r.by # Nil => r.by \in Slots /\ send[u][r.by] = [at |-> r.half, msg |-> r.msg]
<1>1. writes[u] \in Seq(Write)
  BY Parts DEF TypeOK
<1>2. r \in Write
  BY <1>1, ElementOfSeq, LenProperties DEF Rows, InQueue
<1>3. r.msg \in Ids /\ r.half \in {"own", "peer"} /\ r.by \in Slots \cup {Nil}
  BY <1>2, WriteType
<1>4. sent[r.msg] # Nil /\ sent[r.msg].from = u /\ sent[r.msg].from # sent[r.msg].to
  BY <1>3, Parts DEF RowsOfSender, NotToOneself
<1>5. sent[r.msg] \in Header
  BY <1>3, <1>4, Parts DEF TypeOK
<1>6. sent[r.msg].to \in Users
  BY <1>5 DEF Header
<1>. QED BY <1>2, <1>3, <1>4, <1>5, <1>6, Parts DEF RowsHaveCalls

LEMMA HeadKnown ==
  ASSUME IInv, NEW u \in Devices, writes[u] # <<>>
  PROVE  /\ Head(writes[u]) \in Rows(u) /\ Tail(writes[u]) \in Seq(Write) /\ Ordered(Tail(writes[u]))
         /\ InQueue(Tail(writes[u])) = Rows(u) \ {Head(writes[u])}
         /\ \A x \in Rows(u) : x # Head(writes[u]) /\ x.half = Head(writes[u]).half
                               => Head(writes[u]).msg < x.msg
<1>1. writes[u] \in Seq(Write) /\ Ordered(writes[u])
  BY Parts DEF TypeOK, QueuesOrdered
<1>. QED BY <1>1, OrderedTail DEF Rows

\* The head of u's queue is settled, one way or the other.
Outcome(u) == \/ Stored(u) /\ UNCHANGED refused
              \/ Refused(u)

\* The boxes lose nothing, and gain at most the message of row r of u's queue.
Gains(u, r) ==
  /\ \A a, p \in Users : box[a][p] \subseteq box'[a][p]
  /\ \A a, p \in Users : \A k \in box'[a][p] :
       \/ k \in box[a][p]
       \/ k = r.msg /\ r.half = "own" /\ a = u /\ p = sent[r.msg].to
       \/ k = r.msg /\ r.half = "peer" /\ a = sent[r.msg].to /\ p = u

LEMMA BoxAfter ==
  ASSUME IInv, NEW u \in Devices, NEW r \in Rows(u), r = Head(writes[u]), Outcome(u)
  PROVE  /\ box' \in [Users -> [Users -> SUBSET Ids]]
         /\ refused' \subseteq Ids \X Halves /\ refused \subseteq refused'
         /\ Gains(u, r)
         /\ r.half = "own" => r.msg \in box'[u][sent[r.msg].to] \/ <<r.msg, "own">> \in refused'
         /\ r.half = "peer" => r.msg \in box'[sent[r.msg].to][u] \/ <<r.msg, "peer">> \in refused'
<1> DEFINE m == r.msg
           p == sent[m].to
<1>1. /\ m \in Ids /\ r.half \in {"own", "peer"} /\ p \in Users /\ u \in Users /\ p # u
      /\ sent[m].from = u
  BY RowKnown
<1>2. box \in [Users -> [Users -> SUBSET Ids]] /\ refused \subseteq Ids \X Halves
  BY Parts DEF TypeOK
<1>3. CASE Stored(u) /\ refused' = refused
  <2>1. box' = IF r.half = "own" THEN [box EXCEPT ![u][p] = @ \cup {m}]
                                 ELSE [box EXCEPT ![p][u] = @ \cup {m}]
    BY <1>1, <1>3 DEF Stored
  <2> HIDE DEF m, p
  <2>2. CASE r.half = "own"
    <3>1. box' = [box EXCEPT ![u][p] = @ \cup {m}]
      BY <2>1, <2>2
    <3>2. box' \in [Users -> [Users -> SUBSET Ids]]
      BY <1>1, <1>2, <3>1
    <3>3. \A a, b \in Users : box'[a][b] = IF a = u /\ b = p THEN box[a][b] \cup {m} ELSE box[a][b]
      BY <1>1, <1>2, <3>1
    <3>4. /\ \A a, b \in Users : box[a][b] \subseteq box'[a][b]
          /\ \A a, b \in Users : \A k \in box'[a][b] : k \in box[a][b] \/ (k = m /\ a = u /\ b = p)
          /\ m \in box'[u][p]
      <4>1. box'[u][p] = box[u][p] \cup {m}
        BY <1>1, <3>3
      <4>2. ASSUME NEW a \in Users, NEW b \in Users
            PROVE  /\ box[a][b] \subseteq box'[a][b]
                   /\ \A k \in box'[a][b] : k \in box[a][b] \/ (k = m /\ a = u /\ b = p)
        <5>1. CASE a = u /\ b = p
          BY <4>1, <5>1
        <5>2. CASE ~(a = u /\ b = p)
          BY <3>3, <5>2
        <5>. QED BY <5>1, <5>2
      <4>. QED BY <4>1, <4>2
    <3>. QED BY <1>2, <1>3, <2>2, <3>2, <3>4 DEF Gains, m, p
  <2>3. CASE r.half = "peer"
    <3>1. box' = [box EXCEPT ![p][u] = @ \cup {m}]
      BY <2>1, <2>3
    <3>2. box' \in [Users -> [Users -> SUBSET Ids]]
      BY <1>1, <1>2, <3>1
    <3>3. \A a, b \in Users : box'[a][b] = IF a = p /\ b = u THEN box[a][b] \cup {m} ELSE box[a][b]
      BY <1>1, <1>2, <3>1
    <3>4. /\ \A a, b \in Users : box[a][b] \subseteq box'[a][b]
          /\ \A a, b \in Users : \A k \in box'[a][b] : k \in box[a][b] \/ (k = m /\ a = p /\ b = u)
          /\ m \in box'[p][u]
      <4>1. box'[p][u] = box[p][u] \cup {m}
        BY <1>1, <3>3
      <4>2. ASSUME NEW a \in Users, NEW b \in Users
            PROVE  /\ box[a][b] \subseteq box'[a][b]
                   /\ \A k \in box'[a][b] : k \in box[a][b] \/ (k = m /\ a = p /\ b = u)
        <5>1. CASE a = p /\ b = u
          BY <4>1, <5>1
        <5>2. CASE ~(a = p /\ b = u)
          BY <3>3, <5>2
        <5>. QED BY <5>1, <5>2
      <4>. QED BY <4>1, <4>2
    <3>. QED BY <1>2, <1>3, <2>3, <3>2, <3>4 DEF Gains, m, p
  <2>. QED BY <1>1, <2>2, <2>3
<1>4. CASE Refused(u)
  <2>1. refused' = refused \cup {<<m, r.half>>} /\ box' = box
    BY <1>4 DEF Refused
  <2>2. <<m, r.half>> \in Ids \X Halves
    BY <1>1 DEF Halves
  <2>. QED BY <1>1, <1>2, <2>1, <2>2 DEF Gains
<1>. QED BY <1>3, <1>4 DEF Outcome

\* Whatever an answer does to queues and calls in detail, the boxes stay right
\* when the head's row goes, a new one only carries its message on, and a call
\* does so too.
LEMMA BoxesAfterAnswer ==
  ASSUME IInv, NEW u \in Devices, NEW r \in Rows(u), r = Head(writes[u]), Outcome(u),
         UNCHANGED <<screens, sent, lost>>,
         \A v \in Devices : \A x \in Rows(v)' :
           \/ x \in Rows(v) /\ ~(v = u /\ x = r)
           \/ v = u /\ Bound(r) /\ r.half = "own" /\ x.msg = r.msg /\ x.half = "peer",
         \A v \in Devices : \A x \in Rows(v) : x \in Rows(v)' \/ (v = u /\ x = r),
         \A v \in Devices, s \in Slots :
           send'[v][s].msg = send[v][s].msg \/ send[v][s].msg = r.msg,
         r.half = "own" /\ r.by # Nil => InFlight(r.msg)'
  PROVE  BoxInv'
<1> DEFINE m == r.msg
           p == sent[m].to
<1>1. /\ m \in Ids /\ r.half \in {"own", "peer"} /\ p \in Users /\ u \in Users /\ p # u
      /\ sent[m] \in Header /\ sent[m].from = u /\ sent[m] # Nil
  BY RowKnown, Parts DEF RowsOfSender
<1>2. /\ refused \subseteq refused'
      /\ \A a, b \in Users : box[a][b] \subseteq box'[a][b]
      /\ \A a, b \in Users : \A k \in box'[a][b] :
            \/ k \in box[a][b]
            \/ k = m /\ r.half = "own" /\ a = u /\ b = p
            \/ k = m /\ r.half = "peer" /\ a = p /\ b = u
      /\ r.half = "own" => m \in box'[u][p] \/ <<m, "own">> \in refused'
      /\ r.half = "peer" => m \in box'[p][u] \/ <<m, "peer">> \in refused'
  BY BoxAfter DEF Gains
<1>3. sent' = sent /\ lost' = lost /\ messages' = messages /\ subs' = subs
  BY DEF screens
<1>4. \A v \in Devices : \A x \in Rows(v) :
        /\ x.msg \in Ids /\ sent[x.msg].from = v /\ sent[x.msg].to \in Users /\ sent[x.msg].to # v
        /\ v \in Users
  BY RowKnown
<1> HIDE DEF m, p
<1>5. BoxesOfConversation'
  <2>1. \A a, b \in Users : Conversation(a, b)' = Conversation(a, b)
    BY <1>3 DEF Conversation
  <2>2. sent[m] = [from |-> u, to |-> p]
    BY <1>1 DEF Header, p
  <2>3. m \in Conversation(u, p) /\ m \in Conversation(p, u)
    BY <1>1, <2>2 DEF Conversation
  <2>. QED BY <1>2, <2>1, <2>3, Parts DEF BoxesOfConversation
<1>6. NotYetThere'
  <2>1. ASSUME NEW v \in Devices, NEW x \in Rows(v)', Bound(x)
        PROVE  x.msg \notin box'[sent[x.msg].to][v]
    <3>1. CASE x \in Rows(v) /\ ~(v = u /\ x = r)
      <4>1. x.msg \notin box[sent[x.msg].to][v]
        BY <2>1, <3>1, Parts DEF NotYetThere
      <4>2. ASSUME x.msg = m, v = u, r.half = "peer" PROVE FALSE
        <5>1. writes[u] \in Seq(Write) /\ Ordered(writes[u])
          BY Parts DEF TypeOK, QueuesOrdered
        <5>2. x = r
          BY <2>1, <3>1, <4>2, <5>1, OnlyRow DEF Bound, Rows, m
        <5>. QED BY <3>1, <4>2, <5>2
      <4>3. x.msg = m => v = u
        BY <1>1, <1>4, <3>1
      <4>. QED BY <1>1, <1>2, <1>4, <3>1, <4>1, <4>2, <4>3
    <3>2. CASE v = u /\ Bound(r) /\ r.half = "own" /\ x.msg = m
      <4>1. m \notin box[p][u]
        BY <3>2, Parts DEF NotYetThere, m, p
      <4>. QED BY <1>1, <1>2, <3>2, <4>1 DEF p
    <3>. QED BY <2>1, <3>1, <3>2 DEF m
  <2>. QED BY <1>3, <2>1 DEF NotYetThere, Bound
<1>7. OwnFirst'
  <2>1. ASSUME NEW v \in Devices, NEW x \in Rows(v)', x.half = "peer"
        PROVE  x.msg \in box'[v][sent[x.msg].to] \/ <<x.msg, "own">> \in refused'
    <3>1. CASE x \in Rows(v)
      BY <1>2, <1>4, <2>1, <3>1, Parts DEF OwnFirst
    <3>2. CASE v = u /\ r.half = "own" /\ x.msg = m
      BY <1>2, <3>2 DEF p
    <3>. QED BY <2>1, <3>1, <3>2 DEF m
  <2>. QED BY <1>3, <2>1 DEF OwnFirst
<1>8. OrphansLost'
  BY <1>3, Parts DEF OrphansLost
<1>9. CopiesAgree'
  <2> SUFFICES ASSUME NEW k \in Ids, sent[k] # Nil
               PROVE  /\ k \in box'[sent[k].from][sent[k].to] /\ k \notin box'[sent[k].to][sent[k].from]
                         => \/ InFlight(k)' \/ Queued(k, "peer")'
                            \/ k \in lost \/ <<k, "peer">> \in refused'
                      /\ k \in box'[sent[k].to][sent[k].from] /\ k \notin box'[sent[k].from][sent[k].to]
                         => <<k, "own">> \in refused'
    BY <1>3 DEF CopiesAgree
  <2>1. sent[k].from \in Users /\ sent[k].to \in Users
    <3>1. sent[k] \in Header
      BY Parts DEF TypeOK
    <3>. QED BY <3>1 DEF Header
  <2>2. CASE k # m
    <3>1. InFlight(k) => InFlight(k)'
      BY <2>2 DEF InFlight, m
    <3>2. Queued(k, "peer") => Queued(k, "peer")'
      <4>1. ASSUME Queued(k, "peer") PROVE Queued(k, "peer")'
        <5>1. PICK v \in Devices : \E i \in DOMAIN writes[v] : writes[v][i].msg = k /\ writes[v][i].half = "peer"
          BY <4>1 DEF Queued
        <5>2. PICK x \in Rows(v) : x.msg = k /\ x.half = "peer"
          BY <5>1 DEF Rows, InQueue
        <5>3. x \in Rows(v)'
          BY <2>2, <5>2 DEF m
        <5>. QED BY <5>2, <5>3 DEF Rows, InQueue, Queued
      <4>. QED BY <4>1
    <3>. QED BY <1>2, <2>1, <2>2, <3>1, <3>2, Parts DEF CopiesAgree
  <2>3. CASE k = m
    <3>1. k \in box'[u][p] /\ k \notin box'[p][u]
            => InFlight(k)' \/ k \in lost \/ <<k, "peer">> \in refused'
      <4>1. r.half = "own" /\ r.by = Nil => m \in lost
        BY Parts DEF OrphansLost, m
      <4>. QED BY <1>1, <1>2, <2>3, <4>1 DEF m
    <3>2. k \in box'[p][u] /\ k \notin box'[u][p] => <<k, "own">> \in refused'
      <4>1. CASE k \in box[p][u]
        BY <1>1, <1>2, <2>3, <4>1, Parts DEF CopiesAgree, p
      <4>2. CASE k \notin box[p][u] /\ k \in box'[p][u]
        <5>1. r.half = "peer"
          BY <1>1, <1>2, <4>2
        <5>2. m \in box[u][p] \/ <<m, "own">> \in refused
          BY <5>1, Parts DEF OwnFirst, m, p
        <5>. QED BY <1>1, <1>2, <2>3, <5>2
      <4>. QED BY <4>1, <4>2
    <3>. QED BY <1>1, <2>3, <3>1, <3>2 DEF p
  <2>. QED BY <2>2, <2>3
<1>10. OneConversationShown'
  BY <1>3, Parts DEF OneConversationShown, Conversation
<1>. QED BY <1>5, <1>6, <1>7, <1>8, <1>9, <1>10 DEF BoxInv

\* Rows after the head of u's queue has gone and nothing has come.
LEMMA RowsAfterTail ==
  ASSUME IInv, NEW u \in Devices, writes[u] # <<>>, writes' = [writes EXCEPT ![u] = Tail(@)]
  PROVE  /\ writes' \in [Devices -> Seq(Write)] /\ QueuesOrdered'
         /\ Rows(u)' = Rows(u) \ {Head(writes[u])}
         /\ \A v \in Devices : v # u => Rows(v)' = Rows(v)
<1>1. writes \in [Devices -> Seq(Write)]
  BY Parts DEF TypeOK
<1>2. writes'[u] = Tail(writes[u]) /\ \A v \in Devices : v # u => writes'[v] = writes[v]
  BY <1>1
<1>3. /\ Tail(writes[u]) \in Seq(Write) /\ Ordered(Tail(writes[u]))
      /\ InQueue(Tail(writes[u])) = Rows(u) \ {Head(writes[u])}
  BY HeadKnown
<1>4. writes' \in [Devices -> Seq(Write)]
  BY <1>1, <1>3
<1>5. \A v \in Devices : Ordered(writes'[v])
  BY <1>2, <1>3, Parts DEF QueuesOrdered
<1>6. Rows(u)' = InQueue(writes'[u])
  BY DEF Rows, InQueue
<1>7. \A v \in Devices : v # u => Rows(v)' = Rows(v)
  BY <1>2 DEF Rows, InQueue
<1>. QED BY <1>2, <1>3, <1>4, <1>5, <1>6, <1>7 DEF QueuesOrdered, Ordered

\* The row a call waits for is the only one with its name.
LEMMA OneRowEach ==
  ASSUME IInv, NEW u \in Devices, NEW r \in Rows(u), NEW x \in Rows(u), r.by # Nil, x.by = r.by
  PROVE  x = r
<1>1. send[u][r.by] = [at |-> r.half, msg |-> r.msg] /\ send[u][r.by] = [at |-> x.half, msg |-> x.msg]
  BY RowKnown
<1>2. r.half = x.half /\ r.msg = x.msg
  BY <1>1
<1>3. r = Add(r.msg, r.half, r.by) /\ x = Add(x.msg, x.half, x.by)
  BY RowKnown, WriteType
<1>. QED BY <1>2, <1>3

\* The first add is settled: the call goes on to the second.
LEMMA OwnAnsweredInv ==
  ASSUME IInv, NEW u \in Devices, NEW s \in Slots, OwnAdded(u, s) \/ OwnRefused(u, s)
  PROVE  IInv'
<1> DEFINE q == writes[u]
<1>1. /\ q # <<>> /\ Awaited(u, s, "own") /\ Outcome(u) /\ PeerAdd(u, s)
      /\ UNCHANGED <<screens, sent, lost>>
  BY DEF OwnAdded, OwnRefused, Awaited, Outcome, notes
<1>2. PICK r \in Rows(u) : r = Head(q)
  BY <1>1, HeadKnown
<1> DEFINE x == Add(r.msg, "peer", s)
<1>3. /\ r.by = s /\ r.half = "own" /\ Outcome(u) /\ PeerAdd(u, s)
      /\ UNCHANGED <<screens, sent, lost>>
      /\ Tail(q) \in Seq(Write) /\ Ordered(Tail(q)) /\ InQueue(Tail(q)) = Rows(u) \ {r}
  BY <1>1, <1>2, HeadKnown DEF Awaited
<1>4. /\ r.by # Nil /\ Bound(r) /\ send[u][s] = [at |-> "own", msg |-> r.msg] /\ r.msg \in Ids
      /\ r \in Write
  BY <1>3, <1>2, Parts, RowKnown DEF Bound
<1>5. x \in Write /\ x.msg = r.msg /\ x.half = "peer" /\ x.by = s
  BY <1>4 DEF x, Add, Write, Halves
<1>6. /\ writes' = [writes EXCEPT ![u] = Append(Tail(q), x)]
      /\ send' = [send EXCEPT ![u] = [@ EXCEPT ![s] = [at |-> "peer", msg |-> r.msg]]]
  <2>1. [send[u][s] EXCEPT !.at = "peer"] = [at |-> "peer", msg |-> r.msg]
    BY <1>4
  <2>. QED BY <1>3, <1>4, <2>1, Parts DEF PeerAdd, TypeOK
<1>7. writes \in [Devices -> Seq(Write)] /\ send \in [Devices -> [Slots -> Call]]
  BY Parts DEF TypeOK
<1>8. /\ Append(Tail(q), x) \in Seq(Write) /\ Ordered(Append(Tail(q), x))
      /\ InQueue(Append(Tail(q), x)) = InQueue(Tail(q)) \cup {x}
  <2>1. Ordered(q) /\ q \in Seq(Write)
    BY Parts DEF QueuesOrdered, TypeOK
  <2>2. \A y \in Rows(u) : y.half = "peer" => y.msg < r.msg
    <3>1. PICK i \in DOMAIN q : q[i] = r
      BY <1>2 DEF Rows, InQueue
    <3>. QED BY <1>3, <1>4, <2>1, <3>1 DEF Rows, InQueue, Ordered
  <2>3. \A y \in Rows(u) \ {r} : y.half = "own" => r.msg < y.msg
    BY <1>1, <1>3, <1>2, HeadKnown
  <2> HIDE DEF x, q
  <2>. QED BY <1>3, <1>5, <2>2, <2>3, OrderedAppend
<1>9. Rows(u)' = (Rows(u) \ {r}) \cup {x} /\ \A v \in Devices : v # u => Rows(v)' = Rows(v)
  <2>1. writes'[u] = Append(Tail(q), x) /\ \A v \in Devices : v # u => writes'[v] = writes[v]
    BY <1>6, <1>7
  <2>2. Rows(u)' = InQueue(writes'[u]) /\ \A v \in Devices : Rows(v)' = InQueue(writes'[v])
    BY DEF Rows, InQueue
  <2>. QED BY <1>3, <1>8, <2>1, <2>2 DEF Rows
<1> HIDE DEF x
<1>10. /\ send'[u][s] = [at |-> "peer", msg |-> r.msg]
      /\ \A v \in Devices, z \in Slots : ~(v = u /\ z = s) => send'[v][z] = send[v][z]
  BY <1>6, <1>7
<1>11. TypeOK'
  <2>1. writes' \in [Devices -> Seq(Write)]
    BY <1>6, <1>7, <1>8
  <2>2. [at |-> "peer", msg |-> r.msg] \in Call
    BY <1>4 DEF Call, Halves
  <2>3. send' \in [Devices -> [Slots -> Call]]
    BY <1>6, <1>7, <2>2
  <2>4. box' \in [Users -> [Users -> SUBSET Ids]] /\ refused' \subseteq Ids \X Halves
    BY <1>3, <1>2, BoxAfter
  <2>. QED BY <1>3, <2>1, <2>3, <2>4, Parts DEF TypeOK, screens
<1>12. QueueInv'
  <2>1. QueuesOrdered'
    <3>1. \A v \in Devices : Ordered(writes'[v])
      BY <1>6, <1>7, <1>8, Parts DEF QueuesOrdered
    <3>. QED BY <3>1 DEF QueuesOrdered, Ordered
  <2>2. NotToOneself'
    BY <1>3, Parts DEF NotToOneself, screens
  <2>3. RowsOfSender'
    <3>1. sent[x.msg] # Nil /\ sent[x.msg].from = u
      BY <1>2, <1>5, Parts DEF RowsOfSender
    <3>2. ASSUME NEW v \in Devices, NEW y \in Rows(v)' PROVE sent[y.msg] # Nil /\ sent[y.msg].from = v
      <4>1. y \in Rows(v) \/ (v = u /\ y = x)
        BY <1>9
      <4>. QED BY <3>1, <4>1, Parts DEF RowsOfSender
    <3>. QED BY <1>3, <3>2 DEF RowsOfSender
  <2>4. CallsHaveRows'
    <3>1. ASSUME NEW v \in Devices, NEW z \in Slots, send'[v][z] # IdleCall
          PROVE  Add(send'[v][z].msg, send'[v][z].at, z) \in Rows(v)'
      <4>1. CASE v = u /\ z = s
        BY <1>9, <1>10, <4>1 DEF x
      <4>2. CASE ~(v = u /\ z = s)
        <5>1. Add(send[v][z].msg, send[v][z].at, z) \in Rows(v)
          BY <1>10, <3>1, <4>2, Parts DEF CallsHaveRows
        <5>2. Add(send[v][z].msg, send[v][z].at, z).by = z
          BY DEF Add
        <5>. QED BY <1>3, <1>9, <1>10, <4>2, <5>1, <5>2
      <4>. QED BY <4>1, <4>2
    <3>. QED BY <3>1 DEF CallsHaveRows, Add
  <2>5. RowsHaveCalls'
    <3>1. ASSUME NEW v \in Devices, NEW y \in Rows(v)', y.by # Nil
          PROVE  send'[v][y.by] = [at |-> y.half, msg |-> y.msg]
      <4>1. CASE v = u /\ y = x
        BY <1>5, <1>10, <4>1
      <4>2. CASE y \in Rows(v) /\ ~(v = u /\ y = r)
        <5>1. y.by \in Slots /\ send[v][y.by] = [at |-> y.half, msg |-> y.msg]
          BY <3>1, <4>2, RowKnown
        <5>2. ~(v = u /\ y.by = s)
          BY <1>3, <1>2, <1>4, <4>2, OneRowEach
        <5>. QED BY <1>10, <5>1, <5>2
      <4>. QED BY <1>9, <4>1, <4>2
    <3>. QED BY <3>1 DEF RowsHaveCalls
  <2>. QED BY <2>1, <2>2, <2>3, <2>4, <2>5 DEF QueueInv
<1>13. BoxInv'
  <2>1. \A v \in Devices : \A y \in Rows(v)' :
          \/ y \in Rows(v) /\ ~(v = u /\ y = r)
          \/ v = u /\ Bound(r) /\ r.half = "own" /\ y.msg = r.msg /\ y.half = "peer"
    BY <1>3, <1>4, <1>5, <1>9
  <2>2. \A v \in Devices : \A y \in Rows(v) : y \in Rows(v)' \/ (v = u /\ y = r)
    BY <1>9
  <2>3. \A v \in Devices, z \in Slots :
          send'[v][z].msg = send[v][z].msg \/ send[v][z].msg = r.msg
    BY <1>4, <1>10
  <2>4. InFlight(r.msg)'
    BY <1>10 DEF InFlight
  <2>5. r = Head(writes[u]) /\ Outcome(u) /\ UNCHANGED <<screens, sent, lost>>
    BY <1>3, <1>2
  <2>. QED BY <1>2, <2>1, <2>2, <2>3, <2>4, <2>5, BoxesAfterAnswer
<1>. QED BY <1>11, <1>12, <1>13 DEF IInv

\* A head's row goes and with it the call that waited for it, if any did.
LEMMA TailKeepsQueueInv ==
  ASSUME IInv, NEW u \in Devices, NEW r \in Rows(u), r = Head(writes[u]), writes[u] # <<>>,
         writes' = [writes EXCEPT ![u] = Tail(@)],
         send' \in [Devices -> [Slots -> Call]],
         r.by # Nil => send'[u][r.by] = IdleCall,
         \A v \in Devices, z \in Slots : ~(v = u /\ z = r.by) => send'[v][z] = send[v][z],
         UNCHANGED <<sent, open>>
  PROVE  QueueInv'
<1>1. /\ QueuesOrdered' /\ Rows(u)' = Rows(u) \ {r}
      /\ \A v \in Devices : v # u => Rows(v)' = Rows(v)
  BY RowsAfterTail
<1>2. \A v \in Devices : \A y \in Rows(v)' : y \in Rows(v) /\ ~(v = u /\ y = r)
  BY <1>1
<1>3. NotToOneself' /\ RowsOfSender'
  BY <1>2, Parts DEF NotToOneself, RowsOfSender
<1>4. CallsHaveRows'
  <2>1. ASSUME NEW v \in Devices, NEW z \in Slots, send'[v][z] # IdleCall
        PROVE  Add(send'[v][z].msg, send'[v][z].at, z) \in Rows(v)'
    <3>1. ~(v = u /\ z = r.by)
      BY <2>1, Parts
    <3>2. send'[v][z] = send[v][z]
      BY <3>1
    <3>3. Add(send[v][z].msg, send[v][z].at, z) \in Rows(v)
      BY <2>1, <3>2, Parts DEF CallsHaveRows
    <3>4. Add(send[v][z].msg, send[v][z].at, z).by = z
      BY DEF Add
    <3>. QED BY <1>1, <3>1, <3>2, <3>3, <3>4
  <2>. QED BY <2>1 DEF CallsHaveRows, Add
<1>5. RowsHaveCalls'
  <2>1. ASSUME NEW v \in Devices, NEW y \in Rows(v)', y.by # Nil
        PROVE  send'[v][y.by] = [at |-> y.half, msg |-> y.msg]
    <3>1. y \in Rows(v) /\ ~(v = u /\ y = r)
      BY <1>2
    <3>2. y.by \in Slots /\ send[v][y.by] = [at |-> y.half, msg |-> y.msg]
      BY <2>1, <3>1, RowKnown
    <3>3. ~(v = u /\ y.by = r.by)
      BY <2>1, <3>1, OneRowEach
    <3>. QED BY <3>2, <3>3
  <2>. QED BY <2>1 DEF RowsHaveCalls
<1>. QED BY <1>1, <1>3, <1>4, <1>5 DEF QueueInv

LEMMA EndedInv ==
  ASSUME IInv, NEW u \in Devices, NEW r \in Rows(u), r = Head(writes[u]), writes[u] # <<>>,
         Outcome(u), UNCHANGED <<screens, sent, lost>>,
         writes' = [writes EXCEPT ![u] = Tail(@)],
         send' \in [Devices -> [Slots -> Call]],
         r.by # Nil => r.half = "peer" /\ send'[u][r.by] = IdleCall,
         \A v \in Devices, z \in Slots : ~(v = u /\ z = r.by) => send'[v][z] = send[v][z]
  PROVE  IInv'
<1>1. QueueInv'
  BY TailKeepsQueueInv DEF screens
<1>2. /\ writes' \in [Devices -> Seq(Write)] /\ Rows(u)' = Rows(u) \ {r}
      /\ \A v \in Devices : v # u => Rows(v)' = Rows(v)
  BY RowsAfterTail
<1>3. box' \in [Users -> [Users -> SUBSET Ids]] /\ refused' \subseteq Ids \X Halves
  BY BoxAfter
<1>4. TypeOK'
  BY <1>2, <1>3, Parts DEF TypeOK, screens
<1>5. r.by # Nil => send[u][r.by] = [at |-> r.half, msg |-> r.msg]
  BY ONLY IInv, u \in Devices, r \in Rows(u), RowKnown, Zenon
<1>6. BoxInv'
  <2>1. \A v \in Devices : \A y \in Rows(v)' : y \in Rows(v) /\ ~(v = u /\ y = r)
    BY <1>2
  <2>2. \A v \in Devices : \A y \in Rows(v) : y \in Rows(v)' \/ (v = u /\ y = r)
    BY <1>2
  <2>3. ASSUME NEW v \in Devices, NEW z \in Slots
        PROVE  send'[v][z].msg = send[v][z].msg \/ send[v][z].msg = r.msg
    <3>1. CASE v = u /\ z = r.by
      <4>1. r.by # Nil
        BY <3>1, Parts
      <4>. QED BY <1>5, <3>1, <4>1
    <3>2. CASE ~(v = u /\ z = r.by)
      BY <3>2
    <3>. QED BY <3>1, <3>2
  <2>4. ~(r.half = "own" /\ r.by # Nil)
    OBVIOUS
  <2>. QED BY <2>1, <2>2, <2>3, <2>4, BoxesAfterAnswer
<1>. QED BY <1>1, <1>4, <1>6 DEF IInv

\* The second add is settled: the call ends.
LEMMA PeerAnsweredInv ==
  ASSUME IInv, NEW u \in Devices, NEW s \in Slots, PeerAdded(u, s) \/ PeerRefused(u, s)
  PROVE  IInv'
<1>1. /\ writes[u] # <<>> /\ Awaited(u, s, "peer") /\ Outcome(u) /\ Ended(u, s)
      /\ UNCHANGED <<screens, sent, lost>>
  BY DEF PeerAdded, PeerRefused, Awaited, Outcome, notes
<1>2. PICK r \in Rows(u) : r = Head(writes[u])
  BY <1>1, HeadKnown
<1>3. r.by = s /\ r.half = "peer" /\ r.by # Nil
  BY <1>1, <1>2, Parts DEF Awaited
<1>4. writes' = [writes EXCEPT ![u] = Tail(@)] /\ send' = [send EXCEPT ![u][s] = IdleCall]
  BY <1>1 DEF Ended
<1>5. send \in [Devices -> [Slots -> Call]] /\ IdleCall \in Call
  BY Parts DEF TypeOK, Call
<1> HIDE DEF IdleCall
<1>6. /\ send' \in [Devices -> [Slots -> Call]] /\ send'[u][s] = IdleCall
      /\ \A v \in Devices, z \in Slots : ~(v = u /\ z = s) => send'[v][z] = send[v][z]
  BY <1>4, <1>5
<1>7. r.by # Nil => r.half = "peer" /\ send'[u][r.by] = IdleCall
  BY <1>3, <1>6
<1>8. \A v \in Devices, z \in Slots : ~(v = u /\ z = r.by) => send'[v][z] = send[v][z]
  BY <1>3, <1>6
<1>9. writes' = [writes EXCEPT ![u] = Tail(writes[u])]
  BY <1>4
<1>. QED BY <1>1, <1>2, <1>6, <1>7, <1>8, <1>9, EndedInv

\* A write left by an earlier process is settled.
LEMMA OrphanInv ==
  ASSUME IInv, NEW u \in Devices, OrphanAdded(u) \/ OrphanRefused(u)
  PROVE  IInv'
<1>1. /\ writes[u] # <<>> /\ Head(writes[u]).by = Nil /\ Outcome(u)
      /\ writes' = [writes EXCEPT ![u] = Tail(@)]
      /\ UNCHANGED <<send, screens, sent, lost>>
  BY DEF OrphanAdded, OrphanRefused, Outcome, notes
<1>2. PICK r \in Rows(u) : r = Head(writes[u])
  BY <1>1, HeadKnown
<1>3. send' \in [Devices -> [Slots -> Call]]
  BY <1>1, Parts DEF TypeOK
<1>. QED BY <1>1, <1>2, <1>3, EndedInv

-----------------------------------------------------------------------------
(* The other actions.                                                      *)

LEMMA InitInv == Init => IInv
<1>1. SUFFICES ASSUME Init PROVE IInv
  OBVIOUS
<1>2. \A u \in Devices : writes[u] = <<>> /\ DOMAIN writes[u] = {} /\ Rows(u) = {}
  BY <1>1 DEF Init, Rows, InQueue
<1>3. \A u, p \in Users : box[u][p] = {}
  BY <1>1 DEF Init
<1>4. TypeOK
  <2>1. <<>> \in Seq(Write) /\ IdleCall \in Call
    BY EmptySeq DEF Call
  <2>. QED BY <1>1, <2>1, UsersAssumption DEF Init, TypeOK
<1>5. QueuesOrdered
  BY <1>2 DEF QueuesOrdered, Ordered
<1>6. NotToOneself
  BY <1>1, UsersAssumption DEF Init, NotToOneself
<1>7. RowsOfSender /\ RowsHaveCalls /\ NotYetThere /\ OwnFirst /\ OrphansLost
  BY <1>2 DEF RowsOfSender, RowsHaveCalls, NotYetThere, OwnFirst, OrphansLost
<1>8. CallsHaveRows
  BY <1>1 DEF Init, CallsHaveRows
<1>9. BoxesOfConversation
  BY <1>3 DEF BoxesOfConversation
<1>10. CopiesAgree /\ OneConversationShown
  BY <1>1 DEF Init, CopiesAgree, OneConversationShown
<1>. QED BY <1>4, <1>5, <1>6, <1>7, <1>8, <1>9, <1>10 DEF IInv, QueueInv, BoxInv

\* What only concerns the screen.
LEMMA ScreenKeepsInv ==
  ASSUME IInv, UNCHANGED <<box, writes, send, notes>>,
         open' \in [Devices -> Users \cup {Nil}], \A u \in Devices : open'[u] # u,
         seen' \in [Devices -> [Users -> (SUBSET Ids) \cup {Nil}]],
         subs' \in [Devices -> SUBSET Users], messages' \in [Devices -> SUBSET Ids],
         \A u \in Devices :
           messages'[u] = {} \/ \E p \in subs'[u] : messages'[u] \subseteq Conversation(u, p)
  PROVE  IInv'
<1>1. \A u \in Devices : Rows(u)' = Rows(u)
  BY DEF Rows, InQueue
<1>2. sent' = sent /\ refused' = refused /\ lost' = lost
  BY DEF notes
<1>3. TypeOK'
  BY <1>2, Parts DEF TypeOK
<1>4. QueueInv'
  BY <1>1, <1>2, Parts
     DEF QueueInv, QueuesOrdered, Ordered, NotToOneself, RowsOfSender, CallsHaveRows, RowsHaveCalls, Add
<1>5. BoxesOfConversation' /\ OneConversationShown'
  BY <1>2, Parts DEF BoxesOfConversation, OneConversationShown, Conversation
<1>6. NotYetThere' /\ OwnFirst' /\ OrphansLost'
  BY <1>1, <1>2, Parts DEF NotYetThere, OwnFirst, OrphansLost, Bound
<1>7. CopiesAgree'
  BY <1>2, Parts DEF CopiesAgree, InFlight, Queued
<1>. QED BY <1>3, <1>4, <1>5, <1>6, <1>7 DEF IInv, BoxInv

LEMMA OpenInv ==
  ASSUME IInv, NEW u \in Devices, NEW p \in Users, Open(u, p)
  PROVE  IInv'
<1>1. /\ p # u /\ open' = [open EXCEPT ![u] = p]
      /\ subs' = [subs EXCEPT ![u] = @ \cup {p}]
      /\ seen' = [seen EXCEPT ![u] = [@ EXCEPT ![p] = Nil]]
      /\ UNCHANGED <<box, writes, send, messages, notes>>
  BY DEF Open
<1>2. /\ open \in [Devices -> Users \cup {Nil}] /\ \A v \in Devices : open[v] # v
      /\ seen \in [Devices -> [Users -> (SUBSET Ids) \cup {Nil}]]
      /\ subs \in [Devices -> SUBSET Users] /\ messages \in [Devices -> SUBSET Ids]
  BY Parts DEF TypeOK, NotToOneself
<1>3. open' \in [Devices -> Users \cup {Nil}] /\ \A v \in Devices : open'[v] # v
  BY <1>1, <1>2
<1>4. seen' \in [Devices -> [Users -> (SUBSET Ids) \cup {Nil}]]
  BY <1>1, <1>2
<1>5. subs' \in [Devices -> SUBSET Users] /\ \A v \in Devices : subs[v] \subseteq subs'[v]
  BY <1>1, <1>2
<1>6. \A v \in Devices :
        messages'[v] = {} \/ \E w \in subs'[v] : messages'[v] \subseteq Conversation(v, w)
  BY <1>1, <1>5, Parts DEF OneConversationShown
<1>. QED BY <1>1, <1>2, <1>3, <1>4, <1>5, <1>6, ScreenKeepsInv

LEMMA CloseInv ==
  ASSUME IInv, NEW u \in Devices, Close(u)
  PROVE  IInv'
<1>1. /\ open' = [open EXCEPT ![u] = Nil]
      /\ UNCHANGED <<box, writes, send, seen, subs, messages, notes>>
  BY DEF Close
<1>2. open' \in [Devices -> Users \cup {Nil}] /\ \A v \in Devices : open'[v] # v
  BY <1>1, Parts DEF TypeOK, NotToOneself
<1>3. \A v \in Devices :
        messages'[v] = {} \/ \E w \in subs'[v] : messages'[v] \subseteq Conversation(v, w)
  BY <1>1, Parts DEF OneConversationShown
<1>4. /\ seen' \in [Devices -> [Users -> (SUBSET Ids) \cup {Nil}]]
      /\ subs' \in [Devices -> SUBSET Users] /\ messages' \in [Devices -> SUBSET Ids]
  BY <1>1, Parts DEF TypeOK
<1>. QED BY <1>1, <1>2, <1>3, <1>4, ScreenKeepsInv

\* A box as a client shows it is of one conversation.
LEMMA ViewOfConversation ==
  ASSUME IInv, NEW u \in Devices, NEW p \in Users
  PROVE  View(u, p) \in SUBSET Ids /\ View(u, p) \subseteq Conversation(u, p)
<1>1. box[u][p] \subseteq Conversation(u, p)
  BY Parts DEF BoxesOfConversation
<1>2. ASSUME NEW m \in Ids, sent[m] # Nil, sent[m].to = p,
             NEW k \in DOMAIN writes[u], writes[u][k].msg = m
      PROVE  m \in Conversation(u, p)
  <2>1. writes[u][k] \in Rows(u)
    BY DEF Rows, InQueue
  <2>2. sent[m] \in Header /\ sent[m].from = u
    BY <1>2, <2>1, RowKnown
  <2>3. sent[m] = [from |-> u, to |-> p]
    BY <1>2, <2>2 DEF Header
  <2>. QED BY <2>3 DEF Conversation
<1>3. Conversation(u, p) \subseteq Ids
  BY DEF Conversation
<1>. QED BY <1>1, <1>2, <1>3 DEF View

LEMMA SnapshotInv ==
  ASSUME IInv, NEW u \in Devices, NEW p \in Users, Snapshot(u, p)
  PROVE  IInv'
<1> DEFINE V == View(u, p)
<1>1. /\ p \in subs[u]
      /\ seen' = [seen EXCEPT ![u] = [@ EXCEPT ![p] = V]]
      /\ messages' = [messages EXCEPT ![u] = V]
      /\ UNCHANGED <<box, writes, send, open, subs, notes>>
  BY DEF Snapshot
<1>2. V \in SUBSET Ids /\ V \subseteq Conversation(u, p)
  BY ViewOfConversation
<1> HIDE DEF V
<1>3. /\ open \in [Devices -> Users \cup {Nil}] /\ \A v \in Devices : open[v] # v
      /\ seen \in [Devices -> [Users -> (SUBSET Ids) \cup {Nil}]]
      /\ subs \in [Devices -> SUBSET Users] /\ messages \in [Devices -> SUBSET Ids]
  BY Parts DEF TypeOK, NotToOneself
<1>4. seen' \in [Devices -> [Users -> (SUBSET Ids) \cup {Nil}]]
  BY <1>1, <1>2, <1>3
<1>5. messages' \in [Devices -> SUBSET Ids]
  BY <1>1, <1>2, <1>3
<1>6. ASSUME NEW v \in Devices
      PROVE  messages'[v] = {} \/ \E w \in subs'[v] : messages'[v] \subseteq Conversation(v, w)
  <2>1. CASE v = u
    <3>1. messages'[u] = V
      BY <1>1, <1>3
    <3>. QED BY <1>1, <1>2, <2>1, <3>1
  <2>2. CASE v # u
    <3>1. messages'[v] = messages[v]
      BY <1>1, <1>3, <2>2
    <3>. QED BY <1>1, <3>1, Parts DEF OneConversationShown
  <2>. QED BY <2>1, <2>2
<1>. QED BY <1>1, <1>3, <1>4, <1>5, <1>6, ScreenKeepsInv

LEMMA InFlightIs ==
  ASSUME TypeOK, NEW v \in Devices, NEW z \in Slots
  PROVE  /\ send[v][z] \in Call
         /\ send[v][z] = IdleCall \/ (send[v][z].at \in Halves /\ send[v][z].msg \in Ids)
         /\ send[v][z].at = "idle" => send[v][z] = IdleCall
         /\ send[v][z] = IdleCall => send[v][z].msg \notin Ids
         /\ send[v][z] = [at |-> send[v][z].at, msg |-> send[v][z].msg]
<1>1. send[v][z] \in Call /\ Nil \notin Ids
  BY IdsAssumption DEF TypeOK
<1>2. "idle" \notin Halves
  BY DEF Halves
<1>. QED BY <1>1, <1>2 DEF Call, IdleCall

\* What is sent is not anywhere yet.
LEMMA Unsent ==
  ASSUME IInv, NEW m \in Ids, sent[m] = Nil
  PROVE  /\ \A u, p \in Users : m \notin box[u][p]
         /\ \A v \in Devices : \A r \in Rows(v) : r.msg # m
<1>1. \A u, p \in Users : m \notin Conversation(u, p)
  <2>1. ASSUME NEW u \in Users, NEW p \in Users
        PROVE  Nil \notin {[from |-> u, to |-> p], [from |-> p, to |-> u]}
    BY IdsAssumption
  <2>. QED BY <2>1 DEF Conversation
<1>. QED BY <1>1, Parts DEF BoxesOfConversation, RowsOfSender

LEMMA SendInv ==
  ASSUME IInv, NEW u \in Devices, NEW s \in Slots, NEW m \in Ids, Send(u, s, m)
  PROVE  IInv'
<1> DEFINE q == writes[u]
           x == Add(m, "own", s)
           h == [from |-> u, to |-> open[u]]
<1>1. /\ open[u] # Nil /\ send[u][s].at = "idle" /\ sent[m] = Nil /\ \A k \in SentFrom(u) : k < m
      /\ sent' = [sent EXCEPT ![m] = h]
      /\ writes' = [writes EXCEPT ![u] = Append(q, x)]
      /\ send' = [send EXCEPT ![u] = [@ EXCEPT ![s] = [at |-> "own", msg |-> m]]]
      /\ UNCHANGED <<box, screens, refused, lost>>
  BY DEF Send
<1>2. /\ writes \in [Devices -> Seq(Write)] /\ send \in [Devices -> [Slots -> Call]]
      /\ sent \in [Ids -> Header \cup {Nil}]
  BY Parts DEF TypeOK
<1>3. open[u] \in Users /\ open[u] # u /\ u \in Users /\ Nil \notin Slots /\ s # Nil
  BY <1>1, Parts DEF TypeOK, NotToOneself
<1>4. h \in Header /\ h.from = u /\ h.to = open[u] /\ h # Nil
  BY <1>3, IdsAssumption DEF Header
<1>5. x \in Write /\ x.msg = m /\ x.half = "own" /\ x.by = s
  BY <1>3 DEF Add, Write, Halves
<1>6. /\ \A a, p \in Users : m \notin box[a][p]
      /\ \A v \in Devices : \A r \in Rows(v) : r.msg # m
  BY <1>1, Unsent
<1>7. \A r \in Rows(u) : r.msg < m
  <2>1. \A r \in Rows(u) : r.msg \in SentFrom(u)
    BY RowKnown, Parts DEF RowsOfSender, SentFrom
  <2>. QED BY <1>1, <2>1
<1> HIDE DEF h, x
<1>8. /\ Append(q, x) \in Seq(Write) /\ Ordered(Append(q, x))
      /\ InQueue(Append(q, x)) = InQueue(q) \cup {x}
  <2>1. q \in Seq(Write) /\ Ordered(q)
    BY <1>2, Parts DEF QueuesOrdered
  <2>2. InQueue(q) = Rows(u)
    BY DEF Rows
  <2> HIDE DEF q
  <2>. QED BY <1>5, <1>7, <2>1, <2>2, OrderedAppend
<1>9. Rows(u)' = Rows(u) \cup {x} /\ \A v \in Devices : v # u => Rows(v)' = Rows(v)
  <2>1. writes'[u] = Append(q, x) /\ \A v \in Devices : v # u => writes'[v] = writes[v]
    BY <1>1, <1>2
  <2>2. \A v \in Devices : Rows(v)' = InQueue(writes'[v])
    BY DEF Rows, InQueue
  <2>. QED BY <1>8, <2>1, <2>2 DEF Rows
<1>10. sent'[m] = h /\ \A k \in Ids : k # m => sent'[k] = sent[k]
  BY <1>1, <1>2
<1>11. /\ send'[u][s] = [at |-> "own", msg |-> m] /\ send[u][s] = IdleCall
       /\ \A v \in Devices, z \in Slots : ~(v = u /\ z = s) => send'[v][z] = send[v][z]
  BY <1>1, <1>2, InFlightIs, Parts
<1>12. \A v \in Devices : \A r \in Rows(v) : r.msg \in Ids /\ r.msg # m /\ sent'[r.msg] = sent[r.msg]
  <2>1. \A v \in Devices : \A r \in Rows(v) : r.msg \in Ids
    BY RowKnown
  <2>. QED BY <1>6, <1>10, <2>1
<1>13. \A v \in Devices : \A r \in Rows(v)' : r \in Rows(v) \/ (v = u /\ r = x)
  BY <1>9
<1>14. TypeOK'
  <2>1. writes' \in [Devices -> Seq(Write)]
    BY <1>1, <1>2, <1>8
  <2>2. [at |-> "own", msg |-> m] \in Call
    BY DEF Call, Halves
  <2>3. send' \in [Devices -> [Slots -> Call]]
    BY <1>1, <1>2, <2>2
  <2>4. sent' \in [Ids -> Header \cup {Nil}]
    BY <1>1, <1>2, <1>4
  <2>. QED BY <1>1, <2>1, <2>3, <2>4, Parts DEF TypeOK, screens
<1>15. QueueInv'
  <2>1. QueuesOrdered'
    <3>1. \A v \in Devices : Ordered(writes'[v])
      BY <1>1, <1>2, <1>8, Parts DEF QueuesOrdered
    <3>. QED BY <3>1 DEF QueuesOrdered, Ordered
  <2>2. NotToOneself'
    <3>1. \A k \in Ids : sent'[k] # Nil => sent'[k].from \in Devices /\ sent'[k].from # sent'[k].to
      BY <1>3, <1>4, <1>10, Parts DEF NotToOneself
    <3>. QED BY <1>1, <3>1, Parts DEF NotToOneself, screens
  <2>3. RowsOfSender'
    <3>1. ASSUME NEW v \in Devices, NEW y \in Rows(v)' PROVE sent'[y.msg] # Nil /\ sent'[y.msg].from = v
      BY <1>4, <1>5, <1>10, <1>12, <1>13, Parts DEF RowsOfSender
    <3>. QED BY <3>1 DEF RowsOfSender
  <2>4. CallsHaveRows'
    <3>1. ASSUME NEW v \in Devices, NEW z \in Slots, send'[v][z] # IdleCall
          PROVE  Add(send'[v][z].msg, send'[v][z].at, z) \in Rows(v)'
      <4>1. CASE v = u /\ z = s
        BY <1>9, <1>11, <4>1 DEF x
      <4>2. CASE ~(v = u /\ z = s)
        BY <1>9, <1>11, <3>1, <4>2, Parts DEF CallsHaveRows
      <4>. QED BY <4>1, <4>2
    <3>. QED BY <3>1 DEF CallsHaveRows, Add
  <2>5. RowsHaveCalls'
    <3>1. ASSUME NEW v \in Devices, NEW y \in Rows(v)', y.by # Nil
          PROVE  send'[v][y.by] = [at |-> y.half, msg |-> y.msg]
      <4>1. CASE v = u /\ y = x
        BY <1>5, <1>11, <4>1
      <4>2. CASE y \in Rows(v)
        <5>1. y.by \in Slots /\ send[v][y.by] = [at |-> y.half, msg |-> y.msg] /\ y.half \in {"own", "peer"}
          BY <3>1, <4>2, RowKnown
        <5>2. ~(v = u /\ y.by = s)
          BY <1>1, <5>1
        <5>. QED BY <1>11, <5>1, <5>2
      <4>. QED BY <1>13, <4>1, <4>2
    <3>. QED BY <3>1 DEF RowsHaveCalls
  <2>. QED BY <2>1, <2>2, <2>3, <2>4, <2>5 DEF QueueInv
<1>16. \A a, p \in Users : Conversation(a, p) \subseteq Conversation(a, p)'
  <2>1. ASSUME NEW a \in Users, NEW p \in Users, NEW k \in Conversation(a, p)
        PROVE  k \in Conversation(a, p)'
    <3>1. k \in Ids /\ sent[k] \in {[from |-> a, to |-> p], [from |-> p, to |-> a]}
      BY DEF Conversation
    <3>2. Nil \notin {[from |-> a, to |-> p], [from |-> p, to |-> a]}
      BY IdsAssumption
    <3>3. sent'[k] = sent[k]
      BY <1>1, <1>10, <3>1, <3>2
    <3>. QED BY <3>1, <3>3 DEF Conversation
  <2>. QED BY <2>1
<1>17. BoxInv'
  <2>1. BoxesOfConversation'
    BY <1>1, <1>16, Parts DEF BoxesOfConversation
  <2>2. NotYetThere'
    <3>1. ASSUME NEW v \in Devices, NEW y \in Rows(v)', Bound(y)
          PROVE  y.msg \notin box[sent'[y.msg].to][v]
      <4>1. CASE y \in Rows(v)
        BY <1>12, <3>1, <4>1, Parts DEF NotYetThere
      <4>2. CASE v = u /\ y = x
        BY <1>3, <1>4, <1>5, <1>6, <1>10, <4>2
      <4>. QED BY <1>13, <4>1, <4>2
    <3>. QED BY <1>1, <3>1 DEF NotYetThere, Bound
  <2>3. OwnFirst'
    <3>1. ASSUME NEW v \in Devices, NEW y \in Rows(v)', y.half = "peer"
          PROVE  y.msg \in box[v][sent'[y.msg].to] \/ <<y.msg, "own">> \in refused
      BY <1>5, <1>12, <1>13, <3>1, Parts DEF OwnFirst
    <3>. QED BY <1>1, <3>1 DEF OwnFirst
  <2>4. OrphansLost'
    BY <1>1, <1>3, <1>5, <1>13, Parts DEF OrphansLost
  <2>5. CopiesAgree'
    <3> SUFFICES ASSUME NEW k \in Ids, sent'[k] # Nil
                 PROVE  /\ k \in box[sent'[k].from][sent'[k].to] /\ k \notin box[sent'[k].to][sent'[k].from]
                           => \/ InFlight(k)' \/ Queued(k, "peer")'
                              \/ k \in lost \/ <<k, "peer">> \in refused
                        /\ k \in box[sent'[k].to][sent'[k].from] /\ k \notin box[sent'[k].from][sent'[k].to]
                           => <<k, "own">> \in refused
      BY <1>1 DEF CopiesAgree
    <3>1. CASE k = m
      BY <1>3, <1>4, <1>6, <1>10, <3>1
    <3>2. CASE k # m
      <4>1. InFlight(k) => InFlight(k)'
        <5>1. ASSUME InFlight(k) PROVE InFlight(k)'
          <6>1. PICK v \in Devices : \E z \in Slots : send[v][z].msg = k
            BY <5>1 DEF InFlight
          <6>2. PICK z \in Slots : send[v][z].msg = k
            BY <6>1
          <6>3. ~(v = u /\ z = s)
            BY <1>11, <6>2, InFlightIs, Parts
          <6>. QED BY <1>11, <6>2, <6>3 DEF InFlight
        <5>. QED BY <5>1
      <4>2. Queued(k, "peer") => Queued(k, "peer")'
        <5>1. ASSUME Queued(k, "peer") PROVE Queued(k, "peer")'
          <6>1. PICK v \in Devices : \E y \in Rows(v) : y.msg = k /\ y.half = "peer"
            BY <5>1 DEF Queued, Rows, InQueue
          <6>2. PICK y \in Rows(v)' : y.msg = k /\ y.half = "peer"
            BY <1>9, <6>1
          <6>. QED BY <6>2 DEF Queued, Rows, InQueue
        <5>. QED BY <5>1
      <4>. QED BY <1>10, <3>2, <4>1, <4>2, Parts DEF CopiesAgree
    <3>. QED BY <3>1, <3>2
  <2>6. OneConversationShown'
    <3>1. messages' = messages /\ subs' = subs /\ subs \in [Devices -> SUBSET Users]
      BY <1>1, Parts DEF TypeOK, screens
    <3>. QED BY <1>16, <3>1, Parts DEF OneConversationShown
  <2>. QED BY <2>1, <2>2, <2>3, <2>4, <2>5, <2>6 DEF BoxInv
<1>. QED BY <1>14, <1>15, <1>17 DEF IInv

\* Calls are gone; their rows stay, with nobody waiting.
LEMMA RestartInv ==
  ASSUME IInv, NEW u \in Devices, Restart(u)
  PROVE  IInv'
<1> DEFINE q == writes[u]
           n == [k \in DOMAIN q |-> [q[k] EXCEPT !.by = Nil]]
<1>1. /\ writes' = [writes EXCEPT ![u] = n]
      /\ send' = [send EXCEPT ![u] = [s \in Slots |-> IdleCall]]
      /\ open' = [open EXCEPT ![u] = Nil]
      /\ seen' = [seen EXCEPT ![u] = [p \in Users |-> Nil]]
      /\ subs' = [subs EXCEPT ![u] = {}]
      /\ messages' = [messages EXCEPT ![u] = {}]
      /\ lost' = lost \cup {m \in Ids : \E s \in Slots : send[u][s] = [at |-> "own", msg |-> m]}
      /\ UNCHANGED <<box, sent, refused>>
  BY DEF Restart
<1>2. q \in Seq(Write) /\ Ordered(q) /\ DOMAIN q = 1..Len(q) /\ Len(q) \in Nat
  BY Parts, LenProperties DEF TypeOK, QueuesOrdered
<1>3. ASSUME NEW k \in DOMAIN q
      PROVE  n[k] \in Write /\ n[k].msg = q[k].msg /\ n[k].half = q[k].half /\ n[k].by = Nil
  <2>1. q[k] \in Write
    BY <1>2, ElementOfSeq
  <2>2. n[k] = [q[k] EXCEPT !.by = Nil]
    OBVIOUS
  <2>. QED BY <2>1, <2>2 DEF Write
<1>4. DOMAIN n = DOMAIN q
  OBVIOUS
<1>5. n = [k \in 1..Len(q) |-> n[k]]
  BY <1>2
<1> HIDE DEF n
<1>6. n \in Seq(Write)
  <2>1. n \in [1..Len(q) -> Write]
    BY <1>2, <1>3, <1>5
  <2>. QED BY <1>2, <2>1
<1>7. Ordered(n)
  BY <1>2, <1>3, <1>4 DEF Ordered
<1>8. writes'[u] = n /\ \A v \in Devices : v # u => writes'[v] = writes[v]
  BY <1>1, Parts DEF TypeOK
<1>9. \A v \in Devices : Rows(v)' = InQueue(writes'[v])
  BY DEF Rows, InQueue
<1>10. /\ \A r \in Rows(u) : \E y \in Rows(u)' : y.msg = r.msg /\ y.half = r.half
       /\ \A v \in Devices : v # u => Rows(v)' = Rows(v)
  BY <1>3, <1>4, <1>8, <1>9 DEF Rows, InQueue
<1>11. ASSUME NEW y \in Rows(u)'
       PROVE  y.by = Nil /\ \E r \in Rows(u) : y.msg = r.msg /\ y.half = r.half
  <2>1. PICK k \in DOMAIN n : y = n[k]
    BY <1>8, <1>9, <1>11 DEF InQueue
  <2>2. k \in DOMAIN q /\ q[k] \in Rows(u)
    BY <1>4, <2>1 DEF Rows, InQueue
  <2>. QED BY <1>3, <2>1, <2>2
<1>12. /\ \A s \in Slots : send'[u][s] = IdleCall
       /\ \A v \in Devices : v # u => send'[v] = send[v]
  BY <1>1, Parts DEF TypeOK
<1>13. TypeOK'
  <2>1. writes' \in [Devices -> Seq(Write)]
    BY <1>1, <1>6, Parts DEF TypeOK
  <2>2. [s \in Slots |-> IdleCall] \in [Slots -> Call]
    BY DEF Call
  <2>3. send' \in [Devices -> [Slots -> Call]]
    BY <1>1, <2>2, Parts DEF TypeOK
  <2>4. /\ open' \in [Devices -> Users \cup {Nil}] /\ subs' \in [Devices -> SUBSET Users]
        /\ messages' \in [Devices -> SUBSET Ids] /\ lost' \subseteq Ids
    BY <1>1, Parts DEF TypeOK
  <2>5. seen' \in [Devices -> [Users -> (SUBSET Ids) \cup {Nil}]]
    BY <1>1, Parts DEF TypeOK
  <2>. QED BY <1>1, <2>1, <2>3, <2>4, <2>5, Parts DEF TypeOK
<1>14. QueueInv'
  <2>1. QueuesOrdered'
    <3>1. \A v \in Devices : Ordered(writes'[v])
      BY <1>7, <1>8, Parts DEF QueuesOrdered
    <3>. QED BY <3>1 DEF QueuesOrdered, Ordered
  <2>2. NotToOneself'
    BY <1>1, Parts DEF NotToOneself, TypeOK
  <2>3. RowsOfSender'
    <3>1. ASSUME NEW v \in Devices, NEW y \in Rows(v)' PROVE sent[y.msg] # Nil /\ sent[y.msg].from = v
      BY <1>10, <1>11, Parts DEF RowsOfSender
    <3>. QED BY <1>1, <3>1 DEF RowsOfSender
  <2>4. CallsHaveRows'
    <3>1. ASSUME NEW v \in Devices, NEW z \in Slots, send'[v][z] # IdleCall
          PROVE  Add(send'[v][z].msg, send'[v][z].at, z) \in Rows(v)'
      BY <1>10, <1>12, <3>1, Parts DEF CallsHaveRows
    <3>. QED BY <3>1 DEF CallsHaveRows, Add
  <2>5. RowsHaveCalls'
    <3>1. ASSUME NEW v \in Devices, NEW y \in Rows(v)', y.by # Nil
          PROVE  send'[v][y.by] = [at |-> y.half, msg |-> y.msg]
      BY <1>10, <1>11, <1>12, <3>1, Parts DEF RowsHaveCalls
    <3>. QED BY <3>1 DEF RowsHaveCalls
  <2>. QED BY <2>1, <2>2, <2>3, <2>4, <2>5 DEF QueueInv
<1>15. BoxInv'
  <2>1. BoxesOfConversation'
    BY <1>1, Parts DEF BoxesOfConversation, Conversation
  <2>2. NotYetThere'
    <3>1. ASSUME NEW v \in Devices, NEW y \in Rows(v)', Bound(y)
          PROVE  y.msg \notin box[sent[y.msg].to][v]
      <4>1. PICK r \in Rows(v) : y.msg = r.msg /\ Bound(r)
        BY <1>10, <1>11, <3>1 DEF Bound
      <4>2. r.msg \notin box[sent[r.msg].to][v]
        BY <4>1, Parts DEF NotYetThere
      <4>. QED BY <4>1, <4>2
    <3>. QED BY <1>1, <3>1 DEF NotYetThere, Bound
  <2>3. OwnFirst'
    <3>1. ASSUME NEW v \in Devices, NEW y \in Rows(v)', y.half = "peer"
          PROVE  y.msg \in box[v][sent[y.msg].to] \/ <<y.msg, "own">> \in refused
      <4>1. PICK r \in Rows(v) : y.msg = r.msg /\ y.half = r.half
        BY <1>10, <1>11
      <4>2. r.msg \in box[v][sent[r.msg].to] \/ <<r.msg, "own">> \in refused
        BY <3>1, <4>1, Parts DEF OwnFirst
      <4>. QED BY <4>1, <4>2
    <3>. QED BY <1>1, <3>1 DEF OwnFirst
  <2>4. OrphansLost'
    <3>1. ASSUME NEW v \in Devices, NEW y \in Rows(v)', y.half = "own", y.by = Nil
          PROVE  y.msg \in lost'
      <4>1. CASE v = u
        <5>1. PICK r \in Rows(u) : y.msg = r.msg /\ y.half = r.half
          BY <1>11, <4>1
        <5>2. CASE r.by = Nil
          BY <1>1, <3>1, <5>1, <5>2, Parts DEF OrphansLost
        <5>3. CASE r.by # Nil
          <6>1. r.by \in Slots /\ send[u][r.by] = [at |-> "own", msg |-> r.msg] /\ r.msg \in Ids
            BY <3>1, <5>1, <5>3, RowKnown
          <6>. QED BY <1>1, <5>1, <6>1
        <5>. QED BY <5>2, <5>3
      <4>2. CASE v # u
        BY <1>1, <1>10, <3>1, <4>2, Parts DEF OrphansLost
      <4>. QED BY <4>1, <4>2
    <3>. QED BY <3>1 DEF OrphansLost
  <2>5. CopiesAgree'
    <3> SUFFICES ASSUME NEW k \in Ids, sent[k] # Nil
                 PROVE  /\ k \in box[sent[k].from][sent[k].to] /\ k \notin box[sent[k].to][sent[k].from]
                           => \/ InFlight(k)' \/ Queued(k, "peer")'
                              \/ k \in lost' \/ <<k, "peer">> \in refused
                        /\ k \in box[sent[k].to][sent[k].from] /\ k \notin box[sent[k].from][sent[k].to]
                           => <<k, "own">> \in refused
      BY <1>1 DEF CopiesAgree
    <3>1. \A v \in Devices : \A r \in Rows(v) : r.msg = k /\ r.half = "peer" => Queued(k, "peer")'
      BY <1>9, <1>10 DEF Queued, Rows, InQueue
    <3>2. Queued(k, "peer") => Queued(k, "peer")'
      BY <3>1 DEF Queued, Rows, InQueue
    <3>3. InFlight(k) => InFlight(k)' \/ Queued(k, "peer")' \/ k \in lost'
      <4>1. ASSUME NEW v \in Devices, NEW z \in Slots, send[v][z].msg = k
            PROVE  InFlight(k)' \/ Queued(k, "peer")' \/ k \in lost'
        <5>1. CASE v # u
          BY <1>12, <4>1, <5>1 DEF InFlight
        <5>2. CASE v = u /\ send[u][z].at = "own"
          <6>1. send[u][z] = [at |-> "own", msg |-> k]
            BY <4>1, <5>2, InFlightIs, Parts
          <6>. QED BY <1>1, <6>1
        <5>3. CASE v = u /\ send[u][z].at = "peer"
          <6>1. send[u][z] # IdleCall
            BY <4>1, <5>3, InFlightIs, Parts
          <6>2. Add(k, "peer", z) \in Rows(u)
            BY <4>1, <5>3, <6>1, Parts DEF CallsHaveRows
          <6>. QED BY <3>1, <6>2 DEF Add
        <5>. QED BY <4>1, <5>1, <5>2, <5>3, InFlightIs, Parts DEF Halves
      <4>. QED BY <4>1 DEF InFlight
    <3>. QED BY <1>1, <3>2, <3>3, Parts DEF CopiesAgree
  <2>6. OneConversationShown'
    <3>1. /\ messages'[u] = {}
          /\ \A v \in Devices : v # u => messages'[v] = messages[v] /\ subs'[v] = subs[v]
      BY <1>1, Parts DEF TypeOK
    <3>2. \A v, p \in Users : Conversation(v, p)' = Conversation(v, p)
      BY <1>1 DEF Conversation
    <3>3. subs \in [Devices -> SUBSET Users]
      BY Parts DEF TypeOK
    <3>4. ASSUME NEW v \in Devices
          PROVE  messages'[v] = {} \/ \E p \in subs'[v] : messages'[v] \subseteq Conversation(v, p)'
      <4>1. CASE v = u
        BY <3>1, <4>1
      <4>2. CASE v # u
        <5>1. messages[v] = {} \/ \E p \in subs[v] : messages[v] \subseteq Conversation(v, p)
          BY Parts DEF OneConversationShown
        <5>2. subs[v] \subseteq Users /\ v \in Users
          BY <3>3, Parts
        <5>. QED BY <3>1, <3>2, <4>2, <5>1, <5>2
      <4>. QED BY <4>1, <4>2
    <3>. QED BY <3>4 DEF OneConversationShown
  <2>. QED BY <2>1, <2>2, <2>3, <2>4, <2>5, <2>6 DEF BoxInv
<1>. QED BY <1>13, <1>14, <1>15 DEF IInv

LEMMA StutterInv ==
  ASSUME IInv, UNCHANGED vars
  PROVE  IInv'
<1>1. /\ UNCHANGED <<box, writes, send, notes>> /\ open' = open /\ seen' = seen
      /\ subs' = subs /\ messages' = messages
  BY DEF vars, screens
<1>2. /\ open' \in [Devices -> Users \cup {Nil}] /\ \A u \in Devices : open'[u] # u
      /\ seen' \in [Devices -> [Users -> (SUBSET Ids) \cup {Nil}]]
      /\ subs' \in [Devices -> SUBSET Users] /\ messages' \in [Devices -> SUBSET Ids]
  BY <1>1, Parts DEF TypeOK, NotToOneself
<1>3. \A u \in Devices :
        messages'[u] = {} \/ \E p \in subs'[u] : messages'[u] \subseteq Conversation(u, p)
  BY <1>1, Parts DEF OneConversationShown
<1>. QED BY <1>1, <1>2, <1>3, ScreenKeepsInv

LEMMA NextInv == IInv /\ [Next]_vars => IInv'
<1>1. SUFFICES ASSUME IInv, [Next]_vars PROVE IInv'
  OBVIOUS
<1>2. CASE UNCHANGED vars
  BY <1>1, <1>2, StutterInv
<1>3. ASSUME NEW u \in Devices, WriteAnswered(u) PROVE IInv'
  BY <1>1, <1>3, OwnAnsweredInv, PeerAnsweredInv, OrphanInv DEF WriteAnswered
<1>. QED BY <1>1, <1>2, <1>3, OpenInv, CloseInv, SnapshotInv, SendInv, RestartInv DEF Next

-----------------------------------------------------------------------------
(* Every step is one of Mailbox, or changes nothing there.                 *)

\* Some row leads to the addressee of m.
Leads(m) == \E v \in Devices : \E r \in Rows(v) : Bound(r) /\ r.msg = m

StatusOf(m) ==
  IF sent[m] = Nil THEN "unsent"
  ELSE IF Arrived(m) THEN "arrived"
  ELSE IF Leads(m) THEN "pending" ELSE "lost"

StatusFacts ==
  /\ MessageStatus = [m \in Ids |-> StatusOf(m)]
  /\ \A m \in Ids : Leads(m) => sent[m] # Nil /\ ~Arrived(m)

\* A message is pending as long as a row leads to its addressee.
LEMMA StatusIs == IInv => StatusFacts
<1>1. SUFFICES ASSUME IInv PROVE StatusFacts
  OBVIOUS
<1>2. ASSUME NEW m \in Ids, InFlight(m) \/ Queued(m, "peer") PROVE Leads(m)
  <2>1. CASE Queued(m, "peer")
    BY <2>1 DEF Queued, Leads, Rows, InQueue, Bound
  <2>2. CASE InFlight(m)
    <3>1. PICK v \in Devices : \E s \in Slots : send[v][s].msg = m
      BY <2>2 DEF InFlight
    <3>2. PICK s \in Slots : send[v][s].msg = m
      BY <3>1
    <3>3. send[v][s] # IdleCall
      BY <1>1, <3>2, InFlightIs, Parts
    <3>4. Add(m, send[v][s].at, s) \in Rows(v)
      BY <1>1, <3>2, <3>3, Parts DEF CallsHaveRows
    <3>5. Bound(Add(m, send[v][s].at, s)) /\ Add(m, send[v][s].at, s).msg = m
      BY <1>1, Parts DEF Bound, Add
    <3>. QED BY <3>4, <3>5 DEF Leads
  <2>. QED BY <1>2, <2>1, <2>2
<1>3. ASSUME NEW m \in Ids, Leads(m)
      PROVE  sent[m] # Nil /\ ~Arrived(m) /\ (InFlight(m) \/ Queued(m, "peer"))
  <2>1. PICK v \in Devices : \E r \in Rows(v) : Bound(r) /\ r.msg = m
    BY <1>3 DEF Leads
  <2>2. PICK r \in Rows(v) : Bound(r) /\ r.msg = m
    BY <2>1
  <2>3. sent[m] # Nil /\ sent[m].from = v
    BY <1>1, <2>2, Parts DEF RowsOfSender
  <2>4. ~Arrived(m)
    BY <1>1, <2>2, <2>3, Parts DEF NotYetThere, Arrived
  <2>5. CASE r.half = "peer"
    BY <2>2, <2>3, <2>4, <2>5 DEF Queued, Rows, InQueue
  <2>6. CASE r.by # Nil
    <3>1. r.by \in Slots /\ send[v][r.by] = [at |-> r.half, msg |-> r.msg]
      BY <1>1, <2>6, RowKnown
    <3>. QED BY <2>2, <2>3, <2>4, <3>1 DEF InFlight
  <2>. QED BY <2>2, <2>5, <2>6 DEF Bound
<1>4. \A m \in Ids : Leads(m) <=> sent[m] # Nil /\ ~Arrived(m) /\ (InFlight(m) \/ Queued(m, "peer"))
  BY <1>2, <1>3
<1>. QED BY <1>4 DEF StatusFacts, StatusOf, MessageStatus

LEMMA StatusIsNext == IInv' => StatusFacts'
BY StatusIs, PTL

\* Nothing of it has changed.
LEMMA MailStutter ==
  ASSUME StatusFacts, StatusFacts', sent' = sent,
         \A m \in Ids : Arrived(m)' <=> Arrived(m),
         \A m \in Ids : Leads(m)' <=> Leads(m)
  PROVE  UNCHANGED Mail!vars
<1>1. \A m \in Ids : StatusOf(m)' = StatusOf(m)
  BY DEF StatusOf
<1>2. MessageStatus' = MessageStatus
  BY <1>1 DEF StatusFacts
<1>. QED BY <1>2 DEF Mail!vars

\* Where messages arrive: in the addressee's box.
LEMMA ArrivedIs ==
  ASSUME IInv, NEW u \in Devices, NEW r \in Rows(u), r = Head(writes[u]), Outcome(u), sent' = sent,
         NEW k \in Ids, sent[k] # Nil
  PROVE  /\ Arrived(k) => Arrived(k)'
         /\ Arrived(k)' => Arrived(k) \/ (k = r.msg /\ r.half = "peer")
<1>1. sent[k] \in Header /\ sent[k].from \in Users /\ sent[k].to \in Users /\ sent[k].from # sent[k].to
  BY Parts DEF TypeOK, Header, NotToOneself
<1>2. sent[r.msg].from = u /\ r.half \in {"own", "peer"}
  BY RowKnown
<1>3. Gains(u, r)
  BY BoxAfter
<1>. QED BY <1>1, <1>2, <1>3 DEF Arrived, Gains

\* A step that leaves box, queues and messages sent alone.
LEMMA QuietMail ==
  ASSUME IInv, IInv', UNCHANGED <<box, writes, sent>>
  PROVE  UNCHANGED Mail!vars
<1>1. StatusFacts /\ StatusFacts'
  BY StatusIs, StatusIsNext
<1>2. \A m \in Ids : (Arrived(m)' <=> Arrived(m)) /\ (Leads(m)' <=> Leads(m))
  BY DEF Arrived, Leads, Rows, InQueue, Bound
<1>. QED BY <1>1, <1>2, MailStutter

LEMMA SendMail ==
  ASSUME IInv, IInv', NEW u \in Devices, NEW s \in Slots, NEW m \in Ids, Send(u, s, m)
  PROVE  Mail!Post(u, open[u], m)
<1> DEFINE x == Add(m, "own", s)
<1>1. /\ sent[m] = Nil /\ \A k \in SentFrom(u) : k < m
      /\ sent' = [sent EXCEPT ![m] = [from |-> u, to |-> open[u]]]
      /\ writes' = [writes EXCEPT ![u] = Append(@, x)] /\ box' = box
  BY DEF Send
<1>2. StatusFacts /\ StatusFacts'
  BY StatusIs, StatusIsNext
<1>3. Mail!From(u) = SentFrom(u)
  BY DEF Mail!From, SentFrom
<1>4. sent \in [Ids -> Header \cup {Nil}] /\ writes \in [Devices -> Seq(Write)]
  BY Parts DEF TypeOK
<1>5. \A k \in Ids : k # m => sent'[k] = sent[k]
  BY <1>1, <1>4
<1>6. \A k \in Ids : k # m => (Arrived(k)' <=> Arrived(k))
  BY <1>1, <1>5 DEF Arrived
<1>7. Bound(x) /\ x.msg = m
  BY Parts DEF Bound, Add
<1>8. /\ \A v \in Devices : v # u => Rows(v)' = Rows(v)
      /\ \A y : y \in Rows(u)' <=> y \in Rows(u) \/ y = x
  <2>1. writes'[u] = Append(writes[u], x) /\ \A v \in Devices : v # u => writes'[v] = writes[v]
    BY <1>1, <1>4
  <2>2. x \in Write
    BY DEF Add, Write, Halves
  <2> DEFINE q == writes[u]
             a == Append(q, x)
  <2>3. /\ q \in Seq(Write) /\ Len(q) \in Nat /\ DOMAIN q = 1..Len(q) /\ DOMAIN a = 1..(Len(q) + 1)
        /\ a[Len(q) + 1] = x /\ \A k \in 1..Len(q) : a[k] = q[k]
    BY <1>4, <2>2, LenProperties, AppendProperties
  <2> HIDE DEF a, q, x
  <2>4. \A y : (\E k \in DOMAIN a : a[k] = y) <=> (\E k \in DOMAIN q : q[k] = y) \/ y = x
    <3>1. \A k \in DOMAIN a : (k \in DOMAIN q /\ a[k] = q[k]) \/ a[k] = x
      BY <2>3
    <3>2. \A k \in DOMAIN q : k \in DOMAIN a /\ a[k] = q[k]
      BY <2>3
    <3>3. Len(q) + 1 \in DOMAIN a /\ a[Len(q) + 1] = x
      BY <2>3
    <3>. QED BY <3>1, <3>2, <3>3
  <2>5. \A y : y \in InQueue(a) <=> y \in InQueue(q) \/ y = x
    BY <2>4 DEF InQueue
  <2>6. \A v \in Devices : Rows(v)' = InQueue(writes'[v])
    BY DEF Rows, InQueue
  <2>. QED BY <2>1, <2>5, <2>6 DEF a, q, Rows
<1> HIDE DEF x
<1>9. \A k \in Ids : Leads(k)' <=> Leads(k) \/ k = m
  BY <1>7, <1>8 DEF Leads, Bound
<1>10. sent'[m] # Nil /\ ~Arrived(m)'
  BY <1>2, <1>9 DEF StatusFacts
<1>11. \A k \in Ids : StatusOf(k)' = IF k = m THEN "pending" ELSE StatusOf(k)
  BY <1>5, <1>6, <1>9, <1>10 DEF StatusOf
<1>12. MessageStatus' = [MessageStatus EXCEPT ![m] = "pending"] /\ MessageStatus[m] = "unsent"
  BY <1>1, <1>2, <1>11 DEF StatusFacts, StatusOf
<1>. QED BY <1>1, <1>3, <1>12 DEF Mail!Post

\* Whose a pending message is.
LEMMA PendingOf ==
  ASSUME IInv, StatusFacts, NEW u \in Devices, NEW k \in Mail!Pending(u)
  PROVE  k \in Ids /\ \E y \in Rows(u) : Bound(y) /\ y.msg = k
<1>1. k \in Ids /\ sent[k] # Nil /\ sent[k].from = u /\ StatusOf(k) = "pending"
  BY DEF Mail!Pending, Mail!From, StatusFacts
<1>2. PICK v \in Devices : \E y \in Rows(v) : Bound(y) /\ y.msg = k
  BY <1>1 DEF StatusOf, Leads
<1>3. PICK y \in Rows(v) : Bound(y) /\ y.msg = k
  BY <1>2
<1>4. v = u
  BY <1>1, <1>3, RowKnown
<1>. QED BY <1>1, <1>3, <1>4

\* The head's row goes: if it was the second add, its message, the oldest of its
\* sender on its way, arrives or is given up.
LEMMA HeadGoesMail ==
  ASSUME IInv, IInv', NEW u \in Devices, NEW r \in Rows(u), r = Head(writes[u]), writes[u] # <<>>,
         Outcome(u), sent' = sent, writes' = [writes EXCEPT ![u] = Tail(@)],
         r.by = Nil \/ r.half = "peer"
  PROVE  Mail!Arrive(u) \/ Mail!Lose(u) \/ UNCHANGED Mail!vars
<1> DEFINE m == r.msg
<1>1. StatusFacts /\ StatusFacts'
  BY StatusIs, StatusIsNext
<1>2. Rows(u)' = Rows(u) \ {r} /\ \A v \in Devices : v # u => Rows(v)' = Rows(v)
  BY RowsAfterTail
<1>3. /\ m \in Ids /\ r.half \in {"own", "peer"} /\ r \in Write /\ u \in Users
      /\ sent[m] \in Header /\ sent[m].from = u /\ sent[m].to \in Users /\ sent[m].to # u
      /\ sent[m] # Nil
  BY RowKnown, Parts DEF RowsOfSender
<1>4. \A k \in Ids : sent[k] # Nil => /\ Arrived(k) => Arrived(k)'
                                      /\ Arrived(k)' => Arrived(k) \/ (k = m /\ r.half = "peer")
  BY ArrivedIs
<1>5. CASE r.half = "own"
  <2>1. ~Bound(r)
    BY <1>5 DEF Bound
  <2>2. \A k \in Ids : Leads(k)' <=> Leads(k)
    BY <1>2, <2>1 DEF Leads, Bound
  <2>3. ASSUME NEW k \in Ids, sent[k] # Nil PROVE Arrived(k)' <=> Arrived(k)
    <3>1. ASSUME Arrived(k)' PROVE Arrived(k)
      BY <1>4, <1>5, <2>3, <3>1
    <3>2. ASSUME Arrived(k) PROVE Arrived(k)'
      BY <1>4, <2>3, <3>2
    <3>. QED BY <3>1, <3>2
  <2>4. \A k \in Ids : StatusOf(k)' = StatusOf(k)
    BY <2>2, <2>3 DEF StatusOf
  <2>. QED BY <1>1, <2>4 DEF StatusFacts, Mail!vars
<1>6. CASE r.half = "peer"
  <2>1. Bound(r)
    BY <1>6 DEF Bound
  <2>2. Leads(m) /\ ~Arrived(m)
    BY <1>1, <1>3, <2>1 DEF Leads, StatusFacts
  <2>3. ~Leads(m)'
    <3>1. ASSUME NEW v \in Devices, NEW y \in Rows(v)', Bound(y), y.msg = m PROVE FALSE
      <4>1. y \in Rows(v)
        BY <1>2
      <4>2. v = u
        <5>1. sent[y.msg].from = v
          BY <4>1, RowKnown
        <5>. QED BY <1>3, <3>1, <5>1
      <4>3. writes[u] \in Seq(Write) /\ Ordered(writes[u])
        BY Parts DEF TypeOK, QueuesOrdered
      <4>4. y = r
        BY <2>1, <3>1, <4>1, <4>2, <4>3, OnlyRow DEF Rows
      <4>. QED BY <1>2, <4>2, <4>4
    <3>. QED BY <3>1 DEF Leads, Bound
  <2>4. \A k \in Ids : k # m => (Leads(k)' <=> Leads(k))
    BY <1>2 DEF Leads, Bound
  <2>5. m \in Mail!Pending(u)
    BY <1>1, <1>3, <2>2 DEF Mail!Pending, Mail!From, StatusFacts, StatusOf
  <2>6. ASSUME NEW k \in Ids, k # m PROVE StatusOf(k)' = StatusOf(k)
    <3>1. CASE sent[k] = Nil
      BY <3>1 DEF StatusOf
    <3>2. CASE sent[k] # Nil
      <4>1. ASSUME Arrived(k)' PROVE Arrived(k)
        BY <1>4, <2>6, <3>2, <4>1
      <4>2. ASSUME Arrived(k) PROVE Arrived(k)'
        BY <1>4, <3>2, <4>2
      <4>3. Leads(k)' <=> Leads(k)
        BY <2>4, <2>6
      <4>. QED BY <3>2, <4>1, <4>2, <4>3 DEF StatusOf
    <3>. QED BY <3>1, <3>2
  <2>7. StatusOf(m)' = IF Arrived(m)' THEN "arrived" ELSE "lost"
    BY <1>3, <2>3 DEF StatusOf
  <2>8. \A k \in Mail!Pending(u) : m <= k
    <3>1. ASSUME NEW k \in Mail!Pending(u) PROVE m <= k
      <4>1. PICK y \in Rows(u) : Bound(y) /\ y.msg = k
        BY <1>1, PendingOf
      <4>2. y \in Write /\ m \in Nat /\ k \in Nat /\ y.half \in {"own", "peer"}
        BY <1>3, <4>1, RowKnown, WriteType
      <4>3. CASE y = r
        BY <4>1, <4>2, <4>3
      <4>4. CASE y # r /\ y.half = "peer"
        BY <1>6, <4>1, <4>2, <4>4, HeadKnown
      <4>5. CASE y.half = "own"
        <5>1. writes[u] \in Seq(Write) /\ Ordered(writes[u])
          BY Parts DEF TypeOK, QueuesOrdered
        <5>2. PICK i \in DOMAIN writes[u] : writes[u][i] = y
          BY DEF Rows, InQueue
        <5>3. PICK j \in DOMAIN writes[u] : writes[u][j] = r
          BY DEF Rows, InQueue
        <5>4. m < k
          BY <1>6, <4>1, <4>5, <5>1, <5>2, <5>3 DEF Ordered, Bound
        <5>. QED BY <4>2, <5>4
      <4>. QED BY <4>2, <4>3, <4>4, <4>5
    <3>. QED BY <3>1
  <2> HIDE DEF m
  <2>9. CASE Arrived(m)'
    <3>1. MessageStatus' = [MessageStatus EXCEPT ![m] = "arrived"]
      BY <1>1, <1>3, <2>6, <2>7, <2>9 DEF StatusFacts
    <3>. QED BY <2>5, <2>8, <3>1 DEF Mail!Arrive
  <2>10. CASE ~Arrived(m)'
    <3>1. MessageStatus' = [k \in Ids |-> IF k \in {m} THEN "lost" ELSE MessageStatus[k]]
      BY <1>1, <1>3, <2>6, <2>7, <2>10 DEF StatusFacts
    <3>2. {m} \in SUBSET Mail!Pending(u) /\ {m} # {}
      BY <2>5
    <3>. QED BY <3>1, <3>2 DEF Mail!Lose
  <2>. QED BY <2>9, <2>10
<1>. QED BY <1>3, <1>5, <1>6

\* The first add hands its message on.
LEMMA OwnAnsweredMail ==
  ASSUME IInv, IInv', NEW u \in Devices, NEW s \in Slots, OwnAdded(u, s) \/ OwnRefused(u, s)
  PROVE  UNCHANGED Mail!vars
<1>1. /\ writes[u] # <<>> /\ Awaited(u, s, "own") /\ Outcome(u) /\ PeerAdd(u, s) /\ sent' = sent
  BY DEF OwnAdded, OwnRefused, Awaited, Outcome, notes
<1>2. PICK r \in Rows(u) : r = Head(writes[u])
  BY <1>1, HeadKnown
<1> DEFINE x == Add(r.msg, "peer", s)
<1>3. /\ r.by = s /\ r.half = "own" /\ Bound(r) /\ r.msg \in Ids
      /\ send[u][s] = [at |-> "own", msg |-> r.msg]
      /\ Tail(writes[u]) \in Seq(Write) /\ InQueue(Tail(writes[u])) = Rows(u) \ {r}
  BY <1>1, <1>2, HeadKnown, RowKnown, Parts DEF Awaited, Bound
<1>4. writes' = [writes EXCEPT ![u] = Append(Tail(writes[u]), x)] /\ x \in Write
  BY <1>1, <1>3 DEF PeerAdd, Add, Write, Halves
<1>5. Bound(x) /\ x.msg = r.msg
  BY DEF Bound, Add
<1>6. /\ \A v \in Devices : v # u => Rows(v)' = Rows(v)
      /\ \A y : y \in Rows(u)' <=> (y \in Rows(u) /\ y # r) \/ y = x
  <2> DEFINE q == Tail(writes[u])
             a == Append(q, x)
  <2>1. writes'[u] = a /\ \A v \in Devices : v # u => writes'[v] = writes[v]
    BY <1>4, Parts DEF TypeOK
  <2>2. /\ q \in Seq(Write) /\ Len(q) \in Nat /\ DOMAIN q = 1..Len(q) /\ DOMAIN a = 1..(Len(q) + 1)
        /\ a[Len(q) + 1] = x /\ \A k \in 1..Len(q) : a[k] = q[k]
    BY <1>3, <1>4, LenProperties, AppendProperties
  <2>3. \A v \in Devices : Rows(v)' = InQueue(writes'[v])
    BY DEF Rows, InQueue
  <2>4. InQueue(q) = Rows(u) \ {r}
    BY <1>3
  <2> HIDE DEF a, q, x
  <2>5. \A k \in DOMAIN a : (k \in DOMAIN q /\ a[k] = q[k]) \/ a[k] = x
    BY <2>2
  <2>6. \A k \in DOMAIN q : k \in DOMAIN a /\ a[k] = q[k]
    BY <2>2
  <2>7. Len(q) + 1 \in DOMAIN a /\ a[Len(q) + 1] = x
    BY <2>2
  <2>8. \A y : y \in InQueue(a) <=> y \in InQueue(q) \/ y = x
    BY <2>5, <2>6, <2>7 DEF InQueue
  <2>9. \A v \in Devices : v # u => Rows(v)' = Rows(v)
    BY <2>1, <2>3 DEF Rows
  <2>. QED BY <2>1, <2>3, <2>4, <2>8, <2>9
<1> HIDE DEF x
<1>7. \A k \in Ids : Leads(k)' <=> Leads(k)
  BY <1>3, <1>5, <1>6 DEF Leads, Bound
<1>8. \A k \in Ids : sent[k] # Nil => (Arrived(k)' <=> Arrived(k))
  <2>1. \A k \in Ids : sent[k] # Nil => /\ Arrived(k) => Arrived(k)'
                                        /\ Arrived(k)' => Arrived(k) \/ (k = r.msg /\ r.half = "peer")
    BY <1>1, <1>2, ArrivedIs
  <2>2. ASSUME NEW k \in Ids, sent[k] # Nil PROVE Arrived(k)' <=> Arrived(k)
    <3>1. ASSUME Arrived(k)' PROVE Arrived(k)
      BY <1>3, <2>1, <2>2, <3>1
    <3>2. ASSUME Arrived(k) PROVE Arrived(k)'
      BY <2>1, <2>2, <3>2
    <3>. QED BY <3>1, <3>2
  <2>. QED BY <2>2
<1>9. \A k \in Ids : StatusOf(k)' = StatusOf(k)
  BY <1>1, <1>7, <1>8 DEF StatusOf
<1>10. StatusFacts /\ StatusFacts'
  BY StatusIs, StatusIsNext
<1>. QED BY <1>1, <1>9, <1>10 DEF StatusFacts, Mail!vars

\* A process that dies gives up what it had not copied to its addressee's queue.
LEMMA RestartMail ==
  ASSUME IInv, IInv', NEW u \in Devices, Restart(u)
  PROVE  Mail!Lose(u) \/ UNCHANGED Mail!vars
<1> DEFINE n == [k \in DOMAIN writes[u] |-> [writes[u][k] EXCEPT !.by = Nil]]
           L == {m \in Ids : Leads(m) /\ ~Leads(m)'}
<1>1. StatusFacts /\ StatusFacts' /\ box' = box /\ sent' = sent
  BY StatusIs, StatusIsNext DEF Restart
<1>2. writes'[u] = n /\ \A v \in Devices : v # u => writes'[v] = writes[v]
  BY Parts DEF Restart, TypeOK
<1>3. ASSUME NEW k \in DOMAIN writes[u]
      PROVE  n[k].msg = writes[u][k].msg /\ n[k].half = writes[u][k].half /\ n[k].by = Nil
  <2>1. writes[u][k] \in Write
    BY ElementOfSeq, LenProperties, Parts DEF TypeOK
  <2>2. n[k] = [writes[u][k] EXCEPT !.by = Nil]
    OBVIOUS
  <2>. QED BY <2>1, <2>2 DEF Write
<1>4. DOMAIN n = DOMAIN writes[u]
  OBVIOUS
<1> HIDE DEF n
<1>5. \A v \in Devices : v # u => Rows(v)' = Rows(v)
  BY <1>2 DEF Rows, InQueue
<1>6. ASSUME NEW y \in Rows(u)', Bound(y)
      PROVE  \E r \in Rows(u) : Bound(r) /\ r.msg = y.msg
  <2>1. PICK k \in DOMAIN n : y = n[k]
    BY <1>2, <1>6 DEF Rows, InQueue
  <2>2. writes[u][k] \in Rows(u)
    BY <1>4, <2>1 DEF Rows, InQueue
  <2>. QED BY <1>3, <1>4, <1>6, <2>1, <2>2 DEF Bound
<1>7. \A m \in Ids : Leads(m)' => Leads(m)
  BY <1>5, <1>6 DEF Leads, Bound
<1>8. \A m \in Ids : Arrived(m)' <=> Arrived(m)
  BY <1>1 DEF Arrived
<1>9. L \subseteq Mail!Pending(u)
  <2>1. ASSUME NEW m \in L PROVE sent[m] # Nil /\ sent[m].from = u /\ StatusOf(m) = "pending" /\ m \in Ids
    <3>1. PICK v \in Devices : \E r \in Rows(v) : Bound(r) /\ r.msg = m
      BY <2>1 DEF Leads
    <3>2. PICK r \in Rows(v) : Bound(r) /\ r.msg = m
      BY <3>1
    <3>3. v = u
      BY <1>5, <2>1, <3>2 DEF Leads, Bound
    <3>4. sent[m].from = u
      BY <3>2, <3>3, RowKnown
    <3>. QED BY <1>1, <2>1, <3>4 DEF StatusFacts, StatusOf
  <2>. QED BY <1>1, <2>1 DEF StatusFacts, Mail!Pending, Mail!From
<1>10. \A m \in Ids : StatusOf(m)' = IF m \in L THEN "lost" ELSE StatusOf(m)
  <2>1. \A m \in L : sent[m] # Nil /\ ~Arrived(m)
    BY <1>1 DEF StatusFacts
  <2>. QED BY <1>1, <1>7, <1>8, <2>1 DEF StatusOf
<1> HIDE DEF L
<1>11. MessageStatus' = [m \in Ids |-> IF m \in L THEN "lost" ELSE MessageStatus[m]]
  BY <1>1, <1>10 DEF StatusFacts
<1>12. CASE L = {}
  BY <1>1, <1>10, <1>12 DEF StatusFacts, Mail!vars
<1>13. CASE L # {}
  BY <1>1, <1>9, <1>11, <1>13 DEF Mail!Lose
<1>. QED BY <1>12, <1>13

LEMMA MailNext == IInv /\ IInv' /\ [Next]_vars => [Mail!Next]_(Mail!vars)
<1>1. SUFFICES ASSUME IInv, IInv', [Next]_vars PROVE Mail!Next \/ UNCHANGED Mail!vars
  OBVIOUS
<1>2. CASE UNCHANGED vars
  BY <1>1, <1>2, QuietMail DEF vars, notes
<1>3. ASSUME NEW u \in Devices, NEW p \in Users, Open(u, p) \/ Snapshot(u, p)
      PROVE  UNCHANGED Mail!vars
  BY <1>1, <1>3, QuietMail DEF Open, Snapshot, notes
<1>4. ASSUME NEW u \in Devices, Close(u) PROVE UNCHANGED Mail!vars
  BY <1>1, <1>4, QuietMail DEF Close, notes
<1>5. ASSUME NEW u \in Devices, NEW s \in Slots, NEW m \in Ids, Send(u, s, m) PROVE Mail!Next
  <2>1. open[u] \in Users /\ u \in Users
    BY <1>1, <1>5, Parts DEF Send, TypeOK
  <2>. QED BY <1>1, <1>5, <2>1, SendMail DEF Mail!Next
<1>6. ASSUME NEW u \in Devices, WriteAnswered(u) PROVE Mail!Next \/ UNCHANGED Mail!vars
  <2>1. u \in Users
    BY <1>1, Parts
  <2>2. ASSUME NEW s \in Slots, OwnAdded(u, s) \/ OwnRefused(u, s) PROVE UNCHANGED Mail!vars
    BY <1>1, <2>2, OwnAnsweredMail
  <2>3. ASSUME NEW s \in Slots, PeerAdded(u, s) \/ PeerRefused(u, s)
        PROVE  Mail!Arrive(u) \/ Mail!Lose(u) \/ UNCHANGED Mail!vars
    <3>1. /\ writes[u] # <<>> /\ Head(writes[u]).half = "peer" /\ Outcome(u) /\ sent' = sent
          /\ writes' = [writes EXCEPT ![u] = Tail(@)]
      BY <2>3 DEF PeerAdded, PeerRefused, Awaited, Outcome, Ended, notes
    <3>. QED BY <1>1, <3>1, HeadKnown, HeadGoesMail
  <2>4. ASSUME OrphanAdded(u) \/ OrphanRefused(u)
        PROVE  Mail!Arrive(u) \/ Mail!Lose(u) \/ UNCHANGED Mail!vars
    <3>1. /\ writes[u] # <<>> /\ Head(writes[u]).by = Nil /\ Outcome(u) /\ sent' = sent
          /\ writes' = [writes EXCEPT ![u] = Tail(@)]
      BY <2>4 DEF OrphanAdded, OrphanRefused, Outcome, notes
    <3>. QED BY <1>1, <3>1, HeadKnown, HeadGoesMail
  <2>. QED BY <1>6, <2>1, <2>2, <2>3, <2>4 DEF WriteAnswered, Mail!Next
<1>7. ASSUME NEW u \in Devices, Restart(u) PROVE Mail!Next \/ UNCHANGED Mail!vars
  BY <1>1, <1>7, RestartMail, Parts DEF Mail!Next
<1>. QED BY <1>1, <1>2, <1>3, <1>4, <1>5, <1>6, <1>7 DEF Next

LEMMA MailInit == Init => Mail!Init
<1>1. SUFFICES ASSUME Init PROVE Mail!Init
  OBVIOUS
<1>2. \A m \in Ids : sent[m] = Nil /\ sent = [k \in Ids |-> Nil]
  BY <1>1 DEF Init
<1>3. MessageStatus = [m \in Ids |-> "unsent"]
  BY <1>2 DEF MessageStatus
<1>. QED BY <1>1, <1>3 DEF Init, Mail!Init

-----------------------------------------------------------------------------
(* Who waits, and what for.                                                *)

\* An open chat has a listener, and the list on display is the last snapshot of the
\* one chat that was opened.
ScreenFollows ==
  \A u \in Devices :
    /\ open[u] # Nil => open[u] \in subs[u]
    /\ \A p \in Users : subs[u] = {p} /\ seen[u][p] # Nil => messages[u] = seen[u][p]

LEMMA ScreenKept ==
  ASSUME ScreenFollows, UNCHANGED screens
  PROVE  ScreenFollows'
BY DEF ScreenFollows, screens

LEMMA ScreenStep == IInv /\ ScreenFollows /\ [Next]_vars => ScreenFollows'
<1> SUFFICES ASSUME IInv, ScreenFollows, [Next]_vars PROVE ScreenFollows'
  OBVIOUS
<1>1. /\ open \in [Devices -> Users \cup {Nil}]
      /\ seen \in [Devices -> [Users -> (SUBSET Ids) \cup {Nil}]]
      /\ subs \in [Devices -> SUBSET Users] /\ messages \in [Devices -> SUBSET Ids]
  BY Parts DEF TypeOK
<1>2. ASSUME NEW u \in Devices, NEW p \in Users, Open(u, p) PROVE ScreenFollows'
  <2>1. /\ open'[u] = p /\ p \in subs'[u] /\ seen'[u][p] = Nil
        /\ subs'[u] = subs[u] \cup {p}
        /\ \A v \in Devices : v # u => /\ open'[v] = open[v] /\ subs'[v] = subs[v]
                                      /\ seen'[v] = seen[v]
        /\ messages' = messages
    BY <1>1, <1>2 DEF Open
  <2>2. \A q \in Users : subs'[u] = {q} => q = p
    BY <2>1
  <2>. QED BY <2>1, <2>2 DEF ScreenFollows
<1>3. ASSUME NEW u \in Devices, Close(u) PROVE ScreenFollows'
  <2>1. /\ open'[u] = Nil /\ \A v \in Devices : v # u => open'[v] = open[v]
        /\ UNCHANGED <<seen, subs, messages>>
    BY <1>1, <1>3 DEF Close
  <2>. QED BY <2>1 DEF ScreenFollows
<1>4. ASSUME NEW u \in Devices, NEW p \in Users, Snapshot(u, p) PROVE ScreenFollows'
  <2>1. p \in subs[u] /\ open' = open /\ subs' = subs
    BY <1>4 DEF Snapshot
  <2>2. /\ seen'[u][p] = View(u, p) /\ messages'[u] = View(u, p)
        /\ \A v \in Devices : v # u => seen'[v] = seen[v] /\ messages'[v] = messages[v]
    BY <1>1, <1>4 DEF Snapshot
  <2>3. \A q \in Users : subs[u] = {q} => q = p
    BY <2>1
  <2>. QED BY <2>1, <2>2, <2>3 DEF ScreenFollows
<1>5. ASSUME NEW u \in Devices, Restart(u) PROVE ScreenFollows'
  <2>1. /\ open'[u] = Nil /\ subs'[u] = {}
        /\ \A v \in Devices : v # u => /\ open'[v] = open[v] /\ subs'[v] = subs[v]
                                      /\ seen'[v] = seen[v] /\ messages'[v] = messages[v]
    BY <1>1, <1>5 DEF Restart
  <2>. QED BY <2>1 DEF ScreenFollows
<1>6. ASSUME NEW u \in Devices, NEW s \in Slots, NEW m \in Ids, Send(u, s, m)
      PROVE  ScreenFollows'
  BY <1>6, ScreenKept DEF Send
<1>7. ASSUME NEW u \in Devices, WriteAnswered(u) PROVE ScreenFollows'
  BY <1>7, ScreenKept DEF WriteAnswered, OwnAdded, OwnRefused, PeerAdded, PeerRefused,
     OrphanAdded, OrphanRefused
<1>8. CASE UNCHANGED vars
  BY <1>8, ScreenKept DEF vars
<1>. QED BY <1>2, <1>3, <1>4, <1>5, <1>6, <1>7, <1>8 DEF Next

\* Rows and calls fit each other by the invariant.
LEMMA NobodyWaits == IInv /\ ScreenFollows => NobodyWaitsInVain
<1> SUFFICES ASSUME IInv, ScreenFollows, NEW u \in Devices
             PROVE  /\ \A s \in Slots : send[u][s] # IdleCall =>
                         \E k \in DOMAIN writes[u] :
                           writes[u][k] = Add(send[u][s].msg, send[u][s].at, s)
                    /\ \A k \in DOMAIN writes[u] : writes[u][k].by # Nil =>
                         send[u][writes[u][k].by] =
                           [at |-> writes[u][k].half, msg |-> writes[u][k].msg]
  BY DEF NobodyWaitsInVain, ScreenFollows
<1>1. \A r : r \in Rows(u) <=> \E k \in DOMAIN writes[u] : r = writes[u][k]
  BY DEF Rows, InQueue
<1>2. CallsHaveRows /\ RowsHaveCalls
  BY Parts
<1>3. ASSUME NEW s \in Slots, send[u][s] # IdleCall
      PROVE  Add(send[u][s].msg, send[u][s].at, s) \in Rows(u)
  BY <1>2, <1>3 DEF CallsHaveRows
<1>4. ASSUME NEW k \in DOMAIN writes[u], writes[u][k].by # Nil
      PROVE  send[u][writes[u][k].by] = [at |-> writes[u][k].half, msg |-> writes[u][k].msg]
  <2>1. writes[u][k] \in Rows(u)
    BY <1>1
  <2>. QED BY <1>2, <1>4, <2>1 DEF RowsHaveCalls
<1>. QED BY <1>1, <1>3, <1>4

-----------------------------------------------------------------------------
(* What Mailbox promises the addressee.                                    *)

LEMMA OvertakingStep ==
  ASSUME IInv, Mail!NoOvertaking, [Mail!Next]_(Mail!vars)
  PROVE  Mail!NoOvertaking'
<1> DEFINE st == MessageStatus
<1>1. /\ \A m \in Ids : m \in Nat
      /\ DOMAIN st = Ids /\ sent \in [Ids -> Header \cup {Nil}]
      /\ \A m \in Ids : sent[m] = Nil <=> st[m] = "unsent"
      /\ st = [m \in Ids |-> st[m]]
  BY IdsAssumption, Parts DEF MessageStatus, TypeOK
<1> HIDE DEF st
<1>2. SUFFICES ASSUME NEW u \in Users, NEW n \in Ids, NEW m \in Ids,
                      sent'[n] # Nil, sent'[n].from = u, sent'[m] # Nil, sent'[m].from = u,
                      st'[n] = "arrived", st'[m] = "pending"
               PROVE  n < m
  BY DEF Mail!NoOvertaking, Mail!Pending, Mail!From, st
<1>3. ASSUME sent[n] # Nil, sent[n].from = u, sent[m] # Nil, sent[m].from = u,
             st[n] = "arrived", st[m] = "pending"
      PROVE  n < m
  BY <1>3 DEF Mail!NoOvertaking, Mail!Pending, Mail!From, st
<1>4. ASSUME NEW v \in Users, NEW p \in Users, NEW k \in Ids, Mail!Post(v, p, k) PROVE n < m
  <2>1. /\ st[k] = "unsent" /\ \A i \in Mail!From(v) : i < k
        /\ sent' = [sent EXCEPT ![k] = [from |-> v, to |-> p]]
        /\ st' = [st EXCEPT ![k] = "pending"]
    BY <1>4 DEF Mail!Post, st
  <2>2. n # k /\ sent[n] # Nil /\ sent[n].from = u /\ st[n] = "arrived"
    BY <1>1, <1>2, <2>1
  <2>3. CASE m = k
    <3>1. v = u
      BY <1>1, <1>2, <2>1, <2>3
    <3>2. n \in Mail!From(v)
      BY <2>2, <3>1 DEF Mail!From
    <3>. QED BY <2>1, <2>3, <3>2
  <2>4. CASE m # k
    BY <1>1, <1>2, <1>3, <2>1, <2>2, <2>4
  <2>. QED BY <2>3, <2>4
<1>5. ASSUME NEW v \in Users, Mail!Arrive(v) PROVE n < m
  <2>1. PICK k \in Mail!Pending(v) :
          /\ \A i \in Mail!Pending(v) : k <= i
          /\ st' = [st EXCEPT ![k] = "arrived"]
    BY <1>5 DEF Mail!Arrive, st
  <2>2. sent' = sent /\ k \in Ids /\ sent[k].from = v
    BY <1>5 DEF Mail!Arrive, Mail!Pending, Mail!From
  <2>3. m # k /\ st[m] = "pending"
    BY <1>1, <1>2, <2>1, <2>2
  <2>4. CASE n = k
    <3>1. m \in Mail!Pending(v)
      BY <1>2, <2>2, <2>3, <2>4 DEF Mail!Pending, Mail!From, st
    <3>. QED BY <1>1, <2>1, <2>3, <2>4, <3>1
  <2>5. CASE n # k
    BY <1>1, <1>2, <1>3, <2>1, <2>2, <2>3, <2>5
  <2>. QED BY <2>4, <2>5
<1>6. ASSUME NEW v \in Users, Mail!Lose(v) PROVE n < m
  <2>1. /\ sent' = sent
        /\ \E L \in SUBSET Mail!Pending(v) :
             st' = [i \in Ids |-> IF i \in L THEN "lost" ELSE st[i]]
    BY <1>6 DEF Mail!Lose, st
  <2>2. st[n] = "arrived" /\ st[m] = "pending"
    BY <1>2, <2>1
  <2>. QED BY <1>2, <1>3, <2>1, <2>2
<1>7. CASE UNCHANGED Mail!vars
  BY <1>2, <1>3, <1>7 DEF Mail!vars, st
<1>. QED BY <1>4, <1>5, <1>6, <1>7 DEF Mail!Next

LEMMA OutcomesStep ==
  ASSUME [Mail!Next]_(Mail!vars), NEW m \in Ids, MessageStatus[m] \in {"arrived", "lost"}
  PROVE  MessageStatus'[m] = MessageStatus[m]
<1> DEFINE st == MessageStatus
<1>1. st = [k \in Ids |-> st[k]]
  BY DEF MessageStatus
<1> HIDE DEF st
<1>2. ASSUME NEW v \in Users, NEW p \in Users, NEW k \in Ids, Mail!Post(v, p, k)
      PROVE  st'[m] = st[m]
  <2>1. st[k] = "unsent" /\ st' = [st EXCEPT ![k] = "pending"]
    BY <1>2 DEF Mail!Post, st
  <2>. QED BY <1>1, <2>1 DEF st
<1>3. ASSUME NEW v \in Users, Mail!Arrive(v) PROVE st'[m] = st[m]
  <2>1. PICK k \in Mail!Pending(v) : st' = [st EXCEPT ![k] = "arrived"]
    BY <1>3 DEF Mail!Arrive, st
  <2>2. st[k] = "pending"
    BY DEF Mail!Pending, st
  <2>. QED BY <1>1, <2>1, <2>2 DEF st
<1>4. ASSUME NEW v \in Users, Mail!Lose(v) PROVE st'[m] = st[m]
  <2>1. PICK L \in SUBSET Mail!Pending(v) :
          st' = [i \in Ids |-> IF i \in L THEN "lost" ELSE st[i]]
    BY <1>4 DEF Mail!Lose, st
  <2>2. m \notin L
    BY DEF Mail!Pending, st
  <2>. QED BY <2>1, <2>2
<1>5. CASE UNCHANGED Mail!vars
  BY <1>5 DEF Mail!vars, st
<1>. QED BY <1>2, <1>3, <1>4, <1>5 DEF Mail!Next, st

-----------------------------------------------------------------------------
(* The theorems.                                                           *)

\* Rows stand in the order of their messages, and nothing enters a box twice.
THEOREM InvariantHolds == Spec => []IInv
BY InitInv, NextInv, PTL DEF Spec

\* Boxes, queues, calls and screens keep their types (social_app_cubit:292-330).
THEOREM TypeCorrect == Spec => []TypeOK
<1>1. IInv => TypeOK
  BY DEF IInv
<1>. QED BY <1>1, InvariantHolds, PTL

\* The sender's and the addressee's copy part only by a refused write or a process
\* that died between the adds (social_app_cubit:301-310).
THEOREM CopiesStayTogether == Spec => []CopiesAgree
<1>1. IInv => CopiesAgree
  BY DEF IInv, BoxInv
<1>. QED BY <1>1, InvariantHolds, PTL

\* Listeners are never cancelled and all assign one field; still the list on display
\* is of one conversation that was opened (social_app_cubit:316-330).
THEOREM OneConversationAtATime == Spec => []OneConversationShown
<1>1. IInv => OneConversationShown
  BY DEF IInv, BoxInv
<1>. QED BY <1>1, InvariantHolds, PTL

\* uploadChatMessage implements Mailbox: messages arrive at most once and in the
\* order of their sender, whatever is refused or killed (social_app_cubit:292-309).
THEOREM ImplementsMailbox == Spec => ArrivesInOrder
<1>1. Init => Mail!Init
  BY MailInit
<1>2. IInv /\ IInv' /\ [Next]_vars => [Mail!Next]_(Mail!vars)
  BY MailNext
<1>. QED BY <1>1, <1>2, InvariantHolds, PTL DEF Spec, ArrivesInOrder, Mail!Spec

\* No call of uploadChatMessage waits for an add that is not queued, no row for a call
\* that has gone on, and an open chat is owed whatever its list lacks
\* (social_app_cubit:292-329).
THEOREM NobodyIsLeftWaiting == Spec => []NobodyWaitsInVain
<1>1. Init => ScreenFollows
  BY DEF Init, ScreenFollows
<1>2. IInv /\ ScreenFollows /\ [Next]_vars => ScreenFollows'
  BY ScreenStep
<1>3. IInv /\ ScreenFollows => NobodyWaitsInVain
  BY NobodyWaits
<1>. QED BY <1>1, <1>2, <1>3, InvariantHolds, PTL DEF Spec

\* Once a message has arrived, nothing its sender wrote before it is still to come.
THEOREM MessagesNeverOvertaken == Spec => []NeverOvertaken
<1>1. Mail!Init => Mail!NoOvertaking
  BY DEF Mail!Init, Mail!NoOvertaking, Mail!From
<1>2. IInv /\ Mail!NoOvertaking /\ [Mail!Next]_(Mail!vars) => Mail!NoOvertaking'
  BY OvertakingStep
<1>. QED BY <1>1, <1>2, InvariantHolds, ImplementsMailbox, PTL
         DEF ArrivesInOrder, Mail!Spec, NeverOvertaken

\* What became of a message is settled once: no retry, no restart and no late answer
\* makes it arrive twice or after it was given up.
THEOREM OutcomesAreFinal == Spec => OutcomesFinal
<1>1. [Mail!Next]_(Mail!vars) =>
        [\A m \in Ids : MessageStatus[m] \in {"arrived", "lost"} =>
           MessageStatus'[m] = MessageStatus[m]]_(Mail!vars)
  BY OutcomesStep
<1>. QED BY <1>1, ImplementsMailbox, PTL
         DEF ArrivesInOrder, Mail!Spec, OutcomesFinal, Mail!SettledForGood
=============================================================================
