---------------------------- MODULE ProfileProofs -----------------------------
(***************************************************************************)
(* Proofs about Profile for every set of texts and files, any number of    *)
(* updates in flight and every queue bound.  The profile on display is an  *)
(* invariant that is inductive once its types are; that a success waits    *)
(* for all writes of its update rests on where those writes stand in the   *)
(* queue (WritesOfUpdates).                                                *)
(***************************************************************************)
EXTENDS Profile, TLAPS, SequenceTheorems, WellFoundedInduction

\* A non-empty set of numbers up to n has a greatest.
LEMMA GreatestExists ==
  ASSUME NEW n \in Nat, NEW S \in SUBSET (0..n), S # {}
  PROVE  \E m \in S : \A k \in S : k <= m
<1> DEFINE T == {n - k : k \in S}
           R == OpToRel(<, Nat)
<1>1. IsWellFoundedOn(R, Nat)
  BY NatLessThanWellFounded
<1>2. T \subseteq Nat /\ T # {}
  <2>1. PICK s \in S : TRUE
    OBVIOUS
  <2>2. n - s \in T
    BY <2>1
  <2>3. \A k \in S : n - k \in Nat
    OBVIOUS
  <2>. QED BY <2>2, <2>3
<1>3. \A x, y \in Nat : x < y => <<x, y>> \in R
  BY DEF OpToRel
<1>4. \A k \in S : n - k \in T
  OBVIOUS
<1> HIDE DEF R, T
<1>5. PICK x \in T : \A y \in T : ~ (<<y, x>> \in R)
  BY <1>1, <1>2, WFMin
<1>6. \A y \in T : ~(y < x)
  BY <1>2, <1>3, <1>5
<1>7. PICK m \in S : x = n - m
  BY <1>5 DEF T
<1>8. \A k \in S : ~(n - k < n - m)
  BY <1>4, <1>6, <1>7
<1>. QED BY <1>7, <1>8

-----------------------------------------------------------------------------
(* Types.                                                                  *)

\* Only who has seen the form updates anything.
FormSeen == \A c \in Updates : call[c].at # "idle" => getUser \in User

TypeInv == TypeOK /\ FormSeen

\* The queue behind its head.
LEMMA Behind ==
  ASSUME TypeOK, writes # <<>>
  PROVE  /\ Head(writes) \in Update /\ Head(writes) = writes[1]
         /\ Tail(writes) \in Seq(Update)
         /\ DOMAIN writes = 1..Len(writes) /\ Len(writes) \in Nat \ {0}
         /\ DOMAIN Tail(writes) = 1..(Len(writes) - 1)
         /\ \A k \in DOMAIN Tail(writes) : Tail(writes)[k] = writes[k + 1]
<1>1. writes \in Seq(Update)
  BY DEF TypeOK
<1>. QED BY <1>1, HeadTailProperties, LenProperties

LEMMA MergedType ==
  ASSUME NEW d \in User, NEW w \in Update
  PROVE  Merged(d, w) \in User
<1>1. \A f \in Fields : Sets(w, f) =>
        w.set[f] \in CASE f = "name" -> Texts [] f = "phone" -> Texts
                       [] f = "image" -> Pictures [] f = "cover" -> Pictures
  BY DEF Update, Sets, Pictures, Fields
<1>2. \A f \in Fields :
        d[f] \in CASE f = "name" -> Texts [] f = "phone" -> Texts
                   [] f = "image" -> Pictures [] f = "cover" -> Pictures
  BY DEF User, Fields
<1>. QED BY <1>1, <1>2 DEF Merged, User, Fields

\* If some update sets f, one does so last.
LEMMA LastSets ==
  ASSUME NEW q \in Seq(Update), NEW f, NEW i \in DOMAIN q, Sets(q[i], f)
  PROVE  LET l == LastSetter(q, f) IN
         /\ l \in DOMAIN q /\ Sets(q[l], f)
         /\ \A j \in DOMAIN q : j > l => ~Sets(q[j], f)
<1> DEFINE S == {k \in DOMAIN q : Sets(q[k], f)}
<1>1. Len(q) \in Nat /\ DOMAIN q = 1..Len(q)
  BY LenProperties
<1>2. S \in SUBSET (0..Len(q)) /\ S # {}
  BY <1>1
<1>3. PICK m \in S : \A k \in S : k <= m
  BY <1>1, <1>2, GreatestExists
<1>4. m \in DOMAIN q /\ Sets(q[m], f) /\ \A j \in DOMAIN q : j > m => ~Sets(q[j], f)
  BY <1>1, <1>3
<1>. QED BY <1>4 DEF LastSetter

LEMMA ViewType ==
  ASSUME TypeOK
  PROVE  View \in User
<1>1. writes \in Seq(Update) /\ doc \in User
  BY DEF TypeOK
<1> DEFINE Set(f) == CASE f = "name" -> Texts [] f = "phone" -> Texts
                       [] f = "image" -> Pictures [] f = "cover" -> Pictures
<1>2. \A f \in Fields : doc[f] \in Set(f)
  BY <1>1 DEF User, Fields
<1>3. \A w \in Update : \A f \in Fields : Sets(w, f) => w.set[f] \in Set(f)
  BY DEF Update, Sets, Pictures, Fields
<1>4. ASSUME NEW f \in Fields PROVE View[f] \in Set(f)
  <2>1. CASE \A k \in DOMAIN writes : ~Sets(writes[k], f)
    BY <1>2, <2>1 DEF View
  <2>2. CASE \E k \in DOMAIN writes : Sets(writes[k], f)
    <3>1. LastSetter(writes, f) \in DOMAIN writes /\ Sets(writes[LastSetter(writes, f)], f)
      BY <1>1, <2>2, LastSets
    <3>2. writes[LastSetter(writes, f)] \in Update
      BY <1>1, <3>1, LenProperties
    <3>3. View[f] = writes[LastSetter(writes, f)].set[f]
      BY <2>2 DEF View
    <3>. QED BY <1>3, <3>1, <3>2, <3>3
  <2>. QED BY <2>1, <2>2
<1>5. DOMAIN View = Fields /\ View = [f \in Fields |-> View[f]]
  BY DEF View
<1>. QED BY <1>4, <1>5 DEF User, Fields

\* The backend's answer changes nothing of what the client shows.
LEMMA ViewKept ==
  ASSUME TypeOK, writes # <<>>, HeadStored
  PROVE  View' = View
<1>1. writes \in Seq(Update) /\ doc \in User
  BY DEF TypeOK
<1>2. /\ writes' \in Seq(Update)
      /\ DOMAIN writes = 1..Len(writes) /\ Len(writes) \in Nat \ {0}
      /\ DOMAIN writes' = 1..(Len(writes) - 1)
      /\ \A k \in DOMAIN writes' : writes'[k] = writes[k + 1]
      /\ doc' = Merged(doc, writes[1])
  BY Behind DEF HeadStored
<1>3. ASSUME NEW f \in Fields PROVE View'[f] = View[f]
  <2>1. CASE \A k \in DOMAIN writes' : ~Sets(writes'[k], f)
    <3>1. View'[f] = Merged(doc, writes[1])[f]
      BY <1>2, <2>1 DEF View
    <3>2. \A k \in DOMAIN writes : k # 1 => ~Sets(writes[k], f)
      <4>1. \A k \in DOMAIN writes : k # 1 => k - 1 \in DOMAIN writes' /\ writes'[k - 1] = writes[k]
        BY <1>2
      <4>. QED BY <2>1, <4>1
    <3>3. CASE Sets(writes[1], f)
      <4>1. LastSetter(writes, f) \in DOMAIN writes /\ Sets(writes[LastSetter(writes, f)], f)
        BY <1>1, <1>2, <3>3, LastSets
      <4>2. LastSetter(writes, f) = 1
        BY <3>2, <4>1
      <4>3. View[f] = writes[1].set[f]
        BY <1>2, <3>3, <4>2 DEF View
      <4>. QED BY <3>1, <3>3, <4>3 DEF Merged
    <3>4. CASE ~Sets(writes[1], f)
      BY <3>1, <3>2, <3>4 DEF Merged, View
    <3>. QED BY <3>3, <3>4
  <2>2. CASE \E k \in DOMAIN writes' : Sets(writes'[k], f)
    <3> DEFINE l == LastSetter(writes', f)
               m == LastSetter(writes, f)
    <3>1. l \in DOMAIN writes' /\ Sets(writes'[l], f) /\ \A j \in DOMAIN writes' : j > l => ~Sets(writes'[j], f)
      BY <1>2, <2>2, LastSets
    <3>2. l + 1 \in DOMAIN writes /\ Sets(writes[l + 1], f)
      BY <1>2, <3>1
    <3>3. m \in DOMAIN writes /\ Sets(writes[m], f) /\ \A j \in DOMAIN writes : j > m => ~Sets(writes[j], f)
      BY <1>1, <3>2, LastSets
    <3>4. View'[f] = writes'[l].set[f]
      BY <2>2 DEF View
    <3>5. View[f] = writes[m].set[f]
      BY <3>2 DEF View
    <3> HIDE DEF l, m
    <3>6. ~(l + 1 > m)
      BY <3>2, <3>3
    <3>7. ~(m > l + 1)
      <4>1. SUFFICES ASSUME m > l + 1 PROVE FALSE
        OBVIOUS
      <4>2. m - 1 \in DOMAIN writes' /\ m - 1 > l /\ writes'[m - 1] = writes[m]
        BY <1>2, <3>1, <3>3, <4>1
      <4>. QED BY <3>1, <3>3, <4>2
    <3>8. m = l + 1
      BY <1>2, <3>1, <3>3, <3>6, <3>7
    <3>. QED BY <1>2, <3>1, <3>4, <3>5, <3>8
  <2>. QED BY <2>1, <2>2
<1>4. View = [f \in Fields |-> View[f]] /\ View' = [f \in Fields |-> View'[f]]
  BY DEF View
<1>. QED BY <1>3, <1>4

-----------------------------------------------------------------------------
(* The stages of updateProfile.                                            *)

LEMMA CallAtType ==
  ASSUME NEW s \in Steps \ {"person", "cover"}
  PROVE  CallAt(s) \in Call /\ CallAt(s).at = s /\ CallAt(s).file = Nil
BY DEF CallAt, Call

\* One call goes to a step without a picture.
LEMMA CallGoes ==
  ASSUME TypeOK, NEW c \in Calls, NEW s \in Steps \ {"person", "cover"},
         call' = [call EXCEPT ![c] = CallAt(s)]
  PROVE  /\ call' \in [Calls -> Call]
         /\ call'[c].at = s
         /\ \A d \in Calls : d # c => call'[d] = call[d]
         /\ \A d \in Calls : call'[d].file # Nil <=> call'[d].at \in {"person", "cover"}
BY CallAtType DEF TypeOK

\* One call begins to upload a picture.
LEMMA CallUploads ==
  ASSUME TypeOK, NEW c \in Calls, NEW r \in Call, NEW s \in {"person", "cover"},
         NEW f \in Files, call' = [call EXCEPT ![c] = [r EXCEPT !.at = s, !.file = f]]
  PROVE  /\ call' \in [Calls -> Call]
         /\ call'[c].at = s
         /\ \A d \in Calls : d # c => call'[d] = call[d]
         /\ \A d \in Calls : call'[d].file # Nil <=> call'[d].at \in {"person", "cover"}
<1>1. [r EXCEPT !.at = s, !.file = f] \in Call
  BY DEF Call, Steps
<1>2. /\ [r EXCEPT !.at = s, !.file = f].at = s
      /\ [r EXCEPT !.at = s, !.file = f].file = f
  BY DEF Call
<1>3. f # Nil
  BY ValuesAssumption
<1>. QED BY <1>1, <1>2, <1>3 DEF TypeOK

\* What a stage leaves: the text of the update at the end of the queue, or its
\* cover under way.
Staged(c, q) ==
  /\ writes' \in Seq(Update)
  /\ call' \in [Calls -> Call]
  /\ \A d \in Calls : d # c => call'[d] = call[d]
  /\ \A d \in Calls : call'[d].file # Nil <=> call'[d].at \in {"person", "cover"}
  /\ \/ /\ call'[c].at = "text"
        /\ \E w \in Update : w.by = c /\ Sets(w, "name") /\ writes' = Append(q, w)
     \/ call'[c].at = "cover" /\ writes' = q

LEMMA TextIsStaged ==
  ASSUME TypeOK, getUser \in User, NEW c \in Updates, NEW r \in Call,
         NEW q \in Seq(Update), TextStage(c, r, q)
  PROVE  Staged(c, q)
<1>1. getUser.name \in Texts
  BY DEF User
<1>2. OrName(r.name) \in Texts /\ OrName(r.phone) \in Texts
  BY <1>1, ValuesAssumption DEF OrName, Call
<1>3. TextUpdate(c, r) \in Update /\ TextUpdate(c, r).by = c /\ Sets(TextUpdate(c, r), "name")
  BY <1>2 DEF TextUpdate, Update, Sets
<1>4. writes' = Append(q, TextUpdate(c, r)) /\ call' = [call EXCEPT ![c] = CallAt("text")]
  BY DEF TextStage
<1>5. writes' \in Seq(Update)
  BY <1>3, <1>4, AppendProperties
<1>6. c \in Calls /\ "text" \in Steps \ {"person", "cover"}
  BY DEF Calls, Steps
<1>7. /\ call' \in [Calls -> Call] /\ call'[c].at = "text"
      /\ \A d \in Calls : d # c => call'[d] = call[d]
      /\ \A d \in Calls : call'[d].file # Nil <=> call'[d].at \in {"person", "cover"}
  BY <1>4, <1>6, CallGoes
<1>. QED BY <1>3, <1>4, <1>5, <1>7 DEF Staged

LEMMA CoverIsStaged ==
  ASSUME TypeOK, getUser \in User, NEW c \in Updates, NEW r \in Call,
         NEW q \in Seq(Update), CoverStage(c, r, q)
  PROVE  Staged(c, q)
<1>1. CASE profileImage = Nil
  BY <1>1, TextIsStaged DEF CoverStage
<1>2. CASE profileImage # Nil
  <2>1. profileImage \in Files /\ c \in Calls
    BY <1>2 DEF TypeOK, Calls
  <2>2. writes' = q /\ call' = [call EXCEPT ![c] = [r EXCEPT !.at = "cover", !.file = profileImage]]
    BY <1>2 DEF CoverStage
  <2>3. /\ call' \in [Calls -> Call] /\ call'[c].at = "cover"
        /\ \A d \in Calls : d # c => call'[d] = call[d]
        /\ \A d \in Calls : call'[d].file # Nil <=> call'[d].at \in {"person", "cover"}
    BY <2>1, <2>2, CallUploads
  <2>. QED BY <2>2, <2>3 DEF Staged
<1>. QED BY <1>1, <1>2

\* A picture that is uploaded is put at the end of the queue.
LEMMA PictureQueued ==
  ASSUME TypeOK, NEW c \in Updates, NEW field \in {"image", "cover"},
         call[c].at \in {"person", "cover"}
  PROVE  /\ PictureUpdate(c, field) \in Update
         /\ PictureUpdate(c, field).by = c
         /\ ~Sets(PictureUpdate(c, field), "name")
         /\ Append(writes, PictureUpdate(c, field)) \in Seq(Update)
<1>1. call[c].file \in Files
  BY DEF TypeOK, Calls, Call
<1>2. [f \in {field} |-> call[c].file] \in [image : Files] \cup [cover : Files]
  BY <1>1
<1>3. PictureUpdate(c, field) \in Update /\ PictureUpdate(c, field).by = c
  BY <1>2 DEF PictureUpdate, Update
<1>4. ~Sets(PictureUpdate(c, field), "name")
  BY DEF Sets, PictureUpdate
<1>5. writes \in Seq(Update)
  BY DEF TypeOK
<1>. QED BY <1>3, <1>4, <1>5, AppendProperties

-----------------------------------------------------------------------------
(* The writes of one update in a queue.                                    *)

NoneOf(q, c)       == \A k \in DOMAIN q : q[k].by # c
PicturesOnly(q, c) == \A k \in DOMAIN q : q[k].by = c => ~Sets(q[k], "name")
TextLast(q, c)     == \A k \in DOMAIN q : q[k].by = c /\ Sets(q[k], "name") =>
                        \A j \in DOMAIN q : j > k => q[j].by # c

LEMMA Appended ==
  ASSUME NEW q \in Seq(Update), NEW w \in Update
  PROVE  /\ DOMAIN Append(q, w) = 1..(Len(q) + 1) /\ DOMAIN q = 1..Len(q) /\ Len(q) \in Nat
         /\ \A k \in DOMAIN Append(q, w) :
              \/ k \in DOMAIN q /\ Append(q, w)[k] = q[k]
              \/ k = Len(q) + 1 /\ Append(q, w)[k] = w
<1>1. /\ Append(q, w) \in Seq(Update) /\ Len(Append(q, w)) = Len(q) + 1
      /\ \A k \in 1..Len(q) : Append(q, w)[k] = q[k]
      /\ Append(q, w)[Len(q) + 1] = w
  BY AppendProperties
<1>2. DOMAIN Append(q, w) = 1..(Len(q) + 1) /\ DOMAIN q = 1..Len(q) /\ Len(q) \in Nat
  BY <1>1, LenProperties
<1>. QED BY <1>1, <1>2

\* A write of another update changes nothing of this one's.
LEMMA OtherAppended ==
  ASSUME NEW q \in Seq(Update), NEW w \in Update, NEW c, w.by # c
  PROVE  /\ NoneOf(q, c) => NoneOf(Append(q, w), c)
         /\ PicturesOnly(q, c) => PicturesOnly(Append(q, w), c)
         /\ TextLast(q, c) => TextLast(Append(q, w), c)
BY Appended DEF NoneOf, PicturesOnly, TextLast

LEMMA PictureAppended ==
  ASSUME NEW q \in Seq(Update), NEW w \in Update, NEW c,
         ~Sets(w, "name"), PicturesOnly(q, c)
  PROVE  PicturesOnly(Append(q, w), c)
BY Appended DEF PicturesOnly

LEMMA TextAppended ==
  ASSUME NEW q \in Seq(Update), NEW w \in Update, NEW c, PicturesOnly(q, c)
  PROVE  TextLast(Append(q, w), c)
BY Appended DEF PicturesOnly, TextLast

\* The head's answer takes a write away ...
LEMMA Answered ==
  ASSUME NEW q \in Seq(Update), q # <<>>, NEW c
  PROVE  /\ NoneOf(q, c) => NoneOf(Tail(q), c)
         /\ PicturesOnly(q, c) => PicturesOnly(Tail(q), c)
         /\ TextLast(q, c) => TextLast(Tail(q), c)
         /\ TextLast(q, c) /\ Head(q).by = c /\ Sets(Head(q), "name") => NoneOf(Tail(q), c)
<1>1. /\ DOMAIN q = 1..Len(q) /\ Len(q) \in Nat \ {0} /\ Head(q) = q[1]
      /\ DOMAIN Tail(q) = 1..(Len(q) - 1)
      /\ \A k \in DOMAIN Tail(q) : Tail(q)[k] = q[k + 1]
  BY HeadTailProperties, LenProperties
<1>2. \A k \in DOMAIN Tail(q) : k + 1 \in DOMAIN q /\ k + 1 > 1
  BY <1>1
<1>3. \A j, k \in DOMAIN Tail(q) : j > k => j + 1 > k + 1
  BY <1>1
<1>4. 1 \in DOMAIN q
  BY <1>1
<1>. QED BY <1>1, <1>2, <1>3, <1>4 DEF NoneOf, PicturesOnly, TextLast

-----------------------------------------------------------------------------
(* The invariant.                                                          *)

\* Where an update's writes stand: nowhere before it has uploaded a picture and
\* after its text is settled; in between, pictures only, with the text behind.
WritesOf(c, at, q) ==
  /\ at \in {"idle", "person", "read"} => NoneOf(q, c)
  /\ at = "cover" => PicturesOnly(q, c)
  /\ at = "text" => TextLast(q, c)

WritesOfUpdates == \A c \in Updates : WritesOf(c, call[c].at, writes)

IInv == TypeInv /\ WritesOfUpdates /\ UserIsCurrent

LEMMA InitInv == Init => IInv
<1> SUFFICES ASSUME Init PROVE IInv
  OBVIOUS
<1>1. Started \in [Calls -> Call] /\ \A c \in Updates : Started[c].at = "idle"
  BY CallAtType, SlotsAssumption DEF Started, Calls, Steps
<1>2. \A c \in Calls : Started[c].file = Nil /\ Started[c].at \in {"read", "idle"}
  BY DEF Started, CallAt
<1>3. TypeOK
  <2>1. doc \in User
    BY DEF Init
  <2>2. writes \in Seq(Update)
    BY EmptySeq DEF Init
  <2>3. \A c \in Calls : Started[c].file # Nil <=> Started[c].at \in {"person", "cover"}
    BY <1>2
  <2>. QED BY <1>1, <2>1, <2>2, <2>3 DEF Init, TypeOK
<1>4. DOMAIN writes = {} /\ getUser = Nil
  BY DEF Init
<1>. QED BY <1>1, <1>3, <1>4 DEF Init, IInv, TypeInv, FormSeen, WritesOfUpdates, WritesOf, NoneOf, UserIsCurrent, Calls

\* A stage keeps it: what it puts into the queue is of its own update, and the
\* text comes last.
LEMMA StagedKeeps ==
  ASSUME IInv, NEW c \in Updates, getUser \in User, NEW q \in Seq(Update),
         PicturesOnly(q, c),
         \A d \in Updates : d # c => WritesOf(d, call[d].at, q),
         Staged(c, q), UNCHANGED <<doc, getUser, picked, stale>>
  PROVE  IInv'
<1>1. TypeOK /\ FormSeen /\ c \in Calls
  BY DEF IInv, TypeInv, Calls
<1>2. TypeInv'
  BY <1>1 DEF Staged, TypeInv, TypeOK, FormSeen, picked
<1>3. \A d \in Updates : d # c => call'[d] = call[d]
  BY DEF Staged, Calls
<1>4. WritesOfUpdates'
  <2>1. CASE call'[c].at = "cover" /\ writes' = q
    BY <1>3, <2>1 DEF WritesOfUpdates, WritesOf
  <2>2. CASE call'[c].at = "text" /\ \E w \in Update : w.by = c /\ writes' = Append(q, w)
    <3>1. PICK w \in Update : w.by = c /\ writes' = Append(q, w)
      BY <2>2
    <3>2. WritesOf(c, call'[c].at, writes')
      BY <2>2, <3>1, TextAppended DEF WritesOf
    <3>3. ASSUME NEW d \in Updates, d # c PROVE WritesOf(d, call'[d].at, writes')
      BY <1>3, <3>1, <3>3, OtherAppended DEF WritesOf
    <3>. QED BY <3>2, <3>3 DEF WritesOfUpdates
  <2>. QED BY <2>1, <2>2 DEF Staged
<1>5. UserIsCurrent'
  BY <1>1 DEF UserIsCurrent, Staged
<1>. QED BY <1>2, <1>4, <1>5 DEF IInv

\* A stage without a picture behind it ...
LEMMA PlainKeeps ==
  ASSUME IInv, NEW c \in Updates, call[c].at \in {"idle", "person", "cover"},
         getUser \in User, Staged(c, writes), UNCHANGED <<doc, getUser, picked, stale>>
  PROVE  IInv'
<1>1. writes \in Seq(Update) /\ PicturesOnly(writes, c)
  BY DEF IInv, TypeInv, TypeOK, WritesOfUpdates, WritesOf, NoneOf, PicturesOnly
<1>2. \A d \in Updates : WritesOf(d, call[d].at, writes)
  BY DEF IInv, WritesOfUpdates
<1>. QED BY <1>1, <1>2, StagedKeeps

\* ... and one that follows an upload.
LEMMA UploadedKeeps ==
  ASSUME IInv, NEW c \in Updates, call[c].at \in {"person", "cover"},
         getUser \in User, NEW field \in {"image", "cover"},
         Staged(c, Append(writes, PictureUpdate(c, field))),
         UNCHANGED <<doc, getUser, picked, stale>>
  PROVE  IInv'
<1> DEFINE w == PictureUpdate(c, field)
<1>1. writes \in Seq(Update) /\ PicturesOnly(writes, c)
  BY DEF IInv, TypeInv, TypeOK, WritesOfUpdates, WritesOf, NoneOf, PicturesOnly
<1>2. w \in Update /\ w.by = c /\ ~Sets(w, "name") /\ Append(writes, w) \in Seq(Update)
  BY PictureQueued DEF IInv, TypeInv
<1> HIDE DEF w
<1>3. PicturesOnly(Append(writes, w), c)
  BY <1>1, <1>2, PictureAppended
<1>4. ASSUME NEW d \in Updates, d # c PROVE WritesOf(d, call[d].at, Append(writes, w))
  <2>1. w.by # d
    BY <1>2, <1>4
  <2>. QED BY <1>1, <1>2, <2>1, OtherAppended DEF IInv, WritesOfUpdates, WritesOf
<1>5. Staged(c, Append(writes, w))
  BY DEF w
<1>. QED BY <1>2, <1>3, <1>4, <1>5, StagedKeeps

-----------------------------------------------------------------------------
(* The other steps.                                                        *)

\* A call ends, or goes on to a step at which none of its writes is queued.
LEMMA CallSettles ==
  ASSUME IInv, NEW c \in Calls, NEW s \in {"idle", "read"},
         call' = [call EXCEPT ![c] = CallAt(s)],
         s # "idle" => getUser \in User,
         writes' \in Seq(Update), doc' \in User, getUser' = getUser, UNCHANGED picked,
         stale' \in BOOLEAN,
         c \in Updates => NoneOf(writes', c),
         \A d \in Updates : WritesOf(d, call[d].at, writes')
  PROVE  TypeInv' /\ WritesOfUpdates'
<1>1. TypeOK /\ FormSeen /\ s \in Steps \ {"person", "cover"}
  BY DEF IInv, TypeInv, Steps
<1>2. /\ call' \in [Calls -> Call]
      /\ call'[c].at = s
      /\ \A d \in Calls : d # c => call'[d] = call[d]
      /\ \A d \in Calls : call'[d].file # Nil <=> call'[d].at \in {"person", "cover"}
  BY <1>1, CallGoes
<1>3. TypeOK'
  BY <1>1, <1>2 DEF TypeOK, picked
<1>4. FormSeen'
  BY <1>1, <1>2 DEF FormSeen, Calls
<1>5. WritesOfUpdates'
  BY <1>2 DEF WritesOfUpdates, WritesOf, Calls
<1>. QED BY <1>3, <1>4, <1>5 DEF TypeInv

\* An answer nobody awaits.
LEMMA HeadGoes ==
  ASSUME IInv, writes # <<>>, writes' = Tail(writes)
  PROVE  /\ writes' \in Seq(Update)
         /\ \A d \in Updates : WritesOf(d, call[d].at, writes')
<1>1. writes \in Seq(Update)
  BY DEF IInv, TypeInv, TypeOK
<1>. QED BY <1>1, Answered, HeadTailProperties DEF IInv, WritesOfUpdates, WritesOf

\* The text of c is answered: nothing else of c is queued.
LEMMA TextGoes ==
  ASSUME IInv, NEW c \in Updates, call[c].at = "text", Awaited(c), writes' = Tail(writes)
  PROVE  /\ writes # <<>> /\ NoneOf(writes', c)
         /\ getUser \in User
<1>1. writes \in Seq(Update) /\ getUser \in User
  BY DEF IInv, TypeInv, TypeOK, FormSeen
<1>2. TextLast(writes, c) /\ Head(writes).by = c /\ Sets(Head(writes), "name") /\ writes # <<>>
  BY DEF IInv, WritesOfUpdates, WritesOf, Awaited
<1>. QED BY <1>1, <1>2, Answered

LEMMA StoredDoc ==
  ASSUME TypeOK, writes # <<>>, HeadStored
  PROVE  doc' \in User /\ writes' = Tail(writes) /\ View' = View
<1>1. Head(writes) \in Update /\ doc \in User
  BY Behind DEF TypeOK
<1>. QED BY <1>1, MergedType, ViewKept DEF HeadStored

LEMMA RestartKeeps == IInv /\ Restart => IInv'
<1> SUFFICES ASSUME IInv, Restart PROVE IInv'
  OBVIOUS
<1>1. writes \in Seq(Update) /\ doc \in User
  BY DEF IInv, TypeInv, TypeOK
<1>2. DOMAIN writes = 1..Len(writes) /\ Len(writes) \in Nat /\ \A k \in DOMAIN writes : writes[k] \in Update
  BY <1>1, LenProperties
<1>3. \A w \in Update : [w EXCEPT !.by = Nil] \in Update /\ [w EXCEPT !.by = Nil].by = Nil
  BY DEF Update
<1>4. /\ DOMAIN writes' = DOMAIN writes /\ writes' \in [1..Len(writes) -> Update]
      /\ \A k \in DOMAIN writes' : writes'[k].by = Nil
  BY <1>2, <1>3 DEF Restart
<1>5. writes' \in Seq(Update)
  BY <1>2, <1>4, SeqDef
<1>6. call' = Started /\ Started \in [Calls -> Call] /\ \A c \in Updates : Started[c].at = "idle"
  BY CallAtType, SlotsAssumption DEF Restart, Started, Calls, Steps
<1>7. \A c \in Calls : Started[c].file = Nil /\ Started[c].at \in {"read", "idle"}
  BY DEF Started, CallAt
<1>8. TypeOK'
  BY <1>1, <1>5, <1>6, <1>7 DEF Restart, TypeOK
<1>9. \A c \in Updates : NoneOf(writes', c)
  BY <1>4, SlotsAssumption DEF NoneOf
<1>. QED BY <1>6, <1>8, <1>9 DEF Restart, IInv, TypeInv, FormSeen, WritesOfUpdates, WritesOf, UserIsCurrent

-----------------------------------------------------------------------------
\* Each action keeps the invariant.
LEMMA NextInv == IInv /\ [Next]_vars => IInv'
<1> SUFFICES ASSUME IInv, [Next]_vars PROVE IInv'
  OBVIOUS
<1>1. TypeOK /\ FormSeen /\ WritesOfUpdates /\ UserIsCurrent /\ writes \in Seq(Update) /\ doc \in User
  BY DEF IInv, TypeInv, TypeOK
<1>2. ASSUME UNCHANGED <<doc, writes>> PROVE View' = View
  BY <1>2 DEF View
<1>3. ASSUME NEW f \in Files, PickPerson(f) \/ PickCover(f) PROVE IInv'
  <2>1. UNCHANGED <<doc, writes, getUser, call, stale>>
    BY <1>3 DEF PickPerson, PickCover
  <2>2. personImage' \in Files \cup {Nil} /\ profileImage' \in Files \cup {Nil}
    BY <1>1, <1>3 DEF PickPerson, PickCover, TypeOK
  <2>3. TypeOK' /\ FormSeen' /\ WritesOfUpdates'
    BY <1>1, <2>1, <2>2 DEF TypeOK, FormSeen, WritesOfUpdates
  <2>. QED BY <1>1, <1>2, <2>1, <2>3 DEF IInv, TypeInv, UserIsCurrent
<1>4. ASSUME NEW c \in Updates, NEW name \in Texts \cup {Empty}, NEW phone \in Phones \cup {Empty},
             UpdateProfile(c, name, phone)
      PROVE  IInv'
  <2> DEFINE r == [at |-> "idle", name |-> name, phone |-> phone, file |-> Nil]
  <2>1. r \in Call /\ call[c].at = "idle" /\ getUser \in User
    BY <1>1, <1>4 DEF UpdateProfile, Call, Steps, FormBuilt, TypeOK
  <2>2. UNCHANGED <<doc, getUser, picked, stale>>
    BY <1>4 DEF UpdateProfile
  <2>3. CASE personImage = Nil
    <3>1. CoverStage(c, r, writes)
      BY <1>4, <2>3 DEF UpdateProfile
    <3>2. Staged(c, writes)
      BY <1>1, <2>1, <3>1, CoverIsStaged
    <3>. QED BY <2>1, <2>2, <3>2, PlainKeeps
  <2>4. CASE personImage # Nil
    <3>1. /\ call' = [call EXCEPT ![c] = [r EXCEPT !.at = "person", !.file = personImage]]
          /\ writes' = writes /\ personImage \in Files /\ c \in Calls
      BY <1>1, <1>4, <2>4 DEF UpdateProfile, TypeOK, Calls
    <3> HIDE DEF r
    <3>2. /\ call' \in [Calls -> Call] /\ call'[c].at = "person"
          /\ \A d \in Calls : d # c => call'[d] = call[d]
          /\ \A d \in Calls : call'[d].file # Nil <=> call'[d].at \in {"person", "cover"}
      BY <1>1, <2>1, <3>1, CallUploads
    <3>3. TypeOK'
      BY <1>1, <2>2, <3>1, <3>2 DEF TypeOK, picked
    <3>4. FormSeen'
      BY <1>1, <2>1, <2>2, <3>2 DEF FormSeen, Calls
    <3>5. WritesOfUpdates'
      BY <1>1, <2>1, <3>1, <3>2 DEF WritesOfUpdates, WritesOf, Calls
    <3>6. UserIsCurrent'
      BY <3>1, <3>2 DEF UserIsCurrent
    <3>. QED BY <3>3, <3>4, <3>5, <3>6 DEF IInv, TypeInv
  <2>. QED BY <2>3, <2>4
<1>5. ASSUME NEW c \in Updates, UploadAnswered(c) PROVE IInv'
  <2>1. call[c].at \in {"person", "cover"} /\ UNCHANGED <<doc, getUser, picked, stale>>
    BY <1>5 DEF UploadAnswered, PersonUploaded, PersonFails, CoverUploaded, CoverFails
  <2>2. getUser \in User /\ call[c] \in Call
    BY <1>1, <2>1 DEF FormSeen, TypeOK, Calls
  <2>3. CASE PersonUploaded(c)
    <3>1. Append(writes, PictureUpdate(c, "image")) \in Seq(Update)
      BY <1>1, <2>1, PictureQueued
    <3>2. Staged(c, Append(writes, PictureUpdate(c, "image")))
      BY <1>1, <2>2, <2>3, <3>1, CoverIsStaged DEF PersonUploaded
    <3>. QED BY <2>1, <2>2, <3>2, UploadedKeeps
  <2>4. CASE CoverUploaded(c)
    <3>1. Append(writes, PictureUpdate(c, "cover")) \in Seq(Update)
      BY <1>1, <2>1, PictureQueued
    <3>2. Staged(c, Append(writes, PictureUpdate(c, "cover")))
      BY <1>1, <2>2, <2>4, <3>1, TextIsStaged DEF CoverUploaded
    <3>. QED BY <2>1, <2>2, <3>2, UploadedKeeps
  <2>5. CASE PersonFails(c) \/ CoverFails(c)
    <3>1. Staged(c, writes)
      BY <1>1, <2>2, <2>5, TextIsStaged, CoverIsStaged DEF PersonFails, CoverFails
    <3>. QED BY <2>1, <2>2, <3>1, PlainKeeps
  <2>. QED BY <1>5, <2>3, <2>4, <2>5 DEF UploadAnswered
<1>6. ASSUME NEW c \in Calls, UserRead(c) PROVE IInv'
  <2>1. /\ call[c].at = "read" /\ getUser' = View /\ stale' = FALSE
        /\ call' = [call EXCEPT ![c] = CallAt("idle")]
        /\ UNCHANGED <<doc, writes, picked>>
    BY <1>6 DEF UserRead
  <2>2. View \in User /\ View' = View /\ "idle" \in Steps \ {"person", "cover"}
    BY <1>1, <1>2, <2>1, ViewType DEF Steps
  <2>3. /\ call' \in [Calls -> Call] /\ call'[c].at = "idle"
        /\ \A d \in Calls : d # c => call'[d] = call[d]
        /\ \A d \in Calls : call'[d].file # Nil <=> call'[d].at \in {"person", "cover"}
    BY <1>1, <2>1, <2>2, CallGoes
  <2>4. TypeOK'
    BY <1>1, <2>1, <2>2, <2>3 DEF TypeOK, picked
  <2>5. WritesOfUpdates'
    BY <1>1, <2>1, <2>3 DEF WritesOfUpdates, WritesOf, Calls
  <2>. QED BY <2>1, <2>2, <2>4, <2>5 DEF IInv, TypeInv, FormSeen, UserIsCurrent
<1>7. ASSUME NEW c \in Calls, UserReadFails(c) PROVE IInv'
  <2>1. /\ call[c].at = "read" /\ stale' = TRUE /\ getUser' = getUser
        /\ call' = [call EXCEPT ![c] = CallAt("idle")]
        /\ UNCHANGED <<doc, writes, picked>>
    BY <1>7 DEF UserReadFails
  <2>2. c \in Updates => NoneOf(writes, c)
    BY <1>1, <2>1 DEF WritesOfUpdates, WritesOf
  <2>3. TypeInv' /\ WritesOfUpdates'
    BY <1>1, <2>1, <2>2, CallSettles DEF WritesOfUpdates
  <2>. QED BY <2>1, <2>3 DEF IInv, UserIsCurrent
<1>8. ASSUME NEW c \in Updates, TextStored(c) PROVE IInv'
  <2>1. /\ call[c].at = "text" /\ Awaited(c) /\ HeadStored
        /\ call' = [call EXCEPT ![c] = CallAt("read")]
        /\ UNCHANGED <<getUser, picked, stale>> /\ c \in Calls
    BY <1>8 DEF TextStored, Calls
  <2>2. writes # <<>> /\ doc' \in User /\ writes' = Tail(writes)
    BY <1>1, <2>1, StoredDoc DEF Awaited
  <2>3. NoneOf(writes', c) /\ getUser \in User /\ writes' \in Seq(Update)
        /\ \A d \in Updates : WritesOf(d, call[d].at, writes')
    BY <2>1, <2>2, TextGoes, HeadGoes
  <2>4. stale' \in BOOLEAN
    BY <1>1, <2>1 DEF TypeOK
  <2>5. TypeInv' /\ WritesOfUpdates'
    BY <2>1, <2>2, <2>3, <2>4, CallSettles
  <2>6. call'[c].at = "read"
    BY <1>1, <2>1, CallGoes DEF Steps
  <2>. QED BY <2>1, <2>5, <2>6 DEF IInv, UserIsCurrent
<1>9. ASSUME NEW c \in Updates, TextRefused(c) PROVE IInv'
  <2>1. /\ call[c].at = "text" /\ Awaited(c) /\ doc' = doc /\ writes' = Tail(writes)
        /\ call' = [call EXCEPT ![c] = CallAt("idle")]
        /\ stale' = TRUE /\ UNCHANGED <<getUser, picked>> /\ c \in Calls /\ writes # <<>>
    BY <1>9 DEF TextRefused, HeadRefused, Awaited, Calls
  <2>2. NoneOf(writes', c) /\ writes' \in Seq(Update)
        /\ \A d \in Updates : WritesOf(d, call[d].at, writes')
    BY <2>1, TextGoes, HeadGoes
  <2>3. TypeInv' /\ WritesOfUpdates'
    BY <1>1, <2>1, <2>2, CallSettles
  <2>. QED BY <2>1, <2>3 DEF IInv, UserIsCurrent
<1>10. CASE UnawaitedStored
  <2>1. /\ writes # <<>> /\ HeadStored /\ UNCHANGED <<getUser, picked, call, stale>>
    BY <1>10 DEF UnawaitedStored, Unawaited
  <2>2. doc' \in User /\ writes' = Tail(writes) /\ View' = View
    BY <1>1, <2>1, StoredDoc
  <2>3. writes' \in Seq(Update) /\ \A d \in Updates : WritesOf(d, call[d].at, writes')
    BY <2>1, <2>2, HeadGoes
  <2>4. TypeOK' /\ FormSeen' /\ WritesOfUpdates'
    BY <1>1, <2>1, <2>2, <2>3 DEF TypeOK, FormSeen, WritesOfUpdates, picked
  <2>. QED BY <1>1, <2>1, <2>2, <2>4 DEF IInv, TypeInv, UserIsCurrent
<1>11. CASE UnawaitedRefused
  <2>1. /\ writes # <<>> /\ writes' = Tail(writes) /\ doc' = doc /\ stale' = TRUE
        /\ UNCHANGED <<getUser, picked, call>>
    BY <1>11 DEF UnawaitedRefused, Unawaited, HeadRefused
  <2>2. writes' \in Seq(Update) /\ \A d \in Updates : WritesOf(d, call[d].at, writes')
    BY <2>1, HeadGoes
  <2>3. TypeOK' /\ FormSeen' /\ WritesOfUpdates'
    BY <1>1, <2>1, <2>2 DEF TypeOK, FormSeen, WritesOfUpdates, picked
  <2>. QED BY <2>1, <2>3 DEF IInv, TypeInv, UserIsCurrent
<1>12. CASE UNCHANGED vars
  <2>1. UNCHANGED <<doc, writes, getUser, personImage, profileImage, call, stale>>
    BY <1>12 DEF vars, picked
  <2>2. TypeOK' /\ FormSeen' /\ WritesOfUpdates'
    BY <1>1, <2>1 DEF TypeOK, FormSeen, WritesOfUpdates
  <2>. QED BY <1>1, <1>2, <2>1, <2>2 DEF IInv, TypeInv, UserIsCurrent
<1>. QED BY <1>3, <1>4, <1>5, <1>6, <1>7, <1>8, <1>9, <1>10, <1>11, <1>12, RestartKeeps
        DEF Next, ReadAnswered, WriteAnswered

-----------------------------------------------------------------------------
(* Who waits, and for what.                                                *)

\* The text update of c is in the queue.
TextQueued(q, c) == \E k \in DOMAIN q : q[k].by = c /\ Sets(q[k], "name")

TextsAwaited == \A c \in Updates : call[c].at = "text" => TextQueued(writes, c)

WInv == IInv /\ TextsAwaited

\* A text that is queued stays queued when more is written, ...
LEMMA TextStays ==
  ASSUME NEW q \in Seq(Update), NEW w \in Update, NEW c
  PROVE  /\ TextQueued(q, c) => TextQueued(Append(q, w), c)
         /\ w.by = c /\ Sets(w, "name") => TextQueued(Append(q, w), c)
<1>1. /\ Append(q, w) \in Seq(Update) /\ Len(Append(q, w)) = Len(q) + 1
      /\ \A k \in 1..Len(q) : Append(q, w)[k] = q[k]
      /\ Append(q, w)[Len(q) + 1] = w
  BY AppendProperties
<1>2. DOMAIN Append(q, w) = 1..(Len(q) + 1) /\ DOMAIN q = 1..Len(q) /\ Len(q) \in Nat
  BY <1>1, LenProperties
<1>3. TextQueued(q, c) => TextQueued(Append(q, w), c)
  <2>1. SUFFICES ASSUME NEW k \in DOMAIN q, q[k].by = c, Sets(q[k], "name")
                 PROVE  TextQueued(Append(q, w), c)
    BY DEF TextQueued
  <2>2. k \in DOMAIN Append(q, w) /\ Append(q, w)[k] = q[k]
    BY <1>1, <1>2
  <2>. QED BY <2>1, <2>2 DEF TextQueued
<1>4. ASSUME w.by = c, Sets(w, "name") PROVE TextQueued(Append(q, w), c)
  <2>1. Len(q) + 1 \in DOMAIN Append(q, w)
    BY <1>2
  <2>. QED BY <1>1, <1>4, <2>1 DEF TextQueued
<1>. QED BY <1>3, <1>4

\* ... and when the head is answered, unless it is the head.
LEMMA TextBehind ==
  ASSUME NEW q \in Seq(Update), q # <<>>, NEW c, TextQueued(q, c),
         ~(Head(q).by = c /\ Sets(Head(q), "name"))
  PROVE  TextQueued(Tail(q), c)
<1>1. /\ DOMAIN q = 1..Len(q) /\ Len(q) \in Nat \ {0} /\ Head(q) = q[1]
      /\ DOMAIN Tail(q) = 1..(Len(q) - 1)
      /\ \A k \in DOMAIN Tail(q) : Tail(q)[k] = q[k + 1]
  BY HeadTailProperties, LenProperties
<1>2. PICK k \in DOMAIN q : q[k].by = c /\ Sets(q[k], "name")
  BY DEF TextQueued
<1>3. k # 1
  BY <1>1, <1>2
<1>4. k - 1 \in DOMAIN Tail(q) /\ Tail(q)[k - 1] = q[k]
  BY <1>1, <1>2, <1>3
<1>. QED BY <1>2, <1>4 DEF TextQueued

\* A stage of c queues the text that c then waits for.
LEMMA StagedWaits ==
  ASSUME WInv, NEW c \in Updates, NEW q \in Seq(Update), Staged(c, q),
         \A d \in Updates : d # c /\ call[d].at = "text" => TextQueued(q, d)
  PROVE  TextsAwaited'
<1>1. \A d \in Updates : d # c => call'[d] = call[d]
  BY DEF Staged, Calls
<1>2. CASE call'[c].at = "cover" /\ writes' = q
  BY <1>1, <1>2 DEF TextsAwaited
<1>3. CASE call'[c].at = "text" /\ \E w \in Update : w.by = c /\ Sets(w, "name") /\ writes' = Append(q, w)
  <2>1. PICK w \in Update : w.by = c /\ Sets(w, "name") /\ writes' = Append(q, w)
    BY <1>3
  <2>2. TextQueued(writes', c)
    BY <2>1, TextStays
  <2>3. ASSUME NEW d \in Updates, d # c, call'[d].at = "text" PROVE TextQueued(writes', d)
    BY <1>1, <2>1, <2>3, TextStays
  <2>. QED BY <2>2, <2>3 DEF TextsAwaited
<1>. QED BY <1>2, <1>3 DEF Staged

\* Nobody comes to wait without a stage.
LEMMA OthersWait ==
  ASSUME WInv, UNCHANGED writes, \A d \in Updates : call'[d].at = "text" => call[d].at = "text"
  PROVE  TextsAwaited'
BY DEF WInv, TextsAwaited

\* Each action keeps the text of who waits for one.
LEMMA WaitStep ==
  ASSUME WInv, [Next]_vars
  PROVE  TextsAwaited'
<1>1. TypeOK /\ FormSeen /\ TextsAwaited /\ writes \in Seq(Update)
  BY DEF WInv, IInv, TypeInv, TypeOK
<1>2. ASSUME NEW f \in Files, PickPerson(f) \/ PickCover(f) PROVE TextsAwaited'
  BY <1>2, OthersWait DEF PickPerson, PickCover
<1>3. ASSUME NEW c \in Updates, NEW name \in Texts \cup {Empty}, NEW phone \in Phones \cup {Empty},
             UpdateProfile(c, name, phone)
      PROVE  TextsAwaited'
  <2> DEFINE r == [at |-> "idle", name |-> name, phone |-> phone, file |-> Nil]
  <2>1. r \in Call /\ call[c].at = "idle" /\ getUser \in User /\ c \in Calls
    BY <1>1, <1>3 DEF UpdateProfile, Call, Steps, FormBuilt, TypeOK, Calls
  <2>2. CASE personImage = Nil
    <3>1. CoverStage(c, r, writes)
      BY <1>3, <2>2 DEF UpdateProfile
    <3>2. Staged(c, writes)
      BY <1>1, <2>1, <3>1, CoverIsStaged
    <3>. QED BY <1>1, <3>2, StagedWaits DEF TextsAwaited
  <2>3. CASE personImage # Nil
    <3>1. /\ call' = [call EXCEPT ![c] = [r EXCEPT !.at = "person", !.file = personImage]]
          /\ writes' = writes /\ personImage \in Files
      BY <1>1, <1>3, <2>3 DEF UpdateProfile, TypeOK
    <3> HIDE DEF r
    <3>2. call'[c].at = "person" /\ \A d \in Calls : d # c => call'[d] = call[d]
      BY <1>1, <2>1, <3>1, CallUploads
    <3>. QED BY <3>1, <3>2, OthersWait DEF Calls
  <2>. QED BY <2>2, <2>3
<1>4. ASSUME NEW c \in Updates, UploadAnswered(c) PROVE TextsAwaited'
  <2>1. call[c].at \in {"person", "cover"}
    BY <1>4 DEF UploadAnswered, PersonUploaded, PersonFails, CoverUploaded, CoverFails
  <2>2. getUser \in User /\ call[c] \in Call
    BY <1>1, <2>1 DEF FormSeen, TypeOK, Calls
  <2>3. ASSUME NEW field \in {"image", "cover"}, Staged(c, Append(writes, PictureUpdate(c, field)))
        PROVE  TextsAwaited'
    <3> DEFINE w == PictureUpdate(c, field)
    <3>1. w \in Update /\ Append(writes, w) \in Seq(Update)
      BY <1>1, <2>1, PictureQueued
    <3> HIDE DEF w
    <3>2. \A d \in Updates : call[d].at = "text" => TextQueued(Append(writes, w), d)
      BY <1>1, <3>1, TextStays DEF TextsAwaited
    <3>3. Staged(c, Append(writes, w))
      BY <2>3 DEF w
    <3>. QED BY <3>1, <3>2, <3>3, StagedWaits
  <2>4. CASE PersonUploaded(c)
    <3>1. Append(writes, PictureUpdate(c, "image")) \in Seq(Update)
      BY <1>1, <2>1, PictureQueued
    <3>2. Staged(c, Append(writes, PictureUpdate(c, "image")))
      BY <1>1, <2>2, <2>4, <3>1, CoverIsStaged DEF PersonUploaded
    <3>. QED BY <2>3, <3>2
  <2>5. CASE CoverUploaded(c)
    <3>1. Append(writes, PictureUpdate(c, "cover")) \in Seq(Update)
      BY <1>1, <2>1, PictureQueued
    <3>2. Staged(c, Append(writes, PictureUpdate(c, "cover")))
      BY <1>1, <2>2, <2>5, <3>1, TextIsStaged DEF CoverUploaded
    <3>. QED BY <2>3, <3>2
  <2>6. CASE PersonFails(c) \/ CoverFails(c)
    <3>1. Staged(c, writes)
      BY <1>1, <2>2, <2>6, TextIsStaged, CoverIsStaged DEF PersonFails, CoverFails
    <3>. QED BY <1>1, <3>1, StagedWaits DEF TextsAwaited
  <2>. QED BY <1>4, <2>4, <2>5, <2>6 DEF UploadAnswered
<1>5. ASSUME NEW c \in Calls, ReadAnswered(c) PROVE TextsAwaited'
  <2>1. writes' = writes /\ call' = [call EXCEPT ![c] = CallAt("idle")]
    BY <1>5 DEF ReadAnswered, UserRead, UserReadFails
  <2>2. call'[c].at = "idle" /\ \A d \in Calls : d # c => call'[d] = call[d]
    BY <1>1, <2>1, CallGoes DEF Steps
  <2>. QED BY <2>1, <2>2, OthersWait DEF Calls
<1>6. ASSUME NEW c \in Updates, TextStored(c) \/ TextRefused(c) PROVE TextsAwaited'
  <2>1. PICK s \in {"idle", "read"} : call' = [call EXCEPT ![c] = CallAt(s)]
    BY <1>6 DEF TextStored, TextRefused
  <2>2. /\ Awaited(c) /\ writes' = Tail(writes) /\ c \in Calls
        /\ s \in Steps \ {"person", "cover"}
    BY <1>6 DEF TextStored, TextRefused, HeadStored, HeadRefused, Calls, Steps
  <2>3. call'[c].at # "text" /\ \A d \in Calls : d # c => call'[d] = call[d]
    BY <1>1, <2>1, <2>2, CallGoes
  <2>4. writes # <<>> /\ Head(writes).by = c
    BY <2>2 DEF Awaited
  <2>5. ASSUME NEW d \in Updates, call'[d].at = "text" PROVE TextQueued(writes', d)
    BY <1>1, <2>2, <2>3, <2>4, <2>5, TextBehind DEF TextsAwaited, Calls
  <2>. QED BY <2>5 DEF TextsAwaited
<1>7. CASE UnawaitedStored \/ UnawaitedRefused
  <2>1. /\ Unawaited /\ writes # <<>> /\ writes' = Tail(writes) /\ call' = call
    BY <1>7 DEF UnawaitedStored, UnawaitedRefused, Unawaited, HeadStored, HeadRefused
  <2>2. ASSUME NEW d \in Updates, call[d].at = "text" PROVE TextQueued(Tail(writes), d)
    BY <1>1, <2>1, <2>2, TextBehind DEF TextsAwaited, Unawaited, Awaited
  <2>. QED BY <2>1, <2>2 DEF TextsAwaited
<1>8. CASE Restart
  <2>1. \A d \in Updates : call'[d].at = "idle"
    BY <1>8, SlotsAssumption DEF Restart, Started, CallAt, Calls
  <2>. QED BY <2>1 DEF TextsAwaited
<1>9. CASE UNCHANGED vars
  BY <1>9, OthersWait DEF vars
<1>. QED BY <1>2, <1>3, <1>4, <1>5, <1>6, <1>7, <1>8, <1>9 DEF Next, WriteAnswered

\* A queued text and its place at the end of its update's writes make it one.
LEMMA OneText ==
  ASSUME WInv
  PROVE  NobodyWaitsInVain
<1>1. writes \in Seq(Update) /\ DOMAIN writes = 1..Len(writes) /\ Len(writes) \in Nat
  BY LenProperties DEF WInv, IInv, TypeInv, TypeOK
<1>2. ASSUME NEW c \in Updates, call[c].at = "text"
      PROVE  \E k \in DOMAIN writes : TextsOf(c) = {k}
  <2>1. TextLast(writes, c) /\ TextQueued(writes, c)
    BY <1>2 DEF WInv, IInv, WritesOfUpdates, WritesOf, TextsAwaited
  <2>2. PICK k \in DOMAIN writes : writes[k].by = c /\ Sets(writes[k], "name")
    BY <2>1 DEF TextQueued
  <2>3. ASSUME NEW j \in TextsOf(c) PROVE j = k
    <3>1. j \in DOMAIN writes /\ writes[j].by = c /\ Sets(writes[j], "name")
      BY <2>3 DEF TextsOf
    <3>2. ~(j > k) /\ ~(k > j)
      BY <2>1, <2>2, <3>1 DEF TextLast
    <3>. QED BY <1>1, <2>2, <3>1, <3>2
  <2>4. k \in TextsOf(c)
    BY <2>2 DEF TextsOf
  <2>. QED BY <2>3, <2>4
<1>3. ASSUME NEW c \in Updates, call[c].at # "text" PROVE TextsOf(c) = {}
  <2>1. call[c].at \in {"idle", "person", "cover", "read"}
    BY <1>3 DEF WInv, IInv, TypeInv, TypeOK, Calls, Call, Steps
  <2>2. PicturesOnly(writes, c)
    BY <2>1 DEF WInv, IInv, WritesOfUpdates, WritesOf, NoneOf, PicturesOnly
  <2>. QED BY <2>2 DEF TextsOf, PicturesOnly
<1>. QED BY <1>2, <1>3 DEF NobodyWaitsInVain

-----------------------------------------------------------------------------
\* The types, the place of each update's writes and the profile on display
\* hold in every state.
THEOREM InvariantHolds == Spec => []IInv
BY InitInv, NextInv, PTL DEF Spec

\* The profile's fields, updates and queue keep their types
\* (social_app_cubit.dart:70-142).
THEOREM TypeCorrect == Spec => []TypeOK
<1>1. IInv => TypeOK
  BY DEF IInv, TypeInv
<1>. QED BY <1>1, InvariantHolds, PTL

\* An update that reads the profile back, and so reports success, has no write
\* left in the queue, the unawaited ones included, for any number of updates in
\* flight (social_app_cubit.dart:100-105, 132-138).
THEOREM SuccessIsSettled == Spec => []SettledBeforeRead
<1>1. IInv => SettledBeforeRead
  BY DEF IInv, WritesOfUpdates, WritesOf, NoneOf, SettledBeforeRead
<1>. QED BY <1>1, InvariantHolds, PTL

\* With no call in flight and nothing refused, the profile on display is the
\* document as this client sees it, whatever updates were saved together.
THEOREM DisplayIsCurrent == Spec => []UserIsCurrent
<1>1. IInv => UserIsCurrent
  BY DEF IInv
<1>. QED BY <1>1, InvariantHolds, PTL
\* Whoever waits for the text to be stored has exactly one text update queued,
\* and nobody else has one, for any number of updates in flight, after a restart
\* too: what makes UpdateEnds a matter of the answers alone
\* (social_app_cubit.dart:132-138).
THEOREM NobodyIsLeftWaiting == Spec => []NobodyWaitsInVain
<1>1. Init => TextsAwaited
  BY SlotsAssumption DEF Init, TextsAwaited, Started, CallAt, Calls
<1>2. Spec => []WInv
  BY <1>1, InvariantHolds, WaitStep, PTL DEF Spec, WInv
<1>. QED BY <1>2, OneText, PTL
=============================================================================
