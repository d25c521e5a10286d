------------------------------ MODULE Profile -------------------------------
(***************************************************************************)
(* The profile of the signed-in user: getUserData, the two picture pickers *)
(* and updateProfile of SocialAppCubit, the EditProfileScreen, and the     *)
(* Firestore client under them.  Runs of the app whose uId is null never   *)
(* get past getUserData and are not considered.                            *)
(*                                                                         *)
(* updateProfile uploads up to two pictures, each followed by an `update'  *)
(* nobody awaits, then updates the text fields, then reads the document    *)
(* back.  The Update button is never disabled: several calls may be parked *)
(* at an await, and all read getUser and the picked files when they get    *)
(* there.  bio is treated as phone is, and not modelled apart.             *)
(***************************************************************************)
EXTENDS Naturals, Sequences

CONSTANTS
  Texts,      \* what a text field can hold
  Phones,     \* those of them that are typed as a phone number
  Files,      \* picture files, also the URLs they get
  Stock,      \* the picture an account is created with
  Empty,      \* an empty text field
  Updates,    \* slots for updateProfile calls in flight together
  Start,      \* the getUserData call of the cubit's creation
  Nil,        \* null; the caller of a write issued before a restart
  MaxWrites   \* bound on the writes queued when an update begins

ASSUME SlotsAssumption == Start \notin Updates /\ Nil \notin Updates \cup {Start}
ASSUME ValuesAssumption ==
  /\ Phones \subseteq Texts
  /\ Texts \cap (Files \cup {Stock}) = {}
  /\ Stock \notin Files
  /\ {Empty, Nil} \cap (Texts \cup Files \cup {Stock}) = {}
ASSUME MaxWritesAssumption == MaxWrites \in Nat

Calls == Updates \cup {Start}

VARIABLES
  doc,           \* the document of this user at the backend
  writes,        \* queued updates of it, oldest first
  getUser,       \* SocialAppCubit.getUser
  personImage, profileImage,
  call,
  \* bookkeeping of the properties, read by no action's guard
  stale          \* a write was refused or a read failed since getUser was last read

picked == <<personImage, profileImage>>
vars == <<doc, writes, getUser, picked, call, stale>>

-----------------------------------------------------------------------------
Fields == {"name", "phone", "image", "cover"}

Pictures == Files \cup {Stock}

User == [name : Texts, phone : Texts, image : Pictures, cover : Pictures]

Steps == {"idle", "person", "cover", "text", "read"}

\* The typed fields, until they are written, and the file being uploaded.
Call == [at : Steps, name : Texts \cup {Empty}, phone : Phones \cup {Empty},
         file : Files \cup {Nil}]

\* An update sets some fields.
Update ==
  [set : [name : Texts, phone : Texts] \cup [image : Files] \cup [cover : Files],
   by : Updates \cup {Nil}]

TypeOK ==
  /\ doc \in User
  /\ writes \in Seq(Update)
  /\ getUser \in User \cup {Nil}
  /\ personImage \in Files \cup {Nil}
  /\ profileImage \in Files \cup {Nil}
  /\ call \in [Calls -> Call]
  /\ \A c \in Calls : call[c].file # Nil <=> call[c].at \in {"person", "cover"}
  /\ stale \in BOOLEAN

CallAt(s) == [at |-> s, name |-> Empty, phone |-> Empty, file |-> Nil]

Started == [c \in Calls |-> CallAt(IF c = Start THEN "read" ELSE "idle")]

Init ==
  /\ doc \in {d \in User : d.image = Stock /\ d.cover = Stock}
  /\ writes = <<>> /\ getUser = Nil
  /\ personImage = Nil /\ profileImage = Nil
  /\ call = Started /\ stale = FALSE

-----------------------------------------------------------------------------
(* The Firestore client.                                                   *)

Sets(w, f) == f \in DOMAIN w.set

Merged(d, w) == [f \in Fields |-> IF Sets(w, f) THEN w.set[f] ELSE d[f]]

\* The last update in queue q that sets f.
LastSetter(q, f) ==
  CHOOSE k \in DOMAIN q : Sets(q[k], f) /\ \A j \in DOMAIN q : j > k => ~Sets(q[j], f)

\* The document as this client shows it: what is queued is there already.
View ==
  [f \in Fields |-> IF \A k \in DOMAIN writes : ~Sets(writes[k], f) THEN doc[f]
                    ELSE writes[LastSetter(writes, f)].set[f]]

\* The write at the head of the queue is the text update c awaits.
Awaited(c) == writes # <<>> /\ Head(writes).by = c /\ Sets(Head(writes), "name")

HeadStored  == doc' = Merged(doc, Head(writes)) /\ writes' = Tail(writes)
HeadRefused == doc' = doc /\ writes' = Tail(writes)

-----------------------------------------------------------------------------
(* Pictures and getUserData.                                               *)

\* EditProfileScreen fills its fields from getUser and is not built without it.
FormBuilt == getUser # Nil

\* A picture is chosen; a picker that is dismissed changes nothing.
PickPerson(f) ==
  /\ FormBuilt
  /\ personImage' = f
  /\ UNCHANGED <<doc, writes, getUser, profileImage, call, stale>>

PickCover(f) ==
  /\ FormBuilt
  /\ profileImage' = f
  /\ UNCHANGED <<doc, writes, getUser, personImage, call, stale>>

\* The document is read: at the start of the cubit, or to end an update.
UserRead(c) ==
  /\ call[c].at = "read"
  /\ getUser' = View /\ stale' = FALSE
  /\ call' = [call EXCEPT ![c] = CallAt("idle")]
  /\ UNCHANGED <<doc, writes, picked>>

\* The error is reported; an update emits its success all the same.
UserReadFails(c) ==
  /\ call[c].at = "read"
  /\ stale' = TRUE
  /\ call' = [call EXCEPT ![c] = CallAt("idle")]
  /\ UNCHANGED <<doc, writes, getUser, picked>>

-----------------------------------------------------------------------------
(* updateProfile.                                                          *)

\* An empty field is replaced by the user's name, whichever field it is.
OrName(v) == IF v = Empty THEN getUser.name ELSE v

TextUpdate(c, r) ==
  [set |-> [name |-> OrName(r.name), phone |-> OrName(r.phone)], by |-> c]

PictureUpdate(c, field) == [set |-> [f \in {field} |-> call[c].file], by |-> c]

\* Mutant: the update of the text fields is not awaited.
TextStageUnawaited(c, r, q) ==
  /\ writes' = Append(q, TextUpdate(c, r))
  /\ call' = [call EXCEPT ![c] = CallAt("read")]

\* The text fields are updated, after the writes q.
TextStage(c, r, q) ==
  /\ writes' = Append(q, TextUpdate(c, r))
  /\ call' = [call EXCEPT ![c] = CallAt("text")]

\* The cover is uploaded, if one is picked by now.
CoverStage(c, r, q) ==
  IF profileImage = Nil THEN TextStage(c, r, q)
  ELSE /\ writes' = q
       /\ call' = [call EXCEPT ![c] = [r EXCEPT !.at = "cover", !.file = profileImage]]

\* The Update button, with whatever the fields hold.
UpdateProfile(c, name, phone) ==
  LET r == [at |-> "idle", name |-> name, phone |-> phone, file |-> Nil] IN
  /\ call[c].at = "idle" /\ FormBuilt /\ Len(writes) < MaxWrites
  /\ IF personImage = Nil THEN CoverStage(c, r, writes)
     ELSE /\ call' = [call EXCEPT ![c] = [r EXCEPT !.at = "person", !.file = personImage]]
          /\ UNCHANGED writes
  /\ UNCHANGED <<doc, getUser, picked, stale>>

PersonUploaded(c) ==
  /\ call[c].at = "person"
  /\ CoverStage(c, call[c], Append(writes, PictureUpdate(c, "image")))
  /\ UNCHANGED <<doc, getUser, picked, stale>>

\* putFile or getDownloadURL fails: printed, and the call goes on.
PersonFails(c) ==
  /\ call[c].at = "person"
  /\ CoverStage(c, call[c], writes)
  /\ UNCHANGED <<doc, getUser, picked, stale>>

CoverUploaded(c) ==
  /\ call[c].at = "cover"
  /\ TextStage(c, call[c], Append(writes, PictureUpdate(c, "cover")))
  /\ UNCHANGED <<doc, getUser, picked, stale>>

CoverFails(c) ==
  /\ call[c].at = "cover"
  /\ TextStage(c, call[c], writes)
  /\ UNCHANGED <<doc, getUser, picked, stale>>

\* Mutant: the document is not read back.
TextStoredNotRead(c) ==
  /\ call[c].at = "text" /\ Awaited(c) /\ HeadStored
  /\ call' = [call EXCEPT ![c] = CallAt("idle")]
  /\ UNCHANGED <<getUser, picked, stale>>

TextStored(c) ==
  /\ call[c].at = "text" /\ Awaited(c) /\ HeadStored
  /\ call' = [call EXCEPT ![c] = CallAt("read")]
  /\ UNCHANGED <<getUser, picked, stale>>

\* Mutant: the refusal never reaches the call.
TextRefusedSilently(c) ==
  /\ call[c].at = "text" /\ Awaited(c) /\ HeadRefused
  /\ stale' = TRUE
  /\ UNCHANGED <<getUser, picked, call>>

\* No catchError here: the call is abandoned, with its Loading state.
TextRefused(c) ==
  /\ call[c].at = "text" /\ Awaited(c) /\ HeadRefused
  /\ stale' = TRUE
  /\ call' = [call EXCEPT ![c] = CallAt("idle")]
  /\ UNCHANGED <<getUser, picked>>

-----------------------------------------------------------------------------
(* Writes nobody awaits, and the process.                                  *)

Unawaited == writes # <<>> /\ \A c \in Updates : ~Awaited(c)

UnawaitedStored ==
  /\ Unawaited /\ HeadStored
  /\ UNCHANGED <<getUser, picked, call, stale>>

UnawaitedRefused ==
  /\ Unawaited /\ HeadRefused
  /\ stale' = TRUE
  /\ UNCHANGED <<getUser, picked, call>>

\* The app is killed and started again: the cubit is new, the queue is not.
Restart ==
  /\ writes' = [k \in DOMAIN writes |-> [writes[k] EXCEPT !.by = Nil]]
  /\ getUser' = Nil /\ personImage' = Nil /\ profileImage' = Nil
  /\ call' = Started /\ stale' = FALSE
  /\ UNCHANGED doc

-----------------------------------------------------------------------------
ReadAnswered(c) == UserRead(c) \/ UserReadFails(c)

UploadAnswered(c) ==
  PersonUploaded(c) \/ PersonFails(c) \/ CoverUploaded(c) \/ CoverFails(c)

WriteAnswered ==
  \/ \E c \in Updates : TextStored(c) \/ TextRefused(c)
  \/ UnawaitedStored \/ UnawaitedRefused

Next ==
  \/ \E f \in Files : PickPerson(f) \/ PickCover(f)
  \/ \E c \in Updates : 
       \E name \in Texts \cup {Empty}, phone \in Phones \cup {Empty} : UpdateProfile(c, name, phone)
  \/ \E c \in Updates : UploadAnswered(c)
  \/ \E c \in Calls : ReadAnswered(c)
  \/ WriteAnswered
  \/ Restart

Spec == Init /\ [][Next]_vars

\* Every request is answered, with a value or an error, in the end.
FairSpec ==
  /\ Spec
  /\ \A c \in Calls : WF_vars(ReadAnswered(c) \/ UploadAnswered(c))
  /\ WF_vars(WriteAnswered)

-----------------------------------------------------------------------------
(* Properties.                                                             *)

\* When an update comes to read the document back, and so when it reports its
\* success, every write it made is settled, the two that it does not await
\* included (social_app_cubit.dart:100-105, 132-138).
SettledBeforeRead ==
  \A c \in Updates : call[c].at = "read" =>
    \A k \in DOMAIN writes : writes[k].by # c

\* With no call in flight, getUser is the document as this client sees it,
\* unless a write was refused or a read failed: of two updates saved together,
\* none leaves behind what the other has replaced.
UserIsCurrent ==
  getUser # Nil /\ ~stale /\ (\A c \in Calls : call[c].at = "idle") => getUser = View

\* The queued text updates of c.
TextsOf(c) == {k \in DOMAIN writes : writes[k].by = c /\ Sets(writes[k], "name")}

\* An update that waits for its text to be stored has exactly one text update
\* queued, whose answer will be its own, and no text update is queued for a
\* call that waits for something else: no updateProfile hangs, and no answer
\* reaches a call that has moved on (social_app_cubit.dart:132-138).
NobodyWaitsInVain ==
  \A c \in Updates :
    /\ call[c].at = "text" => \E k \in DOMAIN writes : TextsOf(c) = {k}
    /\ call[c].at # "text" => TextsOf(c) = {}

\* Every updateProfile and getUserData ends.
UpdateEnds == \A c \in Calls : call[c].at # "idle" ~> call[c].at = "idle"
=============================================================================
