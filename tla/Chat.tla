-------------------------------- MODULE Chat --------------------------------
(***************************************************************************)
(* Conversations: uploadChatMessage and getChatMessage of SocialAppCubit,  *)
(* the ChatDetails screen, and the Firestore client of each device.        *)
(*                                                                         *)
(* A message is stored twice, first in its sender's box, then in its       *)
(* addressee's; each add is awaited and its error swallowed.  A box is     *)
(* shown by a snapshots() listener that nobody ever cancels; every         *)
(* listener of a device assigns the one field `messages'.                  *)
(***************************************************************************)
EXTENDS Naturals, Sequences, FiniteSets

CONSTANTS
  Users,
  Devices,  \* the users whose device takes part
  Slots,    \* slots for uploadChatMessage calls in flight on one device
  Ids,      \* messages, named by their dateTime
  Nil

ASSUME UsersAssumption == Devices \subseteq Users /\ Nil \notin Users
ASSUME SlotsAssumption == Nil \notin Slots
ASSUME IdsAssumption == Ids \subseteq Nat /\ Nil \notin Ids /\ Nil \notin [from : Users, to : Users]

VARIABLES
  \* Firestore
  box,       \* box[u][p]: users/u/chats/p/message
  \* per device
  writes,    \* the client's queue, oldest first
  send,      \* calls of uploadChatMessage
  open,      \* whose ChatDetails is on top, Nil if none
  seen,      \* seen[u][p]: the last snapshot u's listeners on p got, Nil if none yet
  subs,      \* peers with a listener
  messages,  \* SocialAppCubit.messages
  \* bookkeeping of the properties, read by no action's guard but the choice of ids
  sent,      \* sender and addressee of each message
  refused,   \* copies whose write was rejected
  lost       \* messages of a process killed before their second add

screens == <<open, seen, subs, messages>>
notes   == <<sent, refused, lost>>
vars    == <<box, writes, send, screens, notes>>

-----------------------------------------------------------------------------
Header == [from : Users, to : Users]
Halves == {"own", "peer"}

Write == [msg : Ids, half : Halves, by : Slots \cup {Nil}]

IdleCall == [at |-> "idle", msg |-> Nil]

Call == [at : Halves, msg : Ids] \cup {IdleCall}

TypeOK ==
  /\ box \in [Users -> [Users -> SUBSET Ids]]
  /\ writes \in [Devices -> Seq(Write)]
  /\ send \in [Devices -> [Slots -> Call]]
  /\ open \in [Devices -> Users \cup {Nil}]
  /\ seen \in [Devices -> [Users -> (SUBSET Ids) \cup {Nil}]]
  /\ subs \in [Devices -> SUBSET Users]
  /\ messages \in [Devices -> SUBSET Ids]
  /\ sent \in [Ids -> Header \cup {Nil}]
  /\ refused \subseteq Ids \X Halves
  /\ lost \subseteq Ids

Init ==
  /\ box = [u \in Users |-> [p \in Users |-> {}]]
  /\ writes = [u \in Devices |-> <<>>]
  /\ send = [u \in Devices |-> [s \in Slots |-> IdleCall]]
  /\ open = [u \in Devices |-> Nil]
  /\ seen = [u \in Devices |-> [p \in Users |-> Nil]]
  /\ subs = [u \in Devices |-> {}]
  /\ messages = [u \in Devices |-> {}]
  /\ sent = [m \in Ids |-> Nil] /\ refused = {} /\ lost = {}

-----------------------------------------------------------------------------
(* The screen.                                                             *)

\* chatItem's onTap pushes ChatDetails, whose build subscribes once more; the
\* new listener has its first snapshot to come.
Open(u, p) ==
  /\ open[u] = Nil /\ p # u
  /\ open' = [open EXCEPT ![u] = p]
  /\ subs' = [subs EXCEPT ![u] = @ \cup {p}]
  /\ seen' = [seen EXCEPT ![u][p] = Nil]
  /\ UNCHANGED <<box, writes, send, messages, notes>>

\* Back to the list of users; the listener stays.
Close(u) ==
  /\ open[u] # Nil
  /\ open' = [open EXCEPT ![u] = Nil]
  /\ UNCHANGED <<box, writes, send, seen, subs, messages, notes>>

\* A user's box as that user's client shows it: queued adds are there already.
View(u, p) ==
  box[u][p] \cup
  {m \in Ids : /\ sent[m] # Nil /\ sent[m].to = p
               /\ \E k \in DOMAIN writes[u] :
                    writes[u][k].msg = m /\ writes[u][k].half = "own"}

\* Mutant: `messages' is not emptied first.
SnapshotAppends(u, p) ==
  /\ p \in subs[u] /\ seen[u][p] # View(u, p)
  /\ seen' = [seen EXCEPT ![u][p] = View(u, p)]
  /\ messages' = [messages EXCEPT ![u] = @ \cup View(u, p)]
  /\ UNCHANGED <<box, writes, send, open, subs, notes>>

\* Mutant: the box is read once, with get, when the chat is opened.
SnapshotOnce(u, p) ==
  /\ p \in subs[u] /\ seen[u][p] = Nil
  /\ seen' = [seen EXCEPT ![u][p] = View(u, p)]
  /\ messages' = [messages EXCEPT ![u] = View(u, p)]
  /\ UNCHANGED <<box, writes, send, open, subs, notes>>

\* A listener gets the box as it is now, whichever chat is open.
Snapshot(u, p) ==
  /\ p \in subs[u] /\ seen[u][p] # View(u, p)
  /\ seen' = [seen EXCEPT ![u][p] = View(u, p)]
  /\ messages' = [messages EXCEPT ![u] = View(u, p)]
  /\ UNCHANGED <<box, writes, send, open, subs, notes>>

-----------------------------------------------------------------------------
(* uploadChatMessage.                                                      *)

SentFrom(u) == {m \in Ids : sent[m] # Nil /\ sent[m].from = u}

Add(m, half, s) == [msg |-> m, half |-> half, by |-> s]

\* The button sends whatever the field holds, also while earlier messages are
\* under way; dateTime grows on one device and is no order among devices.
Send(u, s, m) ==
  /\ open[u] # Nil /\ send[u][s].at = "idle"
  /\ sent[m] = Nil /\ \A k \in SentFrom(u) : k < m
  /\ sent' = [sent EXCEPT ![m] = [from |-> u, to |-> open[u]]]
  /\ writes' = [writes EXCEPT ![u] = Append(@, Add(m, "own", s))]
  /\ send' = [send EXCEPT ![u][s] = [at |-> "own", msg |-> m]]
  /\ UNCHANGED <<box, screens, refused, lost>>

\* The write at the head of u's queue is the add that call s awaits.
Awaited(u, s, half) ==
  writes[u] # <<>> /\ Head(writes[u]).by = s /\ Head(writes[u]).half = half

\* Mutant: both copies go to the sender's box.
StoredTwice(u) ==
  LET m == Head(writes[u]).msg  f == sent[m].from  t == sent[m].to IN
  box' = [box EXCEPT ![f][t] = @ \cup {m}]

\* The head of u's queue reaches the backend.
Stored(u) ==
  LET m == Head(writes[u]).msg  f == sent[m].from  t == sent[m].to IN
  box' = IF Head(writes[u]).half = "own" THEN [box EXCEPT ![f][t] = @ \cup {m}]
                                         ELSE [box EXCEPT ![t][f] = @ \cup {m}]

\* The head of u's queue is rejected.
Refused(u) ==
  /\ refused' = refused \cup {<<Head(writes[u]).msg, Head(writes[u]).half>>}
  /\ UNCHANGED box

\* The first add is settled and the second issued.
PeerAdd(u, s) ==
  /\ writes' = [writes EXCEPT ![u] = Append(Tail(@), Add(send[u][s].msg, "peer", s))]
  /\ send' = [send EXCEPT ![u][s].at = "peer"]

OwnAdded(u, s) ==
  /\ Awaited(u, s, "own") /\ Stored(u) /\ PeerAdd(u, s)
  /\ UNCHANGED <<screens, notes>>

\* SocialAppChatError is emitted, and the second add issued all the same.
OwnRefused(u, s) ==
  /\ Awaited(u, s, "own") /\ Refused(u) /\ PeerAdd(u, s)
  /\ UNCHANGED <<screens, sent, lost>>

\* The second add is settled: the call ends, with success or SocialAppChatError.
Ended(u, s) ==
  /\ writes' = [writes EXCEPT ![u] = Tail(@)]
  /\ send' = [send EXCEPT ![u][s] = IdleCall]

PeerAdded(u, s) ==
  /\ Awaited(u, s, "peer") /\ Stored(u) /\ Ended(u, s)
  /\ UNCHANGED <<screens, notes>>

\* Mutant: a refused second add is issued once more.
PeerRefusedRetries(u, s) ==
  /\ Awaited(u, s, "peer") /\ Refused(u) /\ PeerAdd(u, s)
  /\ UNCHANGED <<screens, sent, lost>>

\* Mutant: the call is not told.
PeerRefusedSilently(u, s) ==
  /\ Awaited(u, s, "peer") /\ Refused(u)
  /\ writes' = [writes EXCEPT ![u] = Tail(@)]
  /\ UNCHANGED <<send, screens, sent, lost>>

PeerRefused(u, s) ==
  /\ Awaited(u, s, "peer") /\ Refused(u) /\ Ended(u, s)
  /\ UNCHANGED <<screens, sent, lost>>

-----------------------------------------------------------------------------
(* The process is killed and started again; what it left in the queue.     *)

Restart(u) ==
  /\ writes' = [writes EXCEPT ![u] = [k \in DOMAIN @ |-> [@[k] EXCEPT !.by = Nil]]]
  /\ send' = [send EXCEPT ![u] = [s \in Slots |-> IdleCall]]
  /\ open' = [open EXCEPT ![u] = Nil]
  /\ seen' = [seen EXCEPT ![u] = [p \in Users |-> Nil]]
  /\ subs' = [subs EXCEPT ![u] = {}]
  /\ messages' = [messages EXCEPT ![u] = {}]
  /\ lost' = lost \cup {m \in Ids : \E s \in Slots : send[u][s] = [at |-> "own", msg |-> m]}
  /\ UNCHANGED <<box, sent, refused>>

OrphanAdded(u) ==
  /\ writes[u] # <<>> /\ Head(writes[u]).by = Nil
  /\ Stored(u)
  /\ writes' = [writes EXCEPT ![u] = Tail(@)]
  /\ UNCHANGED <<send, screens, notes>>

OrphanRefused(u) ==
  /\ writes[u] # <<>> /\ Head(writes[u]).by = Nil
  /\ Refused(u)
  /\ writes' = [writes EXCEPT ![u] = Tail(@)]
  /\ UNCHANGED <<send, screens, sent, lost>>

-----------------------------------------------------------------------------
WriteAnswered(u) ==
  \/ \E s \in Slots : OwnAdded(u, s) \/ OwnRefused(u, s)
  \/ \E s \in Slots : PeerAdded(u, s) \/ PeerRefused(u, s)
  \/ OrphanAdded(u) \/ OrphanRefused(u)

Next ==
  \E u \in Devices :
    \/ \E p \in Users : Open(u, p)
    \/ Close(u)
    \/ \E p \in Users : Snapshot(u, p)
    \/ \E s \in Slots, m \in Ids : Send(u, s, m)
    \/ WriteAnswered(u)
    \/ Restart(u)

Spec == Init /\ [][Next]_vars

\* Every write is answered in the end, and every change reaches the listeners.
FairSpec ==
  /\ Spec
  /\ \A u \in Devices : WF_vars(WriteAnswered(u))
  /\ \A u \in Devices, p \in Users : WF_vars(Snapshot(u, p))

-----------------------------------------------------------------------------
(* Properties.                                                             *)

Queued(m, half) ==
  \E u \in Devices : \E k \in DOMAIN writes[u] :
    writes[u][k].msg = m /\ writes[u][k].half = half

InFlight(m) == \E u \in Devices, s \in Slots : send[u][s].msg = m

\* The two copies of a message part only when one was refused or the sender's
\* process died between the adds: otherwise, what one side has and the other
\* lacks is still on its way, and never the addressee's before the sender's.
CopiesAgree ==
  \A m \in Ids : sent[m] # Nil =>
    LET own  == m \in box[sent[m].from][sent[m].to]
        peer == m \in box[sent[m].to][sent[m].from]
    IN
    /\ own /\ ~peer => \/ InFlight(m) \/ Queued(m, "peer")
                       \/ m \in lost \/ <<m, "peer">> \in refused
    /\ peer /\ ~own => <<m, "own">> \in refused

Conversation(u, p) ==
  {m \in Ids : sent[m] \in {[from |-> u, to |-> p], [from |-> p, to |-> u]}}

\* The list on display never mixes two conversations, and is one of a chat that
\* was opened since the start: with one chat opened, it is that chat's.
OneConversationShown ==
  \A u \in Devices :
    messages[u] = {} \/ \E p \in subs[u] : messages[u] \subseteq Conversation(u, p)

\* What MessageSettles and StoredIsShown rest on: a call of uploadChatMessage has the
\* add it is parked at in the queue, and no row of a living call waits for another
\* answer than its call does; an open chat has a listener, and the list on display is
\* the last snapshot of the one chat opened, so that whatever the box has and the list
\* lacks is a snapshot still to come (social_app_cubit.dart:292-309, 312-329).
NobodyWaitsInVain ==
  \A u \in Devices :
    /\ \A s \in Slots : send[u][s] # IdleCall =>
         \E k \in DOMAIN writes[u] : writes[u][k] = Add(send[u][s].msg, send[u][s].at, s)
    /\ \A k \in DOMAIN writes[u] : writes[u][k].by # Nil =>
         send[u][writes[u][k].by] = [at |-> writes[u][k].half, msg |-> writes[u][k].msg]
    /\ open[u] # Nil => open[u] \in subs[u]
    /\ \A p \in Users : subs[u] = {p} /\ seen[u][p] # Nil => messages[u] = seen[u][p]

Arrived(m) == m \in box[sent[m].to][sent[m].from]

MessageStatus ==
  [m \in Ids |-> IF sent[m] = Nil THEN "unsent"
                 ELSE IF Arrived(m) THEN "arrived"
                 ELSE IF InFlight(m) \/ Queued(m, "peer") THEN "pending"
                 ELSE "lost"]

Mail == INSTANCE Mailbox WITH status <- MessageStatus

\* Chat implements Mailbox: a message arrives at most once, and those of one
\* sender arrive in the order they were sent, however calls, errors and restarts
\* interleave (social_app_cubit.dart:292-309).
ArrivesInOrder == Mail!Spec

\* As the addressee sees it: once a message is there, none that its sender wrote
\* before it is still to come.
NeverOvertaken == Mail!NoOvertaking

\* A message that has arrived, or was given up, stays so: no retry, restart or late
\* answer brings it back.
OutcomesFinal == Mail!SettledForGood

\* Every message that is sent has arrived or is given up in the end, across
\* errors and restarts; so every uploadChatMessage ends.
MessageSettles ==
  \A m \in Ids : MessageStatus[m] = "pending" ~> MessageStatus[m] # "pending"

\* With one chat opened since the start, what is in the box comes to be on
\* display for as long as the chat stays open.
StoredIsShown ==
  \A u \in Devices, p \in Users, m \in Ids :
    subs[u] = {p} /\ open[u] = p /\ m \in box[u][p] ~>
      m \in messages[u] \/ subs[u] # {p} \/ open[u] # p
=============================================================================
