------------------------------ MODULE Mailbox -------------------------------
(***************************************************************************)
(* What uploadChatMessage promises the addressee of a message: it arrives  *)
(* at most once, after every earlier message of its sender that arrives at *)
(* all, and only if it was sent.  A message may be lost.                   *)
(***************************************************************************)
EXTENDS Naturals

CONSTANTS
  Users,
  Ids,      \* messages, named by their dateTime on the sender's clock
  Nil

VARIABLES
  sent,     \* sender and addressee of each message, Nil if there is none
  status    \* how far it got

vars == <<sent, status>>

Status == {"unsent", "pending", "arrived", "lost"}

TypeOK ==
  /\ sent \in [Ids -> [from : Users, to : Users] \cup {Nil}]
  /\ status \in [Ids -> Status]

Init ==
  /\ sent = [m \in Ids |-> Nil]
  /\ status = [m \in Ids |-> "unsent"]

From(u) == {m \in Ids : sent[m] # Nil /\ sent[m].from = u}

Pending(u) == {m \in From(u) : status[m] = "pending"}

Post(u, p, m) ==
  /\ status[m] = "unsent" /\ \A k \in From(u) : k < m
  /\ sent' = [sent EXCEPT ![m] = [from |-> u, to |-> p]]
  /\ status' = [status EXCEPT ![m] = "pending"]

\* The oldest message of a sender arrives.
Arrive(u) ==
  /\ \E m \in Pending(u) :
       /\ \A k \in Pending(u) : m <= k
       /\ status' = [status EXCEPT ![m] = "arrived"]
  /\ UNCHANGED sent

\* Some messages of a sender are given up.
Lose(u) ==
  /\ \E L \in SUBSET Pending(u) :
       /\ L # {}
       /\ status' = [m \in Ids |-> IF m \in L THEN "lost" ELSE status[m]]
  /\ UNCHANGED sent

Next ==
  \/ \E u, p \in Users, m \in Ids : Post(u, p, m)
  \/ \E u \in Users : Arrive(u) \/ Lose(u)

Spec == Init /\ [][Next]_vars

-----------------------------------------------------------------------------
(* What follows for the addressee.                                         *)

\* Nothing that was sent earlier is still to come once a message has arrived.
NoOvertaking ==
  \A u \in Users : \A n \in From(u) :
    status[n] = "arrived" => \A m \in Pending(u) : n < m

\* A message that has arrived, or was given up, stays so.
SettledForGood ==
  [][\A m \in Ids : status[m] \in {"arrived", "lost"} => status'[m] = status[m]]_vars
=============================================================================
