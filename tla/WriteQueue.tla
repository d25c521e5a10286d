------------------------------ MODULE WriteQueue ------------------------------
(***************************************************************************)
(* What the Firestore client promises of the writes it is given: one queue *)
(* per user that outlives the process; the backend applies a user's writes *)
(* in their order; they are settled in that order, the current user's      *)
(* only; and a caller is told at most once, "ok" only of what the backend  *)
(* has.                                                                    *)
(***************************************************************************)
EXTENDS Integers, Sequences

CONSTANTS Users, MaxWrites

VARIABLES
  user,       \* who is signed in
  pending,    \* the writes of each user that are not settled, in order
  listening,  \* the writes whose callers are still to be told
  issued, applied, told

vars == <<user, pending, listening, issued, applied, told>>

Nums == 1..MaxWrites

Init ==
  /\ user \in Users
  /\ pending = [u \in Users |-> <<>>]
  /\ listening = {}
  /\ issued = 0 /\ applied = {}
  /\ told = [n \in Nums |-> "nothing"]

Submit ==
  /\ issued < MaxWrites
  /\ issued' = issued + 1
  /\ pending' = [pending EXCEPT ![user] = Append(@, issued + 1)]
  /\ listening' = listening \cup {issued + 1}
  /\ UNCHANGED <<user, applied, told>>

\* The backend applies a write when it has all that come before it.
Apply(i) ==
  /\ \A j \in 1..(i - 1) : pending[user][j] \in applied
  /\ applied' = applied \cup {pending[user][i]}
  /\ UNCHANGED <<user, pending, listening, issued, told>>

\* The oldest write is settled.  A refusal says nothing of an earlier attempt,
\* whose answer may have been lost.
Settle(o) ==
  LET n == Head(pending[user]) IN
  /\ pending[user] # <<>>
  /\ o = "ok" => n \in applied
  /\ pending' = [pending EXCEPT ![user] = Tail(@)]
  /\ listening' = listening \ {n}
  /\ told' = IF n \in listening THEN [told EXCEPT ![n] = o] ELSE told
  /\ UNCHANGED <<user, issued, applied>>

SignIn(u) ==
  user' = u /\ UNCHANGED <<pending, listening, issued, applied, told>>

\* The process ends, and with it all that wait for an answer.
Kill ==
  listening' = {} /\ UNCHANGED <<user, pending, issued, applied, told>>

Next ==
  \/ Submit \/ Kill
  \/ \E i \in DOMAIN pending[user] : Apply(i)
  \/ \E o \in {"ok", "failed"} : Settle(o)
  \/ \E u \in Users : SignIn(u)

Spec == Init /\ [][Next]_vars

-----------------------------------------------------------------------------
(* What the promise amounts to.                                            *)

\* A write is not in the backend before those its user made earlier: of a post
\* and its like, or of a message and the next, the later one is never alone.
AppliedInOrder ==
  \A u \in Users : \A i, j \in DOMAIN pending[u] :
    i < j /\ pending[u][j] \in applied => pending[u][i] \in applied

\* What a caller was told of its write is never taken back or said again
\* otherwise.
ToldOnce ==
  [][\A n \in Nums : told[n] # "nothing" => told'[n] = told[n]]_vars
=============================================================================
