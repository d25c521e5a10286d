------------------------------ MODULE Session -------------------------------
(***************************************************************************)
(* Who the app takes its user to be: main, the login and register screens  *)
(* with their cubits, and SharePref, on one device.                        *)
(*                                                                         *)
(* Three places answer that question.  FirebaseAuth holds the account that *)
(* signed in last and keeps it across restarts; the preferences hold the   *)
(* uid that is read at the next start; the global uId is what was read at  *)
(* this start.  A registration also owes its account a document in         *)
(* `users'.  The screens let a user start a second call while the first is *)
(* in flight, and the process may be killed between any two answers.       *)
(***************************************************************************)
EXTENDS Integers, Sequences, FiniteSets

CONSTANTS
  Users,      \* accounts, known by their email; also their uids
  Attempts,   \* slots for userLogin and userRegister calls in flight together
  Nil         \* nobody

ASSUME NilAssumption == Nil \notin Users \cup Attempts

VARIABLES
  \* the backends
  accounts,   \* emails FirebaseAuth knows
  profiles,   \* accounts with a document in `users'
  \* kept on the device
  auth,       \* FirebaseAuth.instance.currentUser
  queued,     \* accounts whose document is in the Firestore client's queue
  prefs,      \* the value stored under 'uid'
  \* the process
  saves,      \* attempts whose setString is on its way, oldest first
  uId,        \* the global of constat.dart
  screen,     \* the route on top
  spinner,    \* the cubit of that screen is in its Loading state
  attempt,
  \* bookkeeping of the properties, read by no action's guard
  cut,        \* accounts whose registration stopped before their document was stored
  unsaved,    \* accounts whose uid could not be persisted since they last signed in
  early       \* MainScreen was reached before the uid was persisted

backend == <<accounts, profiles>>
device  == <<auth, queued, prefs>>
process == <<saves, uId, screen, spinner, attempt>>
notes   == <<cut, unsaved, early>>
vars    == <<backend, device, process, notes>>

-----------------------------------------------------------------------------
LoginSteps    == {"login", "saveLogin"}
RegisterSteps == {"register", "registered", "profile", "saveNew"}

\* `on' is where the screen that made the call is: on top, below a route still
\* being animated in, or disposed of with its cubit.
Attempt == [at: {"idle"} \cup LoginSteps \cup RegisterSteps,
            user: Users \cup {Nil}, on: {"top", "leaving", "gone"}]

TypeOK ==
  /\ accounts \subseteq Users
  /\ profiles \subseteq accounts
  /\ auth \in accounts \cup {Nil}
  /\ queued \subseteq accounts
  /\ prefs \in accounts \cup {Nil}
  /\ saves \in Seq(Attempts)
  /\ uId \in accounts \cup {Nil}
  /\ screen \in {"login", "register", "main"}
  /\ spinner \in BOOLEAN
  /\ attempt \in [Attempts -> Attempt]
  /\ cut \subseteq accounts
  /\ unsaved \subseteq accounts
  /\ early \in BOOLEAN

IdleAttempt == [at |-> "idle", user |-> Nil, on |-> "gone"]

\* The first start on a device; some accounts were made elsewhere.
Init ==
  /\ \E S \in SUBSET Users : accounts = S /\ profiles = S
  /\ auth = Nil /\ queued = {} /\ prefs = Nil
  /\ saves = <<>> /\ uId = Nil /\ screen = "login" /\ spinner = FALSE
  /\ attempt = [a \in Attempts |-> IdleAttempt]
  /\ cut = {} /\ unsaved = {} /\ early = FALSE

-----------------------------------------------------------------------------
(* Screens and emits.                                                      *)

\* The route on top is replaced: its screen stays below until the new one has
\* been animated in.
Below(r) == IF r.on = "top" THEN [r EXCEPT !.on = "leaving"] ELSE r

Covered == [b \in Attempts |-> Below(attempt[b])]

\* Attempt a emits a state that is not Loading: its own screen loses the spinner.
SpinnerAfter(a) == spinner /\ attempt[a].on # "top"

\* After close, emit does nothing.
Emits(a) == attempt[a].on # "gone"

\* pushNavAndReplace(context, MainScreen()) replaces whatever is on top.
EnterMain == screen' = "main" /\ spinner' = FALSE

\* pushAndRemoveUntil another form, with a cubit of its own.
ShowForm(form) ==
  /\ screen' = form /\ spinner' = FALSE
  /\ attempt' = Covered
  /\ UNCHANGED <<backend, device, saves, uId, notes>>

\* "Don't have an account?"
ToRegister == screen = "login" /\ ShowForm("register")

\* "have an account?"
ToLogin == screen = "register" /\ ShowForm("login")

\* The route below is disposed of, and its cubit closed: emit does nothing now.
Dispose(steps) ==
  /\ \E a \in Attempts : attempt[a].on = "leaving" /\ attempt[a].at \in steps
  /\ attempt' = [a \in Attempts |->
                   IF attempt[a].on = "leaving" /\ attempt[a].at \in steps
                   THEN [attempt[a] EXCEPT !.on = "gone"] ELSE attempt[a]]
  /\ UNCHANGED <<backend, device, saves, uId, screen, spinner, notes>>

\* changePasswordVisibility emits a state that is not Loading.
ToggleVisibility ==
  /\ screen # "main" /\ spinner
  /\ spinner' = FALSE
  /\ UNCHANGED <<backend, device, saves, uId, screen, attempt, notes>>

\* A call of the form on top begins, and its cubit emits Loading.
Begin(a, u, step) ==
  /\ attempt[a].at = "idle"
  /\ attempt' = [attempt EXCEPT ![a] = [at |-> step, user |-> u, on |-> "top"]]
  /\ spinner' = TRUE
  /\ UNCHANGED <<backend, device, saves, uId, screen, notes>>

\* The spinner hides the button, but the keyboard submits regardless.
SubmitLogin(a, u) == screen = "login" /\ Begin(a, u, "login")

SubmitRegister(a, u) == screen = "register" /\ Begin(a, u, "register")

-----------------------------------------------------------------------------
(* SharePref.setData: the platform writes one value after the other.       *)

Saving(a) == saves # <<>> /\ Head(saves) = a

-----------------------------------------------------------------------------
(* userLogin.                                                              *)

\* Mutant: a uid that is already stored is kept.
LoginOkKeepsUid(a) ==
  /\ attempt[a].at = "login" /\ attempt[a].user \in accounts
  /\ auth' = attempt[a].user
  /\ IF prefs = Nil
     THEN /\ saves' = Append(saves, a)
          /\ attempt' = [attempt EXCEPT ![a].at = "saveLogin"]
     ELSE /\ attempt' = [attempt EXCEPT ![a] = IdleAttempt]
          /\ UNCHANGED saves
  /\ unsaved' = unsaved \ {attempt[a].user}
  /\ UNCHANGED <<backend, queued, prefs, uId, screen, spinner, cut, early>>

\* Signed in: the uid is handed to the preferences.
LoginOk(a) ==
  /\ attempt[a].at = "login" /\ attempt[a].user \in accounts
  /\ auth' = attempt[a].user
  /\ saves' = Append(saves, a)
  /\ attempt' = [attempt EXCEPT ![a].at = "saveLogin"]
  /\ unsaved' = unsaved \ {attempt[a].user}
  /\ UNCHANGED <<backend, queued, prefs, uId, screen, spinner, cut, early>>

\* Mutant: the error is logged and no state is emitted.
LoginFailsSilently(a) ==
  /\ attempt[a].at = "login"
  /\ attempt' = [attempt EXCEPT ![a] = IdleAttempt]
  /\ UNCHANGED <<backend, device, saves, uId, screen, spinner, notes>>

\* Wrong password, no such account, no network.
LoginFails(a) ==
  /\ attempt[a].at = "login"
  /\ attempt' = [attempt EXCEPT ![a] = IdleAttempt]
  /\ spinner' = SpinnerAfter(a)
  /\ UNCHANGED <<backend, device, saves, uId, screen, notes>>

\* The uid is stored, and only then is the main screen shown.
LoginSaved(a) ==
  /\ attempt[a].at = "saveLogin" /\ Saving(a)
  /\ saves' = Tail(saves)
  /\ prefs' = attempt[a].user
  /\ IF Emits(a)
     THEN EnterMain /\ attempt' = [Covered EXCEPT ![a] = IdleAttempt]
     ELSE attempt' = [attempt EXCEPT ![a] = IdleAttempt] /\ UNCHANGED <<screen, spinner>>
  /\ UNCHANGED <<backend, auth, queued, uId, notes>>

\* Mutant: the result of setData is not looked at.
LoginNotSavedUnseen(a) ==
  /\ attempt[a].at = "saveLogin" /\ Saving(a)
  /\ saves' = Tail(saves)
  /\ unsaved' = unsaved \cup {attempt[a].user}
  /\ IF Emits(a)
     THEN EnterMain /\ attempt' = [Covered EXCEPT ![a] = IdleAttempt]
     ELSE attempt' = [attempt EXCEPT ![a] = IdleAttempt] /\ UNCHANGED <<screen, spinner>>
  /\ UNCHANGED <<backend, device, uId, cut, early>>

\* setString answers false: an error is shown, the account stays signed in.
LoginNotSaved(a) ==
  /\ attempt[a].at = "saveLogin" /\ Saving(a)
  /\ saves' = Tail(saves)
  /\ unsaved' = unsaved \cup {attempt[a].user}
  /\ attempt' = [attempt EXCEPT ![a] = IdleAttempt]
  /\ spinner' = SpinnerAfter(a)
  /\ UNCHANGED <<backend, device, uId, screen, cut, early>>

-----------------------------------------------------------------------------
(* userRegister and createUser.                                            *)

\* FirebaseAuth makes the account; the answer is still to come.
AccountMade(a) ==
  /\ attempt[a].at = "register" /\ attempt[a].user \notin accounts
  /\ accounts' = accounts \cup {attempt[a].user}
  /\ attempt' = [attempt EXCEPT ![a].at = "registered"]
  /\ UNCHANGED <<profiles, device, saves, uId, screen, spinner, notes>>

\* Mutant: the uid is persisted while the document is still being written.
RegisterOkSavesAtOnce(a) ==
  /\ attempt[a].at = "registered"
  /\ auth' = attempt[a].user
  /\ queued' = queued \cup {attempt[a].user}
  /\ saves' = Append(saves, a)
  /\ attempt' = [attempt EXCEPT ![a].at = "saveNew"]
  /\ spinner' = SpinnerAfter(a)
  /\ unsaved' = unsaved \ {attempt[a].user}
  /\ UNCHANGED <<backend, prefs, uId, screen, cut, early>>

\* The answer: the new account is signed in and its document is set.
RegisterOk(a) ==
  /\ attempt[a].at = "registered"
  /\ auth' = attempt[a].user
  /\ queued' = queued \cup {attempt[a].user}
  /\ attempt' = [attempt EXCEPT ![a].at = "profile"]
  /\ spinner' = SpinnerAfter(a)
  /\ unsaved' = unsaved \ {attempt[a].user}
  /\ UNCHANGED <<backend, prefs, saves, uId, screen, cut, early>>

\* The email is taken, the password weak, the network gone; the account may have
\* been made all the same.
RegisterFails(a) ==
  /\ attempt[a].at \in {"register", "registered"}
  /\ cut' = IF attempt[a].at = "registered" THEN cut \cup {attempt[a].user} ELSE cut
  /\ attempt' = [attempt EXCEPT ![a] = IdleAttempt]
  /\ spinner' = SpinnerAfter(a)
  /\ UNCHANGED <<backend, device, saves, uId, screen, unsaved, early>>

\* A queue is sent only while its account is the one signed in.
Sendable(u) == u \in queued /\ auth = u

\* The document is stored: setData is called and, without waiting for it, the
\* main screen shown.
ProfileStored(a) ==
  /\ attempt[a].at = "profile" /\ Sendable(attempt[a].user)
  /\ profiles' = profiles \cup {attempt[a].user}
  /\ queued' = queued \ {attempt[a].user}
  /\ saves' = Append(saves, a)
  /\ IF Emits(a)
     THEN EnterMain /\ early' = TRUE /\ attempt' = [Covered EXCEPT ![a].at = "saveNew"]
     ELSE /\ attempt' = [attempt EXCEPT ![a].at = "saveNew"]
          /\ UNCHANGED <<screen, spinner, early>>
  /\ UNCHANGED <<accounts, auth, prefs, uId, cut, unsaved>>

\* Mutant: the rejection is never reported to createUser.
ProfileRejectedSilently(a) ==
  /\ attempt[a].at = "profile" /\ Sendable(attempt[a].user)
  /\ queued' = queued \ {attempt[a].user}
  /\ cut' = cut \cup {attempt[a].user}
  /\ UNCHANGED <<backend, auth, prefs, process, unsaved, early>>

\* Rejected: SocialCreateUserErrorState, which no listener looks at.
ProfileRejected(a) ==
  /\ attempt[a].at = "profile" /\ Sendable(attempt[a].user)
  /\ queued' = queued \ {attempt[a].user}
  /\ attempt' = [attempt EXCEPT ![a] = IdleAttempt]
  /\ spinner' = SpinnerAfter(a)
  /\ cut' = cut \cup {attempt[a].user}
  /\ unsaved' = unsaved \cup {attempt[a].user}
  /\ UNCHANGED <<backend, auth, prefs, saves, uId, screen, early>>

\* The uid is stored: a second success shows the main screen once more.
NewSaved(a) ==
  /\ attempt[a].at = "saveNew" /\ Saving(a)
  /\ saves' = Tail(saves)
  /\ prefs' = attempt[a].user
  /\ IF Emits(a)
     THEN EnterMain /\ attempt' = [Covered EXCEPT ![a] = IdleAttempt]
     ELSE attempt' = [attempt EXCEPT ![a] = IdleAttempt] /\ UNCHANGED <<screen, spinner>>
  /\ UNCHANGED <<backend, auth, queued, uId, notes>>

\* Not stored: an error nobody sees, with the main screen on display.
NewNotSaved(a) ==
  /\ attempt[a].at = "saveNew" /\ Saving(a)
  /\ saves' = Tail(saves)
  /\ unsaved' = unsaved \cup {attempt[a].user}
  /\ attempt' = [attempt EXCEPT ![a] = IdleAttempt]
  /\ spinner' = SpinnerAfter(a)
  /\ UNCHANGED <<backend, device, uId, screen, cut, early>>

-----------------------------------------------------------------------------
(* The process is killed and started again; what it left in the queue.     *)

InRegistration(u) ==
  \E a \in Attempts : attempt[a].user = u /\ attempt[a].at \in {"registered", "profile"}

SignedInBy(a) == attempt[a].at \in {"profile", "saveLogin", "saveNew"}

\* SharePref.getData(key: 'uid').
ReadUid == prefs

Restart ==
  /\ saves' = <<>>
  /\ uId' = ReadUid
  /\ screen' = IF ReadUid # Nil THEN "main" ELSE "login"
  /\ spinner' = FALSE
  /\ attempt' = [a \in Attempts |-> IdleAttempt]
  /\ cut' = cut \cup {u \in Users : InRegistration(u)}
  /\ unsaved' = unsaved \cup {attempt[a].user : a \in {b \in Attempts : SignedInBy(b)}}
  /\ early' = FALSE
  /\ UNCHANGED <<backend, device>>

\* A document left by an earlier process, or by an attempt whose account was
\* signed out of by another one, is sent when its account is signed in.
Orphaned(u) == ~ \E a \in Attempts : attempt[a].user = u /\ attempt[a].at = "profile"

OrphanStored(u) ==
  /\ Sendable(u) /\ Orphaned(u)
  /\ profiles' = profiles \cup {u}
  /\ queued' = queued \ {u}
  /\ UNCHANGED <<accounts, auth, prefs, process, notes>>

OrphanRejected(u) ==
  /\ Sendable(u) /\ Orphaned(u)
  /\ queued' = queued \ {u}
  /\ UNCHANGED <<backend, auth, prefs, process, notes>>

-----------------------------------------------------------------------------
\* What FirebaseAuth owes an attempt.
AuthAnswers(a) == LoginOk(a) \/ LoginFails(a) \/ RegisterOk(a) \/ RegisterFails(a)

\* What the Firestore client owes a registration.
ProfileAnswered(a) == ProfileStored(a) \/ ProfileRejected(a)

\* What the platform owes a setString.
SaveAnswered(a) == LoginSaved(a) \/ LoginNotSaved(a) \/ NewSaved(a) \/ NewNotSaved(a)

Next ==
  \/ ToRegister \/ ToLogin
  \/ Dispose(LoginSteps)
  \/ Dispose(RegisterSteps)
  \/ ToggleVisibility
  \/ \E a \in Attempts, u \in Users : SubmitLogin(a, u) \/ SubmitRegister(a, u)
  \/ \E a \in Attempts : \/ AuthAnswers(a)
                         \/ AccountMade(a)
                         \/ ProfileAnswered(a)
                         \/ SaveAnswered(a)
  \/ Restart
  \/ \E u \in Users : OrphanStored(u) \/ OrphanRejected(u)

Spec == Init /\ [][Next]_vars

\* Every request is answered, with a value or an error, in the end.
FairSpec ==
  /\ Spec
  /\ \A a \in Attempts : /\ WF_vars(AuthAnswers(a))
                         /\ WF_vars(ProfileAnswered(a))
                         /\ WF_vars(SaveAnswered(a))

-----------------------------------------------------------------------------
(* Properties.                                                             *)

\* Whoever the device takes for its user has an account, and has a profile
\* unless the registration is under way or stopped short of it: a uid is
\* persisted only after the document is stored (social_app_register_cubit:46-51).
PersistedHasProfile ==
  \A u \in {prefs, uId} \ {Nil} :
    u \in accounts /\ (u \in profiles \cup cut \/ InRegistration(u))

\* Once no write to the preferences is on its way, they and FirebaseAuth name the
\* same account, unless that account's sign-in was not persisted; and a start
\* acts as the account FirebaseAuth sends its requests for (main.dart:37).
AuthMatchesPrefs ==
  /\ saves = <<>> => auth \in {prefs} \cup unsaved \/ InRegistration(auth)
  /\ uId # Nil => uId = prefs

\* Only a registration shows the main screen to somebody whom the next start
\* will not recognise (social_app_login_cubit:23-28).
MainIsPersisted == screen = "main" /\ prefs = Nil => early

\* The attempts whose user is signed in and waits for its uid to be stored.
SaveSteps == {"saveLogin", "saveNew"}

\* An attempt has at most one write to the preferences on its way, and waits for it.
OneWriteEach ==
  /\ \A i \in DOMAIN saves : attempt[saves[i]].at \in SaveSteps
  /\ \A i, j \in DOMAIN saves : saves[i] = saves[j] => i = j

WaitersHaveSaves ==
  \A a \in Attempts : attempt[a].at \in SaveSteps => \E i \in DOMAIN saves : saves[i] = a

\* A registration that waits for its document has it in the queue.
WaitersHaveDocuments ==
  \A a \in Attempts : attempt[a].at = "profile" => attempt[a].user \in queued

\* The steps before the first state that is not Loading.
SpinSteps == {"login", "saveLogin", "register", "registered"}

\* Somebody is still to take the spinner away.
SpinnerOwed ==
  spinner => \E a \in Attempts : attempt[a].on = "top" /\ attempt[a].at \in SpinSteps

\* What AttemptEnds and SpinnerEnds rest on: each attempt parked at setString has a
\* write of its own on the way and each write its attempt, the document a
\* registration is parked at is in the queue, and a spinner on display is owed a
\* state by a call of that very screen (social_app_login_cubit:15-34,
\* social_app_register_cubit:20-66).
NobodyWaitsInVain ==
  OneWriteEach /\ WaitersHaveSaves /\ WaitersHaveDocuments /\ SpinnerOwed

\* The spinner always gives way to the button again or to another screen.
SpinnerEnds == spinner ~> ~spinner

\* Every attempt ends; the one exception is a registration whose account was
\* signed out of by another attempt before its document was sent.
AttemptEnds ==
  \A a \in Attempts :
    attempt[a].at # "idle" ~>
      \/ attempt[a].at = "idle"
      \/ attempt[a].at = "profile" /\ auth # attempt[a].user
=============================================================================
