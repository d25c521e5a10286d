---------------------------- MODULE SessionProofs ----------------------------
(***************************************************************************)
(* Proofs about Session for any number of accounts and of attempts in      *)
(* flight together.  Which account the device takes for its user is        *)
(* decided by the order of the writes to the preferences, so the invariant *)
(* says which attempts have one on its way (OneWriteEach) and that the     *)
(* account signed in is that of the newest, unless something excuses it    *)
(* (NewestWrite).                                                          *)
(***************************************************************************)
EXTENDS Session, TLAPS, SequenceTheorems

\* Who has got past FirebaseAuth has an account.
Owners ==
  \A a \in Attempts :
    /\ attempt[a].at # "idle" => attempt[a].user \in Users
    /\ attempt[a].at \in SaveSteps \cup {"registered", "profile"}
         => attempt[a].user \in accounts

TypeInv == TypeOK /\ Owners

\* The account signed in was not persisted, or its document is being written.
Excused ==
  auth \in unsaved \/ \E a \in Attempts : attempt[a].at = "profile" /\ attempt[a].user = auth

\* The account signed in is the one the preferences will hold in the end.
NewestWrite ==
  IF saves = <<>> THEN auth = prefs \/ Excused
                  ELSE auth = attempt[saves[Len(saves)]].user \/ Excused

\* Accounts without a document.
DocumentsOwed == \A u \in accounts : u \in profiles \cup cut \/ InRegistration(u)

\* A process that knows its user at the start never shows a form.
StartedAsUser ==
  uId # Nil => /\ uId = prefs /\ screen = "main" /\ saves = <<>>
               /\ \A a \in Attempts : attempt[a].at = "idle"

IInv ==
  /\ TypeInv /\ OneWriteEach /\ NewestWrite /\ DocumentsOwed
  /\ StartedAsUser /\ MainIsPersisted

-----------------------------------------------------------------------------
(* What the steps do to attempts.                                          *)

\* Attempt a gets to step `to', and no other one moves.
Moves(a, to) ==
  /\ attempt' \in [Attempts -> Attempt]
  /\ attempt'[a].at = to
  /\ attempt'[a].user = IF to = "idle" THEN Nil ELSE attempt[a].user
  /\ \A b \in Attempts : b # a => /\ attempt'[b].at = attempt[b].at
                                  /\ attempt'[b].user = attempt[b].user

\* No attempt moves; screens may.
Still ==
  /\ attempt' \in [Attempts -> Attempt]
  /\ \A b \in Attempts : /\ attempt'[b].at = attempt[b].at
                         /\ attempt'[b].user = attempt[b].user

LEMMA CoveredType ==
  ASSUME attempt \in [Attempts -> Attempt]
  PROVE  /\ Covered \in [Attempts -> Attempt]
         /\ \A b \in Attempts : Covered[b].at = attempt[b].at /\ Covered[b].user = attempt[b].user
<1>1. \A r \in Attempt : /\ Below(r) \in Attempt
                         /\ Below(r).at = r.at /\ Below(r).user = r.user
  BY DEF Below, Attempt
<1>. QED BY <1>1 DEF Covered

LEMMA IdleType == IdleAttempt \in Attempt /\ IdleAttempt.at = "idle" /\ IdleAttempt.user = Nil
BY DEF IdleAttempt, Attempt

LEMMA MovesBy ==
  ASSUME TypeOK, NEW a \in Attempts, NEW to \in LoginSteps \cup RegisterSteps,
         \/ attempt' = [attempt EXCEPT ![a].at = to]
         \/ attempt' = [Covered EXCEPT ![a].at = to]
  PROVE  Moves(a, to)
<1>1. attempt \in [Attempts -> Attempt]
  BY DEF TypeOK
<1>2. to # "idle"
  BY DEF LoginSteps, RegisterSteps
<1>3. \A r \in Attempt : /\ [r EXCEPT !.at = to] \in Attempt
                         /\ [r EXCEPT !.at = to].at = to
                         /\ [r EXCEPT !.at = to].user = r.user
  BY DEF Attempt
<1>4. CASE attempt' = [attempt EXCEPT ![a].at = to]
  BY <1>1, <1>2, <1>3, <1>4 DEF Moves
<1>5. CASE attempt' = [Covered EXCEPT ![a].at = to]
  BY <1>1, <1>2, <1>3, <1>5, CoveredType DEF Moves
<1>. QED BY <1>4, <1>5

LEMMA MovesToIdle ==
  ASSUME TypeOK, NEW a \in Attempts,
         \/ attempt' = [attempt EXCEPT ![a] = IdleAttempt]
         \/ attempt' = [Covered EXCEPT ![a] = IdleAttempt]
  PROVE  Moves(a, "idle")
<1>1. attempt \in [Attempts -> Attempt]
  BY DEF TypeOK
<1>2. CASE attempt' = [attempt EXCEPT ![a] = IdleAttempt]
  BY <1>1, <1>2, IdleType DEF Moves
<1>3. CASE attempt' = [Covered EXCEPT ![a] = IdleAttempt]
  BY <1>1, <1>3, IdleType, CoveredType DEF Moves
<1>. QED BY <1>2, <1>3

-----------------------------------------------------------------------------
(* The writes to the preferences.                                          *)

Once(q) == \A i, j \in DOMAIN q : q[i] = q[j] => i = j

LEMMA AppendOnce ==
  ASSUME NEW q \in Seq(Attempts), NEW a \in Attempts, Once(q), \A i \in DOMAIN q : q[i] # a
  PROVE  /\ Append(q, a) \in Seq(Attempts) /\ Append(q, a) # <<>>
         /\ Once(Append(q, a))
         /\ \A i \in DOMAIN Append(q, a) :
              Append(q, a)[i] = a \/ \E j \in DOMAIN q : Append(q, a)[i] = q[j]
         /\ Append(q, a)[Len(Append(q, a))] = a
<1>1. /\ Len(q) \in Nat /\ DOMAIN q = 1..Len(q)
      /\ Append(q, a) \in Seq(Attempts) /\ Append(q, a) # <<>>
      /\ Len(Append(q, a)) = Len(q) + 1
      /\ DOMAIN Append(q, a) = 1..(Len(q) + 1)
      /\ Append(q, a)[Len(q) + 1] = a
      /\ \A i \in 1..Len(q) : Append(q, a)[i] = q[i]
  BY LenProperties, AppendProperties
<1>. QED BY <1>1 DEF Once

LEMMA TailOnce ==
  ASSUME NEW q \in Seq(Attempts), q # <<>>, Once(q)
  PROVE  /\ Tail(q) \in Seq(Attempts)
         /\ Head(q) \in Attempts
         /\ Once(Tail(q))
         /\ \A i \in DOMAIN Tail(q) : Tail(q)[i] # Head(q) /\ \E j \in DOMAIN q : Tail(q)[i] = q[j]
         /\ q[Len(q)] \in Attempts
         /\ Tail(q) = <<>> => q[Len(q)] = Head(q)
         /\ Tail(q) # <<>> => /\ Tail(q)[Len(Tail(q))] = q[Len(q)]
                              /\ q[Len(q)] # Head(q)
<1>1. /\ Len(q) \in Nat \ {0} /\ DOMAIN q = 1..Len(q)
      /\ Tail(q) \in Seq(Attempts) /\ Head(q) \in Attempts /\ Head(q) = q[1]
      /\ Len(Tail(q)) = Len(q) - 1 /\ DOMAIN Tail(q) = 1..(Len(q) - 1)
      /\ \A i \in 1..(Len(q) - 1) : Tail(q)[i] = q[i + 1]
      /\ \A i \in 1..Len(q) : q[i] \in Attempts
  BY LenProperties, HeadTailProperties
<1>2. Tail(q) = <<>> => Len(q) = 1
  BY <1>1
<1>3. Tail(q) # <<>> => Len(q) > 1
  <2>1. Len(Tail(q)) = 0 => Tail(q) = <<>>
    BY <1>1, EmptySeq
  <2>. QED BY <1>1, <2>1
<1>. QED BY <1>1, <1>2, <1>3 DEF Once

-----------------------------------------------------------------------------
(* The steps.  One lemma per action, one step per part of the invariant.   *)

LEMMA InitInv == Init => IInv
<1>1. SUFFICES ASSUME Init PROVE IInv
  OBVIOUS
<1>2. attempt \in [Attempts -> Attempt] /\ \A a \in Attempts : attempt[a] = IdleAttempt
  BY <1>1, IdleType DEF Init
<1>3. saves \in Seq(Attempts) /\ DOMAIN saves = {}
  BY <1>1 DEF Init
<1>4. TypeOK
  BY <1>1, <1>2, <1>3 DEF Init, TypeOK
<1>. QED BY <1>1, <1>2, <1>3, <1>4, IdleType
         DEF Init, IInv, TypeInv, Owners, OneWriteEach, NewestWrite, DocumentsOwed,
             StartedAsUser, MainIsPersisted, SaveSteps

\* Signed in, and the uid handed to the preferences.
LEMMA LoginOkInv ==
  ASSUME IInv, NEW a \in Attempts, LoginOk(a)
  PROVE  IInv'
<1>1. /\ TypeOK /\ Owners /\ OneWriteEach /\ NewestWrite /\ DocumentsOwed
      /\ StartedAsUser /\ MainIsPersisted
  BY DEF IInv, TypeInv
<1>2. Moves(a, "saveLogin") /\ attempt[a].at = "login" /\ attempt[a].user \in accounts
  BY <1>1, MovesBy DEF LoginOk, LoginSteps
<1>3. uId = Nil
  BY <1>1, <1>2 DEF StartedAsUser
<1>4. /\ saves' \in Seq(Attempts) /\ saves' # <<>> /\ Once(saves')
      /\ \A i \in DOMAIN saves' : saves'[i] = a \/ \E j \in DOMAIN saves : saves'[i] = saves[j]
      /\ saves'[Len(saves')] = a
  <2>1. saves \in Seq(Attempts) /\ Once(saves) /\ \A i \in DOMAIN saves : saves[i] # a
    BY <1>1, <1>2 DEF TypeOK, OneWriteEach, Once, SaveSteps
  <2>. QED BY <2>1, AppendOnce DEF LoginOk
<1>5. TypeOK'
  BY <1>1, <1>2, <1>4 DEF TypeOK, LoginOk, Moves, backend
<1>6. Owners'
  BY <1>1, <1>2 DEF Owners, LoginOk, Moves, backend, SaveSteps
<1>7. OneWriteEach'
  BY <1>1, <1>2, <1>4 DEF OneWriteEach, Moves, SaveSteps, Once, TypeOK
<1>8. NewestWrite'
  BY <1>2, <1>4 DEF NewestWrite, Moves, LoginOk
<1>9. DocumentsOwed'
  BY <1>1, <1>2 DEF DocumentsOwed, InRegistration, Moves, LoginOk, backend
<1>10. StartedAsUser' /\ MainIsPersisted'
  BY <1>1, <1>3 DEF StartedAsUser, MainIsPersisted, LoginOk
<1>. QED BY <1>5, <1>6, <1>7, <1>8, <1>9, <1>10 DEF IInv, TypeInv

\* Not signed in.
LEMMA LoginFailsInv ==
  ASSUME IInv, NEW a \in Attempts, LoginFails(a)
  PROVE  IInv'
<1>1. /\ TypeOK /\ Owners /\ OneWriteEach /\ NewestWrite /\ DocumentsOwed
      /\ StartedAsUser /\ MainIsPersisted
  BY DEF IInv, TypeInv
<1>2. Moves(a, "idle") /\ attempt[a].at = "login"
  BY <1>1, MovesToIdle DEF LoginFails
<1>3. uId = Nil
  BY <1>1, <1>2 DEF StartedAsUser
<1>4. saves' = saves /\ saves \in Seq(Attempts) /\ Once(saves)
  BY <1>1 DEF LoginFails, TypeOK, OneWriteEach, Once, device, process, notes
<1>5. /\ \A i \in DOMAIN saves : saves[i] \in Attempts /\ saves[i] # a
      /\ saves # <<>> => saves[Len(saves)] \in Attempts /\ saves[Len(saves)] # a
  <2>1. \A i \in DOMAIN saves : saves[i] \in Attempts /\ saves[i] # a
    BY <1>1, <1>2, <1>4, LenProperties DEF OneWriteEach, SaveSteps
  <2>2. saves # <<>> => Len(saves) \in DOMAIN saves
    BY <1>4, LenProperties, EmptySeq
  <2>. QED BY <2>1, <2>2
<1>6. TypeOK'
  BY <1>1, <1>2, <1>3, <1>5
     DEF TypeOK, LoginFails, Moves, backend, device, notes, Attempt, SpinnerAfter
<1>7. Owners'
  BY <1>1, <1>2 DEF Owners, LoginFails, Moves, backend, SaveSteps
<1>8. OneWriteEach'
  BY <1>1, <1>2, <1>4, <1>5 DEF OneWriteEach, Moves, SaveSteps, Once, TypeOK
<1>9. NewestWrite'
  BY <1>1, <1>2, <1>4, <1>5
     DEF NewestWrite, Excused, Moves, LoginFails, backend, device, notes
<1>10. DocumentsOwed'
  BY <1>1, <1>2
     DEF DocumentsOwed, InRegistration, Moves, LoginFails, backend, notes, TypeOK
<1>11. StartedAsUser' /\ MainIsPersisted'
  BY <1>1, <1>2, <1>3, NilAssumption
     DEF StartedAsUser, MainIsPersisted, LoginFails, TypeOK, device, notes
<1>. QED BY <1>6, <1>7, <1>8, <1>9, <1>10, <1>11 DEF IInv, TypeInv

\* The uid is stored: if it was the newest write, it names who is signed in.
LEMMA LoginSavedInv ==
  ASSUME IInv, NEW a \in Attempts, LoginSaved(a)
  PROVE  IInv'
<1>1. /\ TypeOK /\ Owners /\ OneWriteEach /\ NewestWrite /\ DocumentsOwed
      /\ StartedAsUser /\ MainIsPersisted
  BY DEF IInv, TypeInv
<1>2. Moves(a, "idle") /\ attempt[a].at = "saveLogin" /\ attempt[a].user \in accounts
  BY <1>1, MovesToIdle DEF Owners, SaveSteps, LoginSaved
<1>3. uId = Nil
  BY <1>1, <1>2 DEF StartedAsUser
<1>4. /\ saves \in Seq(Attempts) /\ saves # <<>> /\ Once(saves) /\ saves' = Tail(saves)
      /\ Head(saves) = a
  BY <1>1 DEF TypeOK, OneWriteEach, Once, LoginSaved, Saving
<1>5. /\ saves' \in Seq(Attempts) /\ Once(saves')
      /\ \A i \in DOMAIN saves' : saves'[i] # a /\ \E j \in DOMAIN saves : saves'[i] = saves[j]
      /\ saves[Len(saves)] \in Attempts
      /\ saves' = <<>> => saves[Len(saves)] = a
      /\ saves' # <<>> => saves'[Len(saves')] = saves[Len(saves)] /\ saves[Len(saves)] # a
  BY <1>4, TailOnce
<1>6. TypeOK'
  BY <1>1, <1>2, <1>3, <1>5
     DEF TypeOK, LoginSaved, Moves, backend, notes, Attempt, EnterMain
<1>7. Owners'
  BY <1>1, <1>2 DEF Owners, LoginSaved, Moves, backend, SaveSteps
<1>8. OneWriteEach'
  BY <1>1, <1>2, <1>4, <1>5 DEF OneWriteEach, Moves, SaveSteps, Once, TypeOK
<1>9. NewestWrite'
  <2>1. auth' = auth /\ prefs' = attempt[a].user
    BY DEF LoginSaved
  <2>2. Excused => Excused'
    BY <1>2, <2>1 DEF Excused, Moves, LoginSaved, notes
  <2>3. auth = attempt[saves[Len(saves)]].user \/ Excused
    BY <1>1, <1>4 DEF NewestWrite
  <2>4. CASE saves' = <<>>
    BY <1>5, <2>1, <2>2, <2>3, <2>4 DEF NewestWrite
  <2>5. CASE saves' # <<>>
    <3>1. attempt'[saves'[Len(saves')]].user = attempt[saves[Len(saves)]].user
      BY <1>2, <1>5, <2>5 DEF Moves
    <3>. QED BY <2>1, <2>2, <2>3, <2>5, <3>1 DEF NewestWrite
  <2>. QED BY <2>4, <2>5
<1>10. DocumentsOwed'
  BY <1>1, <1>2
     DEF DocumentsOwed, InRegistration, Moves, LoginSaved, backend, notes, TypeOK
<1>11. StartedAsUser' /\ MainIsPersisted'
  BY <1>1, <1>2, <1>3, NilAssumption
     DEF StartedAsUser, MainIsPersisted, LoginSaved, EnterMain, TypeOK, notes
<1>. QED BY <1>6, <1>7, <1>8, <1>9, <1>10, <1>11 DEF IInv, TypeInv

\* The uid is not stored, which excuses its account.
LEMMA LoginNotSavedInv ==
  ASSUME IInv, NEW a \in Attempts, LoginNotSaved(a)
  PROVE  IInv'
<1>1. /\ TypeOK /\ Owners /\ OneWriteEach /\ NewestWrite /\ DocumentsOwed
      /\ StartedAsUser /\ MainIsPersisted
  BY DEF IInv, TypeInv
<1>2. Moves(a, "idle") /\ attempt[a].at = "saveLogin" /\ attempt[a].user \in accounts
  BY <1>1, MovesToIdle DEF Owners, SaveSteps, LoginNotSaved
<1>3. uId = Nil
  BY <1>1, <1>2 DEF StartedAsUser
<1>4. /\ saves \in Seq(Attempts) /\ saves # <<>> /\ Once(saves) /\ saves' = Tail(saves)
      /\ Head(saves) = a
  BY <1>1 DEF TypeOK, OneWriteEach, Once, LoginNotSaved, Saving
<1>5. /\ saves' \in Seq(Attempts) /\ Once(saves')
      /\ \A i \in DOMAIN saves' : saves'[i] # a /\ \E j \in DOMAIN saves : saves'[i] = saves[j]
      /\ saves[Len(saves)] \in Attempts
      /\ saves' = <<>> => saves[Len(saves)] = a
      /\ saves' # <<>> => saves'[Len(saves')] = saves[Len(saves)] /\ saves[Len(saves)] # a
  BY <1>4, TailOnce
<1>6. TypeOK'
  BY <1>1, <1>2, <1>3, <1>5
     DEF TypeOK, LoginNotSaved, Moves, backend, device, Attempt, SpinnerAfter
<1>7. Owners'
  BY <1>1, <1>2 DEF Owners, LoginNotSaved, Moves, backend, SaveSteps
<1>8. OneWriteEach'
  BY <1>1, <1>2, <1>4, <1>5 DEF OneWriteEach, Moves, SaveSteps, Once, TypeOK
<1>9. NewestWrite'
  BY <1>1, <1>2, <1>4, <1>5
     DEF NewestWrite, Excused, Moves, LoginNotSaved, backend, device
<1>10. DocumentsOwed'
  BY <1>1, <1>2 DEF DocumentsOwed, InRegistration, Moves, LoginNotSaved, backend, TypeOK
<1>11. StartedAsUser' /\ MainIsPersisted'
  BY <1>1, <1>2, <1>3, NilAssumption
     DEF StartedAsUser, MainIsPersisted, LoginNotSaved, TypeOK, device
<1>. QED BY <1>6, <1>7, <1>8, <1>9, <1>10, <1>11 DEF IInv, TypeInv

\* The account exists before its answer.
LEMMA AccountMadeInv ==
  ASSUME IInv, NEW a \in Attempts, AccountMade(a)
  PROVE  IInv'
<1>1. /\ TypeOK /\ Owners /\ OneWriteEach /\ NewestWrite /\ DocumentsOwed
      /\ StartedAsUser /\ MainIsPersisted
  BY DEF IInv, TypeInv
<1>2. Moves(a, "registered") /\ attempt[a].at = "register" /\ attempt[a].user \in Users
  BY <1>1, MovesBy DEF Owners, AccountMade, LoginSteps, RegisterSteps
<1>3. uId = Nil
  BY <1>1, <1>2 DEF StartedAsUser
<1>4. saves' = saves /\ saves \in Seq(Attempts) /\ Once(saves)
  BY <1>1 DEF AccountMade, TypeOK, OneWriteEach, Once, device, process, notes
<1>5. /\ \A i \in DOMAIN saves : saves[i] \in Attempts /\ saves[i] # a
      /\ saves # <<>> => saves[Len(saves)] \in Attempts /\ saves[Len(saves)] # a
  <2>1. \A i \in DOMAIN saves : saves[i] \in Attempts /\ saves[i] # a
    BY <1>1, <1>2, <1>4, LenProperties DEF OneWriteEach, SaveSteps
  <2>2. saves # <<>> => Len(saves) \in DOMAIN saves
    BY <1>4, LenProperties, EmptySeq
  <2>. QED BY <2>1, <2>2
<1>6. TypeOK'
  BY <1>1, <1>2, <1>3, <1>5 DEF TypeOK, AccountMade, Moves, device, notes, Attempt
<1>7. Owners'
  BY <1>1, <1>2 DEF Owners, AccountMade, Moves, SaveSteps
<1>8. OneWriteEach'
  BY <1>1, <1>2, <1>4, <1>5 DEF OneWriteEach, Moves, SaveSteps, Once, TypeOK
<1>9. NewestWrite'
  BY <1>1, <1>2, <1>4, <1>5 DEF NewestWrite, Excused, Moves, AccountMade, device, notes
<1>10. DocumentsOwed'
  BY <1>1, <1>2 DEF DocumentsOwed, InRegistration, Moves, AccountMade, notes, TypeOK
<1>11. StartedAsUser' /\ MainIsPersisted'
  BY <1>1, <1>2, <1>3, NilAssumption
     DEF StartedAsUser, MainIsPersisted, AccountMade, TypeOK, device, notes
<1>. QED BY <1>6, <1>7, <1>8, <1>9, <1>10, <1>11 DEF IInv, TypeInv

\* Signed in by a registration, whose document is being written.
LEMMA RegisterOkInv ==
  ASSUME IInv, NEW a \in Attempts, RegisterOk(a)
  PROVE  IInv'
<1>1. /\ TypeOK /\ Owners /\ OneWriteEach /\ NewestWrite /\ DocumentsOwed
      /\ StartedAsUser /\ MainIsPersisted
  BY DEF IInv, TypeInv
<1>2. Moves(a, "profile") /\ attempt[a].at = "registered" /\ attempt[a].user \in accounts
  BY <1>1, MovesBy DEF Owners, SaveSteps, RegisterOk, LoginSteps, RegisterSteps
<1>3. uId = Nil
  BY <1>1, <1>2 DEF StartedAsUser
<1>4. saves' = saves /\ saves \in Seq(Attempts) /\ Once(saves)
  BY <1>1 DEF RegisterOk, TypeOK, OneWriteEach, Once, device, process, notes
<1>5. /\ \A i \in DOMAIN saves : saves[i] \in Attempts /\ saves[i] # a
      /\ saves # <<>> => saves[Len(saves)] \in Attempts /\ saves[Len(saves)] # a
  <2>1. \A i \in DOMAIN saves : saves[i] \in Attempts /\ saves[i] # a
    BY <1>1, <1>2, <1>4, LenProperties DEF OneWriteEach, SaveSteps
  <2>2. saves # <<>> => Len(saves) \in DOMAIN saves
    BY <1>4, LenProperties, EmptySeq
  <2>. QED BY <2>1, <2>2
<1>6. TypeOK'
  BY <1>1, <1>2, <1>3, <1>5
     DEF TypeOK, RegisterOk, Moves, backend, Attempt, SpinnerAfter
<1>7. Owners'
  BY <1>1, <1>2 DEF Owners, RegisterOk, Moves, backend, SaveSteps
<1>8. OneWriteEach'
  BY <1>1, <1>2, <1>4, <1>5 DEF OneWriteEach, Moves, SaveSteps, Once, TypeOK
<1>9. NewestWrite'
  BY <1>1, <1>2, <1>4, <1>5 DEF NewestWrite, Excused, Moves, RegisterOk, backend
<1>10. DocumentsOwed'
  BY <1>1, <1>2 DEF DocumentsOwed, InRegistration, Moves, RegisterOk, backend, TypeOK
<1>11. StartedAsUser' /\ MainIsPersisted'
  BY <1>1, <1>2, <1>3, NilAssumption
     DEF StartedAsUser, MainIsPersisted, RegisterOk, TypeOK
<1>. QED BY <1>6, <1>7, <1>8, <1>9, <1>10, <1>11 DEF IInv, TypeInv

\* A registration fails, or is taken to have failed.
LEMMA RegisterFailsInv ==
  ASSUME IInv, NEW a \in Attempts, RegisterFails(a)
  PROVE  IInv'
<1>1. /\ TypeOK /\ Owners /\ OneWriteEach /\ NewestWrite /\ DocumentsOwed
      /\ StartedAsUser /\ MainIsPersisted
  BY DEF IInv, TypeInv
<1>2. Moves(a, "idle") /\ attempt[a].at \in {"register", "registered"}
  BY <1>1, MovesToIdle DEF RegisterFails
<1>3. uId = Nil
  BY <1>1, <1>2 DEF StartedAsUser
<1>4. saves' = saves /\ saves \in Seq(Attempts) /\ Once(saves)
  BY <1>1 DEF RegisterFails, TypeOK, OneWriteEach, Once, device, process, notes
<1>5. /\ \A i \in DOMAIN saves : saves[i] \in Attempts /\ saves[i] # a
      /\ saves # <<>> => saves[Len(saves)] \in Attempts /\ saves[Len(saves)] # a
  <2>1. \A i \in DOMAIN saves : saves[i] \in Attempts /\ saves[i] # a
    BY <1>1, <1>2, <1>4, LenProperties DEF OneWriteEach, SaveSteps
  <2>2. saves # <<>> => Len(saves) \in DOMAIN saves
    BY <1>4, LenProperties, EmptySeq
  <2>. QED BY <2>1, <2>2
<1>6. TypeOK'
  BY <1>1, <1>2, <1>3, <1>5
     DEF TypeOK, Owners, SaveSteps, RegisterFails, Moves, backend, device, Attempt, SpinnerAfter
<1>7. Owners'
  BY <1>1, <1>2 DEF Owners, RegisterFails, Moves, backend, SaveSteps
<1>8. OneWriteEach'
  BY <1>1, <1>2, <1>4, <1>5 DEF OneWriteEach, Moves, SaveSteps, Once, TypeOK
<1>9. NewestWrite'
  BY <1>1, <1>2, <1>4, <1>5
     DEF NewestWrite, Excused, Moves, RegisterFails, backend, device
<1>10. DocumentsOwed'
  BY <1>1, <1>2 DEF DocumentsOwed, InRegistration, Moves, RegisterFails, backend, TypeOK
<1>11. StartedAsUser' /\ MainIsPersisted'
  BY <1>1, <1>2, <1>3, NilAssumption
     DEF StartedAsUser, MainIsPersisted, RegisterFails, TypeOK, device
<1>. QED BY <1>6, <1>7, <1>8, <1>9, <1>10, <1>11 DEF IInv, TypeInv

\* The document is stored, while its account is signed in.
LEMMA ProfileStoredInv ==
  ASSUME IInv, NEW a \in Attempts, ProfileStored(a)
  PROVE  IInv'
<1>1. /\ TypeOK /\ Owners /\ OneWriteEach /\ NewestWrite /\ DocumentsOwed
      /\ StartedAsUser /\ MainIsPersisted
  BY DEF IInv, TypeInv
<1>2. Moves(a, "saveNew") /\ attempt[a].at = "profile" /\ attempt[a].user \in accounts
  BY <1>1, MovesBy DEF Owners, SaveSteps, ProfileStored, LoginSteps, RegisterSteps
<1>3. uId = Nil
  BY <1>1, <1>2 DEF StartedAsUser
<1>4. saves \in Seq(Attempts) /\ Once(saves) /\ \A i \in DOMAIN saves : saves[i] # a
  BY <1>1, <1>2 DEF TypeOK, OneWriteEach, Once, SaveSteps
<1>5. /\ saves' \in Seq(Attempts) /\ saves' # <<>> /\ Once(saves')
      /\ \A i \in DOMAIN saves' : saves'[i] = a \/ \E j \in DOMAIN saves : saves'[i] = saves[j]
      /\ saves'[Len(saves')] = a
  BY <1>4, AppendOnce DEF ProfileStored
<1>6. TypeOK'
  BY <1>1, <1>2, <1>3, <1>5 DEF TypeOK, ProfileStored, Moves, Attempt, EnterMain
<1>7. Owners'
  BY <1>1, <1>2 DEF Owners, ProfileStored, Moves, SaveSteps
<1>8. OneWriteEach'
  BY <1>1, <1>2, <1>4, <1>5 DEF OneWriteEach, Moves, SaveSteps, Once, TypeOK
<1>9. NewestWrite'
  BY <1>1, <1>2, <1>4, <1>5 DEF NewestWrite, Excused, Moves, ProfileStored, Sendable
<1>10. DocumentsOwed'
  BY <1>1, <1>2
     DEF DocumentsOwed, InRegistration, Moves, ProfileStored, Sendable, TypeOK
<1>11. StartedAsUser' /\ MainIsPersisted'
  BY <1>1, <1>2, <1>3, NilAssumption
     DEF StartedAsUser, MainIsPersisted, ProfileStored, EnterMain, TypeOK
<1>. QED BY <1>6, <1>7, <1>8, <1>9, <1>10, <1>11 DEF IInv, TypeInv

\* The document is rejected, while its account is signed in.
LEMMA ProfileRejectedInv ==
  ASSUME IInv, NEW a \in Attempts, ProfileRejected(a)
  PROVE  IInv'
<1>1. /\ TypeOK /\ Owners /\ OneWriteEach /\ NewestWrite /\ DocumentsOwed
      /\ StartedAsUser /\ MainIsPersisted
  BY DEF IInv, TypeInv
<1>2. Moves(a, "idle") /\ attempt[a].at = "profile" /\ attempt[a].user \in accounts
  BY <1>1, MovesToIdle DEF Owners, SaveSteps, ProfileRejected
<1>3. uId = Nil
  BY <1>1, <1>2 DEF StartedAsUser
<1>4. saves' = saves /\ saves \in Seq(Attempts) /\ Once(saves)
  BY <1>1 DEF ProfileRejected, TypeOK, OneWriteEach, Once, device, process, notes
<1>5. /\ \A i \in DOMAIN saves : saves[i] \in Attempts /\ saves[i] # a
      /\ saves # <<>> => saves[Len(saves)] \in Attempts /\ saves[Len(saves)] # a
  <2>1. \A i \in DOMAIN saves : saves[i] \in Attempts /\ saves[i] # a
    BY <1>1, <1>2, <1>4, LenProperties DEF OneWriteEach, SaveSteps
  <2>2. saves # <<>> => Len(saves) \in DOMAIN saves
    BY <1>4, LenProperties, EmptySeq
  <2>. QED BY <2>1, <2>2
<1>6. TypeOK'
  BY <1>1, <1>2, <1>3, <1>5
     DEF TypeOK, ProfileRejected, Moves, backend, Attempt, SpinnerAfter
<1>7. Owners'
  BY <1>1, <1>2 DEF Owners, ProfileRejected, Moves, backend, SaveSteps
<1>8. OneWriteEach'
  BY <1>1, <1>2, <1>4, <1>5 DEF OneWriteEach, Moves, SaveSteps, Once, TypeOK
<1>9. NewestWrite'
  BY <1>1, <1>2, <1>4, <1>5
     DEF NewestWrite, Excused, Moves, ProfileRejected, backend, Sendable
<1>10. DocumentsOwed'
  BY <1>1, <1>2
     DEF DocumentsOwed, InRegistration, Moves, ProfileRejected, backend, Sendable, TypeOK
<1>11. StartedAsUser' /\ MainIsPersisted'
  BY <1>1, <1>2, <1>3, NilAssumption
     DEF StartedAsUser, MainIsPersisted, ProfileRejected, TypeOK
<1>. QED BY <1>6, <1>7, <1>8, <1>9, <1>10, <1>11 DEF IInv, TypeInv

\* The uid of a new account is stored.
LEMMA NewSavedInv ==
  ASSUME IInv, NEW a \in Attempts, NewSaved(a)
  PROVE  IInv'
<1>1. /\ TypeOK /\ Owners /\ OneWriteEach /\ NewestWrite /\ DocumentsOwed
      /\ StartedAsUser /\ MainIsPersisted
  BY DEF IInv, TypeInv
<1>2. Moves(a, "idle") /\ attempt[a].at = "saveNew" /\ attempt[a].user \in accounts
  BY <1>1, MovesToIdle DEF Owners, SaveSteps, NewSaved
<1>3. uId = Nil
  BY <1>1, <1>2 DEF StartedAsUser
<1>4. /\ saves \in Seq(Attempts) /\ saves # <<>> /\ Once(saves) /\ saves' = Tail(saves)
      /\ Head(saves) = a
  BY <1>1 DEF TypeOK, OneWriteEach, Once, NewSaved, Saving
<1>5. /\ saves' \in Seq(Attempts) /\ Once(saves')
      /\ \A i \in DOMAIN saves' : saves'[i] # a /\ \E j \in DOMAIN saves : saves'[i] = saves[j]
      /\ saves[Len(saves)] \in Attempts
      /\ saves' = <<>> => saves[Len(saves)] = a
      /\ saves' # <<>> => saves'[Len(saves')] = saves[Len(saves)] /\ saves[Len(saves)] # a
  BY <1>4, TailOnce
<1>6. TypeOK'
  BY <1>1, <1>2, <1>3, <1>5
     DEF TypeOK, NewSaved, Moves, backend, notes, Attempt, EnterMain
<1>7. Owners'
  BY <1>1, <1>2 DEF Owners, NewSaved, Moves, backend, SaveSteps
<1>8. OneWriteEach'
  BY <1>1, <1>2, <1>4, <1>5 DEF OneWriteEach, Moves, SaveSteps, Once, TypeOK
<1>9. NewestWrite'
  <2>1. auth' = auth /\ prefs' = attempt[a].user
    BY DEF NewSaved
  <2>2. Excused => Excused'
    BY <1>2, <2>1 DEF Excused, Moves, NewSaved, notes
  <2>3. auth = attempt[saves[Len(saves)]].user \/ Excused
    BY <1>1, <1>4 DEF NewestWrite
  <2>4. CASE saves' = <<>>
    BY <1>5, <2>1, <2>2, <2>3, <2>4 DEF NewestWrite
  <2>5. CASE saves' # <<>>
    <3>1. attempt'[saves'[Len(saves')]].user = attempt[saves[Len(saves)]].user
      BY <1>2, <1>5, <2>5 DEF Moves
    <3>. QED BY <2>1, <2>2, <2>3, <2>5, <3>1 DEF NewestWrite
  <2>. QED BY <2>4, <2>5
<1>10. DocumentsOwed'
  BY <1>1, <1>2
     DEF DocumentsOwed, InRegistration, Moves, NewSaved, backend, notes, TypeOK
<1>11. StartedAsUser' /\ MainIsPersisted'
  BY <1>1, <1>2, <1>3, NilAssumption
     DEF StartedAsUser, MainIsPersisted, NewSaved, EnterMain, TypeOK, notes
<1>. QED BY <1>6, <1>7, <1>8, <1>9, <1>10, <1>11 DEF IInv, TypeInv

\* It is not.
LEMMA NewNotSavedInv ==
  ASSUME IInv, NEW a \in Attempts, NewNotSaved(a)
  PROVE  IInv'
<1>1. /\ TypeOK /\ Owners /\ OneWriteEach /\ NewestWrite /\ DocumentsOwed
      /\ StartedAsUser /\ MainIsPersisted
  BY DEF IInv, TypeInv
<1>2. Moves(a, "idle") /\ attempt[a].at = "saveNew" /\ attempt[a].user \in accounts
  BY <1>1, MovesToIdle DEF Owners, SaveSteps, NewNotSaved
<1>3. uId = Nil
  BY <1>1, <1>2 DEF StartedAsUser
<1>4. /\ saves \in Seq(Attempts) /\ saves # <<>> /\ Once(saves) /\ saves' = Tail(saves)
      /\ Head(saves) = a
  BY <1>1 DEF TypeOK, OneWriteEach, Once, NewNotSaved, Saving
<1>5. /\ saves' \in Seq(Attempts) /\ Once(saves')
      /\ \A i \in DOMAIN saves' : saves'[i] # a /\ \E j \in DOMAIN saves : saves'[i] = saves[j]
      /\ saves[Len(saves)] \in Attempts
      /\ saves' = <<>> => saves[Len(saves)] = a
      /\ saves' # <<>> => saves'[Len(saves')] = saves[Len(saves)] /\ saves[Len(saves)] # a
  BY <1>4, TailOnce
<1>6. TypeOK'
  BY <1>1, <1>2, <1>3, <1>5
     DEF TypeOK, NewNotSaved, Moves, backend, device, Attempt, SpinnerAfter
<1>7. Owners'
  BY <1>1, <1>2 DEF Owners, NewNotSaved, Moves, backend, SaveSteps
<1>8. OneWriteEach'
  BY <1>1, <1>2, <1>4, <1>5 DEF OneWriteEach, Moves, SaveSteps, Once, TypeOK
<1>9. NewestWrite'
  BY <1>1, <1>2, <1>4, <1>5
     DEF NewestWrite, Excused, Moves, NewNotSaved, backend, device
<1>10. DocumentsOwed'
  BY <1>1, <1>2 DEF DocumentsOwed, InRegistration, Moves, NewNotSaved, backend, TypeOK
<1>11. StartedAsUser' /\ MainIsPersisted'
  BY <1>1, <1>2, <1>3, NilAssumption
     DEF StartedAsUser, MainIsPersisted, NewNotSaved, TypeOK, device
<1>. QED BY <1>6, <1>7, <1>8, <1>9, <1>10, <1>11 DEF IInv, TypeInv

\* A form is submitted; no account is affected yet.
LEMMA SubmitInv ==
  ASSUME IInv, NEW a \in Attempts, NEW u \in Users,
         SubmitLogin(a, u) \/ SubmitRegister(a, u)
  PROVE  IInv'
<1>1. /\ TypeOK /\ Owners /\ OneWriteEach /\ NewestWrite /\ DocumentsOwed
      /\ StartedAsUser /\ MainIsPersisted
  BY DEF IInv, TypeInv
<1>2. PICK step \in {"login", "register"} : Begin(a, u, step) /\ screen # "main"
  BY DEF SubmitLogin, SubmitRegister
<1>3. /\ attempt' \in [Attempts -> Attempt]
      /\ attempt[a].at = "idle" /\ attempt'[a].at = step /\ attempt'[a].user = u
      /\ \A b \in Attempts : b # a => attempt'[b] = attempt[b]
  BY <1>1, <1>2 DEF TypeOK, Begin, Attempt, LoginSteps, RegisterSteps
<1>4. uId = Nil
  BY <1>1, <1>2 DEF StartedAsUser
<1>5. /\ \A i \in DOMAIN saves : saves[i] \in Attempts /\ saves[i] # a
      /\ saves # <<>> => saves[Len(saves)] \in Attempts /\ saves[Len(saves)] # a
  <2>1. \A i \in DOMAIN saves : saves[i] \in Attempts /\ saves[i] # a
    BY <1>1, <1>3, LenProperties DEF TypeOK, OneWriteEach, SaveSteps
  <2>2. saves # <<>> => Len(saves) \in DOMAIN saves
    BY <1>1, LenProperties, EmptySeq DEF TypeOK
  <2>. QED BY <2>1, <2>2
<1>6. TypeOK'
  BY <1>1, <1>2, <1>3 DEF TypeOK, Begin, backend, device, notes
<1>7. Owners'
  BY <1>1, <1>2, <1>3 DEF Owners, Begin, backend, SaveSteps
<1>8. OneWriteEach'
  BY <1>1, <1>2, <1>3, <1>5 DEF OneWriteEach, Begin
<1>9. NewestWrite'
  BY <1>1, <1>2, <1>3, <1>5 DEF NewestWrite, Excused, Begin, device, notes
<1>10. DocumentsOwed'
  BY <1>1, <1>2, <1>3 DEF DocumentsOwed, InRegistration, Begin, backend, notes
<1>11. StartedAsUser' /\ MainIsPersisted'
  BY <1>1, <1>2, <1>4 DEF StartedAsUser, MainIsPersisted, Begin, device, notes
<1>. QED BY <1>6, <1>7, <1>8, <1>9, <1>10, <1>11 DEF IInv, TypeInv

\* Screens come and go under the calls that they made.
LEMMA ScreensInv ==
  ASSUME IInv,
         \/ ToRegister \/ ToLogin
         \/ Dispose(LoginSteps) \/ Dispose(RegisterSteps)
         \/ ToggleVisibility
  PROVE  IInv'
<1>1. /\ TypeOK /\ Owners /\ OneWriteEach /\ NewestWrite /\ DocumentsOwed
      /\ StartedAsUser /\ MainIsPersisted
  BY DEF IInv, TypeInv
<1>2. attempt \in [Attempts -> Attempt]
  BY <1>1 DEF TypeOK
<1>3. \A r \in Attempt : /\ [r EXCEPT !.on = "gone"] \in Attempt
                         /\ [r EXCEPT !.on = "gone"].at = r.at
                         /\ [r EXCEPT !.on = "gone"].user = r.user
  BY DEF Attempt
<1>4. \A steps : Dispose(steps) => Still
  BY <1>2, <1>3 DEF Dispose, Still
<1>5. \A form : ShowForm(form) => Still
  BY <1>2, CoveredType DEF ShowForm, Still
<1>6. ToggleVisibility => Still
  BY <1>2 DEF ToggleVisibility, Still
<1>7. Still
  BY <1>4, <1>5, <1>6 DEF ToRegister, ToLogin
<1>8. /\ UNCHANGED <<backend, device, saves, uId, notes>>
      /\ screen' \in {"login", "register", "main"} /\ spinner' \in BOOLEAN
      /\ screen' = "main" <=> screen = "main"
  BY <1>1 DEF TypeOK, ToRegister, ToLogin, ShowForm, Dispose, ToggleVisibility
<1>9. TypeOK'
  BY <1>1, <1>7, <1>8 DEF TypeOK, Still, backend, device, notes
<1>10. Owners' /\ OneWriteEach'
  BY <1>1, <1>7, <1>8, LenProperties
     DEF TypeOK, Owners, OneWriteEach, Still, backend, SaveSteps
<1>11. NewestWrite'
  <2>1. saves # <<>> => saves[Len(saves)] \in Attempts
    BY <1>1, LenProperties, EmptySeq DEF TypeOK
  <2>. QED BY <1>1, <1>7, <1>8, <2>1 DEF NewestWrite, Excused, Still, device, notes
<1>12. DocumentsOwed'
  BY <1>1, <1>7, <1>8 DEF DocumentsOwed, InRegistration, Still, backend, notes
<1>13. StartedAsUser' /\ MainIsPersisted'
  BY <1>1, <1>7, <1>8 DEF StartedAsUser, MainIsPersisted, Still, device, notes
<1>. QED BY <1>9, <1>10, <1>11, <1>12, <1>13 DEF IInv, TypeInv

\* The process is killed and started again.
LEMMA RestartInv ==
  ASSUME IInv, Restart
  PROVE  IInv'
<1>1. /\ TypeOK /\ Owners /\ OneWriteEach /\ NewestWrite /\ DocumentsOwed
      /\ StartedAsUser /\ MainIsPersisted
  BY DEF IInv, TypeInv
<1>2. /\ attempt' \in [Attempts -> Attempt]
      /\ \A a \in Attempts : attempt'[a].at = "idle"
  BY IdleType DEF Restart
<1>3. saves' = <<>> /\ saves' \in Seq(Attempts) /\ DOMAIN saves' = {}
  BY DEF Restart
<1>4. TypeOK'
  <2>1. \A a \in Attempts : SignedInBy(a) => attempt[a].user \in accounts
    BY <1>1 DEF Owners, SignedInBy, SaveSteps
  <2>2. unsaved' \subseteq accounts
    BY <1>1, <2>1 DEF Restart, TypeOK
  <2>3. cut' \subseteq accounts
    BY <1>1 DEF Restart, TypeOK, Owners, InRegistration
  <2>. QED BY <1>1, <1>2, <1>3, <2>2, <2>3 DEF Restart, TypeOK, backend, device, ReadUid
<1>5. Owners' /\ OneWriteEach'
  BY <1>2, <1>3 DEF Owners, OneWriteEach, SaveSteps
<1>6. NewestWrite'
  <2>1. \A a \in Attempts : SignedInBy(a) => attempt[a].user \in unsaved'
    BY DEF Restart
  <2>2. saves # <<>> => saves[Len(saves)] \in Attempts /\ SignedInBy(saves[Len(saves)])
    BY <1>1, LenProperties, EmptySeq DEF TypeOK, OneWriteEach, SaveSteps, SignedInBy
  <2>3. auth = prefs \/ auth \in unsaved'
    BY <1>1, <2>1, <2>2 DEF NewestWrite, Excused, SignedInBy, Restart
  <2>. QED BY <1>3, <2>3 DEF NewestWrite, Excused, Restart, device
<1>7. DocumentsOwed'
  BY <1>1 DEF DocumentsOwed, Restart, backend, TypeOK
<1>8. StartedAsUser' /\ MainIsPersisted'
  BY <1>2, <1>3 DEF StartedAsUser, MainIsPersisted, Restart, ReadUid, device
<1>. QED BY <1>4, <1>5, <1>6, <1>7, <1>8 DEF IInv, TypeInv

\* A document left behind is sent or rejected.
LEMMA OrphanInv ==
  ASSUME IInv, NEW u \in Users, OrphanStored(u) \/ OrphanRejected(u)
  PROVE  IInv'
<1>1. /\ TypeOK /\ Owners /\ OneWriteEach /\ NewestWrite /\ DocumentsOwed
      /\ StartedAsUser /\ MainIsPersisted
  BY DEF IInv, TypeInv
<1>2. /\ UNCHANGED <<accounts, auth, prefs, process, notes>>
      /\ profiles \subseteq profiles' /\ profiles' \subseteq accounts
      /\ queued' \subseteq accounts
  BY <1>1 DEF OrphanStored, OrphanRejected, Sendable, TypeOK, backend
<1>3. TypeOK' /\ Owners' /\ OneWriteEach'
  BY <1>1, <1>2 DEF TypeOK, Owners, OneWriteEach, process, notes
<1>4. NewestWrite'
  BY <1>1, <1>2 DEF NewestWrite, Excused, process, notes
<1>5. DocumentsOwed'
  BY <1>1, <1>2 DEF DocumentsOwed, InRegistration, process, notes
<1>6. StartedAsUser' /\ MainIsPersisted'
  BY <1>1, <1>2 DEF StartedAsUser, MainIsPersisted, process, notes
<1>. QED BY <1>3, <1>4, <1>5, <1>6 DEF IInv, TypeInv

LEMMA NextInv == IInv /\ [Next]_vars => IInv'
<1>1. SUFFICES ASSUME IInv, [Next]_vars PROVE IInv'
  OBVIOUS
<1>2. CASE UNCHANGED vars
  BY <1>1, <1>2
     DEF vars, backend, device, process, notes, IInv, TypeInv, TypeOK, Owners,
       OneWriteEach, NewestWrite, Excused, DocumentsOwed, InRegistration, StartedAsUser,
       MainIsPersisted
<1>3. ASSUME NEW a \in Attempts,
             AuthAnswers(a) \/ AccountMade(a) \/ ProfileAnswered(a) \/ SaveAnswered(a)
      PROVE  IInv'
  BY <1>1, <1>3, LoginOkInv, LoginFailsInv, LoginSavedInv, LoginNotSavedInv, AccountMadeInv,
     RegisterOkInv, RegisterFailsInv, ProfileStoredInv, ProfileRejectedInv, NewSavedInv,
     NewNotSavedInv
     DEF AuthAnswers, ProfileAnswered, SaveAnswered
<1>. QED BY <1>1, <1>2, <1>3, SubmitInv, ScreensInv, RestartInv, OrphanInv DEF Next

-----------------------------------------------------------------------------
(* Who waits, and what for.                                                *)

\* Two registrations of one email never both have its account.
OneRegistration ==
  \A a, b \in Attempts :
    /\ {attempt[a].at, attempt[b].at} \subseteq {"registered", "profile"}
    /\ attempt[a].user = attempt[b].user
    => a = b

WInv == IInv /\ NobodyWaitsInVain /\ OneRegistration

\* Attempt a comes to wait for its uid as it hands it over, and stops as it is
\* answered.
LEMMA SavesKept ==
  ASSUME IInv, WaitersHaveSaves, NEW a \in Attempts,
         NEW to \in LoginSteps \cup RegisterSteps \cup {"idle"}, Moves(a, to),
         \/ saves' = saves /\ to \notin SaveSteps
         \/ saves' = Append(saves, a)
         \/ saves' = Tail(saves) /\ Saving(a) /\ to \notin SaveSteps
  PROVE  WaitersHaveSaves'
<1>1. saves \in Seq(Attempts)
  BY DEF IInv, TypeInv, TypeOK
<1>2. ASSUME NEW b \in Attempts, attempt'[b].at \in SaveSteps, b # a \/ to \notin SaveSteps
      PROVE  b # a /\ \E i \in DOMAIN saves : saves[i] = b
  BY <1>2 DEF Moves, WaitersHaveSaves
<1>3. CASE saves' = saves /\ to \notin SaveSteps
  BY <1>2, <1>3 DEF WaitersHaveSaves
<1>4. CASE saves' = Append(saves, a)
  <2>1. /\ DOMAIN saves' = DOMAIN saves \cup {Len(saves) + 1}
        /\ saves'[Len(saves) + 1] = a
        /\ \A i \in DOMAIN saves : saves'[i] = saves[i]
    BY <1>1, <1>4
  <2>. QED BY <1>2, <2>1 DEF WaitersHaveSaves
<1>5. CASE saves' = Tail(saves) /\ Saving(a) /\ to \notin SaveSteps
  <2> DEFINE n == Len(saves)
  <2>1. /\ n \in Nat \ {0} /\ DOMAIN saves = 1..n /\ saves[1] = a
        /\ DOMAIN saves' = 1..(n - 1)
        /\ \A i \in 1..(n - 1) : saves'[i] = saves[i + 1]
    BY <1>1, <1>5, LenProperties, HeadTailProperties DEF Saving
  <2> HIDE DEF n
  <2>2. ASSUME NEW b \in Attempts, attempt'[b].at \in SaveSteps
        PROVE  \E i \in DOMAIN saves' : saves'[i] = b
    <3>1. PICK i \in DOMAIN saves : saves[i] = b
      BY <1>2, <1>5, <2>2
    <3>2. b # a
      BY <1>2, <1>5, <2>2
    <3>3. i - 1 \in 1..(n - 1) /\ (i - 1) + 1 = i
      BY <2>1, <3>1, <3>2
    <3>. QED BY <2>1, <3>1, <3>3
  <2>. QED BY <2>2 DEF WaitersHaveSaves
<1>. QED BY <1>3, <1>4, <1>5

\* An account is made by one registration only.
LEMMA OneRegistrationKept ==
  ASSUME IInv, OneRegistration, NEW a \in Attempts, NEW to, Moves(a, to),
         to \in {"registered", "profile"} =>
           \/ attempt[a].at \in {"registered", "profile"}
           \/ attempt[a].user \notin accounts
  PROVE  OneRegistration'
<1>1. \A b \in Attempts : attempt[b].at \in {"registered", "profile"}
                           => attempt[b].user \in accounts
  BY DEF IInv, TypeInv, Owners
<1>. QED BY <1>1 DEF OneRegistration, Moves

\* The document leaves the queue as the registration that waits for it goes on.
LEMMA DocumentsKept ==
  ASSUME OneRegistration, WaitersHaveDocuments, NEW a \in Attempts, NEW to, Moves(a, to),
         \A u \in queued : u \in queued' \/ (u = attempt[a].user /\ attempt[a].at = "profile"),
         to = "profile" => attempt[a].user \in queued'
  PROVE  WaitersHaveDocuments'
<1>1. ASSUME NEW b \in Attempts, attempt'[b].at = "profile", b # a
      PROVE  attempt'[b].user \in queued'
  BY <1>1 DEF Moves, OneRegistration, WaitersHaveDocuments
<1>. QED BY <1>1 DEF Moves, WaitersHaveDocuments

\* The spinner stays only while some call of the screen still owes it a state.
LEMMA SpinnerKept ==
  ASSUME SpinnerOwed, NEW a \in Attempts, attempt \in [Attempts -> Attempt],
         spinner' => /\ spinner
                     /\ \A b \in Attempts : b # a => attempt'[b] = attempt[b]
                     /\ \/ attempt[a].on # "top"
                        \/ attempt'[a].on = "top" /\ attempt'[a].at \in SpinSteps
  PROVE  SpinnerOwed'
BY DEF SpinnerOwed

LEMMA WaitInit == Init => NobodyWaitsInVain /\ OneRegistration
BY IdleType DEF Init, NobodyWaitsInVain, OneWriteEach, WaitersHaveSaves,
   WaitersHaveDocuments, SpinnerOwed, OneRegistration, SaveSteps

\* The answers to an attempt.
LEMMA WaitAnswered ==
  ASSUME WInv, IInv', NEW a \in Attempts,
         AuthAnswers(a) \/ AccountMade(a) \/ ProfileAnswered(a) \/ SaveAnswered(a)
  PROVE  WInv'
<1>1. /\ TypeOK /\ OneRegistration /\ WaitersHaveSaves /\ WaitersHaveDocuments
      /\ SpinnerOwed /\ OneWriteEach' /\ attempt \in [Attempts -> Attempt]
  BY DEF WInv, IInv, TypeInv, TypeOK, NobodyWaitsInVain
<1> DEFINE Kept(to) ==
      /\ Moves(a, to)
      /\ to \in LoginSteps \cup RegisterSteps \cup {"idle"}
      /\ \/ saves' = saves /\ to \notin SaveSteps
         \/ saves' = Append(saves, a)
         \/ saves' = Tail(saves) /\ Saving(a) /\ to \notin SaveSteps
      /\ to \in {"registered", "profile"} =>
           \/ attempt[a].at \in {"registered", "profile"}
           \/ attempt[a].user \notin accounts
      /\ \A u \in queued : u \in queued' \/ (u = attempt[a].user /\ attempt[a].at = "profile")
      /\ to = "profile" => attempt[a].user \in queued'
      /\ spinner' => /\ spinner
                     /\ \A b \in Attempts : b # a => attempt'[b] = attempt[b]
                     /\ \/ attempt[a].on # "top"
                        \/ attempt'[a].on = "top" /\ attempt'[a].at \in SpinSteps
<1>2. \A to : Kept(to) => WInv'
  BY <1>1, SavesKept, OneRegistrationKept, DocumentsKept, SpinnerKept
     DEF WInv, NobodyWaitsInVain
<1>3. CASE LoginOk(a)
  <2>1. Moves(a, "saveLogin")
    BY <1>1, <1>3, MovesBy DEF LoginOk, LoginSteps
  <2>2. \A b \in Attempts : b # a => attempt'[b] = attempt[b]
    BY <1>1, <1>3 DEF LoginOk
  <2>3. attempt'[a].on = attempt[a].on
    BY <1>1, <1>3 DEF LoginOk, Attempt
  <2>4. Kept("saveLogin")
    BY <1>3, <2>1, <2>2, <2>3 DEF LoginOk, Moves, LoginSteps, SpinSteps
  <2>. QED BY <1>2, <2>4
<1>4. CASE LoginFails(a) \/ RegisterFails(a)
  <2>1. Moves(a, "idle") /\ \A b \in Attempts : b # a => attempt'[b] = attempt[b]
    BY <1>1, <1>4, MovesToIdle DEF LoginFails, RegisterFails
  <2>2. spinner' = SpinnerAfter(a) /\ saves' = saves /\ queued' = queued
    BY <1>4 DEF LoginFails, RegisterFails, device
  <2>3. Kept("idle")
    BY <2>1, <2>2 DEF SpinnerAfter, SaveSteps
  <2>. QED BY <1>2, <2>3
<1>5. CASE AccountMade(a)
  <2>1. Moves(a, "registered")
    BY <1>1, <1>5, MovesBy DEF AccountMade, RegisterSteps
  <2>2. \A b \in Attempts : b # a => attempt'[b] = attempt[b]
    BY <1>1, <1>5 DEF AccountMade
  <2>3. attempt'[a].on = attempt[a].on
    BY <1>1, <1>5 DEF AccountMade, Attempt
  <2>4. Kept("registered")
    BY <1>5, <2>1, <2>2, <2>3
       DEF AccountMade, Moves, RegisterSteps, SpinSteps, SaveSteps, device
  <2>. QED BY <1>2, <2>4
<1>6. CASE RegisterOk(a)
  <2>1. Moves(a, "profile") /\ \A b \in Attempts : b # a => attempt'[b] = attempt[b]
    BY <1>1, <1>6, MovesBy DEF RegisterOk, RegisterSteps
  <2>2. Kept("profile")
    BY <1>6, <2>1 DEF RegisterOk, RegisterSteps, SpinnerAfter, SaveSteps
  <2>. QED BY <1>2, <2>2
<1>7. CASE ProfileStored(a)
  <2>1. Moves(a, "saveNew")
    BY <1>1, <1>7, MovesBy DEF ProfileStored, RegisterSteps
  <2>2. spinner' => \A b \in Attempts : b # a => attempt'[b] = attempt[b]
    BY <1>1, <1>7 DEF ProfileStored, EnterMain
  <2>3. spinner' => spinner /\ attempt[a].on # "top"
    BY <1>1, <1>7 DEF ProfileStored, EnterMain, Emits
  <2>4. /\ saves' = Append(saves, a) /\ attempt[a].at = "profile"
        /\ \A u \in queued : u \in queued' \/ u = attempt[a].user
    BY <1>7 DEF ProfileStored
  <2>5. Kept("saveNew")
    BY <2>1, <2>2, <2>3, <2>4 DEF RegisterSteps
  <2>. QED BY <1>2, <2>5
<1>8. CASE ProfileRejected(a)
  <2>1. Moves(a, "idle") /\ \A b \in Attempts : b # a => attempt'[b] = attempt[b]
    BY <1>1, <1>8, MovesToIdle DEF ProfileRejected
  <2>2. Kept("idle")
    BY <1>8, <2>1 DEF ProfileRejected, SpinnerAfter, SaveSteps
  <2>. QED BY <1>2, <2>2
<1>9. CASE SaveAnswered(a)
  <2>1. Moves(a, "idle")
    BY <1>1, <1>9, MovesToIdle DEF SaveAnswered, LoginSaved, LoginNotSaved, NewSaved, NewNotSaved
  <2>2. saves' = Tail(saves) /\ Saving(a) /\ queued' = queued
    BY <1>9 DEF SaveAnswered, LoginSaved, LoginNotSaved, NewSaved, NewNotSaved, device
  <2>3. spinner' => /\ spinner /\ attempt[a].on # "top"
                    /\ \A b \in Attempts : b # a => attempt'[b] = attempt[b]
    BY <1>1, <1>9
       DEF SaveAnswered, LoginSaved, LoginNotSaved, NewSaved, NewNotSaved, EnterMain, Emits,
           SpinnerAfter
  <2>4. Kept("idle")
    BY <2>1, <2>2, <2>3 DEF SaveSteps
  <2>. QED BY <1>2, <2>4
<1>. QED BY <1>3, <1>4, <1>5, <1>6, <1>7, <1>8, <1>9 DEF AuthAnswers, ProfileAnswered

LEMMA WaitStep == WInv /\ [Next]_vars => WInv'
<1> SUFFICES ASSUME WInv, [Next]_vars PROVE WInv'
  OBVIOUS
<1>1. IInv' /\ IInv
  BY NextInv DEF WInv
<1>2. /\ TypeOK /\ OneRegistration /\ WaitersHaveSaves /\ WaitersHaveDocuments
      /\ SpinnerOwed /\ OneWriteEach' /\ attempt \in [Attempts -> Attempt]
  BY <1>1 DEF WInv, IInv, TypeInv, TypeOK, NobodyWaitsInVain
<1>3. ASSUME Still, saves' = saves, queued' = queued, SpinnerOwed' PROVE WInv'
  BY <1>1, <1>2, <1>3
     DEF WInv, NobodyWaitsInVain, Still, WaitersHaveSaves, WaitersHaveDocuments, OneRegistration
<1>4. ASSUME ToRegister \/ ToLogin \/ ToggleVisibility PROVE WInv'
  <2>1. Still /\ spinner' = FALSE /\ saves' = saves /\ queued' = queued
    BY <1>2, <1>4, CoveredType DEF ToRegister, ToLogin, ToggleVisibility, ShowForm, Still, device
  <2>. QED BY <1>3, <2>1 DEF SpinnerOwed
<1>5. ASSUME NEW steps, Dispose(steps) PROVE WInv'
  <2>1. \A r \in Attempt : /\ [r EXCEPT !.on = "gone"] \in Attempt
                           /\ [r EXCEPT !.on = "gone"].at = r.at
                           /\ [r EXCEPT !.on = "gone"].user = r.user
    BY DEF Attempt
  <2>2. Still
    BY <1>2, <1>5, <2>1 DEF Dispose, Still
  <2>3. /\ \A a \in Attempts : attempt[a].on = "top" => attempt'[a] = attempt[a]
        /\ spinner' = spinner /\ saves' = saves /\ queued' = queued
    BY <1>2, <1>5 DEF Dispose, device
  <2>4. SpinnerOwed'
    BY <1>2, <2>3 DEF SpinnerOwed
  <2>. QED BY <1>3, <2>2, <2>3, <2>4
<1>6. ASSUME NEW a \in Attempts, NEW u \in Users, SubmitLogin(a, u) \/ SubmitRegister(a, u)
      PROVE  WInv'
  <2>1. PICK step \in {"login", "register"} : Begin(a, u, step)
    BY <1>6 DEF SubmitLogin, SubmitRegister
  <2>2. /\ attempt'[a].at = step /\ attempt'[a].on = "top"
        /\ \A b \in Attempts : b # a => attempt'[b] = attempt[b]
        /\ saves' = saves /\ queued' = queued
    BY <1>2, <2>1 DEF Begin, device
  <2>3. SpinnerOwed'
    BY <2>2 DEF SpinnerOwed, SpinSteps
  <2>4. WaitersHaveSaves' /\ WaitersHaveDocuments'
    BY <1>2, <2>2 DEF WaitersHaveSaves, WaitersHaveDocuments, SaveSteps
  <2>5. OneRegistration'
    BY <1>2, <2>2 DEF OneRegistration
  <2>. QED BY <1>1, <1>2, <2>3, <2>4, <2>5 DEF WInv, NobodyWaitsInVain
<1>7. CASE Restart
  <2>1. spinner' = FALSE /\ \A a \in Attempts : attempt'[a].at = "idle"
    BY <1>7, IdleType DEF Restart
  <2>. QED BY <1>1, <1>2, <2>1
       DEF WInv, NobodyWaitsInVain, WaitersHaveSaves, WaitersHaveDocuments, SpinnerOwed,
           OneRegistration, SaveSteps
<1>8. ASSUME NEW u \in Users, OrphanStored(u) \/ OrphanRejected(u) PROVE WInv'
  <2>1. UNCHANGED <<saves, spinner, attempt>> /\ queued' = queued \ {u} /\ Orphaned(u)
    BY <1>8 DEF OrphanStored, OrphanRejected, process
  <2>2. WaitersHaveDocuments'
    BY <1>2, <2>1 DEF WaitersHaveDocuments, Orphaned
  <2>3. WaitersHaveSaves' /\ SpinnerOwed' /\ OneRegistration'
    BY <1>2, <2>1 DEF WaitersHaveSaves, SpinnerOwed, OneRegistration
  <2>. QED BY <1>1, <1>2, <2>2, <2>3 DEF WInv, NobodyWaitsInVain
<1>9. CASE UNCHANGED vars
  BY <1>1, <1>2, <1>9
     DEF vars, process, device, WInv, NobodyWaitsInVain, WaitersHaveSaves,
         WaitersHaveDocuments, SpinnerOwed, OneRegistration
<1>. QED BY <1>1, <1>4, <1>5, <1>6, <1>7, <1>8, <1>9, WaitAnswered DEF Next

-----------------------------------------------------------------------------
(* The theorems.                                                           *)

\* Where each call stands, and what it may still write.
THEOREM InvariantHolds == Spec => []IInv
BY InitInv, NextInv, PTL DEF Spec

\* Accounts, device and process keep their types, whatever the attempts do to
\* each other (social_app_login_cubit, social_app_register_cubit, main).
THEOREM TypeCorrect == Spec => []TypeOK
<1>1. IInv => TypeOK
  BY DEF IInv, TypeInv
<1>. QED BY <1>1, InvariantHolds, PTL

\* Whoever the next start takes for its user has an account, and a profile unless
\* the registration has not got there (social_app_register_cubit:46-51).
THEOREM PersistedUserHasProfile == Spec => []PersistedHasProfile
<1>1. IInv => PersistedHasProfile
  BY DEF IInv, TypeInv, TypeOK, DocumentsOwed, PersistedHasProfile
<1>. QED BY <1>1, InvariantHolds, PTL

\* With the preferences written, they and FirebaseAuth name one account, unless
\* its sign-in could not be persisted (social_app_login_cubit:20-29, main:37).
THEOREM AuthAndPrefsAgree == Spec => []AuthMatchesPrefs
<1>1. IInv => AuthMatchesPrefs
  BY DEF IInv, NewestWrite, Excused, StartedAsUser, InRegistration, AuthMatchesPrefs
<1>. QED BY <1>1, InvariantHolds, PTL

\* Only a registration shows the main screen before the uid is stored
\* (social_app_register_cubit:54-60).
THEOREM MainScreenIsPersisted == Spec => []MainIsPersisted
<1>1. IInv => MainIsPersisted
  BY DEF IInv
<1>. QED BY <1>1, InvariantHolds, PTL

\* No attempt is parked at an answer that nothing on its way can bring, and a
\* spinner on display is owed a state by a call of its own screen: neither a login
\* nor a registration is left waiting (social_app_login_cubit:17-33,
\* social_app_register_cubit:22-66).
THEOREM NobodyIsLeftWaiting == Spec => []NobodyWaitsInVain
<1>1. Init => WInv
  BY InitInv, WaitInit DEF WInv
<1>2. WInv => NobodyWaitsInVain
  BY DEF WInv
<1>. QED BY <1>1, <1>2, WaitStep, PTL DEF Spec
=============================================================================
