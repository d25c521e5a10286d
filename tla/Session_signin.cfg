SPECIFICATION FairSpec
CONSTANTS
  Users = {ann, bob}
  Attempts = {a1, a2}
  Nil = Nil
INVARIANTS  AuthMatchesPrefs MainIsPersisted NobodyWaitsInVain
PROPERTIES SpinnerEnds AttemptEnds
