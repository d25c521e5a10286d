SPECIFICATION FairSpec
CONSTANTS
  Users = {ann, bob}
  Devices = {ann, bob}
  Slots = {s1, s2}
  Ids = {1, 2}
  Nil = Nil
INVARIANTS CopiesAgree NobodyWaitsInVain
PROPERTIES ArrivesInOrder MessageSettles StoredIsShown
