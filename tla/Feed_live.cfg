SPECIFICATION FairSpec
CONSTANTS
  PostIds = {1}
  Loads = {c1}
  Uploads = {u1}
  Taps = {t1}
  Nil = Nil
  MaxWrites = 3
INVARIANTS NobodyWaitsInVain
PROPERTIES LoadNeverUnlikes CallEnds TapEnds
