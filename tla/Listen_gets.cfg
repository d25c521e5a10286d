SPECIFICATION FairSpec
CONSTANTS
  Queries = {q}
  Gets = {g1, g2}
  MaxVersion = 2
  MaxUnread = 2
  MaxDisruptions = 2
INVARIANTS  TrackerAsserts NobodyWaitsInVain
PROPERTIES GetEnds
CHECK_DEADLOCK FALSE
