SPECIFICATION Spec
CONSTANTS
  Queries = {q}
  Gets = {g1, g2}
  MaxVersion = 1
  MaxUnread = 1
  MaxDisruptions = 1
SYMMETRY Symmetry
INVARIANTS CurrentIsOfThisListen
CHECK_DEADLOCK FALSE
