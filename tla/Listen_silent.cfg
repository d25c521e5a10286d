SPECIFICATION SilentBackendSpec
CONSTANTS
  Queries = {q}
  Gets = {g1}
  MaxVersion = 1
  MaxUnread = 1
  MaxDisruptions = 1
PROPERTIES OnlineIsDecided
CHECK_DEADLOCK FALSE
