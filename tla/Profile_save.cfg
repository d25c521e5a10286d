SPECIFICATION FairSpec
CONSTANTS
  Texts = {x, y}
  Phones = {}
  Files = {p}
  Stock = Stock
  Empty = Empty
  Updates = {u1, u2}
  Start = Start
  Nil = Nil
  MaxWrites = 1
INVARIANTS SettledBeforeRead UserIsCurrent NobodyWaitsInVain
PROPERTIES UpdateEnds
