SPECIFICATION Spec
CONSTANTS
  Users = {ann, bob, cat}
  Devices = {ann, bob}
  Slots = {s1}
  Ids = {1, 2}
  Nil = Nil
SYMMETRY Symmetries
INVARIANTS OneConversationShown
