SPECIFICATION Spec
CONSTANTS
  PostIds = {1, 2}
  Loads = {c1, c2}
  Uploads = {}
  Taps = {}
  Nil = Nil
  MaxWrites = 2
SYMMETRY Slots
INVARIANTS RowsAligned TapHitsShownPost
