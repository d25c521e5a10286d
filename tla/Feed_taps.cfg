SPECIFICATION Spec
CONSTANTS
  PostIds = {1, 2}
  Loads = {c1}
  Uploads = {}
  Taps = {t1, t2}
  Nil = Nil
  MaxWrites = 2
SYMMETRY Slots
INVARIANTS TypeOK HeartMatchesCloud QuietFeedIsStored CountMatchesHeart
