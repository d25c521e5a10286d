SPECIFICATION Spec
CONSTANTS
  Files = {p, q, r}
  Avatar = Avatar
  Posts = {c1, c2}
  Nil = Nil
  MaxPosts = 4
SYMMETRY Symmetries
INVARIANTS  OtherwiseEarlierPicture
