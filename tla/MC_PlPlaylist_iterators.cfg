SPECIFICATION Spec
CONSTANTS
  Playlist = {p1, p2}
  Iter = {i1, i2}
  Node = {n1, n2, n3}
  Key = {uri}
  Value = {v1}
  Position <- MCPositions
  Null = Null
SYMMETRY MCSymmetry
INVARIANTS TypeOK OnePlace NeverAstray WalkWhole
PROPERTY ElementsKeep
CHECK_DEADLOCK FALSE
