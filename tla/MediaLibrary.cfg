SPECIFICATION MediaSpec
CONSTANTS
  Folders = {f1, f2, f3, f4}
  Slugs = {s1, s2}
  Jobs = {j1, j2}
  Files = {m1}
  MaxDepth = 3
  Scopes = {TRUE}
  Null = Null
  General = General
INVARIANTS FilesKept CircleNeedsCrossedMoves
PROPERTIES TooDeepOnlyUnderAMove EmptiedOfLatecomersOnly
CONSTRAINT Bound
SYMMETRY Symmetry
CHECK_DEADLOCK FALSE
