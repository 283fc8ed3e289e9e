SPECIFICATION MCSpec
CONSTANTS
  old = old
  new = new
  x = x
  y = y
  own = own
  other = other
  Services = {1, 2, 3}
  Chains = {own, other}
  Anchors = {old, new}
  Subjects = {x, y}
  Minute = 2
  Snapshots <- SnapshotsGiven
  Graphs <- AllGraphs
INVARIANTS
  TypeOK
  VerdictsSound
  BrokenPathsExplain
  ClearMeansClear
  SearchTypeOK
  VerdictRight
  StackIsPath
PROPERTIES
  Descends
CHECK_DEADLOCK FALSE
