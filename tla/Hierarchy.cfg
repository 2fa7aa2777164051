SPECIFICATION Spec
CONSTANTS
  c1 = c1
  p1 = p1
  p2 = p2
  Client = {c1}
  Project = {p1, p2}
  Plan = {1, 2}
  Parent <- Tree
  NoRow = NoRow
  Batch = {b1, b2, b3}
  Live = Live
  Absent = Absent
  Tx = {t1, t2, t3}
  Expirable = {c1, p1}
  Overlap = FALSE
SYMMETRY Symmetry
INVARIANTS NoOrphan BatchHasOneRoot RingsCrossLevels
PROPERTY NothingLiveRemoved
CHECK_DEADLOCK FALSE
