SPECIFICATION Spec
CONSTANTS
  Act = {a1, a2}
  NoAct = NoAct
  Batch = {b1, b2}
  Live = Live
  Absent = Absent
  Req = {r1, r2}
  Overlap = FALSE
  MaxLinks = 2
  MaxRows = 2
SYMMETRY Symmetry
INVARIANTS
  LinksJoinLive
  DeadPlanIsEmpty
PROPERTIES
  EditsKeepTreeAcyclic
CHECK_DEADLOCK FALSE
