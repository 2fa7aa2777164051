SPECIFICATION Spec
CONSTANTS
  Act = {a1, a2, a3}
  NoAct = NoAct
  Batch = {b1, b2}
  Live = Live
  Absent = Absent
  Req = {r1}
  Overlap = FALSE
  MaxLinks = 2
  MaxRows = 0
SYMMETRY Symmetry
INVARIANTS
  DeleteThenRestoreIsIdentity
PROPERTIES
  EditsKeepLogicAcyclic
  EditsKeepFiling
CHECK_DEADLOCK FALSE
