SPECIFICATION Spec
CONSTANTS
  Act = {a1, a2, a3}
  NoAct = NoAct
  Batch = {b1, b2}
  Live = Live
  Absent = Absent
  Req = {r1}
  Overlap = FALSE
  MaxLinks = 3
  MaxRows = 1
SYMMETRY Symmetry
INVARIANT LogicAcyclic
CHECK_DEADLOCK FALSE
