SPECIFICATION Spec
CONSTANTS
  Resource = {r1, r2, r3}
  NoRes = NoRes
  Keep = Keep
  Batch = {b1, b2}
  Live = Live
  Absent = Absent
  Req = {q1, q2}
  MaxDepth = 2
  Both = FALSE
SYMMETRY Symmetry
INVARIANTS TypeOK TreeSound AssignedIsThere
