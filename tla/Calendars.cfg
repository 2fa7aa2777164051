SPECIFICATION CalendarsSpec
CONSTANTS
  x1 = x1
  p1 = p1
  a1 = a1
  Calendar = {1}
  NoCal = NoCal
  Project = {x1, x2}
  Org = Org
  Plan = {p1}
  Activity = {a1}
  Resource = {r1}
  HomeOf <- MCHomeOf
  PlanOf <- MCPlanOf
  Batch = {b1, b2}
  Live = Live
  Absent = Absent
  Slot = {q1, q2}
  Nobody = Nobody
SYMMETRY Symmetry
INVARIANT HoldersKeepCalendar
