\* A founder and one who is invited, two roles, two requests at a time.
CONSTANTS
  User = {ada, bob}
  Founder = ada
  Proven = {ada, bob}
  Role = {admin, planner}
  Admin = admin
  Req = {r1, r2}
  NoReq = NoReq
  MaxSeats = 3
  MaxInvitations = 2
  MaxVersion = 2
SPECIFICATION Spec
SYMMETRY Symmetry
INVARIANT AdminRemains
INVARIANT OneEach
INVARIANT AuditTellsTheTruth
