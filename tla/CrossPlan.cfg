\* Three plans, the first with two activities, and links of three types, so that
\* a ladder can join the same two activities; two requests, three link rows, one
\* member whose pen of the third plan comes and goes.
CONSTANTS
  fs = fs
  ss = ss
  ff = ff
  Plan = {1, 2, 3}
  Act = {11, 12, 21, 31}
  PlanOf <- MCPlanOf
  Type = {fs, ss, ff}
  Member = {ada}
  NoOne = NoOne
  Req = {r1, r2}
  NoReq = NoReq
  Enforced = TRUE
  Deletable = {21}
  Contested = {3}
  Asked <- MCAsked
  MaxLinks = 3
SPECIFICATION Spec
SYMMETRY Symmetry
INVARIANT PlanGraphAcyclic
INVARIANT NoTwins
INVARIANT ChangesCountedOnce
INVARIANT ProgrammeOrdered
