\* Two plans, the second deriving from the first, two requests at a time and
\* three in all.  No request arrives after the last: the system stops.
CONSTANTS
  Plan = {1, 2}
  Upstream <- MCUpstream
  Programmes <- MCProgrammes
  Req = {r1, r2}
  NoReq = NoReq
  MaxRequests = 3
SPECIFICATION Spec
CHECK_DEADLOCK FALSE
INVARIANT LockedEditsAreFlagged
INVARIANT CursorDescribesResults
INVARIANT ProgrammeIsUpToDate
PROPERTY ResultsMoveForward
PROPERTY EveryRequestEnds
