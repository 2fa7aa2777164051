\* Two planners and an administrator, two requests in flight, in coarse
\* ticks that keep the order of the code's timings: a request is past grace
\* after 1 tick, a holder inactive after 2 (more than 1), a lease over after 3.
CONSTANTS
  User = {ada, bob, org}
  Admin = {org}
  NoOne = NoOne
  TTL = 3
  InactiveAfter = 1
  Grace = 1
  Req = {r1, r2}
  NoReq = NoReq
  Enforced = TRUE
  MaxTime = 4
SPECIFICATION Spec
SYMMETRY Symmetry
INVARIANT TypeOK
INVARIANT RequesterIsNotHolder
INVARIANT LapsedOnlyAfterInactive
INVARIANT PenStaysWithWriter
PROPERTY HandOverJustified
PROPERTY PenPromise
