--------------------------- MODULE EditingProofs ---------------------------
(***************************************************************************)
(* Proofs about what lets one planner edit at a time and take an edit back *)
(* safely: the plan edit-lock (PlanLock), for any users, request slots and *)
(* timings that satisfy the assumptions of PlanLockPolicy and PlanLock,    *)
(* and the page's undo history (EditHistory), for any rows, values and     *)
(* depth.                                                                  *)
(***************************************************************************)
EXTENDS PlanLock, EditHistory, SequenceTheorems, TLAPS

(***************************************************************************)
(* The plan edit-lock.                                                     *)
(***************************************************************************)

\* The requests inside the advisory-lock transaction: at most one, the owner.
MutexDiscipline == \A r \in Req : call[r].pc \in InTx <=> mutex = r

\* A request being served belongs to a user, and its clock reading is past.
RequestsInOrder ==
  \A r \in Req : /\ call[r].pc # "idle" => call[r].user \in User
                 /\ call[r].now <= clock

\* Every lease runs for TTL from its last heartbeat.
FullLease(lock) == lock.holder # NoOne => lock.expiresAt = lock.heartbeatAt + TTL

\* What a deciding request has read still stands, unless the row was released:
\* only its heartbeat may have moved.
SeenStands ==
  \A r \in Req : call[r].pc = "decide" =>
    /\ FullLease(call[r].seen)
    /\ row.holder # NoOne =>
         /\ row.holder = call[r].seen.holder
         /\ row.requestedBy = call[r].seen.requestedBy
         /\ row.requestedAt = call[r].seen.requestedAt

\* The inductive invariant.
IInv ==
  /\ TypeOK
  /\ MutexDiscipline
  /\ RequestsInOrder
  /\ FullLease(row)
  /\ SeenStands
  /\ RequesterIsNotHolder
  /\ PenStaysWithWriter

-----------------------------------------------------------------------------
(* Shapes of the records the steps build.                                  *)

LEMMA LeaseType ==
  ASSUME NEW u \in User, NEW now \in Nat
  PROVE  /\ LeaseTo(u, now) \in LockRow
         /\ FullLease(LeaseTo(u, now))
         /\ LeaseTo(u, now).holder = u
         /\ LeaseTo(u, now).requestedBy = NoOne
         /\ u # NoOne
  BY PolicyAssumption DEF LeaseTo, LockRow, FullLease

LEMMA FreeType == Free \in LockRow /\ Free.holder = NoOne /\ Free.requestedBy = NoOne
  BY DEF Free, LockRow

LEMMA IdleType == Idle \in Call /\ Idle.pc = "idle" /\ Idle.now = 0
  BY FreeType DEF Idle, Call, Pc, Op, LockedOps, CoordOps, InTx


\* Writing a lease keeps the row well typed, whoever it is for.
LEMMA LeaseRow ==
  ASSUME NEW u \in User \cup {NoOne}, NEW now \in Nat
  PROVE  LeaseTo(u, now) \in LockRow
  BY PolicyAssumption DEF LeaseTo, LockRow

\* So does renewing its heartbeat, which touches nothing but the lease.
LEMMA RenewedRow ==
  ASSUME NEW lock \in LockRow, NEW now \in Nat
  PROVE  /\ Renewed(lock, now) \in LockRow
         /\ Renewed(lock, now).holder = lock.holder
         /\ Renewed(lock, now).requestedBy = lock.requestedBy
         /\ Renewed(lock, now).requestedAt = lock.requestedAt
         /\ FullLease(Renewed(lock, now))
<1>1. now + TTL \in Nat
  BY PolicyAssumption
<1>2. Renewed(lock, now) \in LockRow
  BY <1>1 DEF LockRow, Renewed
<1>3. /\ Renewed(lock, now).expiresAt = now + TTL
      /\ Renewed(lock, now).heartbeatAt = now
  BY DEF LockRow, Renewed
<1>4. /\ Renewed(lock, now).holder = lock.holder
      /\ Renewed(lock, now).requestedBy = lock.requestedBy
      /\ Renewed(lock, now).requestedAt = lock.requestedAt
  BY DEF LockRow, Renewed
<1> QED
  BY <1>2, <1>3, <1>4 DEF FullLease

\* Every step keeps the types.
LEMMA TypeStep == TypeOK /\ [Next]_vars => TypeOK'
<1> SUFFICES ASSUME TypeOK, [Next]_vars PROVE TypeOK'
  OBVIOUS
<1> USE DEF TypeOK
<1>1. CASE Tick
  BY <1>1 DEF Tick
<1>2. ASSUME NEW r \in Req, Serve(r) PROVE TypeOK'
  <2> USE FreeType, IdleType
  <2> call[r] \in Call
    OBVIOUS
  <2>a. ASSUME NEW c \in Call, call' = [call EXCEPT ![r] = c]
        PROVE  call' \in [Req -> Call]
    BY <2>a
  <2>b. ASSUME NEW pc \in Pc, Goto(r, pc) PROVE call' \in [Req -> Call]
    BY <2>b DEF Goto, Call
  <2>c. ASSUME EndTx(r) PROVE mutex' \in Req \cup {NoReq} /\ call' \in [Req -> Call]
    BY <2>c DEF EndTx
  <2>1. ASSUME NEW u \in User, NEW op \in Op, Arrive(r, u, op) PROVE TypeOK'
    <3>1. FirstPc(op) \in Pc
      BY DEF FirstPc, Pc, Op, InTx
    <3>2. [Idle EXCEPT !.pc = FirstPc(op), !.op = op, !.user = u,
                      !.now = IF op \in {"early", "beat"} THEN clock ELSE 0] \in Call
      BY <3>1 DEF Call
    <3> QED BY <2>1, <2>a, <3>2 DEF Arrive
  <2>2. CASE EnterTx(r)
    BY <2>2 DEF EnterTx, Call, Pc, InTx
  <2>3. CASE ReadRow(r)
    BY <2>3 DEF ReadRow, Call, Pc, InTx
  <2>4. CASE AcquireFree(r) \/ TakeOver(r)
    BY <2>4, <2>c, LeaseRow DEF AcquireFree, TakeOver, Call
  <2>5. CASE AcquireRenew(r)
    BY <2>5, <2>c, RenewedRow DEF AcquireRenew, Call
  <2>6. CASE RequestStamp(r)
    <3>1. [row EXCEPT !.requestedBy = call[r].user, !.requestedAt = call[r].now] \in LockRow
      BY DEF LockRow, Call
    <3> QED BY <2>6, <2>c, <3>1 DEF RequestStamp
  <2>7. CASE AcquireRefused(r) \/ RequestNoop(r) \/ HandOffRefused(r)
             \/ GatedRefused(r) \/ WriteCommit(r)
    BY <2>7, <2>c DEF AcquireRefused, RequestNoop, HandOffRefused, GatedRefused,
                      WriteCommit
  <2>8. CASE HandOff(r)
    <3>1. call[r].seen.requestedBy \in User \cup {NoOne} /\ call[r].now \in Nat
      BY DEF Call, LockRow
    <3> QED BY <2>8, <2>c, <3>1, LeaseRow DEF HandOff
  <2>9. CASE GatedAdmit(r) \/ EarlyAdmit(r) \/ EarlyEnterTx(r)
    <3>1. {"writing", "queuedEarly", "writingEarly"} \subseteq Pc
      BY DEF Pc, InTx
    <3> QED BY <2>9, <2>b, <3>1 DEF GatedAdmit, EarlyAdmit, EarlyEnterTx
  <2>10. CASE EarlyRefused(r)
    BY <2>10, <2>a DEF EarlyRefused
  <2>11. CASE Beat(r)
    BY <2>11, <2>a, RenewedRow DEF Beat, Call
  <2>12. CASE Release(r)
    BY <2>12, <2>a DEF Release
  <2> QED BY <1>2, <2>1, <2>2, <2>3, <2>4, <2>5, <2>6, <2>7, <2>8, <2>9, <2>10,
             <2>11, <2>12 DEF Serve
<1>3. CASE UNCHANGED vars
  BY <1>3 DEF vars
<1> QED BY <1>1, <1>2, <1>3 DEF Next

\* Type correctness, for every value of the constants.
THEOREM TypeCorrect == Spec => []TypeOK
<1>1. Init => TypeOK
  BY FreeType, IdleType DEF Init, TypeOK
<1> QED
  BY <1>1, TypeStep, PTL DEF Spec

-----------------------------------------------------------------------------
(* The inductive step.                                                     *)

\* A step that enters, stays in or leaves the transaction as mutex says keeps
\* the advisory lock's discipline.
LEMMA DisciplineStep ==
  ASSUME IInv, NEW r \in Req,
         \A q \in Req \ {r} : call'[q] = call[q],
         \/ /\ mutex = NoReq /\ mutex' = r /\ call'[r].pc \in InTx
         \/ /\ mutex = r /\ mutex' = r /\ call'[r].pc \in InTx
         \/ /\ mutex = r /\ mutex' = NoReq /\ call'[r].pc \notin InTx
         \/ /\ call[r].pc \notin InTx /\ mutex' = mutex /\ call'[r].pc \notin InTx
  PROVE  MutexDiscipline'
  BY ServiceAssumption DEF IInv, MutexDiscipline

\* Whoever is not in the transaction has neither read the row nor been
\* admitted; while r is in it, that is everyone else.
LEMMA OthersOutside ==
  ASSUME MutexDiscipline, NEW r \in Req, call[r].pc \in InTx,
         NEW q \in Req \ {r}
  PROVE  call[q].pc \notin {"decide", "writing"}
  BY DEF MutexDiscipline, InTx

\* A lapsed lease belongs to a holder already presumed away.
LEMMA LapsedIsSilent ==
  ASSUME NEW lock \in LockRow, NEW now \in Nat, FullLease(lock), IsExpired(lock, now)
  PROVE  IsHolderInactive(lock, now)
  BY PolicyAssumption DEF LockRow, FullLease, IsExpired, IsHolderInactive

\* Steps that keep the row, release it or renew its lease, and let nobody
\* read or be admitted, disturb none of the row's guarantees.
LEMMA RowFrame ==
  ASSUME IInv, TypeOK',
         \/ row' = row
         \/ row' = Free
         \/ row.holder # NoOne /\ \E now \in Nat : row' = Renewed(row, now),
         \A q \in Req : call'[q] = call[q] \/ call'[q].pc \notin {"decide", "writing"}
  PROVE  (FullLease(row) /\ SeenStands /\ RequesterIsNotHolder /\ PenStaysWithWriter)'
<1>1. /\ FullLease(row')
      /\ row'.holder # NoOne => /\ row'.holder = row.holder
                                /\ row'.requestedBy = row.requestedBy
                                /\ row'.requestedAt = row.requestedAt
      /\ row'.holder = NoOne => row' = Free
  BY RenewedRow, FreeType DEF IInv, TypeOK, RequesterIsNotHolder, IsFree, FullLease
<1>2. FullLease(row)' /\ RequesterIsNotHolder'
  BY <1>1, FreeType DEF IInv, RequesterIsNotHolder, IsFree, FullLease
<1>3. SeenStands'
  BY <1>1 DEF IInv, SeenStands, FullLease
<1>4. PenStaysWithWriter'
  BY <1>1 DEF IInv, PenStaysWithWriter
<1> QED
  BY <1>2, <1>3, <1>4

\* The owner of the advisory lock may write any row when it ends: nobody else
\* is deciding or writing.
LEMMA OwnerWrites ==
  ASSUME IInv, NEW r \in Req, call[r].pc = "decide", EndTx(r)
  PROVE  MutexDiscipline' /\ SeenStands' /\ PenStaysWithWriter'
<1>1. mutex = r /\ call'[r] = Idle /\ \A q \in Req \ {r} : call'[q] = call[q]
  BY DEF IInv, MutexDiscipline, InTx, EndTx, TypeOK
<1>2. \A q \in Req : call'[q].pc \notin {"decide", "writing"}
  BY <1>1, OthersOutside, IdleType DEF IInv, InTx
<1>3. MutexDiscipline'
  BY <1>1, DisciplineStep, IdleType DEF EndTx, InTx
<1> QED
  BY <1>2, <1>3 DEF SeenStands, PenStaysWithWriter

\* Idle slots and unchanged ones keep the order of the requests.
LEMMA OrderFrame ==
  ASSUME IInv, TypeOK', clock' = clock, NEW r \in Req,
         \A q \in Req \ {r} : call'[q] = call[q],
         \/ call'[r].pc = "idle" \/ call'[r].user \in User,
         call'[r].now \in {0, clock, call[r].now}
  PROVE  RequestsInOrder'
  BY DEF IInv, RequestsInOrder, TypeOK

\* An owner's write that ends its transaction leaves a fresh lease.
LEMMA GrantStep ==
  ASSUME IInv, TypeOK', NEW r \in Req, call[r].pc = "decide", EndTx(r),
         clock' = clock,
         NEW u \in User, row' = LeaseTo(u, call[r].now)
  PROVE  IInv'
<1>1. call[r].now \in Nat
  BY DEF IInv, TypeOK, Call
<1>2. FullLease(row)' /\ RequesterIsNotHolder'
  BY <1>1, LeaseType DEF RequesterIsNotHolder, IsFree
<1>3. RequestsInOrder'
  BY OrderFrame, IdleType DEF EndTx, IInv, TypeOK
<1> QED
  BY <1>2, <1>3, OwnerWrites DEF IInv

LEMMA InvInit == Init => IInv
<1> SUFFICES ASSUME Init PROVE IInv
  OBVIOUS
<1>1. TypeOK
  BY FreeType, IdleType DEF Init, TypeOK
<1>2. row.holder = NoOne /\ row.requestedBy = NoOne /\ mutex = NoReq
      /\ \A r \in Req : call[r] = Idle
  BY FreeType DEF Init
<1>3. MutexDiscipline /\ RequestsInOrder /\ SeenStands /\ PenStaysWithWriter
  BY <1>1, <1>2, IdleType, ServiceAssumption
     DEF MutexDiscipline, RequestsInOrder, SeenStands, PenStaysWithWriter, InTx, TypeOK
<1>4. FullLease(row) /\ RequesterIsNotHolder
  BY <1>2 DEF FullLease, RequesterIsNotHolder, Init
<1> QED
  BY <1>1, <1>3, <1>4 DEF IInv

LEMMA InvStep == IInv /\ [Next]_vars => IInv'
<1> SUFFICES ASSUME IInv, [Next]_vars PROVE IInv'
  OBVIOUS
<1>0. TypeOK' /\ TypeOK
  BY TypeStep DEF IInv
<1>1. CASE Tick
  <2>1. RequestsInOrder'
    BY <1>1, <1>0 DEF Tick, IInv, RequestsInOrder, TypeOK, Call
  <2>2. MutexDiscipline'
    BY <1>1 DEF Tick, IInv, MutexDiscipline
  <2> QED BY <1>0, <1>1, <2>1, <2>2, RowFrame DEF Tick, IInv
<1>2. ASSUME NEW r \in Req, Serve(r) PROVE IInv'
  <2>0. call[r] \in Call /\ call[r].now \in Nat /\ clock \in Nat
    BY <1>0 DEF TypeOK, Call
  <2>a. ASSUME NEW c \in Call, call' = [call EXCEPT ![r] = c]
        PROVE  call'[r] = c /\ \A q \in Req \ {r} : call'[q] = call[q]
    BY <2>a, <1>0 DEF TypeOK
  <2>1. ASSUME NEW u \in User, NEW op \in Op, Arrive(r, u, op) PROVE IInv'
    <3>1. /\ call'[r].pc = FirstPc(op) /\ call'[r].user = u
          /\ call'[r].now \in {0, clock}
          /\ \A q \in Req \ {r} : call'[q] = call[q]
      BY <2>1, <1>0, IdleType DEF Arrive, TypeOK, Call
    <3>2. FirstPc(op) \notin InTx
      BY DEF FirstPc, InTx, Op
    <3>3. MutexDiscipline'
      BY <2>1, <3>1, <3>2, DisciplineStep DEF Arrive, InTx
    <3>4. RequestsInOrder'
      BY <2>1, <3>1, <1>0, OrderFrame DEF Arrive
    <3> QED BY <1>0, <2>1, <3>1, <3>2, <3>3, <3>4, RowFrame DEF Arrive, InTx, IInv
  <2>2. CASE EnterTx(r)
    <3>1. /\ call'[r].pc = "locked" /\ call'[r].user = call[r].user
          /\ call'[r].now = clock
          /\ \A q \in Req \ {r} : call'[q] = call[q]
      BY <2>2, <1>0 DEF EnterTx, TypeOK, Call
    <3>2. MutexDiscipline'
      BY <2>2, <3>1, DisciplineStep DEF EnterTx, InTx
    <3>3. RequestsInOrder'
      BY <2>2, <3>1, <1>0, OrderFrame DEF EnterTx, IInv, RequestsInOrder
    <3> QED BY <1>0, <2>2, <3>1, <3>2, <3>3, RowFrame DEF EnterTx, IInv
  <2>3. CASE ReadRow(r)
    <3>1. /\ call'[r].pc = "decide" /\ call'[r].user = call[r].user
          /\ call'[r].now = call[r].now /\ call'[r].seen = row
          /\ \A q \in Req \ {r} : call'[q] = call[q]
      BY <2>3, <1>0 DEF ReadRow, TypeOK, Call
    <3>2. mutex = r
      BY <2>3 DEF ReadRow, IInv, MutexDiscipline, InTx
    <3>3. MutexDiscipline'
      BY <2>3, <3>1, <3>2, DisciplineStep DEF ReadRow, InTx
    <3>4. RequestsInOrder'
      BY <2>3, <3>1, <1>0, OrderFrame DEF ReadRow, IInv, RequestsInOrder
    <3>5. row' = row /\ FullLease(row)
      BY <2>3 DEF ReadRow, IInv
    <3>7. ASSUME NEW q \in Req, call'[q].pc = "decide"
          PROVE  /\ FullLease(call'[q].seen)
                 /\ row.holder # NoOne => /\ row.holder = call'[q].seen.holder
                                          /\ row.requestedBy = call'[q].seen.requestedBy
                                          /\ row.requestedAt = call'[q].seen.requestedAt
      BY <3>1, <3>5, <3>7 DEF IInv, SeenStands
    <3>8. SeenStands'
      BY <3>5, <3>7 DEF SeenStands, FullLease
    <3>6. PenStaysWithWriter'
      BY <2>3, <3>1 DEF ReadRow, IInv, PenStaysWithWriter
    <3> QED BY <1>0, <2>3, <3>3, <3>4, <3>6, <3>8
            DEF ReadRow, IInv, FullLease, RequesterIsNotHolder
  <2>4. CASE AcquireFree(r) \/ TakeOver(r)
    <3>1. call[r].user \in User
      BY <2>4 DEF AcquireFree, TakeOver, Deciding, IInv, RequestsInOrder
    <3> QED BY <2>4, <1>0, <3>1, GrantStep DEF AcquireFree, TakeOver, Deciding
  <2>5. CASE HandOff(r)
    <3>1. call[r].seen.requestedBy \in User
      BY <2>5, <2>0 DEF HandOff, Call, LockRow
    <3> QED BY <2>5, <1>0, <3>1, GrantStep DEF HandOff, Deciding
  <2>6. ASSUME call[r].pc = "decide", EndTx(r), clock' = clock,
               \/ row' = row
               \/ row.holder # NoOne /\ \E now \in Nat : row' = Renewed(row, now)
        PROVE IInv'
    <3>1. call'[r] = Idle /\ \A q \in Req \ {r} : call'[q] = call[q]
      BY <2>6, <1>0 DEF EndTx, TypeOK
    <3>2. RequestsInOrder'
      BY <2>6, <3>1, <1>0, IdleType, OrderFrame
    <3>3. \A q \in Req : call'[q] = call[q] \/ call'[q].pc \notin {"decide", "writing"}
      BY <3>1, IdleType
    <3> QED BY <1>0, <2>6, <3>2, <3>3, RowFrame, OwnerWrites DEF IInv
  <2>7. CASE AcquireRenew(r)
    <3>1. row.holder = call[r].user => row.holder # NoOne
      BY <2>7, PolicyAssumption DEF AcquireRenew, Deciding, IInv, RequestsInOrder
    <3> QED BY <2>7, <2>0, <2>6, <3>1 DEF AcquireRenew, Deciding
  <2>8. CASE RequestStamp(r)
    <3>1. CASE IsFree(row)
      BY <2>8, <2>6, <3>1 DEF RequestStamp, Deciding
    <3>2. CASE ~IsFree(row)
      <4>1. row \in LockRow
        BY <1>0 DEF TypeOK
      <4>2. /\ row'.holder = row.holder /\ row'.requestedBy = call[r].user
            /\ row'.expiresAt = row.expiresAt /\ row'.heartbeatAt = row.heartbeatAt
        BY <2>8, <3>2, <4>1 DEF RequestStamp, LockRow
      <4>3. row.holder # call[r].user
        BY <2>8, <3>2 DEF RequestStamp, Deciding, IsFree, SeesOther, HeldByOther,
                          IInv, SeenStands
      <4>4. RequesterIsNotHolder' /\ FullLease(row)'
        BY <3>2, <4>2, <4>3 DEF RequesterIsNotHolder, FullLease, IInv, IsFree
      <4>5. RequestsInOrder'
        BY <2>8, <1>0, IdleType, OrderFrame DEF RequestStamp, EndTx, TypeOK
      <4> QED BY <1>0, <2>8, <4>4, <4>5, OwnerWrites DEF RequestStamp, Deciding, IInv
    <3> QED BY <3>1, <3>2
  <2>9. CASE AcquireRefused(r) \/ RequestNoop(r) \/ HandOffRefused(r) \/ GatedRefused(r)
    BY <2>9, <2>6
       DEF AcquireRefused, RequestNoop, HandOffRefused, GatedRefused, Deciding
  <2>10. CASE WriteCommit(r)
    <3>1. call'[r] = Idle /\ \A q \in Req \ {r} : call'[q] = call[q]
      BY <2>10, <1>0 DEF WriteCommit, EndTx, TypeOK
    <3>2. mutex = r
      BY <2>10 DEF WriteCommit, IInv, MutexDiscipline, InTx
    <3>3. MutexDiscipline'
      BY <2>10, <3>1, <3>2, IdleType, DisciplineStep DEF WriteCommit, EndTx, InTx
    <3>4. RequestsInOrder'
      BY <2>10, <3>1, <1>0, IdleType, OrderFrame DEF WriteCommit
    <3>5. \A q \in Req : call'[q] = call[q] \/ call'[q].pc \notin {"decide", "writing"}
      BY <3>1, IdleType
    <3> QED BY <1>0, <2>10, <3>3, <3>4, <3>5, RowFrame DEF WriteCommit, IInv
  <2>11. ASSUME NEW pc \in Pc, Goto(r, pc), call[r].pc # "idle",
                pc # "idle", clock' = clock
         PROVE  /\ call'[r].pc = pc /\ call'[r].user = call[r].user
                /\ call'[r].now = call[r].now /\ call'[r].seen = call[r].seen
                /\ \A q \in Req \ {r} : call'[q] = call[q]
                /\ RequestsInOrder'
    <3>1. /\ call'[r].pc = pc /\ call'[r].user = call[r].user
          /\ call'[r].now = call[r].now /\ call'[r].seen = call[r].seen
          /\ \A q \in Req \ {r} : call'[q] = call[q]
      BY <2>11, <1>0 DEF Goto, TypeOK, Call
    <3> QED BY <3>1, <2>11, <1>0, OrderFrame DEF IInv, RequestsInOrder
  <2>12. CASE GatedAdmit(r)
    <3>1. "writing" \in Pc
      BY DEF Pc, InTx
    <3>2. /\ call'[r].pc = "writing" /\ call'[r].user = call[r].user
          /\ \A q \in Req \ {r} : call'[q] = call[q]
          /\ RequestsInOrder'
      BY <2>12, <3>1, <2>11 DEF GatedAdmit, Deciding
    <3>3. mutex = r
      BY <2>12 DEF GatedAdmit, Deciding, IInv, MutexDiscipline, InTx
    <3>4. MutexDiscipline'
      BY <2>12, <3>2, <3>3, DisciplineStep DEF GatedAdmit, InTx
    <3>5. Enforced => row.holder \in {call[r].user, NoOne}
      BY <2>12 DEF GatedAdmit, Deciding, PenSeen, SeesMine, HeldByMe, IInv, SeenStands
    <3>6. PenStaysWithWriter'
      BY <2>12, <3>2, <3>5 DEF GatedAdmit, IInv, PenStaysWithWriter
    <3>7. SeenStands'
      BY <2>12, <3>2 DEF GatedAdmit, IInv, SeenStands, FullLease
    <3> QED BY <1>0, <2>12, <3>2, <3>4, <3>6, <3>7
            DEF GatedAdmit, IInv, FullLease, RequesterIsNotHolder
  <2>13. CASE EarlyAdmit(r)
    <3>1. /\ call'[r].pc = "queuedEarly" /\ RequestsInOrder'
          /\ \A q \in Req \ {r} : call'[q] = call[q]
      BY <2>13, <2>11 DEF EarlyAdmit, Pc
    <3>2. MutexDiscipline'
      BY <2>13, <3>1, DisciplineStep DEF EarlyAdmit, InTx
    <3> QED BY <1>0, <2>13, <3>1, <3>2, RowFrame DEF EarlyAdmit, IInv
  <2>14. CASE EarlyEnterTx(r)
    <3>1. /\ call'[r].pc = "writingEarly" /\ RequestsInOrder'
          /\ \A q \in Req \ {r} : call'[q] = call[q]
      BY <2>14, <2>11 DEF EarlyEnterTx, Pc, InTx
    <3>2. MutexDiscipline'
      BY <2>14, <3>1, DisciplineStep DEF EarlyEnterTx, InTx
    <3> QED BY <1>0, <2>14, <3>1, <3>2, RowFrame DEF EarlyEnterTx, IInv
  <2>15. ASSUME call[r].pc \notin InTx, call' = [call EXCEPT ![r] = Idle],
                mutex' = mutex, clock' = clock,
                \/ row' = row \/ row' = Free
                \/ row.holder # NoOne /\ \E now \in Nat : row' = Renewed(row, now)
         PROVE  IInv'
    <3>1. call'[r] = Idle /\ \A q \in Req \ {r} : call'[q] = call[q]
      BY <2>15, <1>0 DEF TypeOK
    <3>2. MutexDiscipline'
      BY <2>15, <3>1, IdleType, DisciplineStep DEF InTx
    <3>3. RequestsInOrder'
      BY <2>15, <3>1, <1>0, IdleType, OrderFrame
    <3>4. \A q \in Req : call'[q] = call[q] \/ call'[q].pc \notin {"decide", "writing"}
      BY <3>1, IdleType
    <3> QED BY <1>0, <2>15, <3>2, <3>3, <3>4, RowFrame DEF IInv
  <2>16. CASE EarlyRefused(r)
    BY <2>16, <2>15 DEF EarlyRefused, InTx
  <2>17. CASE Beat(r)
    BY <2>17, <2>15, <2>0 DEF Beat, HeldByMe, IsLive, InTx
  <2>18. CASE Release(r)
    BY <2>18, <2>15 DEF Release, InTx
  <2> QED BY <1>2, <2>1, <2>2, <2>3, <2>4, <2>5, <2>7, <2>8, <2>9, <2>10, <2>12,
             <2>13, <2>14, <2>16, <2>17, <2>18 DEF Serve
<1>3. CASE UNCHANGED vars
  BY <1>3 DEF vars, IInv, TypeOK, MutexDiscipline, RequestsInOrder, FullLease,
              SeenStands, RequesterIsNotHolder, PenStaysWithWriter, IsFree
<1> QED BY <1>1, <1>2, <1>3 DEF Next

-----------------------------------------------------------------------------
(* The theorems.                                                           *)

THEOREM Invariance == Spec => []IInv
  BY InvInit, InvStep, PTL DEF Spec

\* Nobody waits for the pen they hold, for any number of users and requests.
THEOREM NoSelfRequest == Spec => []RequesterIsNotHolder
<1>1. IInv => RequesterIsNotHolder
  BY DEF IInv
<1> QED BY <1>1, Invariance, PTL

\* A write that checked its pen inside its transaction never runs under
\* another user's pen, whatever releases and heartbeats fall in between.
THEOREM WriterKeepsPen == Spec => []PenStaysWithWriter
<1>1. IInv => PenStaysWithWriter
  BY DEF IInv
<1> QED BY <1>1, Invariance, PTL

\* The inactivity timeout always fires before the lease lapses.
THEOREM InactiveFirst == Spec => []LapsedOnlyAfterInactive
<1>1. IInv => LapsedOnlyAfterInactive
  BY LapsedIsSilent DEF IInv, LapsedOnlyAfterInactive, TypeOK
<1> QED BY <1>1, Invariance, PTL

\* The pen passes from one user to another only by a hand-off to the pending
\* requester, an override, an aged request, or a holder read as gone.
THEOREM JustifiedHandOver == Spec => HandOverJustified
<1> DEFINE Justified == PenChangesHands => \E r \in Req : mutex = r /\ HandOverIsJustified(r)
<1>1. IInv /\ [Next]_vars => [Justified]_vars
  <2> SUFFICES ASSUME IInv, Next, PenChangesHands
               PROVE  \E r \in Req : mutex = r /\ HandOverIsJustified(r)
    BY DEF vars
  <2>1. row.holder # NoOne /\ row'.holder # NoOne /\ row'.holder # row.holder
    BY DEF PenChangesHands
  <2>2. PICK r \in Req : Serve(r)
    BY <2>1 DEF Next, Tick
  <2>3. row \in LockRow /\ call[r].now \in Nat /\ clock \in Nat /\ call[r].now <= clock
    BY DEF IInv, TypeOK, Call, RequestsInOrder
  <2>4. ~Beat(r) /\ ~AcquireRenew(r) /\ ~Release(r)
    <3>1. Renewed(row, call[r].now).holder = row.holder
      BY <2>3, RenewedRow
    <3>2. ~Beat(r)
      BY <2>1, <3>1 DEF Beat
    <3>3. ~AcquireRenew(r)
      BY <2>1, <3>1 DEF AcquireRenew
    <3>4. ~Release(r)
      BY <2>1, FreeType DEF Release
    <3> QED  BY <3>2, <3>3, <3>4
  <2>5. ~RequestStamp(r)
    <3>1. RequestStamp(r) => \E u, t : row' \in {row, [row EXCEPT !.requestedBy = u,
                                                               !.requestedAt = t]}
      BY DEF RequestStamp
    <3>2. RequestStamp(r) => row'.holder = row.holder
      BY <2>3, <3>1 DEF LockRow
    <3> QED  BY <2>1, <3>2
  <2>6. AcquireFree(r) \/ TakeOver(r) \/ HandOff(r)
    BY <2>1, <2>2, <2>4, <2>5
       DEF Serve, Arrive, EnterTx, ReadRow, AcquireRefused, RequestNoop, HandOffRefused,
           GatedAdmit, GatedRefused, WriteCommit, EarlyAdmit, EarlyRefused, EarlyEnterTx
  <2>7. /\ mutex = r /\ FullLease(call[r].seen)
        /\ row.holder = call[r].seen.holder
        /\ row.requestedBy = call[r].seen.requestedBy
        /\ row.requestedAt = call[r].seen.requestedAt
        /\ call[r].user \in User /\ call[r].seen \in LockRow
    BY <2>1, <2>6 DEF IInv, MutexDiscipline, SeenStands, RequestsInOrder, InTx,
                      AcquireFree, TakeOver, HandOff, Deciding, TypeOK, Call
  <2>8. CASE AcquireFree(r)
    <3>1. IsExpired(call[r].seen, call[r].now)
      BY <2>8, <2>1, <2>3, <2>7
         DEF AcquireFree, SeesNone, SeesMine, SeesOther, HeldByMe, HeldByOther, IsLive,
             IsExpired, LockRow
    <3>2. row'.holder = call[r].user
      BY <2>8 DEF AcquireFree, LeaseTo
    <3> QED BY <2>3, <2>7, <3>1, <3>2, LapsedIsSilent DEF HandOverIsJustified
  <2>9. CASE TakeOver(r)
    <3>1. row'.holder = call[r].user
      BY <2>9 DEF TakeOver, LeaseTo
    <3>2. \/ call[r].user \in Admin
          \/ IsHolderInactive(call[r].seen, call[r].now)
          \/ row.requestedBy = call[r].user /\ call[r].now - row.requestedAt >= Grace
      BY <2>9, <2>7 DEF TakeOver, MayTakeOver, CanTakeOverNow, IsGraceElapsed
    <3>3. call[r].now - row.requestedAt >= Grace => clock - row.requestedAt >= Grace
      BY <2>3, PolicyAssumption DEF LockRow
    <3> QED BY <2>7, <3>1, <3>2, <3>3 DEF HandOverIsJustified
  <2>10. CASE HandOff(r)
    <3>1. row'.holder = row.requestedBy /\ call[r].op = "handoff" /\ call[r].user = row.holder
      BY <2>10, <2>7 DEF HandOff, Deciding, SeesMine, HeldByMe, LeaseTo
    <3> QED BY <2>7, <3>1 DEF HandOverIsJustified
  <2> QED BY <2>6, <2>8, <2>9, <2>10
<1> QED BY <1>1, Invariance, PTL DEF Spec, HandOverJustified

-----------------------------------------------------------------------------
(* The service implements the abstract pen.                                *)

Writers == {call[r].user : r \in {q \in Req : PenWriting(q)}}

\* Only the owner of the advisory lock can be writing under the pen.
LEMMA OwnerAlone ==
  ASSUME IInv, NEW r \in Req, PenWriting(r)
  PROVE  mutex = r /\ Writers = {call[r].user}
<1>1. \A q \in Req : PenWriting(q) => mutex = q
  BY DEF IInv, MutexDiscipline, PenWriting, InTx
<1> QED BY <1>1 DEF Writers

LEMMA NobodyWrites ==
  ASSUME IInv, NEW r \in Req, mutex = r, ~PenWriting(r)
  PROVE  Writers = {}
<1>1. \A q \in Req : ~PenWriting(q)
  BY OwnerAlone
<1> QED BY <1>1 DEF Writers

\* A step that changes one call, which is not writing before or after, leaves
\* the writers alone.
LEMMA BystanderStep ==
  ASSUME NEW r \in Req, ~PenWriting(r), ~PenWriting(r)',
         \A q \in Req \ {r} : call'[q] = call[q]
  PROVE  Writers' = Writers
<1>1. \A q \in Req : PenWriting(q)' <=> PenWriting(q)
  BY DEF PenWriting, SeesMine
<1>2. \A q \in Req : PenWriting(q) => call'[q].user = call[q].user
  OBVIOUS
<1> QED BY <1>1, <1>2 DEF Writers

LEMMA IdleWritesNothing ==
  ASSUME NEW r \in Req, call'[r] = Idle
  PROVE  ~PenWriting(r)'
  BY IdleType DEF PenWriting

LEMMA PenInit == Init => ThePen!Init
<1> SUFFICES ASSUME Init PROVE ThePen!Init
  OBVIOUS
<1>1. \A q \in Req : ~PenWriting(q)
  BY IdleType DEF Init, PenWriting
<1> QED BY <1>1, FreeType DEF Init, ThePen!Init

LEMMA PenStep == IInv /\ [Next]_vars => [ThePen!Next]_(ThePen!vars)
<1> SUFFICES ASSUME IInv, [Next]_vars PROVE [ThePen!Next]_(ThePen!vars)
  OBVIOUS
<1>0. TypeOK /\ row \in LockRow
  BY DEF IInv, TypeOK
<1>s. ASSUME row'.holder = row.holder, row'.requestedBy = row.requestedBy,
             Writers' = Writers
      PROVE  [ThePen!Next]_(ThePen!vars)
  BY <1>s DEF ThePen!vars, Writers
<1>1. CASE Tick
  <2>1. Writers' = Writers
    BY <1>1 DEF Tick, Writers, PenWriting, SeesMine
  <2> QED BY <1>1, <1>s, <2>1 DEF Tick
<1>2. ASSUME NEW r \in Req, Serve(r) PROVE [ThePen!Next]_(ThePen!vars)
  <2>a. ASSUME NEW c, call' = [call EXCEPT ![r] = c]
        PROVE  call'[r] = c /\ \A q \in Req \ {r} : call'[q] = call[q]
    BY <2>a, <1>0 DEF TypeOK
  <2>g. ASSUME NEW pc, Goto(r, pc)
        PROVE  /\ call'[r].pc = pc /\ call'[r].op = call[r].op
               /\ call'[r].user = call[r].user /\ call'[r].now = call[r].now
               /\ call'[r].seen = call[r].seen
               /\ \A q \in Req \ {r} : call'[q] = call[q]
    BY <2>g, <1>0 DEF Goto, TypeOK, Call
  <2>w. ASSUME call' = [call EXCEPT ![r] = Idle], ~PenWriting(r)
        PROVE  Writers' = Writers
    BY <2>w, <2>a, IdleWritesNothing, BystanderStep
  \* A decision other than a gated one is taken while nobody writes.
  <2>d. ASSUME Deciding(r, CoordOps)
        PROVE  /\ ~PenWriting(r) /\ Writers = {}
               /\ call[r].user \in User /\ call[r].user # NoOne
    <3>1. mutex = r /\ ~PenWriting(r)
      BY <2>d DEF Deciding, CoordOps, PenWriting, IInv, MutexDiscipline, InTx
    <3>2. call[r].user \in User
      BY <2>d DEF Deciding, IInv, RequestsInOrder
    <3> QED BY <3>1, <3>2, NobodyWrites, PolicyAssumption
  <2>1. ASSUME NEW u \in User, NEW op \in Op, Arrive(r, u, op)
        PROVE  [ThePen!Next]_(ThePen!vars)
    <3>1. ~PenWriting(r)
      BY <2>1 DEF Arrive, PenWriting
    <3>2. call'[r].pc = FirstPc(op) /\ \A q \in Req \ {r} : call'[q] = call[q]
      BY <2>1, <1>0, IdleType DEF Arrive, TypeOK, Call
    <3>3. ~PenWriting(r)'
      BY <3>2 DEF PenWriting, FirstPc, Op
    <3> QED BY <2>1, <3>1, <3>2, <3>3, BystanderStep, <1>s DEF Arrive
  <2>2. CASE EnterTx(r)
    <3>1. ~PenWriting(r)
      BY <2>2 DEF EnterTx, PenWriting
    <3>2. call'[r].pc = "locked" /\ \A q \in Req \ {r} : call'[q] = call[q]
      BY <2>2, <1>0 DEF EnterTx, TypeOK, Call
    <3>3. ~PenWriting(r)'
      BY <3>2 DEF PenWriting
    <3> QED BY <2>2, <3>1, <3>2, <3>3, BystanderStep, <1>s DEF EnterTx
  <2>3. CASE ReadRow(r)
    <3>1. mutex = r /\ ~PenWriting(r)
      BY <2>3 DEF ReadRow, PenWriting, IInv, MutexDiscipline, InTx
    <3>2. Writers = {}
      BY <3>1, NobodyWrites
    <3>3. /\ call'[r].user = call[r].user /\ call'[r].now = call[r].now
          /\ call'[r].seen = row
          /\ \A q \in Req \ {r} : call'[q] = call[q]
      BY <2>3, <1>0 DEF ReadRow, TypeOK, Call
    <3>4. CASE ~PenWriting(r)'
      BY <2>3, <3>1, <3>3, <3>4, BystanderStep, <1>s DEF ReadRow
    <3>5. CASE PenWriting(r)'
      <4>1. \A q \in Req \ {r} : ~PenWriting(q)'
        BY <3>1, <3>3, OwnerAlone DEF PenWriting, SeesMine
      <4>2. Writers' = {call[r].user}
        BY <3>3, <3>5, <4>1 DEF Writers
      <4>3. row.holder = call[r].user
        BY <3>3, <3>5 DEF PenWriting, SeesMine, HeldByMe
      <4>4. PICK u \in User : u = call[r].user
        BY <2>3 DEF ReadRow, IInv, RequestsInOrder
      <4>5. ThePen!BeginWrite(u)
        BY <2>3, <3>2, <4>2, <4>3, <4>4 DEF ThePen!BeginWrite, Writers, ReadRow
      <4> QED BY <4>5 DEF ThePen!Next
    <3> QED BY <3>4, <3>5
  <2>4. ASSUME NEW u \in User, Deciding(r, CoordOps), EndTx(r),
               row'.holder = u, row'.requestedBy = NoOne
        PROVE  [ThePen!Next]_(ThePen!vars)
    <3>1. Writers = {} /\ Writers' = {}
      BY <2>4, <2>d, <2>w DEF EndTx
    <3>2. ThePen!Grant(u)
      BY <2>4, <3>1 DEF ThePen!Grant, Writers
    <3> QED BY <3>2 DEF ThePen!Next
  <2>5. CASE AcquireFree(r) \/ TakeOver(r)
    <3>1. Deciding(r, CoordOps)
      BY <2>5 DEF AcquireFree, TakeOver, Deciding, CoordOps
    <3> QED BY <2>5, <3>1, <2>4, <2>d DEF AcquireFree, TakeOver, LeaseTo
  <2>6. CASE HandOff(r)
    <3>1. Deciding(r, CoordOps)
      BY <2>6 DEF HandOff, Deciding, CoordOps
    <3>2. call[r].seen.requestedBy \in User
      BY <2>6, <1>0 DEF HandOff, TypeOK, Call, LockRow
    <3> QED BY <2>6, <3>1, <3>2, <2>4 DEF HandOff, LeaseTo
  <2>7. CASE AcquireRenew(r)
    <3>1. ~PenWriting(r)
      BY <2>7 DEF AcquireRenew, Deciding, PenWriting
    <3>2. row'.holder = row.holder /\ row'.requestedBy = row.requestedBy
      BY <2>7, <1>0, RenewedRow DEF AcquireRenew, TypeOK, Call
    <3> QED BY <2>7, <3>1, <3>2, <2>w, <1>s DEF AcquireRenew, EndTx
  <2>8. CASE RequestStamp(r)
    <3>1. Deciding(r, CoordOps)
      BY <2>8 DEF RequestStamp, Deciding, CoordOps
    <3>2. Writers = {} /\ Writers' = {}
      BY <2>8, <3>1, <2>d, <2>w DEF RequestStamp, EndTx
    <3>3. CASE IsFree(row)
      BY <2>8, <3>2, <3>3, <1>s DEF RequestStamp
    <3>4. CASE ~IsFree(row)
      <4>1. row'.holder = row.holder /\ row'.requestedBy = call[r].user
        BY <2>8, <3>4, <1>0 DEF RequestStamp, LockRow
      <4>2. row.holder # NoOne /\ row.holder # call[r].user
        BY <2>8, <3>4 DEF RequestStamp, Deciding, IsFree, SeesOther, HeldByOther,
                          IInv, SeenStands
      <4>3. ThePen!Ask(call[r].user)
        BY <3>2, <4>1, <4>2 DEF ThePen!Ask, Writers
      <4> QED BY <4>3, <3>1, <2>d DEF ThePen!Next
    <3> QED BY <3>3, <3>4
  <2>9. CASE AcquireRefused(r) \/ RequestNoop(r) \/ HandOffRefused(r) \/ GatedRefused(r)
    <3>1. ~PenWriting(r)
      BY <2>9 DEF AcquireRefused, RequestNoop, HandOffRefused, GatedRefused, Deciding,
                  PenWriting, PenSeen
    <3> QED BY <2>9, <3>1, <2>w, <1>s
            DEF AcquireRefused, RequestNoop, HandOffRefused, GatedRefused, EndTx
  <2>10. CASE GatedAdmit(r)
    <3>1. /\ call'[r].pc = "writing" /\ call[r].pc = "decide"
          /\ call'[r].op = call[r].op
          /\ call'[r].user = call[r].user /\ call'[r].now = call[r].now
          /\ call'[r].seen = call[r].seen
          /\ \A q \in Req \ {r} : call'[q] = call[q]
      BY <2>10, <2>g DEF GatedAdmit, Deciding
    <3>2. \A q \in Req : (PenWriting(q)' <=> PenWriting(q)) /\ call'[q].user = call[q].user
      BY <3>1 DEF PenWriting, SeesMine
    <3>3. Writers' = Writers
      BY <3>2 DEF Writers
    <3> QED BY <2>10, <3>3, <1>s DEF GatedAdmit
  <2>11. CASE WriteCommit(r)
    <3>1. mutex = r /\ call' = [call EXCEPT ![r] = Idle]
      BY <2>11 DEF WriteCommit, EndTx, IInv, MutexDiscipline, InTx
    <3>2. \A q \in Req \ {r} : ~PenWriting(q)'
      BY <3>1, <2>a, OwnerAlone DEF PenWriting, SeesMine
    <3>3. Writers' = {}
      BY <3>1, <3>2, <2>a, IdleWritesNothing DEF Writers
    <3>4. ThePen!EndWrite
      BY <2>11, <3>3 DEF WriteCommit, ThePen!EndWrite, Writers
    <3> QED BY <3>4 DEF ThePen!Next
  <2>12. CASE EarlyAdmit(r) \/ EarlyEnterTx(r)
    <3>1. /\ ~PenWriting(r) /\ ~PenWriting(r)'
          /\ \A q \in Req \ {r} : call'[q] = call[q]
      BY <2>12, <2>g DEF EarlyAdmit, EarlyEnterTx, PenWriting
    <3> QED BY <2>12, <3>1, BystanderStep, <1>s DEF EarlyAdmit, EarlyEnterTx
  <2>13. CASE EarlyRefused(r) \/ Beat(r)
    <3>1. ~PenWriting(r)
      BY <2>13 DEF EarlyRefused, Beat, PenWriting
    <3>2. call[r].now \in Nat
      BY <1>0 DEF TypeOK, Call
    <3>3. row' = row \/ row' = Renewed(row, call[r].now)
      BY <2>13 DEF EarlyRefused, Beat
    <3>4. row'.holder = row.holder /\ row'.requestedBy = row.requestedBy
      BY <1>0, <3>2, <3>3, RenewedRow
    <3> QED BY <2>13, <3>1, <3>4, <2>w, <1>s DEF EarlyRefused, Beat
  <2>14. CASE Release(r)
    <3>1. Writers' = Writers
      BY <2>14, <2>w DEF Release, PenWriting
    <3>2. CASE row' = row
      BY <3>1, <3>2, <1>s
    <3>3. CASE row' = Free
      <4>1. ThePen!Drop
        BY <3>1, <3>3, FreeType DEF ThePen!Drop, Writers
      <4> QED BY <4>1 DEF ThePen!Next
    <3> QED BY <2>14, <3>2, <3>3 DEF Release
  <2> QED BY <1>2, <2>1, <2>2, <2>3, <2>5, <2>6, <2>7, <2>8, <2>9, <2>10, <2>11,
             <2>12, <2>13, <2>14 DEF Serve
<1>3. CASE UNCHANGED vars
  BY <1>3, <1>s DEF vars, Writers, PenWriting, SeesMine
<1> QED BY <1>1, <1>2, <1>3 DEF Next

\* The lock row, its requests and the writes they gate behave as one abstract
\* pen, for any users, request slots and timings.
THEOREM ImplementsPen == Spec => PenPromise
  BY PenInit, PenStep, Invariance, PTL DEF Spec, PenPromise, ThePen!Spec

(***************************************************************************)
(* The undo history.  First stacks: what Popped and Pushed leave.          *)
(***************************************************************************)

LEMMA MadeSeq ==
  ASSUME NEW S, NEW n \in Nat, NEW f \in [1..n -> S]
  PROVE  f \in Seq(S) /\ Len(f) = n
BY SMT

LEMMA StackFacts ==
  ASSUME NEW S, NEW s \in Seq(S), s # <<>>
  PROVE  /\ Len(s) \in Nat \ {0} /\ Top(s) \in S
         /\ Popped(s) \in Seq(S)
         /\ Len(Popped(s)) = Len(s) - 1
         /\ \A i \in 1..Len(s) - 1 : Popped(s)[i] = s[i]
<1>1. Len(s) \in Nat \ {0}  BY EmptySeq
<1>2. \A i \in 1..Len(s) - 1 : s[i] \in S  BY <1>1, ElementOfSeq
<1>3. /\ Popped(s) \in Seq(S)
      /\ Len(Popped(s)) = IF 1 <= Len(s) - 1 THEN Len(s) - 1 - 1 + 1 ELSE 0
      /\ \A i \in 1..Len(s) - 1 - 1 + 1 : Popped(s)[i] = s[1 + i - 1]
  <2>1. Len(s) - 1 \in Int  BY <1>1
  <2>2. QED  BY <1>2, <2>1, SubSeqProperties DEF Popped
<1>4. Top(s) \in S  BY <1>1, ElementOfSeq DEF Top
<1>5. Len(Popped(s)) = Len(s) - 1
  <2>1. \A n \in Nat \ {0} : (IF 1 <= n - 1 THEN n - 1 - 1 + 1 ELSE 0) = n - 1
    OBVIOUS
  <2>2. QED  BY <1>1, <1>3, <2>1
<1>6. ASSUME NEW i \in 1..Len(s) - 1  PROVE Popped(s)[i] = s[i]
  <2>1. i \in 1..Len(s) - 1 - 1 + 1 /\ 1 + i - 1 = i  BY <1>1
  <2>2. QED  BY <1>3, <2>1
<1>7. QED  BY <1>1, <1>3, <1>4, <1>5, <1>6

LEMMA PoppedStack ==
  ASSUME NEW S, NEW s \in Seq(S)
  PROVE  Popped(s) \in Seq(S) /\ Len(Popped(s)) <= Len(s)
<1>1. CASE s = <<>>
  <2>1. Len(s) - 1 \in Int /\ Len(s) - 1 < 1  BY <1>1
  <2>2. Popped(s) = <<>>  BY <2>1, SubSeqEmpty DEF Popped
  <2>3. Popped(s) = s  BY <1>1, <2>2
  <2>4. QED  BY <2>3, LenProperties
<1>2. CASE s # <<>>  BY <1>2, StackFacts
<1>3. QED  BY <1>1, <1>2

LEMMA AppendFacts ==
  ASSUME NEW S, NEW s \in Seq(S), NEW c \in S
  PROVE  /\ Append(s, c) \in Seq(S) /\ Append(s, c) # <<>>
         /\ Len(Append(s, c)) = Len(s) + 1
         /\ \A i \in 1..Len(s) : Append(s, c)[i] = s[i]
         /\ Append(s, c)[Len(s) + 1] = c
BY AppendProperties

LEMMA PushedFacts ==
  ASSUME NEW S, NEW s \in Seq(S), NEW c \in S, Len(s) <= Depth
  PROVE  /\ Pushed(s, c) \in Seq(S) /\ Pushed(s, c) # <<>>
         /\ Len(Pushed(s, c)) <= Depth
         /\ Len(Pushed(s, c)) \in {Len(s), Len(s) + 1}
         /\ Top(Pushed(s, c)) = c
<1>1. CASE Len(s) < Depth
  BY <1>1, AppendFacts, LenProperties, HistoryAssumption DEF Pushed, Top
<1>2. CASE ~(Len(s) < Depth)
  <2>1. s # <<>> /\ Len(s) = Depth
    BY <1>2, LenProperties, HistoryAssumption, EmptySeq
  <2>2. Tail(s) \in Seq(S) /\ Len(Tail(s)) = Len(s) - 1
    BY <2>1, HeadTailProperties
  <2>3. Pushed(s, c) = Append(Tail(s), c)  BY <1>2 DEF Pushed
  <2>4. QED
    BY <2>1, <2>2, <2>3, AppendFacts, LenProperties, HistoryAssumption DEF Top
<1>3. QED  BY <1>1, <1>2

LEMMA StepForm ==
  ASSUME NEW c \in Step
  PROVE  /\ Rows(c) \subseteq Row
         /\ c.before \in [Rows(c) -> Value] /\ c.after \in [Rows(c) -> Value]
         /\ c.id \in 1..MaxEdits /\ c.fixed \in BOOLEAN
         /\ Written(c) \subseteq Rows(c)
<1>1. PICK R \in SUBSET Row :
        c \in [id: 1..MaxEdits, before: [R -> Value], after: [R -> Value], fixed: BOOLEAN]
  BY DEF Step
<1>2. Rows(c) = R  BY <1>1 DEF Rows
<1>3. QED  BY <1>1, <1>2 DEF Written

-----------------------------------------------------------------------------
(* What a stack says of one row.                                           *)

Trace(dir, stack, r, s) ==
  \A i \in 1..Len(stack) :
    IF r \in Rows(stack[i])
    THEN Target(dir, stack[i])[r] = s[i - 1] /\ Expected(dir, stack[i])[r] = s[i]
    ELSE s[i] = s[i - 1]

Reaches(dir, stack, r, v) ==
  \E s \in [0..Len(stack) -> Value] : Trace(dir, stack, r, s) /\ s[Len(stack)] = v

LEMMA ReachesEmpty ==
  ASSUME NEW dir, NEW r, NEW v \in Value
  PROVE  Reaches(dir, <<>>, r, v)
<1> DEFINE s == [i \in 0..0 |-> v]
<1>1. Len(<<>>) = 0  OBVIOUS
<1>2. s \in [0..0 -> Value] /\ s[0] = v  OBVIOUS
<1> HIDE DEF s
<1>3. Trace(dir, <<>>, r, s)  BY <1>1 DEF Trace
<1>4. QED  BY <1>1, <1>2, <1>3 DEF Reaches

LEMMA ReachesAppended ==
  ASSUME NEW dir, NEW stack \in Seq(Step), NEW c \in Step, NEW r, NEW v \in Value,
         NEW w \in Value, Reaches(dir, stack, r, v),
         IF r \in Rows(c) THEN Target(dir, c)[r] = v /\ Expected(dir, c)[r] = w ELSE w = v
  PROVE  Reaches(dir, Append(stack, c), r, w)
<1>1. PICK s \in [0..Len(stack) -> Value] : Trace(dir, stack, r, s) /\ s[Len(stack)] = v
  BY DEF Reaches
<1> DEFINE n == Len(stack)
           next == Append(stack, c)
           t == [i \in 0..n + 1 |-> IF i = n + 1 THEN w ELSE s[i]]
<1>2. n \in Nat  BY LenProperties
<1>3. /\ next \in Seq(Step) /\ Len(next) = n + 1
      /\ \A i \in 1..n : next[i] = stack[i]
      /\ next[n + 1] = c
  BY AppendFacts
<1>4. t \in [0..Len(next) -> Value]  BY <1>1, <1>2, <1>3
<1>5. t[n + 1] = w /\ t[n] = v /\ \A i \in 1..n : t[i] = s[i] /\ t[i - 1] = s[i - 1]
  <2>1. s[n] = v  BY <1>1
  <2> HIDE DEF n
  <2>2. n + 1 \in 0..n + 1 /\ n \in 0..n + 1 /\ n # n + 1  BY <1>2
  <2>3. \A i \in 1..n : /\ i \in 0..n + 1 /\ i # n + 1
                       /\ i - 1 \in 0..n + 1 /\ i - 1 # n + 1
    BY <1>2
  <2>4. QED  BY <2>1, <2>2, <2>3
<1> HIDE DEF n, next, t
<1>6. ASSUME NEW i \in 1..n + 1
      PROVE  IF r \in Rows(next[i])
             THEN Target(dir, next[i])[r] = t[i - 1] /\ Expected(dir, next[i])[r] = t[i]
             ELSE t[i] = t[i - 1]
  <2>1. CASE i = n + 1
    <3>1. i - 1 = n  BY <1>2, <2>1
    <3>2. QED  BY <1>3, <1>5, <2>1, <3>1
  <2>2. CASE i # n + 1
    <3>1. i \in 1..n  BY <1>2, <2>2
    <3>2. QED  BY <1>1, <1>3, <1>5, <3>1 DEF Trace, n
  <2>3. QED  BY <2>1, <2>2
<1>7. Trace(dir, next, r, t)  BY <1>3, <1>6 DEF Trace
<1>8. Reaches(dir, next, r, w)  BY <1>3, <1>4, <1>5, <1>7 DEF Reaches
<1>9. QED  BY <1>8 DEF next

LEMMA ReachesValue ==
  ASSUME NEW dir, NEW stack \in Seq(Step), NEW r, NEW v, Reaches(dir, stack, r, v)
  PROVE  v \in Value
<1>1. Len(stack) \in Nat  BY LenProperties
<1>2. QED  BY <1>1 DEF Reaches

LEMMA ReachesTail ==
  ASSUME NEW dir, NEW stack \in Seq(Step), stack # <<>>, NEW r, NEW v,
         Reaches(dir, stack, r, v)
  PROVE  Reaches(dir, Tail(stack), r, v)
<1>1. PICK s \in [0..Len(stack) -> Value] : Trace(dir, stack, r, s) /\ s[Len(stack)] = v
  BY DEF Reaches
<1> DEFINE n == Len(stack) - 1
           rest == Tail(stack)
           t == [i \in 0..n |-> s[i + 1]]
<1>2. n \in Nat /\ Len(stack) = n + 1  BY EmptySeq
<1>3. rest \in Seq(Step) /\ Len(rest) = n /\ \A i \in 1..n : rest[i] = stack[i + 1]
  BY HeadTailProperties
<1>4. t \in [0..Len(rest) -> Value] /\ t[n] = v  BY <1>1, <1>2, <1>3
<1>5. \A i \in 1..n : t[i] = s[i + 1] /\ t[i - 1] = s[i + 1 - 1]  BY <1>2
<1> HIDE DEF n, rest, t
<1>6. ASSUME NEW i \in 1..n
      PROVE  IF r \in Rows(rest[i])
             THEN Target(dir, rest[i])[r] = t[i - 1] /\ Expected(dir, rest[i])[r] = t[i]
             ELSE t[i] = t[i - 1]
  <2>1. i + 1 \in 1..Len(stack)  BY <1>2
  <2>2. QED  BY <1>1, <1>3, <1>5, <2>1 DEF Trace
<1>7. Trace(dir, rest, r, t)  BY <1>3, <1>6 DEF Trace
<1>8. Reaches(dir, rest, r, v)  BY <1>3, <1>4, <1>7 DEF Reaches
<1>9. QED  BY <1>8 DEF rest

LEMMA ReachesPopped ==
  ASSUME NEW dir, NEW stack \in Seq(Step), stack # <<>>, NEW r, NEW v,
         Reaches(dir, stack, r, v)
  PROVE  LET c == Top(stack)
         IN  /\ r \in Rows(c) => Expected(dir, c)[r] = v
             /\ Reaches(dir, Popped(stack), r, IF r \in Rows(c) THEN Target(dir, c)[r] ELSE v)
<1>1. PICK s \in [0..Len(stack) -> Value] : Trace(dir, stack, r, s) /\ s[Len(stack)] = v
  BY DEF Reaches
<1> DEFINE n == Len(stack) - 1
           rest == Popped(stack)
           c == Top(stack)
           t == [i \in 0..n |-> s[i]]
<1>2. n \in Nat /\ Len(stack) = n + 1  BY EmptySeq
<1>3. rest \in Seq(Step) /\ Len(rest) = n /\ \A i \in 1..n : rest[i] = stack[i]
  BY StackFacts
<1>4. t \in [0..Len(rest) -> Value] /\ t[n] = s[n]  BY <1>1, <1>2, <1>3
<1>5. \A i \in 1..n : t[i] = s[i] /\ t[i - 1] = s[i - 1]  BY <1>2
<1>6. IF r \in Rows(c) THEN Target(dir, c)[r] = s[n] /\ Expected(dir, c)[r] = v
                       ELSE v = s[n]
  <2>1. Len(stack) \in 1..Len(stack) /\ Len(stack) - 1 = n  BY <1>2
  <2>2. QED  BY <1>1, <2>1 DEF Trace, Top
<1> HIDE DEF n, rest, c, t
<1>7. ASSUME NEW i \in 1..n
      PROVE  IF r \in Rows(rest[i])
             THEN Target(dir, rest[i])[r] = t[i - 1] /\ Expected(dir, rest[i])[r] = t[i]
             ELSE t[i] = t[i - 1]
  <2>1. i \in 1..Len(stack)  BY <1>2
  <2>2. QED  BY <1>1, <1>3, <1>5, <2>1 DEF Trace
<1>8. Trace(dir, rest, r, t)  BY <1>3, <1>7 DEF Trace
<1>9. Reaches(dir, rest, r, s[n])  BY <1>3, <1>4, <1>8 DEF Reaches
<1>10. QED  BY <1>6, <1>9 DEF rest, c

LEMMA ReachesPushed ==
  ASSUME NEW dir, NEW stack \in Seq(Step), Len(stack) <= Depth, NEW c \in Step, NEW r,
         NEW v \in Value, NEW w \in Value, Reaches(dir, stack, r, v),
         IF r \in Rows(c) THEN Target(dir, c)[r] = v /\ Expected(dir, c)[r] = w ELSE w = v
  PROVE  Reaches(dir, Pushed(stack, c), r, w)
<1>1. CASE Len(stack) < Depth  BY <1>1, ReachesAppended DEF Pushed
<1>2. CASE ~(Len(stack) < Depth)
  <2>1. stack # <<>>  BY <1>2, HistoryAssumption
  <2>2. Tail(stack) \in Seq(Step)  BY <2>1, HeadTailProperties
  <2>3. Reaches(dir, Tail(stack), r, v)  BY <2>1, ReachesTail
  <2>4. Reaches(dir, Append(Tail(stack), c), r, w)  BY <2>2, <2>3, ReachesAppended
  <2>5. QED  BY <1>2, <2>4 DEF Pushed
<1>3. QED  BY <1>1, <1>2

LEMMA TopReplaced ==
  ASSUME NEW S, NEW stack \in Seq(S), stack # <<>>, NEW c \in S
  PROVE  [stack EXCEPT ![Len(stack)] = c] = Append(Popped(stack), c)
<1> DEFINE n == Len(stack)
           s == [stack EXCEPT ![n] = c]
           t == Append(Popped(stack), c)
<1>1. n \in Nat \ {0} /\ n \in 1..n  BY EmptySeq
<1>2. s \in Seq(S) /\ Len(s) = n /\ \A j \in 1..n : s[j] = IF j = n THEN c ELSE stack[j]
  BY <1>1, ExceptSeq
<1>3. /\ Popped(stack) \in Seq(S) /\ Len(Popped(stack)) = n - 1
      /\ \A i \in 1..n - 1 : Popped(stack)[i] = stack[i]
  BY StackFacts
<1>4. /\ t \in Seq(S) /\ Len(t) = n - 1 + 1
      /\ \A i \in 1..n - 1 : t[i] = stack[i]
      /\ t[n - 1 + 1] = c
  BY <1>3, AppendFacts
<1> HIDE DEF n, s, t
<1>5. ASSUME NEW i \in 1..n  PROVE s[i] = t[i]
  <2>1. CASE i = n  BY <1>1, <1>2, <1>4, <2>1
  <2>2. CASE i # n
    <3>1. i \in 1..n - 1  BY <1>1, <2>2
    <3>2. QED  BY <1>2, <1>4, <2>2, <3>1
  <2>3. QED  BY <2>1, <2>2
<1>6. n - 1 + 1 = n  BY <1>1
<1>7. s = t  BY <1>2, <1>4, <1>5, <1>6, SeqEqual
<1>8. QED  BY <1>7 DEF s, t, n

-----------------------------------------------------------------------------
(* Steps, writes and replays.                                              *)

LEMMA StepMade ==
  ASSUME NEW R \in SUBSET Row, NEW before \in [R -> Value], NEW after \in [R -> Value],
         NEW id \in 1..MaxEdits, NEW fixed \in BOOLEAN
  PROVE  /\ [id |-> id, after |-> after, fixed |-> fixed, before |-> before] \in Step
         /\ Rows([id |-> id, after |-> after, fixed |-> fixed, before |-> before]) = R
<1> DEFINE c == [id |-> id, after |-> after, fixed |-> fixed, before |-> before]
<1>1. c \in [id: 1..MaxEdits, before: [R -> Value], after: [R -> Value], fixed: BOOLEAN]
  OBVIOUS
<1>2. c.before = before  OBVIOUS
<1> HIDE DEF c
<1>3. c \in Step  BY <1>1 DEF Step
<1>4. Rows(c) = R  BY <1>2 DEF Rows
<1>5. QED  BY <1>3, <1>4 DEF c

LEMMA MergedForm ==
  ASSUME NEW p \in Step, NEW c \in Step, Rows(p) = Rows(c)
  PROVE  /\ Merged(p, c) \in Step /\ Rows(Merged(p, c)) = Rows(c)
         /\ Merged(p, c).before = p.before /\ Merged(p, c).after = c.after
         /\ Merged(p, c).id = c.id
<1>1. PICK R \in SUBSET Row :
        c \in [id: 1..MaxEdits, before: [R -> Value], after: [R -> Value], fixed: BOOLEAN]
  BY DEF Step
<1>2. Rows(c) = R  BY <1>1 DEF Rows
<1>3. p.before \in [R -> Value]  BY <1>2, StepForm
<1> DEFINE m == Merged(p, c)
<1>4. /\ m \in [id: 1..MaxEdits, before: [R -> Value], after: [R -> Value], fixed: BOOLEAN]
      /\ m.before = p.before /\ m.after = c.after /\ m.id = c.id
  BY <1>1, <1>3 DEF Merged
<1> HIDE DEF m
<1>5. m \in Step  BY <1>4 DEF Step
<1>6. Rows(m) = R  BY <1>3, <1>4 DEF Rows
<1>7. QED  BY <1>2, <1>4, <1>5, <1>6 DEF m

LEMMA SidesOfStep ==
  ASSUME NEW c \in Step, NEW dir
  PROVE  /\ Target(dir, c) \in [Rows(c) -> Value]
         /\ Expected(dir, c) \in [Rows(c) -> Value]
         /\ \A r \in Rows(c) : Target(dir, c)[r] # Expected(dir, c)[r] => r \in Written(c)
         /\ \A r \in Rows(c) \ Written(c) : Target(dir, c)[r] = Expected(dir, c)[r]
BY StepForm DEF Target, Expected, Written

LEMMA SavedValue ==
  ASSUME value \in [Row -> Value], NEW rows \in SUBSET Row, NEW to,
         \A r \in rows : to[r] \in Value
  PROVE  /\ Saved(rows, to) \in [Row -> Value]
         /\ \A r \in rows : Saved(rows, to)[r] = to[r]
         /\ \A r \in Row \ rows : Saved(rows, to)[r] = value[r]
BY DEF Saved

LEMMA ReplayForm ==
  ASSUME HistoryTypeOK, Running
  PROVE  /\ replay.step \in Step /\ replay.dir \in Direction
         /\ replay.at \in {"check", "write"} \cup Outcome
         /\ replay \in Replay
BY DEF HistoryTypeOK, Running, NoReplay, Replay

LEMMA NoRangeTyped == NoRange \in [dir: Direction, steps: Seq(Step)]
<1>1. <<>> \in Seq(Step)  BY EmptySeq
<1>2. QED  BY <1>1 DEF NoRange, Direction

LEMMA StackTyped ==
  ASSUME HistoryTypeOK, NEW dir
  PROVE  StackOf(dir) \in Seq(Step)
BY DEF HistoryTypeOK, StackOf

LEMMA ReplayStarted ==
  ASSUME HistoryTypeOK, NEW dir \in Direction, StackOf(dir) # <<>>, Started(dir)
  PROVE  /\ replay' \in Replay
         /\ replay'.at = "check" /\ replay'.dir = dir
         /\ replay'.step = Top(StackOf(dir)) /\ replay'.step \in Step
<1>1. Top(StackOf(dir)) \in Step  BY StackTyped, StackFacts
<1>2. QED  BY <1>1 DEF Started, Replay

LEMMA ReplayGoesTo ==
  ASSUME HistoryTypeOK, Running, NEW at \in {"write"} \cup Outcome, ReplayAt(at)
  PROVE  /\ replay' \in Replay /\ replay'.at = at
         /\ replay'.dir = replay.dir /\ replay'.step = replay.step
         /\ moved' = {}
BY ReplayForm DEF ReplayAt, Replay

-----------------------------------------------------------------------------
(* Types.                                                                  *)

LEMMA EveryBuilder == \A b \in Builder : b.rows \in (SUBSET Row) \ {{}} /\ b.fixed \in BOOLEAN
BY HistoryAssumption

LEMMA HistoryTypeStep ==
  ASSUME HistoryTypeOK, Len(undo) <= Depth, Len(redo) <= Depth, HistoryNext
  PROVE  HistoryTypeOK'
<1> USE DEF HistoryTypeOK
<1>1. ASSUME NEW R \in (SUBSET Row) \ {{}}, NEW to \in [R -> Value], NEW fixed \in BOOLEAN,
             Edit(to, fixed)
      PROVE  HistoryTypeOK'
  <2>1. DOMAIN to = R /\ R \subseteq Row /\ \A r \in R : to[r] \in Value  OBVIOUS
  <2>2. value' = Saved(R, to) /\ moved' \in {{}, moved \cup R}
    BY <1>1, <2>1 DEF Edit, Save
  <2>3. value' \in [Row -> Value] /\ moved' \subseteq Row  BY <2>1, <2>2, SavedValue
  <2>4. edits + 1 \in 1..MaxEdits /\ edits' = edits + 1
    BY <1>1, HistoryAssumption DEF Edit
  <2>5. [r \in R |-> value[r]] \in [R -> Value]  BY <2>1
  <2>6. PICK before \in [R -> Value] : before = [r \in R |-> value[r]]  BY <2>5
  <2>7. sent' = sent \cup
          {[id |-> edits + 1, after |-> to, fixed |-> fixed, before |-> before]}
    BY <1>1, <2>1, <2>6 DEF Edit
  <2>8. [id |-> edits + 1, after |-> to, fixed |-> fixed, before |-> before] \in Step
    BY <2>1, <2>4, StepMade
  <2>9. sent' \subseteq Step  BY <2>7, <2>8
  <2>10. edits' \in 0..MaxEdits  BY <2>4, HistoryAssumption
  <2>11. overlap' \in BOOLEAN  BY <1>1 DEF Edit
  <2>12. QED  BY <1>1, <2>3, <2>9, <2>10, <2>11 DEF Edit, stacks
<1>2. ASSUME NEW c \in sent, Record(c)  PROVE HistoryTypeOK'
  <2>1. Pushed(undo, c) \in Seq(Step)  BY PushedFacts
  <2>2. Undoing => replay.step.id \in 1..MaxEdits  BY ReplayForm, StepForm DEF Undoing
  <2>3. crossed' \subseteq 1..MaxEdits  BY <1>2, <2>2 DEF Record
  <2>4. QED  BY <1>2, <2>1, <2>3, EmptySeq DEF Record, server
<1>3. ASSUME NEW c \in sent, Coalesce(c)  PROVE HistoryTypeOK'
  <2>1. undo # <<>> /\ Top(undo) \in Step /\ Rows(Top(undo)) = Rows(c)
    BY <1>3, StackFacts DEF Coalesce
  <2>2. Merged(Top(undo), c) \in Step  BY <2>1, MergedForm
  <2>3. undo' = [undo EXCEPT ![Len(undo)] = Merged(Top(undo), c)]
    BY <1>3 DEF Coalesce, Top
  <2>4. undo' \in Seq(Step)
    <3>1. Len(undo) \in 1..Len(undo)  BY <2>1, EmptySeq
    <3>2. QED  BY <2>2, <2>3, <3>1, ExceptSeq
  <2>5. QED  BY <1>3, <2>4, EmptySeq DEF Coalesce, server, witnesses
<1>4. ASSUME NEW c \in sent, AnswerLost(c)  PROVE HistoryTypeOK'
  <2>1. Rows(c) \subseteq Row  BY StepForm
  <2>2. QED  BY <1>4, <2>1 DEF AnswerLost, server, stacks
<1>5. CASE ClearRedo
  <2>1. overlap' \in BOOLEAN  BY <1>5 DEF ClearRedo
  <2>2. QED  BY <1>5, <2>1, EmptySeq DEF ClearRedo, server
<1>6. ASSUME NEW r \in Row, NEW v \in Value, OthersWrite(r, v)  PROVE HistoryTypeOK'
  <2>1. value' = Saved({r}, [q \in {r} |-> v]) /\ moved' \in {{}, moved \cup {r}}
    BY <1>6 DEF OthersWrite, Save
  <2>2. value' \in [Row -> Value] /\ moved' \subseteq Row
    <3>1. \A q \in {r} : [p \in {r} |-> v][q] \in Value  OBVIOUS
    <3>2. {r} \in SUBSET Row  OBVIOUS
    <3>3. QED  BY <2>1, <3>1, <3>2, SavedValue
  <2>3. QED  BY <1>6, <2>2 DEF OthersWrite, stacks
<1>7. ASSUME NEW dir \in Direction, Press(dir)  PROVE HistoryTypeOK'
  <2>1. replay' \in Replay  BY <1>7, ReplayStarted DEF Press
  <2>2. overlap' \in BOOLEAN  BY <1>7 DEF Press
  <2>3. QED  BY <1>7, <2>1, <2>2 DEF Press, server, stacks
<1>8. ASSUME NEW dir \in Direction, NEW n \in 2..Len(StackOf(dir)), PressTo(dir, n)
      PROVE  HistoryTypeOK'
  <2>1. StackOf(dir) \in Seq(Step) /\ Len(StackOf(dir)) \in Nat  BY StackTyped, LenProperties
  <2>2. StackOf(dir) # <<>>  BY <2>1, EmptySeq
  <2>3. replay' \in Replay  BY <1>8, <2>2, ReplayStarted DEF PressTo
  <2>4. PICK m : m = Len(StackOf(dir))  OBVIOUS
  <2>5. \A i \in 1..n : m + 1 - i \in 1..m  BY <2>1, <2>4
  <2>6. \A i \in 1..n : StackOf(dir)[m + 1 - i] \in Step  BY <2>1, <2>4, <2>5, ElementOfSeq
  <2>7. [i \in 1..n |-> StackOf(dir)[m + 1 - i]] \in [1..n -> Step]  BY <2>6
  <2>8. n \in Nat  BY <2>1
  <2>9. [i \in 1..n |-> StackOf(dir)[m + 1 - i]] \in Seq(Step)  BY <2>7, <2>8, MadeSeq
  <2>10. range' \in [dir: Direction, steps: Seq(Step)]  BY <1>8, <2>4, <2>9 DEF PressTo
  <2>11. overlap' \in BOOLEAN  BY <1>8 DEF PressTo
  <2>12. QED  BY <1>8, <2>3, <2>10, <2>11 DEF PressTo, server, stacks
<1>9. CASE RunOn
  <2>1. replay' \in Replay \cup {NoReplay} /\ range' \in [dir: Direction, steps: Seq(Step)]
    <3>1. CASE StackOf(range.dir) = <<>>
      BY <1>9, <3>1, NoRangeTyped DEF RunOn
    <3>2. CASE StackOf(range.dir) # <<>>
      <4>1. range.dir \in Direction  OBVIOUS
      <4>2. Started(range.dir) /\ range' = range  BY <1>9, <3>2 DEF RunOn
      <4>3. QED  BY <3>2, <4>1, <4>2, ReplayStarted
    <3>3. QED  BY <3>1, <3>2
  <2>2. QED  BY <1>9, <2>1 DEF RunOn, server, stacks, witnesses
<1>10. CASE Check
  <2>1. Running /\ \E at \in {"write"} \cup Outcome : ReplayAt(at)
    BY <1>10 DEF Check, Running, Outcome
  <2>2. replay' \in Replay /\ moved' = {}  BY <2>1, ReplayGoesTo
  <2>3. QED  BY <1>10, <2>2 DEF Check, stacks, witnesses
<1>11. CASE Write \/ WriteLost
  <2>1. Running /\ \E at \in {"write"} \cup Outcome : ReplayAt(at)
    BY <1>11 DEF Write, WriteLost, Running, Outcome
  <2>2. replay' \in Replay /\ moved' = {}  BY <2>1, ReplayGoesTo
  <2>3. replay.step \in Step  BY <2>1, ReplayForm
  <2>4. Written(replay.step) \subseteq Rows(replay.step) /\ Rows(replay.step) \subseteq Row
    BY <2>3, StepForm
  <2>5. \A r \in Written(replay.step) : Target(replay.dir, replay.step)[r] \in Value
    BY <2>3, <2>4, SidesOfStep
  <2>6. value' \in [Row -> Value]
    <3>1. Written(replay.step) \in SUBSET Row  BY <2>4
    <3>2. Saved(Written(replay.step), Target(replay.dir, replay.step)) \in [Row -> Value]
      BY <2>5, <3>1, SavedValue
    <3>3. QED  BY <1>11, <3>2 DEF Write, WriteLost
  <2>7. foreign' \subseteq Row  BY <1>11, <2>4 DEF Write, WriteLost, witnesses
  <2>8. QED  BY <1>11, <2>2, <2>6, <2>7 DEF Write, WriteLost, stacks, witnesses
<1>12. CASE WriteStale \/ ReplayBarred \/ ReplayFails
  <2>1. Running /\ \E at \in {"write"} \cup Outcome : ReplayAt(at)
    BY <1>12 DEF WriteStale, ReplayBarred, ReplayFails, Running, Outcome
  <2>2. replay' \in Replay /\ moved' = {}  BY <2>1, ReplayGoesTo
  <2>3. QED  BY <1>12, <2>2 DEF WriteStale, ReplayBarred, ReplayFails, stacks, witnesses
<1>13. CASE UndoApplied \/ RedoApplied \/ UndoSetAside \/ RedoSetAside \/ ReplayThrew
  <2>1. Running
    BY <1>13 DEF UndoApplied, RedoApplied, UndoSetAside, RedoSetAside, ReplayThrew,
                 Settled, SettledAside, Running
  <2>2. replay.step \in Step /\ Written(replay.step) \subseteq Row
    BY <2>1, ReplayForm, StepForm
  <2>3. Popped(undo) \in Seq(Step) /\ Popped(redo) \in Seq(Step)  BY PoppedStack
  <2>4. /\ Pushed(undo, replay.step) \in Seq(Step) /\ Pushed(redo, replay.step) \in Seq(Step)
    BY <2>2, PushedFacts
  <2>5. <<>> \in Seq(Step)  BY EmptySeq
  <2>6. range' \in [dir: Direction, steps: Seq(Step)]
    <3>1. RangeGoesOn \/ range' = NoRange \/ range' = range
      BY <1>13 DEF UndoApplied, RedoApplied, UndoSetAside, RedoSetAside, ReplayThrew
    <3>2. range.steps # <<>> => Tail(range.steps) \in Seq(Step)  BY HeadTailProperties
    <3>3. RangeGoesOn => range' \in [dir: Direction, steps: Seq(Step)]
      BY <3>2 DEF RangeGoesOn
    <3>4. QED  BY <3>1, <3>3, NoRangeTyped
  <2>7. replay' = NoReplay
    BY <1>13 DEF UndoApplied, RedoApplied, UndoSetAside, RedoSetAside, ReplayThrew,
                 Settled, SettledAside
  <2>8. /\ undo' \in Seq(Step) /\ redo' \in Seq(Step)
        /\ window' \in BOOLEAN /\ foreign' \subseteq Row
    BY <1>13, <2>2, <2>3, <2>4, <2>5
    DEF UndoApplied, RedoApplied, UndoSetAside, RedoSetAside, ReplayThrew, stacks, witnesses
  <2>9. UNCHANGED <<value, moved, sent, edits, overlap, crossed>>
    BY <1>13
    DEF UndoApplied, RedoApplied, UndoSetAside, RedoSetAside, ReplayThrew, server, witnesses
  <2>10. QED  BY <2>6, <2>7, <2>8, <2>9
<1>14. QED
  BY <1>1, <1>2, <1>3, <1>4, <1>5, <1>6, <1>7, <1>8, <1>9, <1>10, <1>11, <1>12, <1>13, EveryBuilder
  DEF HistoryNext

-----------------------------------------------------------------------------
(* The depth of the history.                                               *)

\* An undo in flight was on the undo stack, which nothing else pops.
UndoStands == Running /\ replay.dir = "undo" => undo # <<>>

LEMMA DepthStep ==
  ASSUME HistoryTypeOK, BothWithinDepth, UndoStands, HistoryNext
  PROVE  BothWithinDepth' /\ UndoStands'
<1> USE DEF BothWithinDepth, UndoStands
<1>1. /\ undo \in Seq(Step) /\ redo \in Seq(Step)
      /\ Len(undo) \in Nat /\ Len(redo) \in Nat
      /\ Len(undo) <= Depth /\ Len(redo) <= Depth
      /\ Depth \in Nat \ {0}
  BY LenProperties, HistoryAssumption DEF HistoryTypeOK
<1>2. ASSUME UNCHANGED <<undo, redo>>,
             replay' = replay \/ (Running /\ replay'.dir = replay.dir)
      PROVE  BothWithinDepth' /\ UndoStands'
  BY <1>2 DEF Running
<1>3. ASSUME NEW dir \in Direction, Started(dir), StackOf(dir) # <<>>, UNCHANGED <<undo, redo>>
      PROVE  BothWithinDepth' /\ UndoStands'
  BY <1>3, ReplayStarted DEF StackOf
<1>4. ASSUME NEW at \in {"write"} \cup Outcome, Running, ReplayAt(at), UNCHANGED <<undo, redo>>
      PROVE  BothWithinDepth' /\ UndoStands'
  BY <1>2, <1>4, ReplayGoesTo
<1>5. ASSUME NEW R \in (SUBSET Row) \ {{}}, NEW to \in [R -> Value], NEW fixed \in BOOLEAN,
             Edit(to, fixed)
      PROVE  BothWithinDepth' /\ UndoStands'
  BY <1>2, <1>5 DEF Edit, stacks
<1>6. ASSUME NEW c \in sent, Record(c)  PROVE BothWithinDepth' /\ UndoStands'
  <2>1. c \in Step  BY DEF HistoryTypeOK
  <2>2. Len(Pushed(undo, c)) <= Depth /\ Pushed(undo, c) # <<>>
        /\ Len(Pushed(undo, c)) \in {Len(undo), Len(undo) + 1}
    BY <1>1, <2>1, PushedFacts
  <2>3. undo' = Pushed(undo, c) /\ redo' = <<>> /\ Len(<<>>) = 0
    BY <1>6 DEF Record
  <2>4. QED  BY <1>1, <2>2, <2>3
<1>7. ASSUME NEW c \in sent, Coalesce(c)  PROVE BothWithinDepth' /\ UndoStands'
  <2>1. c \in Step  BY DEF HistoryTypeOK
  <2>2. undo # <<>> /\ Top(undo) \in Step /\ Rows(Top(undo)) = Rows(c)
    BY <1>1, <1>7, StackFacts DEF Coalesce
  <2>3. Merged(Top(undo), c) \in Step  BY <2>1, <2>2, MergedForm
  <2>4. undo' = [undo EXCEPT ![Len(undo)] = Merged(Top(undo), c)] /\ redo' = <<>>
    BY <1>7 DEF Coalesce, Top
  <2>5. Len(undo) \in 1..Len(undo)  BY <1>1, <2>2, EmptySeq
  <2>6. undo' \in Seq(Step) /\ Len(undo') = Len(undo)  BY <1>1, <2>3, <2>4, <2>5, ExceptSeq
  <2>7. Len(undo) # 0 /\ Len(<<>>) = 0  BY <2>5
  <2>8. QED  BY <1>1, <2>4, <2>6, <2>7
<1>8. ASSUME NEW c \in sent, AnswerLost(c)  PROVE BothWithinDepth' /\ UndoStands'
  BY <1>2, <1>8 DEF AnswerLost, stacks
<1>9. CASE ClearRedo
  <2>1. undo' = undo /\ redo' = <<>> /\ replay' = replay /\ Len(<<>>) = 0
    BY <1>9 DEF ClearRedo
  <2>2. QED  BY <1>1, <2>1 DEF Running
<1>10. ASSUME NEW r \in Row, NEW v \in Value, OthersWrite(r, v)
       PROVE  BothWithinDepth' /\ UndoStands'
  BY <1>2, <1>10 DEF OthersWrite, stacks
<1>11. ASSUME NEW dir \in Direction, Press(dir)  PROVE BothWithinDepth' /\ UndoStands'
  BY <1>3, <1>11 DEF Press, stacks
<1>12. ASSUME NEW dir \in Direction, NEW n \in 2..Len(StackOf(dir)), PressTo(dir, n)
       PROVE  BothWithinDepth' /\ UndoStands'
  <2>1. StackOf(dir) # <<>>
    <3>1. Len(StackOf(dir)) \in Nat  BY <1>1 DEF StackOf
    <3>2. Len(StackOf(dir)) # 0  BY <3>1
    <3>3. QED  BY <3>2
  <2>2. QED  BY <1>3, <1>12, <2>1 DEF PressTo, stacks
<1>13. CASE RunOn
  <2>1. range.dir \in Direction  BY DEF HistoryTypeOK
  <2>2. CASE StackOf(range.dir) = <<>>  BY <1>2, <1>13, <2>2 DEF RunOn, stacks
  <2>3. CASE StackOf(range.dir) # <<>>  BY <1>3, <1>13, <2>1, <2>3 DEF RunOn, stacks
  <2>4. QED  BY <2>2, <2>3
<1>14. CASE Check \/ Write \/ WriteLost \/ WriteStale \/ ReplayBarred \/ ReplayFails
  <2>1. UNCHANGED <<undo, redo>>
    BY <1>14 DEF Check, Write, WriteLost, WriteStale, ReplayBarred, ReplayFails, stacks
  <2>2. Running /\ \E at \in {"write"} \cup Outcome : ReplayAt(at)
    BY <1>14 DEF Check, Write, WriteLost, WriteStale, ReplayBarred, ReplayFails, Running, Outcome
  <2>3. QED  BY <1>4, <2>1, <2>2
<1>15. ASSUME replay' = NoReplay, Len(undo') + Len(redo') <= Depth
       PROVE  BothWithinDepth' /\ UndoStands'
  BY <1>15 DEF Running, NoReplay
<1>16. CASE UndoApplied
  <2>1. Running /\ replay.dir = "undo" /\ replay' = NoReplay
    BY <1>16 DEF UndoApplied, Settled, Running
  <2>2. undo # <<>> /\ replay.step \in Step  BY <2>1, ReplayForm
  <2>3. Len(Popped(undo)) = Len(undo) - 1 /\ Len(undo) >= 1  BY <1>1, <2>2, StackFacts
  <2>4. Len(Pushed(redo, replay.step)) \in {Len(redo), Len(redo) + 1}
    BY <1>1, <2>2, PushedFacts
  <2>5. undo' = Popped(undo) /\ redo' = Pushed(redo, replay.step)  BY <1>16 DEF UndoApplied
  <2>6. Len(undo') + Len(redo') <= Depth  BY <1>1, <2>3, <2>4, <2>5
  <2>7. QED  BY <1>15, <2>1, <2>6
<1>17. CASE RedoApplied
  <2>1. Running /\ replay' = NoReplay  BY <1>17 DEF RedoApplied, Settled, Running
  <2>2. replay.step \in Step  BY <2>1, ReplayForm
  <2>3. Len(Pushed(undo, replay.step)) \in {Len(undo), Len(undo) + 1}
        /\ Len(Pushed(undo, replay.step)) <= Depth
    BY <1>1, <2>2, PushedFacts
  <2>4. Popped(redo) \in Seq(Step) /\ Len(Popped(redo)) <= Len(redo)  BY <1>1, PoppedStack
  <2>5. redo # <<>> => Len(Popped(redo)) = Len(redo) - 1  BY <1>1, StackFacts
  <2>6. undo' = Pushed(undo, replay.step) /\ redo' = Popped(redo)  BY <1>17 DEF RedoApplied
  <2>7. Len(Popped(redo)) \in Nat /\ (redo = <<>> => Len(redo) = 0)  BY <2>4, LenProperties
  <2>8. Len(undo') + Len(redo') <= Depth  BY <1>1, <2>3, <2>4, <2>5, <2>6, <2>7
  <2>9. QED  BY <1>15, <2>1, <2>8
<1>18. CASE UndoSetAside
  <2>1. replay' = NoReplay /\ undo' = Popped(undo) /\ redo' = <<>> /\ Len(<<>>) = 0
    BY <1>18 DEF UndoSetAside, Settled, SettledAside
  <2>2. Popped(undo) \in Seq(Step) /\ Len(Popped(undo)) <= Len(undo)  BY <1>1, PoppedStack
  <2>3. Len(Popped(undo)) \in Nat  BY <2>2, LenProperties
  <2>4. Len(undo') + Len(redo') <= Depth  BY <1>1, <2>1, <2>2, <2>3
  <2>5. QED  BY <1>15, <2>1, <2>4
<1>19. CASE RedoSetAside
  <2>1. replay' = NoReplay /\ undo' = undo /\ redo' = <<>> /\ Len(<<>>) = 0
    BY <1>19 DEF RedoSetAside, Settled, SettledAside
  <2>2. QED  BY <1>1, <1>15, <2>1
<1>20. CASE ReplayThrew
  BY <1>15, <1>20 DEF ReplayThrew, Settled, stacks
<1>21. QED
  BY <1>5, <1>6, <1>7, <1>8, <1>9, <1>10, <1>11, <1>12, <1>13, <1>14, <1>16, <1>17, <1>18,
     <1>19, <1>20, EveryBuilder
  DEF HistoryNext

-----------------------------------------------------------------------------
(* What a replay writes.                                                   *)

\* A row a replay is about to write that nobody has written since it was read
\* still holds what the step left there.
UnmovedAsRead ==
  replay.at = "write" =>
    \A r \in Written(replay.step) \ moved :
      value[r] = Expected(replay.dir, replay.step)[r]

LEMMA UnmovedStep ==
  ASSUME HistoryTypeOK, UnmovedAsRead, HistoryNext
  PROVE  UnmovedAsRead'
<1> USE DEF UnmovedAsRead
<1>1. ASSUME replay'.at # "write"  PROVE UnmovedAsRead'
  BY <1>1
<1>2. ASSUME UNCHANGED <<value, moved, replay>>  PROVE UnmovedAsRead'
  BY <1>2 DEF Written, Rows, Expected
<1>3. ASSUME NEW rows \in SUBSET Row, NEW to, Save(rows, to), replay' = replay
      PROVE  UnmovedAsRead'
  <2>1. SUFFICES ASSUME replay.at = "write"  PROVE UnmovedAsRead'
    BY <1>1, <1>3
  <2>2. moved' = moved \cup rows /\ value' = Saved(rows, to)
    BY <1>3, <2>1 DEF Save, Running
  <2>3. Written(replay.step) \subseteq Row
    BY <2>1, ReplayForm, StepForm DEF Running
  <2>4. \A r \in Row \ rows : value'[r] = value[r]  BY <2>2 DEF Saved
  <2>5. QED  BY <1>3, <2>1, <2>2, <2>3, <2>4 DEF Written, Rows, Expected
<1>4. ASSUME NEW R \in (SUBSET Row) \ {{}}, NEW to \in [R -> Value], NEW fixed \in BOOLEAN,
             Edit(to, fixed)
      PROVE  UnmovedAsRead'
  <2>1. DOMAIN to \in SUBSET Row  OBVIOUS
  <2>2. QED  BY <1>3, <1>4, <2>1 DEF Edit
<1>5. ASSUME NEW c \in sent, Record(c) \/ Coalesce(c) \/ AnswerLost(c)  PROVE UnmovedAsRead'
  BY <1>2, <1>5 DEF Record, Coalesce, AnswerLost, server
<1>6. CASE ClearRedo  BY <1>2, <1>6 DEF ClearRedo, server
<1>7. ASSUME NEW r \in Row, NEW v \in Value, OthersWrite(r, v)  PROVE UnmovedAsRead'
  <2>1. {r} \in SUBSET Row  OBVIOUS
  <2>2. QED  BY <1>3, <1>7, <2>1 DEF OthersWrite
<1>8. ASSUME NEW dir \in Direction, Press(dir)  PROVE UnmovedAsRead'
  BY <1>1, <1>8 DEF Press, Started
<1>9. ASSUME NEW dir \in Direction, NEW n \in 2..Len(StackOf(dir)), PressTo(dir, n)
      PROVE  UnmovedAsRead'
  BY <1>1, <1>9 DEF PressTo, Started
<1>10. CASE RunOn  BY <1>1, <1>2, <1>10 DEF RunOn, Started, server
<1>11. CASE Check
  <2>1. PICK at \in {"write"} \cup Outcome : ReplayAt(at)  BY <1>11 DEF Check, Outcome
  <2>2. Running  BY <1>11 DEF Check, Running
  <2>3. /\ replay'.at = at /\ moved' = {}
        /\ replay'.dir = replay.dir /\ replay'.step = replay.step
    BY <2>1, <2>2, ReplayGoesTo
  <2>4. CASE at = "write"
    <3>1. \A r \in Written(replay.step) : value[r] = Expected(replay.dir, replay.step)[r]
      BY <1>11, <2>2, <2>3, <2>4, ReplayGoesTo DEF Check, Outcome
    <3>2. value' = value  BY <1>11 DEF Check
    <3>3. QED  BY <2>3, <3>1, <3>2 DEF Written, Rows, Expected
  <2>5. CASE at # "write"  BY <1>1, <2>3, <2>5
  <2>6. QED  BY <2>4, <2>5
<1>12. CASE Write \/ WriteLost \/ WriteStale \/ ReplayBarred \/ ReplayFails
  <2>1. PICK at \in Outcome : ReplayAt(at)
    BY <1>12 DEF Write, WriteLost, WriteStale, ReplayBarred, ReplayFails, Outcome
  <2>2. Running
    BY <1>12 DEF Write, WriteLost, WriteStale, ReplayBarred, ReplayFails, Running
  <2>3. replay'.at = at /\ at # "write"  BY <2>1, <2>2, ReplayGoesTo DEF Outcome
  <2>4. QED  BY <1>1, <2>3
<1>13. CASE UndoApplied \/ RedoApplied \/ UndoSetAside \/ RedoSetAside \/ ReplayThrew
  <2>1. replay' = NoReplay
    BY <1>13 DEF UndoApplied, RedoApplied, UndoSetAside, RedoSetAside, ReplayThrew,
                 Settled, SettledAside
  <2>2. QED  BY <1>1, <2>1 DEF NoReplay
<1>14. QED
  BY <1>4, <1>5, <1>6, <1>7, <1>8, <1>9, <1>10, <1>11, <1>12, <1>13, EveryBuilder
  DEF HistoryNext

LEMMA ReplayStep ==
  ASSUME HistoryTypeOK, UnmovedAsRead, HistoryNext, Running, replay' # replay,
         NEW r \in Row, value'[r] # value[r]
  PROVE  /\ r \in Written(replay.step)
         /\ value[r] = Expected(replay.dir, replay.step)[r]
<1>1. ASSUME Write \/ WriteLost
      PROVE  /\ r \in Written(replay.step)
             /\ value[r] = Expected(replay.dir, replay.step)[r]
  <2>1. /\ replay.at = "write" /\ Written(replay.step) \cap moved = {}
        /\ value' = Saved(Written(replay.step), Target(replay.dir, replay.step))
    BY <1>1 DEF Write, WriteLost, SameVersions
  <2>2. r \in Written(replay.step)  BY <2>1 DEF Saved
  <2>3. QED  BY <2>1, <2>2 DEF UnmovedAsRead
<1>2. ASSUME value' = value  PROVE FALSE
  BY <1>2
<1>3. ASSUME replay' = replay  PROVE FALSE
  BY <1>3
<1>4. ASSUME NEW R \in (SUBSET Row) \ {{}}, NEW to \in [R -> Value], NEW fixed \in BOOLEAN,
             Edit(to, fixed)
      PROVE  FALSE
  BY <1>3, <1>4 DEF Edit
<1>5. ASSUME NEW c \in sent, Record(c) \/ Coalesce(c) \/ AnswerLost(c)  PROVE FALSE
  BY <1>3, <1>5 DEF Record, Coalesce, AnswerLost
<1>6. ASSUME ClearRedo \/ \E q \in Row, v \in Value : OthersWrite(q, v)  PROVE FALSE
  BY <1>3, <1>6 DEF ClearRedo, OthersWrite
<1>7. ASSUME NEW dir \in Direction,
             Press(dir) \/ \E n \in 2..Len(StackOf(dir)) : PressTo(dir, n)
      PROVE  FALSE
  BY <1>2, <1>7 DEF Press, PressTo, server
<1>8. ASSUME RunOn \/ Check \/ WriteStale \/ ReplayBarred \/ ReplayFails  PROVE FALSE
  BY <1>2, <1>8 DEF RunOn, Check, WriteStale, ReplayBarred, ReplayFails, server
<1>9. ASSUME UndoApplied \/ RedoApplied \/ UndoSetAside \/ RedoSetAside \/ ReplayThrew
      PROVE  FALSE
  BY <1>2, <1>9
  DEF UndoApplied, RedoApplied, UndoSetAside, RedoSetAside, ReplayThrew, server
<1>10. QED
  BY <1>1, <1>4, <1>5, <1>6, <1>7, <1>8, <1>9, EveryBuilder
  DEF HistoryNext

-----------------------------------------------------------------------------
(* What follows without the turns edits and replays may take.              *)

HistoryInv == HistoryTypeOK /\ BothWithinDepth /\ UndoStands /\ UnmovedAsRead

LEMMA HistoryInvHolds == HistorySpec => []HistoryInv
<1>1. HistoryInit => HistoryInv
  <2>1. SUFFICES ASSUME HistoryInit  PROVE HistoryInv
    OBVIOUS
  <2>2. undo \in Seq(Step) /\ redo \in Seq(Step) /\ Len(undo) = 0 /\ Len(redo) = 0
    BY <2>1, EmptySeq DEF HistoryInit
  <2>3. HistoryTypeOK
    <3>1. edits \in 0..MaxEdits  BY <2>1, HistoryAssumption DEF HistoryInit
    <3>2. range \in [dir: Direction, steps: Seq(Step)]  BY <2>1, NoRangeTyped DEF HistoryInit
    <3>3. QED  BY <2>1, <2>2, <3>1, <3>2 DEF HistoryInit, HistoryTypeOK
  <2>4. BothWithinDepth  BY <2>2, HistoryAssumption DEF BothWithinDepth
  <2>5. UndoStands /\ UnmovedAsRead
    <3>1. replay.at = "idle"  BY <2>1 DEF HistoryInit, NoReplay
    <3>2. QED  BY <3>1 DEF UndoStands, UnmovedAsRead, Running
  <2>6. QED  BY <2>3, <2>4, <2>5 DEF HistoryInv
<1>2. HistoryInv /\ [HistoryNext]_historyVars => HistoryInv'
  <2>1. SUFFICES ASSUME HistoryInv, [HistoryNext]_historyVars  PROVE HistoryInv'
    OBVIOUS
  <2>2. CASE HistoryNext
    <3>1. Len(undo) <= Depth /\ Len(redo) <= Depth
      <4>1. Len(undo) \in Nat /\ Len(redo) \in Nat
        BY <2>1, LenProperties DEF HistoryInv, HistoryTypeOK
      <4>2. QED  BY <2>1, <4>1, HistoryAssumption DEF HistoryInv, BothWithinDepth
    <3>2. QED  BY <2>1, <2>2, <3>1, HistoryTypeStep, DepthStep, UnmovedStep DEF HistoryInv
  <2>3. CASE UNCHANGED historyVars
    BY <2>1, <2>3
    DEF HistoryInv, historyVars, HistoryTypeOK, BothWithinDepth, UndoStands, UnmovedAsRead,
        Running, Written, Rows, Expected
  <2>4. QED  BY <2>1, <2>2, <2>3
<1>3. QED  BY <1>1, <1>2, PTL DEF HistorySpec

\* Types: what the stacks hold are steps, and a merged step has one set of rows.
THEOREM HistoryTyped == HistorySpec => []HistoryTypeOK
BY HistoryInvHolds, PTL DEF HistoryInv

\* The two stacks together never hold more than MAX_HISTORY_DEPTH steps,
\* whatever is recorded while a replay is in flight.
THEOREM HistoryBounded == HistorySpec => []BothWithinDepth
BY HistoryInvHolds, PTL DEF HistoryInv

\* A replay writes no row but its step's, and none that somebody has changed
\* since the step was made, even between the replay's check and its write.
THEOREM NobodyOverwritten == HistorySpec => ReplayOverwritesNobody
<1>1. HistoryInv /\ [HistoryNext]_historyVars =>
        [Running /\ replay' # replay =>
           \A r \in Row : value'[r] # value[r] =>
             /\ r \in Written(replay.step)
             /\ value[r] = Expected(replay.dir, replay.step)[r]]_historyVars
  BY ReplayStep DEF HistoryInv
<1>2. QED  BY <1>1, HistoryInvHolds, PTL DEF HistorySpec, ReplayOverwritesNobody

-----------------------------------------------------------------------------
(* Edits and replays that take turns, as they do until overlap is set.     *)

LEMMA OverlapStays ==
  ASSUME HistoryNext, ~overlap'
  PROVE  ~overlap
BY DEF HistoryNext, Edit, Record, Coalesce, AnswerLost, ClearRedo, OthersWrite, Press, PressTo,
       RunOn, Check, Write, WriteStale, ReplayBarred, WriteLost, ReplayFails, UndoApplied,
       RedoApplied, UndoSetAside, RedoSetAside, ReplayThrew, witnesses

OnTop(steps, stack) ==
  /\ Len(steps) <= Len(stack)
  /\ \A i \in 1..Len(steps) : steps[i] = stack[Len(stack) + 1 - i]

\* A replay and a run of several have the history to themselves: no answer is
\* out, the step in flight is the top one, and the steps still to run are the
\* topmost, in order.
TakingTurns ==
  /\ Running \/ range.steps # <<>> => sent = {}
  /\ Running => /\ StackOf(replay.dir) # <<>>
                /\ replay.step = Top(StackOf(replay.dir))
                /\ range.steps # <<>> => replay.dir = range.dir
  /\ OnTop(range.steps, StackOf(range.dir))

LEMMA OnTopEmpty ==
  ASSUME NEW stack \in Seq(Step)
  PROVE  OnTop(<<>>, stack)
<1>1. Len(<<>>) = 0 /\ Len(stack) \in Nat  BY LenProperties
<1>2. QED  BY <1>1 DEF OnTop

LEMMA OnTopNext ==
  ASSUME NEW steps \in Seq(Step), steps # <<>>, NEW stack \in Seq(Step), OnTop(steps, stack)
  PROVE  /\ stack # <<>> /\ Head(steps) = Top(stack)
         /\ OnTop(Tail(steps), Popped(stack))
<1>1. PICK n \in Nat, m \in Nat : Len(steps) = n + 1 /\ Len(stack) = m + 1 /\ n <= m
  <2>1. Len(steps) \in Nat \ {0} /\ Len(stack) \in Nat  BY EmptySeq, LenProperties
  <2>2. Len(steps) <= Len(stack)  BY DEF OnTop
  <2>3. Len(steps) - 1 \in Nat /\ Len(stack) - 1 \in Nat  BY <2>1, <2>2
  <2>4. QED  BY <2>1, <2>2, <2>3
<1>2. stack # <<>>
  <2>1. Len(<<>>) = 0  OBVIOUS
  <2>2. QED  BY <1>1, <2>1
<1>3. \A i \in 1..n + 1 : steps[i] = stack[m + 1 + 1 - i]  BY <1>1 DEF OnTop
<1>4. Head(steps) = Top(stack)
  <2>1. Head(steps) = steps[1]  OBVIOUS
  <2>2. 1 \in 1..n + 1 /\ m + 1 + 1 - 1 = m + 1  OBVIOUS
  <2>3. QED  BY <1>1, <1>3, <2>1, <2>2 DEF Top
<1>5. Len(Tail(steps)) = n /\ \A i \in 1..n : Tail(steps)[i] = steps[i + 1]
  <2>1. n + 1 - 1 = n  OBVIOUS
  <2>2. QED  BY <1>1, <2>1, HeadTailProperties
<1>6. Len(Popped(stack)) = m /\ \A i \in 1..m : Popped(stack)[i] = stack[i]
  <2>1. m + 1 - 1 = m  OBVIOUS
  <2>2. /\ Len(Popped(stack)) = Len(stack) - 1
        /\ \A i \in 1..Len(stack) - 1 : Popped(stack)[i] = stack[i]
    BY <1>2, StackFacts
  <2>3. QED  BY <1>1, <2>1, <2>2
<1>7. ASSUME NEW i \in 1..n  PROVE Tail(steps)[i] = Popped(stack)[m + 1 - i]
  <2>1. i + 1 \in 1..n + 1 /\ m + 1 + 1 - (i + 1) = m + 1 - i /\ m + 1 - i \in 1..m
    BY <1>1
  <2>2. QED  BY <1>3, <1>5, <1>6, <2>1
<1>8. QED  BY <1>1, <1>2, <1>4, <1>5, <1>6, <1>7 DEF OnTop

LEMMA TurnsStep ==
  ASSUME HistoryTypeOK, HistoryTypeOK', TakingTurns, ~overlap', HistoryNext
  PROVE  TakingTurns'
<1>1. /\ range.dir \in Direction /\ range.steps \in Seq(Step)
      /\ undo \in Seq(Step) /\ redo \in Seq(Step)
  BY DEF HistoryTypeOK
<1>2. ASSUME ~Running', range'.steps = <<>>  PROVE TakingTurns'
  <2>1. undo' \in Seq(Step) /\ redo' \in Seq(Step)  BY DEF HistoryTypeOK
  <2>2. OnTop(<<>>, undo') /\ OnTop(<<>>, redo')  BY <2>1, OnTopEmpty
  <2>3. OnTop(range'.steps, IF range'.dir = "undo" THEN undo' ELSE redo')
    BY <1>2, <2>2
  <2>4. QED  BY <1>2, <2>3 DEF TakingTurns, StackOf
<1>3. ASSUME UNCHANGED <<sent, undo, redo, range>>,
             replay' = replay \/ ( /\ Running /\ replay'.dir = replay.dir
                                   /\ replay'.step = replay.step )
      PROVE  TakingTurns'
  BY <1>3 DEF TakingTurns, StackOf, Running, Top
<1>4. ASSUME NEW at \in {"write"} \cup Outcome, Running, ReplayAt(at),
             UNCHANGED <<sent, undo, redo, range>>
      PROVE  TakingTurns'
  BY <1>3, <1>4, ReplayGoesTo
<1>5. ASSUME NEW c \in sent  PROVE ~Running /\ range.steps = <<>>
  BY <1>5 DEF TakingTurns
<1>6. ASSUME NEW R \in (SUBSET Row) \ {{}}, NEW to \in [R -> Value], NEW fixed \in BOOLEAN,
             Edit(to, fixed)
      PROVE  TakingTurns'
  <2>1. ~Running /\ range.steps = <<>> /\ replay' = replay /\ range' = range
    BY <1>6 DEF Edit, Quiet
  <2>2. QED  BY <1>2, <2>1 DEF Running
<1>7. ASSUME NEW c \in sent, Record(c) \/ Coalesce(c) \/ AnswerLost(c)  PROVE TakingTurns'
  <2>1. ~Running /\ range.steps = <<>>  BY <1>5
  <2>2. replay' = replay /\ range' = range  BY <1>7 DEF Record, Coalesce, AnswerLost
  <2>3. QED  BY <1>2, <2>1, <2>2 DEF Running
<1>8. CASE ClearRedo
  <2>1. ~Running /\ range.steps = <<>> /\ replay' = replay /\ range' = range
    BY <1>8 DEF ClearRedo, Quiet
  <2>2. QED  BY <1>2, <2>1 DEF Running
<1>9. ASSUME NEW r \in Row, NEW v \in Value, OthersWrite(r, v)  PROVE TakingTurns'
  BY <1>3, <1>9 DEF OthersWrite, stacks
<1>10. ASSUME NEW dir \in Direction, StackOf(dir) # <<>>, Started(dir), sent = {},
              UNCHANGED <<sent, undo, redo>>, range'.dir \in Direction,
              range'.steps = <<>> \/ (range'.dir = dir /\ OnTop(range'.steps, StackOf(dir)))
       PROVE  TakingTurns'
  <2>1. replay'.dir = dir /\ replay'.step = Top(StackOf(dir))  BY <1>10, ReplayStarted
  <2>2. /\ StackOf(dir) = (IF replay'.dir = "undo" THEN undo' ELSE redo')
        /\ range'.dir = dir => StackOf(dir) = (IF range'.dir = "undo" THEN undo' ELSE redo')
    BY <1>10, <2>1 DEF StackOf
  <2>3. OnTop(<<>>, undo) /\ OnTop(<<>>, redo)  BY <1>1, OnTopEmpty
  <2>4. OnTop(range'.steps, IF range'.dir = "undo" THEN undo' ELSE redo')
    BY <1>10, <2>2, <2>3
  <2>5. sent' = {} /\ (range'.steps # <<>> => replay'.dir = range'.dir)
    BY <1>10, <2>1
  <2>6. QED  BY <1>10, <2>1, <2>2, <2>4, <2>5 DEF TakingTurns, StackOf, Top
<1>11. ASSUME NEW dir \in Direction, Press(dir)  PROVE TakingTurns'
  BY <1>1, <1>10, <1>11 DEF Press, Quiet, stacks
<1>12. ASSUME NEW dir \in Direction, NEW n \in 2..Len(StackOf(dir)), PressTo(dir, n)
       PROVE  TakingTurns'
  <2>1. PICK m \in Nat : m = Len(StackOf(dir))  BY StackTyped, LenProperties
  <2>2. n \in Nat /\ n <= m /\ m # 0  BY <2>1
  <2>3. StackOf(dir) # <<>>
    <3>1. Len(<<>>) = 0  OBVIOUS
    <3>2. QED  BY <2>1, <2>2, <3>1
  <2>4. PICK steps : steps = [i \in 1..n |-> StackOf(dir)[m + 1 - i]]  OBVIOUS
  <2>5. range' = [dir |-> dir, steps |-> steps]  BY <1>12, <2>1, <2>4 DEF PressTo
  <2>6. Len(steps) = n
    <3>1. \A i \in 1..n : m + 1 - i \in 1..m  BY <2>2
    <3>2. \A i \in 1..n : StackOf(dir)[m + 1 - i] \in Step
      BY <2>1, <3>1, StackTyped, ElementOfSeq
    <3>3. steps \in [1..n -> Step]  BY <2>4, <3>2
    <3>4. QED  BY <2>2, <3>3, MadeSeq
  <2>7. OnTop(steps, StackOf(dir))  BY <2>1, <2>2, <2>4, <2>6 DEF OnTop
  <2>8. /\ Started(dir) /\ sent = {} /\ UNCHANGED <<sent, undo, redo>>
        /\ range'.dir = dir /\ range'.steps = steps
    <3>1. sent = {}  BY <1>12 DEF PressTo
    <3>2. QED  BY <1>12, <2>5, <3>1 DEF PressTo, stacks
  <2>9. QED  BY <1>10, <2>3, <2>7, <2>8
<1>13. CASE RunOn
  <2>1. range.steps # <<>> /\ UNCHANGED <<sent, undo, redo>>  BY <1>13 DEF RunOn, stacks
  <2>2. StackOf(range.dir) \in Seq(Step)  BY <1>1, StackTyped
  <2>3. OnTop(range.steps, StackOf(range.dir)) /\ sent = {}  BY <2>1 DEF TakingTurns
  <2>4. StackOf(range.dir) # <<>>  BY <1>1, <2>1, <2>2, <2>3, OnTopNext
  <2>5. Started(range.dir) /\ range' = range  BY <1>13, <2>4 DEF RunOn
  <2>6. QED  BY <1>1, <1>10, <2>1, <2>3, <2>4, <2>5
<1>14. CASE Check \/ Write \/ WriteLost \/ WriteStale \/ ReplayBarred \/ ReplayFails
  <2>1. UNCHANGED <<sent, undo, redo, range>>
    BY <1>14 DEF Check, Write, WriteLost, WriteStale, ReplayBarred, ReplayFails, stacks
  <2>2. Running /\ \E at \in {"write"} \cup Outcome : ReplayAt(at)
    BY <1>14 DEF Check, Write, WriteLost, WriteStale, ReplayBarred, ReplayFails, Running, Outcome
  <2>3. QED  BY <1>4, <2>1, <2>2
<1>15. ASSUME NEW dir \in Direction, replay.dir = dir, Running, ~Running', RangeGoesOn,
              sent' = sent,
              Popped(StackOf(dir)) = IF dir = "undo" THEN undo' ELSE redo'
       PROVE  TakingTurns'
  <2>1. CASE range.steps = <<>>
    BY <1>2, <1>15, <2>1 DEF RangeGoesOn
  <2>2. CASE range.steps # <<>>
    <3>1. /\ range.dir = dir /\ sent = {} /\ OnTop(range.steps, StackOf(dir))
      BY <1>15, <2>2 DEF TakingTurns
    <3>2. OnTop(Tail(range.steps), Popped(StackOf(dir)))
      BY <1>1, <2>2, <3>1, StackTyped, OnTopNext
    <3>3. range'.dir = dir /\ range'.steps = Tail(range.steps)
      <4>1. range \in [dir: Direction, steps: Seq(Step)]  BY DEF HistoryTypeOK
      <4>2. range' = [range EXCEPT !.steps = Tail(range.steps)]
        BY <1>15, <2>2 DEF RangeGoesOn
      <4>3. QED  BY <3>1, <4>1, <4>2
    <3>4. OnTop(range'.steps, IF range'.dir = "undo" THEN undo' ELSE redo')
      BY <1>15, <3>2, <3>3
    <3>5. QED  BY <1>15, <3>1, <3>4 DEF TakingTurns, StackOf
  <2>3. QED  BY <2>1, <2>2
<1>16. CASE UndoApplied
  <2>1. /\ replay.dir = "undo" /\ Running /\ replay' = NoReplay /\ RangeGoesOn /\ sent' = sent
        /\ undo' = Popped(undo)
    BY <1>16 DEF UndoApplied, Settled, Running
  <2>2. QED  BY <1>15, <2>1 DEF StackOf, Running, NoReplay, Direction
<1>17. CASE RedoApplied
  <2>1. /\ replay.dir = "redo" /\ Running /\ replay' = NoReplay /\ RangeGoesOn /\ sent' = sent
        /\ redo' = Popped(redo)
    BY <1>17 DEF RedoApplied, Settled, Running
  <2>2. QED  BY <1>15, <2>1 DEF StackOf, Running, NoReplay, Direction
<1>18. CASE UndoSetAside \/ RedoSetAside \/ ReplayThrew
  <2>1. replay' = NoReplay /\ range' = NoRange
    BY <1>18 DEF UndoSetAside, RedoSetAside, ReplayThrew, Settled, SettledAside
  <2>2. QED  BY <1>2, <2>1 DEF Running, NoReplay, NoRange
<1>19. QED
  BY <1>6, <1>7, <1>8, <1>9, <1>11, <1>12, <1>13, <1>14, <1>16, <1>17, <1>18, EveryBuilder
  DEF HistoryNext

-----------------------------------------------------------------------------
(* The numbers of the steps.                                               *)

Ids(stack) == {stack[i].id : i \in 1..Len(stack)}

\* No two steps of a stack have the same number, unless it is one of X.
Once(stack, X) ==
  \A i, j \in 1..Len(stack) : stack[i].id = stack[j].id => i = j \/ stack[i].id \in X

\* A step is on one stack, once, unless it was crossed.
Apart ==
  /\ Once(undo, crossed) /\ Once(redo, crossed)
  /\ Ids(undo) \cap Ids(redo) \subseteq crossed

OtherStack(dir) == IF dir = "undo" THEN redo ELSE undo

\* The step in flight, unless it was crossed, is nowhere but on top of its stack.
FlightApart ==
  Running => \/ replay.step.id \in crossed
             \/ replay.step.id \notin Ids(OtherStack(replay.dir))
                                        \cup Ids(Popped(StackOf(replay.dir)))

\* The steps there are have been numbered, and an edit that is not answered has
\* a number of its own.
Numbered ==
  /\ Ids(undo) \cup Ids(redo) \subseteq 1..edits
  /\ Running => replay.step.id \in 1..edits
  /\ \A c \in sent : /\ c.id \in (1..edits) \ (Ids(undo) \cup Ids(redo))
                     /\ Running => c.id # replay.step.id

\* Edits under way are of rows of their own.
SentApart == \A c, d \in sent : c # d => c.id # d.id /\ Rows(c) \cap Rows(d) = {}

NumbersInv == Apart /\ FlightApart /\ Numbered /\ SentApart

LEMMA IdsEmpty ==
  ASSUME NEW X
  PROVE  Ids(<<>>) = {} /\ Once(<<>>, X)
<1>1. Len(<<>>) = 0  OBVIOUS
<1>2. QED  BY <1>1 DEF Ids, Once

LEMMA OnceGrown ==
  ASSUME NEW s, NEW X, NEW Y, X \subseteq Y, Once(s, X)
  PROVE  Once(s, Y)
BY DEF Once

LEMMA IdsAppended ==
  ASSUME NEW s \in Seq(Step), NEW c \in Step, NEW X, Once(s, X), c.id \notin Ids(s) \/ c.id \in X
  PROVE  Once(Append(s, c), X) /\ Ids(Append(s, c)) = Ids(s) \cup {c.id}
<1> DEFINE n == Len(s)
           t == Append(s, c)
<1>1. /\ n \in Nat /\ Len(t) = n + 1 /\ t[n + 1] = c
      /\ \A i \in 1..n : t[i] = s[i]
  BY AppendFacts, LenProperties
<1>2. \A i \in 1..n : t[i].id = s[i].id /\ t[i].id \in Ids(s)  BY <1>1 DEF Ids
<1>3. \A i, j \in 1..n : s[i].id = s[j].id => i = j \/ s[i].id \in X  BY DEF Once
<1> HIDE DEF n, t
<1>4. 1..n + 1 = (1..n) \cup {n + 1}  BY <1>1
<1>5. Once(t, X)
  <2>1. ASSUME NEW i \in 1..n + 1, NEW j \in 1..n + 1, t[i].id = t[j].id
        PROVE  i = j \/ t[i].id \in X
    <3>1. CASE i \in 1..n /\ j \in 1..n  BY <1>2, <1>3, <2>1, <3>1
    <3>2. CASE i = n + 1 /\ j \in 1..n  BY <1>1, <1>2, <2>1, <3>2
    <3>3. CASE i \in 1..n /\ j = n + 1  BY <1>1, <1>2, <2>1, <3>3
    <3>4. QED  BY <1>4, <3>1, <3>2, <3>3
  <2>2. QED  BY <1>1, <2>1 DEF Once
<1>6. Ids(t) = Ids(s) \cup {c.id}
  <2>1. Ids(t) = {t[i].id : i \in (1..n) \cup {n + 1}}  BY <1>1, <1>4 DEF Ids
  <2>2. Ids(s) = {s[i].id : i \in 1..n}  BY DEF Ids, n
  <2>3. QED  BY <1>1, <1>2, <2>1, <2>2
<1>7. QED  BY <1>5, <1>6 DEF t

LEMMA IdsTail ==
  ASSUME NEW s \in Seq(Step), s # <<>>, NEW X, Once(s, X)
  PROVE  Once(Tail(s), X) /\ Ids(Tail(s)) \subseteq Ids(s)
<1>1. PICK n \in Nat : Len(s) = n + 1
  <2>1. Len(s) \in Nat \ {0}  BY EmptySeq
  <2>2. Len(s) - 1 \in Nat /\ Len(s) = Len(s) - 1 + 1  BY <2>1
  <2>3. QED  BY <2>2
<1>2. Len(Tail(s)) = n /\ \A i \in 1..n : Tail(s)[i] = s[i + 1]
  <2>1. n + 1 - 1 = n  OBVIOUS
  <2>2. QED  BY <1>1, <2>1, HeadTailProperties
<1>3. \A i \in 1..n : i + 1 \in 1..n + 1  OBVIOUS
<1>4. ASSUME NEW i \in 1..n, NEW j \in 1..n, Tail(s)[i].id = Tail(s)[j].id
      PROVE  i = j \/ Tail(s)[i].id \in X
  <2>1. i + 1 = j + 1 \/ s[i + 1].id \in X  BY <1>1, <1>2, <1>3, <1>4 DEF Once
  <2>2. QED  BY <1>2, <2>1
<1>5. QED  BY <1>1, <1>2, <1>3, <1>4 DEF Once, Ids

LEMMA IdsPopped ==
  ASSUME NEW s \in Seq(Step), NEW X, Once(s, X)
  PROVE  /\ Once(Popped(s), X) /\ Ids(Popped(s)) \subseteq Ids(s)
         /\ s # <<>> => /\ Top(s).id \in Ids(s)
                        /\ Top(s).id \in X \/ Top(s).id \notin Ids(Popped(s))
<1>1. CASE s = <<>>
  <2>1. Len(s) = 0 /\ Popped(s) \in Seq(Step) /\ Len(Popped(s)) <= Len(s)
    BY <1>1, PoppedStack
  <2>2. Len(Popped(s)) = 0  BY <2>1, LenProperties
  <2>3. QED  BY <1>1, <2>2 DEF Once, Ids
<1>2. CASE s # <<>>
  <2>1. PICK n \in Nat : Len(s) = n + 1
    <3>1. Len(s) \in Nat \ {0}  BY <1>2, EmptySeq
    <3>2. Len(s) - 1 \in Nat /\ Len(s) = Len(s) - 1 + 1  BY <3>1
    <3>3. QED  BY <3>2
  <2>2. Len(Popped(s)) = n /\ \A i \in 1..n : Popped(s)[i] = s[i]
    <3>1. n + 1 - 1 = n  OBVIOUS
    <3>2. QED  BY <1>2, <2>1, <3>1, StackFacts
  <2>3. \A i \in 1..n : i \in 1..n + 1 /\ i # n + 1  OBVIOUS
  <2>4. n + 1 \in 1..n + 1 /\ Top(s) = s[n + 1]  BY <2>1 DEF Top
  <2>5. \A i \in 1..n : Popped(s)[i].id # Top(s).id \/ Top(s).id \in X
    BY <2>1, <2>2, <2>3, <2>4 DEF Once
  <2>6. QED  BY <2>1, <2>2, <2>3, <2>4, <2>5 DEF Once, Ids
<1>3. QED  BY <1>1, <1>2

LEMMA IdsPushed ==
  ASSUME NEW s \in Seq(Step), Len(s) <= Depth, NEW c \in Step, NEW X, Once(s, X),
         c.id \notin Ids(s) \/ c.id \in X
  PROVE  Once(Pushed(s, c), X) /\ Ids(Pushed(s, c)) \subseteq Ids(s) \cup {c.id}
<1>1. CASE Len(s) < Depth  BY <1>1, IdsAppended DEF Pushed
<1>2. CASE ~(Len(s) < Depth)
  <2>1. s # <<>>
    <3>1. Len(<<>>) = 0  OBVIOUS
    <3>2. QED  BY <1>2, <3>1, HistoryAssumption
  <2>2. Tail(s) \in Seq(Step)  BY <2>1, HeadTailProperties
  <2>3. Once(Tail(s), X) /\ Ids(Tail(s)) \subseteq Ids(s)  BY <2>1, IdsTail
  <2>4. Once(Append(Tail(s), c), X) /\ Ids(Append(Tail(s), c)) = Ids(Tail(s)) \cup {c.id}
    BY <2>2, <2>3, IdsAppended
  <2>5. QED  BY <1>2, <2>3, <2>4 DEF Pushed
<1>3. QED  BY <1>1, <1>2

\* What a replay that starts finds: its step is on top of its stack.
LEMMA StartedApart ==
  ASSUME HistoryTypeOK, NumbersInv, NEW dir \in Direction, StackOf(dir) # <<>>, Started(dir),
         UNCHANGED <<sent, undo, redo, edits, crossed>>
  PROVE  NumbersInv'
<1>1. replay'.dir = dir /\ replay'.step = Top(StackOf(dir))  BY ReplayStarted
<1>2. PICK s \in Seq(Step), t \in Seq(Step), id \in 1..MaxEdits :
        s = StackOf(dir) /\ t = OtherStack(dir) /\ id = Top(s).id
  <2>1. StackOf(dir) \in Seq(Step) /\ OtherStack(dir) \in Seq(Step)
    BY DEF HistoryTypeOK, StackOf, OtherStack
  <2>2. Top(StackOf(dir)).id \in 1..MaxEdits  BY <2>1, StackFacts, StepForm
  <2>3. QED  BY <2>1, <2>2
<1>3. s # <<>> /\ Once(s, crossed) /\ Ids(s) \cap Ids(t) \subseteq crossed
  BY <1>2 DEF NumbersInv, Apart, StackOf, OtherStack, Direction
<1>4. id \in Ids(s) /\ (id \in crossed \/ id \notin Ids(Popped(s)))
  BY <1>2, <1>3, IdsPopped
<1>5. id \in crossed \/ id \notin Ids(t) \cup Ids(Popped(s))  BY <1>3, <1>4
<1>6. Ids(s) \subseteq Ids(undo) \cup Ids(redo)  BY <1>2 DEF StackOf
<1>7. id \in 1..edits /\ \A c \in sent : c.id # id
  BY <1>4, <1>6 DEF NumbersInv, Numbered
<1>8. /\ s = IF replay'.dir = "undo" THEN undo' ELSE redo'
      /\ t = IF replay'.dir = "undo" THEN redo' ELSE undo'
  BY <1>1, <1>2 DEF StackOf, OtherStack
<1>9. FlightApart'  BY <1>1, <1>2, <1>5, <1>8 DEF FlightApart, StackOf, OtherStack
<1>10. Numbered'
  BY <1>1, <1>2, <1>7 DEF NumbersInv, Numbered, Ids
<1>11. Apart' /\ SentApart'  BY DEF NumbersInv, Apart, SentApart, Once, Ids, Rows
<1>12. QED  BY <1>9, <1>10, <1>11 DEF NumbersInv

LEMMA NumbersStep ==
  ASSUME HistoryInv, NumbersInv, HistoryNext
  PROVE  NumbersInv'
<1>1. /\ undo \in Seq(Step) /\ redo \in Seq(Step) /\ sent \subseteq Step /\ edits \in Nat
      /\ Len(undo) <= Depth /\ Len(redo) <= Depth /\ HistoryTypeOK
  <2>1. /\ undo \in Seq(Step) /\ redo \in Seq(Step) /\ sent \subseteq Step
        /\ edits \in 0..MaxEdits /\ HistoryTypeOK
    BY DEF HistoryInv, HistoryTypeOK
  <2>2. Len(undo) \in Nat /\ Len(redo) \in Nat  BY <2>1, LenProperties
  <2>3. QED
    BY <2>1, <2>2, HistoryAssumption DEF HistoryInv, BothWithinDepth
<1>2. ASSUME UNCHANGED <<sent, undo, redo, edits, crossed>>,
             ~Running' \/ ( /\ Running /\ replay'.dir = replay.dir
                            /\ replay'.step = replay.step )
      PROVE  NumbersInv'
  <2>1. Apart' /\ SentApart'  BY <1>2 DEF NumbersInv, Apart, SentApart, Once, Ids, Rows
  <2>2. FlightApart'
    BY <1>2 DEF NumbersInv, FlightApart, Ids, StackOf, OtherStack, Popped
  <2>3. Numbered'
    <3>1. Ids(undo)' = Ids(undo) /\ Ids(redo)' = Ids(redo)  BY <1>2 DEF Ids
    <3>2. Running' => Running /\ replay'.step = replay.step  BY <1>2
    <3>3. QED  BY <1>2, <3>1, <3>2 DEF NumbersInv, Numbered
  <2>4. QED  BY <2>1, <2>2, <2>3 DEF NumbersInv
<1>3. ASSUME replay' = replay
      PROVE  ~Running' \/ ( /\ Running /\ replay'.dir = replay.dir
                            /\ replay'.step = replay.step )
  BY <1>3 DEF Running
<1>4. ASSUME NEW U, NEW R, undo' = U, redo' = R, edits' = edits,
             sent' \subseteq sent, crossed \subseteq crossed',
             Once(U, crossed'), Once(R, crossed'), Ids(U) \cap Ids(R) \subseteq crossed',
             Ids(U) \cup Ids(R) \subseteq 1..edits,
             \A c \in sent' : c.id \notin Ids(U) \cup Ids(R),
             FlightApart', Running' => Running /\ replay'.step = replay.step
      PROVE  NumbersInv'
  <2>1. Apart'  BY <1>4 DEF Apart, Once, Ids
  <2>2. Numbered'  BY <1>4 DEF NumbersInv, Numbered, Ids
  <2>3. SentApart'  BY <1>4 DEF NumbersInv, SentApart, Rows
  <2>4. QED  BY <1>4, <2>1, <2>2, <2>3 DEF NumbersInv
<1>5. ASSUME replay' = NoReplay  PROVE ~Running' /\ FlightApart'
  BY <1>5 DEF FlightApart, Running, NoReplay
<1>6. ASSUME NEW R \in (SUBSET Row) \ {{}}, NEW to \in [R -> Value], NEW fixed \in BOOLEAN,
             Edit(to, fixed)
      PROVE  NumbersInv'
  <2>1. PICK before : before = [r \in R |-> value[r]]  OBVIOUS
  <2>2. PICK e : e = [id |-> edits + 1, after |-> to, fixed |-> fixed, before |-> before]
    OBVIOUS
  <2>3. /\ sent' = sent \cup {e} /\ edits' = edits + 1
        /\ UNCHANGED <<undo, redo, replay, crossed>>
        /\ \A c \in sent : Rows(c) \cap DOMAIN to = {}
    BY <1>6, <2>1, <2>2 DEF Edit, stacks
  <2>4. e.id = edits + 1 /\ Rows(e) = R /\ DOMAIN to = R  BY <2>1, <2>2 DEF Rows
  <2>5. \A i \in 1..edits : i \in 1..edits + 1 /\ i # edits + 1  BY <1>1
  <2>6. Numbered'
    <3>1. Ids(undo) \cup Ids(redo) \subseteq 1..edits + 1
      BY <2>5 DEF NumbersInv, Numbered
    <3>2. /\ e.id \in (1..edits + 1) \ (Ids(undo) \cup Ids(redo))
          /\ Running => e.id # replay.step.id
      BY <1>1, <2>4, <2>5 DEF NumbersInv, Numbered
    <3>3. \A c \in sent : c.id \in (1..edits + 1) \ (Ids(undo) \cup Ids(redo))
      BY <2>5 DEF NumbersInv, Numbered
    <3>4. Running => replay.step.id \in 1..edits + 1
      BY <2>5 DEF NumbersInv, Numbered
    <3>5. Ids(undo)' = Ids(undo) /\ Ids(redo)' = Ids(redo) /\ Running' = Running
      BY <2>3 DEF Ids, Running
    <3>6. \A c \in sent' : /\ c.id \in (1..edits') \ (Ids(undo) \cup Ids(redo))
                           /\ Running => c.id # replay.step.id
      BY <2>3, <3>2, <3>3 DEF NumbersInv, Numbered
    <3>7. QED  BY <2>3, <3>1, <3>4, <3>5, <3>6 DEF Numbered
  <2>7. SentApart'
    <3>1. \A c \in sent : c.id # e.id /\ Rows(c) \cap Rows(e) = {}
      BY <2>3, <2>4, <2>5 DEF NumbersInv, Numbered
    <3>2. QED  BY <2>3, <3>1 DEF NumbersInv, SentApart, Rows
  <2>8. Apart' /\ FlightApart'
    BY <2>3
    DEF NumbersInv, Apart, FlightApart, Once, Ids, StackOf, OtherStack, Popped, Running
  <2>9. QED  BY <2>6, <2>7, <2>8 DEF NumbersInv
<1>7. ASSUME NEW c \in sent
      PROVE  /\ c \in Step /\ c.id \in 1..edits /\ c.id \notin Ids(undo)
             /\ Ids(undo) \subseteq 1..edits
             /\ \A d \in sent \ {c} : d.id \notin Ids(undo) \cup {c.id}
             /\ Running => c.id # replay.step.id
  BY <1>1 DEF NumbersInv, Numbered, SentApart
\* The page records c, in the top step's place or above it.
<1>8. ASSUME NEW c \in sent, NEW U \in Seq(Step), undo' = U, redo' = <<>>,
             sent' = sent \ {c}, edits' = edits, replay' = replay, crossed \subseteq crossed',
             Once(U, crossed), Ids(U) \subseteq Ids(undo) \cup {c.id},
             Undoing => \/ replay.step.id \in crossed'
                        \/ Ids(U) \subseteq Ids(Popped(undo)) \cup {c.id}
      PROVE  NumbersInv'
  <2>1. Ids(<<>>) = {} /\ Once(<<>>, crossed')  BY IdsEmpty
  <2>2. Once(U, crossed')  BY <1>8, OnceGrown
  <2>3. Ids(Popped(U)) \subseteq Ids(U)  BY <1>8, IdsPopped
  <2>4. Ids(Popped(<<>>)) = {}
    <3>1. <<>> \in Seq(Step)  BY EmptySeq
    <3>2. QED  BY <2>1, <3>1, IdsPopped
  <2>5. FlightApart'
    <3>1. SUFFICES ASSUME Running, replay.step.id \notin crossed'
                   PROVE  replay.step.id \notin Ids(U)
      BY <1>8, <2>1, <2>3, <2>4 DEF FlightApart, Running, OtherStack, StackOf
    <3>2. c.id # replay.step.id  BY <1>7, <3>1
    <3>3. replay.step.id \notin crossed  BY <1>8, <3>1
    <3>4. CASE replay.dir = "undo"
      <4>1. replay.step.id \notin Ids(Popped(undo))
        BY <3>1, <3>3, <3>4 DEF NumbersInv, FlightApart, StackOf
      <4>2. QED  BY <1>8, <3>1, <3>2, <3>4, <4>1 DEF Undoing
    <3>5. CASE replay.dir # "undo"
      <4>1. replay.step.id \notin Ids(undo)
        BY <3>1, <3>3, <3>5 DEF NumbersInv, FlightApart, OtherStack
      <4>2. QED  BY <1>8, <3>2, <4>1
    <3>6. QED  BY <3>4, <3>5
  <2>6. /\ Ids(U) \cap Ids(<<>>) \subseteq crossed' /\ Ids(U) \cup Ids(<<>>) \subseteq 1..edits
        /\ \A d \in sent' : d.id \notin Ids(U) \cup Ids(<<>>)
    BY <1>7, <1>8, <2>1
  <2>7. Running' => Running /\ replay'.step = replay.step  BY <1>8 DEF Running
  <2>8. sent' \subseteq sent  BY <1>8
  <2>9. QED  BY <1>4, <1>8, <2>1, <2>2, <2>5, <2>6, <2>7, <2>8
<1>9. ASSUME NEW c \in sent, Record(c)  PROVE NumbersInv'
  <2>1. /\ undo' = Pushed(undo, c) /\ redo' = <<>> /\ sent' = sent \ {c} /\ edits' = edits
        /\ replay' = replay /\ crossed \subseteq crossed'
        /\ Undoing => replay.step.id \in crossed'
    BY <1>9 DEF Record
  <2>2. /\ Once(Pushed(undo, c), crossed) /\ Pushed(undo, c) \in Seq(Step)
        /\ Ids(Pushed(undo, c)) \subseteq Ids(undo) \cup {c.id}
    BY <1>1, <1>7, IdsPushed, PushedFacts DEF NumbersInv, Apart
  <2>3. QED  BY <1>8, <2>1, <2>2
<1>10. ASSUME NEW c \in sent, Coalesce(c)  PROVE NumbersInv'
  <2>1. undo # <<>> /\ Top(undo) \in Step /\ Rows(Top(undo)) = Rows(c)
    BY <1>1, <1>10, StackFacts DEF Coalesce
  <2>2. PICK m \in Step : m = Merged(Top(undo), c) /\ m.id = c.id
    BY <1>7, <2>1, MergedForm
  <2>3. undo' = [undo EXCEPT ![Len(undo)] = m]  BY <1>10, <2>2 DEF Coalesce, Top
  <2>4. undo' = Append(Popped(undo), m)  BY <1>1, <2>1, <2>3, TopReplaced
  <2>5. Popped(undo) \in Seq(Step)  BY <1>1, <2>1, StackFacts
  <2>6. Once(Popped(undo), crossed) /\ Ids(Popped(undo)) \subseteq Ids(undo)
    BY <1>1, IdsPopped DEF NumbersInv, Apart
  <2>7. m.id \notin Ids(Popped(undo))  BY <1>7, <2>2, <2>6
  <2>8. PICK U \in Seq(Step) : U = Append(Popped(undo), m)  BY <2>5, AppendFacts
  <2>9. Once(U, crossed) /\ Ids(U) = Ids(Popped(undo)) \cup {c.id}
    BY <2>2, <2>5, <2>6, <2>7, <2>8, IdsAppended
  <2>10. /\ redo' = <<>> /\ sent' = sent \ {c} /\ edits' = edits /\ replay' = replay
         /\ crossed' = crossed
    BY <1>10 DEF Coalesce, witnesses
  <2>11. QED  BY <1>8, <2>4, <2>6, <2>8, <2>9, <2>10
\* Steps leave the stacks, and the replay in flight stays where it is or ends.
<1>11. ASSUME NEW U, NEW R, undo' = U, redo' = R, edits' = edits, crossed' = crossed,
              sent' \subseteq sent,
              U \in {undo, Popped(undo)}, R \in {redo, <<>>},
              replay' = NoReplay \/ (U = undo /\ replay' = replay)
       PROVE  NumbersInv'
  <2>1. /\ Ids(<<>>) = {} /\ Once(<<>>, crossed)  BY IdsEmpty
  <2>2. Ids(Popped(undo)) \subseteq Ids(undo) /\ Once(Popped(undo), crossed)
    BY <1>1, IdsPopped DEF NumbersInv, Apart
  <2>3. Ids(Popped(<<>>)) = {}
    <3>1. <<>> \in Seq(Step)  BY EmptySeq
    <3>2. QED  BY <2>1, <3>1, IdsPopped
  <2>4. /\ Once(U, crossed) /\ Once(R, crossed)
        /\ Ids(U) \subseteq Ids(undo) /\ Ids(R) \subseteq Ids(redo)
    BY <1>11, <2>1, <2>2 DEF NumbersInv, Apart
  <2>5. FlightApart'
    <3>1. CASE replay' = NoReplay  BY <1>5, <3>1
    <3>2. CASE U = undo /\ replay' = replay
      <4>1. Ids(Popped(R)) \subseteq Ids(Popped(redo))  BY <1>11, <2>3
      <4>2. QED
        BY <1>11, <2>4, <3>2, <4>1 DEF NumbersInv, FlightApart, Running, StackOf, OtherStack
    <3>3. QED  BY <1>11, <3>1, <3>2
  <2>6. Running' => Running /\ replay'.step = replay.step
    BY <1>5, <1>11 DEF Running
  <2>7. /\ Ids(U) \cap Ids(R) \subseteq crossed /\ Ids(U) \cup Ids(R) \subseteq 1..edits
        /\ \A c \in sent' : c.id \notin Ids(U) \cup Ids(R)
    BY <1>11, <2>4 DEF NumbersInv, Apart, Numbered
  <2>8. QED  BY <1>4, <1>11, <2>4, <2>5, <2>6, <2>7
<1>12. ASSUME NEW c \in sent, AnswerLost(c)  PROVE NumbersInv'
  <2>1. /\ sent' \subseteq sent
        /\ undo' = undo /\ redo' = redo /\ edits' = edits /\ crossed' = crossed
        /\ replay' = replay
    BY <1>12 DEF AnswerLost, stacks
  <2>2. QED  BY <1>11, <2>1
<1>13. CASE ClearRedo
  <2>1. /\ sent' \subseteq sent
        /\ undo' = undo /\ redo' = <<>> /\ edits' = edits /\ crossed' = crossed
        /\ replay' = replay
    BY <1>13 DEF ClearRedo
  <2>2. QED  BY <1>11, <2>1
<1>14. ASSUME NEW r \in Row, NEW v \in Value, OthersWrite(r, v)  PROVE NumbersInv'
  BY <1>2, <1>3, <1>14 DEF OthersWrite, stacks
<1>15. ASSUME NEW dir \in Direction, Press(dir)  PROVE NumbersInv'
  BY <1>1, <1>15, StartedApart DEF Press, stacks
<1>16. ASSUME NEW dir \in Direction, NEW n \in 2..Len(StackOf(dir)), PressTo(dir, n)
       PROVE  NumbersInv'
  <2>1. StackOf(dir) # <<>>
    <3>1. Len(StackOf(dir)) \in Nat /\ Len(StackOf(dir)) # 0
      BY <1>1, StackTyped, LenProperties
    <3>2. Len(<<>>) = 0  OBVIOUS
    <3>3. QED  BY <3>1, <3>2
  <2>2. QED  BY <1>1, <1>16, <2>1, StartedApart DEF PressTo, stacks
<1>17. CASE RunOn
  <2>1. range.dir \in Direction  BY <1>1 DEF HistoryTypeOK
  <2>2. UNCHANGED <<sent, undo, redo, edits, crossed>>
    BY <1>17 DEF RunOn, stacks, witnesses
  <2>3. CASE StackOf(range.dir) = <<>>
    BY <1>2, <1>3, <1>17, <2>2, <2>3 DEF RunOn
  <2>4. CASE StackOf(range.dir) # <<>>
    BY <1>1, <1>17, <2>1, <2>2, <2>4, StartedApart DEF RunOn
  <2>5. QED  BY <2>3, <2>4
<1>18. CASE Check \/ Write \/ WriteLost \/ WriteStale \/ ReplayBarred \/ ReplayFails
  <2>1. UNCHANGED <<sent, undo, redo, edits, crossed>>
    BY <1>18
    DEF Check, Write, WriteLost, WriteStale, ReplayBarred, ReplayFails, stacks, witnesses
  <2>2. Running /\ \E at \in {"write"} \cup Outcome : ReplayAt(at)
    BY <1>18 DEF Check, Write, WriteLost, WriteStale, ReplayBarred, ReplayFails, Running, Outcome
  <2>3. replay'.dir = replay.dir /\ replay'.step = replay.step
    BY <1>1, <2>2, ReplayGoesTo
  <2>4. QED  BY <1>2, <2>1, <2>2, <2>3
\* The step in flight moves across, from the top of a to b.
<1>19. ASSUME Running, NEW a \in Seq(Step), NEW b \in Seq(Step),
              a = StackOf(replay.dir), b = OtherStack(replay.dir)
       PROVE  /\ Once(Popped(a), crossed) /\ Once(Pushed(b, replay.step), crossed)
              /\ Ids(Popped(a)) \cap Ids(Pushed(b, replay.step)) \subseteq crossed
              /\ Ids(Popped(a)) \cup Ids(Pushed(b, replay.step)) \subseteq 1..edits
              /\ \A c \in sent : c.id \notin Ids(Popped(a)) \cup Ids(Pushed(b, replay.step))
  <2>1. PICK s \in Step : s = replay.step  BY <1>1, <1>19, ReplayForm
  <2>2. /\ Once(a, crossed) /\ Once(b, crossed) /\ Len(b) <= Depth
        /\ Ids(a) \cap Ids(b) \subseteq crossed /\ Ids(a) \cup Ids(b) \subseteq 1..edits
        /\ \A c \in sent : c.id \notin Ids(a) \cup Ids(b)
    BY <1>1, <1>19 DEF NumbersInv, Apart, Numbered, StackOf, OtherStack
  <2>3. /\ s.id \in crossed \/ s.id \notin Ids(b) \cup Ids(Popped(a))
        /\ s.id \in 1..edits /\ \A c \in sent : c.id # s.id
    BY <1>19, <2>1 DEF NumbersInv, FlightApart, Numbered
  <2>4. Once(Popped(a), crossed) /\ Ids(Popped(a)) \subseteq Ids(a)  BY <2>2, IdsPopped
  <2>5. Once(Pushed(b, s), crossed) /\ Ids(Pushed(b, s)) \subseteq Ids(b) \cup {s.id}
    BY <2>2, <2>3, IdsPushed
  <2>6. QED  BY <2>1, <2>2, <2>3, <2>4, <2>5
<1>20. CASE UndoApplied
  <2>1. /\ Running /\ replay.dir = "undo" /\ replay' = NoReplay
        /\ UNCHANGED <<sent, edits, crossed>>
        /\ undo' = Popped(undo) /\ redo' = Pushed(redo, replay.step)
    BY <1>20 DEF UndoApplied, Settled, Running, witnesses
  <2>2. undo = StackOf(replay.dir) /\ redo = OtherStack(replay.dir)
    BY <2>1 DEF StackOf, OtherStack
  <2>3. FlightApart' /\ ~Running'  BY <1>5, <2>1
  <2>4. QED  BY <1>1, <1>4, <1>19, <2>1, <2>2, <2>3
<1>21. CASE RedoApplied
  <2>1. /\ Running /\ replay.dir = "redo" /\ replay' = NoReplay
        /\ UNCHANGED <<sent, edits, crossed>>
        /\ redo' = Popped(redo) /\ undo' = Pushed(undo, replay.step)
    BY <1>21 DEF RedoApplied, Settled, Running, witnesses
  <2>2. redo = StackOf(replay.dir) /\ undo = OtherStack(replay.dir)
    BY <2>1 DEF StackOf, OtherStack
  <2>3. FlightApart' /\ ~Running'  BY <1>5, <2>1
  <2>4. QED  BY <1>1, <1>4, <1>19, <2>1, <2>2, <2>3
<1>22. CASE UndoSetAside
  BY <1>11, <1>22 DEF UndoSetAside, Settled, SettledAside
<1>23. CASE RedoSetAside
  BY <1>11, <1>23 DEF RedoSetAside, Settled, SettledAside, witnesses
<1>24. CASE ReplayThrew
  BY <1>11, <1>24 DEF ReplayThrew, Settled, stacks, witnesses
<1>25. QED
  BY <1>6, <1>9, <1>10, <1>12, <1>13, <1>14, <1>15, <1>16, <1>17, <1>18, <1>20, <1>21, <1>22,
     <1>23, <1>24, EveryBuilder
  DEF HistoryNext

-----------------------------------------------------------------------------
(* Every row that nobody else has written is accounted for.                *)

AppliedTo(r) == replay.at = "applied" /\ r \in Written(replay.step)

\* The undo stack leads to v, the redo stack leads on from it, and the row holds
\* it but for an edit that is not answered or a replay that has just written.
AccountFor(r, v) ==
  /\ Reaches("undo", undo, r, v) /\ Reaches("redo", redo, r, v)
  /\ \A c \in sent : r \in Rows(c) => c.before[r] = v /\ c.after[r] = value[r]
  /\ (\A c \in sent : r \notin Rows(c)) =>
       value[r] = IF AppliedTo(r) THEN Target(replay.dir, replay.step)[r] ELSE v

Accounted == \A r \in Row \ foreign : \E v \in Value : AccountFor(r, v)

\* Between a replay's check and its write only others have written.
MovedByOthers == replay.at = "write" => moved \subseteq foreign

LEMMA AccountedStep ==
  ASSUME HistoryInv, TakingTurns, SentApart, Accounted, ~overlap', HistoryNext
  PROVE  Accounted'
<1>1. SUFFICES ASSUME NEW r \in Row \ foreign'  PROVE (\E w \in Value : AccountFor(r, w))'
  BY DEF Accounted
<1>2. /\ HistoryTypeOK
      /\ undo \in Seq(Step) /\ redo \in Seq(Step) /\ sent \subseteq Step
      /\ Len(undo) <= Depth /\ Len(redo) <= Depth
      /\ value \in [Row -> Value] /\ value[r] \in Value /\ r \in Row
  <2>1. HistoryTypeOK /\ undo \in Seq(Step) /\ redo \in Seq(Step) /\ sent \subseteq Step
        /\ value \in [Row -> Value]
    BY DEF HistoryInv, HistoryTypeOK
  <2>2. Len(undo) \in Nat /\ Len(redo) \in Nat  BY <2>1, LenProperties
  <2>3. QED
    BY <2>1, <2>2, HistoryAssumption DEF HistoryInv, BothWithinDepth
<1>3. r \notin foreign
  BY DEF HistoryNext, Edit, Record, Coalesce, AnswerLost, ClearRedo, OthersWrite, Press, PressTo,
         RunOn, Check, Write, WriteStale, ReplayBarred, WriteLost, ReplayFails, UndoApplied,
         RedoApplied, UndoSetAside, RedoSetAside, ReplayThrew, witnesses
<1>4. PICK v \in Value : AccountFor(r, v)  BY <1>2, <1>3 DEF Accounted
<1>5. /\ Reaches("undo", undo, r, v) /\ Reaches("redo", redo, r, v)
      /\ \A c \in sent : r \in Rows(c) => c.before[r] = v /\ c.after[r] = value[r]
      /\ (\A c \in sent : r \notin Rows(c)) =>
           value[r] = IF AppliedTo(r) THEN Target(replay.dir, replay.step)[r] ELSE v
  BY <1>4 DEF AccountFor
<1>6. ASSUME NEW w \in Value,
             Reaches("undo", undo', r, w), Reaches("redo", redo', r, w),
             \A c \in sent' : r \in Rows(c) => c.before[r] = w /\ c.after[r] = value'[r],
             (\A c \in sent' : r \notin Rows(c)) =>
               value'[r] = IF replay'.at = "applied" /\ r \in Written(replay'.step)
                           THEN Target(replay'.dir, replay'.step)[r] ELSE w
      PROVE  (\E u \in Value : AccountFor(r, u))'
  BY <1>6 DEF AccountFor, AppliedTo, Reaches, Trace, Rows, Written, Target, Expected
<1>7. ASSUME UNCHANGED <<sent, undo, redo>>, value'[r] = value[r],
             ~AppliedTo(r), replay'.at = "applied" => r \notin Written(replay'.step)
      PROVE  (\E u \in Value : AccountFor(r, u))'
  BY <1>5, <1>6, <1>7
<1>8. ASSUME UNCHANGED <<sent, undo, redo, replay>>, value'[r] = value[r]
      PROVE  (\E u \in Value : AccountFor(r, u))'
  BY <1>5, <1>6, <1>8 DEF AppliedTo
<1>9. \A w \in Value : Reaches("undo", <<>>, r, w) /\ Reaches("redo", <<>>, r, w)
  BY ReachesEmpty
<1>10. ASSUME NEW c \in sent  PROVE ~Running /\ ~AppliedTo(r) /\ c \in Step
  BY <1>2, <1>10 DEF TakingTurns, AppliedTo, Running
<1>11. ASSUME NEW R \in (SUBSET Row) \ {{}}, NEW to \in [R -> Value], NEW fixed \in BOOLEAN,
              Edit(to, fixed)
       PROVE  (\E w \in Value : AccountFor(r, w))'
  <2>1. PICK before : before = [q \in R |-> value[q]]  OBVIOUS
  <2>2. PICK e : e = [id |-> edits + 1, after |-> to, fixed |-> fixed, before |-> before]
    OBVIOUS
  <2>3. /\ sent' = sent \cup {e} /\ UNCHANGED <<undo, redo, replay>>
        /\ \A c \in sent : Rows(c) \cap R = {}
        /\ ~Running /\ value' = Saved(R, to)
    BY <1>11, <2>1, <2>2 DEF Edit, Save, Quiet, stacks
  <2>4. Rows(e) = R /\ e.before = before /\ e.after = to  BY <2>1, <2>2 DEF Rows
  <2>5. ~AppliedTo(r) /\ replay'.at # "applied"  BY <2>3 DEF AppliedTo, Running
  <2>6. CASE r \in R
    <3>1. \A c \in sent : r \notin Rows(c)  BY <2>3, <2>6
    <3>2. value[r] = v  BY <1>5, <2>5, <3>1
    <3>3. value'[r] = to[r] /\ before[r] = v  BY <1>2, <2>1, <2>3, <2>6, <3>2 DEF Saved
    <3>4. \A c \in sent' : r \in Rows(c) => c.before[r] = v /\ c.after[r] = value'[r]
      BY <2>3, <2>4, <3>1, <3>3
    <3>5. ~(\A c \in sent' : r \notin Rows(c))  BY <2>3, <2>4, <2>6
    <3>6. Reaches("undo", undo', r, v) /\ Reaches("redo", redo', r, v)  BY <1>5, <2>3
    <3>7. QED  BY <1>6, <3>4, <3>5, <3>6
  <2>7. CASE r \notin R
    <3>1. value'[r] = value[r]  BY <1>2, <2>3, <2>7 DEF Saved
    <3>2. \A c \in sent' : r \in Rows(c) => c.before[r] = v /\ c.after[r] = value'[r]
      BY <1>5, <2>3, <2>4, <2>7, <3>1
    <3>3. (\A c \in sent' : r \notin Rows(c)) => value'[r] = v  BY <1>5, <2>3, <2>5, <3>1
    <3>4. Reaches("undo", undo', r, v) /\ Reaches("redo", redo', r, v)  BY <1>5, <2>3
    <3>5. QED  BY <1>6, <2>5, <3>2, <3>3, <3>4
  <2>8. QED  BY <2>6, <2>7
<1>12. ASSUME NEW c \in sent, NEW w \in Value,
              sent' = sent \ {c}, redo' = <<>>, value' = value, replay' = replay,
              w = (IF r \in Rows(c) THEN value[r] ELSE v), Reaches("undo", undo', r, w)
       PROVE  (\E u \in Value : AccountFor(r, u))'
  <2>1. ~AppliedTo(r) /\ replay'.at # "applied"  BY <1>10, <1>12 DEF Running
  <2>2. \A d \in sent' : r \in Rows(c) => r \notin Rows(d)
    BY <1>12 DEF SentApart
  <2>3. \A d \in sent' : r \in Rows(d) => d.before[r] = w /\ d.after[r] = value'[r]
    BY <1>5, <1>12, <2>2
  <2>4. (\A d \in sent' : r \notin Rows(d)) => value'[r] = w
    <3>1. CASE r \in Rows(c)  BY <1>12, <3>1
    <3>2. CASE r \notin Rows(c)
      <4>1. (\A d \in sent' : r \notin Rows(d)) => \A d \in sent : r \notin Rows(d)
        BY <1>12, <3>2
      <4>2. QED  BY <1>5, <1>12, <2>1, <3>2, <4>1
    <3>3. QED  BY <3>1, <3>2
  <2>5. Reaches("redo", redo', r, w)  BY <1>9, <1>12
  <2>6. QED  BY <1>6, <1>12, <2>1, <2>3, <2>4, <2>5
<1>13. ASSUME NEW c \in sent, Record(c)  PROVE (\E w \in Value : AccountFor(r, w))'
  <2>1. /\ sent' = sent \ {c} /\ redo' = <<>> /\ value' = value /\ replay' = replay
        /\ undo' = Pushed(undo, c)
    BY <1>13 DEF Record, server
  <2>2. PICK w \in Value : w = (IF r \in Rows(c) THEN value[r] ELSE v)  BY <1>2
  <2>3. IF r \in Rows(c) THEN Target("undo", c)[r] = v /\ Expected("undo", c)[r] = w
                         ELSE w = v
    BY <1>5, <2>2 DEF Target, Expected
  <2>4. Reaches("undo", undo', r, w)  BY <1>2, <1>5, <1>10, <2>1, <2>3, ReachesPushed
  <2>5. QED  BY <1>12, <2>1, <2>2, <2>4
<1>14. ASSUME NEW c \in sent, Coalesce(c)  PROVE (\E w \in Value : AccountFor(r, w))'
  <2>1. c \in Step /\ undo # <<>> /\ Top(undo) \in Step /\ Rows(Top(undo)) = Rows(c)
    BY <1>2, <1>10, <1>14, StackFacts DEF Coalesce
  <2>2. PICK m \in Step : /\ m = Merged(Top(undo), c) /\ Rows(m) = Rows(c)
                          /\ m.before = Top(undo).before /\ m.after = c.after
    BY <2>1, MergedForm
  <2>3. undo' = [undo EXCEPT ![Len(undo)] = m]  BY <1>14, <2>2 DEF Coalesce, Top
  <2>4. undo' = Append(Popped(undo), m)  BY <1>2, <2>1, <2>3, TopReplaced
  <2>5. PICK w \in Value : w = (IF r \in Rows(c) THEN value[r] ELSE v)  BY <1>2
  <2>6. PICK u : u = (IF r \in Rows(c) THEN Top(undo).before[r] ELSE v)  OBVIOUS
  <2>7. u \in Value  BY <2>1, <2>6, StepForm
  <2>8. Reaches("undo", Popped(undo), r, u)
    BY <1>2, <1>5, <2>1, <2>6, ReachesPopped DEF Target
  <2>9. IF r \in Rows(m) THEN Target("undo", m)[r] = u /\ Expected("undo", m)[r] = w
                         ELSE w = u
    BY <1>5, <2>2, <2>5, <2>6 DEF Target, Expected
  <2>10. Popped(undo) \in Seq(Step)  BY <1>2, <2>1, StackFacts
  <2>11. Reaches("undo", undo', r, w)  BY <2>4, <2>7, <2>8, <2>9, <2>10, ReachesAppended
  <2>12. sent' = sent \ {c} /\ redo' = <<>> /\ value' = value /\ replay' = replay
    BY <1>14 DEF Coalesce, server
  <2>13. QED  BY <1>12, <2>5, <2>11, <2>12
<1>15. ASSUME NEW c \in sent, AnswerLost(c)  PROVE (\E w \in Value : AccountFor(r, w))'
  <2>1. sent' = sent \ {c} /\ UNCHANGED <<undo, redo, value, replay>> /\ r \notin Rows(c)
    BY <1>15 DEF AnswerLost, server, stacks
  <2>2. ~AppliedTo(r) /\ replay'.at # "applied"  BY <1>10, <2>1 DEF Running
  <2>3. \A d \in sent' : r \in Rows(d) => d.before[r] = v /\ d.after[r] = value'[r]
    BY <1>5, <2>1
  <2>4. (\A d \in sent' : r \notin Rows(d)) => value'[r] = v  BY <1>5, <2>1, <2>2
  <2>5. Reaches("undo", undo', r, v) /\ Reaches("redo", redo', r, v)  BY <1>5, <2>1
  <2>6. QED  BY <1>6, <2>2, <2>3, <2>4, <2>5
<1>16. ASSUME redo' = <<>>, UNCHANGED <<sent, undo>>, value'[r] = value[r],
              ~AppliedTo(r), replay'.at # "applied"
       PROVE  (\E w \in Value : AccountFor(r, w))'
  <2>1. Reaches("redo", redo', r, v)  BY <1>9, <1>16
  <2>2. QED  BY <1>5, <1>6, <1>16, <2>1
<1>17. CASE ClearRedo
  <2>1. ~Running /\ redo' = <<>> /\ UNCHANGED <<sent, undo, value, replay>>
    BY <1>17 DEF ClearRedo, Quiet, server
  <2>2. QED  BY <1>16, <2>1 DEF AppliedTo, Running
<1>18. ASSUME NEW q \in Row, NEW u \in Value, OthersWrite(q, u)
       PROVE  (\E w \in Value : AccountFor(r, w))'
  <2>1. r # q /\ value' = Saved({q}, [p \in {q} |-> u])
    BY <1>18 DEF OthersWrite, Save
  <2>2. value'[r] = value[r]  BY <1>2, <2>1 DEF Saved
  <2>3. QED  BY <1>8, <1>18, <2>2 DEF OthersWrite, stacks
<1>19. ASSUME NEW dir \in Direction,
              Press(dir) \/ \E n \in 2..Len(StackOf(dir)) : PressTo(dir, n)
       PROVE  (\E w \in Value : AccountFor(r, w))'
  <2>1. UNCHANGED <<sent, undo, redo, value>> /\ ~Running /\ replay'.at = "check"
    BY <1>19 DEF Press, PressTo, Started, Quiet, server, stacks
  <2>2. QED  BY <1>7, <2>1 DEF AppliedTo, Running
<1>20. CASE RunOn
  <2>1. UNCHANGED <<sent, undo, redo, value>> /\ ~Running
        /\ (replay' = replay \/ replay'.at = "check")
    BY <1>20 DEF RunOn, Started, server, stacks
  <2>2. QED  BY <1>7, <2>1 DEF AppliedTo, Running
<1>21. CASE Check
  <2>1. UNCHANGED <<sent, undo, redo, value>> /\ replay.at = "check" /\ Running
    BY <1>21 DEF Check, stacks, Running
  <2>2. PICK at \in {"write"} \cup Outcome : ReplayAt(at)  BY <1>21 DEF Check, Outcome
  <2>3. replay'.at = at /\ replay'.step = replay.step  BY <1>2, <2>1, <2>2, ReplayGoesTo
  <2>4. at = "applied" => Written(replay.step) = {}
    BY <1>2, <1>21, <2>1, <2>3, ReplayGoesTo DEF Check, Outcome
  <2>5. QED  BY <1>7, <2>1, <2>3, <2>4 DEF AppliedTo
<1>22. ASSUME Running  PROVE sent = {}
  BY <1>22 DEF TakingTurns
<1>23. CASE Write
  <2>1. /\ UNCHANGED <<sent, undo, redo>> /\ replay.at = "write" /\ Running
        /\ ReplayAt("applied")
        /\ value' = Saved(Written(replay.step), Target(replay.dir, replay.step))
    BY <1>23 DEF Write, stacks, Running
  <2>2. /\ replay'.at = "applied" /\ replay'.step = replay.step /\ replay'.dir = replay.dir
    BY <1>2, <2>1, ReplayGoesTo DEF Outcome
  <2>3. sent = {} /\ value[r] = v  BY <1>5, <1>22, <2>1 DEF AppliedTo
  <2>4. value'[r] = IF r \in Written(replay.step) THEN Target(replay.dir, replay.step)[r] ELSE v
    BY <1>2, <2>1, <2>3 DEF Saved
  <2>5. Reaches("undo", undo', r, v) /\ Reaches("redo", redo', r, v)  BY <1>5, <2>1
  <2>6. QED  BY <1>6, <2>1, <2>2, <2>3, <2>4, <2>5
<1>24. CASE WriteLost
  <2>1. /\ UNCHANGED <<sent, undo, redo>> /\ replay.at = "write" /\ Running
        /\ ReplayAt("failed") /\ r \notin Written(replay.step)
        /\ value' = Saved(Written(replay.step), Target(replay.dir, replay.step))
    BY <1>24 DEF WriteLost, stacks, Running
  <2>2. value'[r] = value[r]  BY <1>2, <2>1 DEF Saved
  <2>3. replay'.at = "failed"  BY <1>2, <2>1, ReplayGoesTo DEF Outcome
  <2>4. QED  BY <1>7, <2>1, <2>2, <2>3 DEF AppliedTo
<1>25. CASE WriteStale \/ ReplayBarred \/ ReplayFails
  <2>1. /\ UNCHANGED <<sent, undo, redo, value>> /\ replay.at # "applied" /\ Running
        /\ \E at \in {"refused", "barred", "failed"} : ReplayAt(at)
    BY <1>25 DEF WriteStale, ReplayBarred, ReplayFails, stacks, Running
  <2>2. replay'.at # "applied"  BY <1>2, <2>1, ReplayGoesTo DEF Outcome
  <2>3. QED  BY <1>7, <2>1, <2>2 DEF AppliedTo
<1>26. NoReplay.at # "applied"  BY DEF NoReplay
<1>27. ASSUME Running
       PROVE  /\ replay.step = Top(StackOf(replay.dir)) /\ StackOf(replay.dir) # <<>>
              /\ replay.step \in Step
  BY <1>2, <1>27, ReplayForm DEF TakingTurns
<1>28. CASE UndoApplied
  <2>1. /\ Running /\ replay.dir = "undo" /\ replay.at = "applied" /\ replay' = NoReplay
        /\ sent' = sent /\ value' = value
        /\ undo' = Popped(undo) /\ redo' = Pushed(redo, replay.step)
    BY <1>28 DEF UndoApplied, Settled, Running, server
  <2>2. PICK c \in Step : c = replay.step /\ c = Top(undo) /\ undo # <<>>
    BY <1>27, <2>1 DEF StackOf
  <2>3. PICK w : w = (IF r \in Rows(c) THEN c.before[r] ELSE v)  OBVIOUS
  <2>4. w \in Value  BY <2>3, StepForm
  <2>5. (r \in Rows(c) => c.after[r] = v) /\ Reaches("undo", undo', r, w)
    BY <1>2, <1>5, <2>1, <2>2, <2>3, ReachesPopped DEF Target, Expected
  <2>6. IF r \in Rows(c) THEN Target("redo", c)[r] = v /\ Expected("redo", c)[r] = w
                         ELSE w = v
    BY <2>3, <2>5 DEF Target, Expected
  <2>7. Reaches("redo", redo', r, w)  BY <1>2, <1>5, <2>1, <2>2, <2>4, <2>6, ReachesPushed
  <2>8. value[r] = IF r \in Written(c) THEN c.before[r] ELSE v
    BY <1>5, <1>22, <2>1, <2>2 DEF AppliedTo, Target
  <2>9. value[r] = w  BY <2>3, <2>5, <2>8 DEF Written
  <2>10. QED  BY <1>6, <1>22, <1>26, <2>1, <2>4, <2>5, <2>7, <2>9
<1>29. CASE RedoApplied
  <2>1. /\ Running /\ replay.dir = "redo" /\ replay.at = "applied" /\ replay' = NoReplay
        /\ sent' = sent /\ value' = value
        /\ redo' = Popped(redo) /\ undo' = Pushed(undo, replay.step)
    BY <1>29 DEF RedoApplied, Settled, Running, server
  <2>2. PICK c \in Step : c = replay.step /\ c = Top(redo) /\ redo # <<>>
    BY <1>27, <2>1 DEF StackOf
  <2>3. PICK w : w = (IF r \in Rows(c) THEN c.after[r] ELSE v)  OBVIOUS
  <2>4. w \in Value  BY <2>3, StepForm
  <2>5. (r \in Rows(c) => c.before[r] = v) /\ Reaches("redo", redo', r, w)
    BY <1>2, <1>5, <2>1, <2>2, <2>3, ReachesPopped DEF Target, Expected
  <2>6. IF r \in Rows(c) THEN Target("undo", c)[r] = v /\ Expected("undo", c)[r] = w
                         ELSE w = v
    BY <2>3, <2>5 DEF Target, Expected
  <2>7. Reaches("undo", undo', r, w)  BY <1>2, <1>5, <2>1, <2>2, <2>4, <2>6, ReachesPushed
  <2>8. value[r] = IF r \in Written(c) THEN c.after[r] ELSE v
    BY <1>5, <1>22, <2>1, <2>2 DEF AppliedTo, Target
  <2>9. value[r] = w  BY <2>3, <2>5, <2>8 DEF Written
  <2>10. QED  BY <1>6, <1>22, <1>26, <2>1, <2>4, <2>5, <2>7, <2>9
<1>30. CASE UndoSetAside
  <2>1. /\ Running /\ replay.dir = "undo" /\ replay.at # "applied" /\ replay' = NoReplay
        /\ sent' = sent /\ value' = value /\ r \notin Written(replay.step)
        /\ undo' = Popped(undo) /\ redo' = <<>>
    BY <1>30 DEF UndoSetAside, Settled, SettledAside, Running, server
  <2>2. PICK c \in Step : c = replay.step /\ c = Top(undo) /\ undo # <<>>
    BY <1>27, <2>1 DEF StackOf
  <2>3. /\ r \in Rows(c) => c.after[r] = v
        /\ Reaches("undo", undo', r, IF r \in Rows(c) THEN c.before[r] ELSE v)
    BY <1>2, <1>5, <2>1, <2>2, ReachesPopped DEF Target, Expected
  <2>4. (IF r \in Rows(c) THEN c.before[r] ELSE v) = v  BY <2>1, <2>2, <2>3 DEF Written
  <2>5. Reaches("undo", undo', r, v)  BY <2>3, <2>4
  <2>6. value[r] = v  BY <1>5, <1>22, <2>1 DEF AppliedTo
  <2>7. Reaches("redo", redo', r, v)  BY <1>9, <2>1
  <2>8. QED  BY <1>6, <1>22, <1>26, <2>1, <2>5, <2>6, <2>7
<1>31. CASE RedoSetAside
  <2>1. /\ replay.at # "applied" /\ replay' = NoReplay /\ redo' = <<>>
        /\ UNCHANGED <<sent, undo, value>>
    BY <1>31 DEF RedoSetAside, Settled, SettledAside, server
  <2>2. QED  BY <1>16, <1>26, <2>1 DEF AppliedTo
<1>32. CASE ReplayThrew
  <2>1. /\ replay.at = "failed" /\ replay' = NoReplay /\ UNCHANGED <<sent, undo, redo, value>>
    BY <1>32 DEF ReplayThrew, Settled, server, stacks
  <2>2. QED  BY <1>7, <1>26, <2>1 DEF AppliedTo
<1>33. QED
  BY <1>11, <1>13, <1>14, <1>15, <1>17, <1>18, <1>19, <1>20, <1>21, <1>23, <1>24, <1>25,
     <1>28, <1>29, <1>30, <1>31, <1>32, EveryBuilder
  DEF HistoryNext

LEMMA ExcusedStep ==
  ASSUME HistoryInv, TakingTurns, Accounted, MovedByOthers, SetAsideIsExcused,
         ~overlap', HistoryNext
  PROVE  MovedByOthers' /\ SetAsideIsExcused'
<1>1. HistoryTypeOK /\ ~overlap  BY OverlapStays DEF HistoryInv
<1>2. ASSUME replay'.at # "write", replay'.at # "refused"
      PROVE  MovedByOthers' /\ SetAsideIsExcused'
  BY <1>2 DEF MovedByOthers, SetAsideIsExcused
<1>3. ASSUME UNCHANGED <<moved, replay, foreign>>
      PROVE  MovedByOthers' /\ SetAsideIsExcused'
  BY <1>1, <1>3 DEF MovedByOthers, SetAsideIsExcused, Written, Rows
<1>4. ASSUME ~Running, replay' = replay  PROVE MovedByOthers' /\ SetAsideIsExcused'
  BY <1>2, <1>4, <1>1 DEF Running, HistoryTypeOK, Replay, NoReplay, TakingTurns, MovedByOthers,
                          SetAsideIsExcused
<1>5. ASSUME NEW R \in (SUBSET Row) \ {{}}, NEW to \in [R -> Value], NEW fixed \in BOOLEAN,
             Edit(to, fixed)
      PROVE  MovedByOthers' /\ SetAsideIsExcused'
  BY <1>4, <1>5 DEF Edit, Quiet
<1>6. ASSUME NEW c \in sent, Record(c) \/ Coalesce(c) \/ AnswerLost(c)
      PROVE  MovedByOthers' /\ SetAsideIsExcused'
  BY <1>4, <1>6 DEF Record, Coalesce, AnswerLost, TakingTurns
<1>7. CASE ClearRedo  BY <1>4, <1>7 DEF ClearRedo, Quiet
<1>8. ASSUME NEW q \in Row, NEW u \in Value, OthersWrite(q, u)
      PROVE  MovedByOthers' /\ SetAsideIsExcused'
  <2>1. foreign' = foreign \cup {q} /\ replay' = replay
        /\ (replay.at = "write" => moved' = moved \cup {q})
    BY <1>8 DEF OthersWrite, Save, Running
  <2>2. QED  BY <1>1, <2>1 DEF MovedByOthers, SetAsideIsExcused, Written, Rows
<1>9. ASSUME NEW dir \in Direction,
             Press(dir) \/ \E n \in 2..Len(StackOf(dir)) : PressTo(dir, n)
      PROVE  MovedByOthers' /\ SetAsideIsExcused'
  <2>1. replay'.at = "check"  BY <1>9 DEF Press, PressTo, Started
  <2>2. QED  BY <1>2, <2>1
<1>10. CASE RunOn
  <2>1. replay'.at = "check" \/ UNCHANGED <<moved, replay, foreign>>
    BY <1>10 DEF RunOn, Started, server, witnesses
  <2>2. QED  BY <1>2, <1>3, <2>1
<1>11. ASSUME Running
       PROVE  /\ sent = {} /\ replay.dir \in Direction
              /\ replay.step = Top(StackOf(replay.dir)) /\ StackOf(replay.dir) # <<>>
              /\ replay.step \in Step
  BY <1>1, <1>11, ReplayForm DEF TakingTurns
<1>12. ASSUME NEW at \in {"write"} \cup Outcome, Running, ReplayAt(at), foreign' = foreign,
              at = "refused" => Written(replay.step) \cap foreign # {}
       PROVE  MovedByOthers' /\ SetAsideIsExcused'
  <2>1. replay'.at = at /\ replay'.step = replay.step /\ moved' = {}
    BY <1>1, <1>12, ReplayGoesTo
  <2>2. MovedByOthers'  BY <2>1 DEF MovedByOthers
  <2>3. SetAsideIsExcused'
    BY <1>12, <2>1 DEF SetAsideIsExcused, Written, Rows
  <2>4. QED  BY <2>2, <2>3
<1>13. CASE Check
  <2>1. replay.at = "check" /\ Running /\ foreign' = foreign
    BY <1>13 DEF Check, Running, witnesses
  <2>2. ASSUME NEW r \in Written(replay.step),
               value[r] # Expected(replay.dir, replay.step)[r]
        PROVE  r \in foreign
    <3>1. SUFFICES ASSUME r \notin foreign  PROVE FALSE
      OBVIOUS
    <3>2. PICK c \in Step : c = replay.step /\ c = Top(StackOf(replay.dir))
      BY <1>11, <2>1
    <3>3. r \in Rows(c) /\ r \in Row  BY <2>2, <3>2, StepForm
    <3>4. PICK v \in Value : AccountFor(r, v)  BY <3>1, <3>3 DEF Accounted
    <3>5. value[r] = v  BY <1>11, <2>1, <3>4 DEF AccountFor, AppliedTo
    <3>6. Reaches(replay.dir, StackOf(replay.dir), r, v)
      BY <1>11, <2>1, <3>4 DEF AccountFor, StackOf, Direction
    <3>7. StackOf(replay.dir) \in Seq(Step)  BY <1>1, StackTyped
    <3>8. Expected(replay.dir, c)[r] = v
      BY <1>11, <2>1, <3>2, <3>3, <3>6, <3>7, ReachesPopped
    <3>9. QED  BY <2>2, <3>2, <3>5, <3>8
  <2>3. CASE \E r \in Written(replay.step) : value[r] # Expected(replay.dir, replay.step)[r]
    <3>1. Written(replay.step) \cap foreign # {}  BY <2>2, <2>3
    <3>2. \E at \in {"write"} \cup Outcome : ReplayAt(at)  BY <1>13 DEF Check, Outcome
    <3>3. QED  BY <1>12, <2>1, <3>1, <3>2
  <2>4. CASE \A r \in Written(replay.step) : value[r] = Expected(replay.dir, replay.step)[r]
    <3>1. \E at \in {"write", "applied"} : ReplayAt(at)  BY <1>13, <2>4 DEF Check
    <3>2. PICK at \in {"write", "applied"} : ReplayAt(at)  BY <3>1
    <3>3. at \in {"write"} \cup Outcome /\ at # "refused"  BY DEF Outcome
    <3>4. QED  BY <1>12, <2>1, <3>2, <3>3
  <2>5. QED  BY <2>3, <2>4
<1>14. CASE Write \/ WriteLost \/ ReplayBarred \/ ReplayFails
  <2>1. Running /\ \E at \in {"applied", "barred", "failed"} : ReplayAt(at)
    BY <1>14 DEF Write, WriteLost, ReplayBarred, ReplayFails, Running
  <2>2. replay'.at \in {"applied", "barred", "failed"}
    BY <1>1, <2>1, ReplayGoesTo DEF Outcome
  <2>3. QED  BY <1>2, <2>2
<1>15. CASE WriteStale
  <2>1. /\ Running /\ replay.at = "write" /\ ReplayAt("refused") /\ foreign' = foreign
        /\ Written(replay.step) \cap moved # {}
    BY <1>15 DEF WriteStale, SameVersions, Running, witnesses
  <2>2. Written(replay.step) \cap foreign # {}  BY <2>1 DEF MovedByOthers
  <2>3. "refused" \in {"write"} \cup Outcome  BY DEF Outcome
  <2>4. QED  BY <1>12, <2>1, <2>2, <2>3
<1>16. CASE UndoApplied \/ RedoApplied \/ UndoSetAside \/ RedoSetAside \/ ReplayThrew
  <2>1. replay' = NoReplay
    BY <1>16 DEF UndoApplied, RedoApplied, UndoSetAside, RedoSetAside, ReplayThrew,
                 Settled, SettledAside
  <2>2. QED  BY <1>2, <2>1 DEF NoReplay
<1>17. QED
  BY <1>5, <1>6, <1>7, <1>8, <1>9, <1>10, <1>13, <1>14, <1>15, <1>16, EveryBuilder
  DEF HistoryNext

\* While edits and replays take turns: the rows are accounted for.
TurnsInv == TakingTurns /\ Accounted /\ MovedByOthers

EditingInv ==
  /\ HistoryInv
  /\ NumbersInv
  /\ ~overlap => TurnsInv
  /\ SetAsideIsExcused

LEMMA EditingInvHolds == HistorySpec => []EditingInv
<1>1. HistoryInit /\ HistoryInv => EditingInv
  <2>1. SUFFICES ASSUME HistoryInit, HistoryInv  PROVE EditingInv
    OBVIOUS
  <2>2. /\ undo = <<>> /\ redo = <<>> /\ sent = {} /\ range.steps = <<>> /\ replay.at = "idle"
        /\ value \in [Row -> Value] /\ <<>> \in Seq(Step)
    BY <2>1, EmptySeq DEF HistoryInit, NoReplay, NoRange
  <2>3. TakingTurns  BY <2>2, OnTopEmpty DEF TakingTurns, StackOf, Running
  <2>4. NumbersInv
    BY <2>2, IdsEmpty DEF NumbersInv, Apart, FlightApart, Numbered, SentApart, Running
  <2>5. Accounted
    <3>1. ASSUME NEW r \in Row  PROVE AccountFor(r, value[r])
      BY <2>2, <3>1, ReachesEmpty DEF AccountFor, AppliedTo
    <3>2. QED  BY <2>2, <3>1 DEF Accounted
  <2>6. MovedByOthers /\ SetAsideIsExcused  BY <2>2 DEF MovedByOthers, SetAsideIsExcused
  <2>7. QED  BY <2>1, <2>3, <2>4, <2>5, <2>6 DEF EditingInv, TurnsInv
<1>2. EditingInv /\ HistoryInv' /\ [HistoryNext]_historyVars => EditingInv'
  <2>1. SUFFICES ASSUME EditingInv, HistoryInv', [HistoryNext]_historyVars  PROVE EditingInv'
    OBVIOUS
  <2>2. CASE HistoryNext
    <3>1. NumbersInv'  BY <2>1, <2>2, NumbersStep DEF EditingInv
    <3>2. CASE overlap'
      BY <2>1, <3>1, <3>2 DEF EditingInv, SetAsideIsExcused
    <3>3. CASE ~overlap'
      <4>1. ~overlap  BY <2>2, <3>3, OverlapStays
      <4>2. /\ TakingTurns /\ Accounted /\ MovedByOthers /\ SentApart /\ SetAsideIsExcused
            /\ HistoryInv /\ HistoryTypeOK /\ HistoryTypeOK'
        BY <2>1, <4>1 DEF EditingInv, TurnsInv, NumbersInv, HistoryInv
      <4>3. TakingTurns'  BY <2>2, <3>3, <4>2, TurnsStep
      <4>4. Accounted'  BY <2>2, <3>3, <4>2, AccountedStep
      <4>5. MovedByOthers' /\ SetAsideIsExcused'  BY <2>2, <3>3, <4>2, ExcusedStep
      <4>6. QED  BY <2>1, <3>1, <4>3, <4>4, <4>5 DEF EditingInv, TurnsInv
    <3>4. QED  BY <3>2, <3>3
  <2>3. CASE UNCHANGED historyVars
    <3>1. UNCHANGED <<value, moved, sent, undo, redo, window, replay, range, edits, foreign,
                      overlap, crossed>>
      BY <2>3 DEF historyVars
    <3>2. TakingTurns' = TakingTurns
      BY <3>1 DEF TakingTurns, Running, StackOf, OnTop, Top
    <3>3. NumbersInv'
      BY <2>1, <3>1
      DEF EditingInv, NumbersInv, Apart, FlightApart, Numbered, SentApart, Once, Ids, Rows,
          StackOf, OtherStack, Popped, Running
    <3>4. Accounted' = Accounted
      BY <3>1
      DEF Accounted, AccountFor, AppliedTo, Reaches, Trace, Rows, Written, Target, Expected
    <3>5. MovedByOthers' = MovedByOthers /\ SetAsideIsExcused' = SetAsideIsExcused
      BY <3>1 DEF MovedByOthers, SetAsideIsExcused, Written, Rows
    <3>6. QED  BY <2>1, <3>1, <3>2, <3>3, <3>4, <3>5 DEF EditingInv, TurnsInv
  <2>4. QED  BY <2>1, <2>2, <2>3
<1>3. QED  BY <1>1, <1>2, HistoryInvHolds, PTL DEF HistorySpec

LEMMA OnceIsOnOneStack ==
  ASSUME EditingInv
  PROVE  OnOneStack
<1>1. DOMAIN undo = 1..Len(undo) /\ DOMAIN redo = 1..Len(redo)
  BY LenProperties DEF EditingInv, HistoryInv, HistoryTypeOK
<1>2. \A i \in DOMAIN undo : undo[i].id \in Ids(undo)  BY <1>1 DEF Ids
<1>3. \A i \in DOMAIN redo : redo[i].id \in Ids(redo)  BY <1>1 DEF Ids
<1>4. /\ Once(undo, crossed) /\ Once(redo, crossed)
      /\ Ids(undo) \cap Ids(redo) \subseteq crossed
  BY DEF EditingInv, NumbersInv, Apart
<1>5. QED  BY <1>1, <1>2, <1>3, <1>4 DEF Once, OnOneStack

LEMMA TopIsChosen ==
  ASSUME EditingInv
  PROVE  RangeRunsChosen
<1>1. SUFFICES ASSUME ~overlap, Running, range.steps # <<>>
               PROVE  replay.step = Head(range.steps)
  BY DEF RangeRunsChosen
<1>2. /\ StackOf(range.dir) \in Seq(Step) /\ range.steps \in Seq(Step)
      /\ OnTop(range.steps, StackOf(range.dir))
      /\ replay.step = Top(StackOf(range.dir))
  BY <1>1, StackTyped DEF EditingInv, TurnsInv, HistoryInv, HistoryTypeOK, TakingTurns
<1>3. QED  BY <1>1, <1>2, OnTopNext

\* A step is on one stack and on it once, whatever is edited, recorded, merged,
\* lost or cleared while it is replayed, unless an edit was recorded above it
\* while it was being undone.
THEOREM StepsOnOneStack == HistorySpec => []OnOneStack
BY EditingInvHolds, OnceIsOnOneStack, PTL

\* Until an edit overlaps a replay, the page's own edits never refuse each
\* other, in whatever order they are merged, undone and redone: a step is set
\* aside only over a row that somebody else, or a lost answer, has changed.
THEOREM OwnEditsNeverRefused == HistorySpec => []SetAsideIsExcused
BY EditingInvHolds, PTL DEF EditingInv

\* Until an edit overlaps a replay, "undo to here" runs the steps that were
\* chosen, in order, and nothing comes between them.
THEOREM ChosenStepsRun == HistorySpec => []RangeRunsChosen
BY EditingInvHolds, TopIsChosen, PTL
=============================================================================
