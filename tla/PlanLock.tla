------------------------------ MODULE PlanLock ------------------------------
(***************************************************************************)
(* The plan edit-lock service (ADR-0028) as the API runs it: one lock row  *)
(* of one plan, the plan's transaction-scoped advisory lock, and the HTTP  *)
(* requests in flight, each executed statement by statement.               *)
(*                                                                         *)
(* acquire, take-over, request and hand-off take the advisory lock, read   *)
(* the clock, read the row, decide and write; two of them cannot           *)
(* interleave.  The heartbeat is one conditional UPDATE and the release    *)
(* one DELETE, neither under the advisory lock: they fall anywhere.        *)
(*                                                                         *)
(* Two kinds of write to the plan are gated by the pen (assertHoldsPen):   *)
(*   "gated"  checks inside the advisory-lock transaction that writes      *)
(*            (dependency create, recalculate, swimlane create, ...);      *)
(*   "early"  checks first, and opens the locked transaction afterwards    *)
(*            (activity create, delete, restore, dissolve, ...).           *)
(***************************************************************************)
EXTENDS PlanLockPolicy

CONSTANTS
  Req,       \* slots for requests being served at the same time
  NoReq,     \* nobody has the advisory lock
  Enforced,  \* PLAN_EDIT_LOCK_ENFORCED
  MaxTime    \* bound on the clock (model checking only)

ASSUME ServiceAssumption ==
  NoReq \notin Req /\ Enforced \in BOOLEAN /\ MaxTime \in Nat

VARIABLES
  clock,  \* the server's clock
  row,    \* the plan's row of plan_locks
  mutex,  \* the request in the plan's advisory-lock transaction, or NoReq
  call    \* what each request slot is doing

vars == <<clock, row, mutex, call>>

CoordOps == {"acquire", "takeover", "request", "handoff"}
LockedOps == CoordOps \cup {"gated"}
Op == LockedOps \cup {"early", "beat", "release"}

\* Program counters.  Those in InTx are inside the advisory-lock transaction.
InTx == {"locked", "decide", "writing", "writingEarly"}
Pc == InTx \cup {"idle", "queued", "check", "queuedEarly", "beat", "release"}

Idle == [pc |-> "idle", op |-> "acquire", user |-> NoOne, now |-> 0,
         seen |-> Free]

Call == [pc: Pc, op: Op, user: User \cup {NoOne}, now: Nat, seen: LockRow]

TypeOK ==
  /\ clock \in Nat
  /\ row \in LockRow
  /\ mutex \in Req \cup {NoReq}
  /\ call \in [Req -> Call]

Init ==
  /\ clock = 0
  /\ row = Free
  /\ mutex = NoReq
  /\ call = [r \in Req |-> Idle]

Tick ==
  /\ clock < MaxTime
  /\ clock' = clock + 1
  /\ UNCHANGED <<row, mutex, call>>

-----------------------------------------------------------------------------
(* A request arrives.  Heartbeat and early check read the clock at once,   *)
(* the others when they are inside their transaction.                      *)

FirstPc(op) == CASE op \in LockedOps -> "queued"
                 [] op = "early"     -> "check"
                 [] op = "beat"      -> "beat"
                 [] op = "release"   -> "release"

Arrive(r, u, op) ==
  /\ call[r].pc = "idle"
  /\ call' = [call EXCEPT ![r] =
                [Idle EXCEPT !.pc = FirstPc(op), !.op = op, !.user = u,
                             !.now = IF op \in {"early", "beat"}
                                     THEN clock ELSE 0]]
  /\ UNCHANGED <<clock, row, mutex>>

Goto(r, pc) == call' = [call EXCEPT ![r].pc = pc]

\* The transaction ends (commit, or rollback by a thrown error): its advisory
\* lock is released with it.
EndTx(r) ==
  /\ mutex' = NoReq
  /\ call' = [call EXCEPT ![r] = Idle]

-----------------------------------------------------------------------------
(* Inside the advisory-lock transaction.                                   *)

\* Mutant of EnterTx: the transaction does not take the advisory lock.
EnterTxUnserialised(r) ==
  /\ call[r].pc = "queued"
  /\ mutex' = r
  /\ call' = [call EXCEPT ![r].pc = "locked", ![r].now = clock]
  /\ UNCHANGED <<clock, row>>

\* acquirePlanWriteLock, then now := new Date()
EnterTx(r) ==
  /\ call[r].pc = "queued"
  /\ mutex = NoReq
  /\ mutex' = r
  /\ call' = [call EXCEPT ![r].pc = "locked", ![r].now = clock]
  /\ UNCHANGED <<clock, row>>

\* repository.find
ReadRow(r) ==
  /\ call[r].pc = "locked"
  /\ call' = [call EXCEPT ![r].pc = "decide", ![r].seen = row]
  /\ UNCHANGED <<clock, row, mutex>>

Deciding(r, ops) == call[r].pc = "decide" /\ call[r].op \in ops

SeesMine(r) == HeldByMe(call[r].seen, call[r].now, call[r].user)
SeesOther(r) == HeldByOther(call[r].seen, call[r].now, call[r].user)
SeesNone(r) == ~SeesMine(r) /\ ~SeesOther(r)   \* FREE or EXPIRED

\* Acquire on a free or expired lock.
AcquireFree(r) ==
  /\ Deciding(r, {"acquire", "takeover"})
  /\ SeesNone(r)
  /\ row' = LeaseTo(call[r].user, call[r].now)
  /\ EndTx(r)
  /\ UNCHANGED clock

\* Acquire on one's own live lock: renewOwnLease updates the row where it is
\* still held by the caller, and keeps a pending request.
AcquireRenew(r) ==
  /\ Deciding(r, {"acquire", "takeover"})
  /\ SeesMine(r)
  /\ row' = IF row.holder = call[r].user
            THEN Renewed(row, call[r].now)
            ELSE row
  /\ EndTx(r)
  /\ UNCHANGED clock

MayTakeOver(r) ==
  /\ call[r].op = "takeover"
  /\ CanTakeOverNow(call[r].seen, call[r].now, call[r].user)

TakeOver(r) ==
  /\ Deciding(r, {"takeover"})
  /\ SeesOther(r)
  /\ MayTakeOver(r)
  /\ row' = LeaseTo(call[r].user, call[r].now)
  /\ EndTx(r)
  /\ UNCHANGED clock

\* 423 PLAN_EDIT_LOCK_HELD
AcquireRefused(r) ==
  /\ Deciding(r, {"acquire", "takeover"})
  /\ SeesOther(r)
  /\ ~MayTakeOver(r)
  /\ EndTx(r)
  /\ UNCHANGED <<clock, row>>

\* stampRequest updates whatever row is there; the newest request wins.
RequestStamp(r) ==
  /\ Deciding(r, {"request"})
  /\ SeesOther(r)
  /\ row' = IF IsFree(row) THEN row
            ELSE [row EXCEPT !.requestedBy = call[r].user,
                             !.requestedAt = call[r].now]
  /\ EndTx(r)
  /\ UNCHANGED clock

RequestNoop(r) ==
  /\ Deciding(r, {"request"})
  /\ ~SeesOther(r)
  /\ EndTx(r)
  /\ UNCHANGED <<clock, row>>

HandOff(r) ==
  /\ Deciding(r, {"handoff"})
  /\ SeesMine(r)
  /\ call[r].seen.requestedBy # NoOne
  /\ row' = LeaseTo(call[r].seen.requestedBy, call[r].now)
  /\ EndTx(r)
  /\ UNCHANGED clock

\* 423 PLAN_EDIT_LOCK_LOST, or 409 when nobody asked
HandOffRefused(r) ==
  /\ Deciding(r, {"handoff"})
  /\ ~SeesMine(r) \/ call[r].seen.requestedBy = NoOne
  /\ EndTx(r)
  /\ UNCHANGED <<clock, row>>

\* assertHoldsPen passes on what it read: inert while not enforced.
PenSeen(r) == ~Enforced \/ SeesMine(r)

GatedAdmit(r) ==
  /\ Deciding(r, {"gated"})
  /\ PenSeen(r)
  /\ Goto(r, "writing")
  /\ UNCHANGED <<clock, row, mutex>>

\* 423 PLAN_EDIT_LOCK_REQUIRED
GatedRefused(r) ==
  /\ Deciding(r, {"gated"})
  /\ ~PenSeen(r)
  /\ EndTx(r)
  /\ UNCHANGED <<clock, row>>

WriteCommit(r) ==
  /\ call[r].pc \in {"writing", "writingEarly"}
  /\ EndTx(r)
  /\ UNCHANGED <<clock, row>>

-----------------------------------------------------------------------------
(* Outside it.                                                             *)

\* The early check: assertHoldsPen on its own connection.
EarlyAdmit(r) ==
  /\ call[r].pc = "check"
  /\ ~Enforced \/ HeldByMe(row, call[r].now, call[r].user)
  /\ Goto(r, "queuedEarly")
  /\ UNCHANGED <<clock, row, mutex>>

EarlyRefused(r) ==
  /\ call[r].pc = "check"
  /\ Enforced /\ ~HeldByMe(row, call[r].now, call[r].user)
  /\ call' = [call EXCEPT ![r] = Idle]
  /\ UNCHANGED <<clock, row, mutex>>

EarlyEnterTx(r) ==
  /\ call[r].pc = "queuedEarly"
  /\ mutex = NoReq
  /\ mutex' = r
  /\ Goto(r, "writingEarly")
  /\ UNCHANGED <<clock, row>>

\* Mutants of Beat: heartbeat_at is renewed and expires_at is not, or with the
\* sign of the TTL wrong.
BeatWithoutLease(r) ==
  /\ call[r].pc = "beat"
  /\ row' = IF HeldByMe(row, call[r].now, call[r].user)
            THEN [row EXCEPT !.heartbeatAt = call[r].now]
            ELSE row
  /\ call' = [call EXCEPT ![r] = Idle]
  /\ UNCHANGED <<clock, mutex>>

BeatBackwards(r) ==
  /\ call[r].pc = "beat"
  /\ row' = IF HeldByMe(row, call[r].now, call[r].user)
            THEN [row EXCEPT !.heartbeatAt = call[r].now,
                             !.expiresAt = call[r].now - TTL]
            ELSE row
  /\ call' = [call EXCEPT ![r] = Idle]
  /\ UNCHANGED <<clock, mutex>>

\* UPDATE ... WHERE holder = me AND expires_at > now, in one statement.
Beat(r) ==
  /\ call[r].pc = "beat"
  /\ row' = IF HeldByMe(row, call[r].now, call[r].user)
            THEN Renewed(row, call[r].now)
            ELSE row
  /\ call' = [call EXCEPT ![r] = Idle]
  /\ UNCHANGED <<clock, mutex>>

\* DELETE ... WHERE holder = me, without the holder condition for an override
\* holder: a force-release.
Release(r) ==
  /\ call[r].pc = "release"
  /\ row' = IF call[r].user \in Admin \/ row.holder = call[r].user
            THEN Free ELSE row
  /\ call' = [call EXCEPT ![r] = Idle]
  /\ UNCHANGED <<clock, mutex>>

-----------------------------------------------------------------------------
Serve(r) ==
  \/ \E u \in User, op \in Op : Arrive(r, u, op)
  \/ EnterTx(r) \/ ReadRow(r)
  \/ AcquireFree(r) \/ AcquireRenew(r) \/ TakeOver(r) \/ AcquireRefused(r)
  \/ RequestStamp(r) \/ RequestNoop(r)
  \/ HandOff(r) \/ HandOffRefused(r)
  \/ GatedAdmit(r) \/ GatedRefused(r) \/ WriteCommit(r)
  \/ EarlyAdmit(r) \/ EarlyRefused(r) \/ EarlyEnterTx(r)
  \/ Beat(r) \/ Release(r)

Next == Tick \/ \E r \in Req : Serve(r)

Spec == Init /\ [][Next]_vars

-----------------------------------------------------------------------------
(* Properties.                                                             *)

\* A user never stands in the queue for the pen they hold, and an absent row
\* carries no request.  request() decides this on a row it read earlier, and
\* releases fall in between; only the advisory lock keeps a hand-off or a
\* take-over out of that window.
RequesterIsNotHolder ==
  /\ row.requestedBy # NoOne => row.requestedBy # row.holder
  /\ IsFree(row) => row = Free

\* Every lease runs for exactly TTL from its last heartbeat, whichever of the
\* five writers wrote it, so that a holder is presumed away strictly before
\* the lease lapses and never the other way round.
LapsedOnlyAfterInactive ==
  IsExpired(row, clock) => IsHolderInactive(row, clock)

\* From the moment a gated write has seen its pen until it commits, no other
\* user holds the pen: the row is still the writer's or it is gone.  The
\* writer's lease may be released or run out meanwhile, it is never someone
\* else's, because every grant takes the advisory lock the write is holding.
PenStaysWithWriter ==
  \A r \in Req :
    Enforced /\ call[r].pc = "writing" => row.holder \in {call[r].user, NoOne}

\* When the pen passes directly from one user to another, then either the
\* holder handed it to the user whose request was pending, or the new holder
\* is an Org Admin, or their own request has been standing for the grace
\* period, or the row the server read had already lapsed or gone silent.
HandOverIsJustified(r) ==
  LET taker == row'.holder
      seen  == call[r].seen
  IN  \/ call[r].op = "handoff" /\ call[r].user = row.holder
         /\ row.requestedBy = taker
      \/ /\ taker = call[r].user
         /\ \/ taker \in Admin
            \/ row.requestedBy = taker /\ clock - row.requestedAt >= Grace
            \/ IsHolderInactive(seen, call[r].now)

PenChangesHands ==
  /\ row.holder # NoOne /\ row'.holder # NoOne
  /\ row'.holder # row.holder

HandOverJustified ==
  [][PenChangesHands => \E r \in Req : mutex = r /\ HandOverIsJustified(r)]_vars

\* ADR-0028 and the policy: a peer may take over a live lease only when the
\* holder is inactive or their own request is past grace.  Stated of the lease
\* that is actually overwritten, not of the one that was read.
\* No run checks it: TLC refutes it (README, section 4).
PeerTakesOnlySilentLease ==
  [][PenChangesHands /\ IsLive(row, clock) =>
       \/ \E r \in Req : mutex = r /\ call[r].op = "handoff"
       \/ row'.holder \in Admin
       \/ IsHolderInactive(row, clock)
       \/ row.requestedBy = row'.holder]_vars

\* assertHoldsPen's contract: graph writes check the pen inside their
\* advisory-lock transaction, so none of them is being written while another
\* user holds a live lease.
\* No run checks it: TLC refutes it (README, section 4).
NoWriteUnderAnotherPen ==
  Enforced =>
    \A r \in Req : call[r].pc \in {"writing", "writingEarly"} =>
      ~HeldByOther(row, clock, call[r].user)

-----------------------------------------------------------------------------
(* The promise of the service (module Pen) and how its state is read off   *)
(* the row and the requests.  A gated write counts from the statement that *)
(* reads the row in its favour, not from the one that decides on it.       *)

PenWriting(r) ==
  /\ Enforced
  /\ call[r].op = "gated" /\ call[r].pc \in {"decide", "writing"}
  /\ SeesMine(r)

ThePen == INSTANCE Pen WITH
            holder  <- row.holder,
            waiting <- row.requestedBy,
            writing <- {call[r].user : r \in {q \in Req : PenWriting(q)}}

\* Whatever is in flight, and wherever heartbeats and releases fall, the lock
\* row and the gated writes behave as the one abstract pen: it is granted
\* only while no admitted write is open, nobody asks for their own pen, and a
\* write is admitted at a moment its writer holds it.
PenPromise == ThePen!Spec
=============================================================================
