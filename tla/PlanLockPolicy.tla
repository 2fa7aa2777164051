--------------------------- MODULE PlanLockPolicy ---------------------------
(***************************************************************************)
(* The pure state machine and timing policy of the plan edit-lock, "the    *)
(* pen" (apps/api/src/modules/plan-lock/plan-lock.policy.ts): how a lock   *)
(* row reads to one user at one time, and when that user may take it over. *)
(*                                                                         *)
(* Times are ticks of one clock.  A lock row is a record; the absent row   *)
(* (no row for the plan: the pen is free) is the record Free, whose holder *)
(* is NoOne.  acquiredAt and the actor profiles are not modelled: nothing  *)
(* decides on them.                                                        *)
(***************************************************************************)
EXTENDS Integers

CONSTANTS
  User,           \* members who may coordinate the pen (Planner, Org Admin)
  Admin,          \* those who may also override it (Org Admin)
  NoOne,          \* "no user": a null holder or requester
  TTL,            \* LOCK_TTL_MS
  InactiveAfter,  \* LOCK_INACTIVE_AFTER_MS
  Grace           \* LOCK_HANDOFF_GRACE_MS

\* Only the order of the timings the policy relies on: there is a window in
\* which the lease is live although its holder is presumed away.
ASSUME PolicyAssumption ==
  /\ Admin \subseteq User
  /\ NoOne \notin User
  /\ TTL \in Nat /\ InactiveAfter \in Nat /\ Grace \in Nat
  /\ InactiveAfter < TTL
  /\ Grace > 0

LockRow == [holder: User \cup {NoOne}, heartbeatAt: Nat, expiresAt: Nat,
            requestedBy: User \cup {NoOne}, requestedAt: Nat]

Free == [holder |-> NoOne, heartbeatAt |-> 0, expiresAt |-> 0,
         requestedBy |-> NoOne, requestedAt |-> 0]

\* The row a grant writes: a fresh lease, any pending request dropped.
LeaseTo(u, now) ==
  [holder |-> u, heartbeatAt |-> now, expiresAt |-> now + TTL,
   requestedBy |-> NoOne, requestedAt |-> 0]

\* The row a renewal leaves: the lease extended, a pending request kept.
Renewed(lock, now) ==
  [lock EXCEPT !.heartbeatAt = now, !.expiresAt = now + TTL]

\* deriveLockState
IsFree(lock) == lock.holder = NoOne
IsExpired(lock, now) == lock.holder # NoOne /\ lock.expiresAt <= now
IsLive(lock, now) == lock.holder # NoOne /\ lock.expiresAt > now
HeldByMe(lock, now, u) == IsLive(lock, now) /\ lock.holder = u
HeldByOther(lock, now, u) == IsLive(lock, now) /\ lock.holder # u

IsHolderInactive(lock, now) == now - lock.heartbeatAt > InactiveAfter

IsGraceElapsed(lock, now) ==
  lock.requestedBy # NoOne /\ now - lock.requestedAt >= Grace

\* Mutant of CanTakeOverNow: any aged request opens the lock to any peer.
CanTakeOverOnAnyRequest(lock, now, u) ==
  \/ u \in Admin
  \/ IsHolderInactive(lock, now)
  \/ IsGraceElapsed(lock, now)

\* canTakeOverNow, for a caller who may request control (every modelled user).
CanTakeOverNow(lock, now, u) ==
  \/ u \in Admin
  \/ IsHolderInactive(lock, now)
  \/ lock.requestedBy = u /\ IsGraceElapsed(lock, now)
=============================================================================
