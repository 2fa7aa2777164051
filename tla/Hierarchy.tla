------------------------------ MODULE Hierarchy ------------------------------
(***************************************************************************)
(* Clients, their projects and the projects' plans: create, cascading soft *)
(* delete, restore and the expiry of what stays deleted, as transactions   *)
(* that meet in row locks and in the plans' advisory locks.                *)
(*                                                                         *)
(* A create or a restore holds its ancestors FOR SHARE, client first.  A   *)
(* delete of a client or project locks that row FOR NO KEY UPDATE, reads   *)
(* what is live below, takes the plans' advisory locks in id order, and    *)
(* stamps plans, then projects, then the row itself. The expiry claims     *)
(* the root of a batch and removes it for good with all that is below it,  *)
(* one root at a time. A statement sees the commits before it; a row       *)
(* another transaction holds it waits for, and looks at again. What a      *)
(* transaction writes shows when it commits, so row is the committed state *)
(* and a transaction is its locks. Any transaction may fail: a name is     *)
(* taken, it times out, or it is the victim of a deadlock.                 *)
(*                                                                         *)
(* What hangs below a plan is LogicNetwork's; calendars and names are not  *)
(* modelled.                                                               *)
(***************************************************************************)
EXTENDS Digraphs, FiniteSets, Naturals

CONSTANTS
  Client, Project,
  Plan,      \* plan ids, numbered in the order of their locks
  NoRow,     \* an idle transaction's target
  Parent,    \* the client of a project, the project of a plan
  Batch,     \* delete-batch ids
  Live,      \* the batch of a row that is not deleted
  Absent,    \* the batch of a row that is not there: not yet created, or removed
  Tx,        \* transaction slots
  Expirable, \* the rows that may be expired: a bound for TLC
  Overlap    \* whether a row is restored while a delete that found it deleted runs on

Row == Client \cup Project \cup Plan

ASSUME HierarchyAssumption ==
  /\ Plan \subseteq Nat
  /\ Client \cap Project = {} /\ Client \cap Plan = {} /\ Project \cap Plan = {}
  /\ NoRow \notin Row
  /\ Parent \in [Project \cup Plan -> Client \cup Project]
  /\ \A p \in Project : Parent[p] \in Client
  /\ \A p \in Plan : Parent[p] \in Project
  /\ Live \notin Batch /\ Absent \notin Batch /\ Live # Absent
  /\ IsFiniteSet(Tx)
  /\ Overlap \in BOOLEAN

VARIABLES
  row,  \* the committed rows: the batch of each
  tx    \* the transactions: where each is and which locks it holds

vars == <<row, tx>>

Txn == [op: {"idle", "create", "restore", "delete", "expire"},
        at: {"idle", "ancestors", "root", "read", "plans", "rows", "projects", "commit",
             "claim", "scope", "remove"},
        target: Row \cup {NoRow},
        batch: Batch \cup {Live},
        shared: SUBSET Row,  \* rows held FOR SHARE
        owned: SUBSET Row,   \* rows locked for a write, or written
        locks: SUBSET Plan,  \* plans' advisory locks
        todo: SUBSET Plan]   \* plans whose lock is still to be taken
Idle == [op |-> "idle", at |-> "idle", target |-> NoRow, batch |-> Live,
         shared |-> {}, owned |-> {}, locks |-> {}, todo |-> {}]

TypeOK ==
  /\ row \in [Row -> Batch \cup {Live, Absent}]
  /\ tx \in [Tx -> Txn]

Init ==
  /\ row = [n \in Row |-> Absent]
  /\ tx = [t \in Tx |-> Idle]

-----------------------------------------------------------------------------
(* The forest.                                                             *)

IsLive(n) == row[n] = Live
IsDead(n) == row[n] \in Batch
Children(n) == {m \in Project \cup Plan : Parent[m] = n}

\* Mutant of Ancestors: only the parent is asked about.
ParentOnly(n) == IF n \in Client THEN {} ELSE {Parent[n]}

\* assertParentActive and the creates: a plan's client, then its project.
Ancestors(n) ==
  IF n \in Client THEN {}
  ELSE IF n \in Project THEN {Parent[n]}
  ELSE {Parent[n], Parent[Parent[n]]}

Below(n) == {m \in Project \cup Plan : n \in Ancestors(m)}

\* The live plans below a client or project; a plan is its own.
PlansBelow(n) ==
  IF n \in Plan THEN {n}
  ELSE IF n \in Project THEN {p \in Plan : IsLive(p) /\ Parent[p] = n}
  ELSE {p \in Plan : IsLive(p) /\ IsLive(Parent[p]) /\ Parent[Parent[p]] = n}

\* A batch id nobody has seen.
Fresh(b) ==
  /\ \A n \in Row : row[n] # b
  /\ \A t \in Tx : tx[t].batch # b

-----------------------------------------------------------------------------
(* Locks.                                                                  *)

\* The ancestor a transaction asks for next, top-down.
NextAncestor(t) ==
  LET left == Ancestors(tx[t].target) \ tx[t].shared
  IN  IF left \cap Client # {} THEN left \cap Client ELSE left

AncestorsHeld(t) == tx[t].at = "ancestors" /\ NextAncestor(t) = {}

\* The rows the next statement of a delete is about: its root, the plans it
\* has locked (of a client) or all (of a project), its projects, its root.
Targets(t) ==
  LET n == tx[t].target
  IN  CASE tx[t].at = "root" -> {n} \ Plan
        [] tx[t].at = "rows" -> IF n \in Client THEN tx[t].locks
                                ELSE Children(n) \cap Plan
        [] tx[t].at = "projects" -> Children(n) \cap Project
        [] tx[t].at = "commit" -> {n}
        [] OTHER -> {}

\* What a transaction asks for now.  Only live rows match its statements.
WantsShared(t) ==
  IF tx[t].at = "ancestors" THEN {n \in NextAncestor(t) : IsLive(n)} ELSE {}
WantsRows(t) ==
  IF tx[t].op = "delete" THEN {n \in Targets(t) : IsLive(n)} ELSE {}
WantsBatch(t) ==
  IF tx[t].op = "restore" /\ AncestorsHeld(t)
  THEN {n \in Row : row[n] = tx[t].batch} ELSE {}
WantsLock(t) ==
  {p \in tx[t].todo : tx[t].at = "plans" /\ \A q \in tx[t].todo : p <= q}

\* u holds what t asks for.
WaitsFor(t, u) ==
  /\ t # u
  /\ \/ WantsShared(t) \cap tx[u].owned # {}
     \/ WantsRows(t) \cap (tx[u].owned \cup tx[u].shared) # {}
     \/ WantsBatch(t) \cap tx[u].owned # {}
     \/ WantsLock(t) \cap tx[u].locks # {}

Granted(t) == \A u \in Tx : ~WaitsFor(t, u)

-----------------------------------------------------------------------------
(* Creating and restoring.                                                 *)

Begin(t, txn) ==
  /\ tx[t] = Idle
  /\ tx' = [tx EXCEPT ![t] = txn]
  /\ UNCHANGED row

End(t) == tx' = [tx EXCEPT ![t] = Idle]

\* create: only the parent is read before the transaction.
AskCreate(t, n) ==
  /\ row[n] = Absent
  /\ \A u \in Tx : tx[u].target # n
  /\ n \notin Client => IsLive(Parent[n])
  /\ Begin(t, [Idle EXCEPT !.op = "create", !.at = "ancestors", !.target = n])

\* restoreBatch: loadDeletedRoot.
AskRestore(t, n) ==
  /\ IsDead(n)
  /\ Begin(t, [Idle EXCEPT !.op = "restore", !.at = "ancestors", !.target = n,
                           !.batch = row[n]])

\* lockActiveClientForShare, lockActiveProjectForShare
ShareAncestor(t) ==
  /\ tx[t].at = "ancestors"
  /\ Granted(t)
  /\ \E n \in NextAncestor(t) :
       /\ IsLive(n)
       /\ tx' = [tx EXCEPT ![t].shared = @ \cup {n}]
  /\ UNCHANGED row

AncestorDeleted(t) ==
  /\ tx[t].at = "ancestors"
  /\ Granted(t)
  /\ \E n \in NextAncestor(t) : ~IsLive(n)
  /\ End(t)
  /\ UNCHANGED row

Create(t) ==
  /\ tx[t].op = "create"
  /\ AncestorsHeld(t)
  /\ row' = [row EXCEPT ![tx[t].target] = Live]
  /\ End(t)

\* Of the batch, at least one row of the target's table must come back.
BatchIsThere(t) ==
  \E table \in {Client, Project, Plan} :
    /\ tx[t].target \in table
    /\ \E n \in table : row[n] = tx[t].batch

\* A delete that found its client or project deleted goes on without a lock
\* on it.
Unanchored(t) ==
  /\ tx[t].op = "delete"
  /\ tx[t].target \notin Plan
  /\ tx[t].at # "root"
  /\ tx[t].target \notin tx[t].owned

Restore(t) ==
  /\ tx[t].op = "restore"
  /\ AncestorsHeld(t)
  /\ Granted(t)
  /\ BatchIsThere(t)
  /\ Overlap \/ \A u \in Tx : Unanchored(u) => row[tx[u].target] # tx[t].batch
  /\ row' = [n \in Row |-> IF row[n] = tx[t].batch THEN Live ELSE row[n]]
  /\ End(t)

-----------------------------------------------------------------------------
(* Deleting.                                                               *)

\* remove: the row is only read, and answered 404, before the transaction.
AskDelete(t, n, b) ==
  /\ IsLive(n)
  /\ Fresh(b)
  /\ Begin(t, [Idle EXCEPT !.op = "delete", !.at = "root", !.target = n, !.batch = b])

\* A statement of a delete that locks or stamps the live rows it is about.
Take(t, at, next) ==
  /\ tx[t].at = at
  /\ Granted(t)
  /\ tx' = [tx EXCEPT ![t].owned = @ \cup WantsRows(t), ![t].at = next]
  /\ UNCHANGED row

\* Mutant of LockRoot: the root is not locked before the subtree is read.
LockNothing(t) ==
  /\ tx[t].at = "root"
  /\ Granted(t)
  /\ tx' = [tx EXCEPT ![t].at = "read"]
  /\ UNCHANGED row

\* lockClientRowForDelete, lockProjectRowForDelete; none for a plan.
LockRoot(t) == Take(t, "root", "read")

ReadSubtree(t) ==
  /\ tx[t].at = "read"
  /\ tx' = [tx EXCEPT ![t].todo = PlansBelow(tx[t].target), ![t].at = "plans"]
  /\ UNCHANGED row

\* Mutant of LockPlan: the locks are taken in any order.
LockAnyPlan(t) ==
  /\ tx[t].at = "plans"
  /\ \E p \in tx[t].todo :
       /\ \A u \in Tx \ {t} : p \notin tx[u].locks
       /\ tx' = [tx EXCEPT ![t].locks = @ \cup {p}, ![t].todo = @ \ {p}]
  /\ UNCHANGED row

\* acquirePlanWriteLocks, in ascending order
LockPlan(t) ==
  /\ tx[t].at = "plans"
  /\ Granted(t)
  /\ WantsLock(t) # {}
  /\ tx' = [tx EXCEPT ![t].locks = @ \cup WantsLock(t), ![t].todo = @ \ WantsLock(t)]
  /\ UNCHANGED row

PlansLocked(t) ==
  /\ tx[t].at = "plans" /\ tx[t].todo = {}
  /\ tx' = [tx EXCEPT ![t].at = "rows"]
  /\ UNCHANGED row

StampPlans(t) == Take(t, "rows", "projects")
StampProjects(t) == Take(t, "projects", "commit")

\* The root, if it is live, and with the commit all the stamps are seen.
CommitDelete(t) ==
  /\ tx[t].at = "commit"
  /\ Granted(t)
  /\ row' = [n \in Row |-> IF n \in tx[t].owned \cup WantsRows(t) THEN tx[t].batch ELSE row[n]]
  /\ End(t)

-----------------------------------------------------------------------------
(* Expiring.                                                               *)

\* Deleted for a retention period: a delete of it, or of what is below it,
\* that began before would have timed out.
PastPeriod(n) ==
  /\ IsDead(n)
  /\ \A u \in Tx : tx[u].op = "delete" => tx[u].target \notin {n} \cup Below(n)

\* selectExpiryCandidates, read outside a transaction: what was deleted with
\* its parent is left to the parent's turn.  A sweep does not overlap another.
AskExpire(t, n) ==
  /\ n \in Expirable /\ PastPeriod(n)
  /\ n \notin Client => row[Parent[n]] # row[n]
  /\ \A u \in Tx : tx[u].op # "expire"
  /\ Begin(t, [Idle EXCEPT !.op = "expire", !.at = "claim", !.target = n, !.batch = row[n]])

\* Mutant of Claim: the root is removed as the scan saw it.
ClaimUnread(t) ==
  /\ tx[t].at = "claim"
  /\ tx' = [tx EXCEPT ![t].owned = {tx[t].target}, ![t].at = "scope"]
  /\ UNCHANGED row

\* claimExpiredRoot: still deleted, and by the same delete.
Claim(t) ==
  /\ tx[t].at = "claim"
  /\ row[tx[t].target] = tx[t].batch
  /\ tx' = [tx EXCEPT ![t].owned = {tx[t].target}, ![t].at = "scope"]
  /\ UNCHANGED row

ClaimLost(t) ==
  /\ tx[t].at = "claim"
  /\ row[tx[t].target] # tx[t].batch
  /\ End(t)
  /\ UNCHANGED row

\* resolveExpiryScope: all that is there below the root, live or not.
ResolveScope(t) ==
  /\ tx[t].at = "scope"
  /\ tx' = [tx EXCEPT ![t].owned = @ \cup {n \in Below(tx[t].target) : row[n] # Absent},
                      ![t].at = "remove"]
  /\ UNCHANGED row

\* No row would be left without its parent; else the foreign keys refuse.
Whole(t) ==
  \A n \in Project \cup Plan :
    row[n] # Absent /\ Parent[n] \in tx[t].owned => n \in tx[t].owned

\* deleteExpiredScope
Remove(t) ==
  /\ tx[t].at = "remove"
  /\ Whole(t)
  /\ row' = [n \in Row |-> IF n \in tx[t].owned THEN Absent ELSE row[n]]
  /\ End(t)

Fail(t) ==
  /\ tx[t] # Idle
  /\ End(t)
  /\ UNCHANGED row

-----------------------------------------------------------------------------
Ask ==
  \E t \in Tx, n \in Row :
    \/ AskCreate(t, n)
    \/ AskRestore(t, n) \/ AskExpire(t, n)
    \/ \E b \in Batch : AskDelete(t, n, b)

Work ==
  \E t \in Tx :
    \/ ShareAncestor(t) \/ AncestorDeleted(t) \/ Create(t) \/ Restore(t)
    \/ LockRoot(t) \/ ReadSubtree(t) \/ LockPlan(t) \/ PlansLocked(t)
    \/ StampPlans(t) \/ StampProjects(t) \/ CommitDelete(t)
    \/ Claim(t) \/ ClaimLost(t) \/ ResolveScope(t) \/ Remove(t)
    \/ Fail(t)

Next == Ask \/ Work

Spec == Init /\ [][Next]_vars

-----------------------------------------------------------------------------
(* Properties.                                                             *)

\* Nothing is live below a deleted row: "the no orphan under a deleted
\* ancestor invariant" of the lifecycle service.  It takes the shares of a
\* create or restore against the root lock of a delete; and it is lost when a
\* row is restored inside a delete that found it deleted.
NoOrphan == \A n \in Project \cup Plan : IsLive(n) => IsLive(Parent[n])

\* The rows of a batch are one subtree, whatever deletes race for them: one
\* row of it has its parent outside it.  So a restore, which asks only about
\* the ancestors of the row it names, asks enough.
BatchHasOneRoot ==
  \A b \in Batch, m, n \in Row :
    /\ row[m] = b /\ (m \notin Client => row[Parent[m]] # b)
    /\ row[n] = b /\ (n \notin Client => row[Parent[n]] # b)
    => m = n

\* The expiry removes nothing that is live: not its root, which may have been
\* restored since the scan ("a planner who restores a root in that gap must
\* win"), and not what is below, which it takes in whatever state.
NothingLiveRemoved ==
  [][\A n \in Row : IsLive(n) => row'[n] # Absent]_vars

\* Deletes wait while they hold locks, but a ring of waits needs one of a
\* client delete that is stamping its projects, for a project delete: without
\* those there is no ring, whatever creates, restores and deletes wait for.
Crosses(t, u) ==
  /\ tx[t].at = "projects" /\ tx[t].target \in Client
  /\ tx[u].op = "delete" /\ tx[u].target \in Project
RingsCrossLevels ==
  Acyclic(Tx, {e \in Edges(Tx) : WaitsFor(e[1], e[2]) /\ ~Crosses(e[1], e[2])})

\* lockPlansForCascade: "a delete that has to wait is holding nothing the
\* other side needs".
\* No run checks it: TLC refutes it (README, section 4).
NoDeadlock == Acyclic(Tx, {e \in Edges(Tx) : WaitsFor(e[1], e[2])})
=============================================================================
