------------------------------ MODULE Resources ------------------------------
(***************************************************************************)
(* The resource library of an organisation: a tree of resources filed in   *)
(* groups, and whether each is assigned to an activity.                    *)
(*                                                                         *)
(* What changes the shape of the tree holds one lock of the organisation   *)
(* from its checks to its commit.  An assignment and a delete hold the     *)
(* locks of the resources they are about; the delete of a resource that is *)
(* not a group holds no more.  But every request first reads its resource, *)
(* and the kind it goes by, before its transaction, and only an update     *)
(* compares versions when it writes.                                       *)
(*                                                                         *)
(* What a transaction writes shows when it commits.  Names, codes, prices, *)
(* calendars (Calendars has them) and the archive flag are not modelled.   *)
(***************************************************************************)
EXTENDS Digraphs, FiniteSets, Naturals

CONSTANTS
  Resource,
  NoRes,     \* the parent of a resource at the top level
  Keep,      \* the parent in an update that sends none
  Batch,     \* delete-batch ids
  Live,      \* the batch of a resource that is not deleted
  Absent,    \* the batch of a resource that was never created
  Req,       \* request slots
  MaxDepth,  \* RESOURCE_TREE_MAX_DEPTH
  Both       \* whether one update may change kind and parent (bounds the model checking)

ASSUME ResourcesAssumption ==
  /\ NoRes \notin Resource /\ Keep \notin Resource /\ NoRes # Keep
  /\ Live \notin Batch /\ Absent \notin Batch /\ Live # Absent
  /\ IsFiniteSet(Resource)
  /\ MaxDepth \in Nat \ {0}
  /\ Both \in BOOLEAN

VARIABLES
  res,       \* the committed rows: batch, kind and parent of each
  assigned,  \* the resources with an active assignment
  req,       \* the requests: what each has read and which locks it holds
  astray     \* history: whether a request ever deleted a group that it took for a leaf

vars == <<res, assigned, req, astray>>

Kind == {"leaf", "group"}
Row == [batch: Batch \cup {Live, Absent}, kind: Kind, parent: Resource \cup {NoRes}]
Blank == [batch |-> Absent, kind |-> "leaf", parent |-> NoRes]

Request == [op: {"idle", "create", "update", "remove", "restore", "dissolve", "assign"},
            at: {"asked", "branch", "checked"},
            target: Resource \cup {NoRes},
            seen: Kind,         \* the kind read before the transaction
            kind: Kind,         \* the kind a create or update writes
            parent: Resource \cup {NoRes, Keep},
            current: BOOLEAN,   \* the version it read is still the row's
            tree: BOOLEAN,      \* it holds the tree lock
            locks: SUBSET Resource,
            branch: SUBSET Resource]
Idle == [op |-> "idle", at |-> "asked", target |-> NoRes, seen |-> "leaf", kind |-> "leaf",
         parent |-> NoRes, current |-> TRUE, tree |-> FALSE, locks |-> {}, branch |-> {}]

TypeOK ==
  /\ res \in [Resource -> Row]
  /\ assigned \subseteq Resource
  /\ req \in [Req -> Request]
  /\ astray \in BOOLEAN

Init ==
  /\ res = [r \in Resource |-> Blank]
  /\ assigned = {}
  /\ req = [q \in Req |-> Idle]
  /\ astray = FALSE

-----------------------------------------------------------------------------
(* The tree.                                                               *)

IsLive(r) == res[r].batch = Live
IsDead(r) == res[r].batch \in Batch
IsGroup(r) == res[r].kind = "group"
LiveRes == {r \in Resource : IsLive(r)}
BatchOf(r) == {s \in Resource : res[s].batch = res[r].batch}
Children(r) == {c \in LiveRes : res[c].parent = r}

\* What a walk up from p meets: a deleted ancestor is met, and ends the walk.
Filing == {e \in Edges(Resource) : IsLive(e[1]) /\ res[e[1]].parent = e[2]}
WalkUp(p) == Reach(Resource, Filing, p)

\* r and what the rows S file below it.
Beneath(S, r) == Reach(Resource, {e \in Edges(Resource) : e[2] \in S /\ res[e[2]].parent = e[1]}, r)

\* activeSubtreeHeight and batchHeight: the longest way down, in nodes.
HeightAtMost(S, r, n) ==
  \A d \in Beneath(S, r) : Cardinality({a \in Beneath(S, r) : d \in Beneath(S, a)}) <= n

\* Mutant of Fits: the ancestors are not walked.
FitsUnwalked(p, r, S) == p # r /\ IsLive(p) /\ IsGroup(p)

\* assertValidResourceParent: r, with what the rows S file below it, may go
\* under p.
Fits(p, r, S) ==
  /\ p # r
  /\ IsLive(p) /\ IsGroup(p)
  /\ r \notin WalkUp(p)
  /\ LET depth == Cardinality(WalkUp(p))
     IN  depth < MaxDepth /\ HeightAtMost(S, r, MaxDepth - depth)

-----------------------------------------------------------------------------
(* Locks and requests.                                                     *)

TreeFree == \A q \in Req : ~req[q].tree
LocksFree(S) == \A q \in Req : req[q].locks \cap S = {}

Begin(q, request) ==
  /\ req[q] = Idle
  /\ req' = [req EXCEPT ![q] = request]
  /\ UNCHANGED <<res, assigned, astray>>

Step(q, request) ==
  /\ req' = [req EXCEPT ![q] = request]
  /\ UNCHANGED <<res, assigned, astray>>

\* A refusal or an error: the transaction leaves nothing behind.
Refused(q) == Step(q, Idle)

\* q commits and the rows in S have a new version.
Commit(q, S) ==
  req' = [u \in Req |-> IF u = q THEN Idle
                        ELSE [req[u] EXCEPT !.current = @ /\ req[u].target \notin S]]

\* A batch id nobody has seen.
Fresh(b) == \A r \in Resource : res[r].batch # b

\* u turns a resource into a group; u has read that it is none.
Converts(u) == req[u].op = "update" /\ req[u].seen = "leaf" /\ req[u].kind = "group"

-----------------------------------------------------------------------------
(* Create and update.                                                      *)

Unused(r) == res[r] = Blank /\ \A u \in Req : req[u].target # r

\* create at the top level takes no lock.
CreateTop(r, k) ==
  /\ Unused(r)
  /\ res' = [res EXCEPT ![r] = [batch |-> Live, kind |-> k, parent |-> NoRes]]
  /\ UNCHANGED <<assigned, req, astray>>

AskCreate(q, r, k, p) ==
  /\ Unused(r)
  /\ Begin(q, [Idle EXCEPT !.op = "create", !.target = r, !.kind = k, !.parent = p])

CheckCreate(q) ==
  /\ req[q].op = "create" /\ req[q].at = "asked"
  /\ TreeFree
  /\ IF Fits(req[q].parent, req[q].target, {})
     THEN Step(q, [req[q] EXCEPT !.at = "checked", !.tree = TRUE])
     ELSE Refused(q)

Create(q) ==
  /\ req[q].op = "create" /\ req[q].at = "checked"
  /\ res' = [res EXCEPT ![req[q].target] =
               [batch |-> Live, kind |-> req[q].kind, parent |-> req[q].parent]]
  /\ Commit(q, {})
  /\ UNCHANGED <<assigned, astray>>

\* update, of the kind or the parent: what does not move the tree is left out.
AskUpdate(q, r, k, p) ==
  /\ IsLive(r)
  /\ p # res[r].parent
  /\ p # Keep \/ k # res[r].kind
  /\ p = Keep \/ k = res[r].kind \/ Both
  /\ Begin(q, [Idle EXCEPT !.op = "update", !.target = r, !.seen = res[r].kind,
                           !.kind = k, !.parent = p])

\* RESOURCE_IN_USE, RESOURCE_GROUP_HAS_CHILDREN and the parent's checks.
MayChange(q) ==
  LET r == req[q].target
  IN  /\ Converts(q) => r \notin assigned
      /\ req[q].seen = "group" /\ req[q].kind = "leaf" => Children(r) = {}
      /\ req[q].parent \in Resource => Fits(req[q].parent, r, LiveRes)

CheckUpdate(q) ==
  /\ req[q].op = "update" /\ req[q].at = "asked"
  /\ TreeFree
  /\ IF MayChange(q)
     THEN Step(q, [req[q] EXCEPT !.at = "checked", !.tree = TRUE])
     ELSE Refused(q)

\* Mutant of Update: a parent that was not sent is written all the same.
UpdateVerbatim(q) ==
  LET r == req[q].target
  IN  /\ req[q].op = "update" /\ req[q].at = "checked"
      /\ req[q].current /\ IsLive(r)
      /\ res' = [res EXCEPT ![r].kind = req[q].kind, ![r].parent = req[q].parent]
      /\ Commit(q, {r})
      /\ UNCHANGED <<assigned, astray>>

\* updateIfVersionMatches
Update(q) ==
  LET r == req[q].target
  IN  /\ req[q].op = "update" /\ req[q].at = "checked"
      /\ req[q].current /\ IsLive(r)
      /\ res' = [res EXCEPT ![r].kind = req[q].kind,
                            ![r].parent = IF req[q].parent = Keep THEN @ ELSE req[q].parent]
      /\ Commit(q, {r})
      /\ UNCHANGED <<assigned, astray>>

UpdateConflict(q) ==
  /\ req[q].op = "update" /\ req[q].at = "checked"
  /\ ~(req[q].current /\ IsLive(req[q].target))
  /\ Refused(q)

-----------------------------------------------------------------------------
(* Delete, dissolve and restore.                                           *)

AskRemove(q, r) ==
  /\ IsLive(r)
  /\ Begin(q, [Idle EXCEPT !.op = "remove", !.target = r, !.seen = res[r].kind,
                           !.branch = {r}])

\* resolveActiveSubtreeIds, of what was read to be a group.
ReadBranch(q) ==
  /\ req[q].op = "remove" /\ req[q].at = "asked" /\ req[q].seen = "group"
  /\ TreeFree
  /\ Step(q, [req[q] EXCEPT !.at = "branch", !.tree = TRUE,
                            !.branch = Beneath(LiveRes, req[q].target)])

InUse(q) == req[q].branch \cap assigned # {}

\* acquireResourceWriteLocks, then the count of the assignments.
LockBranch(q) ==
  /\ req[q].op = "remove"
  /\ req[q].at = IF req[q].seen = "group" THEN "branch" ELSE "asked"
  /\ LocksFree(req[q].branch)
  /\ IF InUse(q)
     THEN Refused(q)
     ELSE Step(q, [req[q] EXCEPT !.at = "checked", !.locks = req[q].branch])

Stamped(S, b) ==
  [r \in Resource |-> IF r \in S /\ IsLive(r) THEN [res[r] EXCEPT !.batch = b] ELSE res[r]]

DeletesGroupAsLeaf(q) ==
  req[q].seen = "leaf" /\ IsLive(req[q].target) /\ IsGroup(req[q].target)

\* softDelete, softDeleteMany
Remove(q, b) ==
  /\ req[q].op = "remove" /\ req[q].at = "checked"
  /\ Fresh(b)
  /\ res' = Stamped(req[q].branch, b)
  /\ Commit(q, {})
  /\ astray' = (astray \/ DeletesGroupAsLeaf(q))
  /\ UNCHANGED assigned

AskDissolve(q, r) ==
  /\ IsLive(r) /\ IsGroup(r)
  /\ Begin(q, [Idle EXCEPT !.op = "dissolve", !.target = r, !.seen = "group"])

\* The group is read again, and where it is filed.
CheckDissolve(q) ==
  LET r == req[q].target
  IN  /\ req[q].op = "dissolve" /\ req[q].at = "asked"
      /\ TreeFree
      /\ IF IsLive(r) /\ IsGroup(r)
         THEN Step(q, [req[q] EXCEPT !.at = "checked", !.tree = TRUE,
                                     !.parent = res[r].parent])
         ELSE Refused(q)

\* promoteChildren, then softDelete
Dissolve(q, b) ==
  LET r == req[q].target
  IN  /\ req[q].op = "dissolve" /\ req[q].at = "checked"
      /\ Fresh(b)
      /\ res' = [s \in Resource |->
                   IF s \in Children(r) THEN [res[s] EXCEPT !.parent = req[q].parent]
                   ELSE Stamped({r}, b)[s]]
      /\ Commit(q, Children(r))
      /\ UNCHANGED <<assigned, astray>>

AskRestore(q, r) ==
  /\ IsDead(r)
  /\ Begin(q, [Idle EXCEPT !.op = "restore", !.target = r])

\* assertParentRestorable
Returnable(r) == res[r].parent = NoRes \/ Fits(res[r].parent, r, BatchOf(r))

CheckRestore(q) ==
  LET r == req[q].target
  IN  /\ req[q].op = "restore" /\ req[q].at = "asked"
      /\ TreeFree
      /\ IF IsDead(r) /\ Returnable(r)
         THEN Step(q, [req[q] EXCEPT !.at = "checked", !.tree = TRUE])
         ELSE Refused(q)

\* restoreBatch: the whole batch.
Back(r) == BatchOf(r)

Restore(q) ==
  LET back == Back(req[q].target)
  IN  /\ req[q].op = "restore" /\ req[q].at = "checked"
      /\ res' = [r \in Resource |-> IF r \in back THEN [res[r] EXCEPT !.batch = Live] ELSE res[r]]
      /\ Commit(q, back)
      /\ UNCHANGED <<assigned, astray>>

-----------------------------------------------------------------------------
(* Assignments.                                                            *)

AskAssign(q, r) ==
  /\ IsLive(r) /\ ~IsGroup(r)
  /\ Begin(q, [Idle EXCEPT !.op = "assign", !.target = r, !.seen = res[r].kind])

\* Mutant of Confirm: the resource is not read again under its lock.
ConfirmUnread(q) ==
  LET r == req[q].target
  IN  /\ req[q].op = "assign" /\ req[q].at = "asked"
      /\ LocksFree({r})
      /\ Step(q, [req[q] EXCEPT !.at = "checked", !.locks = {r}])

\* The resource's lock, and that it is still there.
Confirm(q) ==
  LET r == req[q].target
  IN  /\ req[q].op = "assign" /\ req[q].at = "asked"
      /\ LocksFree({r})
      /\ IF IsLive(r)
         THEN Step(q, [req[q] EXCEPT !.at = "checked", !.locks = {r}])
         ELSE Refused(q)

Assign(q) ==
  /\ req[q].op = "assign" /\ req[q].at = "checked"
  /\ assigned' = assigned \cup {req[q].target}
  /\ Commit(q, {})
  /\ UNCHANGED <<res, astray>>

\* The last assignment of r is removed.
Unassign(r) ==
  /\ r \in assigned
  /\ assigned' = assigned \ {r}
  /\ UNCHANGED <<res, req, astray>>

Fail(q) ==
  /\ req[q] # Idle
  /\ Refused(q)

-----------------------------------------------------------------------------
Ask ==
  \E q \in {u \in Req : req[u] = Idle}, r \in Resource :
    \/ \E k \in Kind, p \in Resource : AskCreate(q, r, k, p)
    \/ \E k \in Kind, p \in Resource \cup {NoRes, Keep} : AskUpdate(q, r, k, p)
    \/ AskRemove(q, r)
    \/ AskDissolve(q, r)
    \/ AskRestore(q, r)
    \/ AskAssign(q, r)

Work ==
  \E q \in Req :
    \/ CheckCreate(q) \/ Create(q)
    \/ CheckUpdate(q) \/ Update(q) \/ UpdateConflict(q)
    \/ ReadBranch(q) \/ LockBranch(q)
    \/ CheckDissolve(q) \/ CheckRestore(q) \/ Restore(q)
    \/ \E b \in Batch : Remove(q, b) \/ Dissolve(q, b)
    \/ Confirm(q) \/ Assign(q)
    \/ Fail(q)

Direct ==
  \E r \in Resource :
    \/ \E k \in Kind : CreateTop(r, k)
    \/ Unassign(r)

Next == Ask \/ Work \/ Direct

Spec == Init /\ [][Next]_vars

-----------------------------------------------------------------------------
(* Properties.                                                             *)

\* "An active child under a soft-deleted parent" (resources.service.ts) is
\* what the tree lock is for; and only a group has children.
FiledInLiveGroup ==
  \A r \in LiveRes : res[r].parent # NoRes => IsLive(res[r].parent) /\ IsGroup(res[r].parent)

\* Two moves at once could close a ring, or stack two branches past the cap,
\* neither seeing the other; so could a restore under a parent that was moved.
\* A delete that read its resource before it became a group orphans what was
\* filed there meanwhile (README, section 4); until one does, the tree is sound.
TreeSound ==
  ~astray =>
    /\ FiledInLiveGroup
    /\ Acyclic(Resource, Filing)
    /\ \A r \in LiveRes : Cardinality(WalkUp(r)) <= MaxDepth

\* RESOURCE_IN_USE: an assigned resource that is no group is never deleted,
\* whatever assignments, deletes of it or of a group above it, dissolves,
\* restores and conversions run at the same time.
AssignedIsThere == \A r \in assigned : IsGroup(r) \/ IsLive(r)

\* "A GROUP may never be an assignment endpoint", and what is assigned is there.
\* No run checks it: TLC refutes it (README, section 4).
AssignedIsResource == \A r \in assigned : IsLive(r) /\ ~IsGroup(r)
=============================================================================
