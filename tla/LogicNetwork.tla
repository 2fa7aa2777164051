---------------------------- MODULE LogicNetwork ----------------------------
(***************************************************************************)
(* The activities of one plan, the WBS tree they are filed in and the      *)
(* dependencies between them, through every operation that shapes them:    *)
(* create, retype, re-file, link, unlink, delete, bulk delete, dissolve,   *)
(* restore, and delete and restore of the whole plan.                      *)
(*                                                                         *)
(* Deletion is soft: it stamps rows with a batch, and a restore brings one *)
(* batch back.  All but three operations do their work under the plan's    *)
(* advisory lock, so their transactions are one step each.  Unlinking,     *)
(* filing at the top level and restoring the plan do not take it, and can  *)
(* commit inside a delete; so a delete is one step per table it stamps,    *)
(* and sweep says what it has still to stamp.  What a request reads before *)
(* it takes the lock is held in call until its transaction runs.           *)
(*                                                                         *)
(* Names, versions and the link type are not modelled.  A version match    *)
(* only refuses more; of links with the same ends one at most is live per  *)
(* type, and one type is modelled.  A link removed on its own is never     *)
(* restored (links only return with a batch), so its row is dropped.       *)
(***************************************************************************)
EXTENDS Digraphs, FiniteSets, Naturals

CONSTANTS
  Act,       \* activity ids of the plan
  NoAct,     \* "no activity": a null parent, an idle request's target
  Batch,     \* delete-batch ids
  Live,      \* the batch of a row that is not deleted
  Absent,    \* the batch of an activity that was never created
  Req,       \* slots for requests between their first read and their lock
  Overlap,   \* whether plans are restored while a delete of them is running
  MaxLinks,  \* bound on the dependency rows (model checking only)
  MaxRows    \* bound on the rows of one bulk request (model checking only)

\* Ids are UUIDs, so there are finitely many: the cycle search ends.
ASSUME NetworkAssumption ==
  /\ IsFiniteSet(Act)
  /\ NoAct \notin Act
  /\ Live \notin Batch /\ Absent \notin Batch /\ Live # Absent
  /\ Overlap \in BOOLEAN
  /\ MaxLinks \in Nat /\ MaxRows \in Nat

VARIABLES
  plan,   \* Live, or the batch the plan was deleted in
  act,    \* the activity rows: batch, whether a WBS summary, WBS parent
  links,  \* the dependency rows: ends and batch
  call,   \* requests that have read and wait for the plan's lock
  sweep   \* what a delete that holds the lock is about to stamp

vars == <<plan, act, links, call, sweep>>

ActRow == [batch: Batch \cup {Live, Absent}, summary: BOOLEAN,
           parent: Act \cup {NoAct}]
Link == [from: Act, to: Act, batch: Batch \cup {Live}]
Call == [op: {"idle", "delete", "deletePlan", "dissolve", "restore"},
         act: Act \cup {NoAct}]
Idle == [op |-> "idle", act |-> NoAct]
NoSweep == [acts |-> {}, plan |-> FALSE, batch |-> Live]
Sweep == {NoSweep} \cup [acts: SUBSET Act, plan: BOOLEAN, batch: Batch]
Unlocked == sweep = NoSweep

TypeOK ==
  /\ plan \in Batch \cup {Live}
  /\ act \in [Act -> ActRow]
  /\ links \subseteq Link
  /\ call \in [Req -> Call]
  /\ sweep \in Sweep

Init ==
  /\ plan = Live
  /\ act = [a \in Act |-> [batch |-> Absent, summary |-> FALSE, parent |-> NoAct]]
  /\ links = {}
  /\ call = [r \in Req |-> Idle]
  /\ sweep = NoSweep

-----------------------------------------------------------------------------
(* What the rows amount to.                                                *)

InBatch(a, b) == a \in Act /\ act[a].batch = b
IsLive(a) == InBatch(a, Live)
IsDead(a) == a \in Act /\ act[a].batch \in Batch

\* The plan's active edges, and the live rows of the parent tree as
\* child -> parent and as parent -> child.
Logic == {<<l.from, l.to>> : l \in {k \in links : k.batch = Live}}
Above(as) == {e \in Edges(Act) : as[e[1]].batch = Live /\ as[e[1]].parent = e[2]}
Below == {e \in Edges(Act) : act[e[2]].batch = Live /\ act[e[2]].parent = e[1]}

\* A batch id nobody has seen: none of the rows carries it.
Fresh(b) ==
  /\ plan # b
  /\ \A a \in Act : act[a].batch # b
  /\ \A l \in links : l.batch # b
  /\ sweep.batch # b

\* Mutant of StampActs: a deleted row is taken out of its summary.
StampActsDetached(as, S, b) ==
  [a \in Act |-> IF a \in S /\ as[a].batch = Live
                 THEN [as[a] EXCEPT !.batch = b, !.parent = NoAct]
                 ELSE as[a]]

\* Stamp the live rows among some activities, and the live links that touch
\* any of them, with a batch.
StampActs(as, S, b) ==
  [a \in Act |-> IF a \in S /\ as[a].batch = Live THEN [as[a] EXCEPT !.batch = b]
                 ELSE as[a]]
StampLinks(ls, S, b) ==
  {IF l.batch = Live /\ (l.from \in S \/ l.to \in S) THEN [l EXCEPT !.batch = b] ELSE l
     : l \in ls}

\* Reactivate the activities of a batch.
ReviveActs(as, b) ==
  [a \in Act |-> IF as[a].batch = b THEN [as[a] EXCEPT !.batch = Live] ELSE as[a]]

\* restoreLinksInBatch: its links, where both ends are active once the
\* batch's activities (as) are back.
Restorable(as, ls, b) ==
  {l \in ls : l.batch = b /\ as[l.from].batch = Live /\ as[l.to].batch = Live}

ReviveLinks(as, ls, b) ==
  (ls \ Restorable(as, ls, b))
    \cup {[l EXCEPT !.batch = Live] : l \in Restorable(as, ls, b)}

\* The partial unique index: no two live rows with the same ends.
NoCollision(as, ls, b) ==
  \A l \in Restorable(as, ls, b) : [l EXCEPT !.batch = Live] \notin ls

-----------------------------------------------------------------------------
(* Creating and changing activities.                                       *)

\* The active activities filed directly under a, and a's active links.
Children(a) == {c \in Act : IsLive(c) /\ act[c].parent = a}
LinksOf(a) == {l \in links : l.batch = Live /\ a \in {l.from, l.to}}

\* The walk from p up the active tree ends at a row without an active parent;
\* a walk that does not end runs into the transaction's time limit.
WalkEnds(p) == \E q \in Reach(Act, Above(act), p) : ~IsLive(act[q].parent)

\* assertValidParent: an active summary that is not inside a's own subtree.
ValidParent(a, p) ==
  /\ p # a
  /\ IsLive(p) /\ act[p].summary
  /\ a \notin Reach(Act, Above(act), p)
  /\ WalkEnds(p)

\* create
CreateActivity(a, summary, p) ==
  /\ Unlocked
  /\ plan = Live
  /\ act[a].batch = Absent
  /\ p = NoAct \/ ValidParent(a, p)
  /\ act' = [act EXCEPT ![a] = [batch |-> Live, summary |-> summary, parent |-> p]]
  /\ UNCHANGED <<plan, links, call, sweep>>

\* An update that only files a at the top level takes no plan lock; a row
\* that a delete has locked it waits for.
TopLevelOnly(a, summary, p) ==
  summary = act[a].summary /\ p = NoAct /\ a \notin sweep.acts

\* update: out of a summary only without children, into one only without
\* links.  A parent that is not given stays as it is.
UpdateActivity(a, summary, p) ==
  /\ IsLive(a)
  /\ Unlocked \/ TopLevelOnly(a, summary, p)
  /\ act[a].summary /\ ~summary => Children(a) = {}
  /\ ~act[a].summary /\ summary => LinksOf(a) = {}
  /\ p \in {act[a].parent, NoAct} \/ ValidParent(a, p)
  /\ act' = [act EXCEPT ![a].summary = summary, ![a].parent = p]
  /\ UNCHANGED <<plan, links, call, sweep>>

\* assertNoParentCycles walks the tree with the batch already in it.
Refiled(f) == [a \in Act |-> IF a \in DOMAIN f THEN [act[a] EXCEPT !.parent = f[a]]
                             ELSE act[a]]

\* Mutant of Refile: the rows are validated one by one, against the tree as
\* it is.
RefileRowByRow(f) ==
  /\ Unlocked
  /\ plan = Live
  /\ \A a \in DOMAIN f : IsLive(a) /\ (f[a] = NoAct \/ ValidParent(a, f[a]))
  /\ act' = Refiled(f)
  /\ UNCHANGED <<plan, links, call, sweep>>

\* updateParents
Refile(f) ==
  /\ Unlocked
  /\ plan = Live
  /\ \A a \in DOMAIN f :
       /\ IsLive(a)
       /\ \/ f[a] = NoAct
          \/ f[a] # a /\ IsLive(f[a]) /\ act[f[a]].summary
  /\ Acyclic(Act, Above(Refiled(f)))
  /\ act' = Refiled(f)
  /\ UNCHANGED <<plan, links, call, sweep>>

-----------------------------------------------------------------------------
(* Dependencies.                                                           *)

\* Mutant of WouldCreateCycle: the walk starts at the wrong end.
WouldCreateCycleBackwards(p, s) == s \in Search(Act, Logic, p)

WouldCreateCycle(p, s) == p \in Search(Act, Logic, s)

\* create re-reads the plan and both endpoints under the lock.
CreateLink(p, s) ==
  /\ Unlocked
  /\ plan = Live
  /\ p # s
  /\ \A a \in {p, s} : IsLive(a) /\ ~act[a].summary
  /\ ~WouldCreateCycle(p, s)
  /\ <<p, s>> \notin Logic
  /\ Cardinality(links) < MaxLinks
  /\ links' = links \cup {[from |-> p, to |-> s, batch |-> Live]}
  /\ UNCHANGED <<plan, act, call, sweep>>

RemoveLink(l) ==
  /\ l \in links /\ l.batch = Live
  /\ links' = links \ {l}
  /\ UNCHANGED <<plan, act, call, sweep>>

-----------------------------------------------------------------------------
(* Deleting.                                                               *)

\* A request that reads now and acts when it has the plan's lock.
Wait(r, op, a) ==
  /\ call[r] = Idle
  /\ call' = [call EXCEPT ![r] = [op |-> op, act |-> a]]
  /\ UNCHANGED <<plan, act, links, sweep>>

Serving(r, op) == call[r].op = op /\ call' = [call EXCEPT ![r] = Idle]

\* The row itself and its active subtree, whatever the row's own state.
Subtree(a) == Reach(Act, Below, a)

\* remove: the activity is read, and answered 404, before the transaction.
AskDelete(r, a) ==
  /\ IsLive(a)
  /\ Wait(r, "delete", a)

\* Under the lock the subtree is read and its links are stamped.  Only a
\* request that names a version makes sure that the row is still there.
BeginDelete(r, b, versioned) ==
  LET a == call[r].act
  IN  /\ Unlocked
      /\ Serving(r, "delete")
      /\ Fresh(b)
      /\ versioned => IsLive(a)
      /\ sweep' = [acts |-> Subtree(a), plan |-> FALSE, batch |-> b]
      /\ links' = StampLinks(links, Subtree(a), b)
      /\ UNCHANGED <<plan, act>>

DeleteRefused(r) ==
  /\ Unlocked
  /\ Serving(r, "delete")
  /\ ~IsLive(call[r].act)
  /\ UNCHANGED <<plan, act, links, sweep>>

\* PlansService.remove: the plan, too, is only read before the transaction.
AskDeletePlan(r) ==
  /\ plan = Live
  /\ Wait(r, "deletePlan", NoAct)

BeginDeletePlan(r, b) ==
  /\ Unlocked
  /\ Serving(r, "deletePlan")
  /\ Fresh(b)
  /\ sweep' = [acts |-> Act, plan |-> TRUE, batch |-> b]
  /\ links' = StampLinks(links, Act, b)
  /\ UNCHANGED <<plan, act>>

\* Then the activities, those of them that are live by now, and the plan.
SweepActivities ==
  /\ sweep.acts # {}
  /\ act' = StampActs(act, sweep.acts, sweep.batch)
  /\ sweep' = IF sweep.plan THEN [sweep EXCEPT !.acts = {}] ELSE NoSweep
  /\ UNCHANGED <<plan, links, call>>

SweepPlan ==
  /\ sweep.plan /\ sweep.acts = {}
  /\ plan' = IF plan = Live THEN sweep.batch ELSE plan
  /\ sweep' = NoSweep
  /\ UNCHANGED <<act, links, call>>

\* Mutant of BulkDelete: only the links between two of the rows go.
BulkDeleteInner(S, b) ==
  /\ Unlocked
  /\ plan = Live
  /\ \A a \in S : IsLive(a) /\ ~act[a].summary
  /\ Fresh(b)
  /\ act' = StampActs(act, S, b)
  /\ links' = {IF l.from \in S /\ l.to \in S THEN [l EXCEPT !.batch = b] ELSE l : l \in links}
  /\ UNCHANGED <<plan, call, sweep>>

\* Leaves only, all of them active, in one batch.
BulkDelete(S, b) ==
  /\ Unlocked
  /\ plan = Live
  /\ \A a \in S : IsLive(a) /\ ~act[a].summary
  /\ Fresh(b)
  /\ act' = StampActs(act, S, b)
  /\ links' = StampLinks(links, S, b)
  /\ UNCHANGED <<plan, call, sweep>>

\* dissolveSummary: the type is read before the transaction, the row again
\* under the lock.
AskDissolve(r, a) ==
  /\ IsLive(a) /\ act[a].summary
  /\ Wait(r, "dissolve", a)

Promoted(a) == [c \in Act |-> IF IsLive(c) /\ act[c].parent = a
                              THEN [act[c] EXCEPT !.parent = act[a].parent]
                              ELSE act[c]]

\* Mutant of Dissolve: the children are not promoted.
DissolveStranding(r, b) ==
  LET a == call[r].act
  IN  /\ Unlocked
      /\ Serving(r, "dissolve")
      /\ IsLive(a)
      /\ Fresh(b)
      /\ act' = StampActs(act, {a}, b)
      /\ links' = StampLinks(links, {a}, b)
      /\ UNCHANGED <<plan, sweep>>

\* Its children take its own parent, and it is deleted, alone.  A table
\* constraint refuses a row that would be its own parent.
Dissolve(r, b) ==
  LET a == call[r].act
  IN  /\ Unlocked
      /\ Serving(r, "dissolve")
      /\ IsLive(a)
      /\ act[a].parent \notin Children(a)
      /\ Fresh(b)
      /\ act' = StampActs(Promoted(a), {a}, b)
      /\ links' = StampLinks(links, {a}, b)
      /\ UNCHANGED <<plan, sweep>>

\* The summary is gone, or may not be dissolved, when the lock is granted.
DissolveRefused(r) ==
  LET a == call[r].act
  IN  /\ Unlocked
      /\ Serving(r, "dissolve")
      /\ ~IsLive(a) \/ act[a].parent \in Children(a)
      /\ UNCHANGED <<plan, act, links, sweep>>

-----------------------------------------------------------------------------
(* Restoring.                                                              *)

\* restoreBatch: the whole batch comes back, or nothing does.
ReviveBatch(b) ==
  LET as == ReviveActs(act, b)
  IN  /\ NoCollision(as, links, b)
      /\ act' = as
      /\ links' = ReviveLinks(as, links, b)

\* Mutant of CanRestore: the plan is not looked at.
CanRestoreAnywhere(a) ==
  /\ IsDead(a)
  /\ act[a].parent = NoAct \/ IsLive(act[a].parent)
  /\ NoCollision(ReviveActs(act, act[a].batch), links, act[a].batch)

\* Anchored at a deleted activity: its plan and its WBS parent must be active.
CanRestore(a) ==
  /\ plan = Live
  /\ IsDead(a)
  /\ act[a].parent = NoAct \/ IsLive(act[a].parent)
  /\ NoCollision(ReviveActs(act, act[a].batch), links, act[a].batch)

RestoreActivity(a) ==
  /\ Unlocked
  /\ CanRestore(a)
  /\ ReviveBatch(act[a].batch)
  /\ UNCHANGED <<plan, call, sweep>>

\* restoreDeleteBatch: the anchor is chosen before the transaction, a member
\* of the batch whose parent is not in it.
AskRestoreBatch(r, a) ==
  /\ plan = Live
  /\ IsDead(a)
  /\ ~InBatch(act[a].parent, act[a].batch)
  /\ Wait(r, "restore", a)

RestoreDeleteBatch(r) ==
  LET a == call[r].act
  IN  /\ Unlocked
      /\ Serving(r, "restore")
      /\ CanRestore(a)
      /\ ReviveBatch(act[a].batch)
      /\ UNCHANGED <<plan, sweep>>

RestoreRefused(r) ==
  /\ Unlocked
  /\ Serving(r, "restore")
  /\ ~CanRestore(call[r].act)
  /\ UNCHANGED <<plan, act, links, sweep>>

\* PlansService.restore: no plan lock, so a delete may be half done.
RestorePlan ==
  /\ Unlocked \/ Overlap
  /\ plan # Live
  /\ plan' = Live
  /\ ReviveBatch(plan)
  /\ UNCHANGED <<call, sweep>>

-----------------------------------------------------------------------------
Parents == Act \cup {NoAct}
Rows == {S \in SUBSET Act : S # {} /\ Cardinality(S) <= MaxRows}

EditActivity ==
  \/ \E a \in Act, summary \in BOOLEAN, p \in Parents :
       CreateActivity(a, summary, p) \/ UpdateActivity(a, summary, p)
  \/ \E S \in Rows : \E f \in [S -> Parents] : Refile(f)

EditLink ==
  \/ \E p, s \in Act : CreateLink(p, s)
  \/ \E l \in links : RemoveLink(l)

Ask ==
  \E r \in Req :
    \/ AskDeletePlan(r)
    \/ \E a \in Act : AskDelete(r, a) \/ AskDissolve(r, a) \/ AskRestoreBatch(r, a)

Delete ==
  \/ \E r \in Req, b \in Batch, versioned \in BOOLEAN : BeginDelete(r, b, versioned)
  \/ \E r \in Req, b \in Batch : BeginDeletePlan(r, b) \/ Dissolve(r, b)
  \/ SweepActivities \/ SweepPlan
  \/ \E r \in Req : DeleteRefused(r) \/ DissolveRefused(r)
  \/ \E S \in Rows, b \in Batch : BulkDelete(S, b)

Revive ==
  \/ \E a \in Act : RestoreActivity(a)
  \/ \E r \in Req : RestoreDeleteBatch(r) \/ RestoreRefused(r)
  \/ RestorePlan

Next == EditActivity \/ EditLink \/ Ask \/ Delete \/ Revive

Spec == Init /\ [][Next]_vars

-----------------------------------------------------------------------------
(* Properties.                                                             *)

\* A live dependency joins two live activities, in a live plan.  Deletes
\* sweep links by subtree, by set, by plan; restores revive links by batch,
\* and the two ends of a link may sit in different batches.  It holds unless a
\* plan is restored inside a delete.
LinksJoinLive ==
  \A l \in links : l.batch = Live => IsLive(l.from) /\ IsLive(l.to)

\* Nothing is live in a deleted plan; unless, again, it is restored inside a
\* delete.
DeadPlanIsEmpty == plan # Live => \A a \in Act : ~IsLive(a)

\* The activities a step brings back from the recycle bin.
Revived == {a \in Act : IsDead(a) /\ act'[a].batch = Live}

\* A step that leaves a cycle in the logic found one there or revived
\* activities: two mirrored creates, or any other order of edits and deletes,
\* never close one (restores can: LogicAcyclic).
EditsKeepLogicAcyclic ==
  [][~Acyclic(Act, Logic') => ~Acyclic(Act, Logic) \/ Revived # {}]_vars

\* The same of the parent tree (TreeAcyclic).
EditsKeepTreeAcyclic ==
  [][~Acyclic(Act, Above(act')) => ~Acyclic(Act, Above(act)) \/ Revived # {}]_vars

\* Every live activity is filed at the top or under a live summary, and a
\* summary carries no logic.
WellFiled(as) ==
  \A a \in Act : as[a].batch = Live /\ as[a].parent \in Act =>
    as[as[a].parent].batch = Live /\ as[as[a].parent].summary
NoSummaryLogic(as, ls) ==
  \A l \in ls : l.batch = Live => ~as[l.from].summary /\ ~as[l.to].summary

\* No edit or delete breaks either rule; again only a restore can.
EditsKeepFiling ==
  [][Revived = {} => /\ ~WellFiled(act') => ~WellFiled(act)
                     /\ ~NoSummaryLogic(act', links') => ~NoSummaryLogic(act, links)]_vars

\* Undoing a delete at once gives the network back as it was, ids, filing and
\* links, wherever it stood: for every live activity and unused batch.
DeleteThenRestoreIsIdentity ==
  \A a \in Act, b \in Batch :
    IsLive(a) /\ Fresh(b) =>
      LET as == StampActs(act, Subtree(a), b)
          ls == StampLinks(links, Subtree(a), b)
      IN  /\ ReviveActs(as, b) = act
          /\ ReviveLinks(ReviveActs(as, b), ls, b) = links
          /\ NoCollision(ReviveActs(as, b), ls, b)

\* ADR-0021: the dependency graph of a plan is always acyclic, whatever is
\* deleted and restored in between.
LogicAcyclic == Acyclic(Act, Logic)

\* ADR-0038 (a): the parent tree is acyclic; assertValidParent's walk and the
\* restore of a batch count on it.
\* No run checks it: TLC refutes it (README, section 4).
TreeAcyclic == Acyclic(Act, Above(act))

\* dissolveSummary removes the grouping and keeps the work: no task and no
\* link leaves the plan with it.
\* No run checks it: TLC refutes it (README, section 4).
Work == {a \in Act : IsLive(a) /\ ~act[a].summary}
DissolveKeepsWork ==
  [][\A r \in Req, b \in Batch :
       Dissolve(r, b) => Work \subseteq Work' /\ Logic \subseteq Logic']_vars
=============================================================================
