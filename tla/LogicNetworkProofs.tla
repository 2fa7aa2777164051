------------------------- MODULE LogicNetworkProofs -------------------------
(***************************************************************************)
(* Proofs about a plan's network for any finite set of activities and any  *)
(* number of batches, links and concurrent requests.                       *)
(***************************************************************************)
EXTENDS LogicNetwork, DigraphProofs, TLAPS

\* A request about one activity that waits for the plan's lock names it.
CallsTargeted ==
  \A r \in Req : call[r].op \in {"delete", "dissolve", "restore"} => call[r].act \in Act

\* While a delete runs, the live links that are left touch none of the rows it
\* is about to stamp; a delete of the plan stamps all activities, or has done so.
SweepGuarded ==
  ~Overlap /\ ~Unlocked =>
    /\ \A l \in links : l.batch = Live => l.from \notin sweep.acts /\ l.to \notin sweep.acts
    /\ sweep.plan => sweep.acts = Act \/ \A a \in Act : ~IsLive(a)

\* The inductive invariant.
IInv ==
  /\ TypeOK
  /\ CallsTargeted
  /\ SweepGuarded
  /\ ~Overlap => DeadPlanIsEmpty /\ LinksJoinLive

\* A set of rows and a set of links that fit together.
Joined(as, ls) ==
  /\ as \in [Act -> ActRow]
  /\ ls \subseteq Link
  /\ ~Overlap =>
       \A l \in ls : l.batch = Live => as[l.from].batch = Live /\ as[l.to].batch = Live

-----------------------------------------------------------------------------
(* What stamping and reviving do to the rows.                              *)

\* A stamp takes the live rows of S out and leaves the rest live.
LEMMA ActsStamped ==
  ASSUME NEW as \in [Act -> ActRow], NEW S, NEW b \in Batch
  PROVE  /\ StampActs(as, S, b) \in [Act -> ActRow]
         /\ \A a \in Act :
              StampActs(as, S, b)[a].batch = Live <=> as[a].batch = Live /\ a \notin S
  BY NetworkAssumption DEF StampActs, ActRow

\* A live link after a stamp was live before it and touches no member of S.
LEMMA LinksStamped ==
  ASSUME NEW ls \in SUBSET Link, NEW S, NEW b \in Batch
  PROVE  /\ StampLinks(ls, S, b) \subseteq Link
         /\ \A l \in StampLinks(ls, S, b) : l.batch = Live =>
              l \in ls /\ l.from \notin S /\ l.to \notin S
<1>1. StampLinks(ls, S, b) \subseteq Link
  BY DEF StampLinks, Link
<1>2. ASSUME NEW l \in StampLinks(ls, S, b), l.batch = Live
      PROVE  l \in ls /\ l.from \notin S /\ l.to \notin S
  <2>1. PICK k \in ls :
          l = IF k.batch = Live /\ (k.from \in S \/ k.to \in S)
              THEN [k EXCEPT !.batch = b] ELSE k
    BY DEF StampLinks
  <2>2. k \in Link
    OBVIOUS
  <2>3. ~(k.batch = Live /\ (k.from \in S \/ k.to \in S))
    BY <1>2, <2>1, <2>2, NetworkAssumption DEF Link
  <2> QED
    BY <1>2, <2>1, <2>3
<1> QED
  BY <1>1, <1>2

\* Rows and links swept over the same activities still fit together.
LEMMA SweptTogether ==
  ASSUME NEW as, NEW ls, NEW S, NEW b \in Batch, Joined(as, ls)
  PROVE  Joined(StampActs(as, S, b), StampLinks(ls, S, b))
<1>1. as \in [Act -> ActRow] /\ ls \in SUBSET Link
  BY DEF Joined
<1> DEFINE bs == StampActs(as, S, b)
<1>2. /\ bs \in [Act -> ActRow]
      /\ \A a \in Act : bs[a].batch = Live <=> as[a].batch = Live /\ a \notin S
  BY <1>1, ActsStamped
<1> HIDE DEF bs
<1>3. ASSUME NEW l \in StampLinks(ls, S, b), l.batch = Live, ~Overlap
      PROVE  bs[l.from].batch = Live /\ bs[l.to].batch = Live
  <2>1. l \in ls /\ l.from \notin S /\ l.to \notin S
    BY <1>1, <1>3, LinksStamped
  <2>2. l.from \in Act /\ l.to \in Act
    BY <1>1, <2>1 DEF Link
  <2>3. as[l.from].batch = Live /\ as[l.to].batch = Live
    BY <1>3, <2>1 DEF Joined
  <2> QED
    BY <1>2, <2>1, <2>2, <2>3
<1> QED
  BY <1>1, <1>2, <1>3, LinksStamped DEF Joined, bs

\* Reviving a batch makes its rows live and changes no other row's state.
LEMMA ActsRevived ==
  ASSUME NEW as \in [Act -> ActRow], NEW b \in Batch
  PROVE  /\ ReviveActs(as, b) \in [Act -> ActRow]
         /\ \A a \in Act :
              ReviveActs(as, b)[a].batch = Live <=> as[a].batch \in {Live, b}
  BY NetworkAssumption DEF ReviveActs, ActRow

\* The links a restore leaves live were live or had both ends live again.
LEMMA RevivedTogether ==
  ASSUME NEW as, NEW ls, NEW b \in Batch, Joined(as, ls)
  PROVE  Joined(ReviveActs(as, b), ReviveLinks(ReviveActs(as, b), ls, b))
<1> DEFINE bs == ReviveActs(as, b)
<1>1. as \in [Act -> ActRow] /\ ls \in SUBSET Link
  BY DEF Joined
<1>2. bs \in [Act -> ActRow] /\ \A a \in Act : as[a].batch = Live => bs[a].batch = Live
  BY <1>1, ActsRevived
<1>3. Restorable(bs, ls, b) \subseteq ls
  BY DEF Restorable
<1>4. ReviveLinks(bs, ls, b) \subseteq Link
  BY <1>1, <1>3 DEF ReviveLinks, Link
<1>5. ASSUME NEW l \in ReviveLinks(bs, ls, b), l.batch = Live, ~Overlap
      PROVE  bs[l.from].batch = Live /\ bs[l.to].batch = Live
  <2>1. CASE l \in ls
    <3>1. l.from \in Act /\ l.to \in Act
      BY <1>1, <2>1 DEF Link
    <3> QED
      BY <1>2, <1>5, <2>1, <3>1 DEF Joined
  <2>2. CASE l \notin ls
    <3>1. PICK k \in Restorable(bs, ls, b) : l = [k EXCEPT !.batch = Live]
      BY <2>2 DEF ReviveLinks
    <3>2. k \in Link /\ bs[k.from].batch = Live /\ bs[k.to].batch = Live
      BY <1>1, <3>1 DEF Restorable
    <3>3. l.from = k.from /\ l.to = k.to
      BY <3>1, <3>2 DEF Link
    <3> QED
      BY <3>2, <3>3
  <2> QED
    BY <2>1, <2>2
<1> QED
  BY <1>2, <1>4, <1>5 DEF Joined

-----------------------------------------------------------------------------
(* The invariant.                                                          *)

LEMMA IInvJoined == IInv => Joined(act, links)
  BY DEF IInv, TypeOK, LinksJoinLive, IsLive, InBatch, Joined

\* To keep the invariant, keep rows and links joined, the calls well formed,
\* a deleted plan empty and the sweep guarded.
LEMMA JoinedKeeps ==
  ASSUME Joined(act', links'), plan' \in Batch \cup {Live}, call' \in [Req -> Call],
         CallsTargeted', ~Overlap => DeadPlanIsEmpty', sweep' \in Sweep, SweepGuarded'
  PROVE  IInv'
<1>1. ~Overlap => LinksJoinLive'
  BY DEF Joined, Link, LinksJoinLive, IsLive, InBatch
<1> QED
  BY <1>1 DEF IInv, TypeOK, Joined

LEMMA CallKept ==
  ASSUME IInv, call' = call
  PROVE  call' \in [Req -> Call] /\ CallsTargeted'
  BY DEF IInv, TypeOK, CallsTargeted

LEMMA CallServed ==
  ASSUME IInv, NEW r \in Req, NEW op \in {"delete", "deletePlan", "dissolve", "restore"},
         Serving(r, op)
  PROVE  /\ call' \in [Req -> Call] /\ CallsTargeted'
         /\ op # "deletePlan" => call[r].act \in Act
<1>1. Idle \in Call /\ Idle.op = "idle"
  BY DEF Idle, Call
<1>2. call' \in [Req -> Call] /\ CallsTargeted'
  BY <1>1 DEF IInv, TypeOK, CallsTargeted, Serving
<1> QED
  BY <1>2 DEF IInv, CallsTargeted, Serving

\* No delete holds the lock before or after the step.
LEMMA StaysUnlocked ==
  ASSUME Unlocked, sweep' = sweep
  PROVE  sweep' \in Sweep /\ SweepGuarded'
  BY DEF Unlocked, NoSweep, Sweep, SweepGuarded

\* A step that changes no row, and no link but by leaving some out.
LEMMA LinksLeftOut ==
  ASSUME IInv, plan' = plan, act' = act, links' \subseteq links, sweep' = sweep,
         call' \in [Req -> Call], CallsTargeted'
  PROVE  IInv'
<1>1. Joined(act', links')
  BY IInvJoined DEF Joined
<1>2. SweepGuarded' /\ (~Overlap => DeadPlanIsEmpty')
  BY DEF IInv, SweepGuarded, Unlocked, DeadPlanIsEmpty, IsLive, InBatch
<1> QED
  BY <1>1, <1>2, JoinedKeeps DEF IInv, TypeOK

LEMMA CallWaits ==
  ASSUME IInv, NEW r \in Req, NEW op \in {"delete", "deletePlan", "dissolve", "restore"},
         NEW a \in Act \cup {NoAct}, op # "deletePlan" => a \in Act, Wait(r, op, a)
  PROVE  IInv'
<1>1. call' \in [Req -> Call] /\ CallsTargeted'
  BY DEF IInv, TypeOK, CallsTargeted, Call, Wait
<1> QED
  BY <1>1, LinksLeftOut DEF Wait

\* Deleting in one step: rows change only by a stamp over S, and no row
\* becomes live.
LEMMA SweepKeeps ==
  ASSUME IInv, NEW as, NEW S, NEW b \in Batch, Joined(as, links),
         \A a \in Act : as[a].batch = act[a].batch,
         act' = StampActs(as, S, b), links' = StampLinks(links, S, b), plan' = plan,
         call' \in [Req -> Call], CallsTargeted', Unlocked, sweep' = sweep
  PROVE  IInv'
<1>1. Joined(act', links')
  BY SweptTogether
<1>2. as \in [Act -> ActRow]
  BY DEF Joined
<1>3. \A a \in Act :
        StampActs(as, S, b)[a].batch = Live <=> as[a].batch = Live /\ a \notin S
  BY <1>2, ActsStamped
<1>4. \A a \in Act : act'[a].batch = Live => act[a].batch = Live
  BY <1>3
<1>5. ~Overlap => DeadPlanIsEmpty'
  BY <1>4 DEF IInv, DeadPlanIsEmpty, IsLive, InBatch
<1> QED
  BY <1>1, <1>5, JoinedKeeps, StaysUnlocked DEF IInv, TypeOK

\* Editing: rows change, in a live plan that no delete holds and without
\* leaving the live ones, or anywhere without entering or leaving them.
LEMMA EditKeeps ==
  ASSUME IInv, act' \in [Act -> ActRow], plan' = plan,
         \A a \in Act : act[a].batch = Live => act'[a].batch = Live,
         \/ plan = Live /\ Unlocked
         \/ \A a \in Act : act'[a].batch = act[a].batch,
         links' = links, call' = call, sweep' = sweep
  PROVE  IInv'
<1>1. Joined(act', links')
  BY IInvJoined DEF Joined, Link
<1>2. SweepGuarded'
  BY DEF IInv, SweepGuarded, Unlocked, IsLive, InBatch
<1>3. ~Overlap => DeadPlanIsEmpty'
  BY DEF IInv, DeadPlanIsEmpty, IsLive, InBatch
<1> QED
  BY <1>1, <1>2, <1>3, JoinedKeeps, CallKept DEF IInv, TypeOK

\* Reviving a batch, the plan being live before or after.
LEMMA BatchKeeps ==
  ASSUME IInv, NEW b \in Batch, ReviveBatch(b), plan' = Live,
         call' \in [Req -> Call], CallsTargeted', sweep' \in Sweep, SweepGuarded'
  PROVE  IInv'
<1>1. Joined(act', links')
  BY IInvJoined, RevivedTogether DEF ReviveBatch
<1> QED
  BY <1>1, JoinedKeeps DEF DeadPlanIsEmpty

THEOREM InitIInv == Init => IInv
  BY NetworkAssumption
  DEF Init, IInv, TypeOK, CallsTargeted, LinksJoinLive, DeadPlanIsEmpty, SweepGuarded,
      Unlocked, NoSweep, Sweep, ActRow, Link, Call, Idle, IsLive, InBatch

-----------------------------------------------------------------------------
(* One lemma per operation.                                                *)

LEMMA CreateActivityKeeps ==
  ASSUME IInv, NEW a \in Act, NEW summary \in BOOLEAN, NEW p \in Parents,
         CreateActivity(a, summary, p)
  PROVE  IInv'
<1>1. act' \in [Act -> ActRow] /\ \A c \in Act : act[c].batch = Live => act'[c].batch = Live
  BY NetworkAssumption DEF CreateActivity, IInv, TypeOK, ActRow, Parents
<1> QED
  BY <1>1, EditKeeps DEF CreateActivity

LEMMA UpdateActivityKeeps ==
  ASSUME IInv, NEW a \in Act, NEW summary \in BOOLEAN, NEW p \in Parents,
         UpdateActivity(a, summary, p)
  PROVE  IInv'
<1>1. act' \in [Act -> ActRow] /\ \A c \in Act : act'[c].batch = act[c].batch
  BY DEF UpdateActivity, IInv, TypeOK, ActRow, Parents
<1> QED
  BY <1>1, EditKeeps DEF UpdateActivity

LEMMA RefileKeeps ==
  ASSUME IInv, NEW S \in SUBSET Act, NEW f \in [S -> Parents], Refile(f)
  PROVE  IInv'
<1>1. act' \in [Act -> ActRow] /\ \A c \in Act : act[c].batch = Live => act'[c].batch = Live
  BY DEF Refile, Refiled, IInv, TypeOK, ActRow, Parents
<1> QED
  BY <1>1, EditKeeps DEF Refile

LEMMA CreateLinkKeeps ==
  ASSUME IInv, NEW p \in Act, NEW s \in Act, CreateLink(p, s)
  PROVE  IInv'
<1> DEFINE new == [from |-> p, to |-> s, batch |-> Live]
<1>1. new \in Link /\ new.from = p /\ new.to = s
  BY DEF Link
<1>2. act[p].batch = Live /\ act[s].batch = Live
  BY DEF CreateLink, IsLive, InBatch
<1>3. Joined(act', links')
  BY <1>1, <1>2, IInvJoined DEF Joined, CreateLink
<1>4. plan' \in Batch \cup {Live} /\ (~Overlap => DeadPlanIsEmpty')
  BY DEF CreateLink, IInv, TypeOK, DeadPlanIsEmpty
<1> QED
  BY <1>3, <1>4, CallKept, StaysUnlocked, JoinedKeeps DEF CreateLink

LEMMA RemoveLinkKeeps ==
  ASSUME IInv, NEW l, RemoveLink(l)
  PROVE  IInv'
  BY CallKept, LinksLeftOut DEF RemoveLink

\* A delete begins: the links are stamped over S, which it has yet to sweep.
LEMMA SweepBegins ==
  ASSUME IInv, NEW S \in SUBSET Act, NEW whole \in BOOLEAN, NEW b \in Batch,
         whole => S = Act, links' = StampLinks(links, S, b), plan' = plan, act' = act,
         sweep' = [acts |-> S, plan |-> whole, batch |-> b],
         call' \in [Req -> Call], CallsTargeted'
  PROVE  IInv'
<1>1. /\ links' \subseteq Link
      /\ \A l \in links' : l.batch = Live => l \in links /\ l.from \notin S /\ l.to \notin S
  BY LinksStamped DEF IInv, TypeOK
<1>2. Joined(act', links')
  BY <1>1, IInvJoined DEF Joined
<1>3. sweep' \in Sweep /\ sweep'.acts = S /\ sweep'.plan = whole
  BY DEF Sweep
<1>4. SweepGuarded'
  BY <1>1, <1>3 DEF SweepGuarded, IsLive, InBatch
<1>5. plan' \in Batch \cup {Live} /\ (~Overlap => DeadPlanIsEmpty')
  BY DEF IInv, TypeOK, DeadPlanIsEmpty, IsLive, InBatch
<1> QED
  BY <1>2, <1>3, <1>4, <1>5, JoinedKeeps

LEMMA BeginDeleteKeeps ==
  ASSUME IInv, NEW r \in Req, NEW b \in Batch, NEW versioned \in BOOLEAN,
         BeginDelete(r, b, versioned)
  PROVE  IInv'
<1>1. Subtree(call[r].act) \in SUBSET Act
  BY DEF Subtree, Reach
<1>2. call' \in [Req -> Call] /\ CallsTargeted'
  BY CallServed DEF BeginDelete
<1> QED
  BY <1>1, <1>2, SweepBegins DEF BeginDelete

LEMMA BeginDeletePlanKeeps ==
  ASSUME IInv, NEW r \in Req, NEW b \in Batch, BeginDeletePlan(r, b)
  PROVE  IInv'
<1>1. call' \in [Req -> Call] /\ CallsTargeted'
  BY CallServed DEF BeginDeletePlan
<1> QED
  BY <1>1, SweepBegins DEF BeginDeletePlan

LEMMA SweepActivitiesKeeps ==
  ASSUME IInv, SweepActivities
  PROVE  IInv'
<1>1. sweep \in [acts: SUBSET Act, plan: BOOLEAN, batch: Batch] /\ ~Unlocked
  BY DEF IInv, TypeOK, Sweep, SweepActivities, Unlocked, NoSweep
<1>2. act \in [Act -> ActRow] /\ links \subseteq Link
  BY DEF IInv, TypeOK
<1>3. /\ act' \in [Act -> ActRow]
      /\ \A a \in Act : act'[a].batch = Live <=> act[a].batch = Live /\ a \notin sweep.acts
  BY <1>1, <1>2, ActsStamped DEF SweepActivities
<1>4. Joined(act', links')
  <2>1. ASSUME ~Overlap, NEW l \in links, l.batch = Live
        PROVE  act'[l.from].batch = Live /\ act'[l.to].batch = Live
    <3>1. act[l.from].batch = Live /\ act[l.to].batch = Live
      BY <2>1, IInvJoined DEF Joined
    <3>2. l.from \notin sweep.acts /\ l.to \notin sweep.acts
      BY <1>1, <2>1 DEF IInv, SweepGuarded
    <3>3. l.from \in Act /\ l.to \in Act
      BY <1>2 DEF Link
    <3> QED
      BY <1>3, <3>1, <3>2, <3>3
  <2> QED
    BY <1>2, <1>3, <2>1 DEF Joined, SweepActivities
<1>5. sweep' \in Sweep /\ SweepGuarded'
  <2>1. CASE sweep.plan
    <3>1. sweep' = [sweep EXCEPT !.acts = {}]
      BY <2>1 DEF SweepActivities
    <3>2. sweep' \in Sweep /\ sweep'.acts = {} /\ sweep'.plan
      BY <1>1, <2>1, <3>1 DEF Sweep
    <3>3. ~Overlap => \A a \in Act : act'[a].batch # Live
      BY <1>1, <1>3, <2>1 DEF IInv, SweepGuarded, IsLive, InBatch
    <3> QED
      BY <3>2, <3>3 DEF SweepGuarded, IsLive, InBatch
  <2>2. CASE ~sweep.plan
    BY <2>2 DEF SweepActivities, Sweep, NoSweep, SweepGuarded, Unlocked
  <2> QED
    BY <2>1, <2>2
<1>6. plan' \in Batch \cup {Live} /\ (~Overlap => DeadPlanIsEmpty')
  BY <1>3 DEF SweepActivities, IInv, TypeOK, DeadPlanIsEmpty, IsLive, InBatch
<1> QED
  BY <1>4, <1>5, <1>6, CallKept, JoinedKeeps DEF SweepActivities

LEMMA SweepPlanKeeps ==
  ASSUME IInv, SweepPlan
  PROVE  IInv'
<1>1. sweep.batch \in Batch /\ ~Unlocked
  BY DEF IInv, TypeOK, Sweep, SweepPlan, Unlocked, NoSweep
<1>2. Joined(act', links')
  BY IInvJoined DEF Joined, SweepPlan
<1>3. ~Overlap => DeadPlanIsEmpty'
  BY <1>1 DEF SweepPlan, IInv, SweepGuarded, DeadPlanIsEmpty, IsLive, InBatch
<1>4. plan' \in Batch \cup {Live} /\ sweep' \in Sweep /\ SweepGuarded'
  BY <1>1 DEF SweepPlan, IInv, TypeOK, Sweep, NoSweep, SweepGuarded, Unlocked
<1> QED
  BY <1>2, <1>3, <1>4, CallKept, JoinedKeeps DEF SweepPlan

LEMMA DissolveKeeps ==
  ASSUME IInv, NEW r \in Req, NEW b \in Batch, Dissolve(r, b)
  PROVE  IInv'
<1> DEFINE a == call[r].act
<1>1. call' \in [Req -> Call] /\ CallsTargeted' /\ a \in Act
  BY CallServed DEF Dissolve
<1>2. Promoted(a) \in [Act -> ActRow] /\ \A c \in Act : Promoted(a)[c].batch = act[c].batch
  BY <1>1 DEF Promoted, IInv, TypeOK, ActRow
<1>3. Joined(Promoted(a), links)
  BY <1>2, IInvJoined DEF Joined, Link
<1> QED
  BY <1>1, <1>2, <1>3, SweepKeeps DEF Dissolve

LEMMA BulkDeleteKeeps ==
  ASSUME IInv, NEW S, NEW b \in Batch, BulkDelete(S, b)
  PROVE  IInv'
  BY IInvJoined, CallKept, SweepKeeps DEF BulkDelete

LEMMA RestoreKeeps ==
  ASSUME IInv, NEW a \in Act, CanRestore(a), ReviveBatch(act[a].batch), plan' = plan,
         call' \in [Req -> Call], CallsTargeted', Unlocked, sweep' = sweep
  PROVE  IInv'
  BY StaysUnlocked, BatchKeeps DEF CanRestore, IsDead

LEMMA RestorePlanKeeps ==
  ASSUME IInv, RestorePlan
  PROVE  IInv'
<1>1. plan \in Batch /\ sweep' \in Sweep
  BY DEF RestorePlan, IInv, TypeOK
<1>2. ~Overlap => Unlocked
  BY DEF RestorePlan, IInv, SweepGuarded
<1>3. SweepGuarded'
  BY <1>2 DEF RestorePlan, SweepGuarded, Unlocked
<1> QED
  BY <1>1, <1>3, CallKept, BatchKeeps DEF RestorePlan

\* Every step of the network keeps the invariant.
THEOREM StepIInv == IInv /\ [Next]_vars => IInv'
<1> SUFFICES ASSUME IInv, [Next]_vars PROVE IInv'
  OBVIOUS
<1>1. CASE EditActivity
  <2>1. ASSUME NEW a \in Act, NEW summary \in BOOLEAN, NEW p \in Parents,
               CreateActivity(a, summary, p) \/ UpdateActivity(a, summary, p)
        PROVE  IInv'
    BY <2>1, CreateActivityKeeps, UpdateActivityKeeps
  <2>2. ASSUME NEW S \in Rows, NEW f \in [S -> Parents], Refile(f)
        PROVE  IInv'
    <3>1. S \in SUBSET Act
      BY DEF Rows
    <3> QED
      BY <2>2, <3>1, RefileKeeps
  <2> QED
    BY <1>1, <2>1, <2>2 DEF EditActivity
<1>2. CASE EditLink
  BY <1>2, CreateLinkKeeps, RemoveLinkKeeps DEF EditLink
<1>3. CASE Ask
  <2>1. ASSUME NEW r \in Req, AskDeletePlan(r)
        PROVE  IInv'
    BY <2>1, CallWaits DEF AskDeletePlan
  <2>2. ASSUME NEW r \in Req, NEW a \in Act,
               AskDelete(r, a) \/ AskDissolve(r, a) \/ AskRestoreBatch(r, a)
        PROVE  IInv'
    BY <2>2, CallWaits DEF AskDelete, AskDissolve, AskRestoreBatch
  <2> QED
    BY <1>3, <2>1, <2>2 DEF Ask
<1>4. CASE Delete
  <2>1. ASSUME NEW r \in Req, DeleteRefused(r) \/ DissolveRefused(r)
        PROVE  IInv'
    BY <2>1, CallServed, LinksLeftOut DEF DeleteRefused, DissolveRefused
  <2> QED
    BY <1>4, <2>1, BeginDeleteKeeps, BeginDeletePlanKeeps, SweepActivitiesKeeps,
       SweepPlanKeeps, DissolveKeeps, BulkDeleteKeeps DEF Delete
<1>5. CASE Revive
  <2>1. ASSUME NEW a \in Act, RestoreActivity(a)
        PROVE  IInv'
    BY <2>1, CallKept, RestoreKeeps DEF RestoreActivity
  <2>2. ASSUME NEW r \in Req, RestoreDeleteBatch(r)
        PROVE  IInv'
    BY <2>2, CallServed, RestoreKeeps DEF RestoreDeleteBatch
  <2>3. ASSUME NEW r \in Req, RestoreRefused(r)
        PROVE  IInv'
    BY <2>3, CallServed, LinksLeftOut DEF RestoreRefused
  <2> QED
    BY <1>5, <2>1, <2>2, <2>3, RestorePlanKeeps DEF Revive
<1>6. CASE UNCHANGED vars
  BY <1>6, CallKept, LinksLeftOut DEF vars
<1> QED
  BY <1>1, <1>2, <1>3, <1>4, <1>5, <1>6 DEF Next

THEOREM Invariance == Spec => []IInv
  BY InitIInv, StepIInv, PTL DEF Spec

\* Every variable keeps its type.
THEOREM TypeCorrect == Spec => []TypeOK
<1>1. IInv => TypeOK
  BY DEF IInv
<1> QED
  BY <1>1, Invariance, PTL

\* If no plan is restored inside a delete of it, no sweep and no restore ever
\* leaves a live dependency on a deleted activity.
THEOREM LiveLinks ==
  ASSUME ~Overlap
  PROVE  Spec => []LinksJoinLive
<1>1. IInv => LinksJoinLive
  BY DEF IInv
<1> QED
  BY <1>1, Invariance, PTL

\* Nothing is created, revived or left behind in a deleted plan, with the same
\* exception.
THEOREM EmptyDeadPlan ==
  ASSUME ~Overlap
  PROVE  Spec => []DeadPlanIsEmpty
<1>1. IInv => DeadPlanIsEmpty
  BY DEF IInv
<1> QED
  BY <1>1, Invariance, PTL

-----------------------------------------------------------------------------
(* The logic stays acyclic under every edit and delete.                    *)

\* A step after which every live link was already live closes no cycle.
LEMMA NoNewLink ==
  ASSUME \A l \in links' : l.batch = Live => l \in links, Acyclic(Act, Logic)
  PROVE  Acyclic(Act, Logic')
<1>1. Logic' \subseteq Logic
  BY DEF Logic
<1> QED
  BY <1>1, FewerEdges

LEMMA SweepAddsNoLink ==
  ASSUME IInv, NEW S, NEW b \in Batch, links' = StampLinks(links, S, b)
  PROVE  \A l \in links' : l.batch = Live => l \in links
  BY LinksStamped DEF IInv, TypeOK

LEMMA CreateLinkAcyclic ==
  ASSUME IInv, NEW p \in Act, NEW s \in Act, CreateLink(p, s), Acyclic(Act, Logic)
  PROVE  Acyclic(Act, Logic')
<1> DEFINE new == [from |-> p, to |-> s, batch |-> Live]
<1>1. new.from = p /\ new.to = s
  OBVIOUS
<1>2. Logic' \subseteq Logic \cup {<<p, s>>}
  BY <1>1 DEF CreateLink, Logic
<1>3. Logic \subseteq Act \X Act /\ IsFiniteSet(Act)
  BY NetworkAssumption DEF IInv, TypeOK, Link, Logic
<1>4. p \notin Reach(Act, Logic, s) /\ p # s
  <2>1. p \notin Search(Act, Logic, s) /\ p # s
    BY DEF CreateLink, WouldCreateCycle
  <2> HIDE DEF new
  <2> QED BY <1>3, <2>1, SearchIsReach
<1>5. Acyclic(Act, Logic \cup {<<p, s>>})
  BY <1>4, AddedEdge
<1> QED
  BY <1>2, <1>5, FewerEdges

\* A restored activity is one the step revived.
LEMMA RestoreRevives ==
  ASSUME IInv, NEW a \in Act, IsDead(a), act' = ReviveActs(act, act[a].batch)
  PROVE  Revived # {}
  BY ActsRevived DEF Revived, IsDead, IInv, TypeOK

\* A plan restored without activities has no dependency to revive.
LEMMA PlanRestoredAcyclic ==
  ASSUME IInv, ~Overlap, RestorePlan, Revived = {}
  PROVE  \A l \in links' : l.batch = Live => l \in links
<1>1. plan \in Batch /\ act \in [Act -> ActRow] /\ links \subseteq Link
  BY DEF RestorePlan, IInv, TypeOK
<1>2. \A a \in Act : ReviveActs(act, plan)[a].batch = Live <=> act[a].batch \in {Live, plan}
  BY <1>1, ActsRevived
<1>3. act' = ReviveActs(act, plan)
  BY DEF RestorePlan, ReviveBatch
<1>4. \A a \in Act : act[a].batch # Live
  BY DEF IInv, DeadPlanIsEmpty, IsLive, InBatch, RestorePlan
<1>5. \A a \in Act : act[a].batch # plan
  BY <1>1, <1>2, <1>3 DEF Revived, IsDead
<1>6. \A a \in Act : ReviveActs(act, plan)[a].batch # Live
  BY <1>2, <1>4, <1>5
<1>7. Restorable(ReviveActs(act, plan), links, plan) = {}
  BY <1>1, <1>6 DEF Restorable, Link
<1>8. links' = ReviveLinks(ReviveActs(act, plan), links, plan)
  BY DEF RestorePlan, ReviveBatch
<1> QED
  BY <1>7, <1>8 DEF ReviveLinks

LEMMA StepAcyclic ==
  ASSUME IInv, ~Overlap, Next, Acyclic(Act, Logic), Revived = {}
  PROVE  Acyclic(Act, Logic')
<1>1. CASE EditActivity
  BY <1>1, NoNewLink DEF EditActivity, CreateActivity, UpdateActivity, Refile
<1>2. CASE EditLink
  <2>1. ASSUME NEW l \in links, RemoveLink(l)
        PROVE  Acyclic(Act, Logic')
    BY <2>1, NoNewLink DEF RemoveLink
  <2> QED
    BY <1>2, <2>1, CreateLinkAcyclic DEF EditLink
<1>3. CASE Ask
  BY <1>3, NoNewLink DEF Ask, AskDelete, AskDeletePlan, AskDissolve, AskRestoreBatch, Wait
<1>4. CASE Delete
  <2>1. ASSUME NEW S, NEW b \in Batch, links' = StampLinks(links, S, b)
        PROVE  Acyclic(Act, Logic')
    BY <2>1, SweepAddsNoLink, NoNewLink
  <2>2. ASSUME NEW r \in Req, DeleteRefused(r) \/ DissolveRefused(r)
        PROVE  Acyclic(Act, Logic')
    BY <2>2, NoNewLink DEF DeleteRefused, DissolveRefused
  <2> QED
    BY <1>4, <2>1, <2>2, NoNewLink
    DEF Delete, BeginDelete, BeginDeletePlan, SweepActivities, SweepPlan, Dissolve, BulkDelete
<1>5. CASE Revive
  <2>1. ASSUME NEW a \in Act, RestoreActivity(a)
        PROVE  FALSE
    BY <2>1, RestoreRevives DEF RestoreActivity, CanRestore, ReviveBatch
  <2>2. ASSUME NEW r \in Req, RestoreDeleteBatch(r)
        PROVE  FALSE
    <3>1. call[r].act \in Act
      BY <2>2, CallServed DEF RestoreDeleteBatch
    <3> QED
      BY <2>2, <3>1, RestoreRevives DEF RestoreDeleteBatch, CanRestore, ReviveBatch
  <2>3. ASSUME NEW r \in Req, RestoreRefused(r)
        PROVE  Acyclic(Act, Logic')
    BY <2>3, NoNewLink DEF RestoreRefused
  <2>4. CASE RestorePlan
    BY <2>4, PlanRestoredAcyclic, NoNewLink
  <2> QED
    BY <1>5, <2>1, <2>2, <2>3, <2>4 DEF Revive
<1> QED
  BY <1>1, <1>2, <1>3, <1>4, <1>5 DEF Next

\* Whatever the order of creates, edits and deletes, and whoever they race,
\* the cycle check under the plan's lock keeps the logic acyclic: only a step
\* that revives activities can leave a cycle that was not there.
THEOREM EditsAcyclic ==
  ASSUME ~Overlap
  PROVE  Spec => EditsKeepLogicAcyclic
<1>1. IInv /\ [Next]_vars =>
        [~Acyclic(Act, Logic') => ~Acyclic(Act, Logic) \/ Revived # {}]_vars
  BY StepAcyclic
<1> QED
  BY <1>1, Invariance, PTL DEF Spec, EditsKeepLogicAcyclic

-----------------------------------------------------------------------------
(* A delete undone at once.                                                *)

LEMMA ActsRoundTrip ==
  ASSUME IInv, NEW S, NEW b \in Batch, Fresh(b)
  PROVE  ReviveActs(StampActs(act, S, b), b) = act
<1>1. act \in [Act -> ActRow]
  BY DEF IInv, TypeOK
<1>2. ASSUME NEW a \in Act
      PROVE  ReviveActs(StampActs(act, S, b), b)[a] = act[a]
  BY <1>1 DEF ReviveActs, StampActs, Fresh, ActRow
<1>3. ReviveActs(StampActs(act, S, b), b) = [a \in Act |-> ReviveActs(StampActs(act, S, b), b)[a]]
  BY DEF ReviveActs
<1> QED
  BY <1>1, <1>2, <1>3

\* Of an unused batch, the links that a stamp gave it are those to revive.
LEMMA LinksRoundTrip ==
  ASSUME IInv, ~Overlap, NEW S, NEW b \in Batch, Fresh(b)
  PROVE  LET ls == StampLinks(links, S, b)
         IN  ReviveLinks(act, ls, b) = links /\ NoCollision(act, ls, b)
<1> DEFINE ls == StampLinks(links, S, b)
           gone == {l \in links : l.batch = Live /\ (l.from \in S \/ l.to \in S)}
           dead(l) == [l EXCEPT !.batch = b]
           back(l) == [l EXCEPT !.batch = Live]
<1>1. links \subseteq Link /\ \A l \in links : l.batch # b
  BY DEF IInv, TypeOK, Fresh
<1>2. ls = (links \ gone) \cup {dead(l) : l \in gone}
  BY DEF StampLinks
<1>3. \A l \in gone : /\ dead(l) \in Link /\ dead(l).batch = b
                      /\ dead(l).from = l.from /\ dead(l).to = l.to
                      /\ back(dead(l)) = l
  BY <1>1 DEF Link
<1>4. \A l \in gone : act[l.from].batch = Live /\ act[l.to].batch = Live
  BY DEF IInv, LinksJoinLive, IsLive, InBatch
<1>5. Restorable(act, ls, b) = {dead(l) : l \in gone}
  <2> HIDE DEF dead, back, ls, gone
  <2>1. \A k \in ls : k.batch = b <=> k \in {dead(l) : l \in gone}
    BY <1>1, <1>2, <1>3
  <2>2. \A k \in {dead(l) : l \in gone} :
          k \in ls /\ act[k.from].batch = Live /\ act[k.to].batch = Live
    BY <1>2, <1>3, <1>4
  <2> QED
    BY <2>1, <2>2 DEF Restorable
<1>6. {back(l) : l \in Restorable(act, ls, b)} = gone
  <2> HIDE DEF dead, back, ls, gone
  <2> QED
    BY <1>3, <1>5
<1>7. ls \ Restorable(act, ls, b) = links \ gone
  <2> HIDE DEF dead, back, ls, gone
  <2>1. \A k \in {dead(l) : l \in gone} : k \notin links
    BY <1>1, <1>3
  <2> QED
    BY <1>2, <1>5, <2>1
<1>8. ReviveLinks(act, ls, b) = links
  BY <1>6, <1>7 DEF ReviveLinks
<1>9. NoCollision(act, ls, b)
  <2> SUFFICES ASSUME NEW l \in gone PROVE back(dead(l)) \notin ls
    BY <1>5 DEF NoCollision
  <2>1. l \notin {dead(k) : k \in gone}
    BY <1>1, <1>3
  <2> QED
    BY <1>2, <1>3, <2>1
<1> QED
  BY <1>8, <1>9

\* Deleting a live activity with its subtree and restoring the batch gives the
\* rows, the tree and the logic back as they were, for every reachable network.
THEOREM RoundTrip ==
  ASSUME ~Overlap
  PROVE  Spec => []DeleteThenRestoreIsIdentity
<1>1. IInv => DeleteThenRestoreIsIdentity
  BY ActsRoundTrip, LinksRoundTrip DEF DeleteThenRestoreIsIdentity
<1> QED
  BY <1>1, Invariance, PTL

-----------------------------------------------------------------------------
(* The tree stays acyclic under every edit and delete.                     *)

\* Where what is live was live, and filed where it is, no cycle is closed.
LEMMA FewerAbove ==
  ASSUME NEW as, Acyclic(Act, Above(act)),
         \A a \in Act : as[a].batch = Live => act[a].batch = Live /\ as[a].parent = act[a].parent
  PROVE  Acyclic(Act, Above(as))
<1>1. Above(as) \subseteq Above(act)
  BY DEF Above, Edges
<1> QED
  BY <1>1, FewerEdges

\* Filing one activity under a valid parent closes no cycle.
LEMMA FiledAcyclic ==
  ASSUME NEW a \in Act, NEW p \in Act \cup {NoAct}, NEW as, Acyclic(Act, Above(act)),
         p = NoAct \/ ValidParent(a, p), as[a].parent = p,
         \A c \in Act \ {a} : as[c] = act[c]
  PROVE  Acyclic(Act, Above(as))
<1>1. CASE p = NoAct
  <2>1. ASSUME NEW n \in Act, NEW m \in Act, as[n].batch = Live, as[n].parent = m
        PROVE  act[n].batch = Live /\ act[n].parent = m
    <3>1. n # a
      BY <1>1, <2>1, NetworkAssumption
    <3> QED
      BY <2>1, <3>1
  <2>2. Above(as) \subseteq Above(act)
    <3> SUFFICES ASSUME NEW e \in Edges(Act), as[e[1]].batch = Live, as[e[1]].parent = e[2]
                 PROVE  act[e[1]].batch = Live /\ act[e[1]].parent = e[2]
      BY DEF Above
    <3>1. e[1] \in Act /\ e[2] \in Act
      BY DEF Edges
    <3> QED BY <2>1, <3>1
  <2> QED
    BY <2>2, FewerEdges
<1>2. CASE p # NoAct
  <2>1. p \in Act /\ a \notin Reach(Act, Above(act), p)
    BY <1>2 DEF ValidParent
  <2>2. Acyclic(Act, Above(act) \cup {<<a, p>>})
    BY <2>1, AddedEdge
  <2>3. ASSUME NEW n \in Act, NEW m \in Act, as[n].batch = Live, as[n].parent = m
        PROVE  <<n, m>> \in Above(act) \cup {<<a, p>>}
    <3>1. CASE n = a
      BY <2>3, <3>1
    <3>2. CASE n # a
      BY <2>3, <3>2 DEF Above, Edges
    <3> QED
      BY <3>1, <3>2
  <2>4. ASSUME NEW e \in Above(as)
        PROVE  e \in Above(act) \cup {<<a, p>>}
    <3>1. e \in Act \X Act /\ as[e[1]].batch = Live /\ as[e[1]].parent = e[2]
      BY <2>4 DEF Above, Edges
    <3>2. PICK n \in Act, m \in Act : e = <<n, m>>
      BY <3>1
    <3>3. e[1] = n /\ e[2] = m
      BY <3>2
    <3>4. as[n].batch = Live /\ as[n].parent = m
      BY <3>1, <3>3
    <3> QED
      BY <2>3, <3>2, <3>4
  <2> QED
    BY <2>2, <2>4, FewerEdges
<1> QED
  BY <1>1, <1>2

LEMMA UpdateAcyclic ==
  ASSUME IInv, NEW a \in Act, NEW summary \in BOOLEAN, NEW p \in Act \cup {NoAct},
         UpdateActivity(a, summary, p), Acyclic(Act, Above(act))
  PROVE  Acyclic(Act, Above(act'))
<1>1. act \in [Act -> ActRow] /\ act' = [act EXCEPT ![a].summary = summary, ![a].parent = p]
  BY DEF IInv, TypeOK, UpdateActivity
<1>2. /\ act'[a].parent = p /\ act'[a].batch = act[a].batch
      /\ \A c \in Act \ {a} : act'[c] = act[c]
  BY <1>1 DEF ActRow
<1>3. CASE p = act[a].parent
  <2>1. \A c \in Act : act'[c].batch = act[c].batch /\ act'[c].parent = act[c].parent
    BY <1>2, <1>3
  <2> QED
    BY <2>1, FewerAbove
<1>4. CASE p # act[a].parent
  BY <1>2, <1>4, FiledAcyclic DEF UpdateActivity
<1> QED
  BY <1>3, <1>4

\* A dissolved summary is taken out of the tree between its children and its
\* parent.
LEMMA DissolveAcyclic ==
  ASSUME IInv, NEW r \in Req, NEW b \in Batch, Dissolve(r, b), Acyclic(Act, Above(act))
  PROVE  Acyclic(Act, Above(act'))
<1>1. PICK a \in Act : a = call[r].act
  BY CallServed DEF Dissolve
<1>2. /\ act \in [Act -> ActRow] /\ act[a].batch = Live /\ b # Live
      /\ act' = StampActs(Promoted(a), {a}, b)
  BY <1>1, NetworkAssumption DEF IInv, TypeOK, Dissolve, IsLive, InBatch
<1>3. \A c \in Act : /\ act'[c].batch = Live => c # a /\ act[c].batch = Live
                     /\ act[c].batch = Live /\ act[c].parent = a /\ c # a =>
                          act'[c].parent = act[a].parent
                     /\ act[c].parent # a => act'[c].parent = act[c].parent
  BY <1>2 DEF StampActs, Promoted, IsLive, InBatch, ActRow
<1>4. ASSUME NEW n \in Act, NEW m \in Act, act'[n].batch = Live, act'[n].parent = m
      PROVE  /\ n # a
             /\ \/ <<n, m>> \in Above(act)
                \/ <<n, a>> \in Above(act) /\ <<a, m>> \in Above(act)
  BY <1>2, <1>3, <1>4 DEF Above, Edges
<1>5. \A n, m \in Act : <<n, m>> \in Above(act') =>
        /\ n # a
        /\ \/ <<n, m>> \in Above(act)
           \/ <<n, a>> \in Above(act) /\ <<a, m>> \in Above(act)
  BY <1>4 DEF Above, Edges
<1> QED
  BY <1>5, NodeTakenOut

\* A restore that revives no activity changes none.
LEMMA NoneRevived ==
  ASSUME IInv, Revive, Revived = {}
  PROVE  act' = act
<1>1. ASSUME NEW a \in Act, RestoreActivity(a)
      PROVE  FALSE
  BY <1>1, RestoreRevives DEF RestoreActivity, CanRestore, ReviveBatch
<1>2. ASSUME NEW r \in Req, RestoreDeleteBatch(r)
      PROVE  FALSE
  <2>1. call[r].act \in Act
    BY <1>2, CallServed DEF RestoreDeleteBatch
  <2> QED
    BY <1>2, <2>1, RestoreRevives DEF RestoreDeleteBatch, CanRestore, ReviveBatch
<1>3. CASE RestorePlan
  <2>1. /\ act \in [Act -> ActRow] /\ plan \in Batch
        /\ act' = [a \in Act |-> IF act[a].batch = plan THEN [act[a] EXCEPT !.batch = Live]
                                 ELSE act[a]]
    BY <1>3 DEF IInv, TypeOK, RestorePlan, ReviveBatch, ReviveActs
  <2>2. \A a \in Act : act[a].batch # plan
    BY <2>1 DEF Revived, IsDead, ActRow
  <2> QED
    BY <2>1, <2>2
<1> QED
  BY <1>1, <1>2, <1>3 DEF Revive, RestoreRefused

LEMMA StampsAcyclic ==
  ASSUME IInv, NEW S, NEW b \in Batch, act' = StampActs(act, S, b), Acyclic(Act, Above(act))
  PROVE  Acyclic(Act, Above(act'))
<1>1. \A a \in Act : act'[a].batch = Live => act'[a] = act[a]
  BY NetworkAssumption DEF IInv, TypeOK, StampActs, ActRow
<1> QED
  BY <1>1, FewerAbove

LEMMA StepTreeAcyclic ==
  ASSUME IInv, Next, Acyclic(Act, Above(act)), Revived = {}
  PROVE  Acyclic(Act, Above(act'))
<1>1. CASE EditActivity
  <2>1. ASSUME NEW a \in Act, NEW summary \in BOOLEAN, NEW p \in Parents,
               CreateActivity(a, summary, p)
        PROVE  Acyclic(Act, Above(act'))
    <3>1. act'[a].parent = p /\ \A c \in Act \ {a} : act'[c] = act[c]
      BY <2>1 DEF IInv, TypeOK, CreateActivity
    <3> QED
      BY <2>1, <3>1, FiledAcyclic DEF CreateActivity, Parents
  <2>2. ASSUME NEW a \in Act, NEW summary \in BOOLEAN, NEW p \in Parents,
               UpdateActivity(a, summary, p)
        PROVE  Acyclic(Act, Above(act'))
    BY <2>2, UpdateAcyclic DEF Parents
  <2>3. ASSUME NEW f, Refile(f)
        PROVE  Acyclic(Act, Above(act'))
    BY <2>3 DEF Refile
  <2> QED
    BY <1>1, <2>1, <2>2, <2>3 DEF EditActivity
<1>2. CASE EditLink \/ Ask
  BY <1>2 DEF EditLink, CreateLink, RemoveLink, Ask, AskDelete, AskDeletePlan, AskDissolve,
              AskRestoreBatch, Wait
<1>3. CASE Delete
  <2>1. CASE SweepActivities
    <3>1. sweep.batch \in Batch
      BY <2>1 DEF IInv, TypeOK, Sweep, NoSweep, SweepActivities
    <3> QED
      BY <2>1, <3>1, StampsAcyclic DEF SweepActivities
  <2>2. ASSUME NEW S, NEW b \in Batch, BulkDelete(S, b)
        PROVE  Acyclic(Act, Above(act'))
    BY <2>2, StampsAcyclic DEF BulkDelete
  <2> QED
    BY <1>3, <2>1, <2>2, DissolveAcyclic
    DEF Delete, BeginDelete, BeginDeletePlan, SweepPlan, DeleteRefused, DissolveRefused
<1>4. CASE Revive
  BY <1>4, NoneRevived
<1> QED
  BY <1>1, <1>2, <1>3, <1>4 DEF Next

\* No edit or delete closes a cycle in the parent tree, whatever runs beside
\* it: the walk up from a new parent, and the check of a whole re-filing, are
\* made in the transaction that writes; only a step that revives activities
\* can leave a cycle that was not there.
THEOREM TreeEditsAcyclic == Spec => EditsKeepTreeAcyclic
<1>1. IInv /\ [Next]_vars =>
        [~Acyclic(Act, Above(act')) => ~Acyclic(Act, Above(act)) \/ Revived # {}]_vars
  BY StepTreeAcyclic
<1> QED
  BY <1>1, Invariance, PTL DEF Spec, EditsKeepTreeAcyclic

-----------------------------------------------------------------------------
(* Edits and deletes keep the filing.                                      *)

\* What a delete is about to stamp has nothing live filed below it that it
\* will not stamp too: nothing is filed there while it holds the lock.
SweepClosed ==
  ~Overlap => \A a \in Act : IsLive(a) /\ act[a].parent \in sweep.acts => a \in sweep.acts

LEMMA SubtreeClosed ==
  ASSUME NEW a \in Act, NEW c \in Act, IsLive(c), act[c].parent \in Subtree(a)
  PROVE  c \in Subtree(a)
<1>1. act[c].parent \in Act
  BY DEF Subtree, Reach
<1>2. <<act[c].parent, c>> \in Below
  BY <1>1 DEF Below, Edges, IsLive, InBatch
<1> QED
  BY <1>2 DEF Subtree, Reach, Closed

LEMMA SweepClosedKeeps ==
  ASSUME IInv, SweepClosed, [Next]_vars
  PROVE  SweepClosed'
<1> SUFFICES ASSUME ~Overlap
             PROVE  \A a \in Act : act'[a].batch = Live /\ act'[a].parent \in sweep'.acts =>
                      a \in sweep'.acts
  BY DEF SweepClosed, IsLive, InBatch
<1>1. \A a \in Act : act[a].batch = Live /\ act[a].parent \in sweep.acts => a \in sweep.acts
  BY DEF SweepClosed, IsLive, InBatch
<1>2. NoSweep.acts = {} /\ (Unlocked => sweep.acts = {}) /\ sweep.acts \subseteq Act
  BY DEF NoSweep, Unlocked, IInv, TypeOK, Sweep
<1>3. CASE Unlocked /\ sweep' = sweep
  BY <1>2, <1>3
<1>4. CASE act' = act /\ sweep' = sweep
  BY <1>1, <1>4
<1>5. ASSUME NEW a \in Act, NEW summary \in BOOLEAN, NEW p \in Parents,
             UpdateActivity(a, summary, p), ~Unlocked
      PROVE  \A c \in Act : act'[c].batch = Live /\ act'[c].parent \in sweep'.acts =>
               c \in sweep'.acts
  <2>1. act'[a].parent = NoAct /\ sweep' = sweep /\ \A c \in Act \ {a} : act'[c] = act[c]
    BY <1>5 DEF IInv, TypeOK, ActRow, UpdateActivity, TopLevelOnly
  <2> QED
    BY <1>1, <1>2, <2>1, NetworkAssumption
<1>6. ASSUME NEW r \in Req, NEW b \in Batch, NEW versioned \in BOOLEAN,
             BeginDelete(r, b, versioned)
      PROVE  \A c \in Act : act'[c].batch = Live /\ act'[c].parent \in sweep'.acts =>
               c \in sweep'.acts
  <2>1. PICK a \in Act : a = call[r].act
    BY <1>6, CallServed DEF BeginDelete
  <2>2. sweep'.acts = Subtree(a) /\ act' = act
    BY <1>6, <2>1 DEF BeginDelete
  <2> QED
    BY <2>2, SubtreeClosed DEF IsLive, InBatch
<1>7. CASE SweepActivities \/ SweepPlan
  <2>1. sweep'.acts = {}
    <3>1. sweep \in [acts: SUBSET Act, plan: BOOLEAN, batch: Batch] \/ sweep = NoSweep
      BY DEF IInv, TypeOK, Sweep
    <3> QED
      BY <1>2, <1>7, <3>1 DEF SweepActivities, SweepPlan, NoSweep
  <2> QED
    BY <2>1
<1>8. CASE EditActivity
  <2>1. ASSUME NEW a \in Act, NEW summary \in BOOLEAN, NEW p \in Parents,
               CreateActivity(a, summary, p)
        PROVE  Unlocked /\ sweep' = sweep
    BY <2>1 DEF CreateActivity
  <2>2. ASSUME NEW a \in Act, NEW summary \in BOOLEAN, NEW p \in Parents,
               UpdateActivity(a, summary, p)
        PROVE  sweep' = sweep
    BY <2>2 DEF UpdateActivity
  <2>3. ASSUME NEW f, Refile(f) PROVE Unlocked /\ sweep' = sweep
    BY <2>3 DEF Refile
  <2> QED
    BY <1>3, <1>5, <1>8, <2>1, <2>2, <2>3 DEF EditActivity
<1>9. CASE EditLink \/ Ask \/ UNCHANGED vars
  BY <1>4, <1>9 DEF EditLink, CreateLink, RemoveLink, Ask, AskDelete, AskDeletePlan,
                    AskDissolve, AskRestoreBatch, Wait, vars
<1>10. CASE Delete
  <2>1. ASSUME NEW r \in Req, NEW b \in Batch, BeginDeletePlan(r, b)
        PROVE  sweep'.acts = Act
    BY <2>1 DEF BeginDeletePlan
  <2> QED
    BY <1>3, <1>6, <1>7, <1>10, <2>1 DEF Delete, Dissolve, BulkDelete, DeleteRefused, DissolveRefused
<1>11. CASE Revive
  BY <1>3, <1>11 DEF Revive, RestoreActivity, RestoreDeleteBatch, RestoreRefused, RestorePlan
<1> QED
  BY <1>8, <1>9, <1>10, <1>11 DEF Next

\* Stamping rows with all that is filed below them breaks neither rule.
LEMMA StampsKeepFiling ==
  ASSUME IInv, NEW S, NEW b \in Batch, act' = StampActs(act, S, b),
         \A c \in Act : act[c].batch = Live /\ act[c].parent \in S => c \in S,
         WellFiled(act)
  PROVE  WellFiled(act')
<1>1. \A a \in Act : /\ act'[a].batch = Live <=> act[a].batch = Live /\ a \notin S
                     /\ act'[a].summary = act[a].summary /\ act'[a].parent = act[a].parent
  BY NetworkAssumption DEF IInv, TypeOK, StampActs, ActRow
<1> QED
  BY <1>1 DEF WellFiled

LEMMA CreateKeepsFiling ==
  ASSUME IInv, NEW a \in Act, NEW summary \in BOOLEAN, NEW p \in Parents,
         CreateActivity(a, summary, p), WellFiled(act)
  PROVE  WellFiled(act')
<1>1. /\ act'[a].parent = p /\ \A c \in Act \ {a} : act'[c] = act[c]
      /\ act[a].batch # Live
      /\ p \in Act => p # a /\ act[p].batch = Live /\ act[p].summary
  BY NetworkAssumption DEF IInv, TypeOK, CreateActivity, ValidParent, IsLive, InBatch
<1> QED
  BY <1>1 DEF WellFiled

LEMMA UpdateKeepsFiling ==
  ASSUME IInv, NEW a \in Act, NEW summary \in BOOLEAN, NEW p \in Parents,
         UpdateActivity(a, summary, p), WellFiled(act)
  PROVE  WellFiled(act')
<1>1. /\ act'[a].parent = p /\ act'[a].summary = summary /\ act'[a].batch = act[a].batch
      /\ act[a].batch = Live /\ \A c \in Act \ {a} : act'[c] = act[c]
  BY DEF IInv, TypeOK, ActRow, UpdateActivity, IsLive, InBatch
<1>2. \A c \in Act : act[c].batch = Live /\ act[c].parent = a => act[a].summary /\ summary
  BY <1>1 DEF WellFiled, UpdateActivity, Children, IsLive, InBatch
<1>3. p \in Act => act[p].batch = Live /\ act[p].summary
  BY <1>1, NetworkAssumption DEF WellFiled, UpdateActivity, ValidParent, IsLive, InBatch
<1>4. p = a => summary
  BY <1>1, <1>2, NetworkAssumption DEF UpdateActivity, ValidParent
<1> QED
  BY <1>1, <1>2, <1>3, <1>4 DEF WellFiled

LEMMA RefileKeepsFiling ==
  ASSUME IInv, NEW S \in SUBSET Act, NEW f \in [S -> Parents], Refile(f), WellFiled(act)
  PROVE  WellFiled(act')
<1>1. \A a \in Act : /\ act'[a].batch = act[a].batch /\ act'[a].summary = act[a].summary
                     /\ act'[a].parent = IF a \in S THEN f[a] ELSE act[a].parent
  BY DEF IInv, TypeOK, ActRow, Refile, Refiled
<1>2. \A a \in S : f[a] \in Act => act[f[a]].batch = Live /\ act[f[a]].summary
  BY NetworkAssumption DEF Refile, IsLive, InBatch
<1> QED
  BY <1>1, <1>2 DEF WellFiled

LEMMA DissolveKeepsFiling ==
  ASSUME IInv, NEW r \in Req, NEW b \in Batch, Dissolve(r, b), WellFiled(act)
  PROVE  WellFiled(act')
<1>1. PICK a \in Act : a = call[r].act
  BY CallServed DEF Dissolve
<1>2. /\ act \in [Act -> ActRow] /\ act[a].batch = Live /\ b # Live
      /\ act' = StampActs(Promoted(a), {a}, b) /\ act[a].parent \notin Children(a)
  BY <1>1, NetworkAssumption DEF IInv, TypeOK, Dissolve, IsLive, InBatch
<1>3. act[a].parent # a
  BY <1>2 DEF Children, IsLive, InBatch
<1>4. \A c \in Act : /\ act'[c].batch = Live <=> c # a /\ act[c].batch = Live
                     /\ act'[c].summary = act[c].summary
                     /\ act[c].batch = Live /\ act[c].parent = a => act'[c].parent = act[a].parent
                     /\ act[c].parent # a => act'[c].parent = act[c].parent
  BY <1>2 DEF StampActs, Promoted, IsLive, InBatch, ActRow
<1>5. ASSUME NEW c \in Act, act'[c].batch = Live, act'[c].parent \in Act
      PROVE  act'[act'[c].parent].batch = Live /\ act'[act'[c].parent].summary
  <2>1. c # a /\ act[c].batch = Live
    BY <1>4, <1>5
  <2>2. PICK n \in {a, c} : act[n].batch = Live /\ act'[c].parent = act[n].parent /\ act[n].parent # a
    BY <1>2, <1>3, <1>4, <2>1
  <2>3. PICK p \in Act : p = act[n].parent
    BY <1>5, <2>2
  <2>4. act[p].batch = Live /\ act[p].summary /\ p # a
    BY <2>2, <2>3 DEF WellFiled
  <2> QED
    BY <1>4, <2>2, <2>3, <2>4
<1> QED
  BY <1>5 DEF WellFiled

LEMMA StepKeepsFiling ==
  ASSUME IInv, SweepClosed, ~Overlap, Next, WellFiled(act), Revived = {}
  PROVE  WellFiled(act')
<1>1. CASE EditActivity
  BY <1>1, CreateKeepsFiling, UpdateKeepsFiling, RefileKeepsFiling DEF EditActivity, Rows
<1>2. CASE EditLink \/ Ask
  BY <1>2 DEF EditLink, CreateLink, RemoveLink, Ask, AskDelete, AskDeletePlan, AskDissolve,
              AskRestoreBatch, Wait
<1>3. CASE Delete
  <2>1. CASE SweepActivities
    <3>1. sweep.batch \in Batch
      BY <2>1 DEF IInv, TypeOK, Sweep, NoSweep, SweepActivities
    <3> QED
      BY <2>1, <3>1, StampsKeepFiling DEF SweepActivities, SweepClosed, IsLive, InBatch
  <2>2. ASSUME NEW S \in SUBSET Act, NEW b \in Batch, BulkDelete(S, b)
        PROVE  WellFiled(act')
    <3>1. \A c \in Act : act[c].batch = Live => act[c].parent \notin S
      BY <2>2 DEF WellFiled, BulkDelete
    <3> QED
      BY <2>2, <3>1, StampsKeepFiling DEF BulkDelete
  <2> QED
    BY <1>3, <2>1, <2>2, DissolveKeepsFiling
    DEF Delete, BeginDelete, BeginDeletePlan, SweepPlan, DeleteRefused, DissolveRefused, Rows
<1>4. CASE Revive
  BY <1>4, NoneRevived
<1> QED
  BY <1>1, <1>2, <1>3, <1>4 DEF Next

\* No new live link, and no end of one newly a summary.
LEMMA NoNewSummary ==
  ASSUME IInv, NoSummaryLogic(act, links),
         \A l \in links' : l.batch = Live => l \in links,
         \A a \in Act : act'[a].summary => act[a].summary \/ LinksOf(a) = {}
  PROVE  NoSummaryLogic(act', links')
<1> SUFFICES ASSUME NEW l \in links', l.batch = Live
             PROVE  ~act'[l.from].summary /\ ~act'[l.to].summary
  BY DEF NoSummaryLogic
<1>1. l \in links /\ l.from \in Act /\ l.to \in Act
  BY DEF IInv, TypeOK, Link
<1>2. LinksOf(l.from) # {} /\ LinksOf(l.to) # {}
  BY <1>1 DEF LinksOf
<1> QED
  BY <1>1, <1>2 DEF NoSummaryLogic

LEMMA CreateKeepsLogic ==
  ASSUME IInv, ~Overlap, NEW a \in Act, NEW summary \in BOOLEAN, NEW p \in Parents,
         CreateActivity(a, summary, p), NoSummaryLogic(act, links)
  PROVE  NoSummaryLogic(act', links')
<1>1. /\ links' = links /\ act[a].batch # Live
      /\ \A c \in Act \ {a} : act'[c] = act[c]
  BY NetworkAssumption DEF IInv, TypeOK, CreateActivity
<1>2. LinksOf(a) = {}
  BY <1>1 DEF LinksOf, IInv, LinksJoinLive, IsLive, InBatch
<1> QED
  BY <1>1, <1>2, NoNewSummary

LEMMA UpdateKeepsLogic ==
  ASSUME IInv, NEW a \in Act, NEW summary \in BOOLEAN, NEW p \in Parents,
         UpdateActivity(a, summary, p), NoSummaryLogic(act, links)
  PROVE  NoSummaryLogic(act', links')
<1>1. /\ links' = links /\ act'[a].summary = summary
      /\ \A c \in Act \ {a} : act'[c] = act[c]
  BY DEF IInv, TypeOK, ActRow, UpdateActivity
<1> QED
  BY <1>1, NoNewSummary DEF UpdateActivity

LEMMA LinkKeepsLogic ==
  ASSUME IInv, NEW p \in Act, NEW s \in Act, CreateLink(p, s), NoSummaryLogic(act, links)
  PROVE  NoSummaryLogic(act', links')
<1> DEFINE new == [from |-> p, to |-> s, batch |-> Live]
<1>1. act' = act /\ links' = links \cup {new} /\ ~act[p].summary /\ ~act[s].summary
      /\ new.from = p /\ new.to = s
  BY DEF CreateLink
<1> HIDE DEF new
<1> QED
  BY <1>1 DEF NoSummaryLogic

LEMMA StepKeepsLogic ==
  ASSUME IInv, ~Overlap, Next, NoSummaryLogic(act, links), Revived = {}
  PROVE  NoSummaryLogic(act', links')
<1>1. CASE EditActivity
  <2>1. ASSUME NEW f, Refile(f)
        PROVE  NoSummaryLogic(act', links')
    <3>1. links' = links /\ \A a \in Act : act'[a].summary = act[a].summary
      BY <2>1 DEF IInv, TypeOK, ActRow, Refile, Refiled
    <3> QED
      BY <3>1, NoNewSummary
  <2> QED
    BY <1>1, <2>1, CreateKeepsLogic, UpdateKeepsLogic DEF EditActivity
<1>2. CASE EditLink
  <2>1. ASSUME NEW l \in links, RemoveLink(l)
        PROVE  NoSummaryLogic(act', links')
    BY <2>1, NoNewSummary DEF RemoveLink
  <2> QED
    BY <1>2, <2>1, LinkKeepsLogic DEF EditLink
<1>3. CASE Ask
  BY <1>3 DEF Ask, AskDelete, AskDeletePlan, AskDissolve, AskRestoreBatch, Wait
<1>4. CASE Delete
  <2>1. ASSUME NEW as \in [Act -> ActRow], NEW S, NEW T, NEW b \in Batch,
               links' = StampLinks(links, T, b),
               act' = StampActs(as, S, b), \A a \in Act : as[a].summary = act[a].summary
        PROVE  NoSummaryLogic(act', links')
    <3>1. \A a \in Act : act'[a].summary = act[a].summary
      BY <2>1 DEF StampActs, ActRow
    <3> QED
      BY <2>1, <3>1, SweepAddsNoLink, NoNewSummary
  <2>2. ASSUME NEW T, NEW b \in Batch, links' = StampLinks(links, T, b), act' = act
        PROVE  NoSummaryLogic(act', links')
    BY <2>2, SweepAddsNoLink, NoNewSummary
  <2>3. CASE SweepActivities
    <3>1. links' = links /\ \A a \in Act : act'[a].summary = act[a].summary
      BY <2>3 DEF IInv, TypeOK, ActRow, SweepActivities, StampActs
    <3> QED
      BY <3>1, NoNewSummary
  <2>4. ASSUME NEW r \in Req, NEW b \in Batch, Dissolve(r, b)
        PROVE  NoSummaryLogic(act', links')
    <3>1. PICK a \in Act : a = call[r].act
      BY <2>4, CallServed DEF Dissolve
    <3>2. /\ Promoted(a) \in [Act -> ActRow]
          /\ \A c \in Act : Promoted(a)[c].summary = act[c].summary
      BY DEF IInv, TypeOK, ActRow, Promoted
    <3> QED
      BY <2>1, <2>4, <3>1, <3>2 DEF Dissolve
  <2>5. ASSUME NEW S, NEW b \in Batch, BulkDelete(S, b)
        PROVE  NoSummaryLogic(act', links')
    BY <2>1, <2>5 DEF BulkDelete, IInv, TypeOK
  <2>6. ASSUME NEW r \in Req, NEW b \in Batch, NEW versioned,
               BeginDelete(r, b, versioned) \/ BeginDeletePlan(r, b)
        PROVE  NoSummaryLogic(act', links')
    BY <2>2, <2>6 DEF BeginDelete, BeginDeletePlan
  <2> QED
    BY <1>4, <2>3, <2>4, <2>5, <2>6 DEF Delete, SweepPlan, DeleteRefused, DissolveRefused
<1>5. CASE Revive
  <2>1. \A l \in links' : l.batch = Live => l \in links
    <3>1. ASSUME NEW a \in Act, RestoreActivity(a)
          PROVE  FALSE
      BY <3>1, RestoreRevives DEF RestoreActivity, CanRestore, ReviveBatch
    <3>2. ASSUME NEW r \in Req, RestoreDeleteBatch(r)
          PROVE  FALSE
      <4>1. call[r].act \in Act
        BY <3>2, CallServed DEF RestoreDeleteBatch
      <4> QED
        BY <3>2, <4>1, RestoreRevives DEF RestoreDeleteBatch, CanRestore, ReviveBatch
    <3> QED
      BY <1>5, <3>1, <3>2, PlanRestoredAcyclic DEF Revive, RestoreRefused
  <2> QED
    BY <1>5, <2>1, NoneRevived, NoNewSummary
<1> QED
  BY <1>1, <1>2, <1>3, <1>4, <1>5 DEF Next

\* Whatever runs beside it, an edit or a delete leaves nothing live under a
\* deleted activity or one that is no summary, and no live dependency on a
\* summary: the children of what is swept are swept too, since nothing is filed
\* there while the delete holds the lock.  Only a restore can break either.
THEOREM EditsFile ==
  ASSUME ~Overlap
  PROVE  Spec => EditsKeepFiling
<1>1. Init => SweepClosed
  BY DEF Init, SweepClosed, NoSweep
<1>2. IInv /\ SweepClosed /\ [Next]_vars => SweepClosed'
  BY SweepClosedKeeps
<1>3. IInv /\ SweepClosed /\ [Next]_vars =>
        [Revived = {} => /\ ~WellFiled(act') => ~WellFiled(act)
                         /\ ~NoSummaryLogic(act', links') => ~NoSummaryLogic(act, links)]_vars
  BY StepKeepsFiling, StepKeepsLogic
<1> QED
  BY <1>1, <1>2, <1>3, Invariance, PTL DEF Spec, EditsKeepFiling
=============================================================================
