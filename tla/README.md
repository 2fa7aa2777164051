# SchedulePoint in TLA+

SchedulePoint is a construction-planning web application: organisations hold
clients, projects and plans; a plan holds activities, their WBS tree and the
logic between them, and a CPM engine dates them.  The API (`src/apps/api`,
NestJS over PostgreSQL through Prisma) is a set of request handlers that share
one database and no memory.  Everything that can go wrong by timing goes wrong
between two of its transactions, or between what a request read before its
transaction and what it does in it.

This directory models that core: who may edit a plan and what the browser makes
of it, what edits, deletes and restores make of a plan's network and of the
clients, projects and plans above it, how plans are linked and recalculated,
who belongs to an organisation, and the libraries of resources and calendars
that plans draw on.  PROJECT.json is the index: components,
runs, mutants, the map of definitions to source lines, findings, hazards and
theorems.

| Model | Proofs | Runs that pass | Run that shows a disagreement |
| --- | --- | --- | --- |
| `PlanLockPolicy`, `PlanLock`, `Pen` | `EditingProofs` | `plan_lock` | |
| `PenClient` | `RecalculationProofs` | `pen_client` | |
| `EditHistory` | `EditingProofs` | `edit_history` | |
| `Digraphs`, `LogicNetwork` | `DigraphProofs`, `LogicNetworkProofs` | `logic_network`, `logic_network_races` | `logic_cycle` |
| `Hierarchy` | `HierarchyProofs` | `hierarchy` | |
| `PlanGraph`, `CrossPlan` | `CrossPlanProofs` | `cross_plan` | |
| `Recalculation` | `RecalculationProofs` | `recalculation` | |
| `Membership` | `OrganisationProofs` | `membership` | |
| `Resources` | `ResourcesProofs` | `resources` | |
| `Calendars` | `OrganisationProofs` | `calendars` | |

`tlc -config X.cfg MCName` checks a model, `tlapm NameProofs.tla` its proofs.
`OrganisationProofs`, `EditingProofs` and `RecalculationProofs` extend two models
each, so the specifications of `Calendars`, `EditHistory` and `PenClient` have their
name in front of what every model has (`CalendarsInit`, `HistoryNext`).

## 1. The system

| Component | State | Operations | Hard because |
| --- | --- | --- | --- |
| Plan edit lock, "the pen" (`plan-lock`) | one `plan_locks` row per plan: holder, lease, pending request | acquire, take over, heartbeat, request, hand off, release, the check in every structural write | the heartbeat and the release bypass the lock that orders the others; time |
| Activities and WBS tree (`activities`) | rows with type, parent, deletion batch | create, update, re-file, delete, bulk delete, dissolve, restore | two graphs over the same rows, each acyclic, changed by concurrent requests |
| Dependencies (`dependencies`) | rows with two ends, deletion batch | create with cycle check, update, remove | the cycle check sees what its snapshot sees |
| Soft delete (`common/hierarchy`) | `deleted_at`, `delete_batch_id` on every table | cascade delete by client, project, plan, activity; restore of a batch; expiry | a restore meets a world that has moved on |
| Schedule (`schedule`) | engine columns, input stamps | recalculate, re-derive, level | reads everything under the plan's lock; a recalculation may be stale when it lands |
| Cross-plan links | rows between plans of one organisation | create, remove, programme recalculation | several plans' locks |
| Calendars, resources, swimlanes, codes | library rows and references to them | assign, archive, delete, restore | assign against delete |
| Baselines, notes, shares, history, audit | rows that follow a plan or an activity | create, delete with the cascade | follow the cascade |
| Organisations, members, invitations | membership rows, tokens | invite, accept, revoke, change role, remove | the last administrator; one token used twice |
| Retention (`common/operational`, `hierarchy-expiry`) | which sweep runs, claims | periodic scan, claim and removal for good | against restores; the hierarchy's is in `Hierarchy` |
| Web client (`apps/web`) | query cache, pen session, undo stacks | poll, heartbeat, undo, redo | a client acts on what it last saw |
| Engine, interchange, layout, seed | none between calls | pure computation, parsing | numeric; long inputs |

Requests meet only in the database.  All transactions are READ COMMITTED, so
each *statement* sees the latest commits; order between requests comes from
transaction-scoped advisory locks (per plan, per organisation, per calendar,
per resource), and from row locks taken in id order.  A structural edit of a
plan: resolves the organisation and the permission, reads what it is about,
checks the pen, opens a transaction, takes the plan's advisory lock, reads
again what it must rely on, writes, records history, audit and "inputs
changed", and commits.  Which of these reads are repeated under the lock, and
which are not, decides most of what is found below.

What makes each part correct:

* **Pen.**  One holder at a time; it passes on only when the holder gave it
  away, is gone, or an administrator or an aged request takes it; a write that
  has checked the pen is not overtaken by another holder.
* **Network.**  A live link joins two live activities of a live plan; the logic
  and the parent tree have no cycle; every row is filed at the top or under a
  live summary, and a summary carries no link; a delete can be undone exactly.
* **Hierarchy.**  Nothing live under a deleted row; a batch is one subtree, so
  that a restore which asks only about its root's ancestors asks enough; deletes
  do not wait in a ring; what the expiry removes is deleted, and goes whole.
* **Schedule.**  A plan reads as calculated only if no edit has come since what
  the calculation read.
* **Members.**  An organisation keeps an administrator; an invitation is used
  once, and not after it was revoked.
* **Library.**  No live row refers to a deleted calendar or resource.
* **Clients.**  The pen is not shown as held after it was lost; an undo
  overwrites nobody's later work.

## 2. The models

### The pen: `PlanLockPolicy`, `PlanLock`

`PlanLockPolicy` is `plan-lock.policy.ts` and the two shapes of write of
`plan-lock.repository.ts`: a lock row, what it means to a user at a time
(`HeldByMe`, `HeldByOther`, expired, free), when a peer may take over, the row a
grant writes (`LeaseTo`) and the row a renewal leaves (`Renewed`).

`PlanLock` runs the service on it, for one plan, statement by statement.

| State | Code |
| --- | --- |
| `row` | the plan's row of `plan_locks`; the absent row is `Free` |
| `mutex` | who is in the plan's advisory-lock transaction |
| `call[r]` | a request being served: where it is, its user, the time it took, the row it read |
| `clock` | the server's clock; it may tick between any two statements |

A request to acquire, take over, request or hand off is `Arrive`, `EnterTx`
(lock and clock), `ReadRow`, and one action per outcome: `AcquireFree`,
`AcquireRenew`, `TakeOver`, `AcquireRefused`, `RequestStamp`, `RequestNoop`,
`HandOff`, `HandOffRefused`.  `Beat` and `Release` are single statements that
take no lock, so they fall between any two of these.  A structural write that
checks the pen in its transaction is `GatedAdmit` or `GatedRefused`, then
`WriteCommit`; one that checks first and opens its transaction afterwards is
`EarlyAdmit` or `EarlyRefused`, `EarlyEnterTx`, `WriteCommit`.  What is written
does not matter here, only that it is being written.

The upsert of a grant is unconditional in the code, and so it is here; a
renewal in `acquire` is conditional on the holder, a request's stamp on a row
being there.

### The network: `Digraphs`, `LogicNetwork`

`Digraphs` defines reachability and acyclicity by closed sets, so that proofs
about an edge more or less need no induction; and `Search`, the loop the code
finds out with (the same in the two cycle detectors and in the upstream walk of a
programme), turn by turn, its stack as a set.  `LogicNetwork` is one plan: its
activity rows (`act`: deletion batch, whether a summary, parent), its
dependency rows (`links`: ends and batch), and the plan's own row (`plan`).

Nearly all writers take the plan's advisory lock in their transaction, so each
is one action: `CreateActivity`, `UpdateActivity`, `Refile` (`updateParents`),
`CreateLink`, `BulkDelete`, `Dissolve`, `RestoreActivity`.  Three things keep
that from being the whole story:

* *Reads before the lock.*  Delete, dissolve, plan delete and batch restore
  read in front of their transaction and act on it inside.  `call[r]` holds
  what was read: `AskDelete` then `BeginDelete` or `DeleteRefused`, and so on.
  A late delete is therefore always possible.
* *Operations without the lock.*  Removing a link, filing a row at the top
  level (`TopLevelOnly`) and restoring a plan do not take it, and may commit
  inside a delete.  So a delete is one step per table: `BeginDelete` or
  `BeginDeletePlan` (what it is about, and the links), `SweepActivities`,
  `SweepPlan`; `sweep` says what is still to come.  The subtree read, the rows'
  locks and the stamp of the links are one step: between them only a link can
  go, which the stamp then passes by, and a top-level filing waits for the row
  (`a \notin sweep.acts`).
* *Restores.*  `ReviveBatch` brings back every row of the batch, and its links
  where both ends are then active; the partial unique index may refuse it.  It
  is one step because nothing of it is seen before it commits.

The cycle check is the code's search (`WouldCreateCycle`).  The walk of
`assertValidParent` is what it finds (`ValidParent`); because it has no visited
set, on a tree that has a cycle it may never end, and then the request fails
(`WalkEnds`).

Versions are left out: a version that does not match only refuses more.  Names,
link types, lags, dates, calendars and positions are left out: nothing here
decides on them, and of links with the same ends one at most is live per type.

### The hierarchy: `Hierarchy`

Clients, projects and plans (`row`: the committed batch of each) and the
transactions in flight (`tx[t]`: operation, stage, target, batch, the rows it
shares, the rows it has locked or written, its advisory locks).  What a
transaction writes is not seen until it commits, so its writes are locks here
and land in `Create`, `Restore`, `CommitDelete` or `Remove`.

| Action | Code |
| --- | --- |
| `AskCreate`, `AskRestore`, `AskDelete` | the reads of the service before its transaction |
| `AskExpire` | `selectExpiryCandidates`, of what is past its period (`PastPeriod`), in one sweep at a time |
| `Claim`, `ClaimLost` | `claimExpiredRoot`, and the root it skips |
| `ResolveScope`, `Remove` | `resolveExpiryScope`, `deleteExpiredScope` and the commit |
| `ShareAncestor`, `AncestorDeleted` | `lockActiveClientForShare`, `lockActiveProjectForShare`, and their 409 |
| `LockRoot` | `lockClientRowForDelete`, `lockProjectRowForDelete` (none for a plan) |
| `ReadSubtree` | the reads of the live projects and plans below |
| `LockPlan`, `PlansLocked` | `acquirePlanWriteLocks`, in id order |
| `StampPlans`, `StampProjects`, `CommitDelete` | the guarded updates, in order |
| `Fail` | a taken name, a timeout, the victim of a deadlock, a lost connection |

A statement that meets a row another transaction holds waits (`WaitsFor`) and
then looks again, as READ COMMITTED has it: a restore that meets a claimed root
waits, and then finds nothing and fails.

There are no clocks: a row is past its period if no delete of it, or of what is
below it, still runs, for the period is a day at least
(`env.validation.ts:206`) and a transaction ends within a minute
(`prisma.service.ts:36`).  Whether the period is over is otherwise open, and so
is how far a sweep comes.  A row deleted together with its parent has the
parent's `deleted_at`, so the scan leaves it to the parent (`AskExpire`); that no
scan limit parts the two rests on `CANDIDATE_SCAN_LIMIT` (5000) exceeding
`SCOPE_BUDGET_PER_RUN` (2000): a sweep whose scan of the clients was cut short
never comes to the projects.  What is removed may be created anew, which stands
for another row.  `Whole` is the foreign keys' guard, and `RemovalIsWhole` shows
that it never refuses.

Simplifications: the two reads of a client delete are one step, the plan rows of
one stamp are taken at once, and a delete's order within one table is not
modelled; so no ring of waits within one statement can show (such a ring would
need two statements that lock the same rows in different orders).  Activity rows
are LogicNetwork's, calendars those of `Calendars`; what the expiry takes below a
plan goes with it.

### The promise of the pen: `Pen`

`Pen` is what the edit lock promises, without its clock, lease, advisory lock or
requests: who holds the pen, who waits for it, and who is writing.  Its rule is
that a write is admitted at a moment its writer holds the pen, and that until it
has committed the pen goes to nobody: it can only be put down.  `PlanLock`
instantiates it as `ThePen` (`INSTANCE Pen WITH holder <- row.holder, waiting <-
row.requestedBy, writing <- ...`); a write that checks inside its transaction
counts as writing from the statement that reads the row in its favour, not from
the one that decides on it.  `PenPromise == ThePen!Spec` is checked as a property
and proved (`ImplementsPen`).

### The browser's side: `PenClient`

`use-plan-edit-lock` and `plan-lock.client`.  The server's part is here in one
step per request, as a client sees it.

| State | Code |
| --- | --- |
| `holder`, `asked`, `age` | the row of `plan_locks`; the lease as ticks since its renewal |
| `page[t]`, `view[t]` | whether a tab shows the plan, and the status its query cache has |
| `wire[t][k]` | the poll, heartbeat, action and keepalive release under way |

A request may be served (`Deliver`), its answer heard (`Receive`), or either
lost (`Lose`), at any later moment; an action and a refused heartbeat drop the
poll under way and start another, as an invalidation does.  `Open`, `Poll`,
`Beat`, `Act`, `WriteRejected`, `Leave`, `Forget` and `Close` are the page's;
`Close` is a crash as well, and what was on the network may be served after it.
`PeerActs` is everybody whose tab is not modelled.

### Undo and redo: `EditHistory`

One page's two stacks against the rows on the server.  A row is one field of an
activity or link.  An edit is made on the server first (`Edit`) and recorded when
its answer comes: pushed (`Record`), merged into the top step of the same key
within the window (`Coalesce`), or not at all (`AnswerLost`).  A step spans its
rows before and after; `Builder` is the commands there are, the rows of each and
whether it is `fixed`, naming its fields, or takes the fields that differ, and
`Written` is what a replay compares and writes.  A replay is three awaited steps: `Press` (or `PressTo` and `RunOn`
for "to here") takes the top step; `Check` reads afresh and compares, where it may
refuse; `Write` writes at the versions read, or is refused (`WriteStale`), barred by
what other rows hold (`ReplayBarred`), lost with its answer (`WriteLost`), or fails
(`ReplayFails`).  What it came to reaches the stacks a step later (`UndoApplied`,
`UndoSetAside`, `ReplayThrew` and the same for redo), so anything may happen
between.  Versions are kept as `moved`, the rows written since the replay in
flight read them.  `OthersWrite` is anybody else at any time, so the passing of
the pen, another page's history and a reload need no state of their own.
Edits start and are answered at any time, replays or not.  Three variables that no
guard reads are history: `foreign` collects the rows changed by what neither stack
accounts for, `overlap` is set when an edit (or a cleared redo) and a replay are first
under way at once, and `crossed` has the steps above which an edit was recorded while
they were being undone.

### Links between plans: `PlanGraph`, `CrossPlan`

`PlanGraph` has the algorithms as functions: `WouldCreatePlanCycle` and
`UpstreamClosure`, both by `Search`, and
`OrderPlansUpstreamFirst`, Kahn's algorithm over an adjacency in which a pair of
plans may be linked more than once.  `CrossPlan` runs the service statement by
statement: `ArriveCreate` (the first end), `LoadSuccessor`, `EnterTx` (the
organisation's advisory lock), `ReadAdjacency` (and the cycle check),
`CheckCreate` (the pen, and a `Duplicate`: a link with the same ends and of the same
type, for two of different types may join the same activities), `Insert`; and `ArriveRemove`,
`CheckRemove`, `Remove`, which has no lock but a guarded `UPDATE`.  Between any
two of these activities may be deleted or restored (`DeleteOrRestore`) and the
pen may pass (`PassPen`), since a create holds neither plan's lock.  `stamps`
counts how often a plan's inputs were marked as changed.

### Recalculation: `Recalculation`

Data are revisions: `net[p]` counts the committed edits of what a calculation of
plan p reads under its lock, `opt[p]` those of the plan row, which it reads
before; `results[p]` says which revisions the stored dates came from.  So
"computed from old data" is a comparison of numbers, and the engine itself is
not needed.  `clock` is the database's; `now()` is read at `Begin`, before the
lock is waited for, and an edit's `clock_timestamp()` at `StampInputs`, after it
has locked the plan rows one by one in id order (`LockRow`).  A programme is the
same steps for each plan of `ResolveProgrammeOrder`, a transaction each:
`LoadPlan`, `Begin`, `LockPlan`, `ReadNetwork`, `WriteResults`, then the next,
and `Respond`.  The four kinds of edit differ in whether they take the plan's
lock, and in which plans they stamp; `DeletePlan` takes a plan away under a
calculation.

### Members: `Membership`

Membership rows, invitations and the organisation's advisory lock; each row
carries its audit records (`trail`).  `ArriveInvite` ... `InsertInvitation`,
`ArriveRevoke` ... `SetRevoked` and `ArriveAccept`, `CheckSeat`, `Join` run
without the lock, beside two partial unique indexes (`SeatFree`, `NonePending`);
role changes and removals are `LockOrganization`, `ReadMember`, `NotLastAdmin`,
then `UpdateRole` (with the version) or `SoftDelete` (without).  `Expire` lets an
invitation run out.  `Abandon` is a refusal at the next statement, an error or
a crash, at any point.

### The libraries: `Resources`, `Calendars`

`Resources` is the tree of an organisation's resources.  Whatever changes its
shape holds the tree lock from its checks to its commit (`CheckCreate`,
`CheckUpdate`, `ReadBranch`, `CheckDissolve`, `CheckRestore`); an assignment and
a delete hold the locks of the resources they are about (`Confirm`,
`LockBranch`).  The kind a request goes by is the one it read before its
transaction (`seen`), and only an update compares versions (`current`).  Nothing
keeps a conversion out while another request goes by that kind.  `astray`, which no
guard reads, is set when a delete takes for a leaf what has become a group.

`Calendars` has calendars, projects and all that is bound to a calendar: plans,
activities and resources (`Holder`).  Every path takes the calendar's advisory
lock and checks under it, except a widening to the whole organisation and a
project's delete; what differs is which locks it holds when it does: a plan's
(`HasPlanLock`, `ReadBatch`), a share of the project (`ShareForPlan`,
`ShareForRestore`) or none.  `TakeLock` takes the next lock of `todo` and
waits; a project's delete locks its row, waits for its plans' locks, finds its
calendars and stamps them in two statements (`LockRow`, `FindCalendars`,
`Sweep`).  A restore may bring back calendars of its own project that were
deleted before it (`Stranded`).

### How they fit

`PlanLock` says under whose pen a write runs, and `Pen` what that amounts to;
`PenClient` what the holder's browser knows of it, and `EditHistory` what an undo of
that browser does to rows others have written since.  `LogicNetwork` is what the
write does under the plan's advisory lock, `Recalculation` when the dates
computed from it are known to be old, `Hierarchy` what happens to the plan's row
from above.  `LogicNetwork` sees a delete or restore from above as
`BeginDeletePlan` and `RestorePlan`: a client's or project's cascade takes the
same plan lock before it stamps the same tables, and a restore from above is
`restoreBatch` as well.  `CrossPlan` sees of a plan only its pen and which of its
activities are live; the order it computes is what `Recalculation` takes as
`Programmes`.  `Calendars` meets `Hierarchy` at the project's row and
`LogicNetwork` at the plan's lock, and it is there that a ring closes (section 4).

## 3. The runs

| Run | Instance | Shows |
| --- | --- | --- |
| `plan_lock` | 3 users, one of them an administrator; 2 requests; 5 clock values | every interleaving of two requests keeps the pen's rules and the promise of `Pen` |
| `pen_client` | 1 tab, 1 peer who may override, leases of 2 ticks | an abandoned pen lapses, and what a tab believes is corrected, whatever is lost or late |
| `edit_history` | 2 rows, 2 values, 3 edits by 3 builders, depth 2; edits overlap replays | steps stand on one stack (but for those crossed), and overwrite nobody; the stacks stay bounded; until an edit overlaps a replay, steps expect what they meet unless others wrote, and run as chosen |
| `logic_network` | 3 activities, 2 links, 2 batches, 1 waiting request | a delete can be undone exactly; no edit closes a cycle of logic or files a row wrongly |
| `logic_network_races` | 2 activities, 2 links, 2 batches, 2 waiting requests, bulk rows | links join live activities, a dead plan is empty, no edit closes a cycle of parents, with two late requests |
| `logic_cycle` | 3 activities | a restore closes a cycle of logic |
| `hierarchy` | 1 client, 2 projects, 2 plans, 3 batches, 3 transactions; the client and the first project may expire | no orphan, one root per batch, nothing live removed for good, no ring of waits but one kind |
| `cross_plan` | 3 plans, 4 activities, 3 types, 3 links, 2 requests, 1 member | the graph of plans stays acyclic and can be ordered; no two active links of one type between the same activities; every change counted once |
| `recalculation` | 2 plans, one deriving from the other; 2 requests at once, 3 in all | edits under the lock are flagged, stamps describe results, results never go back, every request ends |
| `membership` | 2 people, 2 roles, 3 seats, 2 invitations, 2 requests | an administrator remains, one seat each, a true audit log |
| `resources` | 3 resources, 2 batches, 2 requests, depth 2 | what is assigned and no group is live, whatever converts meanwhile; the tree stays sound until a delete takes a group for a leaf |
| `calendars` | 1 calendar, 2 projects, a plan, an activity and a resource, 2 batches, 2 requests | what is live is on a live calendar it may use, but for one exception |

Why the bounds are enough to be worth something.  Two requests make every pair
of handlers meet, and a third user lets a request be superseded.  The clock's
ticks keep the order of the timings (grace 1, inactive after more than 1, lease
3), and 4 ticks pass a whole lease.  The shortest cycle of logic needs two links, which the small instances
can hold; of longer ones the theorem `EditsAcyclic` speaks.  A subtree of more
than one level needs three activities; a restore into a changed network needs
two batches.  A transaction, one it races, and a third
that moves the ground under both are the three of `hierarchy`; two projects are
needed for a client to have a child that is not on the way to the plan, two
plans for locks taken in two orders.  `Expirable` keeps the expiry to a client with
all its levels and a project with its plans; a plan's alone shows nothing that
these do not.

In `cross_plan`, a cycle takes two plans and the third lets a link that was
created elsewhere in the meantime close one; two links between the same plans
are what the in-degree must count one by one, and plan 1 has two activities for
that; of the three types two may join the same activities (`MCAsked` has the pair).  `Deletable` and `Contested` keep deletes and the passing of the pen to
one activity and one plan, and `Asked` the ends that are asked for to those
that can meet.  In `recalculation` the third request of three may arrive after
the first has ended, which is when its stamp can be misjudged.  `Ttl = 2` of
`pen_client` lets a lease be half gone; a second tab or a third user would only
be another peer to the first.  In `membership` `MaxSeats` lets a person join,
be removed and join again, and `MaxVersion` bounds the changes of a row.
`MaxDepth = 2` of `resources` stands for `RESOURCE_TREE_MAX_DEPTH` (10): the cap
is reached by filing one branch under another.  `Both = FALSE` has an update change
the kind or the parent, not both at once, which is two updates that meet nobody
between them; the theorems have both.  In `calendars` one calendar has
all the bindings; the order in which a bulk delete takes several locks is only
met with two, and the same run with two calendars, a plan and a resource passes
too (change `Calendar`, `Project` and `Activity`).

In `edit_history` two rows let steps overlap, meet or be disjoint, two values let a
row return to what it was, and three edits over a depth of two (for
`MAX_HISTORY_DEPTH`, 50) let one fall off the bottom and still merge, undo and
redo the rest.  The builders are a command of one row that names it, for either row,
and one of both rows that writes what differs; with two edits every
kind of both passes too, and the theorems are for every choice.  `HistoryView` makes one of
states that differ only in what neither an action nor a property will look at again.

`MaxTime`, `MaxEdits`, `MaxLinks`, `MaxRows`, `MaxRequests`, `MaxSeats`, `MaxInvitations`,
`MaxVersion` and `Expirable` exist for TLC only.  Everything listed under theorems
in section 5 holds for every size.

The properties of `LogicNetwork` are shared out between its two runs: which
instance a property needs decides where it is.  Every module has a type invariant.
The runs check those of `PlanLock`, `PenClient` and `Resources`; of
`LogicNetwork`, `Hierarchy`, `CrossPlan`, `Recalculation`, `Membership` and
`EditHistory` it is a theorem (section 5) that no run repeats, and that of
`Calendars` is part of the invariant its theorem rests on.  Deadlock checking is off in the
configurations of `LogicNetwork` and `Hierarchy`, where batch ids run out and
every row may be deleted for good, in `EditHistory`, whose page may simply be left
and where `MaxEdits` ends the edits, and in `Recalculation`, where `MaxRequests`
ends it; that no request is stuck there is `EveryRequestEnds`.  Each property of a passing
run has a mutant in PROJECT.json, a change a bug could make to one mapped
definition, that violates it.

### Fairness

Two models have it; the others are `Init /\ [][Next]_vars` with safety only.

* `Recalculation` assumes weak fairness of each request's next step: the server
  goes on with what it serves, and PostgreSQL grants a lock that stays free.  A
  request may always refuse or fail, but is not assumed to.
  `EveryRequestEnds` then says that the locks are never taken in a ring: the
  plan's lock comes before its row, and rows are locked in id order.
* `PenClient` assumes that time passes (`WF(Tick)`), that an open page polls
  (`WF(Poll)`: `refetchInterval`), and that of polls sent over and over some
  reach the server and some answers come back (`SF` of the poll's `Deliver` and
  `Receive`): one that is lost is repeated.  A heartbeat on the wire is delivered
  or lost in the end.  Nothing is assumed of heartbeats being sent, of answers to
  other requests, or of the keepalive release.

A liveness question stays a hazard: a delete that waits for the shares of
creates and restores may be overtaken by new ones in PostgreSQL, so only the
transaction's timeout ends its wait, and no fairness of the code justifies more
than that.

## 4. Where the code and its documents disagree

One has a run of its own, with the source line and the quotation in
PROJECT.json:

* `logic_cycle` (`LogicAcyclic`): a restore brings back links without a check
  for cycles, and another link created meanwhile may close one.  No other
  operation closes one: `EditsKeepLogicAcyclic`.
The others were met while the models were written.  Where the property has a
name it is in its module, with a note that no run checks it; naming it in the
configuration of the passing run shows the counterexample.

* `PeerTakesOnlySilentLease` (`PlanLock`): the policy's inactivity rule is applied
  to the row that was read; a heartbeat between read and write is overwritten.
  What does hold is `HandOverJustified`.
* `NoWriteUnderAnotherPen` (`PlanLock`): activity writes check the pen before
  their transaction, not inside.  For the others `PenStaysWithWriter` holds.
* `LinkUnderOwnPen` (`CrossPlan`): the pen is checked inside the organisation's
  lock (`cross-plan-dependencies.service.ts:187`) so that "a steal can't slip
  between the check and the insert" (185-186), but a hand-over takes the plan's
  own lock (`plan-lock.service.ts:84`), which the create does not hold.
* `TreeAcyclic` (`LogicNetwork`): a restore closes a cycle of parents, as it does
  of logic; no other operation does (`EditsKeepTreeAcyclic`).
* `DissolveKeepsWork` (`LogicNetwork`): dissolve reads the type before its lock
  and does not look at it again, and deletes what has become a task.
* `Overlap = TRUE` in `LogicNetworkRaces.cfg` and `Hierarchy.cfg`: a delete does
  not notice that its own root was already deleted; if a restore brings the root
  back while that delete runs, it goes on without holding it.  `DeadPlanIsEmpty`
  and `NoOrphan` then fail.
* `NoDeadlock` (`Hierarchy`): a client's delete holds the client and waits for
  projects, while a project's delete holds the project and waits for plans, and
  a restore shares from above (`hierarchy-lifecycle.service.ts:504` against
  245-246, and `plan-advisory-lock.ts:49-50`).  `RingsCrossLevels` states the
  remainder: without a client delete that waits for a project delete there is
  no ring.
* `OldDatesAreReported` (`Recalculation`): the cursor is the `now()` of a
  transaction's beginning (`schedule.repository.ts:1043`), and upstream staleness
  compares two cursors (`staleness.ts:3-4`).  A calculation upstream that began
  first and committed last leaves dates downstream that are old and not
  reported.  For edits, which stamp `clock_timestamp()`, `LockedEditsAreFlagged`
  holds.
* `LeaveEndsOwnPen` (`PenClient`): the release on leave "only fires while actually
  holding" (`use-plan-edit-lock.ts:112-113`), but it fires on what the cache says
  (171), and an administrator's release is an override
  (`plan-lock.service.ts:180-185`): it may end another user's pen.
* `StatusGatesAccept` (`Membership`): an invitation is found pending before the
  transaction (`invitations.service.ts:216`) and marked accepted without a
  condition, so one that is revoked in between still gives a seat.
* `AssignedIsResource` (`Resources`): an assignment re-reads under the resource's
  lock that it is there (`resource-assignment.service.ts:197`) but not that it is no
  group, and the conversion into a group counts assignments under the tree lock only
  (`resources.service.ts:298-306`), against "A GROUP may never be an assignment
  endpoint AT ALL" (`resource-assignment.service.ts:145`).  A conversion that commits
  between the two leaves a group assigned; `AssignedIsThere` is what remains.
* `astray`, the exception in `TreeSound` (`Resources`): in the same way a delete that
  read a leaf deletes a group and leaves its children live under it
  (`resources.service.ts:475-487`), "an active child under a soft-deleted parent".
* `SweptAfterMove` (`Calendars`), the exception in `HoldersKeepCalendar`: a
  project's delete reads which calendars are its own and then stamps them by id
  (`hierarchy-lifecycle.service.ts:417-432`); a widening to the organisation, which
  takes no lock (`calendars.service.ts:321-326`), may come between, and a library
  calendar is deleted, which "can NEVER" happen (410-411).
* `NoRing` (`Calendars`; `Slot = {q1, q2, q3}` in `Calendars.cfg`): "No cycle" of
  waits (`docs/specs/deleted-calendar-restore/spec.md:448`) holds for two requests and
  not for three.  The restore of a project's calendar holds the calendar's lock and
  waits for a share of the project (`calendars.service.ts:553`); the project's
  delete holds the row and waits for a plan's lock; the create of an activity holds
  the plan's lock and waits for the calendar's.  `plans.service.ts:136-140`
  describes this ring as the reason for the order of locks in a plan's create,
  and the calendar's restore takes them in the other order.
* `crossed`, the exception in `OnOneStack` (`EditHistory`): when its replay has been
  answered, an undo pops whatever is then on top (`use-plan-edit-history.ts:247`) and
  pushes the step it undid; `record` (185) does not look at `runningRef`.  An edit that
  is recorded while the undo is in flight is on top, and is lost from both stacks; the
  step undone is on both, against "Run the top undo command's inverse and, when it
  applied, move it to the redo stack" (63).  Nothing is overwritten for it
  (`ReplayOverwritesNobody`): the next undo of that step is refused, and so
  `SetAsideIsExcused` speaks until an edit first overlaps a replay (`overlap`), and
  `RangeRunsChosen` with it.  Without these exceptions TLC refutes all three.  Whatever
  else comes during a replay, a merge, a lost answer, a cleared redo, or an edit
  recorded while a redo is in flight, `OnOneStack` holds.
* A calendar created in a project that is being deleted stays live under it
  (`calendars.service.ts:219-225` reads the project without a share;
  `hierarchy-lifecycle.service.ts:495-497` calls it the no-orphan invariant).
  `Calendars` has this as `AskNew` and `New`; nothing live can use such a
  calendar, so no property states it.

The constant `Overlap` stands in `LogicNetwork` and `Hierarchy` for what these need.
With `Overlap = FALSE` a plan is not restored while a delete of it runs, and no row
while a delete that found it deleted runs.  These are assumptions about the
environment, not something the code enforces, and every result that needs one says
so.  `Resources` and `EditHistory` assume nothing of the kind: there a history
variable records that the case has happened, and a property excepts only what
follows from it.

## 5. What is proved

`EditingProofs`, for any users, request slots and timings with
`InactiveAfter < TTL` and `Grace > 0` (which the policy's constants satisfy):
`TypeCorrect`, `NoSelfRequest`, `WriterKeepsPen`, `InactiveFirst`,
`JustifiedHandOver`, and `ImplementsPen`: every behaviour of `PlanLock` is one of
`Pen`, since each step is a step of it or a stutter.  The properties are not inductive alone.  The invariant
adds that the owner of the advisory lock is the one request inside its
transaction (`MutexDiscipline`), that every lease is exactly TTL long
(`FullLease`), that clock readings are past, and the heart of it, `SeenStands`:
what a deciding request has read still stands, unless the row was released;
only its heartbeat may have moved, because the only writers outside the lock
are heartbeats and releases.

It also proves all properties of `EditHistory`, for any rows, values, builders and
depth, edits overlapping replays as they may.  `HistoryTyped`, `HistoryBounded` and
`NobodyOverwritten` rest on an invariant, `HistoryInv`, which adds that an undo in
flight finds a step to pop (`UndoStands`), so that moving one across never makes the
two stacks longer together, and that a row which has not moved since it was checked
still holds what the step expects (`UnmovedAsRead`).  `StepsOnOneStack` rests on the
numbers of the steps (`NumbersInv`): they are fresh (`Numbered`), on two stacks only
if crossed (`Apart`), and the step in flight is nowhere but on top of its stack
unless it was crossed (`FlightApart`), so that moving it across doubles nothing; a
merge gives the top a number of its own.  `ChosenStepsRun` and
`OwnEditsNeverRefused` speak of the behaviour until `overlap` is set, and so does
what they need (`TurnsInv`): a run's remaining steps are the top of its stack
(`TakingTurns`). The heart is `Accounted`: for each row that nobody else has
written there is one value to which the undo stack leads, step by step, each one
starting where the one below it ends, and from which the redo stack leads on in the
same way (`Reaches`); the row holds that value, but for an edit not yet answered or
a replay that has just written.  Recording, merging, moving a step across, letting
one fall off the bottom and setting one aside each keep such a value, so a check
can only fail on a row that somebody else has written.

`LogicNetworkProofs`, for finitely many activities and any batches, links and
waiting requests:
`TypeCorrect`, `TreeEditsAcyclic`, and with `~Overlap` `LiveLinks`,
`EmptyDeadPlan`, `EditsAcyclic`, `EditsFile`, `RoundTrip`.  The invariant adds
`SweepGuarded`: while a delete runs, the live links left touch none of the rows
it will stamp, and a plan's delete will stamp all of them; and, for `EditsFile`,
`SweepClosed`: nothing live is filed below those rows but what will be stamped
too, since the one edit that can commit meanwhile files at the top level.
`DigraphProofs!AddedEdge` is the fact the cycle checks rest on: an edge p->s
closes no cycle if p cannot be reached from s; `SearchIsReach` says that the search
finds just what can be reached; `NodeTakenOut` is the one for a
dissolved summary, whose children are joined to its parent.

`HierarchyProofs`, for any forest and any number of transactions, with
`~Overlap`: `TypeCorrect`, `NothingOrphaned`, `OneRoot`, `LiveWorkStays`,
`RemovalIsWhole` and `RingsOnlyAcrossLevels`.  The invariant has a
part for each transaction, `TxOK`, whose heart is `InHand`: a delete that holds
its root has in hand, at each stage, all that is live below it; and a part for
each two, `Apart`: neither owns what the other shares or owns.
For the expiry, `Expiring` adds that a claimed root stays deleted and the root of
its batch, so that nothing comes to live below it; `WholeBatch` shows that a
batch is removed whole or not at all, which a restore under way counts on.  The advisory
locks have no part in that: the row locks alone keep the tree together.  They
have one in the waits.  For `RingsOnlyAcrossLevels` the invariant also says in
which order a transaction takes its locks (`InOrder`: a shared project is under a
shared client, plans' locks are held only below those still to take, a plan's
row only after all of them), and every transaction is in one of six stages.
Whom it waits for is then in a later stage, but for the one wait that the
property excepts (`StampingWaits`), or in the same stage, a queue for plans'
locks, and asks for a greater plan (`QueueingWaits`); of finitely many, one asks
for the greatest, so that no set of transactions waits within itself.  A
connection pool is finite, and so `Tx` is assumed to be.

`CrossPlanProofs`, for finitely many plans and any activities, members and request slots:
`TypeCorrect`, `PlansStayAcyclic`, `LinksAreSingle` (no two active links of one type
between the same activities).  The invariant adds that the
organisation's lock is held by the one request between its reading of the links
and its insert (`LockHeld`), that the links active now are among those it read,
since without the lock links only go (`SeenCovers`), and that what it read admits
its link (`Checked`).  `DigraphProofs!AddedEdge`, stated for links within a plan,
does the rest for links between plans.  `CountsAreTrue` counts the links that
touch a plan and those of them that are gone (`StampsTrue`); a remove goes by
the row it found, whose ends never change (`LinkNamed`), and only the one that
still finds it active stamps (`RemoveCounts`).  `ProgrammeIsOrdered` says that
`ResolveProgrammeOrder` gives every plan upstream of the target once and each
after those it derives from, whatever links there are.  It is an argument about
the algorithm: what a round of it keeps (`KahnSound`: what is ordered has nothing
upstream left, the in-degrees count the links from what is not ordered, and
what is ready are the plans of in-degree zero), that as long as a plan is left
one is ready, since an acyclic finite graph has a source (`DigraphProofs!HasSource`),
and so that after as many rounds as there are plans all are placed.  The rounds
are not an induction over the fold but one over the state after each round, a
function that exists for every number of them (`RoundsExist`).

`RecalculationProofs`, for any plans, links, programmes in the order of the links
and request slots: `TypeCorrect`, `EditsStayFlagged`, `CursorIsOfResults`,
`ProgrammesStayUpToDate` and `DatesMoveForward`.  Each request has a part, `Good`:
it holds the lock of the plan it works on (`Locked`), its stamp is of the past
(`Clocked`) and an edit's is ahead of the plan's cursor (`StampAhead`), what it is
about to write was read after the last edit under the lock and is no older than
the stored dates (`ReadStands`), and no plan that is still to come is upstream of
one it has done (`UpstreamFirst`).  The plan's lock carries all of it: a step of
another request changes nothing that the lock's holder has read or will write
(`OthersKeep`).  That a programme is in the order of its links is an assumption of
this module, and `ProgrammeIsOrdered` the theorem about the code that gives it.
Fairness plays no part.

It also has the type correctness of `PenClient` (`PenClientTyped`), for any tabs,
users and length of a lease.  It is inductive as it stands, and says that an answer
fits the slot of its request and that a lease never outlives its end; what the
browser is promised beyond that needs fairness.

`OrganisationProofs`, for any people, roles and request slots: `TypeCorrect`,
`AnAdminRemains`, `SeatsAreSingle`, `AuditIsTrue`.  The invariant adds the lock's
discipline (`LockHeld`), that the role a request read under the lock is still
the member's (`Fresh`), and that a request about to take an administrator's role
is covered by another administrator (`Covered`); acceptances, which run without
the lock, only add members.

`OrganisationProofs` also has `CalendarsOfHolders`, for any calendars, projects,
plans, activities, resources, batches and request slots: `HoldersKeepCalendar` of
the specification.  Of the rows, the invariant `CalendarsIInv` says that what is
live is in what is live (`Housed`); that a calendar suits whatever is bound to it,
deleted or not (`Suited`), since a restore of a single resource asks only whether
its calendar is live; that the calendar of what is live is live or was deleted with
a project (`Moored`); and that what one delete took is under one root (`Rooted`),
so that a restore, which brings the whole batch back, has locked what it must.
Of each request, `Good` says what it has found under the locks it holds (`Settled`,
`Kept`, `PlanLive`, `ProjectShared`).  A write of another request takes none of
that away (`Beside`): it has no lock in common with this one (`Apart`), or, like
a widening, which takes none, it only allows more.  The proof needs no version
check, and nothing of what a project's delete has found: `SweptAfterMove` follows
from `Housed`, because a calendar's users in the project that was deleted are
deleted too.  That rows are of one kind, calendars, projects, plans, activities or
resources, is an assumption of the module: they are in different tables.

`ResourcesProofs`, for finitely many resources, any batches and request slots and
any cap on the depth: `TypeCorrect`, `AssignedLeavesStay` and `TreeStaysSound`, none
with an assumption on what runs at once.  The first of these two rests on what each
request may still rely on (`Secure`): an assignment that has confirmed its resource
holds its lock until it commits, and so finds it live or, if it was converted
meanwhile, a group (`Uses`); a delete that has counted no assignment holds the locks
of all it deletes.  The tree is not inductive alone: a restore brings a whole
batch back and asks only about the parent of the resource it names, so the
invariant also says that a deleted batch is one branch (`BatchRooted`) and that
rows filed within a batch form no ring (`Kept`), live or deleted.  Each request
has a part, `Good`: what it has read before its transaction (`Named`) and read of
the tree under the tree lock (`Reads`) still stands, until a delete goes `astray`;
and each two have one, `Apart`: they hold no lock in common.  A delete of what is no group takes no
tree lock and commits beside requests that have read the tree; `ReadsStand` says
why that, and a create at the top level, takes nothing from under them.
The depth needs more (`DInv`): it is measured within a batch (`Up`), so that what
is deleted is no deeper than what is live and a restore may trust it (`Shallow`),
and what a request has found to fit under its new parent still fits when it
writes (`HasRoom`), since meanwhile the tree lock lets in only creates at the top
level and deletes of leaves.

`DigraphProofs!SearchIsReach` is about the loop of `cycle-detector.ts`,
`cross-plan-cycle-detector.ts` and `programme-order.ts`.  A turn keeps that what is
seen can be reached and that what was taken off the stack has its successors seen
(`SearchSound`), and takes one more node off or finds the stack empty (`Walked`);
so after as many turns as there are nodes it is empty, what is seen is closed and
is all that can be reached.  Whichever node is on top, the result is the same.  It
needs finitely many nodes, which `NetworkAssumption` and `CrossPlanAssumption` say
of the ids: an infinite graph would be searched for ever.

`DigraphProofs` also has what these use of finite sets and graphs: the smallest of
a family of finite sets and of a set of numbers, the greatest of finitely many
numbers, and the source of an acyclic set.  They replace the library's induction
theorems, which take an operator, by the well-foundedness of finite sets.

The `ASSUME`s are the modules' own, which TLC evaluates on every run.

Only model-checked: what is under fairness (`EveryRequestEnds` and the lapses and
corrections of `PenClient`), and of course the disagreement.  Liveness under fairness and `ENABLED` are not within the
prover's reach.

## 6. What is left

In this order; each with a model, runs, mutants and, where marked, theorems.

1. `KahnOrder`: the topological order of the engine's `graph.ts`, shown to order
   what is acyclic (the argument of `ProgrammeIsOrdered`, over `Digraphs`).
2. `LockOrder`: one model of all advisory and row locks with their order, from
   the pieces `Hierarchy`, `Recalculation` and `Calendars` have.
3. Baselines, shares, codes and swimlanes beside the cascade that takes them.

## 7. Not modelled, and why

The list of components in PROJECT.json has every part with its reason.  In
short: pure reads (recycle bin, overview, exports, profile); parsing and
formatting (interchange); libraries and I/O (authentication, mail, storage);
numeric computation whose state is not small (working time, the engine's
passes, levelling, earned value); rendering and the canvas, which are most of
the repository's lines.  Parts with state that are still to come are in section 6
and, with the line where each could go wrong, among the hazards.

Of undo and redo: steps of several requests and what they leave when they fail
part-way, steps that give a re-created row a new id, and the lists of fields of
the single builders; two builders share the key `resize:`, and a merge across them
keeps only the fields of the newer one (`commands.ts:1311`).

Within the modelled parts: fields that decide nothing here (names, dates,
positions, progress, prices, archive flags, which only refuse more), audit and
history rows written in the same transactions (except those of a membership),
and the tables a cascade stamps along with activities (baselines, notes, steps,
shares, lanes, codes).  That a deleted activity keeps its links to other plans is
the code's intention (`docs/TECH_DEBT.md`, #139), so `CrossPlan` has it and no
property speaks of it.
