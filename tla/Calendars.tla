------------------------------ MODULE Calendars ------------------------------
(***************************************************************************)
(* The calendars of an organisation and what is scheduled on them.         *)
(*                                                                         *)
(* A calendar belongs to the shared library or to one project; a plan, an  *)
(* activity or a resource is bound to one of those it may use.  Whoever    *)
(* binds, deletes, narrows or restores takes the calendar's advisory lock  *)
(* and checks under it; a widening and a project's delete take none.  Of   *)
(* the other locks a path may hold, this module has the plans' advisory    *)
(* locks and the row of a project, shared by what comes under it and       *)
(* locked by its delete.                                                   *)
(*                                                                         *)
(* What a transaction writes shows when it commits.  Clients, the tree of  *)
(* activities, names, the working time itself and the archive flag, which  *)
(* only refuses, are not modelled.                                         *)
(***************************************************************************)
EXTENDS Digraphs, FiniteSets, FiniteSetsExt, Naturals

CONSTANTS
  Calendar,  \* numbered: locks are taken in this order
  NoCal,
  Project,
  Org,       \* the home of a calendar of the shared library
  Plan, Activity, Resource,
  HomeOf,    \* the project of a plan
  PlanOf,    \* the plan of an activity
  Batch,     \* delete-batch ids
  Live,      \* the batch of a row that is not deleted
  Absent,    \* the batch of a row that was never created
  Slot,      \* request slots
  Nobody     \* what an idle request is about

Holder == Plan \cup Activity \cup Resource

ASSUME CalendarsAssumption ==
  /\ Calendar \subseteq Nat /\ NoCal \notin Calendar
  /\ Calendar \cap (Project \cup Holder) = {} /\ Project \cap Holder = {}
  /\ Plan \cap Activity = {} /\ Resource \cap (Plan \cup Activity) = {}
  /\ Nobody \notin Calendar \cup Project \cup Holder
  /\ Org \notin Project
  /\ HomeOf \in [Plan -> Project] /\ PlanOf \in [Activity -> Plan]
  /\ Live \notin Batch /\ Absent \notin Batch /\ Live # Absent

VARIABLES
  cal,   \* batch and home of each calendar
  proj,  \* batch of each project
  hold,  \* batch of each holder, and the calendar it is bound to
  req    \* the requests: what each has read, holds and has still to take

calendarsVars == <<cal, proj, hold, req>>

State == Batch \cup {Live, Absent}
Bound == Calendar \cup {NoCal}

Request == [op: {"idle", "add", "bind", "new", "move", "remove", "restore", "sweep"},
            at: {"plans", "row", "share", "calendars", "commit"},
            of: Holder \cup Calendar \cup Project \cup {Nobody},
            cal: Bound,                \* the calendar to bind
            home: Project \cup {Org},  \* the home to give a calendar
            batch: State,              \* the batch to restore
            current: BOOLEAN,          \* the version it read is still the row's
            bulk: BOOLEAN,             \* it deletes a list of calendars
            todo: SUBSET (Calendar \cup Plan),   \* advisory locks to take at this point
            holds: SUBSET (Calendar \cup Plan),  \* advisory locks it has
            share: SUBSET Project,     \* projects it has FOR SHARE
            row: SUBSET Project,       \* projects it has FOR NO KEY UPDATE
            found: SUBSET Calendar]    \* what a sweep found
Idle == [op |-> "idle", at |-> "commit", of |-> Nobody, cal |-> NoCal, home |-> Org,
         batch |-> Live, current |-> TRUE, bulk |-> FALSE, todo |-> {}, holds |-> {},
         share |-> {}, row |-> {}, found |-> {}]

\* What the state is made of.
CalendarsTypeOK ==
  /\ cal \in [Calendar -> [batch: State, home: Project \cup {Org}]]
  /\ proj \in [Project -> State \ {Absent}]
  /\ hold \in [Holder -> [batch: State, cal: Bound]]
  /\ req \in [Slot -> Request]

CalendarsInit ==
  /\ cal = [c \in Calendar |-> [batch |-> Absent, home |-> Org]]
  /\ proj = [x \in Project |-> Live]
  /\ hold = [h \in Holder |-> [batch |-> Absent, cal |-> NoCal]]
  /\ req = [q \in Slot |-> Idle]

-----------------------------------------------------------------------------
(* Rows.                                                                   *)

BatchOf(r) == IF r \in Calendar THEN cal[r].batch
              ELSE IF r \in Project THEN proj[r] ELSE hold[r].batch
IsLive(r) == BatchOf(r) = Live
IsDead(r) == BatchOf(r) \in Batch
Known == {c \in Calendar : cal[c].batch # Absent}
\* A batch id nobody has seen.
FreshBatch(b) ==
  /\ \A r \in Calendar \cup Project \cup Holder : BatchOf(r) # b
  /\ \A q \in Slot : req[q].batch # b
Unused(r) == BatchOf(r) = Absent /\ \A u \in Slot : req[u].of # r

\* What a holder may use besides the library: nothing, if it is a resource.
Area(h) == IF h \in Plan THEN HomeOf[h] ELSE IF h \in Activity THEN HomeOf[PlanOf[h]] ELSE Org

\* assertCalendarUsableBy, but for the lock.
Usable(c, h) == IsLive(c) /\ cal[c].home \in {Org, Area(h)}

Users(c) == {h \in Holder : hold[h].cal = c /\ hold[h].batch # Absent}
PlanAbove(h) == IF h \in Plan THEN h ELSE PlanOf[h]
Under(p) == {p} \cup {a \in Activity : PlanOf[a] = p}
PlansIn(x) == {p \in Plan : HomeOf[p] = x}

\* The rows of S that are there get batch b.
StampCals(S, b) == [c \in Calendar |-> IF c \in S /\ IsLive(c) THEN [cal[c] EXCEPT !.batch = b] ELSE cal[c]]
StampHolders(S, b) == [h \in Holder |-> IF h \in S /\ IsLive(h) THEN [hold[h] EXCEPT !.batch = b] ELSE hold[h]]

-----------------------------------------------------------------------------
(* Locks and requests.                                                     *)

LockFree(l) == \A q \in Slot : l \notin req[q].holds
ShareFree(x) == \A q \in Slot : x \notin req[q].row
RowFree(x) == \A q \in Slot : x \notin req[q].row \cup req[q].share

Begin(q, request) ==
  /\ req[q] = Idle
  /\ req' = [req EXCEPT ![q] = request]
  /\ UNCHANGED <<cal, proj, hold>>

Step(q, request) ==
  /\ req' = [req EXCEPT ![q] = request]
  /\ UNCHANGED <<cal, proj, hold>>

Refused(q) == Step(q, Idle)

\* q commits and the rows in S have a new version.
Commit(q, S) ==
  req' = [u \in Slot |-> IF u = q THEN Idle
                        ELSE [req[u] EXCEPT !.current = @ /\ req[u].of \notin S]]

\* The next of the advisory locks q is about to take.
NextLock(q) == IF req[q].todo \subseteq Calendar THEN Min(req[q].todo)
               ELSE CHOOSE p \in req[q].todo : TRUE

TakeLock(q) ==
  LET l == NextLock(q)
  IN  /\ req[q].todo # {}
      /\ LockFree(l)
      /\ Step(q, [req[q] EXCEPT !.todo = @ \ {l}, !.holds = @ \cup {l}])

\* q is at this point and has the advisory locks it takes on the way to it.
At(q, op, at) == req[q].op = op /\ req[q].at = at /\ req[q].todo = {}

\* The project that q needs live: a plan's, or the one its calendar is in.
ProjectFor(q) == IF req[q].of \in Plan THEN HomeOf[req[q].of] ELSE req[q].home

\* lockActiveProjectChainForShare
TakeShare(q, next) ==
  LET x == ProjectFor(q)
  IN  /\ ShareFree(x)
      /\ IF IsLive(x) THEN Step(q, [next EXCEPT !.share = {x}]) ELSE Refused(q)

-----------------------------------------------------------------------------
(* Holders: create, bind, unbind, delete.                                  *)

\* A plan is created on the library's Standard calendar, if it has one.
AskAdd(q, h, c) ==
  /\ Unused(h)
  /\ c \in Known \cup {NoCal}
  /\ h \in Plan /\ c # NoCal => IsLive(c) /\ cal[c].home = Org
  /\ h \in Activity => IsLive(PlanOf[h])
  /\ Begin(q, [Idle EXCEPT !.op = "add", !.of = h, !.cal = c,
                 !.at = IF h \in Plan THEN "share" ELSE IF h \in Activity THEN "plans" ELSE "calendars",
                 !.todo = IF h \in Plan THEN {} ELSE IF h \in Activity THEN {PlanOf[h]} ELSE {c} \ {NoCal}])

\* An update that also switches the swimlanes, or moves the activity, takes the
\* plan's lock first.
AskBind(q, h, c) ==
  /\ IsLive(h) /\ c \in Known
  /\ h \in Activity => IsLive(PlanOf[h])
  /\ \/ Begin(q, [Idle EXCEPT !.op = "bind", !.of = h, !.cal = c, !.at = "calendars", !.todo = {c}])
     \/ /\ h \notin Resource
        /\ Begin(q, [Idle EXCEPT !.op = "bind", !.of = h, !.cal = c, !.at = "plans",
                                 !.todo = {PlanAbove(h)}])

\* The plan's lock is held: is the plan live still?  Then the calendar's lock.
HasPlanLock(q) ==
  /\ At(q, "add", "plans") \/ At(q, "bind", "plans")
  /\ IF IsLive(PlanAbove(req[q].of))
     THEN Step(q, [req[q] EXCEPT !.at = "calendars", !.todo = {req[q].cal} \ {NoCal}])
     ELSE Refused(q)

ShareForPlan(q) ==
  /\ At(q, "add", "share")
  /\ TakeShare(q, [req[q] EXCEPT !.at = "calendars", !.todo = {req[q].cal} \ {NoCal}])

\* A plan is created without its Standard, if that has gone.
Guard(q) ==
  LET c == req[q].cal
      gone == req[q].of \in Plan /\ req[q].op = "add" /\ ~IsLive(c)
  IN  /\ At(q, "add", "calendars") \/ At(q, "bind", "calendars")
      /\ IF c = NoCal \/ gone \/ Usable(c, req[q].of)
         THEN Step(q, [req[q] EXCEPT !.at = "commit", !.cal = IF c # NoCal /\ gone THEN NoCal ELSE c])
         ELSE Refused(q)

Add(q) ==
  /\ At(q, "add", "commit")
  /\ hold' = [hold EXCEPT ![req[q].of] = [batch |-> Live, cal |-> req[q].cal]]
  /\ Commit(q, {})
  /\ UNCHANGED <<cal, proj>>

\* updateIfVersionMatches
Bind(q) ==
  /\ At(q, "bind", "commit")
  /\ IF req[q].current /\ IsLive(req[q].of)
     THEN /\ hold' = [hold EXCEPT ![req[q].of].cal = req[q].cal]
          /\ Commit(q, {req[q].of})
          /\ UNCHANGED <<cal, proj>>
     ELSE Refused(q)

Unbind(h) ==
  /\ IsLive(h) /\ hold[h].cal # NoCal
  /\ hold' = [hold EXCEPT ![h].cal = NoCal]
  /\ req' = [u \in Slot |-> [req[u] EXCEPT !.current = @ /\ req[u].of # h]]
  /\ UNCHANGED <<cal, proj>>

\* Under the plan's lock, taken first and waited for with nothing held.
Drop(h, b) ==
  /\ IsLive(h) /\ FreshBatch(b)
  /\ h \in Plan => LockFree(h)
  /\ h \in Activity => LockFree(PlanOf[h])
  /\ hold' = StampHolders(IF h \in Plan THEN Under(h) ELSE {h}, b)
  /\ UNCHANGED <<cal, proj, req>>

-----------------------------------------------------------------------------
(* Calendars: create, change the tier, delete, restore.                    *)

\* The project is read before the insert and not locked.
AskNew(q, c, home) ==
  /\ Unused(c)
  /\ home \in Project => IsLive(home)
  /\ Begin(q, [Idle EXCEPT !.op = "new", !.of = c, !.home = home])

New(q) ==
  /\ At(q, "new", "commit")
  /\ cal' = [cal EXCEPT ![req[q].of] = [batch |-> Live, home |-> req[q].home]]
  /\ Commit(q, {})
  /\ UNCHANGED <<proj, hold>>

\* A widening goes straight to its write.
AskMove(q, c, home) ==
  /\ IsLive(c) /\ cal[c].home # home
  /\ home \in Project => IsLive(home)
  /\ Begin(q, [Idle EXCEPT !.op = "move", !.of = c, !.home = home,
                           !.at = IF home = Org THEN "commit" ELSE "calendars",
                           !.todo = IF home = Org THEN {} ELSE {c}])

\* Mutant of NarrowingAllowed: what is in the bin does not count.
NarrowingAllowedOfLive(c, x) == \A h \in Users(c) : IsLive(h) => Area(h) = x

\* assertNarrowingAllowed
NarrowingAllowed(c, x) == \A h \in Users(c) : Area(h) = x

CheckMove(q) ==
  /\ At(q, "move", "calendars")
  /\ IF NarrowingAllowed(req[q].of, req[q].home)
     THEN Step(q, [req[q] EXCEPT !.at = "commit"])
     ELSE Refused(q)

Move(q) ==
  /\ At(q, "move", "commit")
  /\ IF req[q].current /\ IsLive(req[q].of)
     THEN /\ cal' = [cal EXCEPT ![req[q].of].home = req[q].home]
          /\ Commit(q, {req[q].of})
          /\ UNCHANGED <<proj, hold>>
     ELSE Refused(q)

\* remove looks before its transaction, bulkRemove under the locks.
AskRemove(q, S) ==
  \E bulk \in BOOLEAN :
    /\ IF bulk THEN S \subseteq Known ELSE \E c \in Calendar : S = {c} /\ IsLive(c)
    /\ Begin(q, [Idle EXCEPT !.op = "remove", !.of = Min(S), !.at = "calendars",
                             !.bulk = bulk, !.todo = S])

InUse(c) == \E h \in Users(c) : IsLive(h)

CheckRemove(q) ==
  /\ At(q, "remove", "calendars")
  /\ IF \A c \in req[q].holds : (req[q].bulk => IsLive(c)) /\ ~InUse(c)
     THEN Step(q, [req[q] EXCEPT !.at = "commit"])
     ELSE Refused(q)

\* Each calendar is a batch of its own.
Remove(q, batch) ==
  /\ At(q, "remove", "commit")
  /\ \A c, d \in req[q].holds : FreshBatch(batch[c]) /\ (c # d => batch[c] # batch[d])
  /\ cal' = [c \in Calendar |-> IF c \in req[q].holds THEN StampCals({c}, batch[c])[c] ELSE cal[c]]
  /\ Commit(q, {})
  /\ UNCHANGED <<proj, hold>>

(* A restore: of a calendar, of a resource, or of what one delete took.    *)

Members(b) == {h \in Holder : hold[h].batch = b}
CalsOf(b) == {hold[h].cal : h \in Members(b)} \ {NoCal}

\* lockBatchCalendars: the calendars of the batch come before the share.
AskRestore(q, r) ==
  /\ IsDead(r)
  /\ Begin(q, [Idle EXCEPT !.op = "restore", !.of = r, !.batch = BatchOf(r),
                 !.at = IF r \in Activity THEN "plans" ELSE IF r \in Plan THEN "share" ELSE "calendars",
                 !.todo = IF r \in Activity THEN {PlanOf[r]}
                          ELSE IF r \in Calendar THEN {r} ELSE CalsOf(BatchOf(r))])

ReadBatch(q) ==
  /\ At(q, "restore", "plans")
  /\ IF IsDead(req[q].of)
     THEN Step(q, [req[q] EXCEPT !.at = "calendars", !.batch = BatchOf(req[q].of),
                                 !.todo = CalsOf(BatchOf(req[q].of))])
     ELSE Refused(q)

\* A calendar is read again under its lock.
Reread(q) ==
  LET c == req[q].of
  IN  /\ At(q, "restore", "calendars") /\ c \in Calendar
      /\ IF IsDead(c)
         THEN Step(q, [req[q] EXCEPT !.batch = cal[c].batch, !.home = cal[c].home,
                                     !.at = IF cal[c].home = Org THEN "commit" ELSE "share"])
         ELSE Refused(q)

ShareForRestore(q) ==
  /\ At(q, "restore", "share")
  /\ TakeShare(q, [req[q] EXCEPT !.at = IF req[q].of \in Plan THEN "calendars" ELSE "commit"])

\* A project brings back its own calendar that was deleted before it.
Stranded(q) ==
  {c \in CalsOf(req[q].batch) : /\ req[q].of \in Project /\ cal[c].home = req[q].of
                                /\ IsDead(c) /\ cal[c].batch # req[q].batch}

\* assertCalendarsActive, assertProjectCalendarsFit; a resource's calendar is
\* only asked to be live.
CalendarsFit(q) ==
  \A h \in Members(req[q].batch) :
    LET c == hold[h].cal
    IN  \/ c = NoCal
        \/ c # NoCal /\ cal[c].batch = req[q].batch
        \/ /\ c # NoCal
           /\ IsLive(c) \/ c \in Stranded(q)
           /\ h \in Resource \/ cal[c].home \in {Org, Area(h)}

CheckRestore(q) ==
  LET r == req[q].of
  IN  /\ At(q, "restore", "calendars") /\ r \notin Calendar
      /\ IF (r \in Activity => IsLive(PlanOf[r])) /\ CalendarsFit(q)
         THEN Step(q, [req[q] EXCEPT !.at = "commit", !.found = Stranded(q)])
         ELSE Refused(q)

\* restoreBatch, restoreWithExceptions
Restore(q) ==
  LET r == req[q].of
      b == req[q].batch
      back == IF r \in Calendar THEN {r} ELSE {c \in Calendar : cal[c].batch = b} \cup req[q].found
  IN  /\ At(q, "restore", "commit")
      /\ IF BatchOf(r) = b
         THEN /\ cal' = [c \in Calendar |-> IF c \in back THEN [cal[c] EXCEPT !.batch = Live] ELSE cal[c]]
              /\ IF r \in Calendar THEN UNCHANGED <<proj, hold>>
                 ELSE /\ proj' = [x \in Project |-> IF proj[x] = b THEN Live ELSE proj[x]]
                      /\ hold' = [h \in Holder |-> IF h \in Members(b) THEN [hold[h] EXCEPT !.batch = Live]
                                                   ELSE hold[h]]
              /\ Commit(q, req[q].found \cup ({r} \cap (Calendar \cup Resource)))
         ELSE Refused(q)

-----------------------------------------------------------------------------
(* The delete of a project: it takes its plans and its own calendars.      *)

AskSweep(q, x) ==
  /\ IsLive(x)
  /\ Begin(q, [Idle EXCEPT !.op = "sweep", !.of = x, !.at = "row"])

\* lockProjectRowForDelete, then the plans to lock.
LockRow(q) ==
  LET x == req[q].of
  IN  /\ At(q, "sweep", "row")
      /\ RowFree(x)
      /\ IF IsLive(x)
         THEN Step(q, [req[q] EXCEPT !.at = "plans", !.row = {x},
                                     !.todo = {p \in PlansIn(x) : IsLive(p)}])
         ELSE Refused(q)

\* deleteCalendarsUnderProjects reads which, then stamps them by their ids.
FindCalendars(q) ==
  /\ At(q, "sweep", "plans")
  /\ Step(q, [req[q] EXCEPT !.at = "commit",
                            !.found = {c \in Calendar : IsLive(c) /\ cal[c].home = req[q].of}])

Sweep(q, b) ==
  /\ At(q, "sweep", "commit")
  /\ FreshBatch(b)
  /\ cal' = StampCals(req[q].found, b)
  /\ hold' = StampHolders(UNION {Under(p) : p \in PlansIn(req[q].of)}, b)
  /\ proj' = [proj EXCEPT ![req[q].of] = b]
  /\ Commit(q, {})

\* An error, or the database ends a ring: nothing is left behind.
Fail(q) ==
  /\ req[q] # Idle
  /\ Refused(q)

-----------------------------------------------------------------------------
Ask ==
  \E q \in Slot :
    \/ \E h \in Holder, c \in Bound : AskAdd(q, h, c) \/ AskBind(q, h, c)
    \/ \E c \in Calendar, home \in Project \cup {Org} : AskNew(q, c, home) \/ AskMove(q, c, home)
    \/ \E S \in (SUBSET Calendar) \ {{}} : AskRemove(q, S)
    \/ \E r \in Holder \cup Calendar \cup Project : AskRestore(q, r)
    \/ \E x \in Project : AskSweep(q, x)

Work ==
  \E q \in Slot :
    \/ TakeLock(q)
    \/ HasPlanLock(q) \/ ShareForPlan(q) \/ Guard(q) \/ Add(q) \/ Bind(q)
    \/ New(q) \/ CheckMove(q) \/ Move(q)
    \/ CheckRemove(q) \/ \E batch \in [req[q].holds -> Batch] : Remove(q, batch)
    \/ ReadBatch(q) \/ Reread(q) \/ ShareForRestore(q) \/ CheckRestore(q) \/ Restore(q)
    \/ LockRow(q) \/ FindCalendars(q) \/ \E b \in Batch : Sweep(q, b)
    \/ Fail(q)

Direct == \E h \in Holder : Unbind(h) \/ \E b \in Batch : Drop(h, b)

CalendarsNext == Ask \/ Work \/ Direct

CalendarsSpec == CalendarsInit /\ [][CalendarsNext]_calendarsVars

-----------------------------------------------------------------------------
(* Properties.                                                             *)

\* A calendar that left project x between the two statements of x's delete
\* is swept with x all the same, whoever uses it.
SweptAfterMove(c) == \E x \in Project : cal[c].batch = proj[x] /\ IsDead(c) /\ cal[c].home # x

\* The rule of the scope guard (ADR-0053) and of ADR-0201, "a restore brings
\* nothing back onto a deleted calendar": whatever binds, deletes, narrows,
\* sweeps and restores run at once, what is live is scheduled on a calendar
\* that is live and that it may use; the one exception is SweptAfterMove.
HoldersKeepCalendar ==
  \A h \in Holder :
    IsLive(h) /\ hold[h].cal # NoCal => Usable(hold[h].cal, h) \/ SweptAfterMove(hold[h].cal)

\* Whose end q waits for.
Blockers(q) ==
  {u \in Slot \ {q} :
     \/ req[q].todo # {} /\ NextLock(q) \in req[u].holds
     \/ /\ req[q].todo = {} /\ req[q].at = "share"
        /\ ProjectFor(q) \in req[u].row
     \/ req[q].at = "row" /\ req[q].of \in req[u].row \cup req[u].share}

\* "No cycle" (docs/specs/deleted-calendar-restore/spec.md): no requests wait
\* for each other in a ring.  Of two requests this holds; of three it does not
\* (README, section 4), and no run checks it.
NoRing == Acyclic(Slot, {e \in Edges(Slot) : e[2] \in Blockers(e[1])})
=============================================================================
