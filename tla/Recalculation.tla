--------------------------- MODULE Recalculation ---------------------------
(***************************************************************************)
(* Recalculating the plans of an organisation, alone and as a programme    *)
(* (ADR-0022, ADR-0045), beside the edits that change what a calculation   *)
(* reads and the stamps that tell whether it is out of date.               *)
(*                                                                         *)
(* A recalculation reads the plan row (its start, calendar and options),   *)
(* opens a transaction, whose now() is fixed then, waits for the plan's    *)
(* advisory lock, reads the network and the dates of the plans upstream,   *)
(* computes, and writes results, stamp and commit.  A programme does this  *)
(* for a plan's upstream closure, one transaction per plan.                *)
(*                                                                         *)
(* Data are revisions: net[p] counts the committed edits to the rows of    *)
(* plan p, opt[p] those to its plan row, results[p].rev its calculations.  *)
(* Edits stamp schedule_inputs_changed_at in their last statement, which   *)
(* locks the plan row until they commit:                                   *)
(*   "locked"    under the plan's advisory lock (dependencies, create,     *)
(*               re-file, delete of activities, ...);                      *)
(*   "open"      without it (assignments, link updates, ...);              *)
(*   "settings"  the plan's own PATCH, without it, on the plan row;        *)
(*   "shared"    a calendar or resource, stamping every plan that uses it. *)
(*                                                                         *)
(* Every reading of the clock is later than the one before.                *)
(***************************************************************************)
EXTENDS Integers, Sequences, FiniteSets

CONSTANTS
  Plan,      \* plan ids, numbers in the order of the ids
  Upstream,  \* <<p, q>>: q derives dates from p over an active link
  Programmes,\* the orders in which plans are recalculated: one plan alone, or
             \* a closure as resolveProgrammeOrder sorts it
  Req,       \* slots for requests being served at the same time
  NoReq,     \* nobody has a lock
  MaxRequests \* bound on the requests served (model checking only)

ASSUME RecalculationAssumption ==
  /\ Plan \subseteq Nat
  /\ Upstream \subseteq Plan \X Plan
  /\ Programmes \subseteq Seq(Plan) \ {<<>>}
  /\ \A order \in Programmes : \A i, j \in DOMAIN order :
       <<order[i], order[j]>> \in Upstream => i < j
  /\ NoReq \notin Req /\ MaxRequests \in Nat

VARIABLES
  clock,    \* the last reading of the database's clock
  net,      \* committed revision of what a plan's transaction reads
  mustSee,  \* the newest of them that was committed under the plan's lock
  opt,      \* committed revision of the plan row's start and options
  gone,     \* plans that are deleted
  inputsAt, \* schedule_inputs_changed_at, 0 as created
  cursor,   \* schedule_computed_at (0 for null) and the criticality rule beside it
  results,  \* what the stored dates of a plan were computed from
  lock,     \* who has the plan's advisory lock
  rowLock,  \* who has the plan's row
  served,   \* how many requests have arrived
  call      \* what each request slot is doing

data == <<net, mustSee, opt, gone, inputsAt, cursor, results>>
locks == <<lock, rowLock>>
vars == <<clock, data, locks, served, call>>

Edits == {"locked", "open", "settings", "shared"}

Never == [at |-> 0, opt |-> 0]
NoResults == [rev |-> 0, at |-> 0, net |-> 0, opt |-> 0, up |-> [p \in Plan |-> 0]]
Idle == [pc |-> "idle"]

Pc == {"load", "begin", "wait", "locked", "write", "respond", "stamp", "commit"}
Ops == Edits \cup {"recalc", "delete"}
Call == {Idle} \cup
        [pc: Pc, op: Ops,
         todo: Seq(Plan),          \* plans still to recalculate
         plans: SUBSET Plan,       \* plans of an edit
         at: Nat,                  \* now() of the transaction, then an edit's stamp
         net: Nat, opt: Nat, up: [Plan -> Nat],  \* revisions read
         wrote: [Plan -> Nat]]     \* the revision of the results it wrote

TypeOK ==
  /\ {clock, served} \subseteq Nat
  /\ {net, mustSee, opt, inputsAt} \subseteq [Plan -> Nat]
  /\ gone \subseteq Plan
  /\ cursor \in [Plan -> [at: Nat, opt: Nat]]
  /\ results \in [Plan -> [rev: Nat, at: Nat, net: Nat, opt: Nat, up: [Plan -> Nat]]]
  /\ {lock, rowLock} \subseteq [Plan -> Req \cup {NoReq}]
  /\ call \in [Req -> Call]

Zero == [p \in Plan |-> 0]

Init ==
  /\ clock = 0 /\ served = 0
  /\ net = Zero /\ mustSee = Zero /\ opt = Zero /\ inputsAt = Zero
  /\ gone = {}
  /\ cursor = [p \in Plan |-> Never]
  /\ results = [p \in Plan |-> NoResults]
  /\ lock = [p \in Plan |-> NoReq]
  /\ rowLock = [p \in Plan |-> NoReq]
  /\ call = [r \in Req |-> Idle]

-----------------------------------------------------------------------------
(* Requests and their transactions.                                        *)

Is(r, op, pc) == call[r] # Idle /\ call[r].op = op /\ call[r].pc = pc
Goto(r, pc) == call' = [call EXCEPT ![r].pc = pc]

Done(r) == call' = [call EXCEPT ![r] = Idle]

\* The plan a recalculation is working on.
At(r) == Head(call[r].todo)

\* A new reading of the clock.
ReadClock == clock' = clock + 1

\* The transaction ends: its locks are released.
Without(ls, r) == [p \in Plan |-> IF ls[p] = r THEN NoReq ELSE ls[p]]
EndTx(r) == lock' = Without(lock, r) /\ rowLock' = Without(rowLock, r)

\* Which edits and deletes take the plan's lock, and where a request goes on.
Locking == {"locked", "delete"}
FirstPc(op) == IF op = "recalc" THEN "load" ELSE IF op \in Locking THEN "wait" ELSE "stamp"
PcUnderLock(op) == IF op = "recalc" THEN "locked" ELSE IF op = "locked" THEN "stamp" ELSE "commit"

Arrive(r, op, todo, plans) ==
  /\ call[r] = Idle
  /\ served < MaxRequests
  /\ served' = served + 1
  /\ call' = [call EXCEPT ![r] =
       [pc |-> FirstPc(op), op |-> op, todo |-> todo, plans |-> plans, at |-> clock,
        net |-> 0, opt |-> 0, up |-> Zero, wrote |-> Zero]]
  /\ UNCHANGED <<clock, data, locks>>

ArriveAny(r) ==
  \/ \E order \in Programmes : Arrive(r, "recalc", order, {})
  \/ \E p \in Plan, op \in {"locked", "open", "settings", "delete"} :
       Arrive(r, op, <<>>, {p})
  \/ \E S \in (SUBSET Plan) \ {{}} : Arrive(r, "shared", <<>>, S)

\* Mutant of LockPlan: nobody waits for the lock.
LockPlanAnyway(r, p) ==
  /\ call[r] # Idle /\ call[r].pc = "wait"
  /\ p \in (IF call[r].op = "recalc" THEN {At(r)} ELSE call[r].plans)
  /\ Goto(r, PcUnderLock(call[r].op))
  /\ UNCHANGED <<clock, data, locks, served>>

\* lockPlanForWrite, or acquirePlanWriteLock: a recalculation of the plan at
\* hand, an edit or delete of its only plan.
LockPlan(r, p) ==
  /\ call[r] # Idle /\ call[r].pc = "wait"
  /\ p \in (IF call[r].op = "recalc" THEN {At(r)} ELSE call[r].plans)
  /\ lock[p] = NoReq
  /\ lock' = [lock EXCEPT ![p] = r]
  /\ Goto(r, PcUnderLock(call[r].op))
  /\ UNCHANGED <<clock, data, rowLock, served>>

-----------------------------------------------------------------------------
(* Recalculating one plan.                                                 *)

\* The plan row is read, before the transaction.
LoadPlan(r) ==
  /\ Is(r, "recalc", "load")
  /\ At(r) \notin gone
  /\ call' = [call EXCEPT ![r].pc = "begin", ![r].opt = opt[At(r)]]
  /\ UNCHANGED <<clock, data, locks, served>>

\* The transaction opens and its now() is fixed; the lock comes after.
Begin(r) ==
  /\ Is(r, "recalc", "begin")
  /\ ReadClock
  /\ call' = [call EXCEPT ![r].pc = "wait", ![r].at = clock']
  /\ UNCHANGED <<data, locks, served>>

\* Mutant of ReadNetwork: the dates upstream are read once per programme.
ReadNetworkOnce(r) ==
  /\ Is(r, "recalc", "locked")
  /\ call' = [call EXCEPT ![r].pc = "write", ![r].net = net[At(r)],
                          ![r].up = IF call[r].wrote # Zero THEN call[r].up
                                    ELSE [p \in Plan |-> results[p].rev]]
  /\ UNCHANGED <<clock, data, locks, served>>

\* buildEngineGraph: the plan's network, and the stored dates upstream.
ReadNetwork(r) ==
  /\ Is(r, "recalc", "locked")
  /\ call' = [call EXCEPT ![r].pc = "write", ![r].net = net[At(r)],
                          ![r].up = [p \in Plan |-> results[p].rev]]
  /\ UNCHANGED <<clock, data, locks, served>>

\* Mutant of StampOf: the criticality rule is read again from the plan row.
StampOfRow(r) == [at |-> call[r].at, opt |-> opt[At(r)]]

\* stampScheduleComputedAt: now(), and the rule the engine ran with.
StampOf(r) == [at |-> call[r].at, opt |-> call[r].opt]

\* The results and the cursor, unless the plan was deleted meanwhile; then the
\* next plan of the programme.
WriteResults(r) ==
  LET p == At(r)
      rev == results[p].rev + 1
      rest == Tail(call[r].todo)
      wrote == IF p \in gone THEN call[r].wrote ELSE [call[r].wrote EXCEPT ![p] = rev]
  IN  /\ Is(r, "recalc", "write")
      /\ rowLock[p] = NoReq
      /\ IF p \in gone THEN UNCHANGED <<results, cursor>>
         ELSE /\ results' = [results EXCEPT ![p] =
                   [rev |-> rev, at |-> call[r].at, net |-> call[r].net,
                    opt |-> call[r].opt, up |-> call[r].up]]
              /\ cursor' = [cursor EXCEPT ![p] = StampOf(r)]
      /\ call' = [call EXCEPT ![r].pc = IF rest = <<>> THEN "respond" ELSE "load",
                              ![r].todo = rest, ![r].wrote = wrote]
      /\ EndTx(r)
      /\ UNCHANGED <<clock, net, mustSee, opt, gone, inputsAt, served>>

Respond(r) ==
  /\ Is(r, "recalc", "respond")
  /\ Done(r)
  /\ UNCHANGED <<clock, data, locks, served>>

\* 404; or, inside the transaction, no pen or a calendar that runs out.  The
\* plans of a programme that are done stay done.
RecalculationFails(r) ==
  /\ \/ Is(r, "recalc", "load") /\ At(r) \in gone
     \/ Is(r, "recalc", "locked") \/ Is(r, "recalc", "write")
  /\ Done(r)
  /\ EndTx(r)
  /\ UNCHANGED <<clock, data, served>>

-----------------------------------------------------------------------------
(* Edits.                                                                  *)

\* Mutant of RowsDue: the rows are locked in the order the caller names them.
RowsDueAnyhow(r) == {p \in call[r].plans : rowLock[p] # r}

\* The row markScheduleInputsChanged locks next: rows are locked in id order.
RowsDue(r) ==
  {p \in call[r].plans : rowLock[p] # r /\ \A q \in call[r].plans : q < p => rowLock[q] = r}

LockRow(r) ==
  /\ call[r] # Idle /\ call[r].op \in Edits /\ call[r].pc = "stamp"
  /\ \E p \in RowsDue(r) :
       rowLock[p] = NoReq /\ rowLock' = [rowLock EXCEPT ![p] = r]
  /\ UNCHANGED <<clock, data, lock, served, call>>

\* Mutant of StampInputs: the stamp is the now() of the edit's transaction.
StampInputsNow(r) ==
  /\ call[r] # Idle /\ call[r].op \in Edits /\ call[r].pc = "stamp"
  /\ \A p \in call[r].plans : rowLock[p] = r
  /\ Goto(r, "commit")
  /\ UNCHANGED <<clock, data, locks, served>>

\* clock_timestamp() once the rows are locked, as the last statement.
StampInputs(r) ==
  /\ call[r] # Idle /\ call[r].op \in Edits /\ call[r].pc = "stamp"
  /\ \A p \in call[r].plans : rowLock[p] = r
  /\ ReadClock
  /\ call' = [call EXCEPT ![r].pc = "commit", ![r].at = clock']
  /\ UNCHANGED <<data, locks, served>>

Later(s, t) == IF s > t THEN s ELSE t

\* The edit and its stamp become visible together.
CommitEdit(r) ==
  LET c == call[r]
      Bump(f, when) == [p \in Plan |-> IF when /\ p \in c.plans THEN f[p] + 1 ELSE f[p]]
  IN  /\ c # Idle /\ c.op \in Edits /\ c.pc = "commit"
      /\ net' = Bump(net, c.op # "settings")
      /\ opt' = Bump(opt, c.op = "settings")
      /\ mustSee' = [p \in Plan |-> IF c.op = "locked" /\ p \in c.plans THEN net'[p]
                                    ELSE mustSee[p]]
      /\ inputsAt' = [p \in Plan |-> IF p \in c.plans THEN Later(inputsAt[p], c.at)
                                     ELSE inputsAt[p]]
      /\ Done(r)
      /\ EndTx(r)
      /\ UNCHANGED <<clock, gone, cursor, results, served>>

DeletePlan(r) ==
  /\ Is(r, "delete", "commit")
  /\ \A p \in call[r].plans : rowLock[p] = NoReq
  /\ gone' = gone \cup call[r].plans
  /\ Done(r)
  /\ EndTx(r)
  /\ UNCHANGED <<clock, net, mustSee, opt, inputsAt, cursor, results, served>>

-----------------------------------------------------------------------------
Step(r) ==
  \/ \E p \in Plan : LockPlan(r, p)
  \/ LoadPlan(r) \/ Begin(r) \/ ReadNetwork(r) \/ WriteResults(r)
  \/ Respond(r) \/ RecalculationFails(r)
  \/ LockRow(r) \/ StampInputs(r) \/ CommitEdit(r) \/ DeletePlan(r)

Next == \E r \in Req : ArriveAny(r) \/ Step(r)

\* The server goes on with every request it has begun to serve, and the
\* database grants a lock that stays free.
Spec == Init /\ [][Next]_vars /\ \A r \in Req : WF_vars(Step(r))

-----------------------------------------------------------------------------
(* Properties.                                                             *)

\* isEditedSinceCalculated
Flagged(p) == cursor[p].at # 0 /\ inputsAt[p] > cursor[p].at

\* computeStaleness, for one plan upstream
IsUpstreamNewer(p, q) == cursor[p].at # 0 /\ cursor[p].at > cursor[q].at

\* A plan whose dates were computed before an edit made under the plan's lock
\* is flagged, whichever of the two transactions began first and however long
\* they waited for each other.
LockedEditsAreFlagged ==
  \A p \in Plan : results[p].rev > 0 /\ results[p].net < mustSee[p] => Flagged(p)

\* The cursor, the rule stamped beside it and the dates come from the same
\* calculation, although the plan row may have changed since it was read.
CursorDescribesResults ==
  \A p \in Plan : results[p].rev > 0 =>
    cursor[p] = [at |-> results[p].at, opt |-> results[p].opt]

\* A programme leaves no plan computed from dates upstream older than its own:
\* unless another calculation replaced them, each plan's results were computed
\* from what the same programme had written upstream.
ProgrammeIsUpToDate ==
  \A r \in Req : call[r] # Idle =>
    \A e \in Upstream :
      LET p == e[1]
          q == e[2]
      IN  call[r].wrote[p] > 0 /\ call[r].wrote[q] > 0
            /\ results[q].rev = call[r].wrote[q] =>
          results[q].up[p] >= call[r].wrote[p]

\* The stored dates of a plan never go back to an older network.
ResultsMoveForward ==
  [][\A p \in Plan : results'[p].net >= results[p].net]_vars

\* No set of requests waits for itself: whatever locks they take, each ends.
EveryRequestEnds == \A r \in Req : call[r] # Idle ~> call[r] = Idle

\* The summary's staleness flag: a plan whose dates were derived from an older
\* schedule of a plan upstream is reported stale.
\* No run checks it: TLC refutes it (README, section 4).
OldDatesAreReported ==
  \A e \in Upstream :
    results[e[2]].rev > 0 /\ results[e[2]].up[e[1]] < results[e[1]].rev
      => IsUpstreamNewer(e[1], e[2])
=============================================================================
