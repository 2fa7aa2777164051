----------------------------- MODULE CrossPlan -----------------------------
(***************************************************************************)
(* The links between activities of different plans of one organisation     *)
(* (inter-project dependencies, ADR-0045): create and remove, each request *)
(* statement by statement.                                                 *)
(*                                                                         *)
(* A create loads both ends before its transaction; inside it, under the   *)
(* organisation's advisory lock, it reads all active links, refuses a      *)
(* cycle among the plans, checks the pen of the successor's plan and a     *)
(* duplicate, and inserts.  A remove checks the pen first and then stamps  *)
(* the row in one guarded UPDATE, without the lock.  Both plans' inputs    *)
(* are stamped, and the change is recorded, in the same transaction.       *)
(*                                                                         *)
(* Neither holds a plan's advisory lock, so the pen can pass from hand to  *)
(* hand, and activities can be deleted and restored, between any two       *)
(* statements.  The link's lag is not modelled.                            *)
(***************************************************************************)
EXTENDS PlanGraph

CONSTANTS
  Plan,      \* plan ids: numbers, in the order of the ids
  Act,       \* activity ids
  PlanOf,    \* the plan of each activity
  Type,      \* link types (FS, SS, FF, SF)
  Member,    \* members who may link plans (Planner, Org Admin)
  NoOne,     \* nobody holds a plan's pen
  Req,       \* slots for requests being served at the same time
  NoReq,     \* nobody has the organisation's lock
  Enforced,  \* PLAN_EDIT_LOCK_ENFORCED
  Deletable, \* the activities that may be deleted (bounds the model checking)
  Contested, \* the plans whose pens pass (bounds the model checking)
  Asked,     \* the links that requests ask for (bounds the model checking)
  MaxLinks   \* bound on the link rows (model checking only)

\* Ids are UUIDs, so there are finitely many: the searches end.
ASSUME CrossPlanAssumption ==
  /\ Plan \subseteq Nat /\ IsFiniteSet(Plan)
  /\ PlanOf \in [Act -> Plan]
  /\ NoOne \notin Member /\ NoReq \notin Req
  /\ Enforced \in BOOLEAN /\ MaxLinks \in Nat
  /\ Deletable \subseteq Act /\ Contested \subseteq Plan
  /\ Asked \subseteq Act \X Act \X Type

VARIABLES
  live,     \* the activities that are not deleted
  pen,      \* who holds each plan's pen
  links,    \* the link rows in the order of their creation
  stamps,   \* how often each plan's inputs were stamped
  orgLock,  \* the request in the organisation's cross-plan lock, or NoReq
  call      \* what each request slot is doing

vars == <<live, pen, links, stamps, orgLock, call>>

\* A link row: its ends and type, whether it is active, and how often the
\* history of its ends says it was removed.
LinkRow == [from: Act, to: Act, type: Type, active: BOOLEAN, removals: Nat]

InTx == {"locked", "walk", "insert"}
Pc == InTx \cup {"idle", "load", "queued", "check", "remove"}
Idle == [pc |-> "idle"]
Call == {Idle} \cup
        [pc: Pc \ {"idle"}, user: Member, from: Act, to: Act, type: Type, link: Nat,
         seen: SUBSET (Plan \X Plan)]

TypeOK ==
  /\ live \subseteq Act
  /\ pen \in [Plan -> Member \cup {NoOne}]
  /\ links \in Seq(LinkRow)
  /\ stamps \in [Plan -> Nat]
  /\ orgLock \in Req \cup {NoReq}
  /\ call \in [Req -> Call]

Init ==
  /\ live = Act
  /\ pen \in [Plan -> Member \cup {NoOne}]
  /\ \A p \in Plan \ Contested : pen[p] # NoOne
  /\ links = <<>>
  /\ stamps = [p \in Plan |-> 0]
  /\ orgLock = NoReq
  /\ call = [r \in Req |-> Idle]

-----------------------------------------------------------------------------
(* What the rows amount to.                                                *)

Twins(i, j) ==
  /\ links[i].from = links[j].from /\ links[i].to = links[j].to
  /\ links[i].type = links[j].type
Touches(i, p) == p \in {PlanOf[links[i].from], PlanOf[links[i].to]}

PlanPair(row) == <<PlanOf[row.from], PlanOf[row.to]>>

\* loadOrgAdjacency: the active links at plan grain, and as a set of pairs,
\* which is all the walk of the cycle check makes of them.
Adjacency == [i \in {j \in DOMAIN links : links[j].active} |-> PlanPair(links[i])]
PlanEdges == {PlanPair(links[i]) : i \in {j \in DOMAIN links : links[j].active}}

HoldsPen(u, p) == ~Enforced \/ pen[p] = u

\* markScheduleInputsChanged for both plans of a link.
Stamp(a, b) ==
  stamps' = [p \in Plan |->
               IF p \in {PlanOf[a], PlanOf[b]} THEN stamps[p] + 1 ELSE stamps[p]]

Goto(r, pc) == call' = [call EXCEPT ![r].pc = pc]
Done(r) == call' = [call EXCEPT ![r] = Idle]

\* The transaction ends, by a commit or a thrown error.
EndTx(r) == orgLock' = NoReq /\ Done(r)

-----------------------------------------------------------------------------
(* Create.                                                                 *)

\* The predecessor is loaded and found active; the successor is loaded next.
ArriveCreate(r, u, a, b, ty) ==
  /\ call[r] = Idle
  /\ a \in live
  /\ call' = [call EXCEPT ![r] = [pc |-> "load", user |-> u, from |-> a, to |-> b,
                                  type |-> ty, link |-> 0, seen |-> {}]]
  /\ UNCHANGED <<live, pen, links, stamps, orgLock>>

LoadSuccessor(r) ==
  /\ call[r].pc = "load"
  /\ call[r].to \in live
  /\ PlanOf[call[r].from] # PlanOf[call[r].to]
  /\ Goto(r, "queued")
  /\ UNCHANGED <<live, pen, links, stamps, orgLock>>

\* 404, or 422 CROSS_PLAN_SAME_PLAN
LoadRefused(r) ==
  /\ call[r].pc = "load"
  /\ call[r].to \notin live \/ PlanOf[call[r].from] = PlanOf[call[r].to]
  /\ Done(r)
  /\ UNCHANGED <<live, pen, links, stamps, orgLock>>

\* Mutant of EnterTx: the lock is not taken.
EnterTxUnserialised(r) ==
  /\ call[r].pc = "queued"
  /\ orgLock' = r
  /\ Goto(r, "locked")
  /\ UNCHANGED <<live, pen, links, stamps>>

EnterTx(r) ==
  /\ call[r].pc = "queued"
  /\ orgLock = NoReq
  /\ orgLock' = r
  /\ Goto(r, "locked")
  /\ UNCHANGED <<live, pen, links, stamps>>

ReadAdjacency(r) ==
  /\ call[r].pc = "locked"
  /\ call' = [call EXCEPT ![r].pc = "walk", ![r].seen = PlanEdges]
  /\ UNCHANGED <<live, pen, links, stamps, orgLock>>

ClosesCycle(r) ==
  WouldCreatePlanCycle(Plan, call[r].seen, PlanOf[call[r].from], PlanOf[call[r].to])

\* No cycle, and the caller has the pen of the successor's plan.
CheckCreate(r) ==
  /\ call[r].pc = "walk"
  /\ ~ClosesCycle(r)
  /\ HoldsPen(call[r].user, PlanOf[call[r].to])
  /\ call' = [call EXCEPT ![r].pc = "insert", ![r].seen = {}]
  /\ UNCHANGED <<live, pen, links, stamps, orgLock>>

\* 409 CROSS_PLAN_CYCLE_DETECTED, or 423
CheckRefused(r) ==
  /\ call[r].pc = "walk"
  /\ ClosesCycle(r) \/ ~HoldsPen(call[r].user, PlanOf[call[r].to])
  /\ EndTx(r)
  /\ UNCHANGED <<live, pen, links, stamps>>

\* Mutant of Duplicate: the ends are compared the wrong way round.
DuplicateReversed(r) ==
  \E i \in DOMAIN links :
    /\ links[i].active
    /\ links[i].from = call[r].to /\ links[i].to = call[r].from
    /\ links[i].type = call[r].type

\* Links of other types between the two are no duplicates (the SS+FF ladder).
Duplicate(r) ==
  \E i \in DOMAIN links :
    /\ links[i].active
    /\ links[i].from = call[r].from /\ links[i].to = call[r].to
    /\ links[i].type = call[r].type

Insert(r) ==
  /\ call[r].pc = "insert"
  /\ ~Duplicate(r)
  /\ Len(links) < MaxLinks
  /\ links' = Append(links, [from |-> call[r].from, to |-> call[r].to,
                             type |-> call[r].type, active |-> TRUE, removals |-> 0])
  /\ Stamp(call[r].from, call[r].to)
  /\ EndTx(r)
  /\ UNCHANGED <<live, pen>>

\* 409 DUPLICATE_CROSS_PLAN_DEPENDENCY, or a later statement failed
InsertRefused(r) ==
  /\ call[r].pc = "insert"
  /\ EndTx(r)
  /\ UNCHANGED <<live, pen, links, stamps>>

-----------------------------------------------------------------------------
(* Remove.                                                                 *)

\* The link is loaded and found active.
ArriveRemove(r, u, i) ==
  /\ call[r] = Idle
  /\ links[i].active
  /\ call' = [call EXCEPT ![r] = [pc |-> "check", user |-> u, from |-> links[i].from,
                                  to |-> links[i].to, type |-> links[i].type,
                                  link |-> i, seen |-> {}]]
  /\ UNCHANGED <<live, pen, links, stamps, orgLock>>

CheckRemove(r) ==
  /\ call[r].pc = "check"
  /\ HoldsPen(call[r].user, PlanOf[call[r].to])
  /\ Goto(r, "remove")
  /\ UNCHANGED <<live, pen, links, stamps, orgLock>>

RemoveRefused(r) ==
  /\ call[r].pc = "check"
  /\ ~HoldsPen(call[r].user, PlanOf[call[r].to])
  /\ Done(r)
  /\ UNCHANGED <<live, pen, links, stamps, orgLock>>

\* Mutant of Remove: recorded and stamped whether or not the row was active.
RemoveUncounted(r) ==
  /\ call[r].pc = "remove"
  /\ links' = [links EXCEPT ![call[r].link].active = FALSE,
                            ![call[r].link].removals = @ + 1]
  /\ Stamp(call[r].from, call[r].to)
  /\ Done(r)
  /\ UNCHANGED <<live, pen, orgLock>>

\* UPDATE ... WHERE deleted_at IS NULL; only the transaction that changed the
\* row records it.
Remove(r) ==
  /\ call[r].pc = "remove"
  /\ IF links[call[r].link].active
     THEN /\ links' = [links EXCEPT ![call[r].link].active = FALSE,
                                    ![call[r].link].removals = @ + 1]
          /\ Stamp(call[r].from, call[r].to)
     ELSE UNCHANGED <<links, stamps>>
  /\ Done(r)
  /\ UNCHANGED <<live, pen, orgLock>>

-----------------------------------------------------------------------------
(* What happens around them: activities are deleted and restored by their  *)
(* plan's own operations, which do not touch these links, and pens pass.   *)

DeleteOrRestore(a) ==
  /\ a \in Deletable
  /\ live' = IF a \in live THEN live \ {a} ELSE live \cup {a}
  /\ UNCHANGED <<pen, links, stamps, orgLock, call>>

PassPen(p, u) ==
  /\ Enforced /\ p \in Contested
  /\ pen' = [pen EXCEPT ![p] = u]
  /\ UNCHANGED <<live, links, stamps, orgLock, call>>

Serve(r) ==
  \/ \E u \in Member, e \in Asked : ArriveCreate(r, u, e[1], e[2], e[3])
  \/ LoadSuccessor(r) \/ LoadRefused(r)
  \/ EnterTx(r) \/ ReadAdjacency(r)
  \/ CheckCreate(r) \/ CheckRefused(r)
  \/ Insert(r) \/ InsertRefused(r)
  \/ \E u \in Member, i \in DOMAIN links : ArriveRemove(r, u, i)
  \/ CheckRemove(r) \/ RemoveRefused(r) \/ Remove(r)

Next ==
  \/ \E r \in Req : Serve(r)
  \/ \E a \in Act : DeleteOrRestore(a)
  \/ \E p \in Plan, u \in Member \cup {NoOne} : PassPen(p, u)

Spec == Init /\ [][Next]_vars

-----------------------------------------------------------------------------
(* Properties.                                                             *)

\* ADR-0045: the graph of the organisation's plans has no cycle, although
\* creates check it against links they read earlier while others are created,
\* removed and, in other plans, edited.
PlanGraphAcyclic == Acyclic(Plan, PlanEdges)

\* No two active links have the same ends and the same type, whichever requests
\* create and remove them at once; links of different types may join the same
\* two activities (uq_cross_plan_dependencies_pred_succ_type).
NoTwins ==
  \A i, j \in DOMAIN links :
    i # j /\ Twins(i, j) => ~(links[i].active /\ links[j].active)

\* Each link is recorded as removed exactly once when it is, however many
\* requests remove it at once, and the inputs of a plan are stamped once for
\* every link created at it and every link removed from it.
ChangesCountedOnce ==
  /\ \A i \in DOMAIN links : links[i].removals = (IF links[i].active THEN 0 ELSE 1)
  /\ \A p \in Plan :
       stamps[p] = Cardinality({i \in DOMAIN links : Touches(i, p)})
                   + Cardinality({i \in DOMAIN links : Touches(i, p) /\ ~links[i].active})

\* Whatever links there are, the order a programme is recalculated in names
\* every plan upstream of the target once, each before the plans that derive
\* from it, the target last; it never comes out short.
ProgrammeOrdered ==
  \A t \in Plan :
    LET order == ResolveProgrammeOrder(Plan, Adjacency, t)
        closure == Reach(Plan, Mirror(Adjacency), t)
    IN  /\ {order[i] : i \in DOMAIN order} = closure
        /\ Len(order) = Cardinality(closure)
        /\ order[Len(order)] = t
        /\ \A i, j \in DOMAIN order : <<order[i], order[j]>> \in PlanEdges => i < j

\* The comment in create: the pen is asserted "INSIDE the advisory lock so a
\* steal can't slip between the check and the insert".
\* No run checks it: TLC refutes it (README, section 4).
LinkUnderOwnPen ==
  \A r \in Req :
    Enforced /\ call[r].pc = "insert" =>
      pen[PlanOf[call[r].to]] \in {call[r].user, NoOne}
=============================================================================
