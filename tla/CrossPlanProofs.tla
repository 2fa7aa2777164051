--------------------------- MODULE CrossPlanProofs ---------------------------
(***************************************************************************)
(* For finitely many plans, any activities, members and request slots, and *)
(* without the bounds of the model checking: the rows are well typed, the  *)
(* graph of the plans stays acyclic, no two active links have the same     *)
(* ends and type, each change is counted once, and a programme's order is  *)
(* upstream first.                                                         *)
(*                                                                         *)
(* Acyclicity needs what a request carries from its check to its insert:   *)
(* one request at a time is inside the organisation's lock, so the links   *)
(* it has read still cover the active ones, and the link it has checked    *)
(* still closes no cycle, although others may have been removed since.     *)
(* The order then follows from what each round of Kahn's algorithm keeps   *)
(* (KahnSound), by induction over the rounds.                              *)
(***************************************************************************)
EXTENDS CrossPlan, DigraphProofs, FiniteSetTheorems

\* Who is in the transaction has the lock.
LockHeld == \A r \in Req : call[r].pc \in InTx => orgLock = r

\* What it read covers the links there are.
SeenCovers == \A r \in Req : call[r].pc = "walk" => PlanEdges \subseteq call[r].seen

\* What it checked stays checked.
Checked ==
  \A r \in Req : call[r].pc = "insert" =>
    PlanOf[call[r].from] \notin Reach(Plan, PlanEdges, PlanOf[call[r].to])

IInv == TypeOK /\ PlanGraphAcyclic /\ NoTwins /\ LockHeld /\ SeenCovers /\ Checked

-----------------------------------------------------------------------------
(* Calls.                                                                  *)

LEMMA CallFields ==
  ASSUME TypeOK, NEW r \in Req, call[r].pc # "idle"
  PROVE  /\ call[r] \in [pc: Pc \ {"idle"}, user: Member, from: Act, to: Act, type: Type,
                         link: Nat, seen: SUBSET (Plan \X Plan)]
         /\ PlanOf[call[r].from] \in Plan /\ PlanOf[call[r].to] \in Plan
<1>1. call[r] \in Call
  BY DEF TypeOK
<1>2. call[r] # Idle
  BY DEF Idle
<1>3. call[r] \in [pc: Pc \ {"idle"}, user: Member, from: Act, to: Act, type: Type,
                   link: Nat, seen: SUBSET (Plan \X Plan)]
  BY <1>1, <1>2 DEF Call
<1> QED BY <1>3, CrossPlanAssumption

LEMMA GotoTyped ==
  ASSUME TypeOK, NEW r \in Req, call[r].pc # "idle", NEW pc \in Pc \ {"idle"}, Goto(r, pc)
  PROVE  /\ call' \in [Req -> Call]
         /\ call'[r].pc = pc
         /\ call'[r].from = call[r].from /\ call'[r].to = call[r].to
         /\ call'[r].seen = call[r].seen
         /\ \A q \in Req \ {r} : call'[q] = call[q]
<1>1. call[r] \in [pc: Pc \ {"idle"}, user: Member, from: Act, to: Act, type: Type,
                   link: Nat, seen: SUBSET (Plan \X Plan)]
  BY CallFields
<1>2. [call[r] EXCEPT !.pc = pc] \in Call
  BY <1>1 DEF Call
<1>3. call \in [Req -> Call]
  BY DEF TypeOK
<1> QED BY <1>1, <1>2, <1>3 DEF Goto

LEMMA DoneTyped ==
  ASSUME TypeOK, NEW r \in Req, Done(r)
  PROVE  /\ call' \in [Req -> Call]
         /\ call'[r].pc = "idle"
         /\ \A q \in Req \ {r} : call'[q] = call[q]
  BY DEF TypeOK, Done, Call, Idle

LEMMA StampTyped ==
  ASSUME TypeOK, NEW a, NEW b, Stamp(a, b)
  PROVE  stamps' \in [Plan -> Nat]
  BY DEF TypeOK, Stamp

-----------------------------------------------------------------------------
(* Links.                                                                  *)

\* Every activity's plan is a plan, so links join plans.
LEMMA EdgesJoinPlans ==
  ASSUME TypeOK
  PROVE  PlanEdges \subseteq Plan \X Plan
<1>1. ASSUME NEW i \in DOMAIN links PROVE PlanPair(links[i]) \in Plan \X Plan
  <2>1. links[i] \in LinkRow
    BY DEF TypeOK
  <2>2. links[i].from \in Act /\ links[i].to \in Act
    BY <2>1 DEF LinkRow
  <2> QED BY <2>2, CrossPlanAssumption DEF PlanPair
<1> QED BY <1>1 DEF PlanEdges

LEMMA RemovedRow ==
  ASSUME NEW l \in LinkRow
  PROVE  LET row == [l EXCEPT !.active = FALSE, !.removals = @ + 1]
         IN  row \in LinkRow /\ ~row.active
<1> DEFINE n == l.removals + 1
<1>1. l \in [from: Act, to: Act, type: Type, active: BOOLEAN, removals: Nat] /\ n \in Nat
  BY DEF LinkRow
<1> HIDE DEF n
<1>2. [l EXCEPT !.active = FALSE, !.removals = n]
        \in [from: Act, to: Act, type: Type, active: BOOLEAN, removals: Nat]
  BY <1>1
<1>3. ~[l EXCEPT !.active = FALSE, !.removals = n].active
  BY <1>1
<1> QED BY <1>2, <1>3 DEF LinkRow, n

\* A step that adds no edge and no link, and lets no request pass a check.
LEMMA QuietStep ==
  ASSUME IInv, TypeOK', NEW r \in Req, LockHeld',
         PlanEdges' \subseteq PlanEdges, NoTwins',
         \A q \in Req \ {r} : call'[q] = call[q],
         call'[r].pc \notin {"walk", "insert"}
  PROVE  IInv'
<1>1. PlanGraphAcyclic'
  BY FewerEdges DEF IInv, PlanGraphAcyclic
<1>2. SeenCovers'
  BY DEF IInv, SeenCovers
<1>3. Checked'
  <2> SUFFICES ASSUME NEW q \in Req, call'[q].pc = "insert"
               PROVE  PlanOf[call'[q].from] \notin Reach(Plan, PlanEdges', PlanOf[call'[q].to])
    BY DEF Checked
  <2>1. q # r /\ call'[q] = call[q]
    OBVIOUS
  <2>2. PlanOf[call[q].from] \notin Reach(Plan, PlanEdges, PlanOf[call[q].to])
    BY <2>1 DEF IInv, Checked
  <2> QED BY <2>1, <2>2, FewerReached
<1> QED BY <1>1, <1>2, <1>3 DEF IInv

LEMMA SameLinks ==
  ASSUME NoTwins, UNCHANGED links
  PROVE  PlanEdges' = PlanEdges /\ NoTwins'
  BY DEF PlanEdges, PlanPair, NoTwins, Twins

-----------------------------------------------------------------------------
LEMMA InitIInv == Init => IInv
<1> SUFFICES ASSUME Init PROVE IInv
  OBVIOUS
<1>1. TypeOK
  BY CrossPlanAssumption DEF Init, TypeOK, Call
<1>2. PlanEdges = {}
  BY DEF Init, PlanEdges
<1>3. PlanGraphAcyclic
  BY <1>2 DEF PlanGraphAcyclic, Acyclic
<1>4. NoTwins
  BY DEF Init, NoTwins
<1>5. \A r \in Req : call[r].pc = "idle"
  BY DEF Init, Idle
<1> QED BY <1>1, <1>3, <1>4, <1>5 DEF IInv, LockHeld, SeenCovers, Checked, InTx

\* One step per action; only the insert adds an edge.
LEMMA NextIInv == IInv /\ [Next]_vars => IInv'
<1> SUFFICES ASSUME IInv, [Next]_vars PROVE IInv'
  OBVIOUS
<1> USE DEF InTx
<1>t. TypeOK
  BY DEF IInv
<1>1. CASE UNCHANGED vars
  <2>1. TypeOK' /\ LockHeld' /\ UNCHANGED <<links, call>>
    BY <1>1 DEF vars, IInv, TypeOK, LockHeld
  <2>2. PlanEdges' = PlanEdges /\ NoTwins'
    BY <2>1, SameLinks DEF IInv
  <2> QED BY <2>1, <2>2 DEF IInv, PlanGraphAcyclic, SeenCovers, Checked
<1>2. ASSUME NEW a \in Act, DeleteOrRestore(a) PROVE IInv'
  <2>1. TypeOK' /\ LockHeld' /\ UNCHANGED <<links, call>>
    BY <1>2, CrossPlanAssumption DEF DeleteOrRestore, IInv, TypeOK, LockHeld
  <2>2. PlanEdges' = PlanEdges /\ NoTwins'
    BY <2>1, SameLinks DEF IInv
  <2> QED BY <2>1, <2>2 DEF IInv, PlanGraphAcyclic, SeenCovers, Checked
<1>3. ASSUME NEW p \in Plan, NEW u \in Member \cup {NoOne}, PassPen(p, u) PROVE IInv'
  <2>1. TypeOK' /\ LockHeld' /\ UNCHANGED <<links, call>>
    BY <1>3 DEF PassPen, IInv, TypeOK, LockHeld
  <2>2. PlanEdges' = PlanEdges /\ NoTwins'
    BY <2>1, SameLinks DEF IInv
  <2> QED BY <2>1, <2>2 DEF IInv, PlanGraphAcyclic, SeenCovers, Checked
<1>4. ASSUME NEW r \in Req, NEW u \in Member, NEW e \in Asked,
             ArriveCreate(r, u, e[1], e[2], e[3])
      PROVE  IInv'
  <2>1. e[1] \in Act /\ e[2] \in Act /\ e[3] \in Type
    BY CrossPlanAssumption
  <2>2. call'[r].pc = "load" /\ call' \in [Req -> Call] /\ (\A q \in Req \ {r} : call'[q] = call[q])
    BY <1>4, <1>t, <2>1 DEF ArriveCreate, TypeOK, Call, Pc
  <2>3. TypeOK' /\ LockHeld' /\ UNCHANGED links
    BY <1>4, <1>t, <2>2 DEF ArriveCreate, TypeOK, IInv, LockHeld
  <2> QED BY <2>2, <2>3, SameLinks, QuietStep DEF IInv
<1>5. ASSUME NEW r \in Req, LoadSuccessor(r) PROVE IInv'
  <2>1. call'[r].pc = "queued" /\ call' \in [Req -> Call] /\ (\A q \in Req \ {r} : call'[q] = call[q])
    BY <1>5, <1>t, GotoTyped DEF LoadSuccessor, Pc
  <2>2. TypeOK' /\ LockHeld' /\ UNCHANGED links
    BY <1>5, <1>t, <2>1 DEF LoadSuccessor, TypeOK, IInv, LockHeld
  <2> QED BY <2>1, <2>2, SameLinks, QuietStep DEF IInv
<1>6. ASSUME NEW r \in Req, LoadRefused(r) PROVE IInv'
  <2>1. call'[r].pc = "idle" /\ call' \in [Req -> Call] /\ (\A q \in Req \ {r} : call'[q] = call[q])
    BY <1>6, <1>t, DoneTyped DEF LoadRefused
  <2>2. TypeOK' /\ LockHeld' /\ UNCHANGED links
    BY <1>6, <1>t, <2>1 DEF LoadRefused, TypeOK, IInv, LockHeld
  <2> QED BY <2>1, <2>2, SameLinks, QuietStep DEF IInv
<1>7. ASSUME NEW r \in Req, EnterTx(r) PROVE IInv'
  <2>1. call'[r].pc = "locked" /\ call' \in [Req -> Call] /\ (\A q \in Req \ {r} : call'[q] = call[q])
    BY <1>7, <1>t, GotoTyped DEF EnterTx, Pc
  <2>2. TypeOK' /\ UNCHANGED links
    BY <1>7, <1>t, <2>1 DEF EnterTx, TypeOK
  <2>3. LockHeld'
    BY <1>7, <2>1, CrossPlanAssumption DEF EnterTx, IInv, LockHeld
  <2> QED BY <2>1, <2>2, <2>3, SameLinks, QuietStep DEF IInv
<1>8. ASSUME NEW r \in Req, ReadAdjacency(r) PROVE IInv'
  <2> DEFINE txn == [call[r] EXCEPT !.pc = "walk", !.seen = PlanEdges]
  <2>1. call[r] \in [pc: Pc \ {"idle"}, user: Member, from: Act, to: Act, type: Type,
                     link: Nat, seen: SUBSET (Plan \X Plan)]
    BY <1>8, <1>t, CallFields DEF ReadAdjacency
  <2>2. txn \in Call /\ txn.pc = "walk" /\ txn.seen = PlanEdges
    BY <2>1, <1>t, EdgesJoinPlans DEF Call, Pc
  <2>3. call' = [call EXCEPT ![r] = txn] /\ UNCHANGED <<live, pen, links, stamps, orgLock>>
    BY <1>8 DEF ReadAdjacency
  <2>4. call'[r] = txn /\ call' \in [Req -> Call] /\ (\A q \in Req \ {r} : call'[q] = call[q])
    BY <2>2, <2>3, <1>t DEF TypeOK
  <2>5. TypeOK'
    BY <2>3, <2>4, <1>t DEF TypeOK
  <2>6. LockHeld'
    BY <1>8, <2>2, <2>3, <2>4 DEF ReadAdjacency, IInv, LockHeld
  <2>7. PlanEdges' = PlanEdges /\ NoTwins'
    BY <2>3, SameLinks DEF IInv
  <2>8. SeenCovers' /\ Checked'
    BY <2>2, <2>4, <2>7 DEF IInv, SeenCovers, Checked
  <2> QED BY <2>5, <2>6, <2>7, <2>8 DEF IInv, PlanGraphAcyclic
<1>9. ASSUME NEW r \in Req, CheckCreate(r) PROVE IInv'
  <2> DEFINE txn == [call[r] EXCEPT !.pc = "insert", !.seen = {}]
  <2>1. call[r] \in [pc: Pc \ {"idle"}, user: Member, from: Act, to: Act, type: Type,
                     link: Nat, seen: SUBSET (Plan \X Plan)]
    BY <1>9, <1>t, CallFields DEF CheckCreate
  <2>2. /\ txn \in Call /\ txn.pc = "insert"
        /\ txn.from = call[r].from /\ txn.to = call[r].to
    BY <2>1 DEF Call, Pc
  <2>3. call' = [call EXCEPT ![r] = txn] /\ UNCHANGED <<live, pen, links, stamps, orgLock>>
    BY <1>9 DEF CheckCreate
  <2>4. call'[r] = txn /\ call' \in [Req -> Call] /\ (\A q \in Req \ {r} : call'[q] = call[q])
    BY <2>2, <2>3, <1>t DEF TypeOK
  <2>5. TypeOK'
    BY <2>3, <2>4, <1>t DEF TypeOK
  <2>6. LockHeld'
    BY <1>9, <2>2, <2>3, <2>4 DEF CheckCreate, IInv, LockHeld
  <2>7. PlanEdges' = PlanEdges /\ NoTwins'
    BY <2>3, SameLinks DEF IInv
  <2>8. PlanEdges \subseteq call[r].seen
    BY <1>9 DEF CheckCreate, IInv, SeenCovers
  <2>9. PlanOf[call[r].from] \notin Reach(Plan, call[r].seen, PlanOf[call[r].to])
    <3>1. PlanOf[call[r].from] \notin Search(Plan, call[r].seen, PlanOf[call[r].to])
      BY <1>9 DEF CheckCreate, ClosesCycle, WouldCreatePlanCycle
    <3>2. /\ call[r].seen \in SUBSET (Plan \X Plan) /\ PlanOf[call[r].to] \in Plan
          /\ IsFiniteSet(Plan)
      BY <2>1, CrossPlanAssumption
    <3> QED BY <3>1, <3>2, SearchIsReach
  <2>10. PlanOf[call[r].from] \notin Reach(Plan, PlanEdges, PlanOf[call[r].to])
    BY <2>8, <2>9, FewerReached
  <2>11. SeenCovers' /\ Checked'
    BY <2>2, <2>4, <2>7, <2>10 DEF IInv, SeenCovers, Checked
  <2> QED BY <2>5, <2>6, <2>7, <2>11 DEF IInv, PlanGraphAcyclic
<1>10. ASSUME NEW r \in Req, CheckRefused(r) \/ InsertRefused(r) PROVE IInv'
  <2>1. Done(r) /\ orgLock' = NoReq /\ call[r].pc \in InTx
        /\ UNCHANGED <<live, pen, links, stamps>>
    BY <1>10 DEF CheckRefused, InsertRefused, EndTx
  <2>2. call'[r].pc = "idle" /\ call' \in [Req -> Call] /\ (\A q \in Req \ {r} : call'[q] = call[q])
    BY <2>1, <1>t, DoneTyped
  <2>3. TypeOK'
    BY <2>1, <2>2, <1>t DEF TypeOK
  <2>4. LockHeld'
    BY <2>1, <2>2 DEF IInv, LockHeld
  <2> QED BY <2>1, <2>2, <2>3, <2>4, SameLinks, QuietStep DEF IInv
<1>11. ASSUME NEW r \in Req, Insert(r) PROVE IInv'
  <2> DEFINE row == [from |-> call[r].from, to |-> call[r].to, type |-> call[r].type,
                    active |-> TRUE, removals |-> 0]
             p == PlanOf[call[r].from]
             s == PlanOf[call[r].to]
  <2>1. call[r].pc = "insert" /\ ~Duplicate(r) /\ links' = Append(links, row)
        /\ Stamp(call[r].from, call[r].to) /\ Done(r) /\ orgLock' = NoReq
        /\ UNCHANGED <<live, pen>>
    BY <1>11 DEF Insert, EndTx
  <2>2. /\ call[r].from \in Act /\ call[r].to \in Act /\ call[r].type \in Type
        /\ p \in Plan /\ s \in Plan
    BY <2>1, <1>t, CallFields
  <2>3. row \in LinkRow
    BY <2>2 DEF LinkRow
  <2>4. call'[r].pc = "idle" /\ call' \in [Req -> Call] /\ (\A q \in Req \ {r} : call'[q] = call[q])
    BY <2>1, <1>t, DoneTyped
  <2>5. TypeOK'
    BY <2>1, <2>3, <2>4, <1>t, StampTyped DEF TypeOK
  <2>6. LockHeld' /\ (\A q \in Req : call'[q].pc \notin {"walk", "insert"})
    BY <2>1, <2>4 DEF IInv, LockHeld
  <2>7. /\ DOMAIN links' = DOMAIN links \cup {Len(links) + 1}
        /\ Len(links) + 1 \notin DOMAIN links
        /\ links'[Len(links) + 1] = row
        /\ \A i \in DOMAIN links : links'[i] = links[i]
    BY <2>1, <2>3, <1>t DEF TypeOK
  <2>8. PlanEdges' = PlanEdges \cup {<<p, s>>}
    BY <2>7 DEF PlanEdges, PlanPair
  <2>9. p \notin Reach(Plan, PlanEdges, s)
    BY <2>1 DEF IInv, Checked
  <2>10. PlanGraphAcyclic'
    BY <2>2, <2>8, <2>9, AddedEdge DEF IInv, PlanGraphAcyclic
  <2>11. NoTwins'
    <3> SUFFICES ASSUME NEW i \in DOMAIN links', NEW j \in DOMAIN links', i # j,
                        links'[i].from = links'[j].from, links'[i].to = links'[j].to,
                        links'[i].type = links'[j].type,
                        links'[i].active, links'[j].active
                 PROVE  FALSE
      BY DEF NoTwins, Twins
    <3>1. CASE i \in DOMAIN links /\ j \in DOMAIN links
      BY <3>1, <2>7 DEF IInv, NoTwins, Twins
    <3>2. CASE i = Len(links) + 1
      BY <3>2, <2>1, <2>7 DEF Duplicate
    <3>3. CASE j = Len(links) + 1
      BY <3>3, <2>1, <2>7 DEF Duplicate
    <3> QED BY <2>7, <3>1, <3>2, <3>3
  <2> QED BY <2>5, <2>6, <2>10, <2>11 DEF IInv, SeenCovers, Checked
<1>12. ASSUME NEW r \in Req, NEW u \in Member, NEW i \in DOMAIN links, ArriveRemove(r, u, i)
       PROVE  IInv'
  <2>1. links[i] \in LinkRow /\ i \in Nat
    BY <1>t DEF TypeOK
  <2>2. call'[r].pc = "check" /\ call' \in [Req -> Call] /\ (\A q \in Req \ {r} : call'[q] = call[q])
    BY <1>12, <1>t, <2>1 DEF ArriveRemove, TypeOK, Call, Pc, LinkRow
  <2>3. TypeOK' /\ LockHeld' /\ UNCHANGED links
    BY <1>12, <1>t, <2>2 DEF ArriveRemove, TypeOK, IInv, LockHeld
  <2> QED BY <2>2, <2>3, SameLinks, QuietStep DEF IInv
<1>13. ASSUME NEW r \in Req, CheckRemove(r) PROVE IInv'
  <2>1. call'[r].pc = "remove" /\ call' \in [Req -> Call] /\ (\A q \in Req \ {r} : call'[q] = call[q])
    BY <1>13, <1>t, GotoTyped DEF CheckRemove, Pc
  <2>2. TypeOK' /\ LockHeld' /\ UNCHANGED links
    BY <1>13, <1>t, <2>1 DEF CheckRemove, TypeOK, IInv, LockHeld
  <2> QED BY <2>1, <2>2, SameLinks, QuietStep DEF IInv
<1>14. ASSUME NEW r \in Req, RemoveRefused(r) PROVE IInv'
  <2>1. call'[r].pc = "idle" /\ call' \in [Req -> Call] /\ (\A q \in Req \ {r} : call'[q] = call[q])
    BY <1>14, <1>t, DoneTyped DEF RemoveRefused
  <2>2. TypeOK' /\ LockHeld' /\ UNCHANGED links
    BY <1>14, <1>t, <2>1 DEF RemoveRefused, TypeOK, IInv, LockHeld
  <2> QED BY <2>1, <2>2, SameLinks, QuietStep DEF IInv
<1>15. ASSUME NEW r \in Req, Remove(r) PROVE IInv'
  <2> DEFINE k == call[r].link
             row == [links[k] EXCEPT !.active = FALSE, !.removals = @ + 1]
  <2>1. call'[r].pc = "idle" /\ call' \in [Req -> Call] /\ (\A q \in Req \ {r} : call'[q] = call[q])
    BY <1>15, <1>t, DoneTyped DEF Remove
  <2>2. UNCHANGED <<live, pen, orgLock>>
    BY <1>15 DEF Remove
  <2>3. LockHeld'
    BY <1>15, <2>1, <2>2 DEF IInv, LockHeld
  <2>4. CASE UNCHANGED <<links, stamps>>
    <3>1. TypeOK'
      BY <2>1, <2>2, <2>4, <1>t DEF TypeOK
    <3> QED BY <3>1, <2>1, <2>3, <2>4, SameLinks, QuietStep DEF IInv
  <2>5. CASE /\ links' = [links EXCEPT ![k] = row]
             /\ Stamp(call[r].from, call[r].to)
    <3>1. ASSUME k \in DOMAIN links PROVE row \in LinkRow /\ ~row.active
      <4> HIDE DEF k
      <4>1. links \in Seq(LinkRow)
        BY <1>t DEF TypeOK
      <4>2. links[k] \in LinkRow
        BY <3>1, <4>1
      <4> QED BY <4>2, RemovedRow
    <3>2. k \in DOMAIN links => row \in LinkRow /\ ~row.active
      BY <3>1
    <3>3. links' \in Seq(LinkRow)
      <4> HIDE DEF row
      <4>1. links \in Seq(LinkRow)
        BY <1>t DEF TypeOK
      <4>2. CASE k \in DOMAIN links
        BY <4>1, <4>2, <2>5, <3>2
      <4>3. CASE k \notin DOMAIN links
        <5>1. links' = links
          BY <4>1, <4>3, <2>5
        <5> QED BY <4>1, <5>1
      <4> QED BY <4>2, <4>3
    <3>4. /\ DOMAIN links' = DOMAIN links
          /\ \A i \in DOMAIN links : links'[i].active => links'[i] = links[i]
      BY <2>5, <3>2, <1>t DEF TypeOK
    <3>5. PlanEdges' \subseteq PlanEdges
      BY <3>4 DEF PlanEdges
    <3>6. NoTwins'
      BY <3>4 DEF IInv, NoTwins, Twins
    <3>7. TypeOK'
      BY <2>1, <2>2, <2>5, <3>3, <1>t, StampTyped DEF TypeOK
    <3> QED BY <3>5, <3>6, <3>7, <2>1, <2>3, QuietStep
  <2> QED BY <1>15, <2>4, <2>5 DEF Remove
<1> QED BY <1>1, <1>2, <1>3, <1>4, <1>5, <1>6, <1>7, <1>8, <1>9, <1>10, <1>11, <1>12,
           <1>13, <1>14, <1>15 DEF Next, Serve

THEOREM Invariance == Spec => []IInv
<1> QED BY InitIInv, NextIInv, PTL DEF Spec

\* Rows, locks and requests are well typed in every reachable state.
THEOREM TypeCorrect == Spec => []TypeOK
<1>1. IInv => TypeOK
  BY DEF IInv
<1> QED BY <1>1, Invariance, PTL

\* ADR-0045's invariant: no sequence of creates and removes, in whatever
\* order their statements run, closes a cycle among the plans.
THEOREM PlansStayAcyclic == Spec => []PlanGraphAcyclic
<1>1. IInv => PlanGraphAcyclic
  BY DEF IInv
<1> QED BY <1>1, Invariance, PTL

\* The same two activities never have two active links of one type.
THEOREM LinksAreSingle == Spec => []NoTwins
<1>1. IInv => NoTwins
  BY DEF IInv
<1> QED BY <1>1, Invariance, PTL

-----------------------------------------------------------------------------
(* Each change is counted once.                                            *)

\* A remove goes by the row it has found; its ends do not change.
LinkNamed ==
  \A r \in Req : call[r].pc \in {"check", "remove"} =>
    /\ call[r].link \in DOMAIN links
    /\ call[r].from = links[call[r].link].from /\ call[r].to = links[call[r].link].to

Touching(p) == {i \in DOMAIN links : Touches(i, p)}
TouchingGone(p) == {i \in DOMAIN links : Touches(i, p) /\ ~links[i].active}

RemovalsTrue == \A i \in DOMAIN links : links[i].removals = (IF links[i].active THEN 0 ELSE 1)
StampsTrue == \A p \in Plan : stamps[p] = Cardinality(Touching(p)) + Cardinality(TouchingGone(p))

LEMMA FiniteLinks ==
  ASSUME TypeOK, NEW p
  PROVE  /\ IsFiniteSet(Touching(p)) /\ IsFiniteSet(TouchingGone(p))
         /\ Cardinality(Touching(p)) \in Nat /\ Cardinality(TouchingGone(p)) \in Nat
<1>1. DOMAIN links = 1..Len(links) /\ Len(links) \in Nat
  BY DEF TypeOK
<1>2. IsFiniteSet(DOMAIN links)
  BY <1>1, FS_Interval
<1>3. Touching(p) \subseteq DOMAIN links /\ TouchingGone(p) \subseteq DOMAIN links
  BY DEF Touching, TouchingGone
<1> QED BY <1>2, <1>3, FS_Subset, FS_CardinalityType

LEMMA CountsSplit == ChangesCountedOnce <=> RemovalsTrue /\ StampsTrue
  BY DEF ChangesCountedOnce, RemovalsTrue, StampsTrue, Touching, TouchingGone

\* A step that leaves rows and stamps alone.
LEMMA SameCounts ==
  ASSUME RemovalsTrue, StampsTrue, UNCHANGED <<links, stamps>>
  PROVE  RemovalsTrue' /\ StampsTrue'
  BY DEF RemovalsTrue, StampsTrue, Touching, TouchingGone, Touches

\* What a request may come to know of a link without writing one.
LEMMA QuietNames ==
  ASSUME LinkNamed, UNCHANGED links,
         \A r \in Req : \/ call'[r] = call[r]
                        \/ call'[r].pc \notin {"check", "remove"}
                        \/ /\ call[r].pc = "check" /\ call'[r].link = call[r].link
                           /\ call'[r].from = call[r].from /\ call'[r].to = call[r].to
                        \/ /\ call'[r].link \in DOMAIN links
                           /\ call'[r].from = links[call'[r].link].from
                           /\ call'[r].to = links[call'[r].link].to
  PROVE  LinkNamed'
  BY DEF LinkNamed

\* The rows that a step which is no insert and no remove leaves.
LEMMA QuietCounts ==
  ASSUME TypeOK, LinkNamed, RemovalsTrue, StampsTrue, [Next]_vars,
         \A r \in Req : ~Insert(r) /\ ~Remove(r)
  PROVE  LinkNamed' /\ RemovalsTrue' /\ StampsTrue'
<1>1. CASE UNCHANGED <<links, stamps, call>>
  BY <1>1, SameCounts, QuietNames
<1>2. ASSUME NEW r \in Req, Serve(r) PROVE LinkNamed' /\ RemovalsTrue' /\ StampsTrue'
  <2>1. UNCHANGED <<links, stamps>>
    BY <1>2 DEF Serve, ArriveCreate, LoadSuccessor, LoadRefused, EnterTx, ReadAdjacency,
       CheckCreate, CheckRefused, InsertRefused, ArriveRemove, CheckRemove, RemoveRefused
  <2>2. \A q \in Req \ {r} : call'[q] = call[q]
    BY <1>2 DEF Serve, ArriveCreate, LoadSuccessor, LoadRefused, EnterTx, ReadAdjacency,
       CheckCreate, CheckRefused, InsertRefused, ArriveRemove, CheckRemove, RemoveRefused,
       Goto, Done, EndTx, TypeOK
  <2>3. CASE \E u \in Member, i \in DOMAIN links : ArriveRemove(r, u, i)
    <3>1. PICK u \in Member, i \in DOMAIN links : ArriveRemove(r, u, i)
      BY <2>3
    <3>2. call'[r] = [pc |-> "check", user |-> u, from |-> links[i].from, to |-> links[i].to,
                      type |-> links[i].type, link |-> i, seen |-> {}]
      BY <3>1 DEF ArriveRemove, TypeOK
    <3>3. call'[r].link = i /\ call'[r].from = links[i].from /\ call'[r].to = links[i].to
      BY <3>2
    <3> QED BY <2>1, <2>2, <3>3, SameCounts, QuietNames
  <2>4. CASE CheckRemove(r)
    <3>1. call'[r] = [call[r] EXCEPT !.pc = "remove"] /\ call[r].pc = "check"
      BY <2>4 DEF CheckRemove, Goto, TypeOK
    <3>2. call[r] \in [pc: Pc \ {"idle"}, user: Member, from: Act, to: Act, type: Type,
                       link: Nat, seen: SUBSET (Plan \X Plan)]
      BY <3>1, CallFields
    <3>3. call'[r].link = call[r].link /\ call'[r].from = call[r].from /\ call'[r].to = call[r].to
      BY <3>1, <3>2
    <3> QED BY <2>1, <2>2, <3>1, <3>3, SameCounts, QuietNames
  <2>5. CASE LoadRefused(r) \/ CheckRefused(r) \/ InsertRefused(r) \/ RemoveRefused(r)
    <3>1. call'[r].pc = "idle"
      BY <2>5, DoneTyped DEF LoadRefused, CheckRefused, InsertRefused, RemoveRefused, EndTx
    <3> QED BY <2>1, <2>2, <3>1, SameCounts, QuietNames
  <2>6. CASE LoadSuccessor(r) \/ EnterTx(r)
    <3>1. call'[r].pc \in {"queued", "locked"}
      BY <2>6, GotoTyped DEF LoadSuccessor, EnterTx, Pc, InTx
    <3> QED BY <2>1, <2>2, <3>1, SameCounts, QuietNames
  <2>7. CASE (\E u \in Member, e \in Asked : ArriveCreate(r, u, e[1], e[2], e[3]))
             \/ ReadAdjacency(r) \/ CheckCreate(r)
    <3>1. /\ call' = [call EXCEPT ![r] = call'[r]]
          /\ call'[r].pc \in {"load", "walk", "insert"}
      <4>1. CASE \E u \in Member, e \in Asked : ArriveCreate(r, u, e[1], e[2], e[3])
        BY <4>1 DEF ArriveCreate, TypeOK
      <4>2. CASE ReadAdjacency(r)
        <5>1. call'[r] = [call[r] EXCEPT !.pc = "walk", !.seen = PlanEdges]
          BY <4>2 DEF ReadAdjacency, TypeOK
        <5> QED BY <4>2, <5>1, CallFields DEF ReadAdjacency, TypeOK
      <4>3. CASE CheckCreate(r)
        <5>1. call'[r] = [call[r] EXCEPT !.pc = "insert", !.seen = {}]
          BY <4>3 DEF CheckCreate, TypeOK
        <5> QED BY <4>3, <5>1, CallFields DEF CheckCreate, TypeOK
      <4> QED BY <2>7, <4>1, <4>2, <4>3
    <3> QED BY <2>1, <2>2, <3>1, SameCounts, QuietNames
  <2> QED BY <1>2, <2>3, <2>4, <2>5, <2>6, <2>7 DEF Serve
<1> QED BY <1>1, <1>2 DEF Next, vars, DeleteOrRestore, PassPen

\* What r's done call leaves of the others' names, if the rows keep their ends.
LEMMA NamesKeptByOthers ==
  ASSUME TypeOK, LinkNamed, NEW r \in Req, Done(r), DOMAIN links \subseteq DOMAIN links',
         \A i \in DOMAIN links : links'[i].from = links[i].from /\ links'[i].to = links[i].to
  PROVE  LinkNamed'
<1>1. call'[r].pc = "idle" /\ \A q \in Req \ {r} : call'[q] = call[q]
  BY DoneTyped
<1> QED BY <1>1 DEF LinkNamed

LEMMA InsertCounts ==
  ASSUME TypeOK, TypeOK', LinkNamed, RemovalsTrue, StampsTrue, NEW r \in Req, Insert(r)
  PROVE  LinkNamed' /\ RemovalsTrue' /\ StampsTrue'
<1> DEFINE a == call[r].from
           b == call[r].to
           row == [from |-> a, to |-> b, type |-> call[r].type, active |-> TRUE, removals |-> 0]
           k == Len(links) + 1
<1>1. links' = Append(links, row) /\ Stamp(a, b) /\ Done(r)
  BY DEF Insert, EndTx
<1>2. a \in Act /\ b \in Act /\ row \in LinkRow
  BY CallFields DEF Insert, LinkRow
<1>3. /\ DOMAIN links' = DOMAIN links \cup {k} /\ k \notin DOMAIN links
      /\ links'[k] = row /\ \A i \in DOMAIN links : links'[i] = links[i]
  BY <1>1, <1>2 DEF TypeOK
<1>4. LinkNamed'
  BY <1>1, <1>3, NamesKeptByOthers
<1>5. RemovalsTrue'
  BY <1>3 DEF RemovalsTrue
<1>6. ASSUME NEW p \in Plan
      PROVE  stamps'[p] = Cardinality(Touching(p)') + Cardinality(TouchingGone(p)')
  <2>1. TouchingGone(p)' = TouchingGone(p)
    BY <1>3 DEF TouchingGone, Touches
  <2>2. /\ IsFiniteSet(Touching(p)) /\ Cardinality(Touching(p)) \in Nat
        /\ Cardinality(TouchingGone(p)) \in Nat /\ stamps[p] \in Nat
        /\ stamps[p] = Cardinality(Touching(p)) + Cardinality(TouchingGone(p))
    BY FiniteLinks DEF StampsTrue, TypeOK
  <2>3. CASE p \in {PlanOf[a], PlanOf[b]}
    <3>1. Touching(p)' = Touching(p) \cup {k} /\ k \notin Touching(p)
      BY <1>3, <2>3 DEF Touching, Touches
    <3>2. Cardinality(Touching(p)') = Cardinality(Touching(p)) + 1
      BY <2>2, <3>1, FS_AddElement
    <3>3. stamps'[p] = stamps[p] + 1
      BY <1>1, <2>3 DEF Stamp
    <3> QED BY <2>1, <2>2, <3>2, <3>3
  <2>4. CASE p \notin {PlanOf[a], PlanOf[b]}
    <3>1. Touching(p)' = Touching(p)
      BY <1>3, <2>4 DEF Touching, Touches
    <3>2. stamps'[p] = stamps[p]
      BY <1>1, <2>4 DEF Stamp
    <3> QED BY <2>1, <2>2, <3>1, <3>2
  <2> QED BY <2>3, <2>4
<1>7. StampsTrue'
  BY <1>6 DEF StampsTrue
<1> QED BY <1>4, <1>5, <1>7

LEMMA LinkTyped ==
  ASSUME TypeOK, NEW i \in DOMAIN links
  PROVE  links[i] \in LinkRow
  BY DEF TypeOK

\* Only the remove that finds the row active changes it, and stamps.
LEMMA RemoveCounts ==
  ASSUME TypeOK, TypeOK', LinkNamed, RemovalsTrue, StampsTrue, NEW r \in Req, Remove(r)
  PROVE  LinkNamed' /\ RemovalsTrue' /\ StampsTrue'
<1> DEFINE k == call[r].link
           a == call[r].from
           b == call[r].to
           n == links[k].removals + 1
           row == [links[k] EXCEPT !.active = FALSE, !.removals = n]
<1>1. Done(r) /\ call[r].pc = "remove"
  BY DEF Remove
<1>2. k \in DOMAIN links /\ a = links[k].from /\ b = links[k].to
  BY <1>1 DEF LinkNamed
<1>3. CASE ~links[k].active
  <2>1. UNCHANGED <<links, stamps>>
    BY <1>3 DEF Remove
  <2> QED BY <1>1, <2>1, SameCounts, NamesKeptByOthers
<1>4. CASE links[k].active
  <2>1. links' = [links EXCEPT ![k] = row] /\ Stamp(a, b)
    BY <1>4 DEF Remove
  <2>2. links[k] \in [from: Act, to: Act, type: Type, active: BOOLEAN, removals: Nat] /\ links[k].removals = 0
    <3> HIDE DEF k, a, b, n, row
    <3>1. links[k] \in LinkRow
      BY <1>2, LinkTyped
    <3>2. links[k].removals = 0
      BY <1>2, <1>4 DEF RemovalsTrue
    <3> QED BY <3>1, <3>2 DEF LinkRow
  <2>3. n = 1
    BY <2>2
  <2> HIDE DEF n
  <2>4. row.from = a /\ row.to = b /\ ~row.active /\ row.removals = 1
    BY <1>2, <2>2, <2>3
  <2> HIDE DEF row
  <2>5. /\ DOMAIN links' = DOMAIN links /\ links'[k] = row
        /\ \A i \in DOMAIN links \ {k} : links'[i] = links[i]
    BY <1>2, <2>1 DEF TypeOK
  <2>6. LinkNamed'
    BY <1>1, <1>2, <2>4, <2>5, NamesKeptByOthers
  <2>7. RemovalsTrue'
    BY <2>4, <2>5 DEF RemovalsTrue
  <2>8. ASSUME NEW p \in Plan
        PROVE  stamps'[p] = Cardinality(Touching(p)') + Cardinality(TouchingGone(p)')
    <3>1. Touching(p)' = Touching(p)
      BY <1>2, <2>4, <2>5 DEF Touching, Touches
    <3>2. /\ IsFiniteSet(TouchingGone(p)) /\ Cardinality(Touching(p)) \in Nat
          /\ Cardinality(TouchingGone(p)) \in Nat /\ stamps[p] \in Nat
          /\ stamps[p] = Cardinality(Touching(p)) + Cardinality(TouchingGone(p))
      BY FiniteLinks DEF StampsTrue, TypeOK
    <3>3. CASE p \in {PlanOf[a], PlanOf[b]}
      <4>1. TouchingGone(p)' = TouchingGone(p) \cup {k} /\ k \notin TouchingGone(p)
        BY <1>2, <1>4, <2>4, <2>5, <3>3 DEF TouchingGone, Touches
      <4>2. Cardinality(TouchingGone(p)') = Cardinality(TouchingGone(p)) + 1
        BY <3>2, <4>1, FS_AddElement
      <4>3. stamps'[p] = stamps[p] + 1
        BY <2>1, <3>3 DEF Stamp
      <4> QED BY <3>1, <3>2, <4>2, <4>3
    <3>4. CASE p \notin {PlanOf[a], PlanOf[b]}
      <4>1. TouchingGone(p)' = TouchingGone(p)
        BY <1>2, <2>4, <2>5, <3>4 DEF TouchingGone, Touches
      <4>2. stamps'[p] = stamps[p]
        BY <2>1, <3>4 DEF Stamp
      <4> QED BY <3>1, <3>2, <4>1, <4>2
    <3> QED BY <3>3, <3>4
  <2>9. StampsTrue'
    BY <2>8 DEF StampsTrue
  <2> QED BY <2>6, <2>7, <2>9
<1> QED BY <1>3, <1>4

\* However many requests remove a link at once, its history says so once, and
\* a plan's inputs are stamped once for each link made at it or removed.
THEOREM CountsAreTrue == Spec => []ChangesCountedOnce
<1> DEFINE Counted == LinkNamed /\ RemovalsTrue /\ StampsTrue
<1>1. Init => Counted
  <2> SUFFICES ASSUME Init PROVE Counted
    OBVIOUS
  <2>1. \A p \in Plan : Touching(p) = {} /\ TouchingGone(p) = {}
    BY DEF Init, Touching, TouchingGone
  <2>2. StampsTrue
    <3>1. Cardinality({}) = 0
      BY FS_EmptySet
    <3>2. ASSUME NEW p \in Plan
          PROVE  stamps[p] = Cardinality(Touching(p)) + Cardinality(TouchingGone(p))
      <4>1. stamps[p] = 0
        BY DEF Init
      <4>2. Cardinality(Touching(p)) = 0 /\ Cardinality(TouchingGone(p)) = 0
        BY <2>1, <3>1
      <4> QED BY <4>1, <4>2
    <3> QED BY <3>2 DEF StampsTrue
  <2>3. LinkNamed /\ RemovalsTrue
    BY DEF Init, LinkNamed, RemovalsTrue, Idle
  <2> QED BY <2>2, <2>3
<1>2. TypeOK /\ TypeOK' /\ Counted /\ [Next]_vars => Counted'
  BY QuietCounts, InsertCounts, RemoveCounts
<1>3. Counted => ChangesCountedOnce
  BY CountsSplit
<1> HIDE DEF Counted
<1> QED BY <1>1, <1>2, <1>3, TypeCorrect, PTL DEF Spec


-----------------------------------------------------------------------------
(* The order of a programme.  S is the plans to be ordered, L the links.   *)

IsLinks(N, L) == IsFiniteSet(DOMAIN L) /\ \A i \in DOMAIN L : L[i] \in N \X N

\* The links into p from plans of U, and those from q.
Into(L, U, p) == {i \in DOMAIN L : L[i][1] \in U /\ L[i][2] = p}
Between(L, q, p) == {i \in DOMAIN L : L[i] = <<q, p>>}

Placed(order) == {order[i] : i \in DOMAIN order}

\* What holds after any number of rounds of Kahn's algorithm.
OrderSound(S, L, order) ==
  /\ order \in Seq(S)
  /\ \A i, j \in DOMAIN order : order[i] = order[j] => i = j
  /\ \A j \in DOMAIN order, e \in DOMAIN L :
       L[e][1] \in S /\ L[e][2] = order[j] => \E i \in 1..(j - 1) : order[i] = L[e][1]
DegreeSound(S, L, order, degree) ==
  \A p \in S : degree[p] = Cardinality(Into(L, S \ Placed(order), p))
ReadySound(S, L, order, ready) ==
  ready = {p \in S \ Placed(order) : Into(L, S \ Placed(order), p) = {}}
KahnSound(S, L, st) ==
  /\ OrderSound(S, L, st.order)
  /\ DegreeSound(S, L, st.order, st.degree)
  /\ ReadySound(S, L, st.order, st.ready)

LEMMA IntoFinite ==
  ASSUME NEW N, NEW L, IsLinks(N, L), NEW U, NEW p
  PROVE  /\ IsFiniteSet(Into(L, U, p)) /\ Cardinality(Into(L, U, p)) \in Nat
         /\ Cardinality(Into(L, U, p)) = 0 <=> Into(L, U, p) = {}
<1>1. Into(L, U, p) \subseteq DOMAIN L
  BY DEF Into
<1>2. IsFiniteSet(Into(L, U, p))
  BY <1>1, FS_Subset DEF IsLinks
<1> QED BY <1>2, FS_CardinalityType, FS_EmptySet

\* The links into p from q are what is released when q is placed.
LEMMA Released ==
  ASSUME NEW N, NEW L, IsLinks(N, L), NEW U, NEW q \in U, NEW p
  PROVE  Cardinality(Into(L, U \ {q}, p)) = Cardinality(Into(L, U, p)) - Multiplicity(L, q, p)
<1>1. Into(L, U \ {q}, p) = Into(L, U, p) \ Between(L, q, p)
  BY DEF Into, Between, IsLinks
<1>2. Into(L, U, p) \cap Between(L, q, p) = Between(L, q, p)
  BY DEF Into, Between, IsLinks
<1>3. Cardinality(Into(L, U, p) \ Between(L, q, p))
      = Cardinality(Into(L, U, p)) - Cardinality(Into(L, U, p) \cap Between(L, q, p))
  BY IntoFinite, FS_Difference
<1> QED BY <1>1, <1>2, <1>3 DEF Multiplicity, Between

LEMMA MultiplicityPositive ==
  ASSUME NEW N, NEW L, IsLinks(N, L), NEW q, NEW p
  PROVE  /\ Multiplicity(L, q, p) \in Nat
         /\ Multiplicity(L, q, p) > 0 <=> Between(L, q, p) # {}
<1>1. Between(L, q, p) \subseteq DOMAIN L
  BY DEF Between
<1>2. IsFiniteSet(Between(L, q, p))
  BY <1>1, FS_Subset DEF IsLinks
<1>3. /\ Cardinality(Between(L, q, p)) \in Nat
      /\ Cardinality(Between(L, q, p)) = 0 <=> Between(L, q, p) = {}
  BY <1>2, FS_CardinalityType, FS_EmptySet
<1>4. Multiplicity(L, q, p) = Cardinality(Between(L, q, p))
  BY DEF Multiplicity, Between
<1> QED BY <1>3, <1>4

LEMMA Appended ==
  ASSUME NEW S, NEW q \in Seq(S), NEW n \in S
  PROVE  /\ Append(q, n) \in Seq(S) /\ Len(q) \in Nat
         /\ Len(Append(q, n)) = Len(q) + 1
         /\ DOMAIN q = 1..Len(q) /\ DOMAIN Append(q, n) = 1..(Len(q) + 1)
         /\ Append(q, n)[Len(q) + 1] = n
         /\ \A i \in 1..Len(q) : Append(q, n)[i] = q[i]
         /\ Placed(Append(q, n)) = Placed(q) \cup {n}
  BY DEF Placed

LEMMA OrderGrows ==
  ASSUME NEW S, NEW L, NEW q, OrderSound(S, L, q),
         NEW n \in S \ Placed(q), Into(L, S \ Placed(q), n) = {}
  PROVE  OrderSound(S, L, Append(q, n))
<1> DEFINE o == Append(q, n)
           k == Len(q) + 1
<1>1. /\ o \in Seq(S) /\ Len(q) \in Nat
      /\ DOMAIN q = 1..Len(q) /\ DOMAIN o = 1..k
      /\ o[k] = n /\ \A i \in 1..Len(q) : o[i] = q[i]
  BY Appended DEF OrderSound
<1> HIDE DEF o
<1>2. ASSUME NEW i \in DOMAIN o, NEW j \in DOMAIN o, o[i] = o[j] PROVE i = j
  <2>1. \A h \in DOMAIN q : o[h] # n
    BY <1>1 DEF Placed
  <2>2. CASE i = k \/ j = k
    BY <1>1, <1>2, <2>1, <2>2
  <2>3. CASE i # k /\ j # k
    BY <1>1, <1>2, <2>3 DEF OrderSound
  <2> QED BY <2>2, <2>3
<1>3. ASSUME NEW j \in DOMAIN o, NEW e \in DOMAIN L, L[e][1] \in S, L[e][2] = o[j]
      PROVE  \E i \in 1..(j - 1) : o[i] = L[e][1]
  <2>1. CASE j = k
    <3>1. L[e][1] \in Placed(q)
      BY <1>1, <1>3, <2>1 DEF Into
    <3>2. PICK i \in DOMAIN q : q[i] = L[e][1]
      BY <3>1 DEF Placed
    <3>3. o[i] = L[e][1] /\ i \in 1..(j - 1)
      BY <1>1, <2>1, <3>2
    <3> QED BY <3>3
  <2>2. CASE j # k
    <3>1. j \in DOMAIN q /\ o[j] = q[j]
      BY <1>1, <2>2
    <3>2. PICK i \in 1..(j - 1) : q[i] = L[e][1]
      BY <1>3, <3>1 DEF OrderSound
    <3>3. i \in 1..Len(q)
      BY <1>1, <3>1
    <3> QED BY <1>1, <3>2, <3>3
  <2> QED BY <2>1, <2>2
<1> QED BY <1>1, <1>2, <1>3 DEF OrderSound

LEMMA KahnKeeps ==
  ASSUME NEW N, NEW S \in SUBSET Nat, NEW L, IsLinks(N, L),
         NEW st, KahnSound(S, L, st), st.ready # {}
  PROVE  /\ KahnSound(S, L, KahnStep(S, L, st))
         /\ Len(KahnStep(S, L, st).order) = Len(st.order) + 1
<1> DEFINE n == Min(st.ready)
           q == st.order
           fed == {m \in S : Multiplicity(L, n, m) > 0}
           degree == [m \in S |-> st.degree[m] - Multiplicity(L, n, m)]
           ready == (st.ready \ {n}) \cup {m \in fed : degree[m] = 0}
           U == S \ Placed(q)
<1>1. n \in st.ready
  <2>1. st.ready \in SUBSET Nat
    BY DEF KahnSound, ReadySound
  <2>2. \E m \in st.ready : \A k \in st.ready : m <= k
    BY <2>1, SmallestNumber
  <2> QED BY <2>2 DEF Min
<1>2. /\ KahnStep(S, L, st).order = Append(q, n)
      /\ KahnStep(S, L, st).degree = degree
      /\ KahnStep(S, L, st).ready = ready
  BY DEF KahnStep
<1> HIDE DEF n
<1>3. n \in U /\ Into(L, U, n) = {}
  BY <1>1 DEF KahnSound, ReadySound
<1>4. OrderSound(S, L, Append(q, n))
  BY <1>3, OrderGrows DEF KahnSound
<1>5. /\ Len(Append(q, n)) = Len(q) + 1
      /\ S \ Placed(Append(q, n)) = U \ {n}
  BY <1>3, Appended DEF KahnSound, OrderSound
<1>6. ASSUME NEW p \in S PROVE degree[p] = Cardinality(Into(L, U \ {n}, p))
  <2>1. st.degree[p] = Cardinality(Into(L, U, p))
    BY DEF KahnSound, DegreeSound
  <2>2. degree[p] = st.degree[p] - Multiplicity(L, n, p)
    OBVIOUS
  <2> HIDE DEF U, degree
  <2> QED BY <1>3, <2>1, <2>2, Released
<1>7. DegreeSound(S, L, Append(q, n), degree)
  BY <1>5, <1>6 DEF DegreeSound
<1>8. \A p \in S : degree[p] = 0 <=> Into(L, U \ {n}, p) = {}
  BY <1>6, IntoFinite
<1>9. \A p \in S : p \in fed <=> Between(L, n, p) # {}
  BY MultiplicityPositive
<1> HIDE DEF degree, fed
<1>10. ASSUME NEW p \in fed PROVE p \in U \ {n}
  <2>1. PICK e \in DOMAIN L : L[e] = <<n, p>>
    BY <1>9, <1>10 DEF Between, fed
  <2>2. p # n
    BY <1>3, <2>1 DEF Into
  <2>3. ASSUME p \in Placed(q) PROVE FALSE
    <3>1. PICK j \in DOMAIN q : q[j] = p
      BY <2>3 DEF Placed
    <3>2. PICK i \in 1..(j - 1) : q[i] = n
      BY <1>3, <2>1, <3>1 DEF KahnSound, OrderSound
    <3>3. i \in DOMAIN q
      BY <3>1 DEF KahnSound, OrderSound
    <3> QED BY <1>3, <3>2, <3>3 DEF Placed
  <2> QED BY <2>2, <2>3 DEF fed
<1>11. \A p \in S : p \notin fed => Into(L, U \ {n}, p) = Into(L, U, p)
  BY <1>9 DEF Into, Between, IsLinks
<1>12. \A p \in S : Into(L, U, p) = {} => Into(L, U \ {n}, p) = {}
  BY DEF Into
<1>13. ready = {p \in U \ {n} : Into(L, U \ {n}, p) = {}}
  <2>1. st.ready = {p \in U : Into(L, U, p) = {}}
    BY DEF KahnSound, ReadySound
  <2>2. ASSUME NEW p \in ready PROVE p \in U \ {n} /\ Into(L, U \ {n}, p) = {}
    <3>1. CASE p \in st.ready \ {n}
      BY <2>1, <3>1, <1>12
    <3>2. CASE p \in fed /\ degree[p] = 0
      BY <3>2, <1>8, <1>10
    <3> QED BY <3>1, <3>2
  <2>3. ASSUME NEW p \in U \ {n}, Into(L, U \ {n}, p) = {} PROVE p \in ready
    <3>1. CASE p \in fed
      BY <1>8, <2>3, <3>1
    <3>2. CASE p \notin fed
      BY <1>11, <2>1, <2>3, <3>2
    <3> QED BY <3>1, <3>2
  <2> HIDE DEF ready
  <2> QED BY <2>2, <2>3
<1>14. ReadySound(S, L, Append(q, n), ready)
  BY <1>5, <1>13 DEF ReadySound
<1> HIDE DEF ready
<1> QED BY <1>2, <1>4, <1>5, <1>7, <1>14 DEF KahnSound

KahnStart(S, L) ==
  [order  |-> <<>>,
   degree |-> [p \in S |-> InDegree(S, L, p)],
   ready  |-> {p \in S : InDegree(S, L, p) = 0}]

LEMMA KahnStarts ==
  ASSUME NEW N, NEW S, NEW L, IsLinks(N, L)
  PROVE  KahnSound(S, L, KahnStart(S, L))
<1> DEFINE st == KahnStart(S, L)
<1>1. /\ st.order = <<>> /\ st.degree = [p \in S |-> InDegree(S, L, p)]
      /\ st.ready = {p \in S : InDegree(S, L, p) = 0}
  BY DEF KahnStart
<1>2. S \ Placed(<<>>) = S /\ DOMAIN <<>> = {} /\ <<>> \in Seq(S)
  BY DEF Placed
<1>3. \A p : InDegree(S, L, p) = Cardinality(Into(L, S, p))
  BY DEF InDegree, Into
<1>4. \A p : InDegree(S, L, p) = 0 <=> Into(L, S, p) = {}
  BY <1>3, IntoFinite
<1> HIDE DEF st
<1>5. OrderSound(S, L, st.order)
  BY <1>1, <1>2 DEF OrderSound
<1>6. DegreeSound(S, L, st.order, st.degree)
  BY <1>1, <1>2, <1>3 DEF DegreeSound
<1>7. ReadySound(S, L, st.order, st.ready)
  BY <1>1, <1>2, <1>4 DEF ReadySound
<1> QED BY <1>5, <1>6, <1>7 DEF KahnSound, st

\* A round that finds no plan ready changes nothing.
Round(S, L, st) == IF st.ready = {} THEN st ELSE KahnStep(S, L, st)

\* The states that the first n rounds go through.
Rounds(S, L, n, f) ==
  f = [k \in 0..n |-> IF k = 0 THEN KahnStart(S, L) ELSE Round(S, L, f[k - 1])]

LEMMA RoundsExist ==
  ASSUME NEW S, NEW L, NEW n \in Nat
  PROVE  \E f : Rounds(S, L, n, f)
<1> DEFINE B == {k \in Nat : ~\E f : Rounds(S, L, k, f)}
<1> SUFFICES ASSUME B # {} PROVE FALSE
  OBVIOUS
<1>1. PICK m \in B : \A k \in B : m <= k
  BY SmallestNumber
<1>2. CASE m = 0
  <2> DEFINE f == [k \in 0..0 |-> KahnStart(S, L)]
  <2>1. f = [k \in 0..0 |-> IF k = 0 THEN KahnStart(S, L) ELSE Round(S, L, f[k - 1])]
    OBVIOUS
  <2>2. Rounds(S, L, 0, f)
    BY <2>1 DEF Rounds
  <2> QED BY <1>2, <2>2
<1>3. CASE m # 0
  <2>1. m - 1 \in Nat /\ m - 1 \notin B
    BY <1>1, <1>3
  <2>2. PICK f : Rounds(S, L, m - 1, f)
    BY <2>1
  <2> DEFINE g == [k \in 0..m |-> IF k = m THEN Round(S, L, f[m - 1]) ELSE f[k]]
             h == [k \in 0..m |-> IF k = 0 THEN KahnStart(S, L) ELSE Round(S, L, g[k - 1])]
  <2>3. \A k \in 0..(m - 1) : g[k] = f[k]
    BY <2>1
  <2>4. \A k \in 0..(m - 1) :
          f[k] = IF k = 0 THEN KahnStart(S, L) ELSE Round(S, L, f[k - 1])
    BY <2>2 DEF Rounds
  <2>5. ASSUME NEW k \in 0..m PROVE g[k] = h[k]
    <3>1. CASE k = m
      BY <1>3, <2>1, <2>3, <3>1
    <3>2. CASE k # m /\ k = 0
      BY <2>1, <2>3, <2>4, <3>2
    <3>3. CASE k # m /\ k # 0
      <4>1. k \in 0..(m - 1) /\ k - 1 \in 0..(m - 1)
        BY <3>3
      <4>2. g[k] = Round(S, L, f[k - 1]) /\ g[k - 1] = f[k - 1]
        BY <2>3, <2>4, <3>3, <4>1
      <4> QED BY <3>3, <4>2
    <3> QED BY <3>1, <3>2, <3>3
  <2>6. g = h
    BY <2>5
  <2>7. Rounds(S, L, m, g)
    BY <2>6 DEF Rounds
  <2> QED BY <2>7
<1> QED BY <1>2, <1>3

LEMMA RoundKeeps ==
  ASSUME NEW N, NEW S \in SUBSET Nat, NEW L, IsLinks(N, L),
         NEW st, KahnSound(S, L, st), NEW k \in Nat,
         Len(st.order) = k \/ st.ready = {}
  PROVE  /\ KahnSound(S, L, Round(S, L, st))
         /\ Len(Round(S, L, st).order) = k + 1 \/ Round(S, L, st).ready = {}
<1>1. CASE st.ready = {}
  BY <1>1 DEF Round
<1>2. CASE st.ready # {}
  <2>1. Round(S, L, st) = KahnStep(S, L, st)
    BY <1>2 DEF Round
  <2>2. /\ KahnSound(S, L, KahnStep(S, L, st))
        /\ Len(KahnStep(S, L, st).order) = Len(st.order) + 1
    BY <1>2, KahnKeeps
  <2> QED BY <1>2, <2>1, <2>2
<1> QED BY <1>1, <1>2

\* After k rounds k plans are placed, or as many as can be.
LEMMA RoundsSound ==
  ASSUME NEW N, NEW S \in SUBSET Nat, NEW L, IsLinks(N, L),
         NEW n \in Nat, NEW f, Rounds(S, L, n, f), NEW k \in 0..n
  PROVE  KahnSound(S, L, f[k]) /\ (Len(f[k].order) = k \/ f[k].ready = {})
<1> DEFINE Good(i) == KahnSound(S, L, f[i]) /\ (Len(f[i].order) = i \/ f[i].ready = {})
           B == {i \in 0..n : ~Good(i)}
<1> SUFFICES ASSUME B # {} PROVE FALSE
  OBVIOUS
<1>1. PICK m \in B : \A i \in B : m <= i
  <2>1. B \in SUBSET Nat
    OBVIOUS
  <2> QED BY <2>1, SmallestNumber
<1>2. \A i \in 0..n : f[i] = IF i = 0 THEN KahnStart(S, L) ELSE Round(S, L, f[i - 1])
  BY DEF Rounds
<1>3. CASE m = 0
  <2>1. f[0] = KahnStart(S, L)
    BY <1>2
  <2>2. Len(f[0].order) = 0
    BY <2>1 DEF KahnStart
  <2> QED BY <1>1, <1>3, <2>1, <2>2, KahnStarts
<1>4. CASE m # 0
  <2>1. m - 1 \in 0..n /\ m - 1 \notin B /\ m \in 0..n
    BY <1>1, <1>4
  <2>2. f[m] = Round(S, L, f[m - 1])
    BY <1>2, <1>4, <2>1
  <2>3. KahnSound(S, L, f[m - 1]) /\ (Len(f[m - 1].order) = m - 1 \/ f[m - 1].ready = {})
    BY <2>1
  <2> DEFINE st == f[m - 1]
  <2>4. /\ KahnSound(S, L, st) /\ (Len(st.order) = m - 1 \/ st.ready = {})
        /\ m - 1 \in Nat /\ (m - 1) + 1 = m /\ f[m] = Round(S, L, st)
    BY <2>1, <2>2, <2>3
  <2> HIDE DEF st, B, Good
  <2>5. /\ KahnSound(S, L, Round(S, L, st))
        /\ Len(Round(S, L, st).order) = (m - 1) + 1 \/ Round(S, L, st).ready = {}
    BY <2>4, RoundKeeps
  <2>6. KahnSound(S, L, f[m]) /\ (Len(f[m].order) = m \/ f[m].ready = {})
    BY <2>4, <2>5
  <2> QED BY <1>1, <2>6 DEF B, Good
<1> QED BY <1>3, <1>4

LEMMA CountedUp ==
  ASSUME NEW n \in Nat
  PROVE  Cardinality(1..n) = n
  BY FS_Interval

\* What orderPlansUpstreamFirst gives when the plans S, linked by L, have no
\* cycle among them: each once, and each after those of S linked to it.
LEMMA PlansOrdered ==
  ASSUME NEW N \in SUBSET Nat, NEW S \in SUBSET N, IsFiniteSet(S),
         NEW L, IsLinks(N, L), Acyclic(N, {L[i] : i \in DOMAIN L})
  PROVE  LET order == OrderPlansUpstreamFirst(S, L)
         IN  /\ OrderSound(S, L, order)
             /\ Placed(order) = S
             /\ Len(order) = Cardinality(S)
<1> DEFINE C == Cardinality(S)
           IsAfter(f) == f = [k \in 0..C |->
             IF k = 0
             THEN [order  |-> <<>>,
                   degree |-> [p \in S |-> InDegree(S, L, p)],
                   ready  |-> {p \in S : InDegree(S, L, p) = 0}]
             ELSE IF f[k - 1].ready = {} THEN f[k - 1]
             ELSE KahnStep(S, L, f[k - 1])]
           after == CHOOSE f : IsAfter(f)
           order == after[C].order
<1>1. OrderPlansUpstreamFirst(S, L) = order
  BY DEF OrderPlansUpstreamFirst
<1>2. \A f : IsAfter(f) <=> Rounds(S, L, C, f)
  BY DEF Rounds, Round, KahnStart
<1>3. C \in Nat /\ C \in 0..C
  BY FS_CardinalityType
<1>4. \E f : IsAfter(f)
  <2> HIDE DEF IsAfter, C
  <2> QED BY <1>2, <1>3, RoundsExist
<1>5. Rounds(S, L, C, after)
  <2>1. IsAfter(after)
    BY <1>4
  <2> HIDE DEF IsAfter, after, C
  <2> QED BY <1>2, <2>1
<1>6. KahnSound(S, L, after[C]) /\ (Len(order) = C \/ after[C].ready = {})
  <2> HIDE DEF IsAfter, after, C
  <2> QED BY <1>3, <1>5, RoundsSound
<1> HIDE DEF after, C
<1>7. OrderSound(S, L, order) /\ ReadySound(S, L, order, after[C].ready)
  BY <1>6 DEF KahnSound
<1> HIDE DEF order
<1>8. /\ order \in [1..Len(order) -> S] /\ Len(order) \in Nat /\ DOMAIN order = 1..Len(order)
      /\ \A i, j \in 1..Len(order) : order[i] = order[j] => i = j
      /\ Placed(order) = {order[i] : i \in 1..Len(order)}
  BY <1>7 DEF OrderSound, Placed
<1>9. Placed(order) = S
  <2>1. CASE after[C].ready = {}
    <3>1. SUFFICES ASSUME S \ Placed(order) # {} PROVE FALSE
      BY <1>8
    <3>2. PICK p \in S \ Placed(order) :
            \A q \in S \ Placed(order) : <<q, p>> \notin {L[i] : i \in DOMAIN L}
      <4> DEFINE U == S \ Placed(order)
      <4>1. U \in SUBSET N /\ IsFiniteSet(U) /\ U # {}
        BY <3>1, FS_Subset
      <4> HIDE DEF U
      <4> QED BY <4>1, HasSource DEF U
    <3>3. \A i \in DOMAIN L : L[i] = <<L[i][1], L[i][2]>>
      BY DEF IsLinks
    <3>4. ASSUME NEW i \in DOMAIN L, L[i][1] \in S \ Placed(order), L[i][2] = p PROVE FALSE
      <4>1. <<L[i][1], p>> \notin {L[j] : j \in DOMAIN L}
        BY <3>2, <3>4
      <4>2. L[i] = <<L[i][1], p>>
        BY <3>3, <3>4
      <4> QED BY <4>1, <4>2
    <3>5. Into(L, S \ Placed(order), p) = {}
      BY <3>4 DEF Into
    <3> QED BY <1>7, <2>1, <3>2, <3>5 DEF ReadySound
  <2>2. CASE Len(order) = C
    <3>1. order \in Injection(1..C, S)
      BY <1>8, <2>2 DEF Injection, IsInjective
    <3>2. Cardinality(1..C) = C
      BY <1>3, CountedUp
    <3>3. order \in Surjection(1..C, S)
      BY <3>1, <3>2, FS_Injection DEF C
    <3>4. \A p \in S : \E i \in 1..C : order[i] = p
      BY <3>3 DEF Surjection
    <3>5. Placed(order) = {order[i] : i \in 1..C} /\ \A i \in 1..C : order[i] \in S
      BY <1>8, <2>2
    <3> QED BY <3>4, <3>5
  <2> QED BY <1>6, <2>1, <2>2 DEF order
<1>10. Len(order) = C
  <2> DEFINE D == 1..Len(order)
  <2> HIDE DEF order
  <2>1. order \in Injection(D, S) /\ order \in Surjection(D, S)
    BY <1>8, <1>9 DEF Injection, IsInjective, Surjection
  <2>2. Cardinality(D) = Len(order)
    <3>1. Len(order) \in Nat
      BY <1>8
    <3> QED BY <3>1, CountedUp
  <2> HIDE DEF D
  <2>3. Cardinality(D) = Cardinality(S)
    BY <2>1, FS_Injection
  <2> QED BY <2>2, <2>3 DEF C
<1> QED BY <1>1, <1>7, <1>9, <1>10 DEF C

\* The values that finitely many indices give are finitely many.
LEMMA FiniteImage ==
  ASSUME NEW D, NEW L, IsFiniteSet(D)
  PROVE  IsFiniteSet({L[i][1] : i \in D})
<1> DEFINE T == {L[i][1] : i \in D}
           f == [i \in D |-> L[i][1]]
<1>1. f \in Surjection(D, T)
  BY DEF Surjection
<1> HIDE DEF f, T
<1>2. IsFiniteSet(T)
  BY <1>1, FS_Surjection
<1> QED BY <1>2 DEF T

\* The walk upstream finds what a walk against the links gets to.
LEMMA ClosureIsReach ==
  ASSUME NEW N, IsFiniteSet(N), NEW L, IsLinks(N, L), NEW t \in N
  PROVE  UpstreamClosure(N, L, t) = Reach(N, Mirror(L), t)
<1>1. Mirror(L) \in SUBSET (N \X N)
  BY DEF Mirror, IsLinks
<1> QED BY <1>1, SearchIsReach DEF UpstreamClosure

\* The target and what it derives from: finite, closed, and nothing in it but
\* for the target's sake.
LEMMA ClosureSound ==
  ASSUME NEW N, IsFiniteSet(N), NEW L, IsLinks(N, L), NEW t \in N
  PROVE  LET S == UpstreamClosure(N, L, t)
         IN  /\ S \in SUBSET N /\ IsFiniteSet(S) /\ t \in S
             /\ \A p \in S \ {t} : \E i \in DOMAIN L : L[i][1] = p /\ L[i][2] \in S \ {p}
<1> DEFINE S == Reach(N, Mirror(L), t)
           Sources == {L[i][1] : i \in DOMAIN L}
<1>1. S \in SUBSET N /\ t \in S
  BY DEF Reach
<1>2. IsFiniteSet(S)
  <2>1. IsFiniteSet(Sources)
    BY FiniteImage DEF IsLinks
  <2>2. IsFiniteSet(Sources \cup {t})
    BY <2>1, FS_AddElement
  <2>3. Sources \cup {t} \in SUBSET N /\ Closed(Mirror(L), Sources \cup {t})
    BY DEF IsLinks, Closed, Mirror
  <2>4. S \subseteq Sources \cup {t}
    BY <2>3, ReachInClosed
  <2> QED BY <2>2, <2>4, FS_Subset
<1>3. ASSUME NEW p \in S \ {t},
             \A i \in DOMAIN L : ~(L[i][1] = p /\ L[i][2] \in S \ {p})
      PROVE  FALSE
  <2>1. ASSUME NEW e \in Mirror(L), e[1] \in S PROVE e[2] \in S
    <3>1. e[2] \in N
      BY <2>1 DEF Mirror, IsLinks
    <3>2. ASSUME NEW T \in SUBSET N, t \in T, Closed(Mirror(L), T) PROVE e[2] \in T
      <4>1. S \subseteq T
        BY <3>2, ReachInClosed
      <4> QED BY <2>1, <3>2, <4>1 DEF Closed
    <3> QED BY <3>1, <3>2 DEF Reach
  <2>2. Closed(Mirror(L), S \ {p})
    <3> SUFFICES ASSUME NEW e \in Mirror(L), e[1] \in S \ {p} PROVE e[2] \in S \ {p}
      BY DEF Closed
    <3>1. e[2] # p
      BY <1>3 DEF Mirror
    <3> QED BY <2>1, <3>1
  <2>3. S \ {p} \in SUBSET N /\ t \in S \ {p}
    BY <1>1, <1>3
  <2>4. S \subseteq S \ {p}
    <3> DEFINE T == S \ {p}
    <3>1. T \in SUBSET N /\ t \in T /\ Closed(Mirror(L), T)
      BY <2>2, <2>3
    <3> HIDE DEF T
    <3>2. Reach(N, Mirror(L), t) \subseteq T
      BY <3>1, ReachInClosed
    <3> QED BY <3>2 DEF T
  <2> QED BY <1>3, <2>4
<1>4. UpstreamClosure(N, L, t) = S
  BY ClosureIsReach
<1> HIDE DEF S
<1> QED BY <1>1, <1>2, <1>3, <1>4

LEMMA AdjacencyLinks ==
  ASSUME TypeOK
  PROVE  IsLinks(Plan, Adjacency) /\ PlanEdges = {Adjacency[i] : i \in DOMAIN Adjacency}
<1>1. DOMAIN links = 1..Len(links) /\ Len(links) \in Nat
  BY DEF TypeOK
<1>2. IsFiniteSet(DOMAIN links)
  BY <1>1, FS_Interval
<1>3. IsFiniteSet(DOMAIN Adjacency)
  BY <1>2, FS_Subset DEF Adjacency
<1>4. ASSUME NEW i \in DOMAIN links PROVE PlanPair(links[i]) \in Plan \X Plan
  <2>1. links[i] \in LinkRow
    BY LinkTyped
  <2> QED BY <2>1, CrossPlanAssumption DEF PlanPair, LinkRow
<1> QED BY <1>3, <1>4 DEF IsLinks, Adjacency, PlanEdges

\* Whatever links there are, a recalculation is given an order with every plan
\* upstream of its target once, each before the plans that derive from it, the
\* target last.
THEOREM ProgrammeIsOrdered == Spec => []ProgrammeOrdered
<1>1. TypeOK /\ PlanGraphAcyclic => ProgrammeOrdered
  <2> SUFFICES ASSUME TypeOK, PlanGraphAcyclic, NEW t \in Plan
               PROVE  LET order == ResolveProgrammeOrder(Plan, Adjacency, t)
                          closure == Reach(Plan, Mirror(Adjacency), t)
                      IN  /\ {order[i] : i \in DOMAIN order} = closure
                          /\ Len(order) = Cardinality(closure)
                          /\ order[Len(order)] = t
                          /\ \A i, j \in DOMAIN order : <<order[i], order[j]>> \in PlanEdges => i < j
    BY DEF ProgrammeOrdered
  <2> DEFINE L == Adjacency
             S == Reach(Plan, Mirror(L), t)
             order == OrderPlansUpstreamFirst(S, L)
  <2>1. /\ IsLinks(Plan, L) /\ PlanEdges = {L[i] : i \in DOMAIN L}
        /\ Acyclic(Plan, {L[i] : i \in DOMAIN L})
    BY AdjacencyLinks DEF PlanGraphAcyclic
  <2> HIDE DEF L
  <2>2. Plan \in SUBSET Nat /\ IsFiniteSet(Plan)
    BY CrossPlanAssumption
  <2>3. /\ S \in SUBSET Plan /\ IsFiniteSet(S) /\ t \in S
        /\ \A p \in S \ {t} : \E i \in DOMAIN L : L[i][1] = p /\ L[i][2] \in S \ {p}
    <3> HIDE DEF S
    <3>1. S = UpstreamClosure(Plan, L, t)
      BY <2>1, <2>2, ClosureIsReach DEF S
    <3> QED BY <2>1, <2>2, <3>1, ClosureSound
  <2> HIDE DEF S
  <2>4. OrderSound(S, L, order) /\ Placed(order) = S /\ Len(order) = Cardinality(S)
    BY <2>1, <2>2, <2>3, PlansOrdered
  <2> HIDE DEF order
  <2>5. /\ Len(order) \in Nat /\ DOMAIN order = 1..Len(order)
        /\ \A i \in DOMAIN order : order[i] \in S
        /\ \A p \in S : \E i \in DOMAIN order : order[i] = p
    BY <2>4 DEF OrderSound, Placed
  <2>6. ASSUME NEW i \in DOMAIN order, NEW j \in DOMAIN order, NEW e \in DOMAIN L,
               L[e][1] = order[i], L[e][2] = order[j]
        PROVE  i < j
    <3>1. PICK h \in 1..(j - 1) : order[h] = L[e][1]
      BY <2>4, <2>5, <2>6 DEF OrderSound
    <3>2. h \in DOMAIN order
      BY <2>5
    <3>3. h = i
      BY <2>4, <2>6, <3>1, <3>2 DEF OrderSound
    <3> QED BY <2>5, <3>1, <3>3
  <2>7. \A i, j \in DOMAIN order : <<order[i], order[j]>> \in PlanEdges => i < j
    <3> SUFFICES ASSUME NEW i \in DOMAIN order, NEW j \in DOMAIN order,
                        <<order[i], order[j]>> \in PlanEdges
                 PROVE  i < j
      OBVIOUS
    <3>1. PICK e \in DOMAIN L : L[e] = <<order[i], order[j]>>
      BY <2>1
    <3>2. L[e][1] = order[i] /\ L[e][2] = order[j]
      BY <3>1
    <3> QED BY <2>6, <3>2
  <2>8. order[Len(order)] = t
    <3> DEFINE k == Len(order)
               p == order[k]
    <3>1. k \in DOMAIN order
      BY <2>3, <2>5
    <3> SUFFICES ASSUME p # t PROVE FALSE
      OBVIOUS
    <3>2. PICK e \in DOMAIN L : L[e][1] = p /\ L[e][2] \in S \ {p}
      BY <2>3, <2>5, <3>1
    <3>3. PICK j \in DOMAIN order : order[j] = L[e][2]
      BY <2>5, <3>2
    <3>4. k < j
      BY <2>6, <3>1, <3>2, <3>3
    <3> QED BY <2>5, <3>4
  <2>9. ResolveProgrammeOrder(Plan, Adjacency, t) = order
    BY <2>1, <2>2, ClosureIsReach DEF ResolveProgrammeOrder, order, S, L
  <2>10. {order[i] : i \in DOMAIN order} = S
    BY <2>4 DEF Placed
  <2> QED BY <2>4, <2>7, <2>8, <2>9, <2>10 DEF S, L
<1> QED BY <1>1, TypeCorrect, PlansStayAcyclic, PTL
=============================================================================
