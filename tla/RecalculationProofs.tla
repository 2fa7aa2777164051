------------------------- MODULE RecalculationProofs -------------------------
(***************************************************************************)
(* For any plans, links between them, programmes in the order of the links *)
(* and request slots: types, the stamps that tell an edit from what was    *)
(* calculated before it, and the order results are written in.             *)
(*                                                                         *)
(* What carries them is the plan's lock: while a recalculation has it, no  *)
(* locked edit commits and nobody else writes the plan's results, so what  *)
(* the recalculation has read is not older than either; and while an edit  *)
(* has it, the cursor stays behind the edit's stamp.                       *)
(*                                                                         *)
(* At the end, the types of PenClient.                                     *)
(***************************************************************************)
EXTENDS Recalculation, PenClient, TLAPS

Txn == [pc: Pc, op: Ops, todo: Seq(Plan), plans: SUBSET Plan, at: Nat,
        net: Nat, opt: Nat, up: [Plan -> Nat], wrote: [Plan -> Nat]]

Active(r) == call[r] # Idle
Recalculates(r, pcs) == Active(r) /\ call[r].op = "recalc" /\ call[r].pc \in pcs
EditsUnderLock(r, pcs) == Active(r) /\ call[r].op = "locked" /\ call[r].pc \in pcs

\* Where a request may be, by what it does.
Placed(r) ==
  Active(r) =>
    /\ call[r].op = "recalc" =>
         /\ call[r].pc \in {"load", "begin", "wait", "locked", "write", "respond"}
         /\ call[r].pc # "respond" => call[r].todo # <<>>
    /\ call[r].op \in Edits => call[r].pc \in {"wait", "stamp", "commit"}
    /\ call[r].op \in Edits /\ call[r].pc = "wait" => call[r].op = "locked"
    /\ call[r].op = "delete" => call[r].pc \in {"wait", "commit"}
    /\ call[r].op \in Locking => \E p \in Plan : call[r].plans = {p}

\* Who works under the plan's lock has it.
Locked(r) ==
  /\ Recalculates(r, {"locked", "write"}) => lock[At(r)] = r
  /\ EditsUnderLock(r, {"stamp", "commit"}) => \A p \in call[r].plans : lock[p] = r

\* No stamp is of the future; that of a recalculation is not null.
Clocked(r) ==
  /\ Active(r) => call[r].at <= clock
  /\ Recalculates(r, {"wait", "locked", "write"}) => call[r].at > 0

\* An edit that is about to commit is stamped later than the plan's cursor.
StampAhead(r) ==
  EditsUnderLock(r, {"commit"}) => \A p \in call[r].plans : cursor[p].at < call[r].at

\* What a recalculation is about to write is no older than what it must see
\* and than what is there, and was read after what it has written upstream.
ReadStands(r) ==
  Recalculates(r, {"write"}) =>
    /\ call[r].net >= mustSee[At(r)] /\ call[r].net >= results[At(r)].net
    /\ call[r].net <= net[At(r)]
    /\ \A e \in Upstream : e[2] = At(r) => call[r].up[e[1]] >= call[r].wrote[e[1]]

\* The plans to come are in the order of the links, and none of them is
\* upstream of one that is done.
UpstreamFirst(r) ==
  Active(r) =>
    /\ \A i, j \in DOMAIN call[r].todo :
         <<call[r].todo[i], call[r].todo[j]>> \in Upstream => i < j
    /\ \A e \in Upstream :
         call[r].wrote[e[2]] > 0 => \A i \in DOMAIN call[r].todo : call[r].todo[i] # e[1]

\* Revisions only grow.
WroteBehind(r) == Active(r) => \A p \in Plan : call[r].wrote[p] <= results[p].rev

Good(r) ==
  /\ Placed(r) /\ Locked(r) /\ Clocked(r) /\ StampAhead(r)
  /\ ReadStands(r) /\ UpstreamFirst(r) /\ WroteBehind(r)

\* Nothing stored is of the future.
InThePast(p) ==
  /\ cursor[p].at <= clock
  /\ results[p].rev > 0 => cursor[p].at > 0
  /\ results[p].net <= net[p]
  /\ mustSee[p] <= net[p]

IInv ==
  /\ TypeOK
  /\ \A r \in Req : Good(r)
  /\ \A p \in Plan : InThePast(p)
  /\ LockedEditsAreFlagged /\ CursorDescribesResults /\ ProgrammeIsUpToDate

-----------------------------------------------------------------------------
(* Requests.                                                               *)

LEMMA CallFields ==
  ASSUME TypeOK, NEW r \in Req, Active(r)
  PROVE  call[r] \in Txn
  BY DEF TypeOK, Call, Txn, Active

LEMMA LinkEnds ==
  \A e \in Upstream : e[1] \in Plan /\ e[2] \in Plan /\ <<e[1], e[2]>> \in Upstream
  BY RecalculationAssumption

LEMMA TxnActive ==
  ASSUME NEW txn \in Txn
  PROVE  txn \in Call /\ txn # Idle
<1>1. txn.pc # "idle"
  BY DEF Txn, Pc
<1> QED BY <1>1 DEF Call, Txn, Idle

LEMMA AtPlan ==
  ASSUME TypeOK, NEW r \in Req, Placed(r), Active(r), call[r].op = "recalc", call[r].pc # "respond"
  PROVE  /\ call[r].todo \in Seq(Plan) /\ call[r].todo # <<>>
         /\ At(r) \in Plan /\ At(r) = call[r].todo[1] /\ 1 \in DOMAIN call[r].todo
<1>1. call[r].todo \in Seq(Plan) /\ call[r].todo # <<>>
  BY CallFields DEF Placed, Txn
<1> QED BY <1>1 DEF At

LEMMA GotoFields ==
  ASSUME TypeOK, NEW r \in Req, Active(r), NEW pc \in Pc, Goto(r, pc)
  PROVE  /\ call' \in [Req -> Call] /\ Active(r)'
         /\ call'[r] \in Txn /\ call'[r].pc = pc
         /\ call'[r].op = call[r].op /\ call'[r].todo = call[r].todo
         /\ call'[r].plans = call[r].plans /\ call'[r].at = call[r].at
         /\ call'[r].net = call[r].net /\ call'[r].up = call[r].up
         /\ call'[r].wrote = call[r].wrote
         /\ \A u \in Req \ {r} : call'[u] = call[u]
<1> DEFINE txn == [call[r] EXCEPT !.pc = pc]
<1>1. call[r] \in Txn
  BY CallFields
<1>2. txn \in Txn /\ txn.pc = pc
  BY <1>1 DEF Txn
<1>3. /\ txn.op = call[r].op /\ txn.todo = call[r].todo
      /\ txn.plans = call[r].plans /\ txn.at = call[r].at
      /\ txn.net = call[r].net /\ txn.up = call[r].up /\ txn.wrote = call[r].wrote
  BY <1>1 DEF Txn
<1>4. call' = [call EXCEPT ![r] = txn]
  BY DEF Goto
<1> HIDE DEF txn
<1>5. call'[r] = txn /\ call' \in [Req -> Call] /\ (\A u \in Req \ {r} : call'[u] = call[u])
  BY <1>2, <1>4, TxnActive DEF TypeOK
<1> QED BY <1>2, <1>3, <1>5, TxnActive DEF Active

LEMMA DoneFields ==
  ASSUME TypeOK, NEW r \in Req, Done(r)
  PROVE  /\ call' \in [Req -> Call] /\ ~Active(r)'
         /\ \A u \in Req \ {r} : call'[u] = call[u]
  BY DEF TypeOK, Done, Call, Active

LEMMA EndTxFields ==
  ASSUME TypeOK, NEW r \in Req, EndTx(r)
  PROVE  /\ {lock', rowLock'} \subseteq [Plan -> Req \cup {NoReq}]
         /\ \A p \in Plan : lock[p] # r => lock'[p] = lock[p]
  BY DEF TypeOK, EndTx, Without

\* An idle slot promises nothing.
LEMMA IdleGood ==
  ASSUME NEW r \in Req, ~Active(r)
  PROVE  Good(r)
  BY DEF Good, Placed, Locked, Clocked, StampAhead, ReadStands, UpstreamFirst, WroteBehind,
         Recalculates, EditsUnderLock

LEMMA IdleGoodNext ==
  ASSUME NEW r \in Req, ~Active(r)'
  PROVE  Good(r)'
  BY DEF Good, Placed, Locked, Clocked, StampAhead, ReadStands, UpstreamFirst, WroteBehind,
         Recalculates, EditsUnderLock, Active

-----------------------------------------------------------------------------
(* What one request does leaves the others as they are: it neither takes   *)
(* their locks nor writes what they have locked, and clock and revisions   *)
(* only grow.                                                              *)

Around(u) ==
  /\ call'[u] = call[u]
  /\ clock' >= clock
  /\ \A p \in Plan : lock[p] = u =>
       /\ lock'[p] = u
       /\ results'[p] = results[p] /\ cursor'[p] = cursor[p] /\ mustSee'[p] = mustSee[p]
  /\ \A p \in Plan : net'[p] >= net[p] /\ results'[p].rev >= results[p].rev

LEMMA OthersKeep ==
  ASSUME TypeOK, TypeOK', NEW u \in Req, Good(u), Around(u)
  PROVE  Good(u)'
<1>a. CASE ~Active(u)
  <2>1. ~Active(u)'
    BY <1>a DEF Around, Active
  <2> QED BY <2>1, IdleGoodNext
<1>b. CASE Active(u)
  <2>1. call[u] \in Txn /\ call'[u] = call[u] /\ Active(u)'
    BY <1>b, CallFields DEF Around, Active
  <2>2. Placed(u)'
    BY <2>1, <1>b DEF Good, Placed
  <2>3. Locked(u)'
    <3>1. Recalculates(u, {"locked", "write"}) => At(u) \in Plan
      BY AtPlan DEF Good, Recalculates
    <3>2. call[u].plans \subseteq Plan
      BY <2>1 DEF Txn
    <3> QED BY <2>1, <1>b, <3>1, <3>2 DEF Good, Locked, Around, Recalculates, EditsUnderLock, At
  <2>4. Clocked(u)'
    <3>1. call[u].at \in Nat /\ clock \in Nat /\ clock' \in Nat /\ clock' >= clock
      BY <2>1 DEF Txn, TypeOK, Around
    <3> QED BY <2>1, <1>b, <3>1 DEF Good, Clocked, Recalculates
  <2>5. StampAhead(u)'
    <3> SUFFICES ASSUME EditsUnderLock(u, {"commit"})', NEW p \in call'[u].plans
                 PROVE  cursor'[p].at < call'[u].at
      BY DEF StampAhead
    <3>1. EditsUnderLock(u, {"commit"}) /\ p \in call[u].plans /\ p \in Plan
      BY <2>1, <1>b DEF EditsUnderLock, Txn
    <3>2. lock[p] = u /\ cursor[p].at < call[u].at
      BY <3>1 DEF Good, Locked, StampAhead, EditsUnderLock
    <3> QED BY <2>1, <3>1, <3>2 DEF Around
  <2>6. ReadStands(u)'
    <3> SUFFICES ASSUME Recalculates(u, {"write"})' PROVE ReadStands(u)'
      BY DEF ReadStands
    <3>1. Recalculates(u, {"write"}) /\ At(u)' = At(u)
      BY <2>1, <1>b DEF Recalculates, At
    <3>2. At(u) \in Plan /\ lock[At(u)] = u
      BY <3>1, AtPlan DEF Good, Locked, Recalculates
    <3>3. results'[At(u)] = results[At(u)] /\ mustSee'[At(u)] = mustSee[At(u)]
          /\ net'[At(u)] >= net[At(u)]
      BY <3>2 DEF Around
    <3>4. call[u].net <= net'[At(u)]
      <4>1. call[u].net \in Nat /\ net[At(u)] \in Nat /\ net'[At(u)] \in Nat
        BY <2>1, <3>2 DEF Txn, TypeOK
      <4> QED BY <4>1, <3>1, <3>3 DEF Good, ReadStands
    <3> QED BY <2>1, <3>1, <3>3, <3>4 DEF Good, ReadStands
  <2>7. UpstreamFirst(u)'
    BY <2>1, <1>b DEF Good, UpstreamFirst
  <2>8. WroteBehind(u)'
    <3> SUFFICES ASSUME NEW p \in Plan PROVE call'[u].wrote[p] <= results'[p].rev
      BY DEF WroteBehind
    <3>1. call[u].wrote[p] \in Nat /\ results[p].rev \in Nat /\ results'[p].rev \in Nat
      BY <2>1 DEF Txn, TypeOK
    <3>2. call[u].wrote[p] <= results[p].rev /\ results'[p].rev >= results[p].rev
      BY <1>b DEF Good, WroteBehind, Around
    <3> QED BY <2>1, <3>1, <3>2
  <2> QED BY <2>2, <2>3, <2>4, <2>5, <2>6, <2>7, <2>8 DEF Good
<1> QED BY <1>a, <1>b

\* A step of r that writes no data.
LEMMA QuietStep ==
  ASSUME IInv, TypeOK', NEW r \in Req, Good(r)', clock' >= clock,
         UNCHANGED <<net, mustSee, inputsAt, cursor, results>>,
         \A u \in Req \ {r} : call'[u] = call[u],
         \A p \in Plan : lock[p] \notin {r, NoReq} => lock'[p] = lock[p],
         Active(r)' => \/ call'[r].wrote = Zero
                       \/ Active(r) /\ call'[r].wrote = call[r].wrote
  PROVE  IInv'
<1>1. ASSUME NEW u \in Req \ {r} PROVE Good(u)'
  <2>1. \A p \in Plan : net'[p] >= net[p] /\ results'[p].rev >= results[p].rev
    BY DEF IInv, TypeOK
  <2>2. Around(u)
    BY <2>1, RecalculationAssumption DEF Around
  <2> QED BY <2>2, OthersKeep DEF IInv
<1>2. \A u \in Req : Good(u)'
  BY <1>1
<1>3. ASSUME NEW p \in Plan PROVE InThePast(p)'
  <2>1. cursor[p].at \in Nat /\ clock \in Nat /\ clock' \in Nat
    BY DEF IInv, TypeOK
  <2> QED BY <2>1 DEF IInv, InThePast
<1>4. LockedEditsAreFlagged' /\ CursorDescribesResults'
  BY DEF IInv, LockedEditsAreFlagged, Flagged, CursorDescribesResults
<1>5. ProgrammeIsUpToDate'
  <2> SUFFICES ASSUME NEW u \in Req, Active(u)', NEW e \in Upstream,
                      call'[u].wrote[e[1]] > 0, call'[u].wrote[e[2]] > 0,
                      results'[e[2]].rev = call'[u].wrote[e[2]]
               PROVE  results'[e[2]].up[e[1]] >= call'[u].wrote[e[1]]
    BY DEF ProgrammeIsUpToDate, Active
  <2>1. e[1] \in Plan /\ e[2] \in Plan
    BY RecalculationAssumption
  <2>2. CASE Active(u) /\ call'[u].wrote = call[u].wrote
    BY <2>2 DEF IInv, ProgrammeIsUpToDate, Active
  <2>3. CASE call'[u].wrote = Zero
    BY <2>1, <2>3 DEF Zero
  <2> QED BY <2>2, <2>3 DEF Active
<1> QED BY <1>2, <1>3, <1>4, <1>5 DEF IInv

-----------------------------------------------------------------------------
(* The steps that write no data.                                           *)

LEMMA InitIInv == Init => IInv
<1> SUFFICES ASSUME Init PROVE IInv
  OBVIOUS
<1>1. TypeOK
  BY DEF Init, TypeOK, Zero, Never, NoResults, Call
<1>2. \A r \in Req : ~Active(r)
  BY DEF Init, Active
<1>3. \A r \in Req : Good(r)
  BY <1>2, IdleGood
<1>4. \A p \in Plan : InThePast(p)
  BY DEF Init, InThePast, Zero, Never, NoResults
<1>5. LockedEditsAreFlagged /\ CursorDescribesResults
  BY DEF Init, LockedEditsAreFlagged, CursorDescribesResults, NoResults
<1>6. ProgrammeIsUpToDate
  BY <1>2 DEF ProgrammeIsUpToDate, Active
<1> QED BY <1>1, <1>3, <1>4, <1>5, <1>6 DEF IInv

LEMMA ArriveKeeps ==
  ASSUME IInv, NEW r \in Req, NEW op \in Ops, NEW todo \in Seq(Plan), NEW plans \in SUBSET Plan,
         Arrive(r, op, todo, plans),
         op = "recalc" => todo \in Programmes,
         op \in Locking => \E p \in Plan : plans = {p},
         op # "recalc" => todo = <<>>
  PROVE  IInv'
<1> DEFINE txn == [pc |-> FirstPc(op), op |-> op, todo |-> todo, plans |-> plans, at |-> clock,
                   net |-> 0, opt |-> 0, up |-> Zero, wrote |-> Zero]
<1>1. /\ UNCHANGED <<clock, net, mustSee, opt, gone, inputsAt, cursor, results, lock, rowLock>>
      /\ call' = [call EXCEPT ![r] = txn] /\ served' = served + 1
  BY DEF Arrive, data, locks
<1>2. /\ txn \in Txn /\ txn.pc = FirstPc(op) /\ txn.op = op /\ txn.todo = todo
      /\ txn.plans = plans /\ txn.at = clock /\ txn.wrote = Zero
  BY DEF IInv, TypeOK, Txn, FirstPc, Pc, Zero
<1> HIDE DEF txn
<1>3. call'[r] = txn /\ call' \in [Req -> Call] /\ (\A u \in Req \ {r} : call'[u] = call[u])
  BY <1>1, <1>2, TxnActive DEF IInv, TypeOK
<1>4. Active(r)'
  BY <1>2, <1>3, TxnActive DEF Active
<1>5. TypeOK'
  <2>1. served \in Nat
    BY DEF IInv, TypeOK
  <2>2. served' = served + 1
    BY <1>1
  <2>3. served' \in Nat
    BY <2>1, <2>2
  <2> QED BY <1>1, <1>3, <2>3 DEF IInv, TypeOK
<1>p. /\ op = "recalc" => txn.pc = "load" /\ todo # <<>>
      /\ op \in Locking => txn.pc = "wait"
      /\ op \notin Locking /\ op # "recalc" => txn.pc = "stamp"
  BY <1>2, RecalculationAssumption DEF FirstPc, Locking
<1>6. Placed(r)'
  <2>1. /\ call'[r].op = op /\ call'[r].todo = todo /\ call'[r].plans = plans
        /\ call'[r].pc = txn.pc
    BY <1>2, <1>3
  <2>2. op \in Edits /\ op # "locked" => op \notin Locking /\ op # "recalc"
    BY DEF Edits, Locking
  <2>3. "locked" \in Locking /\ "delete" \in Locking /\ "recalc" \notin Edits
    BY DEF Edits, Locking
  <2> QED BY <1>p, <2>1, <2>2, <2>3 DEF Placed
<1>7. Locked(r)' /\ StampAhead(r)' /\ ReadStands(r)'
  <2>1. op \in {"recalc", "locked"} => txn.pc \in {"load", "wait"}
    BY <1>p DEF Locking
  <2> QED BY <1>2, <1>3, <2>1 DEF Locked, StampAhead, ReadStands, Recalculates, EditsUnderLock
<1>8. Clocked(r)'
  <2>1. clock \in Nat /\ clock' = clock
    BY <1>1 DEF IInv, TypeOK
  <2> QED BY <2>1, <1>2, <1>3, <1>p DEF Clocked, Recalculates
<1>9. UpstreamFirst(r)'
  <2>1. \A i, j \in DOMAIN todo : <<todo[i], todo[j]>> \in Upstream => i < j
    BY RecalculationAssumption
  <2>2. \A e \in Upstream : ~(txn.wrote[e[2]] > 0)
    BY <1>2, RecalculationAssumption DEF Zero
  <2> QED BY <1>2, <1>3, <2>1, <2>2 DEF UpstreamFirst
<1>10. WroteBehind(r)'
  <2>1. \A p \in Plan : results'[p].rev \in Nat
    BY <1>5 DEF TypeOK
  <2> QED BY <1>2, <1>3, <2>1 DEF WroteBehind, Zero
<1>11. Good(r)'
  BY <1>6, <1>7, <1>8, <1>9, <1>10 DEF Good
<1>12. clock' >= clock
  BY <1>1 DEF IInv, TypeOK
<1> QED BY <1>1, <1>2, <1>3, <1>5, <1>11, <1>12, QuietStep

LEMMA ArriveAnyKeeps ==
  ASSUME IInv, NEW r \in Req, ArriveAny(r)
  PROVE  IInv'
<1>s. <<>> \in Seq(Plan)
  OBVIOUS
<1>1. CASE \E order \in Programmes : Arrive(r, "recalc", order, {})
  <2>1. PICK order \in Programmes : Arrive(r, "recalc", order, {})
    BY <1>1
  <2>2. "recalc" \in Ops /\ "recalc" \notin Locking /\ order \in Seq(Plan) /\ {} \in SUBSET Plan
    BY RecalculationAssumption DEF Ops, Locking
  <2> QED BY <2>1, <2>2, ArriveKeeps
<1>2. ASSUME NEW p \in Plan, NEW op \in {"locked", "open", "settings", "delete"},
             Arrive(r, op, <<>>, {p})
      PROVE  IInv'
  <2>1. op \in Ops /\ op # "recalc" /\ {p} \in SUBSET Plan /\ \E q \in Plan : {p} = {q}
    BY DEF Ops, Edits
  <2> QED BY <1>2, <1>s, <2>1, ArriveKeeps
<1>3. ASSUME NEW S \in SUBSET Plan, Arrive(r, "shared", <<>>, S) PROVE IInv'
  <2>1. "shared" \in Ops /\ "shared" # "recalc" /\ "shared" \notin Locking
    BY DEF Ops, Edits, Locking
  <2> QED BY <1>3, <1>s, <2>1, ArriveKeeps
<1> QED BY <1>1, <1>2, <1>3 DEF ArriveAny

LEMMA LockPlanKeeps ==
  ASSUME IInv, NEW r \in Req, NEW p \in Plan, LockPlan(r, p)
  PROVE  IInv'
<1>1. /\ Active(r) /\ call[r].pc = "wait" /\ lock[p] = NoReq /\ lock' = [lock EXCEPT ![p] = r]
      /\ call[r].op = "recalc" => p = At(r)
      /\ call[r].op # "recalc" => p \in call[r].plans
      /\ Goto(r, PcUnderLock(call[r].op))
      /\ UNCHANGED <<clock, net, mustSee, opt, gone, inputsAt, cursor, results, rowLock, served>>
  BY DEF LockPlan, Active, data
<1>t. TypeOK /\ Good(r)
  BY DEF IInv
<1>2. PcUnderLock(call[r].op) \in Pc
  BY DEF PcUnderLock, Pc
<1> DEFINE pc == PcUnderLock(call[r].op)
<1>3. /\ call' \in [Req -> Call] /\ Active(r)' /\ call'[r].pc = pc
      /\ call'[r].op = call[r].op /\ call'[r].todo = call[r].todo
      /\ call'[r].plans = call[r].plans /\ call'[r].at = call[r].at
      /\ call'[r].wrote = call[r].wrote
      /\ \A u \in Req \ {r} : call'[u] = call[u]
  BY <1>1, <1>2, <1>t, GotoFields
<1>4. lock'[p] = r /\ lock' \in [Plan -> Req \cup {NoReq}] /\ \A q \in Plan \ {p} : lock'[q] = lock[q]
  BY <1>1, <1>t DEF TypeOK
<1>5. TypeOK'
  BY <1>1, <1>3, <1>4, <1>t DEF TypeOK
<1>6. call[r].op \in {"recalc", "locked", "delete"}
  BY <1>1, <1>t, CallFields DEF Good, Placed, Txn, Ops
<1>7. Placed(r)'
  BY <1>1, <1>3, <1>6, <1>t DEF Good, Placed, PcUnderLock, Edits
<1>8. Locked(r)'
  <2>1. Recalculates(r, {"locked", "write"})' => lock'[At(r)'] = r
    BY <1>1, <1>3, <1>4 DEF Recalculates, At
  <2>2. EditsUnderLock(r, {"stamp", "commit"})' => \A q \in call'[r].plans : lock'[q] = r
    BY <1>1, <1>3, <1>4, <1>t DEF EditsUnderLock, Good, Placed, Locking
  <2> QED BY <2>1, <2>2 DEF Locked
<1>9. Clocked(r)'
  BY <1>1, <1>3, <1>6, <1>t DEF Clocked, Good, Recalculates, PcUnderLock
<1>10. StampAhead(r)' /\ ReadStands(r)'
  BY <1>3 DEF StampAhead, ReadStands, EditsUnderLock, Recalculates, PcUnderLock
<1>11. UpstreamFirst(r)' /\ WroteBehind(r)'
  BY <1>1, <1>3, <1>t DEF Good, UpstreamFirst, WroteBehind
<1>12. Good(r)'
  BY <1>7, <1>8, <1>9, <1>10, <1>11 DEF Good
<1>13. clock' >= clock
  BY <1>1, <1>t DEF TypeOK
<1>14. \A q \in Plan : lock[q] \notin {r, NoReq} => lock'[q] = lock[q]
  BY <1>1, <1>4
<1> QED BY <1>1, <1>3, <1>5, <1>12, <1>13, <1>14, QuietStep

LEMMA LoadPlanKeeps ==
  ASSUME IInv, NEW r \in Req, LoadPlan(r)
  PROVE  IInv'
<1> DEFINE txn == [call[r] EXCEPT !.pc = "begin", !.opt = opt[At(r)]]
<1>t. TypeOK /\ Good(r)
  BY DEF IInv
<1>1. /\ Active(r) /\ call[r].op = "recalc" /\ call[r].pc = "load"
      /\ call' = [call EXCEPT ![r] = txn]
      /\ UNCHANGED <<clock, net, mustSee, opt, gone, inputsAt, cursor, results, lock, rowLock, served>>
  BY DEF LoadPlan, Is, Active, data, locks
<1>2. call[r] \in Txn /\ opt[At(r)] \in Nat
  BY <1>1, <1>t, CallFields, AtPlan DEF Good, TypeOK
<1>3. /\ txn \in Txn /\ txn.pc = "begin" /\ txn.op = "recalc" /\ txn.todo = call[r].todo
      /\ txn.at = call[r].at /\ txn.wrote = call[r].wrote
  BY <1>1, <1>2 DEF Txn, Pc
<1> HIDE DEF txn
<1>4. call'[r] = txn /\ call' \in [Req -> Call] /\ (\A u \in Req \ {r} : call'[u] = call[u])
  BY <1>1, <1>3, <1>t, TxnActive DEF TypeOK
<1>5. TypeOK' /\ Active(r)'
  BY <1>1, <1>3, <1>4, <1>t, TxnActive DEF TypeOK, Active
<1>6. Placed(r)'
  BY <1>1, <1>3, <1>4, <1>t DEF Good, Placed, Edits, Locking
<1>7. Locked(r)' /\ Clocked(r)' /\ StampAhead(r)' /\ ReadStands(r)'
  BY <1>1, <1>3, <1>4, <1>t DEF Good, Locked, Clocked, StampAhead, ReadStands, Recalculates, EditsUnderLock
<1>8. UpstreamFirst(r)' /\ WroteBehind(r)'
  BY <1>1, <1>3, <1>4, <1>t DEF Good, UpstreamFirst, WroteBehind
<1>9. Good(r)' /\ clock' >= clock
  BY <1>1, <1>6, <1>7, <1>8, <1>t DEF Good, TypeOK
<1> QED BY <1>1, <1>3, <1>4, <1>5, <1>9, QuietStep

LEMMA BeginKeeps ==
  ASSUME IInv, NEW r \in Req, Begin(r)
  PROVE  IInv'
<1> DEFINE txn == [call[r] EXCEPT !.pc = "wait", !.at = clock']
<1>t. TypeOK /\ Good(r)
  BY DEF IInv
<1>1. /\ Active(r) /\ call[r].op = "recalc" /\ call[r].pc = "begin"
      /\ call' = [call EXCEPT ![r] = txn] /\ clock' = clock + 1
      /\ UNCHANGED <<net, mustSee, opt, gone, inputsAt, cursor, results, lock, rowLock, served>>
  BY DEF Begin, Is, Active, data, locks, ReadClock
<1>2. call[r] \in Txn /\ clock' \in Nat /\ clock' > 0 /\ clock' >= clock
  BY <1>1, <1>t, CallFields DEF TypeOK
<1>3. /\ txn \in Txn /\ txn.pc = "wait" /\ txn.op = "recalc" /\ txn.todo = call[r].todo
      /\ txn.at = clock' /\ txn.wrote = call[r].wrote
  BY <1>1, <1>2 DEF Txn, Pc
<1> HIDE DEF txn
<1>4. call'[r] = txn /\ call' \in [Req -> Call] /\ (\A u \in Req \ {r} : call'[u] = call[u])
  BY <1>1, <1>3, <1>t, TxnActive DEF TypeOK
<1>5. TypeOK' /\ Active(r)'
  BY <1>1, <1>2, <1>3, <1>4, <1>t, TxnActive DEF TypeOK, Active
<1>6. Placed(r)'
  BY <1>1, <1>3, <1>4, <1>t DEF Good, Placed, Edits, Locking
<1>7. Locked(r)' /\ StampAhead(r)' /\ ReadStands(r)'
  BY <1>3, <1>4 DEF Locked, StampAhead, ReadStands, Recalculates, EditsUnderLock
<1>8. Clocked(r)'
  BY <1>2, <1>3, <1>4 DEF Clocked
<1>9. UpstreamFirst(r)' /\ WroteBehind(r)'
  BY <1>1, <1>3, <1>4, <1>t DEF Good, UpstreamFirst, WroteBehind
<1>10. Good(r)'
  BY <1>6, <1>7, <1>8, <1>9 DEF Good
<1> QED BY <1>1, <1>2, <1>3, <1>4, <1>5, <1>10, QuietStep

LEMMA ReadNetworkKeeps ==
  ASSUME IInv, NEW r \in Req, ReadNetwork(r)
  PROVE  IInv'
<1> DEFINE up == [p \in Plan |-> results[p].rev]
           txn == [call[r] EXCEPT !.pc = "write", !.net = net[At(r)], !.up = up]
<1>t. TypeOK /\ Good(r)
  BY DEF IInv
<1>1. /\ Active(r) /\ call[r].op = "recalc" /\ call[r].pc = "locked"
      /\ call' = [call EXCEPT ![r] = txn]
      /\ UNCHANGED <<clock, net, mustSee, opt, gone, inputsAt, cursor, results, lock, rowLock, served>>
  BY DEF ReadNetwork, Is, Active, data, locks
<1>2. /\ call[r] \in Txn /\ At(r) \in Plan /\ net[At(r)] \in Nat /\ up \in [Plan -> Nat]
      /\ lock[At(r)] = r
  BY <1>1, <1>t, CallFields, AtPlan DEF Good, Locked, Recalculates, TypeOK
<1> HIDE DEF up
<1>3. /\ txn \in Txn /\ txn.pc = "write" /\ txn.op = "recalc" /\ txn.todo = call[r].todo
      /\ txn.at = call[r].at /\ txn.wrote = call[r].wrote /\ txn.net = net[At(r)] /\ txn.up = up
  BY <1>1, <1>2 DEF Txn, Pc
<1> HIDE DEF txn
<1>4. call'[r] = txn /\ call' \in [Req -> Call] /\ (\A u \in Req \ {r} : call'[u] = call[u])
  BY <1>1, <1>3, <1>t, TxnActive DEF TypeOK
<1>5. TypeOK' /\ Active(r)'
  BY <1>1, <1>3, <1>4, <1>t, TxnActive DEF TypeOK, Active
<1>6. At(r)' = At(r)
  BY <1>3, <1>4 DEF At
<1>7. Placed(r)'
  BY <1>1, <1>3, <1>4, <1>t DEF Good, Placed, Edits, Locking
<1>8. Locked(r)' /\ Clocked(r)' /\ StampAhead(r)'
  BY <1>1, <1>2, <1>3, <1>4, <1>6, <1>t
     DEF Good, Locked, Clocked, StampAhead, Recalculates, EditsUnderLock
<1>9. ReadStands(r)'
  <2>1. net[At(r)] >= mustSee[At(r)] /\ net[At(r)] >= results[At(r)].net
    <3>1. mustSee[At(r)] \in Nat /\ results[At(r)].net \in Nat /\ InThePast(At(r))
      BY <1>2, <1>t DEF TypeOK, IInv
    <3> QED BY <1>2, <3>1 DEF InThePast
  <2>2. ASSUME NEW e \in Upstream PROVE up[e[1]] >= call[r].wrote[e[1]]
    <3>1. e[1] \in Plan
      BY RecalculationAssumption
    <3>2. call[r].wrote[e[1]] \in Nat /\ results[e[1]].rev \in Nat
      BY <1>2, <1>t, <3>1 DEF Txn, TypeOK
    <3> QED BY <1>1, <1>t, <3>1, <3>2 DEF Good, WroteBehind, up
  <2> QED BY <1>1, <1>2, <1>3, <1>4, <1>6, <2>1, <2>2 DEF ReadStands
<1>10. UpstreamFirst(r)' /\ WroteBehind(r)'
  BY <1>1, <1>3, <1>4, <1>t DEF Good, UpstreamFirst, WroteBehind
<1>11. Good(r)' /\ clock' >= clock
  BY <1>1, <1>7, <1>8, <1>9, <1>10, <1>t DEF Good, TypeOK
<1> QED BY <1>1, <1>3, <1>4, <1>5, <1>11, QuietStep

\* A request that ends without having written.
LEMMA EndKeeps ==
  ASSUME IInv, NEW r \in Req, Respond(r) \/ RecalculationFails(r)
  PROVE  IInv'
<1>t. TypeOK
  BY DEF IInv
<1>1. /\ Done(r)
      /\ EndTx(r) \/ UNCHANGED <<lock, rowLock>>
      /\ UNCHANGED <<clock, net, mustSee, opt, gone, inputsAt, cursor, results, served>>
  BY DEF Respond, RecalculationFails, data, locks
<1>2. /\ call' \in [Req -> Call] /\ ~Active(r)'
      /\ \A u \in Req \ {r} : call'[u] = call[u]
  BY <1>1, <1>t, DoneFields
<1>3. /\ {lock', rowLock'} \subseteq [Plan -> Req \cup {NoReq}]
      /\ \A p \in Plan : lock[p] # r => lock'[p] = lock[p]
  BY <1>1, <1>t, EndTxFields DEF TypeOK
<1>4. TypeOK' /\ clock' >= clock
  BY <1>1, <1>2, <1>3, <1>t DEF TypeOK
<1> QED BY <1>1, <1>2, <1>3, <1>4, IdleGoodNext, QuietStep

LEMMA LockRowKeeps ==
  ASSUME IInv, NEW r \in Req, LockRow(r)
  PROVE  IInv'
<1>t. TypeOK /\ Good(r)
  BY DEF IInv
<1>1. rowLock' \in [Plan -> Req \cup {NoReq}]
  BY <1>t DEF LockRow, RowsDue, TypeOK
<1>2. /\ Active(r)
      /\ UNCHANGED <<clock, net, mustSee, opt, gone, inputsAt, cursor, results, lock, served, call>>
  BY DEF LockRow, data, Active
<1>3. TypeOK' /\ clock' >= clock
  BY <1>1, <1>2, <1>t DEF TypeOK
<1>4. Around(r)
  BY <1>2, <1>3, <1>t DEF Around, TypeOK
<1>5. Good(r)'
  BY <1>3, <1>4, <1>t, OthersKeep
<1> QED BY <1>2, <1>3, <1>5, QuietStep

LEMMA StampInputsKeeps ==
  ASSUME IInv, NEW r \in Req, StampInputs(r)
  PROVE  IInv'
<1> DEFINE txn == [call[r] EXCEPT !.pc = "commit", !.at = clock']
<1>t. TypeOK /\ Good(r)
  BY DEF IInv
<1>1. /\ Active(r) /\ call[r].op \in Edits /\ call[r].pc = "stamp"
      /\ call' = [call EXCEPT ![r] = txn] /\ clock' = clock + 1
      /\ UNCHANGED <<net, mustSee, opt, gone, inputsAt, cursor, results, lock, rowLock, served>>
  BY DEF StampInputs, Active, data, locks, ReadClock
<1>2. call[r] \in Txn /\ clock \in Nat /\ clock' \in Nat /\ clock' > clock
  BY <1>1, <1>t, CallFields DEF TypeOK
<1>3. /\ txn \in Txn /\ txn.pc = "commit" /\ txn.op = call[r].op /\ txn.todo = call[r].todo
      /\ txn.plans = call[r].plans /\ txn.at = clock' /\ txn.wrote = call[r].wrote
  BY <1>1, <1>2 DEF Txn, Pc
<1> HIDE DEF txn
<1>4. call'[r] = txn /\ call' \in [Req -> Call] /\ (\A u \in Req \ {r} : call'[u] = call[u])
  BY <1>1, <1>3, <1>t, TxnActive DEF TypeOK
<1>5. TypeOK' /\ Active(r)'
  BY <1>1, <1>2, <1>3, <1>4, <1>t, TxnActive DEF TypeOK, Active
<1>6. "recalc" \notin Edits /\ "delete" \notin Edits
  BY DEF Edits
<1>7. Placed(r)'
  BY <1>1, <1>3, <1>4, <1>6, <1>t DEF Good, Placed
<1>8. Locked(r)'
  BY <1>1, <1>3, <1>4, <1>6, <1>t DEF Good, Locked, Recalculates, EditsUnderLock
<1>9. Clocked(r)' /\ ReadStands(r)'
  BY <1>1, <1>2, <1>3, <1>4, <1>6 DEF Clocked, ReadStands, Recalculates
<1>10. StampAhead(r)'
  <2> SUFFICES ASSUME NEW p \in call'[r].plans PROVE cursor'[p].at < call'[r].at
    BY DEF StampAhead
  <2>1. p \in Plan
    BY <1>2, <1>3, <1>4 DEF Txn
  <2>2. cursor[p].at \in Nat /\ cursor[p].at <= clock
    BY <1>t, <2>1 DEF TypeOK, IInv, InThePast
  <2> QED BY <1>1, <1>2, <1>3, <1>4, <2>2
<1>11. UpstreamFirst(r)' /\ WroteBehind(r)'
  BY <1>1, <1>3, <1>4, <1>t DEF Good, UpstreamFirst, WroteBehind
<1>12. Good(r)' /\ clock' >= clock
  BY <1>2, <1>7, <1>8, <1>9, <1>10, <1>11 DEF Good
<1> QED BY <1>1, <1>3, <1>4, <1>5, <1>12, QuietStep

LEMMA DeletePlanKeeps ==
  ASSUME IInv, NEW r \in Req, DeletePlan(r)
  PROVE  IInv'
<1>t. TypeOK
  BY DEF IInv
<1>1. /\ Active(r) /\ Done(r) /\ EndTx(r) /\ gone' = gone \cup call[r].plans
      /\ UNCHANGED <<clock, net, mustSee, opt, inputsAt, cursor, results, served>>
  BY DEF DeletePlan, Is, Active
<1>2. /\ call' \in [Req -> Call] /\ ~Active(r)'
      /\ \A u \in Req \ {r} : call'[u] = call[u]
  BY <1>1, <1>t, DoneFields
<1>3. /\ {lock', rowLock'} \subseteq [Plan -> Req \cup {NoReq}]
      /\ \A p \in Plan : lock[p] # r => lock'[p] = lock[p]
  BY <1>1, <1>t, EndTxFields
<1>4. gone' \subseteq Plan
  BY <1>1, <1>t, CallFields DEF TypeOK, Txn
<1>5. TypeOK' /\ clock' >= clock
  BY <1>1, <1>2, <1>3, <1>4, <1>t DEF TypeOK
<1> QED BY <1>1, <1>2, <1>3, <1>5, IdleGoodNext, QuietStep

-----------------------------------------------------------------------------
(* The two steps that write data.                                          *)

\* Locks only end: whose plan r has not locked keeps its lock.
LEMMA CommitEditKeeps ==
  ASSUME IInv, NEW r \in Req, CommitEdit(r)
  PROVE  IInv'
<1> DEFINE c == call[r]
<1>t. TypeOK /\ Good(r)
  BY DEF IInv
<1>1. /\ Active(r) /\ c.op \in Edits /\ c.pc = "commit" /\ Done(r) /\ EndTx(r)
      /\ UNCHANGED <<clock, gone, cursor, results, served>>
  BY DEF CommitEdit, Active
<1>2. c \in Txn
  BY <1>1, <1>t, CallFields
<1>3. /\ net' = [p \in Plan |-> IF c.op # "settings" /\ p \in c.plans THEN net[p] + 1 ELSE net[p]]
      /\ opt' = [p \in Plan |-> IF c.op = "settings" /\ p \in c.plans THEN opt[p] + 1 ELSE opt[p]]
      /\ mustSee' = [p \in Plan |-> IF c.op = "locked" /\ p \in c.plans THEN net'[p] ELSE mustSee[p]]
      /\ inputsAt' = [p \in Plan |-> IF p \in c.plans THEN Later(inputsAt[p], c.at) ELSE inputsAt[p]]
  BY DEF CommitEdit
<1>4. /\ call' \in [Req -> Call] /\ ~Active(r)'
      /\ \A u \in Req \ {r} : call'[u] = call[u]
  BY <1>1, <1>t, DoneFields
<1>5. /\ {lock', rowLock'} \subseteq [Plan -> Req \cup {NoReq}]
      /\ \A p \in Plan : lock[p] # r => lock'[p] = lock[p]
  BY <1>1, <1>t, EndTxFields
<1>6. ASSUME NEW p \in Plan
      PROVE  /\ net[p] \in Nat /\ net'[p] \in Nat /\ net'[p] >= net[p]
             /\ opt'[p] \in Nat /\ mustSee'[p] \in Nat /\ mustSee'[p] <= net'[p]
             /\ inputsAt'[p] \in Nat /\ inputsAt'[p] >= inputsAt[p]
             /\ p \in c.plans => inputsAt'[p] >= c.at
  <2>1. /\ net[p] \in Nat /\ opt[p] \in Nat /\ mustSee[p] \in Nat /\ inputsAt[p] \in Nat
        /\ c.at \in Nat /\ mustSee[p] <= net[p]
    BY <1>2, <1>t DEF TypeOK, Txn, IInv, InThePast
  <2>2. net'[p] \in Nat /\ net'[p] >= net[p]
    BY <1>3, <2>1
  <2>3. opt'[p] \in Nat
    BY <1>3, <2>1
  <2>4. mustSee'[p] \in Nat /\ mustSee'[p] <= net'[p]
    BY <1>3, <2>1, <2>2
  <2>5. inputsAt'[p] \in Nat /\ inputsAt'[p] >= inputsAt[p] /\ (p \in c.plans => inputsAt'[p] >= c.at)
    BY <1>3, <2>1 DEF Later
  <2> QED BY <2>1, <2>2, <2>3, <2>4, <2>5
<1>7. TypeOK'
  <2>1. {net', mustSee', opt', inputsAt'} \subseteq [Plan -> Nat]
    BY <1>3, <1>6
  <2> QED BY <1>1, <1>4, <1>5, <2>1, <1>t DEF TypeOK
<1>8. ASSUME NEW u \in Req \ {r} PROVE Good(u)'
  <2>1. ASSUME NEW p \in Plan, lock[p] = u
        PROVE  lock'[p] = u /\ mustSee'[p] = mustSee[p]
    <3>1. c.op = "locked" => p \notin c.plans
      BY <1>1, <1>t, <2>1 DEF Good, Locked, EditsUnderLock
    <3> QED BY <1>3, <1>5, <2>1, <3>1
  <2>2. \A p \in Plan : results'[p].rev >= results[p].rev
    BY <1>1, <1>t DEF TypeOK
  <2>3. Around(u)
    BY <1>1, <1>4, <1>6, <2>1, <2>2, <1>t DEF Around, TypeOK
  <2> QED BY <1>7, <2>3, <1>t, OthersKeep DEF IInv
<1>9. \A u \in Req : Good(u)'
  BY <1>4, <1>8, IdleGoodNext
<1>10. ASSUME NEW p \in Plan PROVE InThePast(p)'
  <2>1. results[p].net \in Nat /\ results[p].net <= net[p]
    BY <1>t DEF TypeOK, IInv, InThePast
  <2> QED BY <1>1, <1>6, <2>1 DEF IInv, InThePast
<1>11. LockedEditsAreFlagged'
  <2> SUFFICES ASSUME NEW p \in Plan, results'[p].rev > 0, results'[p].net < mustSee'[p]
               PROVE  cursor'[p].at # 0 /\ inputsAt'[p] > cursor'[p].at
    BY DEF LockedEditsAreFlagged, Flagged
  <2>1. cursor[p].at \in Nat /\ cursor[p].at # 0
    BY <1>1, <1>t DEF TypeOK, IInv, InThePast
  <2>2. CASE c.op = "locked" /\ p \in c.plans
    <3>1. cursor[p].at < c.at
      BY <1>1, <1>t, <2>2 DEF Good, StampAhead, EditsUnderLock
    <3>2. c.at \in Nat
      BY <1>2 DEF Txn
    <3> QED BY <1>1, <1>6, <2>1, <2>2, <3>1, <3>2
  <2>3. CASE ~(c.op = "locked" /\ p \in c.plans)
    <3>1. mustSee'[p] = mustSee[p]
      BY <1>3, <2>3
    <3>2. inputsAt[p] > cursor[p].at
      BY <1>1, <3>1 DEF IInv, LockedEditsAreFlagged, Flagged
    <3>3. inputsAt[p] \in Nat
      BY <1>t DEF TypeOK
    <3> QED BY <1>1, <1>6, <2>1, <3>2, <3>3
  <2> QED BY <2>2, <2>3
<1>12. CursorDescribesResults'
  BY <1>1 DEF IInv, CursorDescribesResults
<1>13. ProgrammeIsUpToDate'
  <2>1. \A u \in Req : Active(u)' => u # r /\ call'[u] = call[u] /\ Active(u)
    BY <1>4 DEF Active
  <2> QED BY <1>1, <2>1 DEF IInv, ProgrammeIsUpToDate, Active
<1> QED BY <1>7, <1>9, <1>10, <1>11, <1>12, <1>13 DEF IInv

\* The plans still to come when the first is done: they are in order still,
\* and none of them is upstream of it.
LEMMA RestOf ==
  ASSUME NEW todo \in Seq(Plan), todo # <<>>,
         \A i, j \in DOMAIN todo : <<todo[i], todo[j]>> \in Upstream => i < j
  PROVE  LET rest == Tail(todo)
         IN  /\ rest \in Seq(Plan)
             /\ \A i, j \in DOMAIN rest : <<rest[i], rest[j]>> \in Upstream => i < j
             /\ \A i \in DOMAIN rest : <<rest[i], todo[1]>> \notin Upstream
             /\ \A i \in DOMAIN rest : \E j \in DOMAIN todo : rest[i] = todo[j]
<1> DEFINE rest == Tail(todo)
<1>1. /\ rest \in Seq(Plan) /\ 1 \in DOMAIN todo
      /\ \A i \in DOMAIN rest : i \in Nat \ {0} /\ i + 1 \in DOMAIN todo /\ rest[i] = todo[i + 1]
  OBVIOUS
<1> HIDE DEF rest
<1>2. ASSUME NEW i \in DOMAIN rest, NEW j \in DOMAIN rest, <<rest[i], rest[j]>> \in Upstream
      PROVE  i < j
  <2>1. i + 1 < j + 1
    BY <1>1, <1>2
  <2> QED BY <1>1, <2>1
<1>3. ASSUME NEW i \in DOMAIN rest, <<rest[i], todo[1]>> \in Upstream PROVE FALSE
  <2>1. i + 1 < 1
    BY <1>1, <1>3
  <2> QED BY <1>1, <2>1
<1> QED BY <1>1, <1>2, <1>3 DEF rest

\* What r is after the write, whether the plan was there or not.
LEMMA WrittenCall ==
  ASSUME IInv, NEW r \in Req, WriteResults(r), NEW wrote \in [Plan -> Nat],
         call' = [call EXCEPT ![r].pc = IF Tail(call[r].todo) = <<>> THEN "respond" ELSE "load",
                              ![r].todo = Tail(call[r].todo), ![r].wrote = wrote],
         \A q \in Plan \ {At(r)} : wrote[q] = call[r].wrote[q]
  PROVE  /\ call' \in [Req -> Call] /\ Active(r)' /\ call'[r].wrote = wrote
         /\ \A u \in Req \ {r} : call'[u] = call[u]
         /\ Placed(r)' /\ Locked(r)' /\ StampAhead(r)' /\ ReadStands(r)' /\ UpstreamFirst(r)'
         /\ call'[r].op = "recalc" /\ call'[r].pc \in {"respond", "load"} /\ call'[r].at = call[r].at
<1> DEFINE rest == Tail(call[r].todo)
           pc == IF rest = <<>> THEN "respond" ELSE "load"
           txn == [call[r] EXCEPT !.pc = pc, !.todo = rest, !.wrote = wrote]
           todo == call[r].todo
<1>t. TypeOK /\ Good(r)
  BY DEF IInv
<1>1. Active(r) /\ call[r].op = "recalc" /\ call[r].pc = "write"
  BY DEF WriteResults, Is, Active
<1>2. /\ call[r] \in Txn /\ todo \in Seq(Plan) /\ todo # <<>>
      /\ At(r) \in Plan /\ At(r) = todo[1] /\ 1 \in DOMAIN todo
  BY <1>1, <1>t, CallFields, AtPlan DEF Good
<1>3. /\ rest \in Seq(Plan)
      /\ \A i, j \in DOMAIN rest : <<rest[i], rest[j]>> \in Upstream => i < j
      /\ \A i \in DOMAIN rest : <<rest[i], At(r)>> \notin Upstream
      /\ \A i \in DOMAIN rest : \E j \in DOMAIN todo : rest[i] = todo[j]
  <2>1. \A i, j \in DOMAIN todo : <<todo[i], todo[j]>> \in Upstream => i < j
    BY <1>1, <1>t DEF Good, UpstreamFirst
  <2> HIDE DEF todo
  <2>2. \A i \in DOMAIN Tail(todo) : <<Tail(todo)[i], todo[1]>> \notin Upstream
    BY <1>2, <2>1, RestOf
  <2> QED BY <1>2, <2>1, <2>2, RestOf DEF todo
<1>4. pc \in {"respond", "load"} /\ pc \in Pc /\ (pc # "respond" => rest # <<>>)
  BY DEF Pc
<1>5. call' = [call EXCEPT ![r] = txn]
  OBVIOUS
<1> HIDE DEF pc, rest
<1>6. /\ txn \in Txn /\ txn.pc = pc /\ txn.op = "recalc" /\ txn.todo = rest
      /\ txn.at = call[r].at /\ txn.wrote = wrote
  BY <1>1, <1>2, <1>3, <1>4 DEF Txn
<1> HIDE DEF txn
<1>7. call'[r] = txn /\ call' \in [Req -> Call] /\ (\A u \in Req \ {r} : call'[u] = call[u])
  BY <1>5, <1>6, <1>t, TxnActive DEF TypeOK
<1>8. Active(r)'
  BY <1>6, <1>7, TxnActive DEF Active
<1>9. Placed(r)'
  <2>1. "recalc" \notin Edits /\ "recalc" \notin Locking
    BY DEF Edits, Locking
  <2> QED BY <1>4, <1>6, <1>7, <2>1 DEF Placed
<1>10. Locked(r)' /\ StampAhead(r)' /\ ReadStands(r)'
  BY <1>4, <1>6, <1>7 DEF Locked, StampAhead, ReadStands, Recalculates, EditsUnderLock
<1>11. UpstreamFirst(r)'
  <2>1. \A e \in Upstream : call[r].wrote[e[2]] > 0 => \A i \in DOMAIN todo : todo[i] # e[1]
    BY <1>1, <1>t DEF Good, UpstreamFirst
  <2>2. ASSUME NEW a \in Plan, NEW b \in Plan, <<a, b>> \in Upstream, wrote[b] > 0,
               NEW i \in DOMAIN rest
        PROVE  rest[i] # a
    <3>1. CASE b = At(r)
      BY <1>3, <2>2, <3>1
    <3>2. CASE b # At(r)
      <4>1. call[r].wrote[b] > 0
        BY <2>2, <3>2
      <4>2. \A j \in DOMAIN todo : todo[j] # a
        BY <2>1, <2>2, <4>1
      <4> QED BY <1>3, <4>2
    <3> QED BY <3>1, <3>2
  <2>3. \A e \in Upstream : wrote[e[2]] > 0 => \A i \in DOMAIN rest : rest[i] # e[1]
    BY <2>2, LinkEnds
  <2>4. call'[r].todo = rest /\ call'[r].wrote = wrote
    BY <1>6, <1>7
  <2> QED BY <1>3, <2>3, <2>4 DEF UpstreamFirst
<1> QED BY <1>4, <1>6, <1>7, <1>8, <1>9, <1>10, <1>11

LEMMA WriteResultsKeeps ==
  ASSUME IInv, NEW r \in Req, WriteResults(r)
  PROVE  IInv'
<1> DEFINE p == At(r)
           rev == results[p].rev + 1
           wrote == [call[r].wrote EXCEPT ![p] = rev]
           row == [rev |-> rev, at |-> call[r].at, net |-> call[r].net,
                   opt |-> call[r].opt, up |-> call[r].up]
           mark == [at |-> call[r].at, opt |-> call[r].opt]
<1>t. TypeOK /\ Good(r)
  BY DEF IInv
<1>1. /\ Active(r) /\ call[r].op = "recalc" /\ call[r].pc = "write" /\ EndTx(r)
      /\ UNCHANGED <<clock, net, mustSee, opt, gone, inputsAt, served>>
  BY DEF WriteResults, Is, Active
<1>2. /\ call[r] \in Txn /\ p \in Plan /\ lock[p] = r
  BY <1>1, <1>t, CallFields, AtPlan DEF Good, Locked, Recalculates
<1>3. /\ {lock', rowLock'} \subseteq [Plan -> Req \cup {NoReq}]
      /\ \A q \in Plan : lock[q] # r => lock'[q] = lock[q]
  BY <1>1, <1>t, EndTxFields
<1>4. CASE p \in gone
  <2>1. /\ results' = results /\ cursor' = cursor
        /\ call' = [call EXCEPT ![r].pc = IF Tail(call[r].todo) = <<>> THEN "respond" ELSE "load",
                                ![r].todo = Tail(call[r].todo), ![r].wrote = call[r].wrote]
    BY <1>4 DEF WriteResults
  <2>2. call[r].wrote \in [Plan -> Nat]
    BY <1>2 DEF Txn
  <2>3. /\ call' \in [Req -> Call] /\ Active(r)' /\ call'[r].wrote = call[r].wrote
        /\ \A u \in Req \ {r} : call'[u] = call[u]
        /\ Placed(r)' /\ Locked(r)' /\ StampAhead(r)' /\ ReadStands(r)' /\ UpstreamFirst(r)'
        /\ call'[r].op = "recalc" /\ call'[r].pc \in {"respond", "load"} /\ call'[r].at = call[r].at
    BY <2>1, <2>2, WrittenCall
  <2>4. TypeOK' /\ clock' >= clock
    <3>1. clock' >= clock
      BY <1>1, <1>t DEF TypeOK
    <3>2. results' = results /\ cursor' = cursor
      BY <2>1
    <3> QED BY <1>1, <1>3, <2>3, <3>1, <3>2, <1>t DEF TypeOK
  <2>5. Clocked(r)' /\ WroteBehind(r)'
    BY <1>1, <2>1, <2>3, <1>t DEF Good, Clocked, WroteBehind, Recalculates
  <2>6. Good(r)'
    BY <2>3, <2>5 DEF Good
  <2> QED BY <1>1, <1>3, <2>1, <2>3, <2>4, <2>6, QuietStep
<1>5. CASE p \notin gone
  <2>1. /\ results' = [results EXCEPT ![p] = row] /\ cursor' = [cursor EXCEPT ![p] = mark]
        /\ call' = [call EXCEPT ![r].pc = IF Tail(call[r].todo) = <<>> THEN "respond" ELSE "load",
                                ![r].todo = Tail(call[r].todo), ![r].wrote = wrote]
    BY <1>5 DEF WriteResults, StampOf
  <2>2. /\ call[r].wrote \in [Plan -> Nat] /\ call[r].up \in [Plan -> Nat]
        /\ call[r].at \in Nat /\ call[r].net \in Nat /\ call[r].opt \in Nat
        /\ results[p].rev \in Nat /\ rev \in Nat /\ rev > results[p].rev
    <3>1. results[p] \in [rev: Nat, at: Nat, net: Nat, opt: Nat, up: [Plan -> Nat]]
      BY <1>2, <1>t DEF TypeOK
    <3>2. results[p].rev \in Nat
      BY <3>1
    <3>3. rev \in Nat /\ rev > results[p].rev
      BY <3>2
    <3> QED BY <1>2, <3>2, <3>3 DEF Txn
  <2> HIDE DEF p, rev
  <2>3. wrote \in [Plan -> Nat] /\ wrote[p] = rev /\ \A q \in Plan \ {p} : wrote[q] = call[r].wrote[q]
    BY <1>2, <2>2
  <2> HIDE DEF wrote
  <2>4. /\ call' \in [Req -> Call] /\ Active(r)' /\ call'[r].wrote = wrote
        /\ \A u \in Req \ {r} : call'[u] = call[u]
        /\ Placed(r)' /\ Locked(r)' /\ StampAhead(r)' /\ ReadStands(r)' /\ UpstreamFirst(r)'
        /\ call'[r].op = "recalc" /\ call'[r].pc \in {"respond", "load"} /\ call'[r].at = call[r].at
    BY <2>1, <2>3, WrittenCall DEF p
  <2>5. /\ row \in [rev: Nat, at: Nat, net: Nat, opt: Nat, up: [Plan -> Nat]]
        /\ row.rev = rev /\ row.at = call[r].at /\ row.net = call[r].net
        /\ row.opt = call[r].opt /\ row.up = call[r].up
        /\ mark \in [at: Nat, opt: Nat] /\ mark.at = call[r].at
        /\ mark = [at |-> row.at, opt |-> row.opt]
    BY <2>2
  <2> HIDE DEF row, mark
  <2>6. /\ results' \in [Plan -> [rev: Nat, at: Nat, net: Nat, opt: Nat, up: [Plan -> Nat]]]
        /\ cursor' \in [Plan -> [at: Nat, opt: Nat]]
        /\ results'[p] = row /\ cursor'[p] = mark
        /\ \A q \in Plan \ {p} : results'[q] = results[q] /\ cursor'[q] = cursor[q]
    BY <1>2, <2>1, <2>5, <1>t DEF TypeOK
  <2>7. TypeOK'
    BY <1>1, <1>3, <2>4, <2>6, <1>t DEF TypeOK
  <2>8. /\ call[r].net >= mustSee[p] /\ call[r].net <= net[p]
        /\ \A e \in Upstream : e[2] = p => call[r].up[e[1]] >= call[r].wrote[e[1]]
        /\ call[r].at > 0 /\ call[r].at <= clock
        /\ \A q \in Plan : call[r].wrote[q] <= results[q].rev
    BY <1>1, <1>t DEF Good, ReadStands, Clocked, WroteBehind, Recalculates, p
  <2>9. ASSUME NEW q \in Plan
        PROVE  results'[q].rev \in Nat /\ results[q].rev \in Nat /\ results'[q].rev >= results[q].rev
    <3>1. results'[q].rev \in Nat /\ results[q].rev \in Nat
      BY <2>6, <1>t DEF TypeOK
    <3>2. rev > results[p].rev /\ results'[p].rev = rev
      BY <2>2, <2>5, <2>6
    <3>3. q # p => results'[q] = results[q]
      BY <2>6
    <3> QED BY <3>1, <3>2, <3>3
  <2>10. Good(r)'
    <3>1. Clocked(r)'
      BY <1>1, <2>4, <2>8 DEF Clocked, Recalculates
    <3>2. WroteBehind(r)'
      <4> SUFFICES ASSUME NEW q \in Plan PROVE wrote[q] <= results'[q].rev
        BY <2>4 DEF WroteBehind
      <4>1. CASE q = p
        BY <2>2, <2>3, <2>5, <2>6, <4>1
      <4>2. CASE q # p
        BY <2>3, <2>6, <2>8, <4>2
      <4> QED BY <4>1, <4>2
    <3> QED BY <2>4, <3>1, <3>2 DEF Good
  <2>11. ASSUME NEW u \in Req \ {r} PROVE Good(u)'
    <3>1. \A q \in Plan : lock[q] = u => q # p /\ u # NoReq
      BY <1>2, RecalculationAssumption
    <3>2. Around(u)
      BY <1>1, <1>3, <2>4, <2>6, <2>9, <3>1, <1>t DEF Around, TypeOK
    <3> QED BY <2>7, <3>2, <1>t, OthersKeep DEF IInv
  <2>12. ASSUME NEW q \in Plan PROVE InThePast(q)'
    <3>1. CASE q = p
      BY <1>1, <2>5, <2>6, <2>8, <3>1 DEF IInv, InThePast
    <3>2. CASE q # p
      BY <1>1, <2>6, <3>2 DEF IInv, InThePast
    <3> QED BY <3>1, <3>2
  <2>13. LockedEditsAreFlagged'
    <3> SUFFICES ASSUME NEW q \in Plan, results'[q].rev > 0, results'[q].net < mustSee'[q]
                 PROVE  cursor'[q].at # 0 /\ inputsAt'[q] > cursor'[q].at
      BY DEF LockedEditsAreFlagged, Flagged
    <3>1. q # p
      <4>1. mustSee[p] \in Nat
        BY <1>2, <1>t DEF TypeOK
      <4> QED BY <1>1, <2>2, <2>5, <2>6, <2>8, <4>1
    <3> QED BY <1>1, <2>6, <3>1 DEF IInv, LockedEditsAreFlagged, Flagged
  <2>14. CursorDescribesResults'
    BY <2>5, <2>6 DEF IInv, CursorDescribesResults
  <2>15. ProgrammeIsUpToDate'
    <3> SUFFICES ASSUME NEW u \in Req, Active(u)', NEW e \in Upstream,
                        call'[u].wrote[e[1]] > 0, call'[u].wrote[e[2]] > 0,
                        results'[e[2]].rev = call'[u].wrote[e[2]]
                 PROVE  results'[e[2]].up[e[1]] >= call'[u].wrote[e[1]]
      BY DEF ProgrammeIsUpToDate, Active
    <3>1. e[1] \in Plan /\ e[2] \in Plan /\ e = <<e[1], e[2]>>
      BY RecalculationAssumption
    <3>2. e[1] # e[2] \/ p \notin {e[1], e[2]}
      <4>1. call[r].todo[1] = p /\ 1 \in DOMAIN call[r].todo
        BY <1>1, <1>t, AtPlan DEF Good, p
      <4>2. <<p, p>> \notin Upstream
        BY <1>1, <1>t, <4>1 DEF Good, UpstreamFirst
      <4> QED BY <3>1, <4>2
    <3>3. CASE u = r /\ e[2] = p
      BY <2>3, <2>4, <2>5, <2>6, <2>8, <3>1, <3>2, <3>3
    <3>4. CASE u = r /\ e[1] = p
      <4>1. call[r].wrote[e[2]] > 0
        BY <2>3, <2>4, <3>1, <3>2, <3>4
      <4>2. call[r].todo[1] # e[1]
        BY <1>1, <1>t, <4>1, AtPlan DEF Good, UpstreamFirst
      <4> QED BY <1>1, <1>t, <3>4, <4>2, AtPlan DEF Good, p
    <3>5. CASE u = r /\ p \notin {e[1], e[2]}
      BY <1>1, <2>3, <2>4, <2>6, <3>1, <3>5 DEF IInv, ProgrammeIsUpToDate, Active
    <3>6. CASE u # r
      <4>1. call'[u] = call[u] /\ Active(u)
        BY <2>4, <3>6 DEF Active
      <4>2. call[u].wrote[e[2]] \in Nat /\ call[u].wrote[e[2]] <= results[e[2]].rev
        BY <4>1, <1>t, <3>1, CallFields DEF IInv, Good, WroteBehind, Txn
      <4>3. e[2] # p
        BY <2>2, <2>5, <2>6, <4>1, <4>2
      <4> QED BY <2>6, <3>1, <4>1, <4>3 DEF IInv, ProgrammeIsUpToDate, Active
    <3> QED BY <3>3, <3>4, <3>5, <3>6
  <2> QED BY <2>7, <2>10, <2>11, <2>12, <2>13, <2>14, <2>15 DEF IInv
<1> QED BY <1>4, <1>5

-----------------------------------------------------------------------------
LEMMA NextIInv == IInv /\ [Next]_vars => IInv'
<1> SUFFICES ASSUME IInv, [Next]_vars PROVE IInv'
  OBVIOUS
<1>1. CASE UNCHANGED vars
  <2>1. UNCHANGED <<clock, net, mustSee, opt, gone, inputsAt, cursor, results, lock, rowLock,
                    served, call>>
    BY <1>1 DEF vars, data, locks
  <2>2. TypeOK'
    BY <2>1 DEF IInv, TypeOK
  <2>3. \A r \in Req : Good(r)'
    <3> SUFFICES ASSUME NEW r \in Req PROVE Good(r)'
      OBVIOUS
    <3>1. Around(r)
      BY <2>1 DEF Around, IInv, TypeOK
    <3> QED BY <2>2, <3>1, OthersKeep DEF IInv
  <2>4. \A p \in Plan : InThePast(p)'
    BY <2>1 DEF IInv, InThePast
  <2>5. LockedEditsAreFlagged' /\ CursorDescribesResults' /\ ProgrammeIsUpToDate'
    BY <2>1 DEF IInv, LockedEditsAreFlagged, Flagged, CursorDescribesResults, ProgrammeIsUpToDate
  <2> QED BY <2>2, <2>3, <2>4, <2>5 DEF IInv
<1>2. ASSUME NEW r \in Req, ArriveAny(r) \/ Step(r) PROVE IInv'
  BY <1>2, ArriveAnyKeeps, LockPlanKeeps, LoadPlanKeeps, BeginKeeps, ReadNetworkKeeps,
     WriteResultsKeeps, EndKeeps, LockRowKeeps, StampInputsKeeps, CommitEditKeeps,
     DeletePlanKeeps DEF Step
<1> QED BY <1>1, <1>2 DEF Next

THEOREM Invariance == Spec => []IInv
<1> QED BY InitIInv, NextIInv, PTL DEF Spec

\* Rows, locks and requests are well typed in every reachable state.
THEOREM TypeCorrect == Spec => []TypeOK
<1>1. IInv => TypeOK
  BY DEF IInv
<1> QED BY <1>1, Invariance, PTL

\* What isEditedSinceCalculated promises of an edit under the plan's lock:
\* dates computed before it are flagged, whichever transaction began first.
THEOREM EditsStayFlagged == Spec => []LockedEditsAreFlagged
<1>1. IInv => LockedEditsAreFlagged
  BY DEF IInv
<1> QED BY <1>1, Invariance, PTL

\* Dates, cursor and the rule stamped beside it are of one calculation.
THEOREM CursorIsOfResults == Spec => []CursorDescribesResults
<1>1. IInv => CursorDescribesResults
  BY DEF IInv
<1> QED BY <1>1, Invariance, PTL

\* A programme in the order of the links computes every plan from what it has
\* itself written upstream, or from something newer.
THEOREM ProgrammesStayUpToDate == Spec => []ProgrammeIsUpToDate
<1>1. IInv => ProgrammeIsUpToDate
  BY DEF IInv
<1> QED BY <1>1, Invariance, PTL

\* Only a recalculation that has the plan's lock writes its dates.
LEMMA WritesForward ==
  ASSUME IInv, NEW r \in Req, WriteResults(r), NEW p \in Plan
  PROVE  results'[p].net >= results[p].net
<1>t. TypeOK /\ Good(r)
  BY DEF IInv
<1>1. Active(r) /\ call[r].op = "recalc" /\ call[r].pc = "write"
  BY DEF WriteResults, Is, Active
<1>2. call[r].net \in Nat /\ results[p].net \in Nat /\ call[r].net >= results[At(r)].net
  BY <1>1, <1>t, CallFields DEF Txn, TypeOK, Good, ReadStands, Recalculates
<1>3. CASE results' = results
  BY <1>2, <1>3
<1>4. CASE results' = [results EXCEPT ![At(r)] =
                         [rev |-> results[At(r)].rev + 1, at |-> call[r].at, net |-> call[r].net,
                          opt |-> call[r].opt, up |-> call[r].up]]
  <2>1. results'[p] = results[p] \/ (p = At(r) /\ results'[p].net = call[r].net)
    BY <1>4, <1>t DEF TypeOK
  <2> QED BY <1>2, <2>1
<1> QED BY <1>3, <1>4 DEF WriteResults

\* The stored dates of a plan never go back to an older network: who read the
\* network first also wrote first.
THEOREM DatesMoveForward == Spec => ResultsMoveForward
<1>1. ASSUME IInv, [Next]_vars, NEW p \in Plan PROVE results'[p].net >= results[p].net
  <2>1. results[p].net \in Nat
    BY <1>1 DEF IInv, TypeOK
  <2>2. CASE UNCHANGED vars
    BY <2>1, <2>2 DEF vars, data
  <2>3. ASSUME NEW r \in Req, ArriveAny(r) \/ Step(r) PROVE results'[p].net >= results[p].net
    <3>1. CASE WriteResults(r)
      BY <1>1, <3>1, WritesForward
    <3>2. CASE ~WriteResults(r)
      <4>1. results' = results
        BY <2>3, <3>2 DEF ArriveAny, Arrive, Step, LockPlan, LoadPlan, Begin, ReadNetwork, Respond,
           RecalculationFails, LockRow, StampInputs, CommitEdit, DeletePlan, data
      <4> QED BY <2>1, <4>1
    <3> QED BY <3>1, <3>2
  <2> QED BY <1>1, <2>2, <2>3 DEF Next
<1>2. IInv /\ [Next]_vars => [\A p \in Plan : results'[p].net >= results[p].net]_vars
  BY <1>1
<1> QED BY <1>2, Invariance, PTL DEF Spec, ResultsMoveForward

-----------------------------------------------------------------------------
(* The browser's side of the pen.                                          *)

Messages == (UNION {Message(k) : k \in Slot}) \cup {None}
WireOK(w) ==
  /\ w \in [Tab -> [Slot -> Messages]]
  /\ \A t \in Tab, k \in Slot : w[t][k] \in Message(k) \cup {None}
ServerOK ==
  holder \in User \cup {NoOne} /\ asked \in User \cup {NoOne} /\ age \in 0..Ttl

LEMMA TypeParts ==
  PenClientTypeOK <=>
    /\ ServerOK /\ WireOK(wire)
    /\ page \in [Tab -> {"open", "away", "closed"}]
    /\ view \in [Tab -> State \cup {"none"}]
BY DEF PenClientTypeOK, ServerOK, WireOK, Messages

LEMMA InMessages == ASSUME NEW k \in Slot PROVE Message(k) \cup {None} \subseteq Messages
BY DEF Messages

\* A slot is given what may be in it.
LEMMA Filled ==
  ASSUME NEW w, WireOK(w), NEW t \in Tab, NEW k \in Slot, NEW m \in Message(k) \cup {None}
  PROVE  WireOK([w EXCEPT ![t][k] = m])
<1> DEFINE v == [w EXCEPT ![t][k] = m]
<1>1. m \in Messages
  BY InMessages
<1>2. v \in [Tab -> [Slot -> Messages]]
  BY <1>1 DEF WireOK
<1>3. ASSUME NEW s \in Tab, NEW j \in Slot PROVE v[s][j] \in Message(j) \cup {None}
  <2>1. v[s][j] = IF s = t /\ j = k THEN m ELSE w[s][j]
    BY DEF WireOK
  <2> QED BY <2>1 DEF WireOK
<1> QED BY <1>2, <1>3 DEF WireOK

LEMMA RequestTyped ==
  ASSUME NEW k \in Slot, NEW verb, verb \in IF k = "act" THEN Verb ELSE {k}
  PROVE  Request(verb) \in Message(k)
BY DEF Request, Message

LEMMA Sent ==
  ASSUME WireOK(wire), NEW t \in Tab, NEW k \in Slot, NEW verb,
         verb \in IF k = "act" THEN Verb ELSE {k}, Send(t, k, verb)
  PROVE  WireOK(wire')
BY Filled, RequestTyped DEF Send

LEMMA Cleared ==
  ASSUME WireOK(wire), NEW t \in Tab, NEW k \in Slot, Clear(t, k)
  PROVE  WireOK(wire')
BY Filled DEF Clear

\* All slots of a tab at once.
LEMMA Refilled ==
  ASSUME WireOK(wire), NEW t \in Tab, NEW f,
         f = [k \in Slot |-> f[k]], \A k \in Slot : f[k] \in Message(k) \cup {None}
  PROVE  WireOK([wire EXCEPT ![t] = f])
<1>1. f \in [Slot -> Messages]
  <2>1. \A k \in Slot : f[k] \in Messages
    BY InMessages
  <2> QED BY <2>1
<1> QED BY <1>1 DEF WireOK

LEMMA ClearedAndInvalidated ==
  ASSUME WireOK(wire), NEW t \in Tab, NEW k \in Slot, ClearAndInvalidate(t, k)
  PROVE  WireOK(wire')
<1> DEFINE f == [j \in Slot |-> IF j = "poll" /\ page[t] = "open" THEN Request("poll")
                                ELSE IF j = k THEN None ELSE wire[t][j]]
<1>1. wire' = [wire EXCEPT ![t] = f]
  BY DEF ClearAndInvalidate
<1>2. ASSUME NEW j \in Slot PROVE f[j] \in Message(j) \cup {None}
  BY RequestTyped DEF WireOK
<1>3. f = [j \in Slot |-> f[j]]
  OBVIOUS
<1> HIDE DEF f
<1> QED BY <1>1, <1>2, <1>3, Refilled

\* The server takes a request of a user, whatever it answers.
LEMMA Handled ==
  ASSUME ServerOK, NEW u \in User, NEW verb, NEW answer, Handle(u, verb, answer)
  PROVE  ServerOK'
<1> USE PenClientAssumption DEF ServerOK
<1>1. ASSUME NEW v \in User, Lease(v) PROVE ServerOK'
  BY <1>1 DEF Lease
<1>2. CASE Renew
  BY <1>2 DEF Renew
<1>3. CASE Gone
  BY <1>3 DEF Gone
<1>4. CASE UNCHANGED server
  BY <1>4 DEF server
<1>5. CASE asked' = u /\ UNCHANGED <<holder, age>>
  BY <1>5
<1> QED BY <1>1, <1>2, <1>3, <1>4, <1>5
        DEF Handle, AcquireBy, HeartbeatBy, ReleaseBy, RequestBy, HandOffBy, StatusFor

LEMMA DeliveredTyped ==
  ASSUME PenClientTypeOK, NEW t \in Tab, NEW k \in Slot, Deliver(t, k)
  PROVE  PenClientTypeOK'
<1>t. ServerOK /\ WireOK(wire)
  BY TypeParts
<1>1. PICK answer \in State \cup {"lost", "done"} :
        /\ Handle(UserOf[t], wire[t][k].verb, answer)
        /\ wire' = [wire EXCEPT ![t][k] =
                     IF @.late \/ k = "leave" THEN None ELSE [@ EXCEPT !.answer = answer]]
  BY DEF Deliver
<1>2. ServerOK'
  BY <1>1, <1>t, Handled DEF User
<1>3. wire[t][k] \in Message(k)
  BY <1>t DEF Deliver, Pending, WireOK
<1> DEFINE m == IF wire[t][k].late \/ k = "leave" THEN None
                ELSE [wire[t][k] EXCEPT !.answer = answer]
<1>4. m \in Message(k) \cup {None}
  BY <1>3 DEF Message
<1>5. wire' = [wire EXCEPT ![t][k] = m]
  BY <1>1, <1>t DEF WireOK
<1>6. WireOK(wire')
  BY <1>4, <1>5, <1>t, Filled
<1> QED BY <1>2, <1>6 DEF Deliver, PenClientTypeOK, ServerOK, WireOK, Messages

\* What was on the wire of a closed tab is late or gone.
LEMMA ClosedTyped ==
  ASSUME WireOK(wire), NEW t \in Tab, Close(t)
  PROVE  WireOK(wire')
<1> DEFINE f == [k \in Slot |->
                   IF k = "leave" THEN IF Believes(t) THEN Request("leave") ELSE wire[t][k]
                   ELSE IF k # "poll" /\ Pending(t, k) THEN [wire[t][k] EXCEPT !.late = TRUE]
                   ELSE None]
<1>1. wire' = [wire EXCEPT ![t] = f]
  BY DEF Close, WireOK
<1>2. ASSUME NEW k \in Slot PROVE f[k] \in Message(k) \cup {None}
  <2>1. wire[t][k] \in Message(k) \cup {None}
    BY DEF WireOK
  <2>2. CASE k = "leave"
    BY <2>1, <2>2, RequestTyped
  <2>3. CASE k # "leave" /\ k # "poll" /\ Pending(t, k)
    <3>1. wire[t][k] \in Message(k)
      BY <2>1, <2>3 DEF Pending
    <3>2. [wire[t][k] EXCEPT !.late = TRUE] \in Message(k)
      BY <3>1 DEF Message
    <3> QED BY <2>3, <3>2
  <2>4. CASE k # "leave" /\ ~(k # "poll" /\ Pending(t, k))
    BY <2>4
  <2> QED BY <2>2, <2>3, <2>4
<1>3. f = [k \in Slot |-> f[k]]
  OBVIOUS
<1> HIDE DEF f
<1> QED BY <1>1, <1>2, <1>3, Refilled

LEMMA TabStepTyped ==
  ASSUME PenClientTypeOK, NEW t \in Tab, TabStep(t)
  PROVE  PenClientTypeOK'
<1>t. /\ ServerOK /\ WireOK(wire)
      /\ page \in [Tab -> {"open", "away", "closed"}]
      /\ view \in [Tab -> State \cup {"none"}]
  BY TypeParts
<1>u. ASSUME UNCHANGED server PROVE ServerOK'
  BY <1>t, <1>u DEF server, ServerOK
<1>q. ASSUME ServerOK', WireOK(wire'),
             page' \in [Tab -> {"open", "away", "closed"}],
             view' \in [Tab -> State \cup {"none"}]
      PROVE  PenClientTypeOK'
  BY <1>q DEF PenClientTypeOK, ServerOK, WireOK, Messages
<1>1. ASSUME NEW k \in Slot, Deliver(t, k) PROVE PenClientTypeOK'
  BY <1>1, DeliveredTyped
<1>2. ASSUME NEW k \in Slot, Lose(t, k) PROVE PenClientTypeOK'
  BY <1>2, <1>t, <1>u, <1>q, Cleared, ClearedAndInvalidated DEF Lose
<1>3. ASSUME NEW k \in Slot, Receive(t, k) PROVE PenClientTypeOK'
  <2>1. WireOK(wire')
    BY <1>3, <1>t, Cleared, ClearedAndInvalidated DEF Receive
  <2>2. view' \in [Tab -> State \cup {"none"}]
    BY <1>3, <1>t DEF Receive
  <2> QED BY <1>3, <1>t, <1>u, <1>q, <2>1, <2>2 DEF Receive
<1>4. CASE Open(t)
  <2>1. page' \in [Tab -> {"open", "away", "closed"}]
    BY <1>4, <1>t DEF Open
  <2> DEFINE m == IF wire[t]["poll"] = None THEN Request("poll") ELSE wire[t]["poll"]
  <2>2. m \in Message("poll") \cup {None}
    BY <1>t, RequestTyped DEF WireOK, Slot
  <2>3. wire' = [wire EXCEPT ![t]["poll"] = m]
    BY <1>4, <1>t DEF Open, WireOK, Slot
  <2> HIDE DEF m
  <2>4. WireOK(wire')
    BY <2>2, <2>3, <1>t, Filled DEF Slot
  <2> QED BY <1>4, <1>t, <1>u, <1>q, <2>1, <2>4 DEF Open
<1>5. CASE Poll(t) \/ WriteRejected(t)
  <2>1. Send(t, "poll", "poll")
    BY <1>5 DEF Poll, WriteRejected
  <2>2. WireOK(wire')
    BY <2>1, <1>t, Sent DEF Slot
  <2> QED BY <1>5, <1>t, <1>u, <1>q, <2>2 DEF Poll, WriteRejected
<1>6. CASE Beat(t)
  <2>1. WireOK(wire')
    BY <1>6, <1>t, Sent DEF Slot, Beat
  <2> QED BY <1>6, <1>t, <1>u, <1>q, <2>1 DEF Beat
<1>7. ASSUME NEW verb \in Verb, Act(t, verb) PROVE PenClientTypeOK'
  <2>1. WireOK(wire')
    BY <1>7, <1>t, Sent DEF Slot, Act
  <2> QED BY <1>7, <1>t, <1>u, <1>q, <2>1 DEF Act
<1>8. CASE Leave(t)
  <2>1. WireOK(wire')
    BY <1>8, <1>t, Sent DEF Slot, Leave
  <2>2. page' \in [Tab -> {"open", "away", "closed"}]
    BY <1>8, <1>t DEF Leave
  <2> QED BY <1>8, <1>t, <1>u, <1>q, <2>1, <2>2 DEF Leave
<1>9. CASE Forget(t)
  <2>1. view' \in [Tab -> State \cup {"none"}]
    BY <1>9, <1>t DEF Forget
  <2> QED BY <1>9, <1>t, <1>u, <1>q, <2>1 DEF Forget
<1>10. CASE Close(t)
  <2>1. WireOK(wire')
    BY <1>10, <1>t, ClosedTyped
  <2>2. page' \in [Tab -> {"open", "away", "closed"}] /\ view' \in [Tab -> State \cup {"none"}]
    BY <1>10, <1>t DEF Close
  <2> QED BY <1>10, <1>t, <1>u, <1>q, <2>1, <2>2 DEF Close
<1> QED BY <1>1, <1>2, <1>3, <1>4, <1>5, <1>6, <1>7, <1>8, <1>9, <1>10 DEF TabStep

\* What a tab believes, what is on the wire for it and the server's row are
\* well typed, whatever is lost, late or overtaken; an answer fits the slot
\* of its request, and a lease is never older than it may get.
THEOREM PenClientTyped == PenClientSpec => []PenClientTypeOK
<1>1. PenClientInit => PenClientTypeOK
  <2> SUFFICES ASSUME PenClientInit PROVE PenClientTypeOK
    OBVIOUS
  <2>1. None \in Messages
    BY DEF Messages
  <2> QED BY <2>1, PenClientAssumption DEF PenClientInit, PenClientTypeOK, Messages
<1>2. PenClientTypeOK /\ [PenClientNext]_penClientVars => PenClientTypeOK'
  <2> SUFFICES ASSUME PenClientTypeOK, [PenClientNext]_penClientVars PROVE PenClientTypeOK'
    OBVIOUS
  <2>1. CASE Tick
    BY <2>1, PenClientAssumption DEF Tick, Live, PenClientTypeOK
  <2>2. ASSUME NEW u \in Peer, PeerActs(u) PROVE PenClientTypeOK'
    <3>1. ServerOK'
      BY <2>2, Handled, TypeParts DEF PeerActs, User
    <3> QED BY <2>2, <3>1 DEF PeerActs, PenClientTypeOK, ServerOK
  <2>3. ASSUME NEW t \in Tab, TabStep(t) PROVE PenClientTypeOK'
    BY <2>3, TabStepTyped
  <2>4. CASE UNCHANGED penClientVars
    BY <2>4 DEF penClientVars, PenClientTypeOK
  <2> QED BY <2>1, <2>2, <2>3, <2>4 DEF PenClientNext
<1> QED BY <1>1, <1>2, PTL DEF PenClientSpec
=============================================================================
