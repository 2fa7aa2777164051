--------------------------- MODULE HierarchyProofs ---------------------------
(***************************************************************************)
(* Proofs about the hierarchy for any forest of clients, projects and      *)
(* plans and any number of transactions, if no row is restored inside a    *)
(* delete that found it deleted.  The row locks alone keep the tree        *)
(* together; the plans' advisory locks have a part in the waits only.      *)
(***************************************************************************)
EXTENDS Hierarchy, DigraphProofs

\* What a create or a restore has to count on.
Sharing(t) ==
  /\ tx[t].at = "ancestors"
  /\ tx[t].owned = {}
  /\ tx[t].target \in Row
  /\ tx[t].shared \subseteq Ancestors(tx[t].target)
  /\ tx[t].op = "create" => row[tx[t].target] = Absent
  /\ tx[t].op = "restore" =>
       /\ tx[t].batch \in Batch
       /\ row[tx[t].target] = tx[t].batch \/ \A n \in Row : row[n] # tx[t].batch

\* A delete that holds its client or project has in hand, at each stage, all
\* that is live below it and that it is to stamp next.
InHand(t) ==
  LET below == {m \in Below(tx[t].target) : IsLive(m)}
  IN  /\ tx[t].at = "plans" => below \cap Plan \subseteq tx[t].todo \cup tx[t].locks
      /\ tx[t].at = "rows" => below \cap Plan \subseteq tx[t].locks
      /\ tx[t].at \in {"projects", "commit"} => below \cap Plan \subseteq tx[t].owned
      /\ tx[t].at = "commit" => below \subseteq tx[t].owned

\* What a delete has to count on.
Deleting(t) ==
  /\ tx[t].at \in {"root", "read", "plans", "rows", "projects", "commit"}
  /\ tx[t].shared = {}
  /\ tx[t].target \in Row /\ row[tx[t].target] # Absent
  /\ tx[t].batch \in Batch /\ \A n \in Row : row[n] # tx[t].batch
  /\ tx[t].owned \subseteq {tx[t].target} \cup Below(tx[t].target)
  /\ tx[t].target \notin Plan => tx[t].todo \cup tx[t].locks \subseteq Below(tx[t].target)
  /\ tx[t].target \in Plan \/ tx[t].at = "root" => tx[t].owned = {}
  /\ Unanchored(t) => IsDead(tx[t].target) /\ tx[t].owned = {}
  /\ tx[t].target \in tx[t].owned => InHand(t)

\* What an expiry has to count on: once it has claimed its root that stays
\* deleted, and it stays the root of its batch.
Expiring(t) ==
  /\ tx[t].at \in {"claim", "scope", "remove"}
  /\ tx[t].shared = {}
  /\ tx[t].target \in Row /\ tx[t].batch \in Batch
  /\ row[tx[t].target] = tx[t].batch /\ tx[t].target \notin Client
       => row[Parent[tx[t].target]] # tx[t].batch
  /\ tx[t].at # "claim" => row[tx[t].target] = tx[t].batch
  /\ tx[t].at = "claim" => tx[t].owned = {}
  /\ tx[t].at = "scope" => tx[t].owned = {tx[t].target}
  /\ tx[t].at = "remove" =>
       tx[t].owned = {tx[t].target} \cup {n \in Below(tx[t].target) : row[n] # Absent}

TxOK(t) ==
  /\ tx[t].op = "idle" => tx[t] = Idle
  /\ tx[t].op \in {"create", "restore"} => Sharing(t)
  /\ tx[t].op = "delete" => Deleting(t)
  /\ tx[t].op = "expire" => Expiring(t)
  /\ tx[t].op # "expire" => \A n \in tx[t].owned \cup tx[t].shared : IsLive(n)

\* An expiry whose root is as the scan saw it.
Standing(t) == tx[t].op = "expire" /\ row[tx[t].target] = tx[t].batch

\* Two transactions do not own what the other holds, two creates or a delete
\* and any other do not share their row or their batch, there is one expiry,
\* and nothing in its reach is being deleted.
Apart(t, u) ==
  /\ tx[t].owned \cap (tx[u].owned \cup tx[u].shared) = {}
  /\ tx[t].op = "delete" => tx[u].batch # tx[t].batch
  /\ tx[t].op = "create" /\ tx[u].op = "create" => tx[u].target # tx[t].target
  /\ tx[t].op = "expire" => tx[u].op # "expire"
  /\ Standing(t) /\ tx[u].op = "delete"
       => tx[u].target \notin {tx[t].target} \cup Below(tx[t].target)

\* The inductive invariant.
IInv ==
  /\ TypeOK
  /\ NoOrphan
  /\ BatchHasOneRoot
  /\ \A t \in Tx : TxOK(t)
  /\ \A t, u \in Tx : t # u => Apart(t, u)

-----------------------------------------------------------------------------
(* The forest.                                                             *)

\* What is below a row, level by level.
LEMMA Forest ==
  /\ \A n \in Client : Ancestors(n) = {}
  /\ \A p \in Project : /\ p \notin Client /\ p \notin Plan /\ Parent[p] \in Client
                        /\ Ancestors(p) = {Parent[p]}
  /\ \A p \in Plan : /\ p \notin Client /\ p \notin Project /\ Parent[p] \in Project
                     /\ Parent[Parent[p]] \in Client
                     /\ Ancestors(p) = {Parent[p], Parent[Parent[p]]}
  BY HierarchyAssumption DEF Ancestors

\* A live row's ancestors are live.
LEMMA LiveUpwards ==
  ASSUME NoOrphan, NEW m \in Row, IsLive(m), NEW n \in Ancestors(m)
  PROVE  IsLive(n)
  BY Forest DEF NoOrphan, Row

-----------------------------------------------------------------------------
(* Steps of one transaction that commit nothing.                           *)

LEMMA Moves ==
  ASSUME IInv, NEW t \in Tx, row' = row, tx' \in [Tx -> Txn],
         \A u \in Tx \ {t} : tx'[u] = tx[u],
         TxOK(t)', \A u \in Tx \ {t} : Apart(t, u)' /\ Apart(u, t)'
  PROVE  IInv'
<1>1. TypeOK' /\ NoOrphan' /\ BatchHasOneRoot'
  BY DEF IInv, TypeOK, NoOrphan, BatchHasOneRoot, IsLive
<1>2. ASSUME NEW u \in Tx
      PROVE  TxOK(u)'
  <2>1. CASE u # t
    <3>1. tx'[u] = tx[u] /\ TxOK(u)
      BY <2>1 DEF IInv
    <3>2. Deleting(u) => Deleting(u)'
      BY <3>1 DEF Deleting, Unanchored, InHand, Below, IsLive, IsDead
    <3>3. Expiring(u) => Expiring(u)'
      BY <3>1 DEF Expiring, Below
    <3> QED
      BY <3>1, <3>2, <3>3 DEF TxOK, Sharing, IsLive
  <2> QED
    BY <2>1
<1>3. ASSUME NEW u \in Tx, NEW v \in Tx, u # v
      PROVE  Apart(u, v)'
  <2>1. CASE u # t /\ v # t
    BY <1>3, <2>1 DEF IInv, Apart, Standing, Below
  <2> QED
    BY <1>3, <2>1
<1> QED
  BY <1>1, <1>2, <1>3 DEF IInv

\* A transaction that ends without a commit, or has not begun, disturbs nobody.
LEMMA FailKeeps ==
  ASSUME IInv, NEW t \in Tx, End(t), row' = row
  PROVE  IInv'
<1>1. Idle \in Txn /\ Idle.op = "idle" /\ Idle.owned = {} /\ Idle.shared = {} /\ Idle.batch = Live
  BY DEF Idle, Txn
<1>2. tx \in [Tx -> Txn]
  BY DEF IInv, TypeOK
<1>3. /\ tx' \in [Tx -> Txn] /\ tx'[t] = Idle
      /\ \A u \in Tx \ {t} : tx'[u] = tx[u]
  BY <1>1, <1>2 DEF End
<1>4. TxOK(t)'
  BY <1>1, <1>3 DEF TxOK
<1>5. ASSUME NEW u \in Tx \ {t}
      PROVE  Apart(t, u)' /\ Apart(u, t)'
  <2>1. tx[u].op = "delete" => tx[u].batch # Live
    BY HierarchyAssumption DEF IInv, TxOK, Deleting
  <2> QED
    BY <1>1, <1>3, <2>1 DEF Apart, Standing
<1> QED
  BY <1>3, <1>4, <1>5, Moves

\* A transaction that begins holds nothing.
LEMMA Begins ==
  ASSUME IInv, NEW t \in Tx, NEW txn \in Txn, Begin(t, txn),
         txn.op # "idle", txn.owned = {}, txn.shared = {},
         txn.op \in {"create", "restore"} => Sharing(t)',
         txn.op = "delete" => Deleting(t)',
         txn.op = "expire" => Expiring(t)',
         \A u \in Tx \ {t} :
           /\ txn.op = "expire" =>
                /\ tx[u].op # "expire"
                /\ tx[u].op = "delete" => tx[u].target \notin {txn.target} \cup Below(txn.target)
           /\ Standing(u) /\ txn.op = "delete"
                => txn.target \notin {tx[u].target} \cup Below(tx[u].target)
           /\ tx[u].op = "delete" => txn.batch # tx[u].batch
           /\ txn.op = "delete" => tx[u].batch # txn.batch
           /\ txn.op = "create" => tx[u].target # txn.target
  PROVE  IInv'
<1>1. tx \in [Tx -> Txn]
  BY DEF IInv, TypeOK
<1>2. /\ tx' \in [Tx -> Txn] /\ tx'[t] = txn /\ row' = row
      /\ \A u \in Tx \ {t} : tx'[u] = tx[u]
  BY <1>1 DEF Begin
<1>3. TxOK(t)'
  BY <1>2 DEF TxOK
<1>4. \A u \in Tx \ {t} : Apart(t, u)' /\ Apart(u, t)'
  BY <1>2 DEF Apart, Standing, Below
<1> QED
  BY <1>2, <1>3, <1>4, Moves

LEMMA AskCreateKeeps ==
  ASSUME IInv, NEW t \in Tx, NEW n \in Row, AskCreate(t, n)
  PROVE  IInv'
<1> DEFINE txn == [Idle EXCEPT !.op = "create", !.at = "ancestors", !.target = n]
<1>1. /\ txn \in Txn /\ txn.op = "create" /\ txn.at = "ancestors" /\ txn.target = n
      /\ txn.owned = {} /\ txn.shared = {} /\ txn.batch = Live
  BY DEF Idle, Txn
<1>2. Begin(t, txn)
  BY DEF AskCreate
<1>3. tx'[t] = txn /\ row' = row
  BY <1>2 DEF Begin, IInv, TypeOK
<1> HIDE DEF txn
<1>4. Sharing(t)'
  BY <1>1, <1>3 DEF Sharing, AskCreate
<1>5. \A u \in Tx \ {t} : tx[u].op = "delete" => tx[u].batch # Live
  BY HierarchyAssumption DEF IInv, TxOK, Deleting
<1>6. \A u \in Tx \ {t} : tx[u].target # n
  BY DEF AskCreate
<1> QED
  BY <1>1, <1>2, <1>4, <1>5, <1>6, Begins

LEMMA AskRestoreKeeps ==
  ASSUME IInv, NEW t \in Tx, NEW n \in Row, AskRestore(t, n)
  PROVE  IInv'
<1> DEFINE txn == [Idle EXCEPT !.op = "restore", !.at = "ancestors", !.target = n,
                               !.batch = row[n]]
<1>1. /\ txn \in Txn /\ txn.op = "restore" /\ txn.at = "ancestors" /\ txn.target = n
      /\ txn.owned = {} /\ txn.shared = {} /\ txn.batch = row[n] /\ row[n] \in Batch
  BY DEF Idle, Txn, AskRestore, IsDead
<1>2. Begin(t, txn)
  BY DEF AskRestore
<1>3. tx'[t] = txn /\ row' = row
  BY <1>2 DEF Begin, IInv, TypeOK
<1> HIDE DEF txn
<1>4. Sharing(t)'
  BY <1>1, <1>3 DEF Sharing
<1>5. \A u \in Tx \ {t} : tx[u].op = "delete" => tx[u].batch # row[n]
  BY DEF IInv, TxOK, Deleting
<1> QED
  BY <1>1, <1>2, <1>4, <1>5, Begins

LEMMA AskDeleteKeeps ==
  ASSUME IInv, NEW t \in Tx, NEW n \in Row, NEW b \in Batch, AskDelete(t, n, b)
  PROVE  IInv'
<1> DEFINE txn == [Idle EXCEPT !.op = "delete", !.at = "root", !.target = n, !.batch = b]
<1>1. /\ txn \in Txn /\ txn.op = "delete" /\ txn.at = "root" /\ txn.target = n
      /\ txn.owned = {} /\ txn.shared = {} /\ txn.batch = b
      /\ txn.todo = {} /\ txn.locks = {}
  BY DEF Idle, Txn
<1>2. Begin(t, txn)
  BY DEF AskDelete
<1>3. tx'[t] = txn /\ row' = row
  BY <1>2 DEF Begin, IInv, TypeOK
<1>4. row[n] # Absent /\ \A m \in Row : row[m] # b
  BY HierarchyAssumption DEF AskDelete, IsLive, Fresh
<1> HIDE DEF txn
<1>5. Deleting(t)'
  BY <1>1, <1>3, <1>4 DEF Deleting, Unanchored, InHand
<1>6. \A u \in Tx : tx[u].batch # b
  BY DEF AskDelete, Fresh
<1>7. ASSUME NEW u \in Tx, Standing(u)
      PROVE  n \notin {tx[u].target} \cup Below(tx[u].target)
  <2>1. ~IsLive(tx[u].target)
    BY <1>7, HierarchyAssumption DEF Standing, IInv, TxOK, Expiring, IsLive
  <2>2. IsLive(n) /\ NoOrphan
    BY DEF AskDelete, IInv
  <2> QED
    BY <2>1, <2>2, LiveUpwards DEF Below
<1> QED
  BY <1>1, <1>2, <1>5, <1>6, <1>7, Begins

\* An ancestor that is granted FOR SHARE is live, and nobody is writing it.
LEMMA ShareAncestorKeeps ==
  ASSUME IInv, NEW t \in Tx, ShareAncestor(t)
  PROVE  IInv'
<1>1. PICK n \in NextAncestor(t) :
        /\ IsLive(n)
        /\ tx' = [tx EXCEPT ![t].shared = @ \cup {n}]
  BY DEF ShareAncestor
<1>2. tx \in [Tx -> Txn]
  BY DEF IInv, TypeOK
<1>3. tx[t].at = "ancestors" /\ TxOK(t) /\ row' = row
  BY DEF ShareAncestor, IInv
<1>4. tx[t].op \in {"create", "restore"} /\ Sharing(t)
  BY <1>2, <1>3 DEF TxOK, Deleting, Expiring, Idle, Txn
<1>5. n \in Ancestors(tx[t].target) /\ n \in Row
  <2>1. n \in Ancestors(tx[t].target)
    BY DEF NextAncestor
  <2> QED
    BY <1>4, <2>1, Forest DEF Sharing, Row
<1>6. /\ tx' \in [Tx -> Txn] /\ tx'[t] = [tx[t] EXCEPT !.shared = @ \cup {n}]
      /\ \A u \in Tx \ {t} : tx'[u] = tx[u]
  BY <1>1, <1>2, <1>5 DEF Txn
<1>7. /\ tx'[t].shared = tx[t].shared \cup {n} /\ tx'[t].op = tx[t].op /\ tx'[t].at = tx[t].at
      /\ tx'[t].owned = tx[t].owned /\ tx'[t].target = tx[t].target
      /\ tx'[t].batch = tx[t].batch
  BY <1>2, <1>6 DEF Txn
<1>8. TxOK(t)'
  BY <1>1, <1>3, <1>4, <1>5, <1>7 DEF TxOK, Sharing, IsLive
<1>9. ASSUME NEW u \in Tx \ {t}
      PROVE  Apart(t, u)' /\ Apart(u, t)'
  <2>1. n \notin tx[u].owned
    BY <1>1, <1>3 DEF ShareAncestor, Granted, WaitsFor, WantsShared
  <2>2. Apart(t, u) /\ Apart(u, t)
    BY DEF IInv
  <2> QED
    BY <1>3, <1>4, <1>6, <1>7, <2>1, <2>2 DEF Apart, Standing, Below
<1> QED
  BY <1>3, <1>6, <1>8, <1>9, Moves

-----------------------------------------------------------------------------
(* Steps of a delete before it commits.                                    *)

LEMMA AtWork ==
  ASSUME IInv, NEW t \in Tx,
         tx[t].at \in {"root", "read", "plans", "rows", "projects", "commit"}
  PROVE  /\ tx \in [Tx -> Txn] /\ row \in [Row -> Batch \cup {Live, Absent}]
         /\ tx[t].op = "delete" /\ Deleting(t) /\ TxOK(t)
<1>1. tx \in [Tx -> Txn] /\ row \in [Row -> Batch \cup {Live, Absent}] /\ TxOK(t)
  BY DEF IInv, TypeOK
<1>2. tx[t].op = "delete"
  BY <1>1 DEF TxOK, Sharing, Expiring, Idle, Txn
<1> QED
  BY <1>1, <1>2 DEF TxOK

\* A delete that locks more must lock live rows that nobody else holds.
LEMMA DeleteMoves ==
  ASSUME IInv, NEW t \in Tx, tx[t].op = "delete",
         row' = row, tx' \in [Tx -> Txn], \A u \in Tx \ {t} : tx'[u] = tx[u],
         tx'[t].op = "delete", tx'[t].batch = tx[t].batch, tx'[t].target = tx[t].target,
         NEW more, tx'[t].owned = tx[t].owned \cup more,
         \A n \in more : IsLive(n),
         \A u \in Tx \ {t} : more \cap (tx[u].owned \cup tx[u].shared) = {},
         Deleting(t)'
  PROVE  IInv'
<1>1. TxOK(t) /\ \A u \in Tx \ {t} : Apart(t, u) /\ Apart(u, t)
  BY DEF IInv
<1>2. tx'[t].shared = {}
  BY DEF Deleting
<1>3. TxOK(t)'
  BY <1>1, <1>2 DEF TxOK, IsLive
<1>4. tx[t].shared = {}
  BY <1>1 DEF TxOK, Deleting
<1>5. \A u \in Tx \ {t} : Apart(t, u)' /\ Apart(u, t)'
  BY <1>1, <1>2, <1>4 DEF Apart, Standing, Below
<1> QED
  BY <1>3, <1>5, Moves

LEMMA DeleteStays ==
  ASSUME IInv, NEW t \in Tx, tx[t].op = "delete",
         row' = row, tx' \in [Tx -> Txn], \A u \in Tx \ {t} : tx'[u] = tx[u],
         tx'[t].op = "delete", tx'[t].batch = tx[t].batch, tx'[t].target = tx[t].target,
         tx'[t].owned = tx[t].owned, Deleting(t)'
  PROVE  IInv'
<1> DEFINE none == {}
<1>1. /\ tx'[t].owned = tx[t].owned \cup none
      /\ \A n \in none : IsLive(n)
      /\ \A u \in Tx \ {t} : none \cap (tx[u].owned \cup tx[u].shared) = {}
  OBVIOUS
<1> HIDE DEF none
<1> QED
  BY <1>1, DeleteMoves

\* A statement of a delete keeps the invariant if what it takes is below the
\* root, and if it leaves a delete without a root nothing, and one with a root
\* all it needs.
LEMMA TakeKeeps ==
  ASSUME IInv, NEW t \in Tx, NEW at \in {"root", "rows", "projects"},
         NEW next \in {"read", "projects", "commit"},
         Take(t, at, next),
         WantsRows(t) \subseteq {tx[t].target} \cup Below(tx[t].target),
         tx[t].target \in Plan => WantsRows(t) = {},
         tx[t].target \notin Plan /\ tx[t].target \notin tx[t].owned \cup WantsRows(t)
           => IsDead(tx[t].target) /\ tx[t].owned \cup WantsRows(t) = {},
         tx[t].target \in tx[t].owned \cup WantsRows(t) => InHand(t)'
  PROVE  IInv'
<1> DEFINE more == WantsRows(t)
<1>1. /\ tx \in [Tx -> Txn] /\ tx[t].op = "delete" /\ Deleting(t)
      /\ Granted(t) /\ tx' = [tx EXCEPT ![t].owned = @ \cup more, ![t].at = next]
      /\ row' = row
  BY AtWork DEF Take
<1>2. more \subseteq Row /\ \A n \in more : IsLive(n)
  <2>1. \A n \in more : IsLive(n)
    BY DEF WantsRows
  <2>2. Below(tx[t].target) \subseteq Row
    BY DEF Below, Row
  <2> QED
    BY <1>1, <2>1, <2>2 DEF Deleting
<1>3. \A u \in Tx \ {t} : more \cap (tx[u].owned \cup tx[u].shared) = {}
  BY <1>1 DEF Granted, WaitsFor
<1> HIDE DEF more
<1> DEFINE txn == [tx[t] EXCEPT !.owned = @ \cup more, !.at = next]
<1>4. /\ txn \in Txn /\ txn.owned = tx[t].owned \cup more /\ txn.at = next
      /\ txn.op = "delete" /\ txn.shared = tx[t].shared /\ txn.batch = tx[t].batch
      /\ txn.target = tx[t].target /\ txn.todo = tx[t].todo /\ txn.locks = tx[t].locks
  <2>1. tx[t] \in Txn
    BY <1>1
  <2>2. txn \in Txn
    BY <1>2, <2>1 DEF Txn
  <2> QED BY <1>1, <2>1, <2>2 DEF Txn
<1>5. tx' \in [Tx -> Txn] /\ tx'[t] = txn /\ \A u \in Tx \ {t} : tx'[u] = tx[u]
  <2>1. tx' = [tx EXCEPT ![t] = txn]
    BY <1>1
  <2> HIDE DEF txn
  <2> QED BY <1>1, <1>4, <2>1
<1> HIDE DEF txn
<1>6. Deleting(t)'
  <2>1. tx'[t].owned \subseteq {tx'[t].target} \cup Below(tx'[t].target)
    BY <1>1, <1>4, <1>5 DEF Deleting, more
  <2>2. tx'[t].target \in Plan \/ tx'[t].at = "root" => tx'[t].owned = {}
    BY <1>1, <1>4, <1>5 DEF Deleting, more
  <2>3. (Unanchored(t) => IsDead(tx[t].target) /\ tx[t].owned = {})'
    BY <1>1, <1>4, <1>5 DEF Unanchored, IsDead, more
  <2>4. (tx[t].target \in tx[t].owned => InHand(t))'
    BY <1>4, <1>5 DEF more
  <2> QED
    BY <1>1, <1>4, <1>5, <2>1, <2>2, <2>3, <2>4 DEF Deleting, Below
<1> QED
  BY <1>1, <1>2, <1>3, <1>4, <1>5, <1>6, DeleteMoves

\* The root is locked if it is live; what was deleted meanwhile is only dead.
LEMMA LockRootKeeps ==
  ASSUME IInv, NEW t \in Tx, LockRoot(t)
  PROVE  IInv'
<1> DEFINE n == tx[t].target
<1>1. /\ tx[t].at = "root" /\ tx[t].op = "delete" /\ Deleting(t) /\ tx \in [Tx -> Txn]
      /\ row \in [Row -> Batch \cup {Live, Absent}]
  BY AtWork DEF LockRoot, Take
<1>2. WantsRows(t) = {m \in {n} \ Plan : IsLive(m)}
  BY <1>1 DEF WantsRows, Targets
<1>3. tx[t].owned = {} /\ n \in Row /\ row[n] # Absent
  BY <1>1 DEF Deleting
<1>4. IsLive(n) \/ IsDead(n)
  BY <1>1, <1>3 DEF IsLive, IsDead
<1>5. tx'[t].at = "read"
  BY <1>1 DEF LockRoot, Take, Txn
<1>6. InHand(t)'
  BY <1>5 DEF InHand
<1> QED
  BY <1>2, <1>3, <1>4, <1>6, TakeKeeps DEF LockRoot

\* What is below a row is of the tables below its own, and not the row itself.
LEMMA Levels ==
  /\ \A n \in Row : n \notin Below(n) /\ Below(n) \subseteq Row
  /\ \A n \in Plan : Below(n) = {} /\ Children(n) = {}
  /\ \A n \in Project : Below(n) = Children(n) \cap Plan /\ Children(n) \cap Project = {}
  /\ \A n \in Client : Below(n) \cap Project = Children(n) \cap Project
                       /\ Children(n) \cap Plan = {}
  BY Forest DEF Below, Children, Row

\* The subtree is read when the root is locked, so all that is live is in it.
LEMMA ReadSubtreeKeeps ==
  ASSUME IInv, NEW t \in Tx, ReadSubtree(t)
  PROVE  IInv'
<1> DEFINE n == tx[t].target
           read == PlansBelow(n)
           txn == [tx[t] EXCEPT !.todo = read, !.at = "plans"]
<1>1. /\ tx[t].at = "read" /\ tx[t].op = "delete" /\ Deleting(t) /\ tx \in [Tx -> Txn]
      /\ tx' = [tx EXCEPT ![t].todo = read, ![t].at = "plans"] /\ row' = row
      /\ NoOrphan
  BY AtWork DEF ReadSubtree, IInv
<1>2. n \in Row
  BY <1>1 DEF Deleting
<1>3. read \subseteq Plan /\ (n \notin Plan => read \subseteq Below(n))
  BY <1>2, Forest DEF PlansBelow, Below, Row
<1>4. n \notin Plan => {m \in Below(n) : IsLive(m)} \cap Plan \subseteq read
  BY <1>1, <1>2, Forest DEF PlansBelow, Below, Row, NoOrphan
<1> HIDE DEF read
<1>5. /\ txn \in Txn /\ txn.owned = tx[t].owned /\ txn.at = "plans"
      /\ txn.op = "delete" /\ txn.shared = tx[t].shared /\ txn.batch = tx[t].batch
      /\ txn.target = n /\ txn.todo = read /\ txn.locks = tx[t].locks
  BY <1>1, <1>3 DEF Txn
<1>6. tx' \in [Tx -> Txn] /\ tx'[t] = txn /\ \A u \in Tx \ {t} : tx'[u] = tx[u]
  BY <1>1, <1>5
<1> HIDE DEF txn
<1>7. (tx[t].target \in tx[t].owned => InHand(t))'
  BY <1>1, <1>4, <1>5, <1>6 DEF InHand, Below, IsLive, Deleting
<1>8. Deleting(t)'
  BY <1>1, <1>3, <1>5, <1>6, <1>7 DEF Deleting, Unanchored, IsDead, Below
<1> QED
  BY <1>1, <1>5, <1>6, <1>8, DeleteStays

\* A plan's advisory lock is taken from what was read.
LEMMA LockPlanKeeps ==
  ASSUME IInv, NEW t \in Tx, LockPlan(t)
  PROVE  IInv'
<1> DEFINE p == WantsLock(t)
           txn == [tx[t] EXCEPT !.locks = @ \cup p, !.todo = @ \ p]
<1>1. /\ tx[t].at = "plans" /\ tx[t].op = "delete" /\ Deleting(t) /\ tx \in [Tx -> Txn]
      /\ tx' = [tx EXCEPT ![t].locks = @ \cup p, ![t].todo = @ \ p] /\ row' = row
  BY AtWork DEF LockPlan
<1>2. p \subseteq tx[t].todo
  BY DEF WantsLock
<1> HIDE DEF p
<1>3. /\ txn \in Txn /\ txn.owned = tx[t].owned /\ txn.at = "plans"
      /\ txn.op = "delete" /\ txn.shared = tx[t].shared /\ txn.batch = tx[t].batch
      /\ txn.target = tx[t].target /\ txn.todo \cup txn.locks = tx[t].todo \cup tx[t].locks
  <2>1. tx[t] \in Txn
    BY <1>1
  <2>2. txn \in Txn
    BY <1>2, <2>1 DEF Txn
  <2>3. txn.todo = tx[t].todo \ p /\ txn.locks = tx[t].locks \cup p
    BY <2>1 DEF Txn
  <2>4. txn.todo \cup txn.locks = tx[t].todo \cup tx[t].locks
    BY <1>2, <2>3
  <2> QED BY <1>1, <2>1, <2>2, <2>4 DEF Txn
<1>4. tx' \in [Tx -> Txn] /\ tx'[t] = txn /\ \A u \in Tx \ {t} : tx'[u] = tx[u]
  <2>1. tx' = [tx EXCEPT ![t] = txn]
    BY <1>1
  <2> HIDE DEF txn
  <2> QED BY <1>1, <1>3, <2>1
<1> HIDE DEF txn
<1>5. (tx[t].target \in tx[t].owned => InHand(t))'
  BY <1>1, <1>3, <1>4 DEF InHand, Below, IsLive, Deleting
<1>6. Deleting(t)'
  BY <1>1, <1>3, <1>4, <1>5 DEF Deleting, Unanchored, IsDead, Below
<1> QED
  BY <1>1, <1>3, <1>4, <1>6, DeleteStays

LEMMA PlansLockedKeeps ==
  ASSUME IInv, NEW t \in Tx, PlansLocked(t)
  PROVE  IInv'
<1> DEFINE txn == [tx[t] EXCEPT !.at = "rows"]
<1>1. /\ tx[t].at = "plans" /\ tx[t].todo = {} /\ tx[t].op = "delete" /\ Deleting(t)
      /\ tx \in [Tx -> Txn] /\ tx' = [tx EXCEPT ![t].at = "rows"] /\ row' = row
  BY AtWork DEF PlansLocked
<1>2. /\ txn \in Txn /\ txn.owned = tx[t].owned /\ txn.at = "rows"
      /\ txn.op = "delete" /\ txn.shared = tx[t].shared /\ txn.batch = tx[t].batch
      /\ txn.target = tx[t].target /\ txn.todo = tx[t].todo /\ txn.locks = tx[t].locks
  BY <1>1 DEF Txn
<1>3. tx' \in [Tx -> Txn] /\ tx'[t] = txn /\ \A u \in Tx \ {t} : tx'[u] = tx[u]
  BY <1>1, <1>2
<1> HIDE DEF txn
<1>4. (tx[t].target \in tx[t].owned => InHand(t))'
  BY <1>1, <1>2, <1>3 DEF InHand, Below, IsLive, Deleting
<1>5. Deleting(t)'
  BY <1>1, <1>2, <1>3, <1>4 DEF Deleting, Unanchored, IsDead, Below
<1> QED
  BY <1>1, <1>2, <1>3, <1>5, DeleteStays

\* A stamp below a root that is deleted finds nothing.
LEMMA StampKeeps ==
  ASSUME IInv, NEW t \in Tx, NEW at \in {"rows", "projects"},
         NEW next \in {"projects", "commit"}, Take(t, at, next),
         WantsRows(t) \subseteq Below(tx[t].target),
         tx[t].target \in tx[t].owned => InHand(t)'
  PROVE  IInv'
<1> DEFINE n == tx[t].target
<1>1. tx[t].at = at /\ Deleting(t) /\ NoOrphan /\ tx[t].op = "delete"
  BY AtWork DEF Take, IInv
<1>2. n \in Row /\ n \notin Below(n) /\ Below(n) \subseteq Row
  BY <1>1, Levels DEF Deleting
<1>3. n \in Plan => WantsRows(t) = {}
  BY Levels
<1>4. ASSUME n \notin Plan, n \notin tx[t].owned
      PROVE  IsDead(n) /\ tx[t].owned \cup WantsRows(t) = {}
  <2>1. IsDead(n) /\ tx[t].owned = {}
    BY <1>1, <1>4 DEF Deleting, Unanchored
  <2>2. ~IsLive(n)
    BY <2>1, HierarchyAssumption DEF IsLive, IsDead
  <2>3. \A m \in Below(n) : ~IsLive(m)
    BY <1>1, <1>2, <2>2, LiveUpwards DEF Below
  <2>4. \A m \in WantsRows(t) : IsLive(m)
    BY DEF WantsRows
  <2> QED
    BY <2>1, <2>3, <2>4
<1>5. n \in tx[t].owned \cup WantsRows(t) => n \in tx[t].owned
  BY <1>2
<1> QED
  BY <1>1, <1>2, <1>3, <1>4, <1>5, TakeKeeps

LEMMA StampPlansKeeps ==
  ASSUME IInv, NEW t \in Tx, StampPlans(t)
  PROVE  IInv'
<1> DEFINE n == tx[t].target
<1>1. /\ tx[t].at = "rows" /\ tx[t].op = "delete" /\ Deleting(t) /\ tx \in [Tx -> Txn]
      /\ Take(t, "rows", "projects") /\ row' = row
  BY AtWork DEF StampPlans, Take
<1>2. n \in Row /\ (n \notin Plan => tx[t].locks \subseteq Below(n))
  BY <1>1 DEF Deleting
<1>3. WantsRows(t) = {m \in IF n \in Client THEN tx[t].locks ELSE Children(n) \cap Plan :
                        IsLive(m)}
  BY <1>1 DEF WantsRows, Targets
<1>4. WantsRows(t) \subseteq Below(n)
  BY <1>2, <1>3, Levels, Forest DEF Row
<1>5. /\ tx'[t].at = "projects" /\ tx'[t].target = n
      /\ tx'[t].owned = tx[t].owned \cup WantsRows(t)
  BY <1>1 DEF Take, Txn
<1>6. n \in tx[t].owned => InHand(t)'
  <2>1. n \in tx[t].owned => {m \in Below(n) : IsLive(m)} \cap Plan \subseteq tx[t].locks
    BY <1>1 DEF Deleting, InHand
  <2>2. n \in tx[t].owned => {m \in Below(n) : IsLive(m)} \cap Plan \subseteq WantsRows(t)
    BY <1>2, <1>3, <2>1, Levels, Forest DEF Row
  <2> QED
    BY <1>1, <1>5, <2>2 DEF InHand, Below, IsLive
<1> QED
  BY <1>1, <1>4, <1>6, StampKeeps

LEMMA StampProjectsKeeps ==
  ASSUME IInv, NEW t \in Tx, StampProjects(t)
  PROVE  IInv'
<1> DEFINE n == tx[t].target
<1>1. /\ tx[t].at = "projects" /\ tx[t].op = "delete" /\ Deleting(t) /\ tx \in [Tx -> Txn]
      /\ Take(t, "projects", "commit") /\ row' = row
  BY AtWork DEF StampProjects, Take
<1>2. n \in Row
  BY <1>1 DEF Deleting
<1>3. WantsRows(t) = {m \in Children(n) \cap Project : IsLive(m)}
  BY <1>1 DEF WantsRows, Targets
<1>4. WantsRows(t) = {m \in Below(n) \cap Project : IsLive(m)}
  BY <1>2, <1>3, Levels, Forest DEF Row
<1>5. /\ tx'[t].at = "commit" /\ tx'[t].target = n
      /\ tx'[t].owned = tx[t].owned \cup WantsRows(t)
  BY <1>1 DEF Take, Txn
<1>6. n \in tx[t].owned => InHand(t)'
  <2>1. n \in tx[t].owned => {m \in Below(n) : IsLive(m)} \cap Plan \subseteq tx[t].owned
    BY <1>1 DEF Deleting, InHand
  <2> QED
    BY <1>1, <1>4, <1>5, <2>1 DEF InHand, Below, IsLive
<1> QED
  BY <1>1, <1>4, <1>6, StampKeeps

-----------------------------------------------------------------------------
(* Commits.                                                                *)

LEMMA Commits ==
  ASSUME IInv, NEW t \in Tx, End(t), row' \in [Row -> Batch \cup {Live, Absent}],
         NoOrphan', BatchHasOneRoot',
         \A u \in Tx \ {t} : TxOK(u)' /\ (Standing(u)' => Standing(u))
  PROVE  IInv'
<1>1. Idle \in Txn /\ Idle.op = "idle" /\ Idle.owned = {} /\ Idle.shared = {} /\ Idle.batch = Live
  BY DEF Idle, Txn
<1>2. /\ tx' \in [Tx -> Txn] /\ tx'[t] = Idle
      /\ \A u \in Tx \ {t} : tx'[u] = tx[u]
  BY <1>1 DEF End, IInv, TypeOK
<1>3. \A u \in Tx : TxOK(u)'
  BY <1>1, <1>2 DEF TxOK
<1>4. \A u \in Tx : tx[u].op = "delete" => tx[u].batch # Live
  BY HierarchyAssumption DEF IInv, TxOK, Deleting
<1>5. ASSUME NEW u \in Tx, NEW v \in Tx, u # v
      PROVE  Apart(u, v)'
  <2>1. CASE u = t \/ v = t
    BY <1>1, <1>2, <1>4, <1>5, <2>1 DEF Apart, Standing
  <2>2. CASE u # t /\ v # t
    <3>1. tx'[u] = tx[u] /\ tx'[v] = tx[v] /\ Apart(u, v) /\ (Standing(u)' => Standing(u))
      BY <1>2, <1>5, <2>2 DEF IInv
    <3> QED
      BY <3>1 DEF Apart, Below
  <2> QED
    BY <2>1, <2>2
<1> QED
  BY <1>2, <1>3, <1>5 DEF IInv, TypeOK

\* Rows come to live under the ancestors a transaction shares or brings to
\* live with them.  No delete that holds a root misses them: it would own an
\* ancestor the transaction shares.
LEMMA Revives ==
  ASSUME IInv, NEW t \in Tx, End(t), NEW S \in SUBSET Row,
         row' = [n \in Row |-> IF n \in S THEN Live ELSE row[n]],
         \A n \in S : ~IsLive(n),
         \A n \in S : Ancestors(n) \subseteq S \cup tx[t].shared,
         \A u \in Tx \ {t} : Unanchored(u) \/ tx[u].op = "create" => tx[u].target \notin S,
         \A u \in Tx \ {t} : tx[u].op = "expire" => tx[u].owned \cap S = {},
         tx[t].op # "expire",
         \A b \in Batch : \/ \A n \in Row : row[n] = b => n \in S
                          \/ \A n \in Row : row[n] = b => n \notin S
  PROVE  IInv'
<1>1. /\ row \in [Row -> Batch \cup {Live, Absent}] /\ tx \in [Tx -> Txn]
      /\ NoOrphan /\ BatchHasOneRoot /\ TxOK(t)
      /\ \A u \in Tx \ {t} : TxOK(u) /\ Apart(u, t) /\ tx'[u] = tx[u]
  BY DEF IInv, TypeOK, End
<1>2. row' \in [Row -> Batch \cup {Live, Absent}]
  BY <1>1
<1>3. /\ \A n \in Row : IsLive(n) => row'[n] = Live
      /\ \A n \in Row : row'[n] = Live => IsLive(n) \/ n \in S
      /\ \A n \in Row, b \in Batch \cup {Absent} : row'[n] = b => row[n] = b /\ n \notin S
  BY HierarchyAssumption DEF IsLive
<1>4. NoOrphan'
  <2>1. SUFFICES ASSUME NEW n \in Project \cup Plan, row'[n] = Live
                 PROVE  row'[Parent[n]] = Live
    BY DEF NoOrphan, IsLive
  <2>2. Parent[n] \in Row /\ n \in Row /\ Parent[n] \in Ancestors(n)
    BY Forest DEF Row
  <2>3. CASE n \in S
    <3>1. Parent[n] \in S \/ IsLive(Parent[n])
      BY <1>1, <2>2, <2>3 DEF TxOK
    <3> QED
      BY <1>3, <2>2, <3>1
  <2>4. CASE n \notin S
    BY <1>1, <1>3, <2>1, <2>2, <2>4 DEF NoOrphan
  <2> QED
    BY <2>3, <2>4
<1>5. BatchHasOneRoot'
  <2>1. SUFFICES ASSUME NEW b \in Batch, NEW m \in Row, NEW n \in Row,
                        row'[m] = b, m \notin Client => row'[Parent[m]] # b,
                        row'[n] = b, n \notin Client => row'[Parent[n]] # b
                 PROVE  m = n
    BY DEF BatchHasOneRoot
  <2>2. row[m] = b /\ m \notin S /\ row[n] = b
    BY <1>3, <2>1
  <2>3. \A k \in Row : row[k] = b => row'[k] = b
    BY <2>2
  <2>4. \A k \in Row \ Client : Parent[k] \in Row
    BY Forest DEF Row
  <2> QED
    BY <1>1, <2>1, <2>2, <2>3, <2>4 DEF BatchHasOneRoot
<1>6. ASSUME NEW u \in Tx \ {t}
      PROVE  TxOK(u)' /\ (Standing(u)' => Standing(u))
  <2>1. tx'[u] = tx[u] /\ TxOK(u) /\ Apart(u, t)
    BY <1>1
  <2>2. tx[u].op # "expire" => (\A n \in tx[u].owned \cup tx[u].shared : IsLive(n))'
    BY <1>1, <1>3, <2>1 DEF TxOK, IsLive, Txn
  <2>3. ASSUME tx[u].op \in {"create", "restore"}
        PROVE  Sharing(u)'
    <3>1. Sharing(u)
      BY <2>1, <2>3 DEF TxOK
    <3>2. tx[u].op = "create" => row'[tx[u].target] = Absent
      BY <3>1 DEF Sharing
    <3>3. tx[u].op = "restore" =>
            row'[tx[u].target] = tx[u].batch \/ \A n \in Row : row'[n] # tx[u].batch
      <4>1. SUFFICES ASSUME tx[u].op = "restore"
                     PROVE  row'[tx[u].target] = tx[u].batch
                            \/ \A n \in Row : row'[n] # tx[u].batch
        OBVIOUS
      <4> DEFINE b == tx[u].batch
      <4>2. b \in Batch /\ tx[u].target \in Row
            /\ (row[tx[u].target] = b \/ \A n \in Row : row[n] # b)
        BY <3>1, <4>1 DEF Sharing
      <4> HIDE DEF b
      <4>3. b # Live
        BY <4>2, HierarchyAssumption
      <4> QED
        BY <4>2, <4>3 DEF b
    <3> QED
      BY <2>1, <3>1, <3>2, <3>3 DEF Sharing
  <2>4. ASSUME tx[u].op = "delete"
        PROVE  Deleting(u)'
    <3>1. Deleting(u)
      BY <2>1, <2>4 DEF TxOK
    <3>2. row'[tx[u].target] # Absent /\ \A n \in Row : row'[n] # tx[u].batch
      BY <3>1, HierarchyAssumption DEF Deleting
    <3>3. Unanchored(u) => row'[tx[u].target] \in Batch
      BY <3>1 DEF Deleting, IsDead
    <3>4. ASSUME tx[u].target \in tx[u].owned
          PROVE  InHand(u)'
      <4>1. IsLive(tx[u].target) /\ tx[u].target \notin tx[t].shared
        BY <2>1, <2>4, <3>4 DEF TxOK, Apart
      <4>2. \A m \in S : m \notin Below(tx[u].target)
        BY <4>1 DEF Below
      <4>3. {m \in Below(tx[u].target) : row'[m] = Live}
              = {m \in Below(tx[u].target) : IsLive(m)}
        BY <1>3, <4>2, Levels DEF Below, Row
      <4>4. InHand(u)
        BY <3>1, <3>4 DEF Deleting
      <4> QED
        BY <2>1, <4>3, <4>4 DEF InHand, IsLive, Below
    <3> QED
      BY <2>1, <3>1, <3>2, <3>3, <3>4 DEF Deleting, Unanchored, IsDead, Below
  <2>5. ASSUME tx[u].op = "expire"
        PROVE  Expiring(u)' /\ (Standing(u)' => Standing(u))
    <3> DEFINE n == tx[u].target
               b == tx[u].batch
    <3>1. Expiring(u) /\ n \in Row /\ b \in Batch
      BY <2>1, <2>5 DEF TxOK, Expiring
    <3>2. row'[n] = b => row[n] = b
      BY <1>3, <3>1
    <3>3. n \notin Client => Parent[n] \in Row
      BY <3>1, Forest DEF Row
    <3>4. row'[n] = b /\ n \notin Client => row'[Parent[n]] # b
      BY <1>3, <3>1, <3>2, <3>3 DEF Expiring
    <3>5. ASSUME tx[u].at # "claim"
          PROVE  /\ row'[n] = b
                 /\ \A m \in Below(n) : row'[m] # Absent <=> row[m] # Absent
      <4>1. row[n] = b /\ n \in tx[u].owned
        BY <3>1, <3>5 DEF Expiring
      <4>2. n \notin S /\ ~IsLive(n)
        BY <2>5, <3>1, <4>1, HierarchyAssumption DEF IsLive
      <4>3. \A m \in S : m \notin Below(n)
        BY <1>1, <4>2 DEF Below, TxOK
      <4>4. Below(n) \subseteq Row
        BY DEF Below, Row
      <4> QED
        BY <3>1, <4>1, <4>2, <4>3, <4>4
    <3>6. {m \in Below(n) : row'[m] # Absent} = {m \in Below(n) : row[m] # Absent}
          \/ tx[u].at = "claim"
      BY <3>5
    <3>7. Expiring(u)'
      BY <2>1, <3>1, <3>4, <3>5, <3>6 DEF Expiring, Below
    <3> QED
      BY <2>1, <3>2, <3>7 DEF Standing
  <2>6. Standing(u)' => Standing(u)
    BY <2>1, <2>5 DEF Standing
  <2> QED
    BY <2>1, <2>2, <2>3, <2>4, <2>5, <2>6 DEF TxOK
<1> QED
  BY <1>2, <1>4, <1>5, <1>6, Commits

LEMMA HeldAncestors ==
  ASSUME IInv, NEW t \in Tx, AncestorsHeld(t), tx[t].op \in {"create", "restore"}
  PROVE  /\ Sharing(t)
         /\ Ancestors(tx[t].target) \subseteq tx[t].shared
         /\ \A n \in tx[t].shared : IsLive(n)
  BY DEF IInv, TxOK, AncestorsHeld, NextAncestor

LEMMA CreateKeeps ==
  ASSUME IInv, NEW t \in Tx, Create(t)
  PROVE  IInv'
<1> DEFINE n == tx[t].target
           S == {n}
<1>1. /\ Sharing(t) /\ Ancestors(n) \subseteq tx[t].shared /\ tx[t].op = "create"
      /\ End(t) /\ row' = [row EXCEPT ![n] = Live]
      /\ row \in [Row -> Batch \cup {Live, Absent}]
  BY HeldAncestors DEF Create, IInv, TypeOK
<1>2. n \in Row /\ row[n] = Absent
  BY <1>1 DEF Sharing
<1>3. row' = [m \in Row |-> IF m \in S THEN Live ELSE row[m]] /\ S \in SUBSET Row
  BY <1>1, <1>2
<1>4. \A u \in Tx \ {t} : Unanchored(u) \/ tx[u].op = "create" => tx[u].target \notin S
  BY <1>1, <1>2 DEF IInv, TxOK, Apart, Deleting, Unanchored
<1>5. \A b \in Batch, m \in Row : row[m] = b => m \notin S
  BY <1>2, HierarchyAssumption
<1>6. (\A m \in S : ~IsLive(m)) /\ (\A m \in S : Ancestors(m) \subseteq S \cup tx[t].shared)
  BY <1>1, <1>2, HierarchyAssumption DEF IsLive
<1>7. \A u \in Tx \ {t} : tx[u].op = "expire" => tx[u].owned \cap S = {}
  BY <1>2, HierarchyAssumption DEF IInv, TxOK, Expiring
<1> HIDE DEF S
<1> QED
  BY <1>1, <1>3, <1>4, <1>5, <1>6, <1>7, Revives

\* The batch is one subtree and its root is the row that is restored, whose
\* ancestors are live; so what is restored has all its ancestors.
LEMMA RestoreKeeps ==
  ASSUME ~Overlap, IInv, NEW t \in Tx, Restore(t)
  PROVE  IInv'
<1> DEFINE n == tx[t].target
           b == tx[t].batch
           S == {m \in Row : row[m] = b}
<1>1. /\ Sharing(t) /\ Ancestors(n) \subseteq tx[t].shared /\ tx[t].op = "restore"
      /\ \A m \in tx[t].shared : IsLive(m)
      /\ End(t) /\ row' = [m \in Row |-> IF row[m] = b THEN Live ELSE row[m]]
      /\ BatchHasOneRoot
  BY HeldAncestors DEF Restore, IInv
<1>2. n \in Row /\ b \in Batch /\ b # Live /\ b # Absent
  BY <1>1, HierarchyAssumption DEF Sharing
<1>3. row[n] = b
  <2>1. \E m \in Row : row[m] = b
    BY DEF Restore, BatchIsThere, Row
  <2> QED
    BY <1>1, <2>1 DEF Sharing
<1>4. row' = [m \in Row |-> IF m \in S THEN Live ELSE row[m]] /\ S \in SUBSET Row
  BY <1>1
<1>5. \A u \in Tx \ {t} : Unanchored(u) \/ tx[u].op = "create" => tx[u].target \notin S
  <2>1. \A u \in Tx : Unanchored(u) => row[tx[u].target] # b
    BY DEF Restore
  <2>2. \A u \in Tx : tx[u].op = "create" => row[tx[u].target] = Absent
    BY DEF IInv, TxOK, Sharing
  <2> QED
    BY <1>2, <2>1, <2>2
<1>6. ASSUME NEW m \in S
      PROVE  Ancestors(m) \subseteq S \cup tx[t].shared
  <2>1. n \notin Client => row[Parent[n]] # b
    BY <1>1, <1>2, Forest DEF IsLive, Row
  <2>2. ASSUME NEW k \in S, k # n
        PROVE  k \notin Client /\ Parent[k] \in S
    <3>1. k \notin Client /\ row[Parent[k]] = b
      BY <1>1, <1>2, <1>3, <2>1, <2>2 DEF BatchHasOneRoot
    <3> QED
      BY <3>1, Forest DEF Row
  <2>3. CASE m = n
    BY <1>1, <2>3
  <2>4. CASE m # n /\ m \in Project
    BY <2>2, <2>4, Forest
  <2>5. CASE m # n /\ m \in Plan
    <3>1. Parent[m] \in S /\ Parent[m] \in Project /\ Ancestors(m) = {Parent[m], Parent[Parent[m]]}
      BY <2>2, <2>5, Forest
    <3>2. Parent[Parent[m]] \in S \cup tx[t].shared
      BY <1>1, <2>2, <3>1, Forest
    <3> QED
      BY <3>1, <3>2
  <2> QED
    BY <2>2, <2>3, <2>4, <2>5 DEF Row
<1>7. \A m \in S : ~IsLive(m)
  BY <1>2 DEF IsLive
<1>8. \A c \in Batch : \/ \A m \in Row : row[m] = c => m \in S
                       \/ \A m \in Row : row[m] = c => m \notin S
  OBVIOUS
<1>9. \A u \in Tx \ {t} : tx[u].owned \cap S = {}
  BY <1>1 DEF Restore, Granted, WaitsFor, WantsBatch
<1> HIDE DEF S
<1> QED
  BY <1>1, <1>4, <1>5, <1>6, <1>7, <1>8, <1>9, Revives

\* What a delete commits.
Doomed(t) == tx[t].owned \cup WantsRows(t)

\* A delete commits all that is live below what it deletes, and but for its
\* root each row it deletes together with its parent.
LEMMA Subtree ==
  ASSUME IInv, NEW t \in Tx, tx[t].at = "commit"
  PROVE  /\ Doomed(t) \subseteq {tx[t].target} \cup Below(tx[t].target)
         /\ \A n \in Doomed(t) : IsLive(n)
         /\ \A n \in Doomed(t) : \A m \in Below(n) : IsLive(m) => m \in Doomed(t)
         /\ \A n \in Doomed(t) \ {tx[t].target} : n \notin Client /\ Parent[n] \in Doomed(t)
<1> DEFINE n == tx[t].target
           S == Doomed(t)
<1>1. tx[t].op = "delete" /\ Deleting(t) /\ TxOK(t) /\ NoOrphan
  BY AtWork DEF IInv
<1>2. n \in Row /\ S = tx[t].owned \cup {m \in {n} : IsLive(m)}
  BY <1>1 DEF Deleting, WantsRows, Targets, Doomed
<1> HIDE DEF S
<1>3. S \subseteq {n} \cup Below(n) /\ \A m \in S : IsLive(m)
  BY <1>1, <1>2 DEF Deleting, TxOK
<1>4. CASE n \in Plan
  <2>1. S \subseteq {n} /\ Below(n) = {}
    BY <1>3, <1>4, Levels
  <2> QED
    BY <1>3, <2>1 DEF S
<1>5. CASE n \notin Plan /\ n \notin tx[t].owned
  <2>1. IsDead(n) /\ tx[t].owned = {}
    BY <1>1, <1>5 DEF Deleting, Unanchored
  <2>2. S = {}
    BY <1>2, <2>1, HierarchyAssumption DEF IsLive, IsDead
  <2> QED
    BY <2>2 DEF S
<1>6. CASE n \in tx[t].owned
  <2>1. \A m \in Below(n) : IsLive(m) => m \in S
    BY <1>1, <1>2, <1>6 DEF Deleting, InHand
  <2>2. \A k \in Below(n) : \A m \in Below(k) : m \in Below(n)
    BY <1>2, Forest DEF Below, Row
  <2>3. \A k \in Below(n) : k \notin Client /\ (Parent[k] = n \/ Parent[k] \in Below(n))
    BY <1>2, Forest DEF Below, Row
  <2>4. \A k \in S \ {n} : IsLive(Parent[k])
    BY <1>1, <1>3 DEF NoOrphan, Below
  <2> QED
    BY <1>2, <1>3, <1>6, <2>1, <2>2, <2>3, <2>4 DEF S
<1> QED
  BY <1>4, <1>5, <1>6 DEF S

LEMMA CommitDeleteKeeps ==
  ASSUME IInv, NEW t \in Tx, CommitDelete(t)
  PROVE  IInv'
<1> DEFINE S == Doomed(t)
           b == tx[t].batch
<1>1. /\ tx[t].at = "commit" /\ Deleting(t) /\ tx[t].op = "delete"
      /\ row \in [Row -> Batch \cup {Live, Absent}] /\ tx \in [Tx -> Txn]
      /\ Granted(t) /\ End(t)
      /\ row' = [n \in Row |-> IF n \in S THEN b ELSE row[n]]
      /\ NoOrphan /\ BatchHasOneRoot
  BY AtWork DEF CommitDelete, IInv, Doomed
<1>2. S = tx[t].owned \cup WantsRows(t)
  BY DEF Doomed
<1>3. /\ S \subseteq {tx[t].target} \cup Below(tx[t].target)
      /\ \A n \in S : IsLive(n)
      /\ \A n \in S : \A m \in Below(n) : IsLive(m) => m \in S
      /\ \A n \in S \ {tx[t].target} : n \notin Client /\ Parent[n] \in S
  BY <1>1, Subtree
<1> HIDE DEF S
<1>4. \A u \in Tx \ {t} : S \cap (tx[u].owned \cup tx[u].shared) = {}
  BY <1>1, <1>2 DEF Granted, WaitsFor, IInv, Apart
<1>5. b \in Batch /\ b # Live /\ b # Absent /\ \A n \in Row : row[n] # b
  BY <1>1, HierarchyAssumption DEF Deleting
<1>6. row' \in [Row -> Batch \cup {Live, Absent}]
  BY <1>1, <1>5
<1>7. /\ \A n \in Row : row'[n] = Live <=> IsLive(n) /\ n \notin S
      /\ \A n \in Row : row'[n] = b <=> n \in S
      /\ \A n \in Row : ~IsLive(n) => row'[n] = row[n]
      /\ \A n \in Row : row'[n] = b \/ row'[n] = row[n]
  BY <1>1, <1>3, <1>5 DEF IsLive
<1>8. NoOrphan'
  <2>1. SUFFICES ASSUME NEW n \in Project \cup Plan, row'[n] = Live
                 PROVE  row'[Parent[n]] = Live
    BY DEF NoOrphan, IsLive
  <2>2. n \in Row /\ Parent[n] \in Row /\ n \in Below(Parent[n])
    BY Forest DEF Row, Below
  <2> QED
    BY <1>1, <1>3, <1>7, <2>1, <2>2 DEF NoOrphan
<1>9. BatchHasOneRoot'
  <2>1. SUFFICES ASSUME NEW c \in Batch, NEW m \in Row, NEW n \in Row,
                        row'[m] = c, m \notin Client => row'[Parent[m]] # c,
                        row'[n] = c, n \notin Client => row'[Parent[n]] # c
                 PROVE  m = n
    BY DEF BatchHasOneRoot
  <2>2. \A k \in Row \ Client : Parent[k] \in Row
    BY Forest DEF Row
  <2>3. CASE c = b
    BY <1>3, <1>7, <2>1, <2>2, <2>3
  <2>4. CASE c # b
    <3>1. row[m] = c /\ row[n] = c
      BY <1>7, <2>1, <2>4
    <3>2. \A k \in Row : row[k] = c => row'[k] = c
      BY <1>7, HierarchyAssumption DEF IsLive
    <3> QED
      BY <1>1, <2>1, <2>2, <3>1, <3>2 DEF BatchHasOneRoot
  <2> QED
    BY <2>3, <2>4
<1>10. ASSUME NEW u \in Tx \ {t}
      PROVE  TxOK(u)' /\ (Standing(u)' => Standing(u))
  <2>1. tx'[u] = tx[u] /\ TxOK(u) /\ tx[u].batch # b /\ tx[u] \in Txn
    BY <1>1 DEF IInv, End, Apart
  <2>2. tx[u].op # "expire" => (\A n \in tx[u].owned \cup tx[u].shared : IsLive(n))'
    BY <1>4, <1>7, <2>1 DEF TxOK, IsLive, Txn
  <2>3. ASSUME tx[u].op \in {"create", "restore"}
        PROVE  Sharing(u)'
    <3>1. Sharing(u)
      BY <2>1, <2>3 DEF TxOK
    <3>2. tx[u].op = "create" => row'[tx[u].target] = Absent
      BY <1>7, <3>1, HierarchyAssumption DEF Sharing, IsLive
    <3>3. tx[u].op = "restore" =>
            row'[tx[u].target] = tx[u].batch \/ \A n \in Row : row'[n] # tx[u].batch
      BY <1>7, <2>1, <3>1, HierarchyAssumption DEF Sharing, IsLive
    <3> QED
      BY <2>1, <3>1, <3>2, <3>3 DEF Sharing
  <2>4. ASSUME tx[u].op = "delete"
        PROVE  Deleting(u)'
    <3>1. Deleting(u)
      BY <2>1, <2>4 DEF TxOK
    <3>2. row'[tx[u].target] # Absent /\ \A n \in Row : row'[n] # tx[u].batch
      BY <1>5, <1>7, <2>1, <3>1 DEF Deleting
    <3>3. Unanchored(u) => row'[tx[u].target] \in Batch
      BY <1>5, <1>7, <3>1 DEF Deleting, IsDead
    <3>4. {m \in Below(tx[u].target) : row'[m] = Live}
            \subseteq {m \in Below(tx[u].target) : IsLive(m)}
      BY <1>7 DEF Below, Row
    <3>5. tx[u].target \in tx[u].owned => InHand(u)'
      BY <2>1, <3>1, <3>4 DEF Deleting, InHand, IsLive, Below
    <3> QED
      BY <2>1, <3>1, <3>2, <3>3, <3>5 DEF Deleting, Unanchored, IsDead, Below
  <2>5. ASSUME tx[u].op = "expire"
        PROVE  Expiring(u)' /\ (Standing(u)' => Standing(u))
    <3> DEFINE n == tx[u].target
    <3>1. Expiring(u) /\ n \in Row /\ tx[u].batch \in Batch /\ tx[u].batch # Live
      BY <2>1, <2>5, HierarchyAssumption DEF TxOK, Expiring
    <3>2. \A m \in Row : row'[m] = tx[u].batch <=> row[m] = tx[u].batch
      BY <1>7, <2>1, <3>1 DEF IsLive
    <3>3. \A m \in Row : row'[m] = Absent <=> row[m] = Absent
      BY <1>5, <1>7, HierarchyAssumption DEF IsLive
    <3>4. (n \notin Client => Parent[n] \in Row) /\ Below(n) \subseteq Row
      BY <3>1, Forest DEF Row, Below
    <3>5. {m \in Below(n) : row'[m] # Absent} = {m \in Below(n) : row[m] # Absent}
      BY <3>3, <3>4
    <3>6. Expiring(u)'
      BY <2>1, <3>1, <3>2, <3>4, <3>5 DEF Expiring, Below
    <3> QED
      BY <2>1, <3>1, <3>2, <3>6 DEF Standing
  <2>6. Standing(u)' => Standing(u)
    BY <2>1, <2>5 DEF Standing
  <2> QED
    BY <2>1, <2>2, <2>3, <2>4, <2>5, <2>6 DEF TxOK
<1> QED
  BY <1>1, <1>6, <1>8, <1>9, <1>10, Commits

-----------------------------------------------------------------------------
(* Expiring.                                                               *)

LEMMA AskExpireKeeps ==
  ASSUME IInv, NEW t \in Tx, NEW n \in Row, AskExpire(t, n)
  PROVE  IInv'
<1> DEFINE txn == [Idle EXCEPT !.op = "expire", !.at = "claim", !.target = n, !.batch = row[n]]
<1>1. /\ txn \in Txn /\ txn.op = "expire" /\ txn.at = "claim" /\ txn.target = n
      /\ txn.owned = {} /\ txn.shared = {} /\ txn.batch = row[n] /\ row[n] \in Batch
  BY DEF Idle, Txn, AskExpire, PastPeriod, IsDead
<1>2. Begin(t, txn)
  BY DEF AskExpire
<1>3. tx'[t] = txn /\ row' = row
  BY <1>2 DEF Begin, IInv, TypeOK
<1> HIDE DEF txn
<1>4. Expiring(t)'
  BY <1>1, <1>3 DEF Expiring, AskExpire
<1>5. \A u \in Tx \ {t} : tx[u].op = "delete" => tx[u].batch # row[n]
  BY DEF IInv, TxOK, Deleting
<1>6. \A u \in Tx : /\ tx[u].op # "expire"
                    /\ tx[u].op = "delete" => tx[u].target \notin {n} \cup Below(n)
  BY DEF AskExpire, PastPeriod
<1> QED
  BY <1>1, <1>2, <1>4, <1>5, <1>6, Begins

LEMMA AtExpiry ==
  ASSUME IInv, NEW t \in Tx, tx[t].at \in {"claim", "scope", "remove"}
  PROVE  /\ tx \in [Tx -> Txn] /\ row \in [Row -> Batch \cup {Live, Absent}]
         /\ tx[t].op = "expire" /\ Expiring(t) /\ tx[t].target \in Row /\ tx[t].batch \in Batch
         /\ \A u \in Tx \ {t} : TxOK(u) /\ tx[u].op # "expire" /\ Apart(t, u)
<1>1. tx \in [Tx -> Txn] /\ row \in [Row -> Batch \cup {Live, Absent}] /\ TxOK(t)
  BY DEF IInv, TypeOK
<1>2. tx[t].op = "expire"
  BY <1>1 DEF TxOK, Sharing, Deleting, Idle, Txn
<1> QED
  BY <1>1, <1>2 DEF TxOK, Expiring, IInv, Apart

\* What is below a deleted row is not live.
LEMMA DeadBelow ==
  ASSUME IInv, NEW n \in Row, ~IsLive(n), NEW m \in {n} \cup Below(n)
  PROVE  ~IsLive(m)
  BY LiveUpwards DEF IInv, Below, Row

\* An expiry takes rows nobody else can hold, since they are not live.
LEMMA ExpiryMoves ==
  ASSUME IInv, NEW t \in Tx, tx[t].at \in {"claim", "scope"},
         row[tx[t].target] = tx[t].batch, row' = row, tx' \in [Tx -> Txn],
         \A u \in Tx \ {t} : tx'[u] = tx[u],
         tx'[t].op = "expire", tx'[t].target = tx[t].target, tx'[t].batch = tx[t].batch,
         Expiring(t)'
  PROVE  IInv'
<1> DEFINE r == tx[t].target
<1>1. /\ tx[t].op = "expire" /\ Expiring(t) /\ r \in Row /\ tx[t].batch \in Batch
      /\ \A u \in Tx \ {t} : TxOK(u) /\ tx[u].op # "expire" /\ Apart(t, u)
  BY AtExpiry
<1>2. TxOK(t)'
  BY DEF TxOK
<1>3. tx'[t].owned \subseteq {r} \cup Below(r) /\ tx'[t].shared = {}
  BY DEF Expiring, Below
<1>4. \A n \in tx'[t].owned : ~IsLive(n)
  <2>1. ~IsLive(r)
    BY <1>1, HierarchyAssumption DEF IsLive
  <2> QED
    BY <1>1, <1>3, <2>1, DeadBelow
<1>5. ASSUME NEW u \in Tx \ {t}
      PROVE  Apart(t, u)' /\ Apart(u, t)'
  <2>1. \A n \in tx[u].owned \cup tx[u].shared : IsLive(n)
    BY <1>1 DEF TxOK
  <2>2. Apart(t, u) /\ Apart(u, t)
    BY DEF IInv
  <2>3. tx'[t].owned \cap (tx[u].owned \cup tx[u].shared) = {}
    BY <1>4, <2>1
  <2> QED
    BY <1>1, <1>3, <2>2, <2>3 DEF Apart, Standing, Below
<1> QED
  BY <1>2, <1>5, Moves

LEMMA ClaimKeeps ==
  ASSUME IInv, NEW t \in Tx, Claim(t)
  PROVE  IInv'
<1> DEFINE n == tx[t].target
           txn == [tx[t] EXCEPT !.owned = {n}, !.at = "scope"]
<1>1. /\ tx \in [Tx -> Txn] /\ tx[t].op = "expire" /\ Expiring(t) /\ n \in Row
      /\ tx[t].at = "claim" /\ row[n] = tx[t].batch /\ row' = row
      /\ tx' = [tx EXCEPT ![t].owned = {n}, ![t].at = "scope"]
  BY AtExpiry DEF Claim
<1>2. /\ txn \in Txn /\ txn.owned = {n} /\ txn.at = "scope" /\ txn.op = "expire"
      /\ txn.shared = tx[t].shared /\ txn.batch = tx[t].batch /\ txn.target = n
  BY <1>1 DEF Txn
<1>3. tx' \in [Tx -> Txn] /\ tx'[t] = txn /\ \A u \in Tx \ {t} : tx'[u] = tx[u]
  BY <1>1, <1>2
<1> HIDE DEF txn
<1>4. Expiring(t)'
  BY <1>1, <1>2, <1>3 DEF Expiring
<1> QED
  BY <1>1, <1>2, <1>3, <1>4, ExpiryMoves

LEMMA ResolveScopeKeeps ==
  ASSUME IInv, NEW t \in Tx, ResolveScope(t)
  PROVE  IInv'
<1> DEFINE n == tx[t].target
           owned == {n} \cup {m \in Below(n) : row[m] # Absent}
           txn == [tx[t] EXCEPT !.owned = owned, !.at = "remove"]
<1>1. /\ tx \in [Tx -> Txn] /\ tx[t].op = "expire" /\ Expiring(t) /\ n \in Row
      /\ tx[t].at = "scope" /\ row[n] = tx[t].batch /\ row' = row /\ tx[t].owned = {n}
  BY AtExpiry DEF ResolveScope, Expiring
<1>2. tx' = [tx EXCEPT ![t].owned = owned, ![t].at = "remove"]
  BY <1>1 DEF ResolveScope
<1>3. owned \in SUBSET Row
  BY <1>1 DEF Below, Row
<1> HIDE DEF owned
<1>4. /\ txn \in Txn /\ txn.owned = owned /\ txn.at = "remove" /\ txn.op = "expire"
      /\ txn.shared = tx[t].shared /\ txn.batch = tx[t].batch /\ txn.target = n
  BY <1>1, <1>3 DEF Txn
<1>5. tx' \in [Tx -> Txn] /\ tx'[t] = txn /\ \A u \in Tx \ {t} : tx'[u] = tx[u]
  BY <1>1, <1>2, <1>4
<1> HIDE DEF txn
<1>6. Expiring(t)'
  BY <1>1, <1>4, <1>5 DEF Expiring, Below, owned
<1> QED
  BY <1>1, <1>4, <1>5, <1>6, ExpiryMoves

\* With a row all below it goes, and a batch goes whole: its rows are the
\* root's subtree, or are in it together with their own root.
LEMMA WholeBatch ==
  ASSUME IInv, NEW r \in Row, row[r] \in Batch, r \notin Client => row[Parent[r]] # row[r]
  PROVE  LET D == {r} \cup Below(r)
         IN  /\ \A k \in Row \ Client : Parent[k] \in D => k \in D
             /\ \A b \in Batch, m, k \in Row : row[m] = b /\ row[k] = b /\ m \in D => k \in D
<1> DEFINE D == {r} \cup Below(r)
           Top(b, z) == row[z] = b /\ (z \notin Client => row[Parent[z]] # b)
<1>1. \A k \in Row \ Client : Parent[k] \in Row /\ (Parent[k] \in D => k \in D)
  BY Forest DEF Below, Row
<1>2. \A k \in D \ {r} : k \in Row \ Client /\ Parent[k] \in D
  BY Forest DEF Below, Row
<1>3. ASSUME NEW b \in Batch, NEW m \in Row, row[m] = b
      PROVE  \E z \in Row : Top(b, z) /\ (m \in D <=> z \in D)
  <2>1. ASSUME NEW k \in Row \ Client, row[k] = b, row[Parent[k]] = b
        PROVE  Parent[k] \in Row /\ (k \in D <=> Parent[k] \in D)
    BY <1>1, <1>2, <2>1
  <2>2. CASE Top(b, m)
    BY <2>2
  <2>3. CASE ~Top(b, m)
    <3>1. m \in Row \ Client /\ row[Parent[m]] = b
      BY <1>3, <2>3
    <3>2. Parent[m] \in Row /\ (m \in D <=> Parent[m] \in D)
      BY <1>3, <2>1, <3>1
    <3>3. CASE Top(b, Parent[m])
      BY <3>2, <3>3
    <3>4. CASE ~Top(b, Parent[m])
      <4>1. Parent[m] \in Row \ Client /\ row[Parent[Parent[m]]] = b
        BY <3>1, <3>2, <3>4
      <4>2. Parent[Parent[m]] \in Row /\ (Parent[m] \in D <=> Parent[Parent[m]] \in D)
        BY <2>1, <3>1, <4>1
      <4>3. Parent[Parent[m]] \in Client
        BY <3>1, <4>1, Forest DEF Row
      <4> QED
        BY <3>2, <4>1, <4>2, <4>3
    <3> QED
      BY <3>3, <3>4
  <2> QED
    BY <2>2, <2>3
<1>4. ASSUME NEW b \in Batch, NEW m \in Row, NEW k \in Row, row[m] = b, row[k] = b, m \in D
      PROVE  k \in D
  <2>1. PICK y \in Row : Top(b, y) /\ (m \in D <=> y \in D)
    BY <1>3, <1>4
  <2>2. PICK z \in Row : Top(b, z) /\ (k \in D <=> z \in D)
    BY <1>3, <1>4
  <2>3. y = z
    BY <2>1, <2>2 DEF IInv, BatchHasOneRoot
  <2> QED
    BY <1>4, <2>1, <2>2, <2>3
<1> QED
  BY <1>1, <1>4

\* What an expiry removes: its root and all below, none of it live.
LEMMA ExpiryReach ==
  ASSUME IInv, NEW t \in Tx, tx[t].at = "remove"
  PROVE  LET D == {tx[t].target} \cup Below(tx[t].target)
         IN  /\ D \subseteq Row
             /\ tx[t].owned = {n \in D : row[n] # Absent}
             /\ \A n \in D : ~IsLive(n)
             /\ \A k \in Row \ Client : Parent[k] \in D => k \in D
             /\ \A b \in Batch, m, k \in Row : row[m] = b /\ row[k] = b /\ m \in D => k \in D
<1> DEFINE r == tx[t].target
           D == {r} \cup Below(r)
<1>1. /\ r \in Row /\ row[r] \in Batch /\ (r \notin Client => row[Parent[r]] # row[r])
      /\ tx[t].owned = {r} \cup {n \in Below(r) : row[n] # Absent}
  BY AtExpiry DEF Expiring
<1>2. row[r] # Absent /\ ~IsLive(r)
  BY <1>1, HierarchyAssumption DEF IsLive
<1>3. D \subseteq Row
  BY <1>1 DEF Below, Row
<1>4. tx[t].owned = {n \in D : row[n] # Absent}
  BY <1>1, <1>2
<1>5. \A n \in D : ~IsLive(n)
  BY <1>1, <1>2, DeadBelow
<1> QED
  BY <1>1, <1>3, <1>4, <1>5, WholeBatch

LEMMA RemoveKeeps ==
  ASSUME IInv, NEW t \in Tx, Remove(t)
  PROVE  IInv'
<1> DEFINE r == tx[t].target
           D == {r} \cup Below(r)
<1>1. /\ tx[t].at = "remove" /\ tx[t].op = "expire" /\ End(t)
      /\ row \in [Row -> Batch \cup {Live, Absent}] /\ tx \in [Tx -> Txn]
      /\ row' = [n \in Row |-> IF n \in tx[t].owned THEN Absent ELSE row[n]]
      /\ NoOrphan /\ BatchHasOneRoot /\ Standing(t)
      /\ \A u \in Tx \ {t} : TxOK(u) /\ tx[u].op # "expire" /\ Apart(t, u)
  BY AtExpiry DEF Remove, IInv, Expiring, Standing
<1>2. /\ D \subseteq Row
      /\ tx[t].owned = {n \in D : row[n] # Absent}
      /\ \A n \in D : ~IsLive(n)
      /\ \A k \in Row \ Client : Parent[k] \in D => k \in D
      /\ \A b \in Batch, m, k \in Row : row[m] = b /\ row[k] = b /\ m \in D => k \in D
  BY <1>1, ExpiryReach
<1>3. \A u \in Tx \ {t} : tx[u].op = "delete" => tx[u].target \notin D
  BY <1>1 DEF Apart
<1> HIDE DEF D
<1>4. row' = [n \in Row |-> IF n \in D THEN Absent ELSE row[n]]
  BY <1>1, <1>2
<1>5. row' \in [Row -> Batch \cup {Live, Absent}]
  BY <1>1, <1>4
<1>6. /\ \A n \in Row : row'[n] = Live <=> IsLive(n)
      /\ \A n \in Row, b \in Batch : row'[n] = b <=> row[n] = b /\ n \notin D
  BY <1>2, <1>4, HierarchyAssumption DEF IsLive
<1>7. \A k \in Row \ Client : Parent[k] \in Row
  BY Forest DEF Row
<1>8. NoOrphan'
  <2>1. \A n \in Project \cup Plan : n \in Row /\ Parent[n] \in Row
    BY Forest DEF Row
  <2> QED
    BY <1>1, <1>6, <2>1 DEF NoOrphan, IsLive
<1>9. BatchHasOneRoot'
  <2>1. SUFFICES ASSUME NEW c \in Batch, NEW m \in Row, NEW n \in Row,
                        row'[m] = c, m \notin Client => row'[Parent[m]] # c,
                        row'[n] = c, n \notin Client => row'[Parent[n]] # c
                 PROVE  m = n
    BY DEF BatchHasOneRoot
  <2>2. /\ row[m] = c /\ (m \notin Client => row[Parent[m]] # c)
        /\ row[n] = c /\ (n \notin Client => row[Parent[n]] # c)
    BY <1>2, <1>6, <1>7, <2>1
  <2> QED
    BY <1>1, <2>2 DEF BatchHasOneRoot
<1>10. ASSUME NEW u \in Tx \ {t}
       PROVE  TxOK(u)' /\ (Standing(u)' => Standing(u))
  <2>1. tx'[u] = tx[u] /\ TxOK(u) /\ tx[u].op # "expire" /\ tx[u] \in Txn
    BY <1>1 DEF End
  <2>2. (\A n \in tx[u].owned \cup tx[u].shared : IsLive(n))'
    BY <1>6, <2>1 DEF TxOK, IsLive, Txn
  <2>3. ASSUME tx[u].op \in {"create", "restore"}
        PROVE  Sharing(u)'
    <3>1. Sharing(u)
      BY <2>1, <2>3 DEF TxOK
    <3>2. tx[u].op = "create" => row'[tx[u].target] = Absent
      BY <1>4, <3>1 DEF Sharing
    <3>3. tx[u].op = "restore" =>
            row'[tx[u].target] = tx[u].batch \/ \A n \in Row : row'[n] # tx[u].batch
      BY <1>2, <1>6, <3>1 DEF Sharing
    <3> QED
      BY <2>1, <3>1, <3>2, <3>3 DEF Sharing
  <2>4. ASSUME tx[u].op = "delete"
        PROVE  Deleting(u)'
    <3>1. Deleting(u) /\ tx[u].target \in Row /\ tx[u].target \notin D
      BY <1>3, <2>1, <2>4 DEF TxOK, Deleting
    <3>2. row'[tx[u].target] = row[tx[u].target] /\ \A n \in Row : row'[n] # tx[u].batch
      BY <1>4, <1>6, <3>1 DEF Deleting
    <3>3. {m \in Below(tx[u].target) : row'[m] = Live} = {m \in Below(tx[u].target) : IsLive(m)}
      BY <1>6 DEF Below, Row
    <3>4. tx[u].target \in tx[u].owned => InHand(u)'
      BY <2>1, <3>1, <3>3 DEF Deleting, InHand, IsLive, Below
    <3> QED
      BY <2>1, <3>1, <3>2, <3>4 DEF Deleting, Unanchored, IsDead, Below
  <2> QED
    BY <2>1, <2>2, <2>3, <2>4 DEF TxOK, Standing
<1> QED
  BY <1>1, <1>5, <1>8, <1>9, <1>10, Commits

-----------------------------------------------------------------------------
(* The invariant and what it implies.                                      *)

LEMMA InitIInv == Init => IInv
<1> SUFFICES ASSUME Init
             PROVE  IInv
  OBVIOUS
<1>1. Idle \in Txn /\ Idle.op = "idle" /\ Idle.owned = {} /\ Idle.shared = {}
  BY DEF Idle, Txn
<1>2. row \in [Row -> {Absent}] /\ tx \in [Tx -> Txn] /\ \A t \in Tx : tx[t] = Idle
  BY <1>1 DEF Init
<1>3. TypeOK /\ NoOrphan /\ BatchHasOneRoot
  BY <1>2, HierarchyAssumption DEF TypeOK, NoOrphan, BatchHasOneRoot, IsLive, Row
<1>4. \A t \in Tx : TxOK(t)
  BY <1>1, <1>2 DEF TxOK
<1>5. \A t, u \in Tx : Apart(t, u)
  BY <1>1, <1>2 DEF Apart
<1> QED
  BY <1>3, <1>4, <1>5 DEF IInv

LEMMA StepIInv == ~Overlap /\ IInv /\ [Next]_vars => IInv'
<1> SUFFICES ASSUME ~Overlap, IInv, [Next]_vars
             PROVE  IInv'
  OBVIOUS
<1>1. CASE Ask
  BY <1>1, AskCreateKeeps, AskRestoreKeeps, AskExpireKeeps, AskDeleteKeeps DEF Ask
<1>2. CASE Work
  <2> SUFFICES ASSUME NEW t \in Tx,
                      \/ ShareAncestor(t) \/ AncestorDeleted(t) \/ Create(t) \/ Restore(t)
                      \/ LockRoot(t) \/ ReadSubtree(t) \/ LockPlan(t) \/ PlansLocked(t)
                      \/ StampPlans(t) \/ StampProjects(t) \/ CommitDelete(t)
                      \/ Claim(t) \/ ClaimLost(t) \/ ResolveScope(t) \/ Remove(t)
                      \/ Fail(t)
               PROVE  IInv'
    BY <1>2 DEF Work
  <2>1. CASE AncestorDeleted(t) \/ ClaimLost(t) \/ Fail(t)
    BY <2>1, FailKeeps DEF AncestorDeleted, ClaimLost, Fail
  <2> QED
    BY <2>1, ShareAncestorKeeps, CreateKeeps, RestoreKeeps, LockRootKeeps, ReadSubtreeKeeps,
       LockPlanKeeps, PlansLockedKeeps, StampPlansKeeps, StampProjectsKeeps, CommitDeleteKeeps,
       ClaimKeeps, ResolveScopeKeeps, RemoveKeeps
<1>3. CASE UNCHANGED vars
  <2>1. row' = row /\ tx' = tx
    BY <1>3 DEF vars
  <2> QED
    BY <2>1 DEF IInv, TypeOK, NoOrphan, BatchHasOneRoot, TxOK, Sharing, Deleting, Unanchored,
                Expiring, InHand, Apart, Standing, IsLive, IsDead, Below
<1> QED
  BY <1>1, <1>2, <1>3 DEF Next

LEMMA Invariance ==
  ASSUME ~Overlap
  PROVE  Spec => []IInv
<1>1. IInv /\ [Next]_vars => IInv'
  BY StepIInv
<1> QED
  BY <1>1, InitIInv, PTL DEF Spec

\* Every row is absent, live or in a batch, and every transaction is at a
\* point its operation has.
THEOREM TypeCorrect ==
  ASSUME ~Overlap
  PROVE  Spec => []TypeOK
<1>1. IInv => TypeOK
  BY DEF IInv
<1> QED
  BY <1>1, Invariance, PTL

\* However many creates, restores and cascade deletes run together, nothing is
\* live below a deleted client or project.
THEOREM NothingOrphaned ==
  ASSUME ~Overlap
  PROVE  Spec => []NoOrphan
<1>1. IInv => NoOrphan
  BY DEF IInv
<1> QED
  BY <1>1, Invariance, PTL

\* A delete batch is always one subtree: it may be restored from the row it
\* began at and from no other.
THEOREM OneRoot ==
  ASSUME ~Overlap
  PROVE  Spec => []BatchHasOneRoot
<1>1. IInv => BatchHasOneRoot
  BY DEF IInv
<1> QED
  BY <1>1, Invariance, PTL

\* The expiry never removes live work for good: a restore that is first is
\* seen by the claim, one that comes later waits for it and finds nothing, and
\* nothing comes to live below a root that is claimed.
THEOREM LiveWorkStays ==
  ASSUME ~Overlap
  PROVE  Spec => NothingLiveRemoved
<1>1. ASSUME IInv, Next, NEW n \in Row, IsLive(n)
      PROVE  row'[n] # Absent
  <2>1. row \in [Row -> Batch \cup {Live, Absent}] /\ row[n] # Absent /\ Live # Absent
    BY <1>1, HierarchyAssumption DEF IInv, TypeOK, IsLive
  <2>2. ASSUME NEW t \in Tx, CommitDelete(t)
        PROVE  row'[n] # Absent
    <3>1. tx[t].batch # Absent
      BY <1>1, <2>2, AtWork, HierarchyAssumption DEF CommitDelete, Deleting
    <3> QED
      BY <2>1, <2>2, <3>1 DEF CommitDelete
  <2>3. ASSUME NEW t \in Tx, Remove(t)
        PROVE  row'[n] # Absent
    <3>1. n \notin tx[t].owned
      BY <1>1, <2>3, ExpiryReach DEF Remove
    <3> QED
      BY <2>1, <2>3, <3>1 DEF Remove
  <2>4. CASE Ask
    BY <2>1, <2>4 DEF Ask, AskCreate, AskRestore, AskExpire, AskDelete, Begin
  <2>5. CASE Work
    BY <2>1, <2>2, <2>3, <2>5 DEF Work, ShareAncestor, AncestorDeleted, Create, Restore,
       LockRoot, Take, ReadSubtree, LockPlan, PlansLocked, StampPlans, StampProjects,
       Claim, ClaimLost, ResolveScope, Fail
  <2> QED
    BY <1>1, <2>4, <2>5 DEF Next
<1>2. IInv /\ [Next]_vars => [\A n \in Row : IsLive(n) => row'[n] # Absent]_vars
  BY <1>1
<1> QED
  BY <1>2, Invariance, PTL DEF Spec, NothingLiveRemoved

\* A removal is never refused by a foreign key, which would keep the batch in
\* the bin for ever: the scope, read after the claim, has all that is there
\* below the root, and nothing is added to it before the commit.
THEOREM RemovalIsWhole ==
  ASSUME ~Overlap
  PROVE  Spec => [](\A t \in Tx : tx[t].at = "remove" => Whole(t))
<1>1. ASSUME IInv, NEW t \in Tx, tx[t].at = "remove"
      PROVE  Whole(t)
  <2>1. \A n \in Project \cup Plan : n \in Row \ Client
    BY HierarchyAssumption DEF Row
  <2> QED
    BY <1>1, <2>1, ExpiryReach DEF Whole
<1>2. IInv => \A t \in Tx : tx[t].at = "remove" => Whole(t)
  BY <1>1
<1> QED
  BY <1>2, Invariance, PTL

-----------------------------------------------------------------------------
(* The waits.                                                              *)

\* The order t asks in: the client before the project, the row before the
\* plans, the plans by their numbers; and no plan's row is held before that.
InOrder(t) ==
  /\ tx[t].op # "delete" \/ tx[t].at \in {"root", "read"} => tx[t].locks = {}
  /\ tx[t].at = "plans" => \A p \in tx[t].locks, q \in tx[t].todo : p < q
  /\ tx[t].op = "delete" /\ tx[t].at \notin {"projects", "commit"} => tx[t].owned \cap Plan = {}
  /\ \A p \in tx[t].shared \cap Project : Parent[p] \in tx[t].shared

\* A step of t needs to be justified for t only.
LEMMA OrderMoves ==
  ASSUME IInv, \A u \in Tx : InOrder(u), NEW t \in Tx, NEW c, tx' = [tx EXCEPT ![t] = c],
         InOrder(t)'
  PROVE  \A u \in Tx : InOrder(u)'
<1>1. \A u \in Tx \ {t} : tx'[u] = tx[u]
  BY DEF IInv, TypeOK
<1> QED BY <1>1 DEF InOrder

LEMMA IdleInOrder ==
  ASSUME IInv, \A u \in Tx : InOrder(u), NEW t \in Tx, End(t)
  PROVE  \A u \in Tx : InOrder(u)'
<1>1. tx'[t] = Idle
  BY DEF End, IInv, TypeOK
<1>2. InOrder(t)'
  BY <1>1 DEF Idle, InOrder
<1> QED BY <1>2, OrderMoves DEF End

LEMMA AskInOrder ==
  ASSUME IInv, \A u \in Tx : InOrder(u), Ask
  PROVE  \A u \in Tx : InOrder(u)'
<1>1. PICK t \in Tx, n \in Row :
        \/ AskCreate(t, n)
        \/ AskRestore(t, n) \/ AskExpire(t, n)
        \/ \E b \in Batch : AskDelete(t, n, b)
  BY DEF Ask
<1>2. ASSUME NEW c, Begin(t, c), c.shared = {}, c.locks = {}, c.owned = {}, c.at # "plans"
      PROVE  \A u \in Tx : InOrder(u)'
  <2>1. tx'[t] = c
    BY <1>2 DEF Begin, IInv, TypeOK
  <2>2. InOrder(t)'
    BY <1>2, <2>1 DEF InOrder
  <2> QED BY <1>2, <2>2, OrderMoves DEF Begin
<1>3. CASE AskCreate(t, n)
  <2>1. PICK c : c = [Idle EXCEPT !.op = "create", !.at = "ancestors", !.target = n]
    OBVIOUS
  <2>2. c.shared = {} /\ c.locks = {} /\ c.owned = {} /\ c.at # "plans"
    BY <2>1 DEF Idle
  <2> QED BY <1>2, <1>3, <2>1, <2>2 DEF AskCreate
<1>4. CASE AskRestore(t, n)
  <2>1. PICK c : c = [Idle EXCEPT !.op = "restore", !.at = "ancestors", !.target = n,
                                  !.batch = row[n]]
    OBVIOUS
  <2>2. c.shared = {} /\ c.locks = {} /\ c.owned = {} /\ c.at # "plans"
    BY <2>1 DEF Idle
  <2> QED BY <1>2, <1>4, <2>1, <2>2 DEF AskRestore
<1>5. CASE AskExpire(t, n)
  <2>1. PICK c : c = [Idle EXCEPT !.op = "expire", !.at = "claim", !.target = n,
                                  !.batch = row[n]]
    OBVIOUS
  <2>2. c.shared = {} /\ c.locks = {} /\ c.owned = {} /\ c.at # "plans"
    BY <2>1 DEF Idle
  <2> QED BY <1>2, <1>5, <2>1, <2>2 DEF AskExpire
<1>6. ASSUME NEW b \in Batch, AskDelete(t, n, b) PROVE \A u \in Tx : InOrder(u)'
  <2>1. PICK c : c = [Idle EXCEPT !.op = "delete", !.at = "root", !.target = n, !.batch = b]
    OBVIOUS
  <2>2. c.shared = {} /\ c.locks = {} /\ c.owned = {} /\ c.at # "plans"
    BY <2>1 DEF Idle
  <2> QED BY <1>2, <1>6, <2>1, <2>2 DEF AskDelete
<1> QED BY <1>1, <1>3, <1>4, <1>5, <1>6

LEMMA ShareInOrder ==
  ASSUME IInv, \A u \in Tx : InOrder(u), NEW t \in Tx, ShareAncestor(t)
  PROVE  \A u \in Tx : InOrder(u)'
<1>1. /\ tx[t] \in Txn /\ TxOK(t) /\ InOrder(t) /\ tx[t].at = "ancestors"
  BY DEF IInv, TypeOK, ShareAncestor
<1>2. tx[t].op \in {"create", "restore"} /\ Sharing(t)
  BY <1>1 DEF TxOK, Deleting, Expiring, Idle, Txn
<1>3. PICK n \in NextAncestor(t) : tx' = [tx EXCEPT ![t].shared = @ \cup {n}]
  BY DEF ShareAncestor
<1>4. PICK c : c = [tx[t] EXCEPT !.shared = @ \cup {n}]
  OBVIOUS
<1>5. /\ c.op = tx[t].op /\ c.at = tx[t].at /\ c.locks = tx[t].locks /\ c.todo = tx[t].todo
      /\ c.owned = tx[t].owned /\ c.shared = tx[t].shared \cup {n}
  BY <1>1, <1>4 DEF Txn
<1>6. tx' = [tx EXCEPT ![t] = c] /\ tx'[t] = c
  BY <1>3, <1>4 DEF IInv, TypeOK
<1>7. n \in Project => Parent[n] \in tx[t].shared
  <2> SUFFICES ASSUME n \in Project PROVE Parent[n] \in tx[t].shared
    OBVIOUS
  <2>1. n \in Ancestors(tx[t].target) /\ n \notin Client
    BY Forest DEF NextAncestor
  <2>2. (Ancestors(tx[t].target) \ tx[t].shared) \cap Client = {}
    BY <1>3, <2>1 DEF NextAncestor
  <2>3. tx[t].target \in Plan /\ n = Parent[tx[t].target]
    BY <1>2, <2>1, Forest DEF Sharing, Row
  <2>4. Parent[n] \in Ancestors(tx[t].target) /\ Parent[n] \in Client
    BY <2>3, Forest
  <2> QED BY <2>2, <2>4
<1>8. InOrder(t)'
  BY <1>1, <1>2, <1>5, <1>6, <1>7 DEF InOrder
<1> QED BY <1>6, <1>8, OrderMoves

LEMMA DeleteInOrder ==
  ASSUME IInv, \A u \in Tx : InOrder(u), NEW t \in Tx,
         LockRoot(t) \/ ReadSubtree(t) \/ LockPlan(t) \/ PlansLocked(t)
           \/ StampPlans(t) \/ StampProjects(t)
  PROVE  \A u \in Tx : InOrder(u)'
<1>1. /\ tx[t] \in Txn /\ TxOK(t) /\ InOrder(t)
  BY DEF IInv, TypeOK
<1>2. tx[t].at \in {"root", "read", "plans", "rows", "projects"}
  BY DEF LockRoot, ReadSubtree, LockPlan, PlansLocked, StampPlans, StampProjects, Take
<1>3. tx[t].op = "delete" /\ Deleting(t) /\ tx[t].shared = {}
  BY <1>2, AtWork DEF Deleting
<1>4. ASSUME NEW c, tx' = [tx EXCEPT ![t] = c], c.op = "delete", c.shared = {},
             c.at \in {"root", "read"} => c.locks = {},
             c.at = "plans" => \A p \in c.locks, q \in c.todo : p < q,
             c.at \notin {"projects", "commit"} => c.owned \cap Plan = {}
      PROVE  \A u \in Tx : InOrder(u)'
  <2>1. tx'[t] = c
    BY <1>4 DEF IInv, TypeOK
  <2>2. InOrder(t)'
    BY <1>4, <2>1 DEF InOrder
  <2> QED BY <1>4, <2>2, OrderMoves
<1>5. ASSUME NEW at \in {"root", "rows", "projects"}, NEW next \in {"read", "projects", "commit"},
             Take(t, at, next), at = "root" => next = "read",
             at # "root" => next \in {"projects", "commit"}
      PROVE  \A u \in Tx : InOrder(u)'
  <2>1. PICK c : c = [tx[t] EXCEPT !.owned = @ \cup WantsRows(t), !.at = next]
    OBVIOUS
  <2>2. /\ c.op = "delete" /\ c.at = next /\ c.shared = {} /\ c.locks = tx[t].locks
        /\ c.owned = tx[t].owned \cup WantsRows(t)
    BY <1>1, <1>3, <2>1 DEF Txn
  <2>3. tx' = [tx EXCEPT ![t] = c]
    BY <1>5, <2>1 DEF Take
  <2>4. at = "root" => c.owned \cap Plan = {} /\ c.locks = {}
    BY <1>1, <1>3, <1>5, <2>2 DEF InOrder, Take, WantsRows, Targets
  <2> QED BY <1>4, <1>5, <2>2, <2>3, <2>4
<1>6. CASE LockRoot(t)
  BY <1>5, <1>6 DEF LockRoot
<1>7. CASE StampPlans(t) \/ StampProjects(t)
  BY <1>5, <1>7 DEF StampPlans, StampProjects
<1>8. CASE ReadSubtree(t)
  <2>1. PICK c : c = [tx[t] EXCEPT !.todo = PlansBelow(tx[t].target), !.at = "plans"]
    OBVIOUS
  <2>2. /\ c.op = "delete" /\ c.at = "plans" /\ c.shared = {} /\ c.locks = tx[t].locks
        /\ c.owned = tx[t].owned
    BY <1>1, <1>3, <2>1 DEF Txn
  <2>3. c.locks = {} /\ c.owned \cap Plan = {}
    BY <1>1, <1>3, <1>8, <2>2 DEF InOrder, ReadSubtree
  <2> QED BY <1>4, <1>8, <2>1, <2>2, <2>3 DEF ReadSubtree
<1>9. CASE LockPlan(t)
  <2>1. PICK W : W = WantsLock(t)
    OBVIOUS
  <2>2. PICK c : c = [tx[t] EXCEPT !.locks = @ \cup W, !.todo = @ \ W]
    OBVIOUS
  <2>3. /\ c.op = "delete" /\ c.at = "plans" /\ c.shared = {} /\ c.locks = tx[t].locks \cup W
        /\ c.owned = tx[t].owned /\ c.todo = tx[t].todo \ W
    BY <1>1, <1>3, <1>9, <2>2 DEF Txn, LockPlan
  <2>4. c.owned \cap Plan = {} /\ \A p \in tx[t].locks, q \in tx[t].todo : p < q
    BY <1>1, <1>3, <1>9, <2>3 DEF InOrder, LockPlan
  <2>5. ASSUME NEW p \in W, NEW q \in tx[t].todo \ W PROVE p < q
    <3>1. p <= q /\ p # q /\ p \in Nat /\ q \in Nat
      BY <1>1, <2>1, <2>5, HierarchyAssumption DEF WantsLock, Txn
    <3> QED BY <3>1
  <2>6. tx' = [tx EXCEPT ![t] = c]
    BY <1>9, <2>1, <2>2 DEF LockPlan
  <2>7. \A p \in c.locks, q \in c.todo : p < q
    BY <2>3, <2>4, <2>5
  <2> QED BY <1>4, <2>3, <2>4, <2>6, <2>7
<1>10. CASE PlansLocked(t)
  <2>1. PICK c : c = [tx[t] EXCEPT !.at = "rows"]
    OBVIOUS
  <2>2. c.op = "delete" /\ c.at = "rows" /\ c.shared = {} /\ c.owned = tx[t].owned
    BY <1>1, <1>3, <2>1 DEF Txn
  <2>3. c.owned \cap Plan = {}
    BY <1>1, <1>3, <1>10, <2>2 DEF InOrder, PlansLocked
  <2> QED BY <1>4, <1>10, <2>1, <2>2, <2>3 DEF PlansLocked
<1> QED BY <1>6, <1>7, <1>8, <1>9, <1>10

LEMMA ExpireInOrder ==
  ASSUME IInv, \A u \in Tx : InOrder(u), NEW t \in Tx, Claim(t) \/ ResolveScope(t)
  PROVE  \A u \in Tx : InOrder(u)'
<1>1. tx[t] \in Txn /\ TxOK(t) /\ InOrder(t) /\ tx[t].at \in {"claim", "scope"}
  BY DEF IInv, TypeOK, Claim, ResolveScope
<1>2. tx[t].op = "expire" /\ tx[t].shared = {} /\ tx[t].locks = {}
  BY <1>1 DEF TxOK, Sharing, Deleting, Expiring, Idle, Txn, InOrder
<1>3. PICK c : /\ tx' = [tx EXCEPT ![t] = c] /\ c.op = "expire" /\ c.shared = {} /\ c.locks = {}
               /\ c.at # "plans"
  <2>1. CASE Claim(t)
    <3>1. PICK c : c = [tx[t] EXCEPT !.owned = {tx[t].target}, !.at = "scope"]
      OBVIOUS
    <3>2. c.op = "expire" /\ c.shared = {} /\ c.locks = {} /\ c.at # "plans"
      BY <1>1, <1>2, <3>1 DEF Txn
    <3> QED BY <2>1, <3>1, <3>2 DEF Claim
  <2>2. CASE ResolveScope(t)
    <3>1. PICK c : c = [tx[t] EXCEPT
                          !.owned = @ \cup {n \in Below(tx[t].target) : row[n] # Absent},
                          !.at = "remove"]
      OBVIOUS
    <3>2. c.op = "expire" /\ c.shared = {} /\ c.locks = {} /\ c.at # "plans"
      BY <1>1, <1>2, <3>1 DEF Txn
    <3> QED BY <2>2, <3>1, <3>2 DEF ResolveScope
  <2> QED BY <2>1, <2>2
<1>4. tx'[t] = c
  BY <1>3 DEF IInv, TypeOK
<1>5. InOrder(t)'
  BY <1>3, <1>4 DEF InOrder
<1> QED BY <1>3, <1>5, OrderMoves

LEMMA StepInOrder ==
  ASSUME IInv, \A t \in Tx : InOrder(t), [Next]_vars
  PROVE  \A t \in Tx : InOrder(t)'
<1>1. CASE Work
  <2>1. PICK t \in Tx :
                      \/ ShareAncestor(t) \/ AncestorDeleted(t) \/ Create(t) \/ Restore(t)
                      \/ LockRoot(t) \/ ReadSubtree(t) \/ LockPlan(t) \/ PlansLocked(t)
                      \/ StampPlans(t) \/ StampProjects(t) \/ CommitDelete(t)
                      \/ Claim(t) \/ ClaimLost(t) \/ ResolveScope(t) \/ Remove(t)
                      \/ Fail(t)
    BY <1>1 DEF Work
  <2>2. CASE End(t)
    BY <2>2, IdleInOrder
  <2> QED
    BY <2>1, <2>2, ShareInOrder, DeleteInOrder, ExpireInOrder
    DEF AncestorDeleted, Create, Restore, CommitDelete, ClaimLost, Remove, Fail
<1>2. CASE UNCHANGED vars
  BY <1>2 DEF vars, InOrder
<1> QED BY <1>1, <1>2, AskInOrder DEF Next

\* Where t is on the way of its waits: what waits for what, no ring has it.
Done(t) == tx[t].op \in {"idle", "expire"}
Stamping(t) ==
  /\ tx[t].op = "delete"
  /\ tx[t].at = "projects" \/ (tx[t].at = "commit" /\ tx[t].target \notin Plan)
Claiming(t) ==
  /\ tx[t].op = "delete"
  /\ tx[t].at \in {"read", "rows"} \/ (tx[t].at = "commit" /\ tx[t].target \in Plan)
Queueing(t) == tx[t].op = "delete" /\ tx[t].at = "plans"
Joining(t) == tx[t].op \in {"create", "restore"}
Rooting(t) == tx[t].op = "delete" /\ tx[t].at = "root"

LEMMA Stages ==
  ASSUME IInv, NEW t \in Tx
  PROVE  /\ Done(t) \/ Stamping(t) \/ Claiming(t) \/ Queueing(t) \/ Joining(t) \/ Rooting(t)
         /\ Done(t) => WantsShared(t) = {} /\ WantsRows(t) = {} /\ WantsBatch(t) = {}
                       /\ WantsLock(t) = {}
         /\ Joining(t) => WantsRows(t) = {} /\ WantsLock(t) = {} /\ Sharing(t)
         /\ tx[t].op = "delete" => WantsShared(t) = {} /\ WantsBatch(t) = {} /\ Deleting(t)
         /\ tx[t].op = "delete" /\ ~Queueing(t) => WantsLock(t) = {}
         /\ Queueing(t) => WantsRows(t) = {}
         /\ Done(t) => tx[t].shared = {}
<1>1. tx[t] \in Txn /\ TxOK(t)
  BY DEF IInv, TypeOK
<1>2. CASE tx[t].op \in {"idle", "expire"}
  <2>1. tx[t].at \notin {"ancestors", "plans"} /\ tx[t].shared = {}
    BY <1>1, <1>2 DEF TxOK, Expiring, Idle
  <2> QED BY <1>2, <2>1 DEF Done, Stamping, Claiming, Queueing, Joining, Rooting,
                           WantsShared, WantsRows, WantsBatch, WantsLock
<1>3. CASE tx[t].op \in {"create", "restore"}
  BY <1>1, <1>3 DEF TxOK, Sharing, Done, Joining, Queueing, WantsRows, WantsLock
<1>4. CASE tx[t].op = "delete"
  <2>1. Deleting(t) /\ tx[t].at \in {"root", "read", "plans", "rows", "projects", "commit"}
    BY <1>1, <1>4 DEF TxOK, Deleting
  <2>2. tx[t].at = "plans" => Targets(t) = {}
    BY DEF Targets
  <2> QED BY <1>4, <2>1, <2>2 DEF Done, Stamping, Claiming, Queueing, Joining, Rooting,
                           WantsShared, WantsRows, WantsBatch, WantsLock
<1> QED BY <1>1, <1>2, <1>3, <1>4 DEF Txn

\* Who holds what t may ask for.
LEMMA Holders ==
  ASSUME IInv, NEW u \in Tx, InOrder(u)
  PROVE  /\ \A n \in tx[u].owned : Done(u) \/ (tx[u].op = "delete" /\ ~Rooting(u) /\ IsLive(n))
         /\ \A n \in tx[u].shared : Joining(u) /\ n \notin Plan
         /\ \A p \in tx[u].owned \cap Plan : Done(u) \/ Stamping(u)
         /\ \A p \in tx[u].locks : Stamping(u) \/ Claiming(u) \/ Queueing(u)
<1>1. TxOK(u) /\ tx[u] \in Txn /\ IInv
  BY DEF IInv, TypeOK
<1>2. CASE Done(u)
  BY <1>2, Stages DEF InOrder, Done
<1>3. CASE Joining(u)
  <2>1. Sharing(u) /\ tx[u].owned = {} /\ tx[u].locks = {}
    BY <1>3, Stages DEF Sharing, InOrder, Joining
  <2>2. \A n \in Row : \A m \in Ancestors(n) : m \notin Plan
    <3>1. \A n \in Client \cup Project : n \notin Plan
      BY HierarchyAssumption
    <3>2. \A n \in Client : Ancestors(n) \subseteq Client
      BY Forest
    <3>3. \A n \in Project : Ancestors(n) \subseteq Client
      BY Forest
    <3>4. \A n \in Plan : Ancestors(n) \subseteq Client \cup Project
      BY Forest
    <3> QED BY <3>1, <3>2, <3>3, <3>4 DEF Row
  <2> QED BY <1>3, <2>1, <2>2 DEF Sharing
<1>4. CASE tx[u].op = "delete"
  <2>1. Deleting(u) /\ tx[u].shared = {}
    BY <1>1, <1>4 DEF TxOK, Deleting
  <2>2. \A n \in tx[u].owned : IsLive(n) /\ ~Rooting(u)
    BY <1>1, <1>4, <2>1 DEF TxOK, Deleting, Rooting
  <2>3. \A p \in tx[u].owned \cap Plan : Stamping(u)
    BY <1>4, <2>1 DEF Deleting, InOrder, Stamping
  <2>4. \A p \in tx[u].locks : Stamping(u) \/ Claiming(u) \/ Queueing(u)
    BY <1>4, <2>1 DEF Deleting, InOrder, Stamping, Claiming, Queueing
  <2> QED BY <1>4, <2>1, <2>2, <2>3, <2>4
<1> QED BY <1>1, <1>2, <1>3, <1>4 DEF Done, Joining, Txn

LEMMA DoneWaitsNot ==
  ASSUME IInv, NEW t \in Tx, Done(t), NEW u \in Tx
  PROVE  ~WaitsFor(t, u)
  BY Stages DEF WaitsFor

\* A delete that has its plans waits, but across a level, only for the expiry.
LEMMA StampingWaits ==
  ASSUME IInv, \A v \in Tx : InOrder(v), NEW t \in Tx, Stamping(t), NEW u \in Tx,
         WaitsFor(t, u), ~Crosses(t, u)
  PROVE  Done(u)
<1>1. Deleting(t) /\ t # u /\ Apart(t, u) /\ Apart(u, t) /\ NoOrphan /\ TxOK(u)
  BY Stages DEF IInv, WaitsFor, Stamping
<1>2. PICK n \in Targets(t) : IsLive(n) /\ n \in tx[u].owned \cup tx[u].shared
  BY Stages DEF WaitsFor, WantsRows, Stamping, Queueing
<1>3. tx[t].target \notin Plan => ~IsLive(tx[t].target) \/ tx[t].target \in tx[t].owned
  <2>1. tx[t].target \notin Plan /\ tx[t].target \notin tx[t].owned => IsDead(tx[t].target)
    BY <1>1 DEF Deleting, Unanchored, Stamping
  <2> QED BY <2>1, HierarchyAssumption DEF IsLive, IsDead
<1>4. CASE tx[t].at = "commit"
  <2>1. n = tx[t].target /\ tx[t].target \notin Plan
    BY <1>2, <1>4 DEF Targets, Stamping
  <2> QED BY <1>1, <1>2, <1>3, <2>1 DEF Apart
<1>5. CASE tx[t].at = "projects"
  <2>1. n \in Project /\ Parent[n] = tx[t].target /\ tx[t].target \in Client
    BY <1>2, <1>5, Forest DEF Targets, Children
  <2>2. tx[t].target \in tx[t].owned
    BY <1>1, <1>2, <1>3, <2>1, HierarchyAssumption DEF NoOrphan
  <2>3. n \notin tx[u].shared
    BY <1>1, <2>1, <2>2 DEF InOrder, Apart
  <2>4. n \in tx[u].owned
    BY <1>2, <2>3
  <2> SUFFICES ASSUME ~Done(u) PROVE FALSE
    OBVIOUS
  <2>5. tx[u].op = "delete" /\ Deleting(u) /\ ~Rooting(u)
    BY <2>4, Holders, Stages
  <2>6. n # tx[u].target
    BY <1>5, <2>1, <2>5 DEF Crosses
  <2>7. tx[u].target = tx[t].target
    BY <2>1, <2>4, <2>5, <2>6, Forest DEF Deleting, Below
  <2>8. tx[u].target \in tx[u].owned
    BY <2>1, <2>4, <2>5, <2>7, HierarchyAssumption DEF Deleting, Unanchored, Rooting
  <2> QED BY <1>1, <2>2, <2>7, <2>8 DEF Apart
<1> QED BY <1>4, <1>5 DEF Stamping

\* One that is about to take plans' rows waits for who has them.
LEMMA ClaimingWaits ==
  ASSUME IInv, \A v \in Tx : InOrder(v), NEW t \in Tx, Claiming(t), NEW u \in Tx, WaitsFor(t, u)
  PROVE  Done(u) \/ Stamping(u)
<1>1. PICK n \in Targets(t) : IsLive(n) /\ n \in tx[u].owned \cup tx[u].shared
  BY Stages DEF WaitsFor, WantsRows, Claiming, Queueing
<1>2. n \in Plan
  <2>1. tx[t].at # "read" /\ tx[t].locks \subseteq Plan
    BY <1>1 DEF Targets, IInv, TypeOK, Txn
  <2>2. CASE tx[t].at = "rows"
    <3>1. Targets(t) = IF tx[t].target \in Client THEN tx[t].locks
                       ELSE Children(tx[t].target) \cap Plan
      BY <2>2 DEF Targets
    <3> QED BY <1>1, <2>1, <3>1
  <2>3. CASE tx[t].at = "commit"
    BY <1>1, <2>3 DEF Targets, Claiming
  <2> QED BY <2>1, <2>2, <2>3 DEF Claiming
<1> QED BY <1>1, <1>2, Holders

\* One that queues for a plan's lock waits for who has it, and who has it
\* queues for later plans.
LEMMA QueueingWaits ==
  ASSUME IInv, \A v \in Tx : InOrder(v), NEW t \in Tx, Queueing(t), NEW u \in Tx, WaitsFor(t, u)
  PROVE  /\ Stamping(u) \/ Claiming(u) \/ Queueing(u)
         /\ \A p \in WantsLock(t), q \in WantsLock(u) : p < q
<1>1. PICK p \in WantsLock(t) : p \in tx[u].locks
  BY Stages DEF WaitsFor, Queueing
<1>2. Stamping(u) \/ Claiming(u) \/ Queueing(u)
  BY <1>1, Holders
<1>3. ASSUME NEW r \in WantsLock(t), NEW q \in WantsLock(u) PROVE r < q
  <2>1. p < q
    BY <1>1, <1>3 DEF WantsLock, InOrder
  <2>2. r = p
    <3>1. r <= p /\ p <= r /\ r \in Nat /\ p \in Nat
      BY <1>1, <1>3, HierarchyAssumption DEF WantsLock, IInv, TypeOK, Txn
    <3> QED BY <3>1
  <2> QED BY <2>1, <2>2
<1> QED BY <1>2, <1>3

LEMMA JoiningWaits ==
  ASSUME IInv, \A v \in Tx : InOrder(v), NEW t \in Tx, Joining(t), NEW u \in Tx, WaitsFor(t, u)
  PROVE  Done(u) \/ Stamping(u) \/ Claiming(u) \/ Queueing(u)
<1>1. tx[u].owned # {}
  BY Stages DEF WaitsFor
<1>2. Done(u) \/ (tx[u].op = "delete" /\ ~Rooting(u))
  BY <1>1, Holders
<1> QED BY <1>2, Stages DEF Joining

\* One that has not locked its root has nothing anyone waits for.
LEMMA NoneWaitsForRooting ==
  ASSUME IInv, \A v \in Tx : InOrder(v), NEW t \in Tx, NEW u \in Tx, Rooting(u)
  PROVE  ~WaitsFor(t, u)
<1>1. tx[u].owned = {} /\ tx[u].shared = {} /\ tx[u].locks = {}
  BY Stages DEF Deleting, InOrder, Rooting
<1> QED BY <1>1 DEF WaitsFor

LEMMA NoRing ==
  ASSUME IInv, \A t \in Tx : InOrder(t)
  PROVE  RingsCrossLevels
<1> DEFINE E == {e \in Edges(Tx) : WaitsFor(e[1], e[2]) /\ ~Crosses(e[1], e[2])}
<1>1. \A t, u \in Tx : <<t, u>> \in E => WaitsFor(t, u) /\ ~Crosses(t, u)
  BY DEF Edges
<1> HIDE DEF E
<1> SUFFICES ASSUME NEW S \in SUBSET Tx, S # {}
             PROVE  \E t \in S : \A u \in S : <<t, u>> \notin E
  BY DEF RingsCrossLevels, Acyclic, E
<1>2. CASE \E t \in S : Done(t)
  BY <1>1, <1>2, DoneWaitsNot
<1>3. CASE (\A t \in S : ~Done(t)) /\ \E t \in S : Stamping(t)
  BY <1>1, <1>3, StampingWaits
<1>4. CASE (\A t \in S : ~Done(t) /\ ~Stamping(t)) /\ \E t \in S : Claiming(t)
  BY <1>1, <1>4, ClaimingWaits
<1>5. CASE (\A t \in S : ~Done(t) /\ ~Stamping(t) /\ ~Claiming(t)) /\ \E t \in S : Queueing(t)
  <2> DEFINE Q == {t \in S : Queueing(t)}
  <2>1. \A t \in Q, u \in S : <<t, u>> \in E =>
          u \in Q /\ \A p \in WantsLock(t), q \in WantsLock(u) : p < q
    BY <1>1, <1>5, QueueingWaits
  <2>2. CASE \E t \in Q : WantsLock(t) = {}
    BY <1>1, <2>2, Stages DEF WaitsFor, Queueing
  <2>3. CASE \A t \in Q : WantsLock(t) # {}
    <3> DEFINE f == [t \in Q |-> CHOOSE p \in WantsLock(t) : TRUE]
    <3>1. \A t \in Q : f[t] \in WantsLock(t)
      BY <2>3
    <3>2. \A t \in Q : WantsLock(t) \subseteq Nat
      BY HierarchyAssumption DEF WantsLock, IInv, TypeOK, Txn
    <3>3. f \in [Q -> Nat]
      BY <3>1, <3>2
    <3>4. Q \in SUBSET Tx /\ Q # {} /\ IsFiniteSet(Q)
      BY <1>5, HierarchyAssumption, FS_Subset
    <3> HIDE DEF f, Q
    <3>5. PICK t \in Q : \A u \in Q : f[u] <= f[t]
      BY <3>3, <3>4, HasGreatest
    <3>6. ASSUME NEW u \in S, <<t, u>> \in E PROVE FALSE
      <4>1. u \in Q /\ f[t] < f[u]
        BY <2>1, <3>1, <3>6
      <4> QED BY <3>3, <3>5, <4>1
    <3>7. t \in S
      BY DEF Q
    <3> QED BY <3>6, <3>7
  <2> QED BY <2>2, <2>3
<1>6. CASE (\A t \in S : ~Done(t) /\ ~Stamping(t) /\ ~Claiming(t) /\ ~Queueing(t))
           /\ \E t \in S : Joining(t)
  BY <1>1, <1>6, JoiningWaits
<1>7. CASE \A t \in S : Rooting(t)
  BY <1>1, <1>7, NoneWaitsForRooting
<1> QED BY <1>2, <1>3, <1>4, <1>5, <1>6, <1>7, Stages

\* Whatever creates, restores, deletes and expiries wait for, a ring of waits has
\* in it a client's delete that is at its projects' stamp and waits for a delete
\* of one of them: below that, cascadeSoftDelete's order (root row, plans' locks
\* by id, plans, projects, root again) and the top-down shares of the ancestors
\* leave no ring.
THEOREM RingsOnlyAcrossLevels ==
  ASSUME ~Overlap
  PROVE  Spec => []RingsCrossLevels
<1> DEFINE Inv == IInv /\ \A t \in Tx : InOrder(t)
<1>1. Init => Inv
  <2>1. Init => \A t \in Tx : InOrder(t)
    BY DEF Init, Idle, InOrder
  <2> QED BY <2>1, InitIInv
<1>2. Inv /\ [Next]_vars => Inv'
  BY StepIInv, StepInOrder
<1>3. Inv => RingsCrossLevels
  BY NoRing
<1> QED BY <1>1, <1>2, <1>3, PTL DEF Spec
=============================================================================
