----------------------------- MODULE MCHierarchy -----------------------------
(* A client with one or two projects and two plans under the first.        *)
(* Batches and transactions are interchangeable.                           *)
EXTENDS Hierarchy, TLC

CONSTANTS c1, p1, p2

Tree == (p1 :> c1) @@ (p2 :> c1) @@ (1 :> p1) @@ (2 :> p1)
SmallTree == (p1 :> c1) @@ (1 :> p1) @@ (2 :> p1)

Symmetry == Permutations(Batch) \cup Permutations(Tx)
=============================================================================
