--------------------------- MODULE MCLogicNetwork ---------------------------
(* The plan's network on small instances.  Ids of activities, of batches   *)
(* and of requests are opaque, so each set is symmetric.                   *)
EXTENDS LogicNetwork, TLC

Symmetry == Permutations(Act) \cup Permutations(Batch) \cup Permutations(Req)
=============================================================================
