----------------------------- MODULE MCResources -----------------------------
(* Three resources are enough for a branch of two to move under a third.   *)
EXTENDS Resources, TLC

Symmetry == Permutations(Resource) \cup Permutations(Batch) \cup Permutations(Req)
=============================================================================
