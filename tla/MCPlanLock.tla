----------------------------- MODULE MCPlanLock -----------------------------
(* Instances of PlanLock for TLC: request slots are interchangeable, and   *)
(* so are the users who are not administrators.                            *)
EXTENDS PlanLock, TLC

Symmetry == Permutations(Req) \cup Permutations(User \ Admin)
=============================================================================
