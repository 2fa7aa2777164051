---------------------------- MODULE MCMembership ----------------------------
(* Instances of Membership for TLC: a founder, and others who are invited. *)
EXTENDS Membership, TLC

Symmetry == Permutations(Req)
=============================================================================
