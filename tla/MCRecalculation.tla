-------------------------- MODULE MCRecalculation --------------------------
(* Instances of Recalculation for TLC: two plans, the second deriving from *)
(* the first.                                                              *)
EXTENDS Recalculation, TLC

MCUpstream == {<<1, 2>>}
MCProgrammes == {<<1>>, <<2>>, <<1, 2>>}

Symmetry == Permutations(Req)
=============================================================================
