---------------------------- MODULE MCCrossPlan ----------------------------
(* Instances of CrossPlan for TLC.  An activity is numbered by its plan    *)
(* and, in the last digit, its place in it.                                *)
EXTENDS CrossPlan, TLC

CONSTANTS fs, ss, ff

MCPlanOf == [a \in Act |-> a \div 10]

\* Enough for a cycle of three plans, the ladder (two types between the same
\* activities), and a request that names one plan twice.
MCAsked == {<<11, 12, fs>>, <<11, 21, ss>>, <<11, 21, ff>>, <<21, 31, fs>>, <<31, 11, fs>>}

Symmetry == Permutations(Req)
=============================================================================
