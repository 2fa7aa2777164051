----------------------------- MODULE MCCalendars -----------------------------
(* The plans are in project x1, the activities in plan p1.                 *)
EXTENDS Calendars, TLC

CONSTANTS x1, p1, a1

MCHomeOf == [p \in Plan |-> x1]
MCPlanOf == [a \in Activity |-> p1]
Symmetry == Permutations(Batch) \cup Permutations(Slot)
=============================================================================
