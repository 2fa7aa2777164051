----------------------------- MODULE MCPenClient -----------------------------
(* Instances of PenClient for TLC: one user's tabs beside a peer.          *)
EXTENDS PenClient, TLC

CONSTANTS ada, bob

MCUserOf == [t \in Tab |-> ada]
=============================================================================
