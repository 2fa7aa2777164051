-------------------------------- MODULE Pen --------------------------------
(***************************************************************************)
(* What the plan edit-lock promises, without its clock, its lease row, its *)
(* advisory lock or its requests (ADR-0028): one pen per plan, held by at  *)
(* most one member, with at most one member waiting for it.                *)
(*                                                                         *)
(* A write to the plan is admitted at a moment its writer holds the pen,   *)
(* and until it has committed the pen goes to nobody: it can only be put   *)
(* down.  PlanLock implements this specification (PlanLock!PenPromise).    *)
(***************************************************************************)
CONSTANTS
  User,   \* members who may coordinate the pen
  NoOne   \* "no user"

VARIABLES
  holder,   \* who has the pen, or NoOne
  waiting,  \* who has asked the holder for it, or NoOne
  writing   \* the writers of admitted writes that have not committed

vars == <<holder, waiting, writing>>

Init ==
  /\ holder = NoOne
  /\ waiting = NoOne
  /\ writing = {}

\* Taken, taken over, handed off or renewed after it lapsed.
Grant(u) ==
  /\ writing = {}
  /\ holder' = u
  /\ waiting' = NoOne
  /\ UNCHANGED writing

Ask(u) ==
  /\ holder \notin {NoOne, u}
  /\ waiting' = u
  /\ UNCHANGED <<holder, writing>>

\* Released, by the holder or by force.
Drop ==
  /\ holder' = NoOne
  /\ waiting' = NoOne
  /\ UNCHANGED writing

BeginWrite(u) ==
  /\ writing = {}
  /\ holder = u
  /\ writing' = {u}
  /\ UNCHANGED <<holder, waiting>>

EndWrite ==
  /\ writing' = {}
  /\ UNCHANGED <<holder, waiting>>

Next ==
  \/ \E u \in User : Grant(u) \/ Ask(u) \/ BeginWrite(u)
  \/ Drop \/ EndWrite

Spec == Init /\ [][Next]_vars
=============================================================================
