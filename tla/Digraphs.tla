------------------------------ MODULE Digraphs ------------------------------
(***************************************************************************)
(* Reachability and acyclicity of a directed graph, given by its nodes N   *)
(* and its edges E, a set of pairs of nodes.  Both are stated by closed    *)
(* sets rather than by paths: on a finite graph that is the same, and a    *)
(* proof about an added or removed edge needs no induction.                *)
(*                                                                         *)
(* Search is how the code finds out what is reached: the same loop stands  *)
(* in cycle-detector, in cross-plan-cycle-detector and in programme-order. *)
(***************************************************************************)
EXTENDS Naturals, FiniteSets

Edges(N) == N \X N

\* T holds every successor of its members.
Closed(E, T) == \A e \in E : e[1] \in T => e[2] \in T

\* The nodes a walk from s gets to, s among them: what every closed set that
\* holds s holds.
Reach(N, E, s) ==
  {n \in N : \A T \in SUBSET N : s \in T /\ Closed(E, T) => n \in T}

\* No cycle: every set of nodes has one with no successor in the set.
Acyclic(N, E) ==
  \A S \in SUBSET N : S # {} => \E n \in S : \A m \in S : <<n, m>> \notin E

\* One turn of the search's loop: a node is taken off the stack, and its
\* successors that were not seen yet are seen and pushed.  Which node is on
\* top makes no difference to what is seen in the end, so the stack is a set.
SearchStep(E, st) ==
  LET node == CHOOSE n \in st.stack : TRUE
      next == {e[2] : e \in {d \in E : d[1] = node}} \ st.seen
  IN  [seen |-> st.seen \cup next, stack |-> (st.stack \ {node}) \cup next]

\* What is seen when the stack is empty; no node is pushed twice, so that as
\* many turns as there are nodes are enough.
Search(N, E, s) ==
  LET turns[k \in 0..Cardinality(N)] ==
        IF k = 0 THEN [seen |-> {s}, stack |-> {s}]
        ELSE IF turns[k - 1].stack = {} THEN turns[k - 1]
        ELSE SearchStep(E, turns[k - 1])
  IN  turns[Cardinality(N)].seen
=============================================================================
