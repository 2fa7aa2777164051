----------------------------- MODULE PlanGraph -----------------------------
(***************************************************************************)
(* The graph of an organisation's plans and what is computed on it: the    *)
(* order a programme is recalculated in (modules/schedule/programme-order) *)
(* and the cross-plan cycle check (cross-plan-cycle-detector).             *)
(*                                                                         *)
(* Plans are numbers, which stand for ids in their order; a graph is given *)
(* by the active links, each as <<predecessor plan, successor plan>> under *)
(* an index of its own, so that a pair of plans may occur more than once.  *)
(***************************************************************************)
EXTENDS Digraphs, Naturals, Sequences, FiniteSets, FiniteSetsExt

Mirror(links) == {<<links[i][2], links[i][1]>> : i \in DOMAIN links}

\* How many of the links run from p to q.
Multiplicity(links, p, q) ==
  Cardinality({i \in DOMAIN links : links[i] = <<p, q>>})

\* A link from a plan p to a plan s, with the pairs E linked already.
WouldCreatePlanCycle(N, E, p, s) == p = s \/ p \in Search(N, E, s)

\* The target and every plan it transitively derives from.
UpstreamClosure(N, links, target) == Search(N, Mirror(links), target)

\* Mutant of InDegree: a second link between the same plans is not counted.
InDegreeOfPairs(S, links, p) ==
  Cardinality({q \in S : \E i \in DOMAIN links : links[i] = <<q, p>>})

\* The links into p from plans of S, one by one.
InDegree(S, links, p) ==
  Cardinality({i \in DOMAIN links : links[i][1] \in S /\ links[i][2] = p})

\* One round of Kahn's algorithm: the least ready plan is placed, and each of
\* its links releases one in-degree of a plan it feeds.
KahnStep(S, links, st) ==
  LET n == Min(st.ready)
      fed == {m \in S : Multiplicity(links, n, m) > 0}
      degree == [m \in S |-> st.degree[m] - Multiplicity(links, n, m)]
  IN  [order  |-> Append(st.order, n),
       degree |-> degree,
       ready  |-> (st.ready \ {n}) \cup {m \in fed : degree[m] = 0}]

\* orderPlansUpstreamFirst; it throws ProgrammeCycleError when the order comes
\* out shorter than S.
OrderPlansUpstreamFirst(S, links) ==
  LET start == [order  |-> <<>>,
                degree |-> [p \in S |-> InDegree(S, links, p)],
                ready  |-> {p \in S : InDegree(S, links, p) = 0}]
      after[k \in 0..Cardinality(S)] ==
        IF k = 0 THEN start
        ELSE IF after[k - 1].ready = {} THEN after[k - 1]
        ELSE KahnStep(S, links, after[k - 1])
  IN  after[Cardinality(S)].order

ResolveProgrammeOrder(N, links, target) ==
  OrderPlansUpstreamFirst(UpstreamClosure(N, links, target), links)
=============================================================================
