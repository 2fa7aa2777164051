--------------------------- MODULE DigraphProofs ---------------------------
(***************************************************************************)
(* What removing edges and adding one edge do to acyclicity: the argument  *)
(* behind the dependency graph's DAG invariant (ADR-0021).  On a finite    *)
(* graph, that a set with no cycle has a source as well as a sink, and     *)
(* that the code's search finds just what can be reached.                  *)
(***************************************************************************)
EXTENDS Digraphs, Naturals, FiniteSetTheorems, TLAPS

\* A walk that is inside a closed set stays there.
LEMMA ReachInClosed ==
  ASSUME NEW N, NEW E, NEW T \in SUBSET N, NEW s \in T, Closed(E, T)
  PROVE  Reach(N, E, s) \subseteq T
  BY DEF Reach

\* What is not reached is kept out by some closed set.
LEMMA UnreachedSeparated ==
  ASSUME NEW N, NEW E, NEW s \in N, NEW n \in N, n \notin Reach(N, E, s)
  PROVE  \E T \in SUBSET N : s \in T /\ Closed(E, T) /\ n \notin T
  BY DEF Reach

\* Fewer edges reach no further.
LEMMA FewerReached ==
  ASSUME NEW N, NEW E, NEW F \in SUBSET E, NEW s
  PROVE  Reach(N, F, s) \subseteq Reach(N, E, s)
  BY DEF Reach, Closed

\* Fewer edges close no cycle.
LEMMA FewerEdges ==
  ASSUME NEW N, NEW E, NEW F \in SUBSET E, Acyclic(N, E)
  PROVE  Acyclic(N, F)
  BY DEF Acyclic

\* Adding p -> s closes no cycle when p is not reached from s, which is what
\* wouldCreateCycle decides before a dependency is inserted.
THEOREM AddedEdge ==
  ASSUME NEW N, NEW E, NEW p \in N, NEW s \in N,
         Acyclic(N, E), p \notin Reach(N, E, s)
  PROVE  Acyclic(N, E \cup {<<p, s>>})
<1> DEFINE F == E \cup {<<p, s>>}
<1> SUFFICES ASSUME NEW S \in SUBSET N, S # {}
             PROVE  \E n \in S : \A m \in S : <<n, m>> \notin F
  BY DEF Acyclic
<1>1. PICK T \in SUBSET N : s \in T /\ Closed(E, T) /\ p \notin T
  BY UnreachedSeparated
<1>2. CASE S \cap T # {}
  <2>1. PICK n \in S \cap T : \A m \in S \cap T : <<n, m>> \notin E
    BY <1>2 DEF Acyclic
  <2>2. ASSUME NEW m \in S, <<n, m>> \in F PROVE FALSE
    <3>1. n # p
      BY <1>1
    <3>2. <<n, m>> \in E
      BY <2>2, <3>1
    <3>3. m \in T
      BY <1>1, <2>1, <3>2 DEF Closed
    <3> QED BY <2>1, <3>2, <3>3
  <2> QED BY <2>2
<1>3. CASE S \cap T = {}
  <2>1. s \notin S
    BY <1>1, <1>3
  <2>2. PICK n \in S : \A m \in S : <<n, m>> \notin E
    BY DEF Acyclic
  <2>3. ASSUME NEW m \in S PROVE <<n, m>> \notin F
    BY <2>1, <2>2, <2>3
  <2> QED BY <2>3
<1> QED BY <1>2, <1>3

\* Taking a node r out and joining what led to it to where it led closes no
\* cycle.
LEMMA NodeTakenOut ==
  ASSUME NEW N, NEW E, NEW F, NEW r \in N, Acyclic(N, E),
         \A n, m \in N : <<n, m>> \in F =>
           /\ n # r
           /\ \/ <<n, m>> \in E
              \/ <<n, r>> \in E /\ <<r, m>> \in E
  PROVE  Acyclic(N, F)
<1> SUFFICES ASSUME NEW S \in SUBSET N, S # {}
             PROVE  \E n \in S : \A m \in S : <<n, m>> \notin F
  BY DEF Acyclic
<1>1. S \cup {r} \in SUBSET N
  OBVIOUS
<1>2. PICK n \in S \cup {r} : \A m \in S \cup {r} : <<n, m>> \notin E
  BY <1>1 DEF Acyclic
<1>3. CASE n \in S
  <2>1. ASSUME NEW m \in S, <<n, m>> \in F PROVE FALSE
    <3>1. <<n, m>> \in E \/ <<n, r>> \in E
      BY <1>3, <2>1
    <3> QED BY <1>2, <3>1
  <2> QED BY <1>3, <2>1
<1>4. CASE n = r
  <2>1. PICK k \in S : \A m \in S : <<k, m>> \notin E
    BY DEF Acyclic
  <2>2. ASSUME NEW m \in S, <<k, m>> \in F PROVE FALSE
    <3>1. <<k, m>> \in E \/ <<r, m>> \in E
      BY <2>2
    <3> QED BY <1>2, <1>4, <2>1, <3>1
  <2> QED BY <2>1, <2>2
<1> QED BY <1>3, <1>4

-----------------------------------------------------------------------------
(* Finite graphs.                                                          *)

\* Among finite sets some are smallest: what the inductions below rest on.
LEMMA SmallestSet ==
  ASSUME NEW T, T # {}, \A U \in T : IsFiniteSet(U)
  PROVE  \E U \in T : \A V \in T : V \subseteq U => V = U
<1> DEFINE B == UNION T
<1>1. T \subseteq FiniteSubsetsOf(B)
  BY DEF FiniteSubsetsOf
<1>2. IsWellFoundedOn(StrictSubsetOrdering(B), FiniteSubsetsOf(B))
  BY FS_StrictSubsetOrderingWellFounded
<1>3. PICK U \in T : \A V \in T : ~(<<V, U>> \in StrictSubsetOrdering(B))
  BY <1>1, <1>2, WFMin
<1>4. ASSUME NEW V \in T, V \subseteq U, V # U PROVE FALSE
  <2>1. <<V, U>> \in StrictSubsetOrdering(B)
    BY <1>4 DEF StrictSubsetOrdering
  <2> QED BY <1>3, <2>1
<1> QED BY <1>4

LEMMA SmallestNumber ==
  ASSUME NEW B \in SUBSET Nat, B # {}
  PROVE  \E m \in B : \A k \in B : m <= k
<1> DEFINE T == {0..m : m \in B}
<1>1. T # {} /\ \A U \in T : IsFiniteSet(U)
  <2>1. \A m \in B : IsFiniteSet(0..m)
    BY FS_Interval
  <2> QED BY <2>1
<1>2. PICK U \in T : \A V \in T : V \subseteq U => V = U
  <2> HIDE DEF T
  <2> QED BY <1>1, SmallestSet
<1>3. PICK m \in B : U = 0..m
  OBVIOUS
<1>4. ASSUME NEW k \in B, ~(m <= k) PROVE FALSE
  <2>1. 0..k \subseteq 0..m /\ m \in 0..m /\ m \notin 0..k
    BY <1>4
  <2> QED BY <1>2, <1>3, <2>1
<1> QED BY <1>4

\* Of finitely many, one has the greatest number.
LEMMA HasGreatest ==
  ASSUME NEW S, IsFiniteSet(S), S # {}, NEW f \in [S -> Nat]
  PROVE  \E n \in S : \A m \in S : f[m] <= f[n]
<1> DEFINE Above(n) == {m \in S : f[m] > f[n]}
           T == {Above(n) : n \in S}
<1>1. T # {} /\ \A U \in T : IsFiniteSet(U)
  <2>1. \A n \in S : Above(n) \in SUBSET S
    OBVIOUS
  <2>2. \A n \in S : IsFiniteSet(Above(n))
    <3> HIDE DEF Above
    <3> QED BY <2>1, FS_Subset
  <2> HIDE DEF Above
  <2> QED BY <2>2
<1>2. PICK U \in T : \A V \in T : V \subseteq U => V = U
  <2> HIDE DEF T
  <2> QED BY <1>1, SmallestSet
<1>3. PICK n \in S : U = Above(n)
  OBVIOUS
<1>4. ASSUME NEW m \in S, ~(f[m] <= f[n]) PROVE FALSE
  <2>1. Above(m) \in T /\ m \in Above(n) /\ m \notin Above(m)
    BY <1>4
  <2>2. Above(m) \subseteq Above(n)
    BY <1>4
  <2> QED BY <1>2, <1>3, <2>1, <2>2
<1> QED BY <1>4

\* Every set of a graph's nodes has one with no predecessor in the set.
LEMMA HasSource ==
  ASSUME NEW N, NEW E, Acyclic(N, E),
         NEW S \in SUBSET N, S # {}, IsFiniteSet(S)
  PROVE  \E n \in S : \A m \in S : <<m, n>> \notin E
<1> DEFINE Sourceless(U) == \A n \in U : \E m \in U : <<m, n>> \in E
           T == {U \in SUBSET S : U # {} /\ Sourceless(U)}
<1> SUFFICES ASSUME Sourceless(S) PROVE FALSE
  OBVIOUS
<1>1. T # {} /\ \A U \in T : IsFiniteSet(U)
  BY FS_Subset
<1>2. PICK U \in T : \A V \in T : V \subseteq U => V = U
  <2> HIDE DEF T
  <2> QED BY <1>1, SmallestSet
<1>3. PICK n \in U : \A m \in U : <<n, m>> \notin E
  BY DEF Acyclic
<1>4. U \ {n} \notin T
  BY <1>2, <1>3
<1>5. U # {n}
  BY <1>3
<1>6. PICK s \in U \ {n} : \A m \in U \ {n} : <<m, s>> \notin E
  BY <1>4, <1>5
<1>7. PICK m \in U : <<m, s>> \in E
  OBVIOUS
<1> QED BY <1>3, <1>6, <1>7

-----------------------------------------------------------------------------
(* The search finds what is reached.                                       *)

SearchStart(s) == [seen |-> {s}, stack |-> {s}]
Turn(E, st) == IF st.stack = {} THEN st ELSE SearchStep(E, st)

\* The states that the first n turns go through.
Turns(E, s, n, f) ==
  f = [k \in 0..n |-> IF k = 0 THEN SearchStart(s) ELSE Turn(E, f[k - 1])]

LEMMA TurnsExist ==
  ASSUME NEW E, NEW s, NEW n \in Nat
  PROVE  \E f : Turns(E, s, n, f)
<1> DEFINE B == {k \in Nat : ~\E f : Turns(E, s, k, f)}
<1> SUFFICES ASSUME B # {} PROVE FALSE
  OBVIOUS
<1>1. PICK m \in B : \A k \in B : m <= k
  BY SmallestNumber
<1>2. CASE m = 0
  <2> DEFINE f == [k \in 0..0 |-> SearchStart(s)]
  <2>1. f = [k \in 0..0 |-> IF k = 0 THEN SearchStart(s) ELSE Turn(E, f[k - 1])]
    OBVIOUS
  <2>2. Turns(E, s, 0, f)
    BY <2>1 DEF Turns
  <2> QED BY <1>2, <2>2
<1>3. CASE m # 0
  <2>1. m - 1 \in Nat /\ m - 1 \notin B
    BY <1>1, <1>3
  <2>2. PICK f : Turns(E, s, m - 1, f)
    BY <2>1
  <2> DEFINE g == [k \in 0..m |-> IF k = m THEN Turn(E, f[m - 1]) ELSE f[k]]
             h == [k \in 0..m |-> IF k = 0 THEN SearchStart(s) ELSE Turn(E, g[k - 1])]
  <2>3. \A k \in 0..(m - 1) : g[k] = f[k]
    BY <2>1
  <2>4. \A k \in 0..(m - 1) : f[k] = IF k = 0 THEN SearchStart(s) ELSE Turn(E, f[k - 1])
    BY <2>2 DEF Turns
  <2>5. ASSUME NEW k \in 0..m PROVE g[k] = h[k]
    <3>1. CASE k = m
      BY <1>3, <2>1, <2>3, <3>1
    <3>2. CASE k # m /\ k = 0
      BY <2>1, <2>3, <2>4, <3>2
    <3>3. CASE k # m /\ k # 0
      <4>1. k \in 0..(m - 1) /\ k - 1 \in 0..(m - 1)
        BY <3>3
      <4>2. g[k] = Turn(E, f[k - 1]) /\ g[k - 1] = f[k - 1]
        BY <2>3, <2>4, <3>3, <4>1
      <4> QED BY <3>3, <4>2
    <3> QED BY <3>1, <3>2, <3>3
  <2>6. g = h
    BY <2>5
  <2>7. Turns(E, s, m, g)
    BY <2>6 DEF Turns
  <2> QED BY <2>7
<1> QED BY <1>2, <1>3

\* What is seen is reached, and what has been walked from has its successors
\* seen; k nodes have been walked from, or all there are.
SearchSound(N, E, s, st) ==
  /\ s \in st.seen /\ st.stack \subseteq st.seen /\ st.seen \subseteq Reach(N, E, s)
  /\ \A e \in E : e[1] \in st.seen \ st.stack => e[2] \in st.seen
Walked(st, k) == Cardinality(st.seen \ st.stack) = k \/ st.stack = {}

LEMMA SearchStarts ==
  ASSUME NEW N, NEW E, NEW s \in N
  PROVE  SearchSound(N, E, s, SearchStart(s)) /\ Walked(SearchStart(s), 0)
<1>1. s \in Reach(N, E, s)
  BY DEF Reach
<1>2. Cardinality({s} \ {s}) = 0
  BY FS_EmptySet
<1> QED BY <1>1, <1>2 DEF SearchSound, SearchStart, Walked

LEMMA TurnKeeps ==
  ASSUME NEW N, IsFiniteSet(N), NEW E \in SUBSET (N \X N), NEW s \in N,
         NEW st, SearchSound(N, E, s, st), NEW k \in Nat, Walked(st, k)
  PROVE  SearchSound(N, E, s, Turn(E, st)) /\ Walked(Turn(E, st), k + 1)
<1>1. CASE st.stack = {}
  BY <1>1 DEF Turn, Walked
<1>2. CASE st.stack # {}
  <2> DEFINE node == CHOOSE n \in st.stack : TRUE
             next == {e[2] : e \in {d \in E : d[1] = node}} \ st.seen
             new == SearchStep(E, st)
  <2>1. node \in st.stack /\ node \in st.seen /\ node \in Reach(N, E, s)
    BY <1>2 DEF SearchSound
  <2>2. \A n \in next : n \notin st.seen /\ \E e \in E : e[1] = node /\ e[2] = n
    OBVIOUS
  <2>3. \A e \in E : e[1] = node => e[2] \in st.seen \cup next
    OBVIOUS
  <2>4. new.seen = st.seen \cup next /\ new.stack = (st.stack \ {node}) \cup next
    BY DEF SearchStep
  <2>5. Turn(E, st) = new
    BY <1>2 DEF Turn
  <2> HIDE DEF node, next, new
  <2>6. next \subseteq Reach(N, E, s)
    <3> SUFFICES ASSUME NEW n \in next PROVE n \in Reach(N, E, s)
      OBVIOUS
    <3>1. PICK e \in E : e[1] = node /\ e[2] = n
      BY <2>2
    <3>2. n \in N
      BY <3>1
    <3> QED BY <2>1, <3>1, <3>2 DEF Reach, Closed
  <2>7. new.seen \ new.stack = (st.seen \ st.stack) \cup {node}
    BY <2>1, <2>2, <2>4 DEF SearchSound
  <2>8. SearchSound(N, E, s, new)
    <3>1. s \in new.seen /\ new.stack \subseteq new.seen /\ new.seen \subseteq Reach(N, E, s)
      BY <2>4, <2>6 DEF SearchSound
    <3>2. ASSUME NEW e \in E, e[1] \in new.seen \ new.stack PROVE e[2] \in new.seen
      BY <2>3, <2>4, <2>7, <3>2 DEF SearchSound
    <3> QED BY <3>1, <3>2 DEF SearchSound
  <2>9. Cardinality(new.seen \ new.stack) = k + 1
    <3> DEFINE W == st.seen \ st.stack
    <3>1. W \in SUBSET N
      BY DEF SearchSound, Reach
    <3>2. IsFiniteSet(W)
      BY <3>1, FS_Subset
    <3>3. node \notin W /\ Cardinality(W) = k
      BY <1>2, <2>1 DEF Walked
    <3> HIDE DEF W
    <3>4. Cardinality(W \cup {node}) = k + 1
      BY <3>2, <3>3, FS_AddElement
    <3> QED BY <2>7, <3>4 DEF W
  <2> QED BY <2>5, <2>8, <2>9 DEF Walked
<1> QED BY <1>1, <1>2

LEMMA TurnsSound ==
  ASSUME NEW N, IsFiniteSet(N), NEW E \in SUBSET (N \X N), NEW s \in N,
         NEW n \in Nat, NEW f, Turns(E, s, n, f), NEW k \in 0..n
  PROVE  SearchSound(N, E, s, f[k]) /\ Walked(f[k], k)
<1> DEFINE Good(i) == SearchSound(N, E, s, f[i]) /\ Walked(f[i], i)
           B == {i \in 0..n : ~Good(i)}
<1> SUFFICES ASSUME B # {} PROVE FALSE
  OBVIOUS
<1>1. PICK m \in B : \A i \in B : m <= i
  <2>1. B \in SUBSET Nat
    OBVIOUS
  <2> QED BY <2>1, SmallestNumber
<1>2. \A i \in 0..n : f[i] = IF i = 0 THEN SearchStart(s) ELSE Turn(E, f[i - 1])
  BY DEF Turns
<1>3. CASE m = 0
  <2>1. f[0] = SearchStart(s)
    BY <1>2
  <2> QED BY <1>1, <1>3, <2>1, SearchStarts
<1>4. CASE m # 0
  <2>1. m - 1 \in 0..n /\ m - 1 \notin B /\ m \in 0..n
    BY <1>1, <1>4
  <2>2. f[m] = Turn(E, f[m - 1])
    BY <1>2, <1>4, <2>1
  <2>3. SearchSound(N, E, s, f[m - 1]) /\ Walked(f[m - 1], m - 1)
    BY <2>1
  <2> DEFINE st == f[m - 1]
  <2>4. /\ SearchSound(N, E, s, st) /\ Walked(st, m - 1)
        /\ m - 1 \in Nat /\ (m - 1) + 1 = m /\ f[m] = Turn(E, st)
    BY <2>1, <2>2, <2>3
  <2> HIDE DEF st, B, Good
  <2>5. SearchSound(N, E, s, Turn(E, st)) /\ Walked(Turn(E, st), (m - 1) + 1)
    BY <2>4, TurnKeeps
  <2>6. SearchSound(N, E, s, f[m]) /\ Walked(f[m], m)
    BY <2>4, <2>5
  <2> QED BY <1>1, <2>6 DEF B, Good
<1> QED BY <1>3, <1>4

\* The search of cycle-detector, cross-plan-cycle-detector and programme-order
\* ends with the stack empty and has then seen just what is reached from where
\* it started.
THEOREM SearchIsReach ==
  ASSUME NEW N, IsFiniteSet(N), NEW E \in SUBSET (N \X N), NEW s \in N
  PROVE  Search(N, E, s) = Reach(N, E, s)
<1> DEFINE C == Cardinality(N)
           IsTurns(f) == f = [k \in 0..C |->
             IF k = 0 THEN [seen |-> {s}, stack |-> {s}]
             ELSE IF f[k - 1].stack = {} THEN f[k - 1]
             ELSE SearchStep(E, f[k - 1])]
           turns == CHOOSE f : IsTurns(f)
<1>1. Search(N, E, s) = turns[C].seen
  BY DEF Search
<1>2. \A f : IsTurns(f) <=> Turns(E, s, C, f)
  BY DEF Turns, Turn, SearchStart
<1>3. C \in Nat /\ C \in 0..C
  BY FS_CardinalityType
<1>4. \E f : IsTurns(f)
  <2> HIDE DEF IsTurns, C
  <2> QED BY <1>2, <1>3, TurnsExist
<1>5. Turns(E, s, C, turns)
  <2>1. IsTurns(turns)
    BY <1>4
  <2> HIDE DEF IsTurns, turns, C
  <2> QED BY <1>2, <2>1
<1> HIDE DEF IsTurns, turns, C
<1> DEFINE st == turns[C]
<1>6. SearchSound(N, E, s, st) /\ Walked(st, C)
  BY <1>3, <1>5, TurnsSound
<1> HIDE DEF st
<1>7. st.stack = {}
  <2> DEFINE W == st.seen \ st.stack
  <2>1. W \in SUBSET N /\ st.stack \subseteq N
    BY <1>6 DEF SearchSound, Reach
  <2>2. CASE Cardinality(W) = Cardinality(N)
    <3> HIDE DEF W
    <3>1. W = N
      BY <2>1, <2>2, FS_Subset
    <3> QED BY <2>1, <3>1 DEF W
  <2> QED BY <1>6, <2>2 DEF Walked, C
<1>8. Closed(E, st.seen) /\ s \in st.seen /\ st.seen \in SUBSET N
  BY <1>6, <1>7 DEF SearchSound, Closed, Reach
<1>9. Reach(N, E, s) \subseteq st.seen
  BY <1>8, ReachInClosed
<1> QED BY <1>1, <1>6, <1>9 DEF SearchSound, st
=============================================================================
