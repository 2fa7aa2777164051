--------------------------- MODULE ResourcesProofs ---------------------------
(***************************************************************************)
(* For finitely many resources, any batches and request slots: the rows    *)
(* and requests are well typed; an assigned resource that is no group is   *)
(* never deleted; and, until a request deletes a group that it took for a  *)
(* leaf, the tree is sound: it has no cycle, nothing live is filed outside *)
(* a live group, and nothing is deeper than the cap.                       *)
(*                                                                         *)
(* SInv speaks of the rows (Soundness), of every request (Good: what it    *)
(* has read still stands, thanks to the locks it holds) and of every two   *)
(* (Apart: they do not hold the same lock).  AInv, which asks nothing of   *)
(* the tree, adds what a request has found of the assignments.  DInv adds  *)
(* how deep each batch is filed within itself, and that what was found to  *)
(* fit still does when it is written.                                      *)
(***************************************************************************)
EXTENDS Resources, DigraphProofs

\* What a request is and holds at each of its stages.
Shape(q) ==
  /\ req[q].op # "idle" => req[q].target \in Resource
  /\ req[q].op = "create" => req[q].parent \in Resource
  /\ req[q].op = "dissolve" => req[q].parent # Keep
  /\ req[q].op = "assign" => req[q].seen = "leaf"
  /\ req[q].op = "remove" /\ req[q].seen = "leaf" => req[q].branch = {req[q].target}
  /\ req[q].op = "remove" /\ req[q].at = "checked" => req[q].locks = req[q].branch
  /\ req[q].op = "assign" /\ req[q].at = "checked" => req[q].target \in req[q].locks
  /\ req[q].op \in {"create", "update", "dissolve", "restore"} /\ req[q].at = "checked" =>
       req[q].tree
  /\ req[q].op = "remove" /\ req[q].seen = "group" /\ req[q].at # "asked" => req[q].tree

\* What it has read of its target before the transaction.
Named(q) ==
  /\ req[q].op = "update" /\ req[q].current => res[req[q].target].kind = req[q].seen
  /\ req[q].op = "create" => res[req[q].target] = Blank

LiveGroup(p) == IsLive(p) /\ IsGroup(p)

\* What it has read of the tree since it holds the tree lock.
Reads(q) ==
  req[q].tree =>
    /\ req[q].op = "create" => LiveGroup(req[q].parent)
    /\ req[q].op = "update" =>
         /\ req[q].parent \in Resource =>
              LiveGroup(req[q].parent) /\ req[q].target \notin WalkUp(req[q].parent)
         /\ req[q].seen = "group" /\ req[q].kind = "leaf" => Children(req[q].target) = {}
    /\ req[q].op = "remove" =>
         /\ \A s \in LiveRes : res[s].parent \in req[q].branch => s \in req[q].branch
         /\ \A s \in req[q].branch \ {req[q].target} :
              res[s].batch # Absent /\ res[s].parent \in req[q].branch
    /\ req[q].op = "dissolve" =>
         LiveGroup(req[q].target) /\ req[q].parent = res[req[q].target].parent
    /\ req[q].op = "restore" =>
         /\ IsDead(req[q].target)
         /\ res[req[q].target].parent # NoRes => LiveGroup(res[req[q].target].parent)

Good(q) == Named(q) /\ Reads(q)

Apart(q, u) ==
  /\ ~(req[q].tree /\ req[u].tree)
  /\ req[q].locks \cap req[u].locks = {}
  /\ req[q].op = "create" => req[u].target # req[q].target

\* Rows and their parents in the same batch, the live ones among them.
Kept == {e \in Edges(Resource) :
           /\ res[e[1]].parent = e[2]
           /\ res[e[1]].batch = res[e[2]].batch
           /\ res[e[1]].batch # Absent}

\* r is filed within its batch.
Inner(r) ==
  /\ res[r].parent \in Resource
  /\ res[res[r].parent].batch = res[r].batch
  /\ IsGroup(res[r].parent)

\* A batch is one branch: all but one of it are filed within it.
BatchRooted ==
  \A r, s \in Resource :
    IsDead(r) /\ res[s].batch = res[r].batch /\ r # s => Inner(r) \/ Inner(s)

Soundness == FiledInLiveGroup /\ Acyclic(Resource, Kept) /\ BatchRooted

TInv == TypeOK /\ \A q \in Req : Shape(q)

\* What it has found of the assignments and of the row they are on, or is about
\* to do to it.
Uses(q) ==
  req[q].at = "checked" =>
    /\ req[q].op = "remove" => req[q].branch \cap assigned = {}
    /\ req[q].op = "assign" => IsGroup(req[q].target) \/ IsLive(req[q].target)
    /\ req[q].op = "dissolve" => IsGroup(req[q].target)
Secure(q) ==
  /\ req[q].op = "create" => res[req[q].target] = Blank
  /\ req[q].op = "restore" => res[req[q].target].batch # Absent
  /\ Uses(q)

AInv ==
  /\ AssignedIsThere
  /\ \A q \in Req : Secure(q)
  /\ \A q, u \in Req : q # u => Apart(q, u)

SInv ==
  /\ Soundness
  /\ \A q \in Req : Good(q)
  /\ \A q, u \in Req : q # u => Apart(q, u)

\* What r is filed under, step by step, in its batch: a walk that no deleted
\* parent ends short of the root.
Up(r) == Reach(Resource, Kept, r)

\* The way from d up to r.
Stretch(d, r) == {a \in Up(d) : r \in Up(a)}

\* r, with all that is filed below it, has room under p.
RoomUnder(p, r) ==
  \A d \in Resource :
    r \in Up(d) => Cardinality(Stretch(d, r)) + Cardinality(Up(p)) <= MaxDepth

\* What q has found to fit still does when it is filed: meanwhile its lock of the
\* tree lets in only creates at the top and deletes of leaves.
NewParent(q) == IF req[q].op = "restore" THEN res[req[q].target].parent ELSE req[q].parent
ToFile(q) ==
  /\ req[q].op \in {"create", "update", "restore"} /\ req[q].at = "checked"
  /\ req[q].op = "update" => IsLive(req[q].target)
  /\ NewParent(q) \in Resource
HasRoom(q) == ToFile(q) => RoomUnder(NewParent(q), req[q].target)

Shallow == \A r \in Resource : Cardinality(Up(r)) <= MaxDepth

DInv == Shallow /\ \A q \in Req : HasRoom(q)

\* What every step does: it keeps the types, what is assigned, and soundness
\* unless it deletes a group for a leaf.
Keeps == TInv' /\ (SInv /\ ~astray' => SInv') /\ (AInv => AInv')

-----------------------------------------------------------------------------
(* Steps of one request that change no row.                                *)

LEMMA IdleTyped ==
  /\ Idle \in Request
  /\ Idle.op = "idle" /\ Idle.at = "asked" /\ Idle.target = NoRes /\ Idle.seen = "leaf"
  /\ Idle.kind = "leaf" /\ Idle.parent = NoRes /\ Idle.current /\ ~Idle.tree
  /\ Idle.locks = {} /\ Idle.branch = {}
  BY DEF Idle, Request, Kind

LEMMA StepFields ==
  ASSUME TInv, NEW q \in Req, NEW c \in Request, req' = [req EXCEPT ![q] = c]
  PROVE  /\ req' \in [Req -> Request] /\ req'[q] = c
         /\ \A u \in Req \ {q} : req'[u] = req[u]
  BY DEF TInv, TypeOK

LEMMA ApartStays ==
  ASSUME NEW q \in Req, \A u \in Req \ {q} : req'[u] = req[u],
         \A u, v \in Req : u # v => Apart(u, v),
         \A u \in Req \ {q} : Apart(q, u)' /\ Apart(u, q)'
  PROVE  \A u, v \in Req : u # v => Apart(u, v)'
<1> SUFFICES ASSUME NEW u \in Req, NEW v \in Req, u # v PROVE Apart(u, v)'
  OBVIOUS
<1>1. CASE u # q /\ v # q
  <2>1. Apart(u, v) /\ req'[u] = req[u] /\ req'[v] = req[v]
    BY <1>1
  <2> QED BY <2>1 DEF Apart
<1> QED BY <1>1

\* A step of q that keeps the rows needs to be justified for q only.
LEMMA Moves ==
  ASSUME TInv, NEW q \in Req, UNCHANGED <<res, assigned, astray>>,
         req' \in [Req -> Request], \A u \in Req \ {q} : req'[u] = req[u],
         Shape(q)',
         SInv /\ ~astray' => Good(q)',
         AInv => Secure(q)',
         SInv \/ AInv => \A u \in Req \ {q} : Apart(q, u)' /\ Apart(u, q)'
  PROVE  Keeps
<1>1. TInv'
  <2>1. TypeOK'
    BY DEF TInv, TypeOK
  <2>2. ASSUME NEW u \in Req \ {q} PROVE Shape(u)'
    <3>1. Shape(u) /\ req'[u] = req[u]
      BY DEF TInv
    <3> QED BY <3>1 DEF Shape
  <2> QED BY <2>1, <2>2 DEF TInv
<1>2. ASSUME SInv, ~astray' PROVE SInv'
  <2>1. Soundness'
    BY <1>2 DEF SInv, Soundness, FiledInLiveGroup, Kept, BatchRooted,
                LiveRes, IsLive, IsGroup, IsDead, Inner
  <2>2. ASSUME NEW u \in Req \ {q} PROVE Good(u)'
    <3>1. Good(u) /\ req'[u] = req[u]
      BY <1>2 DEF SInv
    <3>2. Named(u)'
      BY <3>1 DEF Good, Named, IsGroup, IsLive
    <3>3. /\ \A r : LiveGroup(r)' <=> LiveGroup(r)
          /\ \A r : IsDead(r)' <=> IsDead(r)
          /\ LiveRes' = LiveRes
      BY DEF LiveGroup, IsGroup, IsLive, IsDead, LiveRes
    <3>4. /\ \A r : Children(r)' = Children(r)
          /\ \A r : WalkUp(r)' = WalkUp(r)
      BY <3>3 DEF Children, WalkUp, Filing, IsLive
    <3>5. Reads(u)'
      BY <3>1, <3>3, <3>4 DEF Good, Reads
    <3> QED BY <3>2, <3>5 DEF Good
  <2>3. \A u, v \in Req : u # v => Apart(u, v)'
    BY <1>2, ApartStays DEF SInv
  <2>4. Good(q)'
    BY <1>2
  <2> QED BY <2>1, <2>2, <2>3, <2>4 DEF SInv
<1>3. ASSUME AInv PROVE AInv'
  <2>1. AssignedIsThere'
    BY <1>3 DEF AInv, AssignedIsThere, IsGroup, IsLive
  <2>2. ASSUME NEW u \in Req \ {q} PROVE Secure(u)'
    <3>1. Secure(u) /\ req'[u] = req[u]
      BY <1>3 DEF AInv
    <3> QED BY <3>1 DEF Secure, Uses, IsGroup, IsLive
  <2>3. \A u, v \in Req : u # v => Apart(u, v)'
    BY <1>3, ApartStays DEF AInv
  <2> QED BY <1>3, <2>1, <2>2, <2>3 DEF AInv
<1> QED BY <1>1, <1>2, <1>3 DEF Keeps

LEMMA RefusedKeeps ==
  ASSUME TInv, NEW q \in Req, Refused(q)
  PROVE  Keeps
<1>1. /\ req' \in [Req -> Request] /\ req'[q] = Idle /\ UNCHANGED <<res, assigned, astray>>
      /\ \A u \in Req \ {q} : req'[u] = req[u]
  BY StepFields, IdleTyped DEF Refused, Step
<1>2. Shape(q)' /\ Good(q)' /\ Secure(q)'
  BY <1>1, IdleTyped DEF Shape, Good, Named, Reads, Secure, Uses
<1>3. ASSUME NEW u \in Req \ {q} PROVE Apart(q, u)' /\ Apart(u, q)'
  <2>1. req[u].op = "create" => req[u].target # NoRes
    BY ResourcesAssumption DEF TInv, Shape
  <2> QED BY <1>1, <2>1, IdleTyped DEF Apart
<1> QED BY <1>1, <1>2, <1>3, Moves

\* A request that begins holds nothing and has read its own row.
LEMMA Begins ==
  ASSUME TInv, NEW q \in Req, NEW c \in Request, Begin(q, c),
         c.op # "idle", c.at = "asked", ~c.tree, c.locks = {}, c.target \in Resource,
         c.op = "create" => c.parent \in Resource,
         c.op = "dissolve" => c.parent # Keep,
         c.op = "assign" => c.seen = "leaf",
         c.op = "remove" => c.branch = {c.target},
         c.op = "update" => res[c.target].kind = c.seen,
         IF c.op = "create" THEN Unused(c.target) ELSE res[c.target].batch # Absent
  PROVE  Keeps
<1>1. /\ req' \in [Req -> Request] /\ req'[q] = c /\ UNCHANGED <<res, assigned, astray>>
      /\ \A u \in Req \ {q} : req'[u] = req[u]
  BY StepFields DEF Begin
<1>2. Shape(q)'
  BY <1>1 DEF Shape
<1>3. Good(q)' /\ Secure(q)'
  BY <1>1 DEF Good, Named, Reads, Secure, Uses, Unused
<1>4. ASSUME SInv \/ AInv, NEW u \in Req \ {q} PROVE Apart(q, u)' /\ Apart(u, q)'
  <2>1. req[u].op = "create" => res[req[u].target] = Blank
    BY <1>4 DEF SInv, Good, Named, AInv, Secure
  <2>2. req[u].op = "create" => req[u].target # c.target
    BY <2>1 DEF Blank, Unused
  <2>3. c.op = "create" => req[u].target # c.target
    BY DEF Unused
  <2> QED BY <1>1, <2>2, <2>3 DEF Apart
<1> QED BY <1>1, <1>2, <1>3, <1>4, Moves

\* A request that goes on, with locks that were free.
LEMMA Advances ==
  ASSUME TInv, NEW q \in Req, NEW c \in Request, Step(q, c),
         c.op = req[q].op, c.target = req[q].target, c.seen = req[q].seen,
         c.kind = req[q].kind, c.current = req[q].current,
         c.tree => req[q].tree \/ TreeFree,
         c.locks = req[q].locks \/ LocksFree(c.locks),
         Shape(q)', Uses(q)', SInv => Reads(q)'
  PROVE  Keeps
<1>1. /\ req' \in [Req -> Request] /\ req'[q] = c /\ UNCHANGED <<res, assigned, astray>>
      /\ \A u \in Req \ {q} : req'[u] = req[u]
  BY StepFields DEF Step
<1>2. ASSUME SInv, ~astray' PROVE Good(q)'
  <2>1. Named(q)
    BY <1>2 DEF SInv, Good
  <2>2. Named(q)'
    BY <1>1, <2>1 DEF Named
  <2> QED BY <1>2, <2>2 DEF Good
<1>3. ASSUME AInv PROVE Secure(q)'
  <2>1. Secure(q)
    BY <1>3 DEF AInv
  <2> QED BY <1>1, <2>1 DEF Secure
<1>4. ASSUME SInv \/ AInv, NEW u \in Req \ {q} PROVE Apart(q, u)' /\ Apart(u, q)'
  <2>1. Apart(q, u) /\ Apart(u, q)
    BY <1>4 DEF SInv, AInv
  <2>2. c.locks \cap req[u].locks = {} /\ ~(c.tree /\ req[u].tree)
    BY <2>1 DEF Apart, LocksFree, TreeFree
  <2> QED BY <1>1, <2>1, <2>2 DEF Apart
<1> QED BY <1>1, <1>2, <1>3, <1>4, Moves

-----------------------------------------------------------------------------
(* Create and update.                                                      *)

LEMMA AskCreateKeeps ==
  ASSUME TInv, NEW q \in Req, NEW r \in Resource, NEW k \in Kind, NEW p \in Resource,
         AskCreate(q, r, k, p)
  PROVE  Keeps
<1>1. PICK c : c = [Idle EXCEPT !.op = "create", !.target = r, !.kind = k, !.parent = p]
  OBVIOUS
<1>2. /\ c \in Request /\ c.op = "create" /\ c.at = "asked" /\ c.target = r /\ c.parent = p
      /\ ~c.tree /\ c.locks = {} /\ Begin(q, c)
  BY <1>1 DEF Idle, Request, Kind, AskCreate
<1> QED BY <1>2, Begins DEF AskCreate

LEMMA CheckCreateKeeps ==
  ASSUME TInv, NEW q \in Req, CheckCreate(q)
  PROVE  Keeps
<1>1. req[q] \in Request /\ Shape(q)
  BY DEF TInv, TypeOK
<1>2. CASE ~Fits(req[q].parent, req[q].target, {})
  BY <1>2, RefusedKeeps DEF CheckCreate
<1>3. CASE Fits(req[q].parent, req[q].target, {})
  <2>1. PICK c : c = [req[q] EXCEPT !.at = "checked", !.tree = TRUE]
    OBVIOUS
  <2>2. /\ c \in Request /\ c.op = "create" /\ c.at = "checked" /\ c.tree
        /\ c.target = req[q].target /\ c.seen = req[q].seen /\ c.kind = req[q].kind
        /\ c.parent = req[q].parent /\ c.current = req[q].current /\ c.locks = req[q].locks
    BY <1>1, <2>1 DEF Request, CheckCreate
  <2>3. Step(q, c) /\ req[q].op = "create" /\ TreeFree
    BY <1>3, <2>1 DEF CheckCreate
  <2>4. req'[q] = c /\ UNCHANGED <<res, assigned, astray>>
    BY <2>2, <2>3, StepFields DEF Step
  <2>5. Shape(q)'
    BY <1>1, <2>2, <2>3, <2>4 DEF Shape
  <2>6. Uses(q)' /\ Reads(q)'
    BY <1>3, <2>2, <2>4 DEF Uses, Reads, LiveGroup, Fits, IsLive, IsGroup
  <2> QED BY <2>2, <2>3, <2>5, <2>6, Advances
<1> QED BY <1>2, <1>3

LEMMA AskUpdateKeeps ==
  ASSUME TInv, NEW q \in Req, NEW r \in Resource, NEW k \in Kind,
         NEW p \in Resource \cup {NoRes, Keep}, AskUpdate(q, r, k, p)
  PROVE  Keeps
<1>1. PICK c : c = [Idle EXCEPT !.op = "update", !.target = r, !.seen = res[r].kind,
                                !.kind = k, !.parent = p]
  OBVIOUS
<1>2. res[r].kind \in Kind /\ res[r].batch # Absent
  BY ResourcesAssumption DEF TInv, TypeOK, Row, AskUpdate, IsLive
<1>3. /\ c \in Request /\ c.op = "update" /\ c.at = "asked" /\ c.target = r /\ c.parent = p
      /\ c.seen = res[r].kind /\ c.kind = k /\ ~c.tree /\ c.locks = {} /\ Begin(q, c)
  BY <1>1, <1>2 DEF Idle, Request, AskUpdate
<1> QED BY <1>2, <1>3, Begins

LEMMA CheckUpdateKeeps ==
  ASSUME TInv, NEW q \in Req, CheckUpdate(q)
  PROVE  Keeps
<1>1. req[q] \in Request /\ Shape(q)
  BY DEF TInv, TypeOK
<1>2. CASE ~MayChange(q)
  BY <1>2, RefusedKeeps DEF CheckUpdate
<1>3. CASE MayChange(q)
  <2>1. PICK c : c = [req[q] EXCEPT !.at = "checked", !.tree = TRUE]
    OBVIOUS
  <2>2. /\ c \in Request /\ c.op = "update" /\ c.at = "checked" /\ c.tree
        /\ c.target = req[q].target /\ c.seen = req[q].seen /\ c.kind = req[q].kind
        /\ c.parent = req[q].parent /\ c.current = req[q].current /\ c.locks = req[q].locks
    BY <1>1, <2>1 DEF Request, CheckUpdate
  <2>3. Step(q, c) /\ req[q].op = "update" /\ TreeFree
    BY <1>3, <2>1 DEF CheckUpdate
  <2>4. req'[q] = c /\ UNCHANGED <<res, assigned, astray>>
    BY <2>2, <2>3, StepFields DEF Step
  <2>5. Shape(q)'
    BY <1>1, <2>2, <2>3, <2>4 DEF Shape
  <2>6. Uses(q)'
    BY <2>2, <2>4 DEF Uses
  <2>7. req[q].parent \in Resource =>
          LiveGroup(req[q].parent) /\ req[q].target \notin WalkUp(req[q].parent)
    BY <1>3 DEF MayChange, Fits, LiveGroup
  <2>8. Reads(q)'
    BY <1>3, <2>2, <2>4, <2>7 DEF Reads, MayChange, LiveGroup, IsLive, IsGroup, WalkUp,
                                  Filing, Children, LiveRes
  <2> QED BY <2>2, <2>3, <2>5, <2>6, <2>8, Advances
<1> QED BY <1>2, <1>3

LEMMA UpdateConflictKeeps ==
  ASSUME TInv, NEW q \in Req, UpdateConflict(q)
  PROVE  Keeps
  BY RefusedKeeps DEF UpdateConflict

-----------------------------------------------------------------------------
(* Delete, dissolve and restore, before they commit.                       *)

LEMMA AskRemoveKeeps ==
  ASSUME TInv, NEW q \in Req, NEW r \in Resource, AskRemove(q, r)
  PROVE  Keeps
<1>1. PICK c : c = [Idle EXCEPT !.op = "remove", !.target = r, !.seen = res[r].kind,
                                !.branch = {r}]
  OBVIOUS
<1>2. res[r].kind \in Kind /\ res[r].batch # Absent
  BY ResourcesAssumption DEF TInv, TypeOK, Row, AskRemove, IsLive
<1>3. /\ c \in Request /\ c.op = "remove" /\ c.at = "asked" /\ c.target = r
      /\ c.seen = res[r].kind /\ c.branch = {r} /\ ~c.tree /\ c.locks = {} /\ Begin(q, c)
  BY <1>1, <1>2 DEF Idle, Request, Kind, AskRemove
<1> QED BY <1>2, <1>3, Begins

\* Beneath is closed downwards, and all but its top are filed within it.
LEMMA BranchClosed ==
  ASSUME NEW r \in Resource
  PROVE  LET B == Beneath(LiveRes, r) IN
         /\ B \in SUBSET Resource
         /\ \A s \in LiveRes : res[s].parent \in B => s \in B
         /\ \A s \in B \ {r} : res[s].batch # Absent /\ res[s].parent \in B
<1> DEFINE E == {e \in Edges(Resource) : e[2] \in LiveRes /\ res[e[2]].parent = e[1]}
           B == Reach(Resource, E, r)
<1>1. B \in SUBSET Resource
  BY DEF Reach
<1>2. ASSUME NEW s \in LiveRes, res[s].parent \in B PROVE s \in B
  <2>1. s \in Resource /\ <<res[s].parent, s>> \in E
    BY <1>1, <1>2 DEF LiveRes, Edges
  <2> QED BY <1>2, <2>1 DEF Reach, Closed
<1>3. ASSUME NEW s \in B \ {r}, s \notin LiveRes \/ res[s].parent \notin B PROVE FALSE
  <2>1. B \ {s} \in SUBSET Resource /\ r \in B \ {s}
    BY <1>1, <1>3 DEF Reach
  <2>2. Closed(E, B)
    BY DEF Reach, Closed, Edges
  <2>3. Closed(E, B \ {s})
    BY <1>3, <2>2 DEF Closed
  <2> QED BY <1>3, <2>1, <2>3 DEF Reach
<1>4. \A s \in LiveRes : res[s].batch # Absent
  BY ResourcesAssumption DEF LiveRes, IsLive
<1> QED BY <1>1, <1>2, <1>3, <1>4 DEF Beneath

LEMMA ReadBranchKeeps ==
  ASSUME TInv, NEW q \in Req, ReadBranch(q)
  PROVE  Keeps
<1>1. req[q] \in Request /\ Shape(q) /\ req[q].op = "remove"
  BY DEF TInv, TypeOK, ReadBranch
<1>2. req[q].target \in Resource
  BY <1>1 DEF Shape
<1>3. PICK B : B = Beneath(LiveRes, req[q].target)
  OBVIOUS
<1>4. /\ B \in SUBSET Resource
      /\ \A s \in LiveRes : res[s].parent \in B => s \in B
      /\ \A s \in B \ {req[q].target} : res[s].batch # Absent /\ res[s].parent \in B
  BY <1>2, <1>3, BranchClosed
<1>5. PICK c : c = [req[q] EXCEPT !.at = "branch", !.tree = TRUE, !.branch = B]
  OBVIOUS
<1>6. /\ c \in Request /\ c.op = "remove" /\ c.at = "branch" /\ c.tree /\ c.seen = "group"
      /\ c.target = req[q].target /\ c.seen = req[q].seen /\ c.kind = req[q].kind
      /\ c.current = req[q].current /\ c.locks = req[q].locks /\ c.branch = B
  BY <1>1, <1>4, <1>5 DEF Request, ReadBranch
<1>7. Step(q, c) /\ TreeFree
  BY <1>3, <1>5 DEF ReadBranch
<1>8. req'[q] = c /\ UNCHANGED <<res, assigned, astray>>
  BY <1>6, <1>7, StepFields DEF Step
<1>9. Shape(q)'
  BY <1>1, <1>2, <1>6, <1>8 DEF Shape
<1>10. Uses(q)' /\ Reads(q)'
  BY <1>4, <1>6, <1>8 DEF Uses, Reads, LiveRes, IsLive
<1> QED BY <1>1, <1>6, <1>7, <1>9, <1>10, Advances

LEMMA LockBranchKeeps ==
  ASSUME TInv, NEW q \in Req, LockBranch(q)
  PROVE  Keeps
<1>1. req[q] \in Request /\ Shape(q) /\ req[q].op = "remove"
  BY DEF TInv, TypeOK, LockBranch
<1>2. CASE InUse(q)
  BY <1>2, RefusedKeeps DEF LockBranch
<1>3. CASE ~InUse(q)
  <2>1. PICK c : c = [req[q] EXCEPT !.at = "checked", !.locks = req[q].branch]
    OBVIOUS
  <2>2. /\ c \in Request /\ c.op = "remove" /\ c.at = "checked" /\ c.tree = req[q].tree
        /\ c.target = req[q].target /\ c.seen = req[q].seen /\ c.kind = req[q].kind
        /\ c.current = req[q].current /\ c.locks = req[q].branch /\ c.branch = req[q].branch
    BY <1>1, <2>1 DEF Request
  <2>3. Step(q, c) /\ LocksFree(c.locks)
    BY <1>3, <2>1, <2>2 DEF LockBranch
  <2>4. req'[q] = c /\ UNCHANGED <<res, assigned, astray>>
    BY <2>2, <2>3, StepFields DEF Step
  <2>5. Shape(q)'
    BY <1>1, <2>2, <2>4 DEF Shape, LockBranch
  <2>6. Uses(q)'
    BY <1>3, <2>2, <2>4 DEF Uses, InUse
  <2>7. ASSUME SInv PROVE Reads(q)'
    <3>1. Reads(q)
      BY <2>7 DEF SInv, Good
    <3> QED BY <1>1, <2>2, <2>4, <3>1 DEF Reads, LiveRes, IsLive
  <2> QED BY <1>1, <2>2, <2>3, <2>5, <2>7, <2>6, Advances
<1> QED BY <1>2, <1>3

LEMMA AskDissolveKeeps ==
  ASSUME TInv, NEW q \in Req, NEW r \in Resource, AskDissolve(q, r)
  PROVE  Keeps
<1>1. PICK c : c = [Idle EXCEPT !.op = "dissolve", !.target = r, !.seen = "group"]
  OBVIOUS
<1>2. /\ c \in Request /\ c.op = "dissolve" /\ c.at = "asked" /\ c.target = r
      /\ c.parent = NoRes /\ ~c.tree /\ c.locks = {} /\ Begin(q, c)
  BY <1>1 DEF Idle, Request, Kind, AskDissolve
<1>3. res[r].batch # Absent /\ NoRes # Keep
  BY ResourcesAssumption DEF AskDissolve, IsLive
<1> QED BY <1>2, <1>3, Begins

LEMMA CheckDissolveKeeps ==
  ASSUME TInv, NEW q \in Req, CheckDissolve(q)
  PROVE  Keeps
<1>1. req[q] \in Request /\ Shape(q) /\ req[q].op = "dissolve" /\ TreeFree
  BY DEF TInv, TypeOK, CheckDissolve
<1>2. CASE ~LiveGroup(req[q].target)
  BY <1>2, RefusedKeeps DEF CheckDissolve, LiveGroup
<1>3. CASE LiveGroup(req[q].target)
  <2>1. PICK c : c = [req[q] EXCEPT !.at = "checked", !.tree = TRUE,
                                    !.parent = res[req[q].target].parent]
    OBVIOUS
  <2>2. req[q].target \in Resource
    BY <1>1 DEF Shape
  <2>3. res[req[q].target].parent \in Resource \cup {NoRes}
    BY <2>2 DEF TInv, TypeOK, Row
  <2>4. /\ c \in Request /\ c.op = "dissolve" /\ c.at = "checked" /\ c.tree
        /\ c.target = req[q].target /\ c.seen = req[q].seen /\ c.kind = req[q].kind
        /\ c.current = req[q].current /\ c.locks = req[q].locks
        /\ c.parent = res[req[q].target].parent
    BY <1>1, <2>1, <2>3 DEF Request
  <2>5. Step(q, c)
    BY <1>3, <2>1 DEF CheckDissolve, LiveGroup
  <2>6. req'[q] = c /\ UNCHANGED <<res, assigned, astray>>
    BY <2>4, <2>5, StepFields DEF Step
  <2>7. Shape(q)'
    BY <2>2, <2>3, <2>4, <2>6, ResourcesAssumption DEF Shape
  <2>8. Uses(q)' /\ Reads(q)'
    BY <1>3, <2>4, <2>6 DEF Uses, Reads, LiveGroup, IsLive, IsGroup
  <2> QED BY <1>1, <2>4, <2>5, <2>7, <2>8, Advances
<1> QED BY <1>2, <1>3

LEMMA AskRestoreKeeps ==
  ASSUME TInv, NEW q \in Req, NEW r \in Resource, AskRestore(q, r)
  PROVE  Keeps
<1>1. PICK c : c = [Idle EXCEPT !.op = "restore", !.target = r]
  OBVIOUS
<1>2. /\ c \in Request /\ c.op = "restore" /\ c.at = "asked" /\ c.target = r
      /\ ~c.tree /\ c.locks = {} /\ Begin(q, c)
  BY <1>1 DEF Idle, Request, Kind, AskRestore
<1>3. res[r].batch # Absent
  BY ResourcesAssumption DEF AskRestore, IsDead
<1> QED BY <1>2, <1>3, Begins

LEMMA CheckRestoreKeeps ==
  ASSUME TInv, NEW q \in Req, CheckRestore(q)
  PROVE  Keeps
<1>1. req[q] \in Request /\ Shape(q) /\ req[q].op = "restore" /\ TreeFree
  BY DEF TInv, TypeOK, CheckRestore
<1> DEFINE r == req[q].target
<1>2. CASE ~(IsDead(r) /\ Returnable(r))
  BY <1>2, RefusedKeeps DEF CheckRestore
<1>3. CASE IsDead(r) /\ Returnable(r)
  <2>1. PICK c : c = [req[q] EXCEPT !.at = "checked", !.tree = TRUE]
    OBVIOUS
  <2>2. /\ c \in Request /\ c.op = "restore" /\ c.at = "checked" /\ c.tree
        /\ c.target = req[q].target /\ c.seen = req[q].seen /\ c.kind = req[q].kind
        /\ c.current = req[q].current /\ c.locks = req[q].locks
    BY <1>1, <2>1 DEF Request
  <2>3. Step(q, c)
    BY <1>3, <2>1 DEF CheckRestore
  <2>4. req'[q] = c /\ UNCHANGED <<res, assigned, astray>>
    BY <2>2, <2>3, StepFields DEF Step
  <2>5. Shape(q)'
    BY <1>1, <2>2, <2>4 DEF Shape
  <2>6. res[r].parent # NoRes => LiveGroup(res[r].parent)
    BY <1>3 DEF Returnable, Fits, LiveGroup
  <2>7. Uses(q)' /\ Reads(q)'
    BY <1>3, <2>2, <2>4, <2>6 DEF Uses, Reads, LiveGroup, IsLive, IsGroup, IsDead
  <2> QED BY <1>1, <2>2, <2>3, <2>5, <2>7, Advances
<1> QED BY <1>2, <1>3

-----------------------------------------------------------------------------
(* Assignments, and what fails.                                            *)

LEMMA AskAssignKeeps ==
  ASSUME TInv, NEW q \in Req, NEW r \in Resource, AskAssign(q, r)
  PROVE  Keeps
<1>1. PICK c : c = [Idle EXCEPT !.op = "assign", !.target = r, !.seen = res[r].kind]
  OBVIOUS
<1>2. res[r].kind = "leaf" /\ res[r].batch # Absent
  BY ResourcesAssumption DEF TInv, TypeOK, Row, Kind, AskAssign, IsLive, IsGroup
<1>3. /\ c \in Request /\ c.op = "assign" /\ c.at = "asked" /\ c.target = r
      /\ c.seen = "leaf" /\ ~c.tree /\ c.locks = {} /\ Begin(q, c)
  BY <1>1, <1>2 DEF Idle, Request, Kind, AskAssign
<1> QED BY <1>2, <1>3, Begins

LEMMA ConfirmKeeps ==
  ASSUME TInv, NEW q \in Req, Confirm(q)
  PROVE  Keeps
<1>1. req[q] \in Request /\ Shape(q) /\ req[q].op = "assign"
  BY DEF TInv, TypeOK, Confirm
<1> DEFINE r == req[q].target
<1>2. CASE ~IsLive(r)
  BY <1>2, RefusedKeeps DEF Confirm
<1>3. CASE IsLive(r)
  <2>1. PICK c : c = [req[q] EXCEPT !.at = "checked", !.locks = {r}]
    OBVIOUS
  <2>2. r \in Resource
    BY <1>1 DEF Shape
  <2>3. /\ c \in Request /\ c.op = "assign" /\ c.at = "checked" /\ c.tree = req[q].tree
        /\ c.target = req[q].target /\ c.seen = req[q].seen /\ c.kind = req[q].kind
        /\ c.current = req[q].current /\ c.locks = {r}
    BY <1>1, <2>1, <2>2 DEF Request
  <2>4. Step(q, c) /\ LocksFree(c.locks)
    BY <1>3, <2>1, <2>3 DEF Confirm
  <2>5. req'[q] = c /\ UNCHANGED <<res, assigned, astray>>
    BY <2>3, <2>4, StepFields DEF Step
  <2>6. Shape(q)'
    BY <1>1, <2>3, <2>5 DEF Shape
  <2>7. Uses(q)' /\ Reads(q)'
    BY <1>3, <2>3, <2>5 DEF Uses, Reads, IsLive
  <2> QED BY <1>1, <2>3, <2>4, <2>6, <2>7, Advances
<1> QED BY <1>2, <1>3

LEMMA FailKeeps ==
  ASSUME TInv, NEW q \in Req, Fail(q)
  PROVE  Keeps
  BY RefusedKeeps DEF Fail

-----------------------------------------------------------------------------
(* Commits.                                                                *)

\* To the other requests a commit of q makes at most their versions old.
LEMMA CommitFields ==
  ASSUME TInv, NEW q \in Req, NEW S \in SUBSET Resource, Commit(q, S)
  PROVE  /\ req' \in [Req -> Request] /\ req'[q] = Idle
         /\ \A u \in Req \ {q} :
              /\ req'[u].op = req[u].op /\ req'[u].at = req[u].at
              /\ req'[u].target = req[u].target /\ req'[u].seen = req[u].seen
              /\ req'[u].kind = req[u].kind /\ req'[u].parent = req[u].parent
              /\ req'[u].tree = req[u].tree /\ req'[u].locks = req[u].locks
              /\ req'[u].branch = req[u].branch
              /\ req'[u].current => req[u].current /\ req[u].target \notin S
<1>1. ASSUME NEW u \in Req \ {q}
      PROVE  /\ req'[u] \in Request
             /\ req'[u].op = req[u].op /\ req'[u].at = req[u].at
             /\ req'[u].target = req[u].target /\ req'[u].seen = req[u].seen
             /\ req'[u].kind = req[u].kind /\ req'[u].parent = req[u].parent
             /\ req'[u].tree = req[u].tree /\ req'[u].locks = req[u].locks
             /\ req'[u].branch = req[u].branch
             /\ req'[u].current => req[u].current /\ req[u].target \notin S
  <2>1. req[u] \in Request
    BY DEF TInv, TypeOK
  <2>2. PICK x \in BOOLEAN : x <=> (req[u].current /\ req[u].target \notin S)
    OBVIOUS
  <2>3. (req[u].current /\ req[u].target \notin S) = x
    BY <2>1, <2>2 DEF Request
  <2>4. req'[u] = [req[u] EXCEPT !.current = x]
    BY <2>3 DEF Commit
  <2> QED BY <2>1, <2>2, <2>4 DEF Request
<1>2. req' = [u \in Req |-> req'[u]] /\ req'[q] = Idle
  BY DEF Commit
<1> QED BY <1>1, <1>2, IdleTyped

LEMMA Commits ==
  ASSUME TInv, NEW q \in Req, NEW S \in SUBSET Resource, Commit(q, S),
         res' \in [Resource -> Row], assigned' \subseteq Resource, astray' \in BOOLEAN,
         SInv /\ ~astray' => Soundness' /\ \A u \in Req \ {q} : Named(u)' /\ Reads(u)',
         AInv => AssignedIsThere' /\ \A u \in Req \ {q} : Secure(u)'
  PROVE  Keeps
<1>1. TInv'
  <2>1. TypeOK' /\ Shape(q)'
    BY CommitFields, IdleTyped DEF TypeOK, Shape
  <2>2. ASSUME NEW u \in Req \ {q} PROVE Shape(u)'
    <3>1. Shape(u)
      BY DEF TInv
    <3> QED BY <3>1, CommitFields DEF Shape
  <2> QED BY <2>1, <2>2 DEF TInv
<1>2. ASSUME \A u, v \in Req : u # v => Apart(u, v), NEW u \in Req, NEW v \in Req, u # v
      PROVE  Apart(u, v)'
  <2>1. CASE u = q
    BY <1>2, <2>1, CommitFields, IdleTyped DEF Apart
  <2>2. CASE v = q
    <3>1. req[u].op = "create" => req[u].target # NoRes
      BY ResourcesAssumption DEF TInv, Shape
    <3> QED BY <1>2, <2>2, <3>1, CommitFields, IdleTyped DEF Apart
  <2>3. CASE u # q /\ v # q
    <3>1. Apart(u, v)
      BY <1>2
    <3> QED BY <2>3, <3>1, CommitFields DEF Apart
  <2> QED BY <2>1, <2>2, <2>3
<1>3. ASSUME SInv, ~astray' PROVE SInv'
  <2>1. Good(q)'
    BY CommitFields, IdleTyped DEF Good, Named, Reads
  <2>2. \A u \in Req : Good(u)'
    BY <1>3, <2>1 DEF Good
  <2>3. \A u, v \in Req : u # v => Apart(u, v)'
    BY <1>2, <1>3 DEF SInv
  <2> QED BY <1>3, <2>2, <2>3 DEF SInv
<1>4. ASSUME AInv PROVE AInv'
  <2>1. Secure(q)'
    BY CommitFields, IdleTyped DEF Secure, Uses
  <2>2. \A u, v \in Req : u # v => Apart(u, v)'
    BY <1>2, <1>4 DEF AInv
  <2> QED BY <1>4, <2>1, <2>2 DEF AInv
<1> QED BY <1>1, <1>3, <1>4 DEF Keeps

\* While q holds the tree lock nobody else has read the tree under it.
LEMMA OthersHaveNotRead ==
  ASSUME TInv, SInv, NEW q \in Req, req[q].tree, NEW S \in SUBSET Resource, Commit(q, S)
  PROVE  \A u \in Req \ {q} : Reads(u)'
<1> SUFFICES ASSUME NEW u \in Req \ {q} PROVE Reads(u)'
  OBVIOUS
<1>1. ~req[u].tree
  BY DEF SInv, Apart
<1>2. ~req'[u].tree
  BY <1>1, CommitFields
<1> QED BY <1>2 DEF Reads

\* What another request has found of the assignments stands while its row, if
\* it is not created yet, stays so, and what is a group or live for it stays so.
Stands(u) ==
  LET t == req[u].target
  IN  /\ req[u].op = "create" => res'[t] = res[t]
      /\ req[u].op = "restore" /\ res[t].batch # Absent => res'[t].batch # Absent
      /\ req[u].at = "checked" =>
           /\ req[u].op = "remove" => req[u].branch \cap assigned' = {}
           /\ req[u].op = "assign" /\ (IsGroup(t) \/ IsLive(t)) =>
                res'[t].kind = "group" \/ res'[t].batch = Live
           /\ req[u].op = "dissolve" /\ IsGroup(t) => res'[t].kind = "group"

LEMMA SecureStands ==
  ASSUME TInv, NEW q \in Req, NEW S \in SUBSET Resource, Commit(q, S), NEW u \in Req \ {q},
         Secure(u), Stands(u)
  PROVE  Secure(u)'
<1>1. /\ req'[u].op = req[u].op /\ req'[u].at = req[u].at
      /\ req'[u].target = req[u].target /\ req'[u].branch = req[u].branch
  BY CommitFields
<1> QED BY <1>1 DEF Secure, Uses, Stands, IsGroup, IsLive

\* No live resource is its own parent.
LEMMA NoLoop ==
  ASSUME TInv, Soundness, NEW r \in Resource, IsLive(r)
  PROVE  res[r].parent # r
<1>1. PICK n \in {r} : \A m \in {r} : <<n, m>> \notin Kept
  <2>1. Acyclic(Resource, Kept)
    BY DEF Soundness
  <2>2. {r} \in SUBSET Resource /\ {r} # {}
    OBVIOUS
  <2> QED BY <2>1, <2>2 DEF Acyclic
<1> QED BY <1>1, ResourcesAssumption DEF Kept, Edges, IsLive

\* What a walk up from a live resource does not meet is not above it in its
\* batch either.
LEMMA NotAbove ==
  ASSUME NEW p \in Resource, IsLive(p), NEW r \in Resource,
         ~IsLive(r) \/ r \notin WalkUp(p)
  PROVE  r \notin Reach(Resource, Kept, p)
<1>1. Closed(Kept, LiveRes) /\ LiveRes \in SUBSET Resource /\ p \in LiveRes
  BY DEF Closed, Kept, Edges, LiveRes, IsLive
<1>2. CASE ~IsLive(r)
  BY <1>1, <1>2, ReachInClosed DEF LiveRes
<1>3. CASE r \notin WalkUp(p)
  <2>1. PICK T \in SUBSET Resource : p \in T /\ Closed(Filing, T) /\ r \notin T
    BY <1>3, UnreachedSeparated DEF WalkUp
  <2>2. Closed(Kept, T \cap LiveRes)
    <3> SUFFICES ASSUME NEW e \in Kept, e[1] \in T \cap LiveRes PROVE e[2] \in T \cap LiveRes
      BY DEF Closed
    <3>1. e \in Filing /\ e[2] \in Resource
      BY DEF Kept, Filing, LiveRes, IsLive, Edges
    <3>2. e[2] \in T
      BY <2>1, <3>1 DEF Closed
    <3>3. e[2] \in LiveRes
      BY <1>1 DEF Closed
    <3> QED BY <3>2, <3>3
  <2> QED BY <1>1, <2>1, <2>2, ReachInClosed
<1> QED BY <1>2, <1>3

\* The only edge within a batch that a create adds is that of the new row.
LEMMA CreateFiles ==
  ASSUME TInv, SInv, NEW q \in Req, Create(q)
  PROVE  \A e \in Kept' : \/ e \in Kept /\ e[1] # req[q].target
                          \/ e = <<req[q].target, req[q].parent>>
<1>1. /\ Shape(q) /\ TypeOK /\ req[q].op = "create" /\ req[q].at = "checked"
      /\ Soundness /\ Named(q)
  BY DEF TInv, SInv, Good, Create
<1>2. PICK t \in Resource, p \in Resource : t = req[q].target /\ p = req[q].parent
  BY <1>1 DEF Shape
<1>3. /\ res'[t].parent = p /\ res'[t].batch = Live
      /\ \A r \in Resource \ {t} : res'[r] = res[r]
  BY <1>1, <1>2 DEF Create, TypeOK
<1>4. res[t].batch = Absent /\ Absent # Live /\ t # NoRes
  BY <1>1, <1>2, ResourcesAssumption DEF Named, Blank
<1> SUFFICES ASSUME NEW a \in Resource, NEW c \in Resource,
                    res'[a].parent = c, res'[a].batch = res'[c].batch, res'[a].batch # Absent,
                    a # t
             PROVE  res[a].parent = c /\ res[a].batch = res[c].batch /\ res[a].batch # Absent
  BY <1>2, <1>3 DEF Kept, Edges
<1>5. c # t
  BY <1>1, <1>3, <1>4 DEF Soundness, FiledInLiveGroup, LiveRes, IsLive
<1> QED BY <1>3, <1>5

LEMMA CreateKeeps ==
  ASSUME TInv, NEW q \in Req, Create(q)
  PROVE  Keeps
<1>1. /\ req[q] \in Request /\ Shape(q) /\ TypeOK
      /\ req[q].op = "create" /\ req[q].at = "checked"
  BY DEF TInv, TypeOK, Create
<1>2. PICK t \in Resource, p \in Resource, k \in Kind :
        t = req[q].target /\ p = req[q].parent /\ k = req[q].kind
  BY <1>1 DEF Shape, Request
<1>3. res' = [res EXCEPT ![t] = [batch |-> Live, kind |-> k, parent |-> p]]
      /\ Commit(q, {}) /\ UNCHANGED <<assigned, astray>>
  BY <1>2 DEF Create
<1>4. res' \in [Resource -> Row] /\ assigned' \subseteq Resource /\ astray' \in BOOLEAN
  BY <1>1, <1>3 DEF TypeOK, Row
<1>5. /\ res'[t].batch = Live /\ res'[t].kind = k /\ res'[t].parent = p
      /\ \A r \in Resource \ {t} : res'[r] = res[r]
  BY <1>1, <1>3 DEF TypeOK
<1>6. ASSUME SInv, ~astray'
      PROVE  Soundness' /\ \A u \in Req \ {q} : Named(u)' /\ Reads(u)'
  <2>1. Soundness /\ res[t] = Blank /\ IsLive(p) /\ IsGroup(p) /\ req[q].tree
    BY <1>1, <1>2, <1>6 DEF SInv, Good, Named, Reads, Shape, LiveGroup
  <2>2. res[t].batch = Absent /\ t # p /\ Absent # Live /\ Absent \notin Batch /\ Live \notin Batch
    BY <2>1, ResourcesAssumption DEF Blank, IsLive
  <2>3. FiledInLiveGroup'
    <3> SUFFICES ASSUME NEW r \in Resource, res'[r].batch = Live, res'[r].parent # NoRes
                 PROVE  res'[res'[r].parent].batch = Live /\ res'[res'[r].parent].kind = "group"
      BY DEF FiledInLiveGroup, LiveRes, IsLive, IsGroup
    <3>1. CASE r = t
      BY <1>5, <2>1, <2>2, <3>1 DEF IsLive, IsGroup
    <3>2. CASE r # t
      <4>1. IsLive(res[r].parent) /\ IsGroup(res[r].parent) /\ res[r].parent \in Resource
        BY <1>1, <1>5, <2>1, <3>2 DEF Soundness, FiledInLiveGroup, LiveRes, IsLive, TypeOK, Row
      <4> QED BY <1>5, <2>2, <3>2, <4>1 DEF IsLive, IsGroup
    <3> QED BY <3>1, <3>2
  <2>4. Acyclic(Resource, Kept)'
    <3>1. t \notin Reach(Resource, Kept, p)
      BY <2>1, <2>2, NotAbove DEF IsLive
    <3>2. Acyclic(Resource, Kept \cup {<<t, p>>})
      BY <2>1, <3>1, AddedEdge DEF Soundness
    <3>3. Kept' \subseteq Kept \cup {<<t, p>>}
      BY <1>2, <1>6, CreateFiles
    <3> QED BY <3>2, <3>3, FewerEdges
  <2>5. BatchRooted'
    <3> SUFFICES ASSUME NEW r \in Resource, NEW s \in Resource, res'[r].batch \in Batch,
                        res'[s].batch = res'[r].batch, r # s
                 PROVE  Inner(r)' \/ Inner(s)'
      BY DEF BatchRooted, IsDead
    <3>1. r # t /\ s # t /\ res'[r] = res[r] /\ res'[s] = res[s]
      BY <1>5, <2>2
    <3>2. Inner(r) \/ Inner(s)
      BY <2>1, <3>1 DEF Soundness, BatchRooted, IsDead
    <3> QED BY <1>5, <2>2, <3>1, <3>2 DEF Inner, IsGroup
  <2>7. ASSUME NEW u \in Req \ {q} PROVE Named(u)'
    <3>1. Named(u) /\ Apart(q, u) /\ Shape(u)
      BY <1>6 DEF SInv, Good, TInv
    <3>2. req[u].target # t
      BY <1>1, <1>2, <3>1 DEF Apart
    <3>3. req[u].op # "idle" => req[u].target \in Resource \ {t}
      BY <3>1, <3>2 DEF Shape
    <3> QED BY <1>3, <1>5, <3>1, <3>3, CommitFields
            DEF Named, IsGroup, IsLive
  <2> QED BY <1>3, <1>6, <2>1, <2>3, <2>4, <2>5, <2>7, OthersHaveNotRead DEF Soundness
<1>7. ASSUME AInv
      PROVE  AssignedIsThere' /\ \A u \in Req \ {q} : Secure(u)'
  <2>1. res[t] = Blank /\ Blank.batch = Absent /\ Blank.kind = "leaf"
    BY <1>1, <1>2, <1>7 DEF AInv, Secure, Blank
  <2>2. AssignedIsThere'
    BY <1>1, <1>3, <1>5, <1>7 DEF AInv, AssignedIsThere, IsGroup, IsLive, TypeOK
  <2>3. ASSUME NEW u \in Req \ {q} PROVE Secure(u)'
    <3>1. Secure(u) /\ Apart(q, u) /\ Shape(u)
      BY <1>7 DEF AInv, TInv
    <3>2. req[u].op # "idle" => req[u].target \in Resource \ {t}
      BY <1>1, <1>2, <3>1 DEF Apart, Shape
    <3>3. Stands(u)
      BY <1>3, <1>5, <3>1, <3>2 DEF Stands, Secure, Uses, IsGroup, IsLive
    <3> QED BY <1>3, <3>1, <3>3, SecureStands
  <2> QED BY <2>2, <2>3
<1> QED BY <1>3, <1>4, <1>6, <1>7, Commits

\* An update moves its row, if it sends a parent; otherwise it adds no edge.
LEMMA UpdateFiles ==
  ASSUME TInv, NEW q \in Req, Update(q)
  PROVE  /\ req[q].parent \in Resource =>
              \A e \in Kept' : \/ e \in Kept /\ e[1] # req[q].target
                               \/ e = <<req[q].target, req[q].parent>>
         /\ req[q].parent \notin Resource => Kept' \subseteq Kept
<1>1. /\ TypeOK /\ req[q].op = "update" /\ req[q].target \in Resource
      /\ req[q].parent \in Resource \cup {NoRes, Keep}
  BY DEF TInv, TypeOK, Update, Shape, Request
<1>2. PICK t, np :
        /\ t \in Resource /\ t = req[q].target
        /\ np = IF req[q].parent = Keep THEN res[t].parent ELSE req[q].parent
  BY <1>1
<1>3. res' = [res EXCEPT ![t].kind = req[q].kind, ![t].parent = np]
  BY <1>2 DEF Update
<1>4. /\ res'[t].batch = res[t].batch /\ res'[t].parent = np
      /\ \A r \in Resource \ {t} : res'[r] = res[r]
  BY <1>1, <1>2, <1>3 DEF TypeOK, Row
<1>5. \A e \in Kept' : (e \in Kept /\ e[1] # t) \/ (e = <<t, np>> /\ e[1] = t /\ np \in Resource)
  BY <1>4 DEF Kept, Edges
<1>6. CASE req[q].parent \in Resource
  BY <1>2, <1>5, <1>6, ResourcesAssumption
<1>7. CASE req[q].parent = NoRes
  BY <1>2, <1>5, <1>7, ResourcesAssumption
<1>8. CASE req[q].parent = Keep
  <2>1. np = res[t].parent
    BY <1>2, <1>8
  <2>2. Kept' \subseteq Kept
    BY <1>4, <2>1 DEF Kept, Edges
  <2> QED BY <1>8, <2>2, ResourcesAssumption
<1> QED BY <1>1, <1>6, <1>7, <1>8

LEMMA UpdateKeeps ==
  ASSUME TInv, NEW q \in Req, Update(q)
  PROVE  Keeps
<1>1. /\ req[q] \in Request /\ Shape(q) /\ TypeOK
      /\ req[q].op = "update" /\ req[q].at = "checked" /\ req[q].current
  BY DEF TInv, TypeOK, Update
<1>2. PICK t \in Resource, np \in Resource \cup {NoRes}, k \in Kind :
        /\ t = req[q].target /\ k = req[q].kind
        /\ np = IF req[q].parent = Keep THEN res[t].parent ELSE req[q].parent
  <2>1. req[q].target \in Resource
    BY <1>1 DEF Shape
  <2>2. res[req[q].target].parent \in Resource \cup {NoRes}
    BY <1>1, <2>1 DEF TypeOK, Row
  <2> QED BY <1>1, <2>1, <2>2 DEF Request
<1>3. /\ res' = [res EXCEPT ![t].kind = k, ![t].parent = np]
      /\ IsLive(t) /\ Commit(q, {t}) /\ UNCHANGED <<assigned, astray>>
  BY <1>2 DEF Update
<1>4. /\ res' \in [Resource -> Row]
      /\ res'[t].batch = res[t].batch /\ res'[t].kind = k /\ res'[t].parent = np
      /\ \A r \in Resource \ {t} : res'[r] = res[r]
  BY <1>1, <1>3 DEF TypeOK, Row
<1>5. ASSUME SInv, ~astray'
      PROVE  Soundness' /\ \A u \in Req \ {q} : Named(u)' /\ Reads(u)'
  <2>1. /\ Soundness /\ Named(q) /\ Reads(q) /\ req[q].tree /\ res[t].kind = req[q].seen
        /\ req[q].seen \in {"leaf", "group"} /\ k \in {"leaf", "group"}
        /\ res[t].batch = Live /\ Live \notin Batch /\ Live # Absent /\ res[t].parent # t
    BY <1>1, <1>2, <1>3, <1>5, NoLoop, ResourcesAssumption
       DEF SInv, Good, Named, Shape, Request, Kind, IsLive
  \* Where t is filed now.
  <2>2. np # NoRes => np \in Resource \ {t} /\ IsLive(np) /\ IsGroup(np)
    <3>1. CASE req[q].parent = Keep
      BY <1>2, <1>3, <2>1, <3>1 DEF Soundness, FiledInLiveGroup, LiveRes
    <3>2. CASE req[q].parent # Keep
      <4>1. np = req[q].parent
        BY <1>2, <3>2
      <4>2. np # NoRes => LiveGroup(np) /\ t \notin WalkUp(np)
        BY <1>1, <1>2, <2>1, <4>1 DEF Reads
      <4>3. np \in Resource => np \in WalkUp(np)
        BY DEF WalkUp, Reach
      <4> QED BY <1>2, <4>2, <4>3 DEF LiveGroup
    <3> QED BY <3>1, <3>2
  <2>3. FiledInLiveGroup'
    <3> SUFFICES ASSUME NEW r \in Resource, res'[r].batch = Live, res'[r].parent # NoRes
                 PROVE  res'[res'[r].parent].batch = Live /\ res'[res'[r].parent].kind = "group"
      BY DEF FiledInLiveGroup, LiveRes, IsLive, IsGroup
    <3>1. CASE r = t
      BY <1>4, <2>2, <3>1 DEF IsLive, IsGroup
    <3>2. CASE r # t
      <4>1. /\ IsLive(res[r].parent) /\ IsGroup(res[r].parent) /\ res[r].parent \in Resource
            /\ r \in LiveRes /\ res'[r].parent = res[r].parent
        BY <1>1, <1>4, <2>1, <3>2 DEF Soundness, FiledInLiveGroup, LiveRes, IsLive, TypeOK, Row
      <4>2. res[r].parent = t => k = "group"
        <5> SUFFICES ASSUME res[r].parent = t, k = "leaf" PROVE FALSE
          BY <2>1
        <5>1. req[q].seen = "group" /\ r \in Children(t)
          BY <2>1, <4>1 DEF IsGroup, Children
        <5> QED BY <1>1, <1>2, <2>1, <5>1 DEF Reads
      <4> QED BY <1>4, <2>1, <4>1, <4>2 DEF IsLive, IsGroup
    <3> QED BY <3>1, <3>2
  <2>4. Acyclic(Resource, Kept)'
    <3>1. CASE req[q].parent \notin Resource
      BY <2>1, <3>1, UpdateFiles, FewerEdges DEF Soundness
    <3>2. CASE req[q].parent \in Resource
      <4>1. np = req[q].parent /\ IsLive(np) /\ t \notin WalkUp(np)
        BY <1>1, <1>2, <2>1, <3>2, ResourcesAssumption DEF Reads, LiveGroup
      <4>2. t \notin Reach(Resource, Kept, np)
        BY <3>2, <4>1, NotAbove
      <4>3. Acyclic(Resource, Kept \cup {<<t, np>>})
        BY <2>1, <3>2, <4>1, <4>2, AddedEdge DEF Soundness
      <4>4. Kept' \subseteq Kept \cup {<<t, np>>}
        BY <1>2, <3>2, <4>1, UpdateFiles
      <4> QED BY <4>3, <4>4, FewerEdges
    <3> QED BY <3>1, <3>2
  <2>5. BatchRooted'
    <3> SUFFICES ASSUME NEW r \in Resource, NEW s \in Resource, res'[r].batch \in Batch,
                        res'[s].batch = res'[r].batch, r # s
                 PROVE  Inner(r)' \/ Inner(s)'
      BY DEF BatchRooted, IsDead
    <3>1. r # t /\ s # t /\ res'[r] = res[r] /\ res'[s] = res[s]
      BY <1>4, <2>1
    <3>2. Inner(r) \/ Inner(s)
      BY <2>1, <3>1 DEF Soundness, BatchRooted, IsDead
    <3> QED BY <1>4, <2>1, <3>1, <3>2 DEF Inner, IsGroup
  <2>8. ASSUME NEW u \in Req \ {q} PROVE Named(u)'
    <3>1. Named(u) /\ Apart(q, u) /\ Shape(u)
      BY <1>5 DEF SInv, Good, TInv
    <3>2. req[u].op # "idle" => req[u].target \in Resource
      BY <3>1 DEF Shape
    <3>3. req[u].op = "update" /\ req'[u].current => req[u].target # t
      BY <1>3, CommitFields
    <3> QED BY <1>3, <1>4, <2>1, <3>1, <3>2, <3>3, CommitFields DEF Named, Blank
  <2> QED BY <1>3, <1>5, <2>1, <2>3, <2>4, <2>5, <2>8, OthersHaveNotRead DEF Soundness
<1>6. ASSUME AInv
      PROVE  AssignedIsThere' /\ \A u \in Req \ {q} : Secure(u)'
  <2>1. res[t].batch = Live /\ Live # Absent /\ req[q].tree
    BY <1>1, <1>3, ResourcesAssumption DEF IsLive, Shape
  <2>2. AssignedIsThere'
    BY <1>1, <1>3, <1>4, <1>6, <2>1 DEF AInv, AssignedIsThere, IsGroup, IsLive, TypeOK
  <2>3. ASSUME NEW u \in Req \ {q} PROVE Secure(u)'
    <3>1. Secure(u) /\ Apart(q, u) /\ Shape(u)
      BY <1>6 DEF AInv, TInv
    <3>2. req[u].op # "idle" => req[u].target \in Resource
      BY <3>1 DEF Shape
    <3>3. req[u].op = "create" => req[u].target # t
      BY <2>1, <3>1 DEF Secure, Blank
    <3>4. ~(req[u].op = "dissolve" /\ req[u].at = "checked")
      BY <2>1, <3>1 DEF Apart, Shape
    <3>5. Stands(u)
      BY <1>3, <1>4, <2>1, <3>1, <3>2, <3>3, <3>4 DEF Stands, Secure, Uses, IsGroup, IsLive
    <3> QED BY <1>3, <3>1, <3>5, SecureStands
  <2> QED BY <2>2, <2>3
<1> QED BY <1>1, <1>3, <1>4, <1>5, <1>6, Commits DEF TypeOK

\* What a request has read of the tree stands while live groups stay, what is
\* deleted stays so, and nothing new is filed.
LEMMA ReadsStand ==
  ASSUME TInv, NEW u \in Req, Reads(u),
         \A p \in Resource : LiveGroup(p) => LiveGroup(p)',
         \A s \in Resource :
           /\ IsDead(s) => IsDead(s)'
           /\ res[s].batch # Absent =>
                res'[s].batch # Absent /\ res'[s].parent = res[s].parent
           /\ res'[s].batch = Live /\ res'[s].parent \in Resource =>
                res[s].batch = Live /\ res'[s].parent = res[s].parent,
         req'[u].op = req[u].op, req'[u].target = req[u].target, req'[u].seen = req[u].seen,
         req'[u].kind = req[u].kind, req'[u].parent = req[u].parent,
         req'[u].tree = req[u].tree, req'[u].branch = req[u].branch
  PROVE  Reads(u)'
<1>1. PICK c \in Request : c = req[u]
  BY DEF TInv, TypeOK
<1>2. /\ c.op # "idle" => c.target \in Resource
      /\ c.op = "create" => c.parent \in Resource
      /\ c.branch \subseteq Resource
  BY <1>1 DEF TInv, Shape, Request
<1>3. Live \notin Batch /\ Absent \notin Batch /\ Live # Absent /\ NoRes \notin Resource
  BY ResourcesAssumption
<1>4. Filing' \subseteq Filing
  BY DEF Filing, Edges, IsLive
<1>5. \A p : WalkUp(p)' \subseteq WalkUp(p)
  BY <1>4, FewerReached DEF WalkUp
<1>6. \A r \in Resource : Children(r)' \subseteq Children(r)
  BY DEF Children, LiveRes, IsLive
<1> SUFFICES ASSUME c.tree PROVE Reads(u)'
  BY <1>1 DEF Reads
<1>7. c.op = "create" => LiveGroup(c.parent)'
  BY <1>1, <1>2 DEF Reads
<1>8. c.op = "update" =>
        /\ c.parent \in Resource => LiveGroup(c.parent)' /\ c.target \notin WalkUp(c.parent)'
        /\ c.seen = "group" /\ c.kind = "leaf" => Children(c.target)' = {}
  BY <1>1, <1>2, <1>5, <1>6 DEF Reads
<1>9. c.op = "remove" =>
        /\ \A s \in LiveRes' : res'[s].parent \in c.branch => s \in c.branch
        /\ \A s \in c.branch \ {c.target} :
             res'[s].batch # Absent /\ res'[s].parent \in c.branch
  BY <1>1, <1>2 DEF Reads, LiveRes, IsLive
<1>10. c.op = "dissolve" => LiveGroup(c.target)' /\ c.parent = res'[c.target].parent
  <2> SUFFICES ASSUME c.op = "dissolve" PROVE LiveGroup(c.target)' /\ c.parent = res'[c.target].parent
    OBVIOUS
  <2>1. c.target \in Resource /\ LiveGroup(c.target) /\ c.parent = res[c.target].parent
    BY <1>1, <1>2 DEF Reads
  <2> QED BY <1>3, <2>1 DEF LiveGroup, IsLive
<1>11. c.op = "restore" =>
         /\ IsDead(c.target)'
         /\ res'[c.target].parent # NoRes => LiveGroup(res[c.target].parent)'
         /\ res'[c.target].parent = res[c.target].parent
  <2> SUFFICES ASSUME c.op = "restore"
               PROVE  /\ IsDead(c.target)'
                      /\ res'[c.target].parent # NoRes => LiveGroup(res[c.target].parent)'
                      /\ res'[c.target].parent = res[c.target].parent
    OBVIOUS
  <2>1. PICK p : p = res[c.target].parent
    OBVIOUS
  <2>2. c.target \in Resource /\ IsDead(c.target) /\ (p # NoRes => LiveGroup(p))
    BY <1>1, <1>2, <2>1 DEF Reads
  <2>3. res'[c.target].parent = p /\ p \in Resource \cup {NoRes}
    BY <1>3, <2>1, <2>2 DEF IsDead, TInv, TypeOK, Row
  <2> QED BY <2>1, <2>2, <2>3
<1> QED BY <1>1, <1>7, <1>8, <1>9, <1>10, <1>11 DEF Reads

\* What a delete is about to stamp is closed downwards, and a branch, unless it
\* is a group that was taken for a leaf.
LEMMA BranchInHand ==
  ASSUME TInv, SInv, NEW q \in Req, req[q].op = "remove", req[q].at = "checked",
         ~DeletesGroupAsLeaf(q)
  PROVE  /\ \A s \in LiveRes : res[s].parent \in req[q].branch => s \in req[q].branch
         /\ \A s \in req[q].branch \ {req[q].target} : res[s].parent \in req[q].branch
         /\ req[q].tree \/ (req[q].branch = {req[q].target} /\ ~LiveGroup(req[q].target))
<1>1. Shape(q) /\ Reads(q) /\ req[q].seen \in {"leaf", "group"} /\ FiledInLiveGroup
  BY DEF TInv, SInv, Good, TypeOK, Request, Kind, Soundness
<1>2. CASE req[q].seen = "group"
  BY <1>1, <1>2 DEF Shape, Reads
<1>3. CASE req[q].seen = "leaf"
  <2>1. /\ req[q].branch = {req[q].target} /\ req[q].target \in Resource
        /\ ~LiveGroup(req[q].target)
    BY <1>1, <1>3 DEF Shape, DeletesGroupAsLeaf, LiveGroup
  <2> QED BY <1>1, <2>1, ResourcesAssumption DEF FiledInLiveGroup, LiveGroup
<1> QED BY <1>1, <1>2, <1>3

LEMMA RemoveFiles ==
  ASSUME TInv, NEW q \in Req, NEW b \in Batch, Remove(q, b)
  PROVE  Kept' \subseteq Kept
<1>1. TypeOK /\ Absent # Live /\ \A r \in Resource : res[r].batch # b
  BY ResourcesAssumption DEF TInv, Remove, Fresh
<1> DEFINE G == {r \in Resource : r \in req[q].branch /\ res[r].batch = Live}
<1>2. \A r \in Resource : /\ res'[r].parent = res[r].parent
                          /\ res'[r].batch = IF r \in G THEN b ELSE res[r].batch
  BY <1>1 DEF Remove, Stamped, IsLive, TypeOK, Row
<1>3. \A r \in G : res[r].batch = Live
  OBVIOUS
<1> HIDE DEF G
<1> SUFFICES ASSUME NEW a \in Resource, NEW c \in Resource,
                    res'[a].parent = c, res'[a].batch = res'[c].batch, res'[a].batch # Absent
             PROVE  res[a].parent = c /\ res[a].batch = res[c].batch /\ res[a].batch # Absent
  BY DEF Kept, Edges
<1> QED BY <1>1, <1>2, <1>3

LEMMA RemoveKeeps ==
  ASSUME TInv, NEW q \in Req, NEW b \in Batch, Remove(q, b)
  PROVE  Keeps
<1>1. /\ req[q] \in Request /\ Shape(q) /\ TypeOK
      /\ req[q].op = "remove" /\ req[q].at = "checked"
      /\ Commit(q, {}) /\ UNCHANGED assigned /\ astray' \in BOOLEAN /\ \A r \in Resource : res[r].batch # b
  BY DEF TInv, TypeOK, Remove, Fresh
<1>2. PICK B \in SUBSET Resource, t \in Resource : B = req[q].branch /\ t = req[q].target
  BY <1>1 DEF Shape, Request
<1> DEFINE G == {r \in B : res[r].batch = Live}
<1>3. /\ res' \in [Resource -> Row]
      /\ \A r \in Resource : /\ res'[r].parent = res[r].parent /\ res'[r].kind = res[r].kind
                             /\ res'[r].batch = IF r \in G THEN b ELSE res[r].batch
                             /\ r \notin G => res'[r] = res[r]
  BY <1>1, <1>2 DEF Remove, Stamped, IsLive, TypeOK, Row
<1> HIDE DEF G
<1>4. /\ Live \notin Batch /\ Absent \notin Batch /\ Live # Absent /\ NoRes \notin Resource
      /\ \A r \in G : r \in B /\ res[r].batch = Live
      /\ \A r \in B : res[r].batch = Live => r \in G
  BY ResourcesAssumption DEF G
<1>5. ASSUME SInv, ~astray'
      PROVE  Soundness' /\ \A u \in Req \ {q} : Named(u)' /\ Reads(u)'
  <2>1. /\ Soundness
        /\ \A s \in LiveRes : res[s].parent \in B => s \in B
        /\ \A s \in B \ {t} : res[s].parent \in B
        /\ req[q].tree \/ (B = {t} /\ ~LiveGroup(t))
    BY <1>1, <1>2, <1>5, BranchInHand DEF SInv, Remove
  <2>2. FiledInLiveGroup'
    <3> SUFFICES ASSUME NEW r \in Resource, res'[r].batch = Live, res'[r].parent # NoRes
                 PROVE  res'[res'[r].parent].batch = Live /\ res'[res'[r].parent].kind = "group"
      BY DEF FiledInLiveGroup, LiveRes, IsLive, IsGroup
    <3>1. r \notin G /\ r \in LiveRes
      BY <1>3, <1>4 DEF LiveRes, IsLive
    <3>2. /\ res[r].parent \in Resource /\ IsLive(res[r].parent) /\ IsGroup(res[r].parent)
          /\ res'[r].parent = res[r].parent
      BY <1>1, <1>3, <2>1, <3>1 DEF Soundness, FiledInLiveGroup, TypeOK, Row
    <3>3. res[r].parent \notin G
      BY <1>4, <2>1, <3>1 DEF LiveRes, IsLive
    <3> QED BY <1>3, <3>2, <3>3 DEF IsLive, IsGroup
  <2>3. Acyclic(Resource, Kept)'
    BY <2>1, RemoveFiles, FewerEdges DEF Soundness
  <2>4. BatchRooted'
    <3> SUFFICES ASSUME NEW r \in Resource, NEW s \in Resource, res'[r].batch \in Batch,
                        res'[s].batch = res'[r].batch, r # s
                 PROVE  Inner(r)' \/ Inner(s)'
      BY DEF BatchRooted, IsDead
    <3>1. CASE r \in G
      <4>1. s \in G
        BY <1>1, <1>3, <3>1
      <4>2. ASSUME NEW a \in G, a # t PROVE Inner(a)'
        <5>1. a \in Resource /\ res[a].parent \in B /\ res[a].parent # NoRes /\ a \in LiveRes
          BY <1>4, <2>1, <4>2 DEF LiveRes, IsLive
        <5>2. IsLive(res[a].parent) /\ IsGroup(res[a].parent)
          BY <2>1, <5>1 DEF Soundness, FiledInLiveGroup
        <5>3. res[a].parent \in G
          BY <1>4, <5>1, <5>2 DEF IsLive
        <5> QED BY <1>3, <4>2, <5>1, <5>2, <5>3 DEF Inner, IsGroup
      <4> QED BY <3>1, <4>1, <4>2
    <3>2. CASE r \notin G
      <4>1. s \notin G /\ res'[r] = res[r] /\ res'[s] = res[s]
        BY <1>1, <1>3, <3>2
      <4>2. Inner(r) \/ Inner(s)
        BY <2>1, <4>1 DEF Soundness, BatchRooted, IsDead
      <4>3. ASSUME NEW a \in {r, s}, Inner(a) PROVE Inner(a)'
        <5>1. res[a].parent \in Resource /\ res[res[a].parent].batch \in Batch /\ res'[a] = res[a]
          BY <4>1, <4>3 DEF Inner
        <5>2. res[a].parent \notin G
          BY <1>4, <5>1
        <5> QED BY <1>3, <4>3, <5>1, <5>2 DEF Inner, IsGroup
      <4> QED BY <4>2, <4>3
    <3> QED BY <3>1, <3>2
  <2>6. ASSUME NEW u \in Req \ {q} PROVE Named(u)'
    <3>1. Named(u) /\ Apart(q, u) /\ Shape(u)
      BY <1>5 DEF SInv, Good, TInv
    <3>2. req[u].op # "idle" => req[u].target \in Resource
      BY <3>1 DEF Shape
    <3>3. req[u].op = "create" => req[u].target \notin G
      BY <1>4, <3>1 DEF Named, Blank
    <3> QED BY <1>1, <1>3, <3>1, <3>2, <3>3, CommitFields DEF Named
  <2>7. \A u \in Req \ {q} : Reads(u)'
    <3>1. CASE req[q].tree
      BY <1>1, <1>5, <3>1, OthersHaveNotRead
    \* A delete of a leaf takes no tree lock: others may have read.
    <3>2. CASE B = {t} /\ ~LiveGroup(t)
      <4>1. \A p \in Resource : LiveGroup(p) => LiveGroup(p)'
        <5> SUFFICES ASSUME NEW p \in Resource, LiveGroup(p) PROVE LiveGroup(p)'
          OBVIOUS
        <5>1. p \notin G
          BY <1>4, <3>2 DEF LiveGroup
        <5> QED BY <1>3, <5>1 DEF LiveGroup, IsLive, IsGroup
      <4>2. \A s \in Resource : /\ IsDead(s) => IsDead(s)'
                                /\ res[s].batch # Absent => res'[s].batch # Absent
                                /\ res'[s].batch = Live => res[s].batch = Live
                                /\ res'[s].parent = res[s].parent
        BY <1>3, <1>4 DEF IsDead
      <4> SUFFICES ASSUME NEW u \in Req \ {q} PROVE Reads(u)'
        OBVIOUS
      <4>3. Reads(u)
        BY <1>5 DEF SInv, Good
      <4> QED BY <1>1, <4>1, <4>2, <4>3, CommitFields, ReadsStand
    <3> QED BY <2>1, <3>1, <3>2
  <2> QED BY <2>1, <2>2, <2>3, <2>4, <2>6, <2>7 DEF Soundness
<1>6. ASSUME AInv
      PROVE  AssignedIsThere' /\ \A u \in Req \ {q} : Secure(u)'
  <2>1. B \cap assigned = {} /\ req[q].locks = B
    BY <1>1, <1>2, <1>6 DEF AInv, Secure, Uses, Shape
  <2>2. AssignedIsThere'
    BY <1>1, <1>3, <1>4, <1>6, <2>1 DEF AInv, AssignedIsThere, IsGroup, IsLive, TypeOK
  <2>3. ASSUME NEW u \in Req \ {q} PROVE Secure(u)'
    <3>1. Secure(u) /\ Apart(q, u) /\ Shape(u)
      BY <1>6 DEF AInv, TInv
    <3>2. req[u].op # "idle" => req[u].target \in Resource
      BY <3>1 DEF Shape
    <3>3. req[u].op = "create" => req[u].target \notin G
      BY <1>4, <3>1 DEF Secure, Blank
    <3>4. req[u].op = "assign" /\ req[u].at = "checked" => req[u].target \notin G
      BY <1>4, <2>1, <3>1 DEF Shape, Apart
    <3>5. b # Absent
      BY <1>4
    <3>6. Stands(u)
      BY <1>1, <1>3, <3>1, <3>2, <3>3, <3>4, <3>5 DEF Stands, Secure, Uses, IsGroup, IsLive
    <3> QED BY <1>1, <3>1, <3>6, SecureStands
  <2> QED BY <2>2, <2>3
<1> QED BY <1>1, <1>3, <1>5, <1>6, Commits DEF TypeOK

\* A dissolve puts what was filed in its group where the group was filed.
LEMMA DissolveFiles ==
  ASSUME TInv, SInv, NEW q \in Req, NEW b \in Batch, Dissolve(q, b)
  PROVE  LET t == req[q].target IN
         \A n, m \in Resource :
           <<n, m>> \in Kept' =>
             /\ n # t
             /\ <<n, m>> \in Kept \/ (<<n, t>> \in Kept /\ <<t, m>> \in Kept)
<1>1. /\ Shape(q) /\ TypeOK /\ Soundness /\ Reads(q)
      /\ req[q].op = "dissolve" /\ req[q].at = "checked"
      /\ \A r \in Resource : res[r].batch # b
  BY DEF TInv, SInv, Good, Dissolve, Fresh
<1>2. PICK t \in Resource : t = req[q].target
  BY <1>1 DEF Shape
<1>3. PICK np : np = req[q].parent
  OBVIOUS
<1>4. /\ res[t].batch = Live /\ np = res[t].parent /\ np # t
      /\ Live \notin Batch /\ Live # Absent /\ NoRes \notin Resource
  BY <1>1, <1>2, <1>3, NoLoop, ResourcesAssumption DEF Reads, Shape, LiveGroup, IsLive
<1>5. np # NoRes => res[np].batch = Live
  BY <1>1, <1>2, <1>4 DEF Soundness, FiledInLiveGroup, LiveRes, IsLive
<1> DEFINE C == {s \in Resource : res[s].batch = Live /\ res[s].parent = t}
<1>6. /\ \A s \in C : res'[s].parent = np /\ res'[s].batch = Live
      /\ \A s \in Resource \ (C \cup {t}) : res'[s] = res[s]
      /\ t \notin C => res'[t].parent = np /\ res'[t].batch = b
  BY <1>1, <1>2, <1>3, <1>4 DEF Dissolve, Stamped, Children, LiveRes, IsLive, TypeOK, Row
<1>7. \A s \in Resource : s \in C <=> res[s].batch = Live /\ res[s].parent = t
  OBVIOUS
<1> HIDE DEF C
<1>8. t \notin C
  BY <1>4, <1>7
<1>9. ASSUME NEW n \in Resource, NEW m \in Resource,
             res'[n].parent = m, res'[n].batch = res'[m].batch, res'[n].batch # Absent
      PROVE  /\ n # t
             /\ <<n, m>> \in Kept \/ (<<n, t>> \in Kept /\ <<t, m>> \in Kept)
  <2>1. n # t /\ m # t
    <3>1. n = t => m = np
      BY <1>6, <1>8, <1>9
    <3>2. \A s \in Resource \ {t} : res'[s].batch = res[s].batch
      BY <1>6, <1>7
    <3>3. n # t
      BY <1>1, <1>4, <1>6, <1>8, <1>9, <3>1, <3>2
    <3>4. m = t => res'[n].batch = b
      BY <1>6, <1>8, <1>9
    <3> QED BY <1>1, <3>2, <3>3, <3>4
  <2>2. CASE n \in C
    <3>1. m = np /\ res[m].batch = Live /\ <<n, t>> \in Edges(Resource)
          /\ <<t, m>> \in Edges(Resource)
      BY <1>4, <1>5, <1>6, <1>9, <2>2 DEF Edges
    <3> QED BY <1>4, <1>7, <2>1, <2>2, <3>1 DEF Kept
  <2>3. CASE n \notin C
    <3>1. res'[n] = res[n] /\ res'[m].batch = res[m].batch
      BY <1>6, <1>7, <2>1, <2>3
    <3> QED BY <1>9, <2>1, <3>1 DEF Kept, Edges
  <2> QED BY <2>1, <2>2, <2>3
<1>10. \A n, m \in Resource :
         <<n, m>> \in Kept' =>
           /\ n # t
           /\ <<n, m>> \in Kept \/ (<<n, t>> \in Kept /\ <<t, m>> \in Kept)
  BY <1>9 DEF Kept, Edges
<1> QED BY <1>2, <1>10

LEMMA DissolveKeeps ==
  ASSUME TInv, NEW q \in Req, NEW b \in Batch, Dissolve(q, b)
  PROVE  Keeps
<1>1. /\ req[q] \in Request /\ Shape(q) /\ TypeOK
      /\ req[q].op = "dissolve" /\ req[q].at = "checked"
      /\ UNCHANGED <<assigned, astray>> /\ \A r \in Resource : res[r].batch # b
  BY DEF TInv, TypeOK, Dissolve, Fresh
<1>2. PICK t \in Resource, np \in Resource \cup {NoRes} : t = req[q].target /\ np = req[q].parent
  BY <1>1 DEF Shape, Request
<1>3. PICK C \in SUBSET Resource : C = Children(t)
  BY DEF Children, LiveRes
<1>4. /\ res' = [s \in Resource |->
                   IF s \in C THEN [res[s] EXCEPT !.parent = np]
                   ELSE IF s = t /\ IsLive(t) THEN [res[s] EXCEPT !.batch = b] ELSE res[s]]
      /\ Commit(q, C)
  BY <1>2, <1>3 DEF Dissolve, Stamped
<1>5. \A s \in Resource : s \in C <=> res[s].batch = Live /\ res[s].parent = t
  BY <1>3 DEF Children, LiveRes, IsLive
<1>6. /\ res' \in [Resource -> Row]
      /\ \A s \in Resource : res'[s].kind = res[s].kind
      /\ \A s \in C : res'[s].parent = np /\ res'[s].batch = Live
      /\ \A s \in Resource \ C : /\ res'[s].parent = res[s].parent
                                 /\ s # t => res'[s] = res[s]
      /\ IsLive(t) /\ t \notin C => res'[t].batch = b
  BY <1>1, <1>4, <1>5 DEF TypeOK, Row
<1>7. ASSUME SInv, ~astray'
      PROVE  Soundness' /\ \A u \in Req \ {q} : Named(u)' /\ Reads(u)'
  <2>1. /\ Soundness /\ req[q].tree /\ res[t].batch = Live /\ res[t].kind = "group"
        /\ np = res[t].parent /\ Live \notin Batch /\ Absent \notin Batch /\ Live # Absent
        /\ NoRes \notin Resource
    BY <1>1, <1>2, <1>7, ResourcesAssumption
       DEF SInv, Good, Reads, Shape, LiveGroup, IsLive, IsGroup
  <2>2. t \notin C /\ np # t
    BY <1>5, <2>1, NoLoop DEF IsLive
  <2>3. res'[t].batch = b /\ b # Live /\ b # Absent
    BY <1>6, <2>1, <2>2 DEF IsLive
  <2>4. np # NoRes => np \in Resource /\ res[np].batch = Live /\ res[np].kind = "group"
    BY <1>2, <2>1 DEF Soundness, FiledInLiveGroup, LiveRes, IsLive, IsGroup
  <2>5. \A s \in Resource \ {t} : res'[s].batch = res[s].batch
    BY <1>5, <1>6
  <2>6. FiledInLiveGroup'
    <3> SUFFICES ASSUME NEW r \in Resource, res'[r].batch = Live, res'[r].parent # NoRes
                 PROVE  res'[res'[r].parent].batch = Live /\ res'[res'[r].parent].kind = "group"
      BY DEF FiledInLiveGroup, LiveRes, IsLive, IsGroup
    <3>1. CASE r \in C
      BY <1>6, <2>2, <2>4, <2>5, <3>1
    <3>2. CASE r \notin C
      <4>1. res[r].batch = Live /\ res'[r].parent = res[r].parent /\ res[r].parent # t
        BY <1>5, <1>6, <2>3, <2>5, <3>2
      <4>2. /\ res[r].parent \in Resource /\ res[res[r].parent].batch = Live
            /\ res[res[r].parent].kind = "group"
        BY <1>1, <2>1, <4>1 DEF Soundness, FiledInLiveGroup, LiveRes, IsLive, IsGroup, TypeOK, Row
      <4> QED BY <1>6, <2>5, <4>1, <4>2
    <3> QED BY <3>1, <3>2
  <2>7. Acyclic(Resource, Kept)'
    <3>1. \A n, m \in Resource : <<n, m>> \in Kept' =>
            /\ n # t
            /\ \/ <<n, m>> \in Kept
               \/ <<n, t>> \in Kept /\ <<t, m>> \in Kept
      BY <1>2, <1>7, DissolveFiles
    <3> QED BY <2>1, <3>1, NodeTakenOut DEF Soundness
  <2>8. BatchRooted'
    <3> SUFFICES ASSUME NEW r \in Resource, NEW s \in Resource, res'[r].batch \in Batch,
                        res'[s].batch = res'[r].batch, r # s
                 PROVE  Inner(r)' \/ Inner(s)'
      BY DEF BatchRooted, IsDead
    <3>1. r # t /\ s # t
      BY <1>1, <2>3, <2>5
    <3>2. r \notin C /\ s \notin C
      BY <1>6, <2>1
    <3>3. res'[r] = res[r] /\ res'[s] = res[s]
      BY <1>6, <3>1, <3>2
    <3>4. Inner(r) \/ Inner(s)
      BY <2>1, <3>3 DEF Soundness, BatchRooted, IsDead
    <3>5. ASSUME NEW a \in {r, s}, Inner(a) PROVE Inner(a)'
      <4>1. res[a].parent \in Resource /\ res[res[a].parent].batch \in Batch /\ res'[a] = res[a]
        BY <3>3, <3>5 DEF Inner
      <4>2. res[a].parent # t
        BY <2>1, <4>1
      <4> QED BY <1>6, <2>5, <3>5, <4>1, <4>2 DEF Inner, IsGroup
    <3> QED BY <3>4, <3>5
  <2>10. ASSUME NEW u \in Req \ {q} PROVE Named(u)'
    <3>1. Named(u) /\ Shape(u)
      BY <1>7 DEF SInv, Good, TInv
    <3>2. req[u].op # "idle" => req[u].target \in Resource
      BY <3>1 DEF Shape
    <3>3. req[u].op = "create" => req[u].target \notin C \cup {t}
      BY <1>5, <2>1, <3>1, <3>2 DEF Named, Blank
    <3> QED BY <1>4, <1>6, <3>1, <3>2, <3>3, CommitFields DEF Named
  <2> QED BY <1>4, <1>7, <2>1, <2>6, <2>7, <2>8, <2>10, OthersHaveNotRead DEF Soundness
<1>8. ASSUME AInv
      PROVE  AssignedIsThere' /\ \A u \in Req \ {q} : Secure(u)'
  <2>1. IsGroup(t) /\ Live # Absent /\ b # Absent
    BY <1>1, <1>2, <1>8, ResourcesAssumption DEF AInv, Secure, Uses
  <2>2. \A s \in Resource : /\ res'[s].kind = res[s].kind
                            /\ s # t => res'[s].batch = res[s].batch
                            /\ res[s].batch # Absent => res'[s].batch # Absent
    <3> SUFFICES ASSUME NEW s \in Resource
                 PROVE  /\ s # t => res'[s].batch = res[s].batch
                        /\ res[s].batch # Absent => res'[s].batch # Absent
      BY <1>6
    <3>1. CASE s \in C
      BY <1>5, <1>6, <2>1, <3>1
    <3>2. CASE s \notin C
      BY <1>1, <1>4, <1>6, <2>1, <3>2 DEF TypeOK, Row
    <3> QED BY <3>1, <3>2
  <2>3. AssignedIsThere'
    BY <1>1, <1>8, <2>1, <2>2 DEF AInv, AssignedIsThere, IsGroup, IsLive, TypeOK
  <2>4. ASSUME NEW u \in Req \ {q} PROVE Secure(u)'
    <3>1. Secure(u) /\ Shape(u)
      BY <1>8 DEF AInv, TInv
    <3>2. req[u].op # "idle" => req[u].target \in Resource
      BY <3>1 DEF Shape
    <3>3. req[u].op = "create" => req[u].target \notin C \cup {t}
      BY <1>5, <2>1, <3>1, <3>2 DEF Secure, Blank, IsGroup
    <3>4. Stands(u)
      BY <1>1, <1>6, <2>1, <2>2, <3>1, <3>2, <3>3 DEF Stands, Secure, Uses, IsGroup, IsLive
    <3> QED BY <1>4, <3>1, <3>4, SecureStands
  <2> QED BY <2>3, <2>4
<1> QED BY <1>1, <1>4, <1>6, <1>7, <1>8, Commits DEF TypeOK

\* All of a deleted batch but its top are filed within it.
LEMMA BatchWithin ==
  ASSUME TInv, SInv, NEW q \in Req, req[q].op = "restore", req[q].at = "checked",
         NEW s \in BatchOf(req[q].target), s # req[q].target
  PROVE  Inner(s)
<1>1. Soundness /\ Reads(q) /\ req[q].tree /\ req[q].target \in Resource /\ s \in Resource
  BY DEF TInv, SInv, Good, Shape, BatchOf
<1>2. ~Inner(req[q].target)
  BY <1>1, ResourcesAssumption DEF Reads, LiveGroup, IsLive, IsDead, Inner
<1> QED BY <1>1, <1>2 DEF Soundness, BatchRooted, BatchOf, Reads

\* A restore files its target, if anywhere, where it was filed.
LEMMA RestoreFiles ==
  ASSUME TInv, SInv, NEW q \in Req, Restore(q)
  PROVE  LET t == req[q].target IN
         \A e \in Kept' : \/ e \in Kept /\ e[1] # t
                          \/ e = <<t, res[t].parent>> /\ res[t].parent \in Resource
<1>1. /\ Shape(q) /\ TypeOK /\ Soundness /\ Reads(q)
      /\ req[q].op = "restore" /\ req[q].at = "checked"
  BY DEF TInv, SInv, Good, Restore
<1>2. PICK t \in Resource : t = req[q].target
  BY <1>1 DEF Shape
<1>3. res[t].batch \in Batch /\ Live \notin Batch /\ Live # Absent /\ Absent \notin Batch
  BY <1>1, <1>2, ResourcesAssumption DEF Reads, Shape, IsDead
<1>4. \A s \in Resource :
        /\ res'[s].parent = res[s].parent
        /\ res'[s].batch = IF res[s].batch = res[t].batch THEN Live ELSE res[s].batch
  BY <1>1, <1>2 DEF Restore, Back, BatchOf, TypeOK, Row
<1> SUFFICES ASSUME NEW a \in Resource, NEW c \in Resource,
                    res'[a].parent = c, res'[a].batch = res'[c].batch, res'[a].batch # Absent,
                    a # t
             PROVE  res[a].parent = c /\ res[a].batch = res[c].batch /\ res[a].batch # Absent
  BY <1>2, <1>4 DEF Kept, Edges
<1>5. CASE res[a].batch = res[t].batch
  <2>1. Inner(a)
    BY <1>1, <1>2, <1>5, BatchWithin DEF BatchOf
  <2> QED BY <1>3, <1>4, <1>5, <2>1 DEF Inner
<1>6. CASE res[a].batch # res[t].batch
  <2>1. res[a].parent = c /\ res[a].batch # Absent
    BY <1>4, <1>6
  <2>2. CASE res[a].batch = Live
    BY <1>1, <2>1, <2>2, ResourcesAssumption DEF Soundness, FiledInLiveGroup, LiveRes, IsLive
  <2>3. CASE res[a].batch # Live
    BY <1>4, <1>6, <2>1, <2>3
  <2> QED BY <2>2, <2>3
<1> QED BY <1>5, <1>6

LEMMA RestoreKeeps ==
  ASSUME TInv, NEW q \in Req, Restore(q)
  PROVE  Keeps
<1>1. /\ req[q] \in Request /\ Shape(q) /\ TypeOK
      /\ req[q].op = "restore" /\ req[q].at = "checked" /\ UNCHANGED <<assigned, astray>>
  BY DEF TInv, TypeOK, Restore
<1>2. PICK t \in Resource, p \in Resource \cup {NoRes} : t = req[q].target /\ p = res[t].parent
  BY <1>1 DEF Shape, TypeOK, Row
<1>3. PICK S \in SUBSET Resource : S = BatchOf(t)
  BY DEF BatchOf
<1>4. /\ res' = [r \in Resource |-> IF r \in S THEN [res[r] EXCEPT !.batch = Live] ELSE res[r]]
      /\ Commit(q, S)
  BY <1>2, <1>3 DEF Restore, Back
<1>5. \A s \in Resource : s \in S <=> res[s].batch = res[t].batch
  BY <1>3 DEF BatchOf
<1>6. /\ res' \in [Resource -> Row]
      /\ \A s \in Resource : res'[s].kind = res[s].kind /\ res'[s].parent = res[s].parent
      /\ \A s \in S : res'[s].batch = Live
      /\ \A s \in Resource \ S : res'[s] = res[s]
  BY <1>1, <1>4 DEF TypeOK, Row
<1>7. ASSUME SInv, ~astray'
      PROVE  Soundness' /\ \A u \in Req \ {q} : Named(u)' /\ Reads(u)'
  <2>1. /\ Soundness /\ req[q].tree /\ res[t].batch \in Batch
        /\ p # NoRes => p \in Resource /\ res[p].batch = Live /\ res[p].kind = "group"
        /\ Live \notin Batch /\ Absent \notin Batch /\ Live # Absent /\ NoRes \notin Resource
    BY <1>1, <1>2, <1>7, ResourcesAssumption
       DEF SInv, Good, Reads, Shape, LiveGroup, IsLive, IsGroup, IsDead
  <2>2. \A s \in S : res[s].batch \in Batch
    BY <1>5, <2>1
  \* All of the batch but t are filed within it.
  <2>3. ASSUME NEW s \in S, s # t
        PROVE  res[s].parent \in S /\ res[res[s].parent].kind = "group"
    <3>1. Inner(s)
      BY <1>1, <1>2, <1>3, <1>7, <2>3, BatchWithin
    <3> QED BY <1>5, <2>3, <3>1 DEF Inner, IsGroup
  <2>4. ASSUME NEW r \in Resource \ S, res[r].batch = Live, res[r].parent # NoRes
        PROVE  res[r].parent \in Resource \ S /\ res[res[r].parent].batch = Live
               /\ res[res[r].parent].kind = "group"
    <3>1. IsLive(res[r].parent) /\ IsGroup(res[r].parent) /\ res[r].parent \in Resource
      BY <1>1, <2>1, <2>4 DEF Soundness, FiledInLiveGroup, LiveRes, IsLive, TypeOK, Row
    <3> QED BY <2>1, <2>2, <3>1 DEF IsLive, IsGroup
  <2>5. FiledInLiveGroup'
    <3> SUFFICES ASSUME NEW r \in Resource, res'[r].batch = Live, res'[r].parent # NoRes
                 PROVE  res'[res'[r].parent].batch = Live /\ res'[res'[r].parent].kind = "group"
      BY DEF FiledInLiveGroup, LiveRes, IsLive, IsGroup
    <3>1. CASE r = t
      <4>1. p # NoRes /\ p \notin S
        BY <1>2, <1>6, <2>1, <2>2, <3>1
      <4> QED BY <1>2, <1>6, <2>1, <3>1, <4>1
    <3>2. CASE r \in S /\ r # t
      BY <1>6, <2>3, <3>2
    <3>3. CASE r \notin S
      BY <1>6, <2>4, <3>3
    <3> QED BY <3>1, <3>2, <3>3
  <2>6. Acyclic(Resource, Kept)'
    <3>1. \A e \in Kept' : e \in Kept \/ (e = <<t, p>> /\ p # NoRes)
      BY <1>2, <1>7, <2>1, RestoreFiles
    <3>2. CASE p = NoRes
      BY <2>1, <3>1, <3>2, FewerEdges DEF Soundness
    <3>3. CASE p # NoRes
      <4>1. t \notin Reach(Resource, Kept, p)
        BY <2>1, <3>3, NotAbove DEF IsLive
      <4>2. Acyclic(Resource, Kept \cup {<<t, p>>})
        BY <2>1, <3>3, <4>1, AddedEdge DEF Soundness
      <4>3. Kept' \subseteq Kept \cup {<<t, p>>}
        BY <3>1
      <4> QED BY <4>2, <4>3, FewerEdges
    <3> QED BY <3>2, <3>3
  <2>7. BatchRooted'
    <3> SUFFICES ASSUME NEW r \in Resource, NEW s \in Resource, res'[r].batch \in Batch,
                        res'[s].batch = res'[r].batch, r # s
                 PROVE  Inner(r)' \/ Inner(s)'
      BY DEF BatchRooted, IsDead
    <3>1. r \notin S /\ s \notin S
      BY <1>6, <2>1
    <3>2. res'[r] = res[r] /\ res'[s] = res[s]
      BY <1>6, <3>1
    <3>3. Inner(r) \/ Inner(s)
      BY <2>1, <3>2 DEF Soundness, BatchRooted, IsDead
    <3>4. ASSUME NEW a \in {r, s}, Inner(a) PROVE Inner(a)'
      <4>1. /\ res[a].parent \in Resource /\ res[res[a].parent].batch = res[a].batch
            /\ a \in Resource \ S /\ res'[a] = res[a]
        BY <3>1, <3>2, <3>4 DEF Inner
      <4>2. res[a].parent \notin S
        BY <1>5, <4>1
      <4> QED BY <1>6, <3>4, <4>1, <4>2 DEF Inner, IsGroup
    <3> QED BY <3>3, <3>4
  <2>9. ASSUME NEW u \in Req \ {q} PROVE Named(u)'
    <3>1. Named(u) /\ Shape(u)
      BY <1>7 DEF SInv, Good, TInv
    <3>2. req[u].op # "idle" => req[u].target \in Resource
      BY <3>1 DEF Shape
    <3>3. req[u].op = "create" => req[u].target \notin S
      BY <2>1, <2>2, <3>1, <3>2 DEF Named, Blank
    <3> QED BY <1>4, <1>6, <3>1, <3>2, <3>3, CommitFields DEF Named
  <2> QED BY <1>4, <1>7, <2>1, <2>5, <2>6, <2>7, <2>9, OthersHaveNotRead DEF Soundness
<1>8. ASSUME AInv
      PROVE  AssignedIsThere' /\ \A u \in Req \ {q} : Secure(u)'
  <2>1. res[t].batch # Absent /\ Live # Absent
    BY <1>1, <1>2, <1>8, ResourcesAssumption DEF AInv, Secure
  <2>2. AssignedIsThere'
    BY <1>1, <1>6, <1>8 DEF AInv, AssignedIsThere, IsGroup, IsLive, TypeOK
  <2>3. ASSUME NEW u \in Req \ {q} PROVE Secure(u)'
    <3>1. Secure(u) /\ Shape(u)
      BY <1>8 DEF AInv, TInv
    <3>2. req[u].op # "idle" => req[u].target \in Resource
      BY <3>1 DEF Shape
    <3>3. req[u].op = "create" => req[u].target \notin S
      BY <1>5, <2>1, <3>1, <3>2 DEF Secure, Blank
    <3>4. Stands(u)
      BY <1>1, <1>6, <2>1, <3>1, <3>2, <3>3 DEF Stands, Secure, Uses, IsGroup, IsLive
    <3> QED BY <1>4, <3>1, <3>4, SecureStands
  <2> QED BY <2>2, <2>3
<1> QED BY <1>1, <1>4, <1>6, <1>7, <1>8, Commits DEF TypeOK

LEMMA AssignKeeps ==
  ASSUME TInv, NEW q \in Req, Assign(q)
  PROVE  Keeps
<1>1. /\ req[q] \in Request /\ Shape(q) /\ TypeOK
      /\ req[q].op = "assign" /\ req[q].at = "checked" /\ req[q].seen = "leaf"
      /\ Commit(q, {}) /\ UNCHANGED <<res, astray>>
  BY DEF TInv, TypeOK, Assign, Shape
<1>2. PICK t \in Resource : t = req[q].target
  BY <1>1 DEF Shape
<1>3. assigned' = assigned \cup {t} /\ assigned' \subseteq Resource /\ t \in req[q].locks
  BY <1>1, <1>2 DEF Assign, TypeOK, Shape
<1>4. ASSUME SInv, ~astray'
      PROVE  Soundness' /\ \A u \in Req \ {q} : Named(u)' /\ Reads(u)'
  <2>1. Soundness'
    BY <1>1, <1>4 DEF SInv, Soundness, FiledInLiveGroup, Kept, BatchRooted, LiveRes, IsLive,
                      IsGroup, IsDead, Inner
  <2>2. ASSUME NEW u \in Req \ {q} PROVE Named(u)' /\ Reads(u)'
    <3>1. Named(u) /\ Reads(u)
      BY <1>4 DEF SInv, Good
    <3>2. Named(u)'
      BY <1>1, <3>1, CommitFields DEF Named
    <3>3. /\ \A p \in Resource : LiveGroup(p) => LiveGroup(p)'
          /\ \A s \in Resource : IsDead(s) => IsDead(s)'
      BY <1>1 DEF LiveGroup, IsLive, IsGroup, IsDead
    <3>4. Reads(u)'
      BY <1>1, <3>1, <3>3, CommitFields, ReadsStand
    <3> QED BY <3>2, <3>4
  <2> QED BY <2>1, <2>2
<1>5. ASSUME AInv
      PROVE  AssignedIsThere' /\ \A u \in Req \ {q} : Secure(u)'
  <2>1. IsGroup(t) \/ IsLive(t)
    BY <1>1, <1>2, <1>5 DEF AInv, Secure, Uses
  <2>2. AssignedIsThere'
    BY <1>1, <1>3, <1>5, <2>1 DEF AInv, AssignedIsThere, IsGroup, IsLive
  <2>3. ASSUME NEW u \in Req \ {q} PROVE Secure(u)'
    <3>1. Secure(u) /\ Apart(q, u) /\ Shape(u)
      BY <1>5 DEF AInv, TInv
    <3>2. req[u].op = "remove" /\ req[u].at = "checked" => t \notin req[u].branch
      BY <1>3, <3>1 DEF Shape, Apart
    <3>3. Stands(u)
      BY <1>1, <1>3, <3>1, <3>2 DEF Stands, Secure, Uses, IsGroup, IsLive
    <3> QED BY <1>1, <3>1, <3>3, SecureStands
  <2> QED BY <2>2, <2>3
<1> QED BY <1>1, <1>3, <1>4, <1>5, Commits DEF TypeOK

-----------------------------------------------------------------------------
(* What is no request's.                                                   *)

LEMMA CreateTopFiles ==
  ASSUME TInv, SInv, NEW r \in Resource, NEW k \in Kind, CreateTop(r, k)
  PROVE  Kept' \subseteq Kept
<1>1. /\ TypeOK /\ FiledInLiveGroup /\ res[r].batch = Absent /\ Absent # Live
      /\ NoRes \notin Resource
  BY ResourcesAssumption DEF TInv, SInv, Soundness, CreateTop, Unused, Blank
<1>2. /\ res'[r].parent = NoRes /\ res'[r].batch = Live
      /\ \A s \in Resource \ {r} : res'[s] = res[s]
  BY <1>1 DEF CreateTop, TypeOK
<1> SUFFICES ASSUME NEW a \in Resource, NEW c \in Resource,
                    res'[a].parent = c, res'[a].batch = res'[c].batch, res'[a].batch # Absent
             PROVE  res[a].parent = c /\ res[a].batch = res[c].batch /\ res[a].batch # Absent
  BY DEF Kept, Edges
<1>3. a # r /\ res'[a] = res[a]
  BY <1>1, <1>2
<1>4. c # r
  BY <1>1, <1>2, <1>3 DEF FiledInLiveGroup, LiveRes, IsLive
<1> QED BY <1>2, <1>3, <1>4

LEMMA CreateTopKeeps ==
  ASSUME TInv, NEW r \in Resource, NEW k \in Kind, CreateTop(r, k)
  PROVE  Keeps
<1>1. /\ TypeOK /\ res[r] = Blank /\ \A u \in Req : req[u].target # r
      /\ UNCHANGED <<assigned, req, astray>>
  BY DEF TInv, CreateTop, Unused
<1>2. /\ res' \in [Resource -> Row]
      /\ res'[r].batch = Live /\ res'[r].kind = k /\ res'[r].parent = NoRes
      /\ \A s \in Resource \ {r} : res'[s] = res[s]
  BY <1>1 DEF TypeOK, Row, CreateTop
<1>3. TInv'
  <2>1. TypeOK'
    BY <1>1, <1>2 DEF TypeOK
  <2>2. ASSUME NEW u \in Req PROVE Shape(u)'
    <3>1. Shape(u) /\ req'[u] = req[u]
      BY <1>1 DEF TInv
    <3> QED BY <3>1 DEF Shape
  <2> QED BY <2>1, <2>2 DEF TInv
<1>4. ASSUME SInv, ~astray' PROVE SInv'
  <2>1. /\ Soundness /\ res[r].batch = Absent /\ Absent # Live /\ Absent \notin Batch
        /\ Live \notin Batch /\ NoRes \notin Resource
    BY <1>1, <1>4, ResourcesAssumption DEF SInv, Blank
  <2>2. FiledInLiveGroup'
    <3> SUFFICES ASSUME NEW s \in Resource, res'[s].batch = Live, res'[s].parent # NoRes
                 PROVE  res'[res'[s].parent].batch = Live /\ res'[res'[s].parent].kind = "group"
      BY DEF FiledInLiveGroup, LiveRes, IsLive, IsGroup
    <3>1. s # r /\ res'[s] = res[s]
      BY <1>2
    <3>2. /\ IsLive(res[s].parent) /\ IsGroup(res[s].parent) /\ res[s].parent \in Resource
      BY <1>1, <2>1, <3>1 DEF Soundness, FiledInLiveGroup, LiveRes, IsLive, TypeOK, Row
    <3>3. res[s].parent # r
      BY <2>1, <3>2 DEF IsLive
    <3> QED BY <1>2, <3>1, <3>2, <3>3 DEF IsLive, IsGroup
  <2>3. Acyclic(Resource, Kept)'
    BY <1>4, <2>1, CreateTopFiles, FewerEdges DEF Soundness
  <2>4. BatchRooted'
    <3> SUFFICES ASSUME NEW a \in Resource, NEW s \in Resource, res'[a].batch \in Batch,
                        res'[s].batch = res'[a].batch, a # s
                 PROVE  Inner(a)' \/ Inner(s)'
      BY DEF BatchRooted, IsDead
    <3>1. a # r /\ s # r /\ res'[a] = res[a] /\ res'[s] = res[s]
      BY <1>2, <2>1
    <3>2. Inner(a) \/ Inner(s)
      BY <2>1, <3>1 DEF Soundness, BatchRooted, IsDead
    <3> QED BY <1>2, <2>1, <3>1, <3>2 DEF Inner, IsGroup
  <2>5. ASSUME NEW u \in Req PROVE Good(u)'
    <3>1. Named(u) /\ Reads(u) /\ Shape(u) /\ req'[u] = req[u]
      BY <1>1, <1>4 DEF SInv, Good, TInv
    <3>2. req[u].op # "idle" => req[u].target \in Resource \ {r}
      BY <1>1, <3>1 DEF Shape
    <3>3. Named(u)'
      BY <1>1, <1>2, <3>1, <3>2 DEF Named
    <3>4. \A p \in Resource : LiveGroup(p) => LiveGroup(p)'
      BY <1>2, <2>1 DEF LiveGroup, IsLive, IsGroup
    <3>5. \A s \in Resource :
            /\ IsDead(s) => IsDead(s)'
            /\ res[s].batch # Absent =>
                 res'[s].batch # Absent /\ res'[s].parent = res[s].parent
            /\ res'[s].batch = Live /\ res'[s].parent \in Resource =>
                 res[s].batch = Live /\ res'[s].parent = res[s].parent
      BY <1>2, <2>1 DEF IsDead
    <3>6. Reads(u)'
      BY <3>1, <3>4, <3>5, ReadsStand
    <3> QED BY <3>3, <3>6 DEF Good
  <2>6. ASSUME NEW u \in Req, NEW v \in Req, u # v PROVE Apart(u, v)'
    <3>1. Apart(u, v) /\ req'[u] = req[u] /\ req'[v] = req[v]
      BY <1>1, <1>4, <2>6 DEF SInv
    <3> QED BY <3>1 DEF Apart
  <2> QED BY <2>2, <2>3, <2>4, <2>5, <2>6 DEF SInv, Soundness
<1>5. ASSUME AInv PROVE AInv'
  <2>1. AssignedIsThere'
    BY <1>1, <1>2, <1>5 DEF AInv, AssignedIsThere, IsGroup, IsLive, TypeOK
  <2>2. ASSUME NEW u \in Req PROVE Secure(u)'
    <3>1. Secure(u) /\ Shape(u) /\ req'[u] = req[u]
      BY <1>1, <1>5 DEF AInv, TInv
    <3>2. req[u].op # "idle" => req[u].target \in Resource \ {r}
      BY <1>1, <3>1 DEF Shape
    <3> QED BY <1>1, <1>2, <3>1, <3>2 DEF Secure, Uses, IsGroup, IsLive
  <2>3. ASSUME NEW u \in Req, NEW v \in Req, u # v PROVE Apart(u, v)'
    <3>1. Apart(u, v)
      BY <1>5, <2>3 DEF AInv
    <3> QED BY <1>1, <3>1 DEF Apart
  <2> QED BY <2>1, <2>2, <2>3 DEF AInv
<1> QED BY <1>3, <1>4, <1>5 DEF Keeps

LEMMA UnassignKeeps ==
  ASSUME TInv, NEW r \in Resource, Unassign(r)
  PROVE  Keeps
<1>1. assigned' \subseteq assigned /\ UNCHANGED <<res, req, astray>>
  BY DEF Unassign
<1>2. TInv'
  BY <1>1 DEF TInv, TypeOK, Shape
<1>3. ASSUME SInv PROVE SInv'
  <2>1. Soundness'
    BY <1>1, <1>3 DEF SInv, Soundness, FiledInLiveGroup, Kept, BatchRooted,
                      LiveRes, IsLive, IsGroup, IsDead, Inner
  <2>2. ASSUME NEW u \in Req PROVE Good(u)'
    <3>1. Named(u) /\ Reads(u) /\ req'[u] = req[u]
      BY <1>1, <1>3 DEF SInv, Good
    <3>2. Named(u)'
      BY <1>1, <3>1 DEF Named
    <3>3. Reads(u)'
      BY <1>1, <3>1 DEF Reads, LiveGroup, IsGroup, IsLive, IsDead, LiveRes, Children, WalkUp, Filing
    <3> QED BY <3>2, <3>3 DEF Good
  <2>3. ASSUME NEW u \in Req, NEW v \in Req, u # v PROVE Apart(u, v)'
    <3>1. Apart(u, v)
      BY <1>3, <2>3 DEF SInv
    <3> QED BY <1>1, <3>1 DEF Apart
  <2> QED BY <2>1, <2>2, <2>3 DEF SInv
<1>4. ASSUME AInv PROVE AInv'
  <2>1. AssignedIsThere'
    BY <1>1, <1>4 DEF AInv, AssignedIsThere, IsGroup, IsLive
  <2>2. ASSUME NEW u \in Req PROVE Secure(u)'
    <3>1. Secure(u)
      BY <1>4 DEF AInv
    <3> QED BY <1>1, <3>1 DEF Secure, Uses, IsGroup, IsLive
  <2>3. ASSUME NEW u \in Req, NEW v \in Req, u # v PROVE Apart(u, v)'
    <3>1. Apart(u, v)
      BY <1>4, <2>3 DEF AInv
    <3> QED BY <1>1, <3>1 DEF Apart
  <2> QED BY <2>1, <2>2, <2>3 DEF AInv
<1> QED BY <1>2, <1>3, <1>4 DEF Keeps

-----------------------------------------------------------------------------
(* How deep the tree is.                                                   *)

LEMMA Counted ==
  ASSUME NEW A \in SUBSET Resource
  PROVE  /\ IsFiniteSet(A) /\ Cardinality(A) \in Nat
         /\ \A B \in SUBSET A : IsFiniteSet(B) /\ Cardinality(B) \in Nat
                                /\ Cardinality(B) <= Cardinality(A)
<1>1. IsFiniteSet(A)
  BY ResourcesAssumption, FS_Subset
<1>2. Cardinality(A) \in Nat
  BY <1>1, FS_CardinalityType
<1>3. ASSUME NEW B \in SUBSET A
      PROVE  IsFiniteSet(B) /\ Cardinality(B) \in Nat /\ Cardinality(B) <= Cardinality(A)
  BY <1>1, FS_Subset, FS_CardinalityType
<1> QED BY <1>1, <1>2, <1>3

LEMMA UpFinite ==
  ASSUME NEW r
  PROVE  /\ Up(r) \in SUBSET Resource /\ IsFiniteSet(Up(r)) /\ Cardinality(Up(r)) \in Nat
<1>1. Up(r) \in SUBSET Resource
  BY DEF Up, Reach
<1> QED BY <1>1, Counted

LEMMA StretchFinite ==
  ASSUME NEW d, NEW r
  PROVE  /\ Stretch(d, r) \in SUBSET Resource /\ IsFiniteSet(Stretch(d, r))
         /\ Cardinality(Stretch(d, r)) \in Nat
<1>1. Stretch(d, r) \in SUBSET Resource
  BY UpFinite DEF Stretch
<1> QED BY <1>1, Counted

\* With less above it everything is as shallow as it was.
LEMMA LessAbove ==
  ASSUME \A r \in Resource : Up(r)' \subseteq Up(r)
  PROVE  /\ Shallow => Shallow'
         /\ \A p, r \in Resource : RoomUnder(p, r) => RoomUnder(p, r)'
<1>1. \A r \in Resource : Up(r)' \subseteq Up(r)
  OBVIOUS
<1>2. \A r \in Resource : /\ Cardinality(Up(r)') \in Nat /\ Cardinality(Up(r)) \in Nat
                          /\ Cardinality(Up(r)') <= Cardinality(Up(r))
  <2> SUFFICES ASSUME NEW r \in Resource
               PROVE  /\ Cardinality(Up(r)') \in Nat /\ Cardinality(Up(r)) \in Nat
                      /\ Cardinality(Up(r)') <= Cardinality(Up(r))
    OBVIOUS
  <2> DEFINE A == Up(r)
             B == Up(r)'
  <2>1. A \in SUBSET Resource /\ B \in SUBSET A
    BY <1>1, UpFinite
  <2> HIDE DEF A, B
  <2>2. Cardinality(B) \in Nat /\ Cardinality(A) \in Nat /\ Cardinality(B) <= Cardinality(A)
    BY <2>1, Counted
  <2> QED BY <2>2 DEF A, B
<1>3. Shallow => Shallow'
  <2> SUFFICES ASSUME Shallow, NEW r \in Resource PROVE Cardinality(Up(r)') <= MaxDepth
    BY DEF Shallow
  <2>1. Cardinality(Up(r)) <= MaxDepth
    BY DEF Shallow
  <2> QED BY <1>2, <2>1, ResourcesAssumption
<1>4. ASSUME NEW p \in Resource, NEW r \in Resource, RoomUnder(p, r),
             NEW d \in Resource, r \in Up(d)'
      PROVE  Cardinality(Stretch(d, r)') + Cardinality(Up(p)') <= MaxDepth
  <2> DEFINE A == Stretch(d, r)
             B == Stretch(d, r)'
  <2>1. B \in SUBSET A /\ A \in SUBSET Resource
    BY <1>1, UpFinite, StretchFinite DEF Stretch
  <2>2. Cardinality(A) + Cardinality(Up(p)) <= MaxDepth
    BY <1>1, <1>4 DEF RoomUnder
  <2> HIDE DEF A, B
  <2>3. Cardinality(B) \in Nat /\ Cardinality(A) \in Nat /\ Cardinality(B) <= Cardinality(A)
    BY <2>1, Counted
  <2>4. Cardinality(B) + Cardinality(Up(p)') <= MaxDepth
    BY <1>2, <2>2, <2>3, ResourcesAssumption
  <2> QED BY <2>4 DEF B
<1>5. \A p, r \in Resource : RoomUnder(p, r) => RoomUnder(p, r)'
  BY <1>4 DEF RoomUnder
<1> QED BY <1>3, <1>5

LEMMA ShallowStays ==
  ASSUME Kept' \subseteq Kept
  PROVE  /\ Shallow => Shallow'
         /\ \A p, r \in Resource : RoomUnder(p, r) => RoomUnder(p, r)'
<1>1. \A r \in Resource : Up(r)' \subseteq Up(r)
  BY FewerReached DEF Up
<1> QED BY <1>1, LessAbove

\* Where each node has one successor, a walk from a goes on from it.
LEMMA WalkGoesOn ==
  ASSUME NEW N, NEW E, \A e, f \in E : e[1] = f[1] => e[2] = f[2],
         NEW a \in N, NEW b \in N, <<a, b>> \in E, NEW r \in Reach(N, E, a), r # a
  PROVE  r \in Reach(N, E, b)
<1> SUFFICES ASSUME r \notin Reach(N, E, b) PROVE FALSE
  OBVIOUS
<1>1. r \in N
  BY DEF Reach
<1>2. PICK T \in SUBSET N : b \in T /\ Closed(E, T) /\ r \notin T
  BY <1>1, UnreachedSeparated
<1>3. Closed(E, T \cup {a})
  BY <1>2 DEF Closed
<1>4. T \cup {a} \in SUBSET N /\ a \in T \cup {a} /\ r \notin T \cup {a}
  BY <1>2
<1> QED BY <1>3, <1>4, ReachInClosed

LEMMA ReachCloses ==
  ASSUME NEW N, NEW E, NEW s, NEW e \in E, e[1] \in Reach(N, E, s), e[2] \in N
  PROVE  e[2] \in Reach(N, E, s)
  BY DEF Reach, Closed

LEMMA KeptFunctional ==
  /\ Kept \in SUBSET (Resource \X Resource)
  /\ \A e, f \in Kept : e[1] = f[1] => e[2] = f[2]
  BY DEF Kept, Edges

\* r is filed under p, with room for it.
LEMMA ShallowMove ==
  ASSUME Shallow, NEW r \in Resource, NEW p \in Resource, RoomUnder(p, r),
         \A e \in Kept' : (e \in Kept /\ e[1] # r) \/ e = <<r, p>>
  PROVE  Shallow'
<1> SUFFICES ASSUME NEW d \in Resource PROVE Cardinality(Up(d)') <= MaxDepth
  BY DEF Shallow
<1>1. \A x \in Resource : x \in Up(x)
  BY DEF Up, Reach
<1>2. \A x, y : \A e \in Kept : e[1] \in Up(x) => e[2] \in Up(x)
  BY KeptFunctional, ReachCloses DEF Up
<1>3. CASE r \notin Up(d)
  <2>1. Closed(Kept', Up(d))
    BY <1>2, <1>3 DEF Closed
  <2>2. Up(d)' \subseteq Up(d)
    BY <1>1, <2>1, UpFinite, ReachInClosed DEF Up
  <2> DEFINE A == Up(d)
             B == Up(d)'
  <2>3. A \in SUBSET Resource /\ B \in SUBSET A /\ Cardinality(A) <= MaxDepth
    BY <2>2, UpFinite DEF Shallow
  <2> HIDE DEF A, B
  <2>4. Cardinality(B) <= MaxDepth
    BY <2>3, Counted, ResourcesAssumption
  <2> QED BY <2>4 DEF B
<1>4. CASE r \in Up(d)
  <2> DEFINE A == Stretch(d, r)
             T == A \cup Up(p)
             B == Up(d)'
  <2>1. A \in SUBSET Resource /\ T \in SUBSET Resource /\ d \in T
    BY <1>1, <1>4, StretchFinite, UpFinite DEF Stretch
  <2>2. Closed(Kept', T)
    <3> SUFFICES ASSUME NEW e \in Kept', e[1] \in T PROVE e[2] \in T
      BY DEF Closed
    <3>1. CASE e = <<r, p>>
      BY <1>1, <3>1
    <3>2. CASE e \in Kept /\ e[1] # r /\ e[1] \in Up(p)
      BY <1>2, <3>2
    <3>3. CASE e \in Kept /\ e[1] # r /\ e[1] \in A
      <4>1. e = <<e[1], e[2]>> /\ e[1] \in Resource /\ e[2] \in Resource
        BY <3>3, KeptFunctional
      <4>2. e[2] \in Up(d) /\ r \in Up(e[1])
        BY <1>2, <3>3 DEF Stretch
      <4>3. r \in Up(e[2])
        BY <3>3, <4>1, <4>2, KeptFunctional, WalkGoesOn DEF Up
      <4> QED BY <4>2, <4>3 DEF Stretch
    <3> QED BY <3>1, <3>2, <3>3
  <2>3. B \subseteq T
    BY <2>1, <2>2, ReachInClosed DEF Up
  <2>4. Cardinality(A) + Cardinality(Up(p)) <= MaxDepth
    BY <1>4 DEF RoomUnder
  <2>5. Cardinality(T) <= Cardinality(A) + Cardinality(Up(p))
    <3>1. IsFiniteSet(A) /\ IsFiniteSet(Up(p)) /\ IsFiniteSet(A \cap Up(p))
      BY StretchFinite, UpFinite, FS_Subset
    <3>2. Cardinality(T) = Cardinality(A) + Cardinality(Up(p)) - Cardinality(A \cap Up(p))
      BY <3>1, FS_Union
    <3>3. Cardinality(A) \in Nat /\ Cardinality(Up(p)) \in Nat /\ Cardinality(A \cap Up(p)) \in Nat
      BY <3>1, FS_CardinalityType
    <3> QED BY <3>2, <3>3
  <2>6. Cardinality(A) \in Nat /\ Cardinality(Up(p)) \in Nat
    BY StretchFinite, UpFinite
  <2> HIDE DEF A, B, T
  <2>7. Cardinality(B) \in Nat /\ Cardinality(T) \in Nat /\ Cardinality(B) <= Cardinality(T)
    BY <2>1, <2>3, Counted
  <2>8. Cardinality(B) <= MaxDepth
    BY <2>4, <2>5, <2>6, <2>7, ResourcesAssumption
  <2> QED BY <2>8 DEF B
<1> QED BY <1>3, <1>4

\* What r is filed under in its batch files r below it.
LEMMA UpIsDown ==
  ASSUME NEW r \in Resource, NEW a \in Resource, r \in Up(a)
  PROVE  /\ res[a].batch = res[r].batch
         /\ a \in Beneath(BatchOf(r), r)
<1> DEFINE S == BatchOf(r)
           Down == {e \in Edges(Resource) : e[2] \in S /\ res[e[2]].parent = e[1]}
<1>1. \A e \in Kept : res[e[1]].batch = res[e[2]].batch /\ res[e[1]].parent = e[2]
  BY DEF Kept
<1>2. res[a].batch = res[r].batch
  <2> DEFINE T == {x \in Resource : res[x].batch = res[a].batch}
  <2>1. Closed(Kept, T) /\ T \in SUBSET Resource /\ a \in T
    BY <1>1, KeptFunctional DEF Closed
  <2>2. Up(a) \subseteq T
    BY <2>1, ReachInClosed DEF Up
  <2> QED BY <2>2
<1>3. a \in Reach(Resource, Down, r)
  <2> SUFFICES ASSUME a \notin Reach(Resource, Down, r) PROVE FALSE
    OBVIOUS
  <2>1. PICK T \in SUBSET Resource : r \in T /\ Closed(Down, T) /\ a \notin T
    <3> HIDE DEF Down
    <3> QED BY UnreachedSeparated
  <2> DEFINE U == {x \in Resource \ T : res[x].batch = res[r].batch}
  <2>2. ASSUME NEW e \in Kept, e[1] \in U PROVE e[2] \in U
    <3>1. e[1] \in Resource /\ e[2] \in Resource /\ e[1] \in S
      BY <2>2, KeptFunctional DEF BatchOf
    <3>2. <<e[2], e[1]>> \in Down
      BY <1>1, <3>1 DEF Edges
    <3>3. e[2] \notin T
      BY <2>1, <2>2, <3>2 DEF Closed
    <3> QED BY <1>1, <2>2, <3>1, <3>3
  <2>3. Closed(Kept, U) /\ U \in SUBSET Resource /\ a \in U
    BY <1>2, <2>1, <2>2 DEF Closed
  <2>4. Up(a) \subseteq U
    <3> HIDE DEF U
    <3> QED BY <2>3, ReachInClosed DEF Up
  <2> QED BY <2>1, <2>4
<1> QED BY <1>2, <1>3 DEF Beneath

\* What is above p in its batch is met on a walk up from it.
LEMMA UpIsMet ==
  ASSUME NEW p \in Resource, IsLive(p)
  PROVE  Up(p) \subseteq WalkUp(p)
<1>1. p \in Up(p)
  BY DEF Up, Reach
<1> SUFFICES ASSUME NEW r \in Up(p), r \notin WalkUp(p) PROVE FALSE
  OBVIOUS
<1>2. r \in Resource
  BY UpFinite
<1>3. r \notin Up(p)
  BY <1>2, NotAbove DEF Up
<1> QED BY <1>3

\* What assertValidResourceParent finds to fit has room.
LEMMA FitsHasRoom ==
  ASSUME NEW r \in Resource, NEW p \in Resource, NEW S \in SUBSET Resource, Fits(p, r, S),
         S = BatchOf(r) \/ (res[r].batch = Absent /\ S = {})
  PROVE  RoomUnder(p, r)
<1> DEFINE n == Cardinality(WalkUp(p))
<1>1. IsLive(p) /\ n < MaxDepth /\ HeightAtMost(S, r, MaxDepth - n)
  BY DEF Fits
<1>2. WalkUp(p) \in SUBSET Resource /\ n \in Nat /\ Cardinality(Up(p)) \in Nat
      /\ Cardinality(Up(p)) <= n
  <2>1. WalkUp(p) \in SUBSET Resource
    BY DEF WalkUp, Reach
  <2> DEFINE A == WalkUp(p)
             B == Up(p)
  <2>2. A \in SUBSET Resource /\ B \in SUBSET A
    BY <1>1, <2>1, UpIsMet
  <2> HIDE DEF A, B
  <2>3. Cardinality(A) \in Nat /\ Cardinality(B) \in Nat /\ Cardinality(B) <= Cardinality(A)
    BY <2>2, Counted
  <2> QED BY <2>1, <2>3 DEF A, B
<1> HIDE DEF n
<1>3. ASSUME NEW d \in Resource, r \in Up(d)
      PROVE  Cardinality(Stretch(d, r)) + Cardinality(Up(p)) <= MaxDepth
  <2> DEFINE A == {a \in Beneath(S, r) : d \in Beneath(S, a)}
             B == Stretch(d, r)
  <2>1. d \in Beneath(S, r) /\ B \subseteq A
    <3>1. CASE S = BatchOf(r)
      <4>1. ASSUME NEW a \in B PROVE a \in Beneath(S, r) /\ d \in Beneath(S, a)
        <5>1. a \in Resource /\ a \in Up(d) /\ r \in Up(a)
          BY <4>1, UpFinite DEF Stretch
        <5>2. res[a].batch = res[r].batch /\ a \in Beneath(S, r)
          BY <3>1, <5>1, UpIsDown
        <5>3. S = BatchOf(a)
          BY <3>1, <5>2 DEF BatchOf
        <5> QED BY <5>1, <5>2, <5>3, UpIsDown
      <4>2. d \in Beneath(S, r)
        BY <1>3, <3>1, UpIsDown
      <4> QED BY <4>1, <4>2
    <3>2. CASE res[r].batch = Absent
      <4>1. ASSUME NEW a \in Resource, r \in Up(a) PROVE a = r
        <5>1. res[a].batch = Absent
          BY <3>2, <4>1, UpIsDown
        <5>2. Closed(Kept, {a})
          BY <5>1 DEF Closed, Kept
        <5>3. Up(a) \subseteq {a}
          BY <5>2, ReachInClosed DEF Up
        <5> QED BY <4>1, <5>3
      <4>2. \A T, x : x \in Resource => x \in Beneath(T, x)
        BY DEF Beneath, Reach
      <4>3. d = r /\ B \subseteq {r}
        BY <1>3, <4>1, UpFinite DEF Stretch
      <4> QED BY <4>2, <4>3
    <3> QED BY <3>1, <3>2
  <2>2. A \in SUBSET Resource
    BY DEF Beneath, Reach
  <2>3. Cardinality(A) <= MaxDepth - n
    BY <1>1, <2>1 DEF HeightAtMost
  <2> HIDE DEF A, B
  <2>4. Cardinality(B) \in Nat /\ Cardinality(A) \in Nat /\ Cardinality(B) <= Cardinality(A)
    BY <2>1, <2>2, Counted
  <2>5. Cardinality(B) + Cardinality(Up(p)) <= MaxDepth
    BY <1>2, <2>3, <2>4, ResourcesAssumption
  <2> QED BY <2>5 DEF B
<1> QED BY <1>3 DEF RoomUnder


-----------------------------------------------------------------------------
(* No step makes it too deep: steps that commit no row.                    *)

\* What q has found stays found while what is above it only shrinks.
LEMMA RoomStays ==
  ASSUME TInv, NEW u \in Req, HasRoom(u), Kept' \subseteq Kept,
         req'[u].op = req[u].op, req'[u].at = req[u].at,
         req'[u].target = req[u].target, req'[u].parent = req[u].parent,
         req[u].op = "restore" => res'[req[u].target].parent = res[req[u].target].parent,
         req[u].op = "update" /\ IsLive(req[u].target)' => IsLive(req[u].target)
  PROVE  HasRoom(u)'
<1>1. req[u].op # "idle" => req[u].target \in Resource
  BY DEF TInv, Shape
<1>2. NewParent(u)' = NewParent(u) \/ req[u].op \notin {"create", "update", "restore"}
  BY DEF NewParent
<1>3. \A p, r \in Resource : RoomUnder(p, r) => RoomUnder(p, r)'
  BY ShallowStays
<1> SUFFICES ASSUME req[u].op \in {"create", "update", "restore"}, req[u].at = "checked",
                    (req[u].op = "update" => IsLive(req[u].target)'),
                    NewParent(u)' \in Resource
             PROVE  RoomUnder(NewParent(u), req[u].target)'
  BY DEF HasRoom, ToFile
<1>4. PICK p \in Resource, r \in Resource : p = NewParent(u)' /\ r = req[u].target
  BY <1>1
<1>5. RoomUnder(p, r)
  BY <1>2, <1>4 DEF HasRoom, ToFile
<1>6. RoomUnder(p, r)'
  BY <1>3, <1>5
<1> QED BY <1>4, <1>6 DEF RoomUnder

\* A step of q that adds no edge and leaves the others' requests as they are.
LEMMA RoomKept ==
  ASSUME TInv, DInv, NEW q \in Req, Kept' \subseteq Kept,
         \A u \in Req \ {q} :
           /\ req'[u].op = req[u].op /\ req'[u].at = req[u].at
           /\ req'[u].target = req[u].target /\ req'[u].parent = req[u].parent
           /\ req[u].op = "restore" => res'[req[u].target].parent = res[req[u].target].parent
           /\ req[u].op = "update" /\ IsLive(req[u].target)' => IsLive(req[u].target),
         HasRoom(q)'
  PROVE  DInv'
<1>1. Shallow'
  BY ShallowStays DEF DInv
<1>2. ASSUME NEW u \in Req \ {q} PROVE HasRoom(u)'
  <2>1. HasRoom(u)
    BY DEF DInv
  <2> QED BY <2>1, RoomStays
<1> QED BY <1>1, <1>2 DEF DInv

\* A step of q that changes no row.
LEMMA RowsKept ==
  ASSUME TInv, DInv, UNCHANGED res, NEW q \in Req, NEW c, req' = [req EXCEPT ![q] = c],
         HasRoom(q)'
  PROVE  DInv'
<1>1. Kept' \subseteq Kept
  BY DEF Kept
<1>2. \A u \in Req \ {q} : req'[u] = req[u]
  BY DEF TInv, TypeOK
<1> QED BY <1>1, <1>2, RoomKept DEF IsLive

LEMMA NotChecked ==
  ASSUME TInv, DInv, UNCHANGED res, NEW q \in Req, NEW c, req' = [req EXCEPT ![q] = c],
         c.at # "checked" \/ c.op \notin {"create", "update", "restore"}
  PROVE  DInv'
<1>1. req'[q] = c
  BY DEF TInv, TypeOK
<1>2. HasRoom(q)'
  BY <1>1 DEF HasRoom, ToFile
<1> QED BY <1>2, RowsKept

LEMMA RefusedShallow ==
  ASSUME TInv, DInv, NEW q \in Req, Refused(q)
  PROVE  DInv'
  BY IdleTyped, NotChecked DEF Refused, Step

\* A request that is found to fit has room.
LEMMA CheckedShallow ==
  ASSUME TInv, DInv, NEW q \in Req, NEW c, Step(q, c), c.op = req[q].op,
         c.target = req[q].target, c.parent = req[q].parent, req[q].op # "idle",
         LET p == NewParent(q)
             t == req[q].target
         IN  p \in Resource /\ (req[q].op = "update" => IsLive(t)) => RoomUnder(p, t)
  PROVE  DInv'
<1>1. req'[q] = c /\ UNCHANGED res /\ req[q].target \in Resource
  BY DEF Step, TInv, TypeOK, Shape
<1>2. PICK t \in Resource : t = req[q].target
  BY <1>1
<1>3. PICK p : p = NewParent(q)
  OBVIOUS
<1>4. NewParent(q)' = p
  BY <1>1, <1>3 DEF NewParent
<1>5. Kept' \subseteq Kept
  BY <1>1 DEF Kept
<1>6. p \in Resource /\ RoomUnder(p, t) => RoomUnder(p, t)'
  BY <1>5, ShallowStays
<1>7. p \in Resource /\ (req[q].op = "update" => IsLive(t)') => RoomUnder(p, t)'
  BY <1>1, <1>2, <1>3, <1>6 DEF IsLive
<1> SUFFICES HasRoom(q)'
  BY <1>1, RowsKept DEF Step
<1> SUFFICES ASSUME p \in Resource, (req[q].op = "update" => IsLive(t)') PROVE RoomUnder(p, t)'
  BY <1>1, <1>2, <1>4 DEF HasRoom, ToFile, RoomUnder
<1> QED BY <1>7

LEMMA AskShallow ==
  ASSUME TInv, DInv, Ask
  PROVE  DInv'
<1>1. PICK q \in Req, r \in Resource :
        \/ \E k \in Kind, p \in Resource : AskCreate(q, r, k, p)
        \/ \E k \in Kind, p \in Resource \cup {NoRes, Keep} : AskUpdate(q, r, k, p)
        \/ AskRemove(q, r)
        \/ AskDissolve(q, r)
        \/ AskRestore(q, r)
        \/ AskAssign(q, r)
  BY DEF Ask
<1>2. ASSUME NEW k \in Kind, NEW p \in Resource, AskCreate(q, r, k, p) PROVE DInv'
  <2>1. PICK c : c = [Idle EXCEPT !.op = "create", !.target = r, !.kind = k, !.parent = p]
    OBVIOUS
  <2>2. c.at = "asked"
    BY <2>1 DEF Idle
  <2> QED BY <1>2, <2>1, <2>2, NotChecked DEF AskCreate, Begin
<1>3. ASSUME NEW k \in Kind, NEW p \in Resource \cup {NoRes, Keep}, AskUpdate(q, r, k, p)
      PROVE  DInv'
  <2>1. PICK c : c = [Idle EXCEPT !.op = "update", !.target = r, !.seen = res[r].kind,
                                  !.kind = k, !.parent = p]
    OBVIOUS
  <2>2. c.at = "asked"
    BY <2>1 DEF Idle
  <2> QED BY <1>3, <2>1, <2>2, NotChecked DEF AskUpdate, Begin
<1>4. CASE AskRemove(q, r)
  <2>1. PICK c : c = [Idle EXCEPT !.op = "remove", !.target = r, !.seen = res[r].kind,
                                  !.branch = {r}]
    OBVIOUS
  <2>2. c.at = "asked"
    BY <2>1 DEF Idle
  <2> QED BY <1>4, <2>1, <2>2, NotChecked DEF AskRemove, Begin
<1>5. CASE AskDissolve(q, r)
  <2>1. PICK c : c = [Idle EXCEPT !.op = "dissolve", !.target = r, !.seen = "group"]
    OBVIOUS
  <2>2. c.at = "asked"
    BY <2>1 DEF Idle
  <2> QED BY <1>5, <2>1, <2>2, NotChecked DEF AskDissolve, Begin
<1>6. CASE AskRestore(q, r)
  <2>1. PICK c : c = [Idle EXCEPT !.op = "restore", !.target = r]
    OBVIOUS
  <2>2. c.at = "asked"
    BY <2>1 DEF Idle
  <2> QED BY <1>6, <2>1, <2>2, NotChecked DEF AskRestore, Begin
<1>7. CASE AskAssign(q, r)
  <2>1. PICK c : c = [Idle EXCEPT !.op = "assign", !.target = r, !.seen = res[r].kind]
    OBVIOUS
  <2>2. c.at = "asked"
    BY <2>1 DEF Idle
  <2> QED BY <1>7, <2>1, <2>2, NotChecked DEF AskAssign, Begin
<1> QED BY <1>1, <1>2, <1>3, <1>4, <1>5, <1>6, <1>7

\* What is checked against the tree.
LEMMA ChecksShallow ==
  ASSUME TInv, SInv, DInv, NEW q \in Req, CheckCreate(q) \/ CheckUpdate(q) \/ CheckRestore(q)
  PROVE  DInv'
<1>1. req[q] \in Request /\ Shape(q) /\ Named(q) /\ Absent # Live /\ Live \notin Batch
  BY ResourcesAssumption DEF TInv, TypeOK, SInv, Good
<1>2. PICK c : c = [req[q] EXCEPT !.at = "checked", !.tree = TRUE]
  OBVIOUS
<1>3. c.op = req[q].op /\ c.target = req[q].target /\ c.parent = req[q].parent
  BY <1>1, <1>2 DEF Request
<1>4. PICK t, p : t = req[q].target /\ p = NewParent(q)
  OBVIOUS
<1>5. ASSUME Step(q, c), req[q].op # "idle",
             p \in Resource /\ (req[q].op = "update" => IsLive(t)) => RoomUnder(p, t)
      PROVE  DInv'
  BY <1>3, <1>4, <1>5, CheckedShallow
<1>6. CASE CheckCreate(q)
  <2>1. CASE Fits(req[q].parent, req[q].target, {})
    <3>1. p = req[q].parent /\ p \in Resource /\ t \in Resource /\ res[t].batch = Absent
          /\ Step(q, c) /\ req[q].op = "create"
      BY <1>1, <1>2, <1>4, <1>6, <2>1 DEF CheckCreate, NewParent, Shape, Named, Blank
    <3>2. RoomUnder(p, t)
      BY <1>4, <2>1, <3>1, FitsHasRoom
    <3> QED BY <1>5, <3>1, <3>2
  <2>2. CASE ~Fits(req[q].parent, req[q].target, {})
    BY <1>6, <2>2, RefusedShallow DEF CheckCreate
  <2> QED BY <2>1, <2>2
<1>7. CASE CheckUpdate(q)
  <2>1. CASE MayChange(q)
    <3>1. p = req[q].parent /\ t \in Resource /\ Step(q, c) /\ req[q].op = "update"
      BY <1>1, <1>2, <1>4, <1>7, <2>1 DEF CheckUpdate, NewParent, Shape
    <3>2. ASSUME p \in Resource, IsLive(t) PROVE RoomUnder(p, t)
      <4>1. Fits(p, t, LiveRes)
        BY <1>4, <2>1, <3>1, <3>2 DEF MayChange
      <4>2. LiveRes = BatchOf(t) /\ LiveRes \in SUBSET Resource
        BY <3>2 DEF LiveRes, BatchOf, IsLive
      <4> QED BY <3>1, <3>2, <4>1, <4>2, FitsHasRoom
    <3> QED BY <1>5, <3>1, <3>2
  <2>2. CASE ~MayChange(q)
    BY <1>7, <2>2, RefusedShallow DEF CheckUpdate
  <2> QED BY <2>1, <2>2
<1>8. CASE CheckRestore(q)
  <2>1. CASE IsDead(t) /\ Returnable(t)
    <3>1. p = res[t].parent /\ t \in Resource /\ Step(q, c) /\ req[q].op = "restore"
      BY <1>1, <1>2, <1>4, <1>8, <2>1 DEF CheckRestore, NewParent, Shape
    <3>2. ASSUME p \in Resource PROVE RoomUnder(p, t)
      <4>1. Fits(p, t, BatchOf(t)) /\ BatchOf(t) \in SUBSET Resource
        BY <2>1, <3>1, <3>2, ResourcesAssumption DEF Returnable, BatchOf
      <4> QED BY <3>1, <3>2, <4>1, FitsHasRoom
    <3> QED BY <1>5, <3>1, <3>2
  <2>2. CASE ~(IsDead(t) /\ Returnable(t))
    BY <1>4, <1>8, <2>2, RefusedShallow DEF CheckRestore
  <2> QED BY <2>1, <2>2
<1> QED BY <1>6, <1>7, <1>8

\* What changes no row and is not checked against the tree.
LEMMA WorkShallow ==
  ASSUME TInv, DInv, NEW q \in Req,
         UpdateConflict(q) \/ ReadBranch(q) \/ LockBranch(q) \/ CheckDissolve(q)
           \/ Confirm(q) \/ Fail(q)
  PROVE  DInv'
<1>1. req[q] \in Request
  BY DEF TInv, TypeOK
<1>2. CASE Refused(q)
  BY <1>2, RefusedShallow
<1>3. ASSUME NEW c, Step(q, c), c.op \in {"remove", "dissolve", "assign"} PROVE DInv'
  BY <1>3, NotChecked DEF Step
<1>4. CASE ReadBranch(q)
  <2>1. PICK c : c = [req[q] EXCEPT !.at = "branch", !.tree = TRUE,
                                    !.branch = Beneath(LiveRes, req[q].target)]
    OBVIOUS
  <2>2. c.op = "remove"
    BY <1>1, <1>4, <2>1 DEF Request, ReadBranch
  <2> QED BY <1>3, <1>4, <2>1, <2>2 DEF ReadBranch
<1>5. CASE LockBranch(q) /\ ~Refused(q)
  <2>1. PICK c : c = [req[q] EXCEPT !.at = "checked", !.locks = req[q].branch]
    OBVIOUS
  <2>2. c.op = "remove"
    BY <1>1, <1>5, <2>1 DEF Request, LockBranch
  <2> QED BY <1>3, <1>5, <2>1, <2>2 DEF LockBranch
<1>6. CASE CheckDissolve(q) /\ ~Refused(q)
  <2>1. PICK c : c = [req[q] EXCEPT !.at = "checked", !.tree = TRUE,
                                    !.parent = res[req[q].target].parent]
    OBVIOUS
  <2>2. c.op = "dissolve"
    BY <1>1, <1>6, <2>1 DEF Request, CheckDissolve
  <2> QED BY <1>3, <1>6, <2>1, <2>2 DEF CheckDissolve
<1>7. CASE Confirm(q) /\ ~Refused(q)
  <2>1. PICK c : c = [req[q] EXCEPT !.at = "checked", !.locks = {req[q].target}]
    OBVIOUS
  <2>2. c.op = "assign"
    BY <1>1, <1>7, <2>1 DEF Request, Confirm
  <2> QED BY <1>3, <1>7, <2>1, <2>2 DEF Confirm
<1> QED BY <1>2, <1>4, <1>5, <1>6, <1>7 DEF UpdateConflict, Fail

-----------------------------------------------------------------------------
(* Commits.                                                                *)
\* A commit under the tree lock: nobody else has checked against the tree.
LEMMA CommitShallow ==
  ASSUME TInv, SInv, NEW q \in Req, req[q].tree, NEW S \in SUBSET Resource, Commit(q, S), Shallow'
  PROVE  DInv'
<1>1. HasRoom(q)'
  BY CommitFields, IdleTyped DEF HasRoom, ToFile
<1>2. ASSUME NEW u \in Req \ {q} PROVE HasRoom(u)'
  <2>1. ~req[u].tree /\ Shape(u)
    BY DEF TInv, SInv, Apart
  <2> QED BY <2>1, CommitFields DEF HasRoom, ToFile, Shape
<1> QED BY <1>1, <1>2 DEF DInv

\* Dissolving a group takes it out from above what was filed in it.
LEMMA DissolveLowers ==
  ASSUME TInv, SInv, NEW q \in Req, NEW b \in Batch, Dissolve(q, b), NEW r \in Resource
  PROVE  Up(r)' \subseteq Up(r)
<1>1. ASSUME NEW e \in Kept, e[1] \in Up(r) PROVE e[2] \in Up(r)
  BY <1>1, KeptFunctional, ReachCloses DEF Up
<1>2. Closed(Kept', Up(r))
  <2> SUFFICES ASSUME NEW e \in Kept', e[1] \in Up(r) PROVE e[2] \in Up(r)
    BY DEF Closed
  <2>1. e = <<e[1], e[2]>> /\ e[1] \in Resource /\ e[2] \in Resource
    BY DEF Kept, Edges
  <2>2. PICK t : t = req[q].target
    OBVIOUS
  <2>3. e \in Kept \/ (<<e[1], t>> \in Kept /\ <<t, e[2]>> \in Kept)
    BY <2>1, <2>2, DissolveFiles
  <2>4. CASE e \in Kept
    BY <1>1, <2>4
  <2>5. CASE <<e[1], t>> \in Kept /\ <<t, e[2]>> \in Kept
    <3>1. t \in Up(r)
      BY <1>1, <2>5
    <3> QED BY <1>1, <2>5, <3>1
  <2> QED BY <2>3, <2>4, <2>5
<1>3. r \in Up(r)
  BY DEF Up, Reach
<1> QED BY <1>2, <1>3, UpFinite, ReachInClosed DEF Up

LEMMA TreeCommitsShallow ==
  ASSUME TInv, SInv, DInv, NEW q \in Req,
         Create(q) \/ Update(q) \/ Restore(q) \/ \E b \in Batch : Dissolve(q, b)
  PROVE  DInv'
<1>1. /\ req[q].op \in {"create", "update", "restore", "dissolve"} /\ req[q].at = "checked"
      /\ req[q].target \in Resource /\ Shallow /\ HasRoom(q) /\ Shape(q)
  BY DEF TInv, DInv, Shape, Create, Update, Restore, Dissolve
<1>2. req[q].tree
  BY <1>1 DEF Shape
<1>3. PICK t, p : t \in Resource /\ t = req[q].target /\ p = NewParent(q)
  BY <1>1
<1>4. PICK S \in SUBSET Resource : Commit(q, S)
  BY <1>1 DEF Create, Update, Restore, Dissolve, Back, BatchOf, Children, LiveRes
<1> SUFFICES Shallow'
  BY <1>2, <1>4, CommitShallow
<1>5. CASE Create(q)
  <2>1. p \in Resource /\ RoomUnder(p, t) /\ p = req[q].parent
    BY <1>1, <1>3, <1>5 DEF HasRoom, ToFile, NewParent, Shape, Create
  <2> QED BY <1>1, <1>3, <1>5, <2>1, CreateFiles, ShallowMove
<1>6. CASE Update(q)
  <2>1. CASE req[q].parent \notin Resource
    BY <1>1, <1>6, <2>1, UpdateFiles, ShallowStays
  <2>2. CASE req[q].parent \in Resource
    <3>1. p = req[q].parent /\ RoomUnder(p, t)
      BY <1>1, <1>3, <1>6, <2>2 DEF HasRoom, ToFile, NewParent, Update
    <3> QED BY <1>1, <1>3, <1>6, <2>2, <3>1, UpdateFiles, ShallowMove
  <2> QED BY <2>1, <2>2
<1>7. CASE Restore(q)
  <2>1. p = res[t].parent
    BY <1>3, <1>7 DEF NewParent, Restore
  <2>2. CASE p \notin Resource
    BY <1>1, <1>3, <1>7, <2>1, <2>2, RestoreFiles, ShallowStays
  <2>3. CASE p \in Resource
    <3>1. RoomUnder(p, t)
      BY <1>1, <1>3, <1>7, <2>3 DEF HasRoom, ToFile, Restore
    <3> QED BY <1>1, <1>3, <1>7, <2>1, <2>3, <3>1, RestoreFiles, ShallowMove
  <2> QED BY <2>2, <2>3
<1>8. CASE \E b \in Batch : Dissolve(q, b)
  BY <1>1, <1>8, DissolveLowers, LessAbove
<1> QED BY <1>5, <1>6, <1>7, <1>8

\* Commits that may hold no tree lock.
LEMMA LockCommitsShallow ==
  ASSUME TInv, DInv, NEW q \in Req, Assign(q) \/ \E b \in Batch : Remove(q, b)
  PROVE  DInv'
<1>1. Commit(q, {}) /\ Kept' \subseteq Kept
  BY RemoveFiles DEF Assign, Remove, Kept
<1>2. \A r \in Resource : res'[r].parent = res[r].parent /\ (IsLive(r)' => IsLive(r))
  <2>1. CASE Assign(q)
    BY <2>1 DEF Assign, IsLive
  <2>2. ASSUME NEW b \in Batch, Remove(q, b)
        PROVE  \A r \in Resource : res'[r].parent = res[r].parent /\ (IsLive(r)' => IsLive(r))
    BY <2>2, ResourcesAssumption DEF Remove, Stamped, IsLive, TInv, TypeOK, Row
  <2> QED BY <2>1, <2>2
<1>3. HasRoom(q)'
  BY <1>1, CommitFields, IdleTyped DEF HasRoom, ToFile
<1>4. ASSUME NEW u \in Req \ {q}
      PROVE  /\ req'[u].op = req[u].op /\ req'[u].at = req[u].at
             /\ req'[u].target = req[u].target /\ req'[u].parent = req[u].parent
             /\ req[u].op = "restore" => res'[req[u].target].parent = res[req[u].target].parent
             /\ req[u].op = "update" /\ IsLive(req[u].target)' => IsLive(req[u].target)
  <2>1. req[u].op # "idle" => req[u].target \in Resource
    BY DEF TInv, Shape
  <2>2. req[u].op = "update" /\ IsLive(req[u].target)' => IsLive(req[u].target)
    <3> SUFFICES ASSUME req[u].op = "update", IsLive(req[u].target)' PROVE IsLive(req[u].target)
      OBVIOUS
    <3>1. PICK t \in Resource : t = req[u].target
      BY <2>1
    <3>2. req'[u].target = t
      BY <1>1, <3>1, CommitFields
    <3> QED BY <1>2, <3>1, <3>2 DEF IsLive
  <2> QED BY <1>1, <1>2, <2>1, <2>2, CommitFields
<1> QED BY <1>1, <1>3, <1>4, RoomKept

LEMMA DirectShallow ==
  ASSUME TInv, SInv, DInv, Direct
  PROVE  DInv'
<1>1. CASE \E r \in Resource : Unassign(r)
  <2>1. UNCHANGED <<res, req>> /\ Kept' \subseteq Kept
    BY <1>1 DEF Unassign, Kept
  <2>2. Shallow'
    BY <2>1, ShallowStays DEF DInv
  <2>3. ASSUME NEW u \in Req PROVE HasRoom(u)'
    <3>1. HasRoom(u)
      BY DEF DInv
    <3> QED BY <2>1, <3>1, RoomStays DEF IsLive
  <2> QED BY <2>2, <2>3 DEF DInv
<1>2. ASSUME NEW r \in Resource, NEW k \in Kind, CreateTop(r, k) PROVE DInv'
  <2>1. UNCHANGED req /\ Kept' \subseteq Kept
    BY <1>2, CreateTopFiles DEF CreateTop
  <2>2. \A s \in Resource \ {r} : res'[s] = res[s]
    BY <1>2 DEF CreateTop, TInv, TypeOK
  <2>3. Shallow'
    BY <2>1, ShallowStays DEF DInv
  <2>4. ASSUME NEW u \in Req PROVE HasRoom(u)'
    <3>1. HasRoom(u) /\ (req[u].op # "idle" => req[u].target \in Resource \ {r})
      BY <1>2 DEF DInv, TInv, Shape, CreateTop, Unused
    <3> QED BY <2>1, <2>2, <3>1, RoomStays DEF IsLive
  <2> QED BY <2>3, <2>4 DEF DInv
<1> QED BY <1>1, <1>2 DEF Direct

LEMMA StepShallow ==
  ASSUME TInv, SInv, DInv, [Next]_vars
  PROVE  DInv'
<1>1. CASE Work
  <2>1. PICK q \in Req :
          \/ CheckCreate(q) \/ Create(q)
          \/ CheckUpdate(q) \/ Update(q) \/ UpdateConflict(q)
          \/ ReadBranch(q) \/ LockBranch(q)
          \/ CheckDissolve(q) \/ CheckRestore(q) \/ Restore(q)
          \/ \E b \in Batch : Remove(q, b) \/ Dissolve(q, b)
          \/ Confirm(q) \/ Assign(q)
          \/ Fail(q)
    BY <1>1 DEF Work
  <2> QED BY <2>1, ChecksShallow, WorkShallow, TreeCommitsShallow, LockCommitsShallow
<1>2. CASE UNCHANGED vars
  BY <1>2 DEF vars, DInv, Shallow, HasRoom, ToFile, NewParent, RoomUnder, Stretch, Up, Kept, IsLive
<1> QED BY <1>1, <1>2, AskShallow, DirectShallow DEF Next

LEMMA InitShallow == Init => DInv
<1> SUFFICES ASSUME Init PROVE DInv
  OBVIOUS
<1>1. ASSUME NEW r \in Resource PROVE Cardinality(Up(r)) <= MaxDepth
  <2>1. Kept = {}
    BY ResourcesAssumption DEF Init, Blank, Kept, Edges
  <2>2. Up(r) = {r}
    <3>1. Closed(Kept, {r})
      BY <2>1 DEF Closed
    <3>2. Up(r) \subseteq {r} /\ r \in Up(r)
      BY <3>1, ReachInClosed DEF Up, Reach
    <3> QED BY <3>2
  <2>3. Cardinality(Up(r)) = 1
    BY <2>2, FS_Singleton
  <2> QED BY <2>3, ResourcesAssumption
<1>2. ASSUME NEW q \in Req PROVE HasRoom(q)
  BY IdleTyped DEF Init, HasRoom, ToFile
<1> QED BY <1>1, <1>2 DEF DInv, Shallow

-----------------------------------------------------------------------------
(* The invariant and what it implies.                                      *)

LEMMA InitKeeps == Init => TInv /\ SInv /\ AInv
<1> SUFFICES ASSUME Init PROVE TInv /\ SInv /\ AInv
  OBVIOUS
<1>1. /\ res \in [Resource -> Row] /\ \A r \in Resource : res[r] = Blank
      /\ req \in [Req -> Request] /\ \A q \in Req : req[q] = Idle
      /\ assigned = {} /\ astray = FALSE /\ Blank.batch = Absent /\ Blank.parent = NoRes
      /\ Absent # Live /\ Absent \notin Batch
  BY IdleTyped, ResourcesAssumption DEF Init, Blank, Row, Kind
<1>2. TInv
  BY <1>1, IdleTyped DEF TInv, TypeOK, Shape
<1>3. Soundness
  <2>1. Kept = {} /\ LiveRes = {} /\ \A r \in Resource : ~IsDead(r)
    BY <1>1 DEF Kept, LiveRes, IsLive, IsDead, Edges
  <2>2. Acyclic(Resource, Kept)
    BY <2>1 DEF Acyclic
  <2> QED BY <1>1, <2>1, <2>2 DEF Soundness, FiledInLiveGroup, BatchRooted
<1>4. \A q \in Req : Good(q) /\ Secure(q)
  BY <1>1, IdleTyped DEF Good, Named, Reads, Secure, Uses
<1>5. \A q, u \in Req : Apart(q, u)
  BY <1>1, IdleTyped DEF Apart
<1> QED BY <1>1, <1>2, <1>3, <1>4, <1>5 DEF SInv, AInv, AssignedIsThere

LEMMA StepKeeps == TInv /\ [Next]_vars => Keeps
<1> SUFFICES ASSUME TInv, [Next]_vars PROVE Keeps
  OBVIOUS
<1>1. CASE Ask
  BY <1>1, AskCreateKeeps, AskUpdateKeeps, AskRemoveKeeps, AskDissolveKeeps, AskRestoreKeeps,
     AskAssignKeeps DEF Ask
<1>2. CASE Work
  <2>1. PICK q \in Req :
          \/ CheckCreate(q) \/ Create(q)
          \/ CheckUpdate(q) \/ Update(q) \/ UpdateConflict(q)
          \/ ReadBranch(q) \/ LockBranch(q)
          \/ CheckDissolve(q) \/ CheckRestore(q) \/ Restore(q)
          \/ \E b \in Batch : Remove(q, b) \/ Dissolve(q, b)
          \/ Confirm(q) \/ Assign(q)
          \/ Fail(q)
    BY <1>2 DEF Work
  <2> QED
    BY <2>1, CheckCreateKeeps, CreateKeeps, CheckUpdateKeeps, UpdateKeeps, UpdateConflictKeeps,
       ReadBranchKeeps, LockBranchKeeps, CheckDissolveKeeps, CheckRestoreKeeps, RestoreKeeps,
       RemoveKeeps, DissolveKeeps, ConfirmKeeps, AssignKeeps, FailKeeps
<1>3. CASE Direct
  BY <1>3, CreateTopKeeps, UnassignKeeps DEF Direct
<1>4. CASE UNCHANGED vars
  <2>1. UNCHANGED <<res, assigned, req, astray>>
    BY <1>4 DEF vars
  <2>2. TInv'
    BY <2>1 DEF TInv, TypeOK, Shape
  <2>3. ASSUME SInv PROVE SInv'
    <3>1. Soundness'
      BY <2>1, <2>3 DEF SInv, Soundness, FiledInLiveGroup, Kept, BatchRooted,
                        LiveRes, IsLive, IsGroup, IsDead, Inner
    <3>2. ASSUME NEW u \in Req PROVE Good(u)'
      <4>1. Named(u) /\ Reads(u)
        BY <2>3 DEF SInv, Good
      <4>2. Named(u)'
        BY <2>1, <4>1 DEF Named
      <4>3. Reads(u)'
        BY <2>1, <4>1 DEF Reads, LiveGroup, IsGroup, IsLive, IsDead, LiveRes, Children, WalkUp,
                          Filing
      <4> QED BY <4>2, <4>3 DEF Good
    <3>3. \A u, v \in Req : u # v => Apart(u, v)'
      BY <2>1, <2>3 DEF SInv, Apart
    <3> QED BY <3>1, <3>2, <3>3 DEF SInv
  <2>4. ASSUME AInv PROVE AInv'
    BY <2>1, <2>4 DEF AInv, AssignedIsThere, Secure, Uses, Apart, IsGroup, IsLive
  <2> QED BY <2>2, <2>3, <2>4 DEF Keeps
<1> QED BY <1>1, <1>2, <1>3, <1>4 DEF Next

\* Once a group is deleted for a leaf, that stays known.
LEMMA AstrayStays == [Next]_vars /\ astray => astray'
<1>1. \A q \in Req : CheckCreate(q) \/ CheckUpdate(q) \/ UpdateConflict(q) \/ ReadBranch(q)
        \/ LockBranch(q) \/ CheckDissolve(q) \/ CheckRestore(q) \/ Confirm(q) \/ Fail(q)
      => UNCHANGED astray
  BY DEF CheckCreate, CheckUpdate, UpdateConflict, ReadBranch, LockBranch, CheckDissolve,
         CheckRestore, Confirm, Fail, Refused, Step
<1>2. \A q \in Req : Create(q) \/ Update(q) \/ Restore(q) \/ Assign(q) => UNCHANGED astray
  BY DEF Create, Update, Restore, Assign
<1>3. \A q \in Req, b \in Batch : Remove(q, b) \/ Dissolve(q, b) => (astray => astray')
  BY DEF Remove, Dissolve
<1>4. Work /\ astray => astray'
  BY <1>1, <1>2, <1>3 DEF Work
<1>5. Ask => UNCHANGED astray
  BY DEF Ask, AskCreate, AskUpdate, AskRemove, AskDissolve, AskRestore, AskAssign, Begin
<1>6. Direct => UNCHANGED astray
  BY DEF Direct, CreateTop, Unassign
<1> QED BY <1>4, <1>5, <1>6 DEF Next, vars

\* Rows and requests are always well typed.
THEOREM TypeCorrect == Spec => []TypeOK
<1>1. Init => TInv
  BY InitKeeps
<1>2. TInv /\ [Next]_vars => TInv'
  BY StepKeeps DEF Keeps
<1>3. TInv => TypeOK
  BY DEF TInv
<1> QED BY <1>1, <1>2, <1>3, PTL DEF Spec

\* However many deletes, dissolves, restores, assignments and conversions run
\* together, an assigned resource that is no group is never deleted.
THEOREM AssignedLeavesStay == Spec => []AssignedIsThere
<1>1. Init => TInv /\ AInv
  BY InitKeeps
<1>2. TInv /\ AInv /\ [Next]_vars => (TInv /\ AInv)'
  BY StepKeeps DEF Keeps
<1>3. AInv => AssignedIsThere
  BY DEF AInv
<1> QED BY <1>1, <1>2, <1>3, PTL DEF Spec

LEMMA Invariance == Spec => [](TInv /\ (~astray => SInv /\ DInv))
<1>1. Init => TInv /\ (~astray => SInv /\ DInv)
  BY InitKeeps, InitShallow
<1>2. TInv /\ (~astray => SInv /\ DInv) /\ [Next]_vars
        => (TInv /\ (~astray => SInv /\ DInv))'
  <2> SUFFICES ASSUME TInv, ~astray => SInv /\ DInv, [Next]_vars
               PROVE  TInv' /\ (~astray' => SInv' /\ DInv')
    OBVIOUS
  <2>1. TInv' /\ (SInv /\ ~astray' => SInv')
    BY StepKeeps DEF Keeps
  <2>2. ~astray' => ~astray
    BY AstrayStays
  <2> QED BY <2>1, <2>2, StepShallow
<1> QED BY <1>1, <1>2, PTL DEF Spec

\* The tree stays one: two moves, a move and a restore, or a dissolve among
\* them close no ring, stack no branch past RESOURCE_TREE_MAX_DEPTH, and leave
\* nothing live under a deleted resource or one that is no group, until a
\* group is deleted by a request that read it as a leaf.
THEOREM TreeStaysSound == Spec => []TreeSound
<1>1. (~astray => SInv /\ DInv) => TreeSound
  <2> SUFFICES ASSUME SInv, DInv PROVE TreeSound
    BY DEF TreeSound
  <2>1. FiledInLiveGroup /\ Acyclic(Resource, Kept)
    BY DEF SInv, Soundness
  <2>2. Filing \subseteq Kept
    BY <2>1, ResourcesAssumption DEF Filing, Kept, FiledInLiveGroup, LiveRes, IsLive, Edges
  <2>3. ASSUME NEW r \in LiveRes PROVE Cardinality(WalkUp(r)) <= MaxDepth
    <3>1. r \in Resource /\ Cardinality(Up(r)) <= MaxDepth
      BY DEF DInv, Shallow, LiveRes
    <3>2. Closed(Filing, Up(r)) /\ r \in Up(r)
      <4>1. \A e \in Kept : e[1] \in Up(r) => e[2] \in Up(r)
        BY KeptFunctional, ReachCloses DEF Up
      <4>2. r \in Up(r)
        BY <3>1 DEF Up, Reach
      <4> QED BY <2>2, <4>1, <4>2 DEF Closed
    <3>3. WalkUp(r) \subseteq Up(r)
      BY <3>2, UpFinite, ReachInClosed DEF WalkUp
    <3> DEFINE A == Up(r)
               B == WalkUp(r)
    <3>4. A \in SUBSET Resource /\ B \in SUBSET A
      BY <3>3, UpFinite
    <3> HIDE DEF A, B
    <3>5. Cardinality(A) \in Nat /\ Cardinality(B) \in Nat /\ Cardinality(B) <= Cardinality(A)
      BY <3>4, Counted
    <3> QED BY <3>1, <3>5, ResourcesAssumption DEF A, B
  <2> QED BY <2>1, <2>2, <2>3, FewerEdges DEF TreeSound
<1> QED BY <1>1, Invariance, PTL
=============================================================================
