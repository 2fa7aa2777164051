------------------------------ MODULE PenClient ------------------------------
(***************************************************************************)
(* The browser's side of a plan's pen (use-plan-edit-lock): tabs that poll *)
(* its status, ask for it, keep it alive while they believe they hold it,  *)
(* and release it when they leave, over requests that are lost, delayed    *)
(* and answered out of order.                                              *)
(*                                                                         *)
(* A tab believes what its query cache says.  The poll, an action's answer *)
(* and a heartbeat's answer all write that cache; an invalidation drops    *)
(* the poll that is under way and starts another.  The cache outlives the  *)
(* page it was filled by: a page opened again believes it until a poll     *)
(* tells otherwise.                                                        *)
(*                                                                         *)
(* The server's operations are those of PlanLock, each in one step, as     *)
(* they are to a client: when a peer's take-over is due is left open, and  *)
(* time is counted in ticks, Ttl of them to a lease.  Users without a tab  *)
(* here act on the server at any moment.  The banner's wording and its     *)
(* lost-control notice are not modelled.                                   *)
(***************************************************************************)
EXTENDS Naturals

CONSTANTS
  Tab,     \* browser tabs
  UserOf,  \* the user each is signed in as
  Peer,    \* other planners, whose tabs are not modelled
  Admin,   \* the users who may override (Org Admin)
  NoOne,   \* nobody
  Ttl      \* ticks until an unrenewed lease has run out

User == {UserOf[t] : t \in Tab} \cup Peer

ASSUME PenClientAssumption ==
  /\ Admin \subseteq User
  /\ NoOne \notin User
  /\ Ttl \in Nat \ {0}

VARIABLES
  holder,  \* plan_locks.holder_user_id, or NoOne for no row
  asked,   \* requested_by_user_id
  age,     \* ticks since the lease was written or renewed
  page,    \* "open" on the plan, "away" elsewhere in the app, or "closed"
  view,    \* the cached status, "none" before the first
  wire     \* the requests of each tab that are under way

server == <<holder, asked, age>>
penClientVars == <<holder, asked, age, page, view, wire>>

\* A tab has at most one poll, one heartbeat, one action and one release under
\* way: the query deduplicates, the buttons are disabled while one is pending.
\* (A heartbeat may overtake an earlier one; their answers say the same.)
Slot == {"poll", "beat", "act", "leave"}
Verb == {"start", "takeover", "stop", "request", "handoff"}
State == {"free", "mine", "other"}

\* A request and its answer; nobody hears the answer of a late one.
None == [verb |-> "none"]
Message(k) ==
  [verb: IF k = "act" THEN Verb ELSE {k}, late: BOOLEAN,
   answer: State \cup {"pending", "lost", "done"}]

PenClientTypeOK ==
  /\ holder \in User \cup {NoOne} /\ asked \in User \cup {NoOne}
  /\ age \in 0..Ttl
  /\ page \in [Tab -> {"open", "away", "closed"}]
  /\ view \in [Tab -> State \cup {"none"}]
  /\ wire \in [Tab -> [Slot -> (UNION {Message(k) : k \in Slot}) \cup {None}]]
  /\ \A t \in Tab, k \in Slot : wire[t][k] \in Message(k) \cup {None}

PenClientInit ==
  /\ holder = NoOne /\ asked = NoOne /\ age = 0
  /\ page = [t \in Tab |-> "closed"]
  /\ view = [t \in Tab |-> "none"]
  /\ wire = [t \in Tab |-> [k \in Slot |-> None]]

-----------------------------------------------------------------------------
(* The server.                                                             *)

\* Mutant of Live: a lease still runs at the moment it ends.
LiveAtExpiry == holder # NoOne /\ age <= Ttl

Live == holder # NoOne /\ age < Ttl
HoldsPen(u) == holder = u /\ Live

\* deriveLockState, as one user is told it; an expired lease is free to take.
StateFor(u) == IF HoldsPen(u) THEN "mine" ELSE IF Live THEN "other" ELSE "free"

Lease(u) == holder' = u /\ asked' = NoOne /\ age' = 0
Renew == age' = 0 /\ UNCHANGED <<holder, asked>>
Gone == holder' = NoOne /\ asked' = NoOne /\ age' = 0

\* A peer whose request is pending may have waited out the grace; a holder
\* who has missed a tick may be inactive.
MayTakeOver(u) == u \in Admin \/ asked = u \/ age > 0

\* What the server does for a user's request, and what it answers.
AcquireBy(u, verb, answer) ==
  \/ StateFor(u) = "free" /\ Lease(u) /\ answer = "mine"
  \/ StateFor(u) = "mine" /\ Renew /\ answer = "mine"
  \/ /\ StateFor(u) = "other" /\ verb = "takeover" /\ MayTakeOver(u)
     /\ Lease(u) /\ answer = "mine"
  \/ StateFor(u) = "other" /\ UNCHANGED server /\ answer = "done"

HeartbeatBy(u, answer) ==
  \/ HoldsPen(u) /\ Renew /\ answer = "mine"
  \/ ~HoldsPen(u) /\ UNCHANGED server /\ answer = "lost"

\* The holder's own row, expired or not; an override deletes anybody's.
ReleaseBy(u, answer) ==
  /\ answer = "done"
  /\ IF holder = u \/ u \in Admin THEN Gone ELSE UNCHANGED server

RequestBy(u, answer) ==
  /\ answer = StateFor(u)
  /\ IF StateFor(u) = "other" THEN asked' = u /\ UNCHANGED <<holder, age>>
     ELSE UNCHANGED server

HandOffBy(u, answer) ==
  IF HoldsPen(u) /\ asked # NoOne
  THEN Lease(asked) /\ answer = "other"
  ELSE UNCHANGED server /\ answer = "done"

StatusFor(u, answer) == UNCHANGED server /\ answer = StateFor(u)

Handle(u, verb, answer) ==
  \/ verb \in {"start", "takeover"} /\ AcquireBy(u, verb, answer)
  \/ verb = "beat" /\ HeartbeatBy(u, answer)
  \/ verb \in {"stop", "leave"} /\ ReleaseBy(u, answer)
  \/ verb = "request" /\ RequestBy(u, answer)
  \/ verb = "handoff" /\ HandOffBy(u, answer)
  \/ verb = "poll" /\ StatusFor(u, answer)

\* A part of a lease's time passes.
Tick ==
  /\ Live
  /\ age' = age + 1
  /\ UNCHANGED <<holder, asked, page, view, wire>>

PeerActs(u) ==
  /\ \E verb \in Verb \cup {"beat"}, answer \in State \cup {"lost", "done"} :
       Handle(u, verb, answer)
  /\ UNCHANGED <<page, view, wire>>

-----------------------------------------------------------------------------
(* Requests on the wire.                                                   *)

Pending(t, k) == wire[t][k] # None /\ wire[t][k].answer = "pending"
Answered(t, k) == wire[t][k] # None /\ wire[t][k].answer # "pending"

Request(verb) == [verb |-> verb, late |-> FALSE, answer |-> "pending"]
Send(t, k, verb) == wire' = [wire EXCEPT ![t][k] = Request(verb)]
Clear(t, k) == wire' = [wire EXCEPT ![t][k] = None]

\* The slot is free again, and the status is fetched anew if the plan's page
\* is open; what was being fetched is dropped.
ClearAndInvalidate(t, k) ==
  wire' = [wire EXCEPT ![t] =
    [j \in Slot |-> IF j = "poll" /\ page[t] = "open" THEN Request("poll")
                    ELSE IF j = k THEN None ELSE @[j]]]

Deliver(t, k) ==
  /\ Pending(t, k)
  /\ \E answer \in State \cup {"lost", "done"} :
       /\ Handle(UserOf[t], wire[t][k].verb, answer)
       /\ wire' = [wire EXCEPT ![t][k] =
                     IF @.late \/ k = "leave" THEN None ELSE [@ EXCEPT !.answer = answer]]
  /\ UNCHANGED <<page, view>>

\* The request or its answer is lost, and the client gives up on it: an
\* action settles, which fetches the status anew; the others are not retried
\* before the next is due.
Lose(t, k) ==
  /\ wire[t][k] # None
  /\ IF k = "act" /\ ~wire[t][k].late THEN ClearAndInvalidate(t, k) ELSE Clear(t, k)
  /\ UNCHANGED <<server, page, view>>

\* An answer is handled: what it says of the pen becomes the cached status,
\* an action and a refused heartbeat fetch it anew.
Receive(t, k) ==
  LET a == wire[t][k].answer
  IN  /\ Answered(t, k)
      /\ view' = IF a \in State THEN [view EXCEPT ![t] = a] ELSE view
      /\ IF k = "act" \/ a = "lost" THEN ClearAndInvalidate(t, k) ELSE Clear(t, k)
      /\ UNCHANGED <<server, page>>

-----------------------------------------------------------------------------
(* The page of the plan.                                                   *)

Believes(t) == page[t] = "open" /\ view[t] = "mine"

\* The page mounts: the status is always fetched, and believed as cached
\* until then.
Open(t) ==
  /\ page[t] # "open"
  /\ page' = [page EXCEPT ![t] = "open"]
  /\ wire' = [wire EXCEPT ![t]["poll"] = IF @ = None THEN Request("poll") ELSE @]
  /\ UNCHANGED <<server, view>>

\* Mutant of Poll: a page that holds the pen does not poll.
PollOthers(t) ==
  /\ page[t] = "open" /\ view[t] # "mine"
  /\ wire[t]["poll"] = None
  /\ Send(t, "poll", "poll")
  /\ UNCHANGED <<server, page, view>>

\* The interval, the window's focus.
Poll(t) ==
  /\ page[t] = "open"
  /\ wire[t]["poll"] = None
  /\ Send(t, "poll", "poll")
  /\ UNCHANGED <<server, page, view>>

\* Mutant of Beat: the interval is not cleared when the page unmounts.
BeatUncleared(t) ==
  /\ page[t] # "closed" /\ view[t] = "mine"
  /\ wire[t]["beat"] = None
  /\ Send(t, "beat", "beat")
  /\ UNCHANGED <<server, page, view>>

\* The heartbeat interval, and the tab that becomes visible again.
Beat(t) ==
  /\ Believes(t)
  /\ wire[t]["beat"] = None
  /\ Send(t, "beat", "beat")
  /\ UNCHANGED <<server, page, view>>

\* The controls the page offers for the status it knows.
Offered(t) ==
  CASE view[t] = "free"  -> {"start"}
    [] view[t] = "mine"  -> {"stop", "handoff"}
    [] view[t] = "other" -> {"request", "takeover"}
    [] OTHER             -> {}

Act(t, verb) ==
  /\ page[t] = "open"
  /\ wire[t]["act"] = None
  /\ verb \in Offered(t)
  /\ Send(t, "act", verb)
  /\ UNCHANGED <<server, page, view>>

\* A write is refused for want of the pen: the status is fetched anew.
WriteRejected(t) ==
  /\ Believes(t)
  /\ Send(t, "poll", "poll")
  /\ UNCHANGED <<server, page, view>>

\* The page unmounts: a tab that believes it holds the pen releases it, and
\* does not wait for the answer.
Leave(t) ==
  /\ page[t] = "open"
  /\ page' = [page EXCEPT ![t] = "away"]
  /\ IF view[t] = "mine" THEN Send(t, "leave", "leave") ELSE UNCHANGED wire
  /\ UNCHANGED <<server, view>>

\* The cached status is collected while nothing shows it.
Forget(t) ==
  /\ page[t] = "away"
  /\ view' = [view EXCEPT ![t] = "none"]
  /\ UNCHANGED <<server, page, wire>>

\* The tab is closed or crashes (the release is then lost): requests that
\* reached the network may still be served, their answers reach nobody.
Close(t) ==
  /\ page[t] # "closed"
  /\ page' = [page EXCEPT ![t] = "closed"]
  /\ view' = [view EXCEPT ![t] = "none"]
  /\ wire' = [wire EXCEPT ![t] =
       [k \in Slot |->
          IF k = "leave" THEN IF Believes(t) THEN Request("leave") ELSE @[k]
          ELSE IF k # "poll" /\ Pending(t, k) THEN [@[k] EXCEPT !.late = TRUE]
          ELSE None]]
  /\ UNCHANGED server

TabStep(t) ==
  \/ \E k \in Slot : Deliver(t, k) \/ Lose(t, k) \/ Receive(t, k)
  \/ Open(t) \/ Poll(t) \/ Beat(t) \/ Leave(t) \/ Forget(t) \/ Close(t)
  \/ WriteRejected(t)
  \/ \E verb \in Verb : Act(t, verb)

PenClientNext ==
  \/ Tick
  \/ \E u \in Peer : PeerActs(u)
  \/ \E t \in Tab : TabStep(t)

\* Time passes, an open page keeps polling, and of polls that are sent again
\* and again some reach the server and some answers come back.
Fairness ==
  /\ WF_penClientVars(Tick)
  /\ \A t \in Tab : /\ WF_penClientVars(Poll(t))
                    /\ SF_penClientVars(Deliver(t, "poll")) /\ SF_penClientVars(Receive(t, "poll"))
                    /\ WF_penClientVars(Deliver(t, "beat") \/ Lose(t, "beat"))

PenClientSpec == PenClientInit /\ [][PenClientNext]_penClientVars /\ Fairness

-----------------------------------------------------------------------------
(* Properties.                                                             *)

\* A lease no page keeps runs out: whoever leaves the plan, by whatever way
\* and with whatever requests still under way, blocks the others for no longer
\* than a lease (the comment's "never a stuck lock"), whether or not the
\* release arrives.
Kept(u) == \E t \in Tab : UserOf[t] = u /\ page[t] = "open"
AbandonedPenLapses ==
  \A t \in Tab : HoldsPen(UserOf[t]) /\ ~Kept(UserOf[t])
                   ~> (~HoldsPen(UserOf[t]) \/ Kept(UserOf[t]))

\* A tab that believes it holds the pen when its user does not is told, and
\* one whose user was given the pen learns of it, although late answers of
\* earlier requests keep overwriting what newer ones said.
BeliefCorrected ==
  \A t \in Tab :
    /\ Believes(t) /\ ~HoldsPen(UserOf[t]) ~> (~Believes(t) \/ HoldsPen(UserOf[t]))
    /\ page[t] = "open" /\ view[t] # "mine" /\ HoldsPen(UserOf[t])
         ~> (page[t] # "open" \/ view[t] = "mine" \/ ~HoldsPen(UserOf[t]))

\* The comment on the release on leave: "It only fires while actually holding".
\* No run checks it: TLC refutes it (README, section 4).
LeaveEndsOwnPen ==
  [][\A t \in Tab :
       wire[t]["leave"] # None /\ wire'[t]["leave"] = None /\ Live
         => holder' = holder \/ holder = UserOf[t]]_penClientVars
=============================================================================
