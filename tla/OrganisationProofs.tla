------------------------- MODULE OrganisationProofs -------------------------
(***************************************************************************)
(* What belongs to an organisation as a whole: its members and its         *)
(* calendars, for any numbers of them and of requests, and without the     *)
(* bounds of the model checking.                                           *)
(*                                                                         *)
(* Members: an Org Admin remains, nobody has two seats, and the audit log  *)
(* of a membership is its history.  What carries them is the lock: from    *)
(* the re-read of the member to the commit no other request changes or     *)
(* removes a member, so the role read still stands, and the second         *)
(* administrator that was counted is still one.  Acceptance, which takes   *)
(* no lock, can only add administrators.                                   *)
(*                                                                         *)
(* Calendars: what is live keeps a calendar it may use.  What carries it   *)
(* is what each request has found under the locks it holds, and that no    *)
(* other request can take that away: the calendar it binds, the users it   *)
(* counted, the batch it brings back and the project or plan that batch    *)
(* comes back to.                                                          *)
(***************************************************************************)
EXTENDS Membership, Calendars, DigraphProofs

(***************************************************************************)
(*                                Members                                  *)
(***************************************************************************)

\* Who works on a member row: it exists, and stays.
OnRow == InTx \cup {"queued"}
Rows == \A r \in Req : call[r].pc \in OnRow => call[r].row \in DOMAIN members

\* Who is in the transaction has the lock.
LockHeld == \A r \in Req : call[r].pc \in InTx => orgLock = r

\* The role that was read under the lock still stands.
Fresh ==
  \A r \in Req :
    call[r].pc \in {"count", "write"} /\ members[call[r].row].active =>
      call[r].was = members[call[r].row].role

\* Who drops an admin leaves another one.
Covered ==
  \A r \in Req :
    call[r].pc = "write" /\ DropsAdmin(call[r]) => \E m \in Admins : m # call[r].row

IInv ==
  /\ TypeOK /\ AdminRemains /\ OneEach /\ AuditTellsTheTruth
  /\ Rows /\ LockHeld /\ Fresh /\ Covered

-----------------------------------------------------------------------------
(* Rows.                                                                   *)

LEMMA NewSeatTruthful ==
  ASSUME NEW u \in User, NEW role \in Role
  PROVE  /\ NewSeat(u, role) \in Seat /\ Truthful(NewSeat(u, role))
         /\ NewSeat(u, role).user = u /\ NewSeat(u, role).active
         /\ NewSeat(u, role).role = role
<1> DEFINE e == [before |-> "none", after |-> role]
<1>1. e \in Entry /\ e.after = role
  BY DEF Entry
<1> HIDE DEF e
<1>2. <<e>> \in Seq(Entry) /\ Len(<<e>>) = 1 /\ <<e>>[1] = e
  BY <1>1
<1>3. NewSeat(u, role) = [user |-> u, role |-> role, active |-> TRUE, version |-> 1, trail |-> <<e>>]
  BY DEF NewSeat, e
<1>4. NewSeat(u, role) \in Seat
  BY <1>2, <1>3 DEF Seat
<1>5. Truthful(NewSeat(u, role))
  BY <1>1, <1>2, <1>3 DEF Truthful
<1> QED BY <1>3, <1>4, <1>5

\* A record that begins with the role there is keeps the log a history.
LEMMA LongerTrail ==
  ASSUME NEW row \in Seat, Truthful(row), row.active, NEW after \in Role \cup {"removed"}
  PROVE  LET t == Append(row.trail, [before |-> row.role, after |-> after]) IN
         /\ t \in Seq(Entry) /\ Len(t) = row.version + 1
         /\ \A k \in 2..Len(t) : t[k].before = t[k - 1].after
         /\ t[Len(t)].after = after
<1> DEFINE s == row.trail
           e == [before |-> row.role, after |-> after]
           t == Append(s, e)
<1>1. s \in Seq(Entry) /\ row.role \in Role /\ Len(s) = row.version
      /\ (\A k \in 2..Len(s) : s[k].before = s[k - 1].after) /\ s[Len(s)].after = row.role
  BY DEF Seat, Truthful
<1>2. e \in Entry /\ e.before = row.role /\ e.after = after
  BY <1>1 DEF Entry
<1> HIDE DEF s, e
<1>3. t \in Seq(Entry) /\ Len(t) = Len(s) + 1 /\ t[Len(s) + 1] = e
      /\ \A k \in 1..Len(s) : t[k] = s[k]
  BY <1>1, <1>2
<1> HIDE DEF t
<1>4. ASSUME NEW k \in 2..Len(t) PROVE t[k].before = t[k - 1].after
  <2>1. CASE k \in 2..Len(s)
    <3>1. k \in 1..Len(s) /\ k - 1 \in 1..Len(s)
      BY <2>1, <1>1
    <3>2. t[k] = s[k] /\ t[k - 1] = s[k - 1]
      BY <3>1, <1>3
    <3> QED BY <2>1, <3>2, <1>1
  <2>2. CASE k = Len(s) + 1
    <3>1. k - 1 = Len(s) /\ k - 1 \in 1..Len(s)
      BY <2>2, <1>1
    <3>2. t[k] = e /\ t[k - 1] = s[Len(s)]
      BY <2>2, <3>1, <1>3
    <3> QED BY <3>2, <1>1, <1>2
  <2> QED BY <1>1, <1>3, <2>1, <2>2
<1> QED BY <1>1, <1>2, <1>3, <1>4 DEF s, e, t

LEMMA WithRoleTruthful ==
  ASSUME NEW row \in Seat, Truthful(row), row.active, NEW role \in Role
  PROVE  LET new == WithRole(row, row.role, role) IN
         /\ new \in Seat /\ Truthful(new)
         /\ new.user = row.user /\ new.active /\ new.role = role
<1> DEFINE t == Append(row.trail, [before |-> row.role, after |-> role])
           n == row.version + 1
<1>1. /\ t \in Seq(Entry) /\ Len(t) = n
      /\ \A k \in 2..Len(t) : t[k].before = t[k - 1].after
      /\ t[Len(t)].after = role
  BY LongerTrail
<1>2. n \in Nat
  BY DEF Seat
<1>3. WithRole(row, row.role, role) = [row EXCEPT !.role = role, !.version = n, !.trail = t]
  BY DEF WithRole
<1> HIDE DEF t, n
<1> DEFINE new == [row EXCEPT !.role = role, !.version = n, !.trail = t]
<1>4. /\ new \in Seat /\ new.user = row.user /\ new.active = row.active
      /\ new.role = role /\ new.version = n /\ new.trail = t
  BY <1>1, <1>2 DEF Seat
<1> HIDE DEF new
<1>5. Truthful(new)
  BY <1>1, <1>4 DEF Truthful
<1> QED BY <1>3, <1>4, <1>5 DEF new

LEMMA DeletedTruthful ==
  ASSUME NEW row \in Seat, Truthful(row), row.active
  PROVE  LET new == Deleted(row, row.role) IN
         new \in Seat /\ Truthful(new) /\ new.user = row.user /\ ~new.active
<1> DEFINE t == Append(row.trail, [before |-> row.role, after |-> "removed"])
           n == row.version + 1
<1>1. /\ t \in Seq(Entry) /\ Len(t) = n
      /\ \A k \in 2..Len(t) : t[k].before = t[k - 1].after
      /\ t[Len(t)].after = "removed"
  BY LongerTrail
<1>2. n \in Nat
  BY DEF Seat
<1>3. Deleted(row, row.role) = [row EXCEPT !.active = FALSE, !.version = n, !.trail = t]
  BY DEF Deleted
<1> HIDE DEF t, n
<1> DEFINE new == [row EXCEPT !.active = FALSE, !.version = n, !.trail = t]
<1>4. /\ new \in Seat /\ new.user = row.user /\ ~new.active
      /\ new.version = n /\ new.trail = t
  BY <1>1, <1>2 DEF Seat
<1> HIDE DEF new
<1>5. Truthful(new)
  BY <1>1, <1>4 DEF Truthful
<1> QED BY <1>3, <1>4, <1>5 DEF new

-----------------------------------------------------------------------------
(* Steps.                                                                  *)

LEMMA GotoTyped ==
  ASSUME TypeOK, NEW r \in Req, NEW pc \in Pc, Goto(r, pc)
  PROVE  /\ call' \in [Req -> Call]
         /\ call'[r] = [call[r] EXCEPT !.pc = pc]
         /\ call'[r].pc = pc /\ call'[r].row = call[r].row /\ call'[r].op = call[r].op
         /\ call'[r].was = call[r].was /\ call'[r].role = call[r].role
         /\ \A q \in Req \ {r} : call'[q] = call[q]
  BY DEF TypeOK, Goto, Call

LEMMA DoneTyped ==
  ASSUME TypeOK, NEW r \in Req, Done(r)
  PROVE  /\ call' \in [Req -> Call] /\ call'[r].pc = "idle"
         /\ \A q \in Req \ {r} : call'[q] = call[q]
  BY MembershipAssumption DEF TypeOK, Done, Blank, Call, Pc, Op

\* A step that leaves the members alone and lets no request into the lock.
LEMMA QuietStep ==
  ASSUME IInv, TypeOK', OneEach', UNCHANGED members, NEW r \in Req,
         call'[r].pc \notin OnRow,
         \A q \in Req \ {r} : call'[q] = call[q],
         orgLock' = orgLock \/ (orgLock = r /\ orgLock' = NoReq)
  PROVE  IInv'
<1> USE DEF OnRow, InTx
<1>1. AdminRemains' /\ AuditTellsTheTruth' /\ Rows'
  BY DEF IInv, AdminRemains, Admins, AuditTellsTheTruth, Rows
<1>2. LockHeld' /\ Fresh'
  BY DEF IInv, LockHeld, Fresh
<1>3. Covered'
  <2> SUFFICES ASSUME NEW q \in Req, call'[q].pc = "write", DropsAdmin(call'[q])
               PROVE  \E m \in Admins' : m # call'[q].row
    BY DEF Covered
  <2>1. call'[q] = call[q]
    OBVIOUS
  <2> QED BY <2>1 DEF IInv, Covered, Admins
<1> QED BY <1>1, <1>2, <1>3 DEF IInv

\* A request in the lock changes or removes a member and commits.
LEMMA RowStep ==
  ASSUME IInv, NEW r \in Req, call[r].pc = "write", NEW m, m = call[r].row,
         NEW row \in Seat, Truthful(row), row.user = members[m].user,
         members[m].active,
         members' = [members EXCEPT ![m] = row],
         DropsAdmin(call[r]) \/ (members[m].role = Admin => row.active /\ row.role = Admin),
         EndTx(r), UNCHANGED invitations
  PROVE  IInv'
<1> USE DEF OnRow, InTx
<1>1. TypeOK /\ m \in DOMAIN members /\ members \in Seq(Seat)
  BY DEF IInv, Rows, TypeOK
<1>2. /\ members' \in Seq(Seat) /\ DOMAIN members' = DOMAIN members
      /\ members'[m] = row /\ \A n \in DOMAIN members \ {m} : members'[n] = members[n]
  BY <1>1
<1>3. /\ call' \in [Req -> Call] /\ call'[r].pc = "idle" /\ orgLock' = NoReq
      /\ \A q \in Req \ {r} : call'[q] = call[q]
  BY <1>1, DoneTyped DEF EndTx
<1>4. TypeOK'
  BY <1>1, <1>2, <1>3 DEF TypeOK
<1>5. \A q \in Req : call'[q].pc \notin InTx
  BY <1>3 DEF IInv, LockHeld
<1>6. LockHeld' /\ Fresh' /\ Covered'
  BY <1>5 DEF LockHeld, Fresh, Covered
<1>7. Rows'
  BY <1>2, <1>3 DEF IInv, Rows
<1>8. OneEach'
  <2>1. \A n \in DOMAIN members :
           members'[n].user = members[n].user /\ (members'[n].active => members[n].active)
    BY <1>2
  <2>2. OneSeat'
    BY <2>1, <1>2 DEF IInv, OneEach, OneSeat
  <2>3. OnePending'
    BY DEF IInv, OneEach, OnePending
  <2> QED BY <2>2, <2>3 DEF OneEach
<1>9. AuditTellsTheTruth'
  BY <1>2 DEF IInv, AuditTellsTheTruth
<1>10. AdminRemains'
  <2>1. CASE DropsAdmin(call[r])
    <3>1. PICK n \in Admins : n # m
      BY <2>1 DEF IInv, Covered
    <3>2. n \in DOMAIN members' /\ members'[n] = members[n]
      BY <3>1, <1>2 DEF Admins
    <3> QED BY <3>1, <3>2 DEF Admins, AdminRemains
  <2>2. CASE members[m].role = Admin => row.active /\ row.role = Admin
    <3>1. PICK n \in Admins : TRUE
      BY DEF IInv, AdminRemains
    <3>2. n \in DOMAIN members' /\ members'[n].active /\ members'[n].role = Admin
      BY <3>1, <2>2, <1>2 DEF Admins
    <3> QED BY <3>2 DEF Admins, AdminRemains
  <2> QED BY <2>1, <2>2
<1> QED BY <1>4, <1>6, <1>7, <1>8, <1>9, <1>10 DEF IInv

\* An invitation changes; it may stop being pending, never begin.
LEMMA InvitationStep ==
  ASSUME TypeOK, OnePending, NEW k, NEW row,
         invitations' = [invitations EXCEPT ![k] = row],
         k \in DOMAIN invitations =>
           /\ row \in Invitation /\ row.email = invitations[k].email
           /\ row.status = "PENDING" => invitations[k].status = "PENDING"
  PROVE  invitations' \in Seq(Invitation) /\ OnePending'
<1>1. invitations \in Seq(Invitation)
  BY DEF TypeOK
<1>2. CASE k \in DOMAIN invitations
  <2>1. /\ invitations' \in Seq(Invitation) /\ DOMAIN invitations' = DOMAIN invitations
        /\ invitations'[k] = row
        /\ \A i \in DOMAIN invitations \ {k} : invitations'[i] = invitations[i]
    BY <1>1, <1>2
  <2>2. \A i \in DOMAIN invitations :
           /\ invitations'[i].email = invitations[i].email
           /\ invitations'[i].status = "PENDING" => invitations[i].status = "PENDING"
    BY <1>2, <2>1
  <2>3. OnePending'
    <3> SUFFICES ASSUME NEW i \in DOMAIN invitations, NEW j \in DOMAIN invitations,
                        invitations'[i].status = "PENDING", invitations'[j].status = "PENDING",
                        invitations'[i].email = invitations'[j].email
                 PROVE  i = j
      BY <2>1 DEF OnePending
    <3> QED BY <2>2 DEF OnePending
  <2> QED BY <2>1, <2>3
<1>3. CASE k \notin DOMAIN invitations
  <2>1. invitations' = invitations
    BY <1>1, <1>3
  <2>2. OnePending'
    BY <2>1 DEF OnePending
  <2> QED BY <1>1, <2>1, <2>2
<1> QED BY <1>2, <1>3

LEMMA InitIInv == Init => IInv
<1> SUFFICES ASSUME Init PROVE IInv
  OBVIOUS
<1> USE MembershipAssumption
<1>1. /\ NewSeat(Founder, Admin) \in Seat /\ Truthful(NewSeat(Founder, Admin))
      /\ NewSeat(Founder, Admin).active /\ NewSeat(Founder, Admin).role = Admin
  BY NewSeatTruthful
<1>2. /\ members \in Seq(Seat) /\ DOMAIN members = {1}
      /\ members[1] = NewSeat(Founder, Admin)
  BY <1>1 DEF Init
<1>3. TypeOK
  BY <1>2 DEF Init, TypeOK, Call, Blank, Pc, Op
<1>4. AdminRemains
  BY <1>1, <1>2 DEF AdminRemains, Admins
<1>5. OneEach
  BY <1>2 DEF Init, OneEach, OneSeat, OnePending
<1>6. AuditTellsTheTruth
  BY <1>1, <1>2 DEF AuditTellsTheTruth
<1>7. \A r \in Req : call[r].pc = "idle"
  BY DEF Init, Blank
<1> QED BY <1>3, <1>4, <1>5, <1>6, <1>7
        DEF IInv, Rows, LockHeld, Fresh, Covered, OnRow, InTx

\* One step per action.
LEMMA NextIInv == IInv /\ [Next]_vars => IInv'
<1> SUFFICES ASSUME IInv, [Next]_vars PROVE IInv'
  OBVIOUS
<1> USE DEF OnRow, InTx
<1>t. /\ TypeOK /\ members \in Seq(Seat) /\ invitations \in Seq(Invitation)
      /\ \A r \in Req : call[r] \in Call
  BY DEF IInv, TypeOK
<1>1. CASE UNCHANGED vars
  BY <1>1 DEF vars, IInv, TypeOK, AdminRemains, Admins, OneEach, OneSeat, OnePending, AuditTellsTheTruth, Rows,
              LockHeld, Fresh, Covered
<1>2. ASSUME NEW r \in Req, Abandon(r) PROVE IInv'
  <2>1. call' \in [Req -> Call] /\ call'[r].pc = "idle" /\ \A q \in Req \ {r} : call'[q] = call[q]
    BY <1>2, <1>t, DoneTyped DEF Abandon
  <2>2. TypeOK' /\ OneEach'
    BY <1>2, <1>t, <2>1 DEF Abandon, IInv, TypeOK, OneEach, OneSeat, OnePending
  <2> QED BY <1>2, <2>1, <2>2, QuietStep DEF Abandon
<1>3. ASSUME NEW r \in Req, NEW u \in User, NEW role \in Role, ArriveInvite(r, u, role)
      PROVE  IInv'
  <2>1. call' \in [Req -> Call] /\ call'[r].pc = "check" /\ \A q \in Req \ {r} : call'[q] = call[q]
    BY <1>3, <1>t, MembershipAssumption DEF ArriveInvite, TypeOK, Blank, Call, Pc, Op
  <2>2. TypeOK' /\ OneEach'
    BY <1>3, <1>t, <2>1 DEF ArriveInvite, IInv, TypeOK, OneEach, OneSeat, OnePending
  <2> QED BY <1>3, <2>1, <2>2, QuietStep DEF ArriveInvite
<1>4. ASSUME NEW r \in Req, CheckInvitee(r) PROVE IInv'
  <2>1. call' \in [Req -> Call] /\ call'[r].pc = "insert" /\ \A q \in Req \ {r} : call'[q] = call[q]
    BY <1>4, <1>t, GotoTyped DEF CheckInvitee, Pc
  <2>2. TypeOK' /\ OneEach'
    BY <1>4, <1>t, <2>1 DEF CheckInvitee, IInv, TypeOK, OneEach, OneSeat, OnePending
  <2> QED BY <1>4, <2>1, <2>2, QuietStep DEF CheckInvitee
<1>5. ASSUME NEW r \in Req, InsertInvitation(r) PROVE IInv'
  <2> DEFINE new == [email |-> call[r].user, role |-> call[r].role, status |-> "PENDING",
                     expired |-> FALSE, seats |-> 0]
  <2>1. call' \in [Req -> Call] /\ call'[r].pc = "idle" /\ \A q \in Req \ {r} : call'[q] = call[q]
    BY <1>5, <1>t, DoneTyped DEF InsertInvitation
  <2>2. new \in Invitation /\ new.email = call[r].user
    BY <1>t DEF Invitation, Call
  <2>3. invitations' = Append(invitations, new) /\ NonePending(new.email)
    BY <1>5, <2>2 DEF InsertInvitation
  <2> HIDE DEF new
  <2>4. /\ invitations' \in Seq(Invitation)
        /\ DOMAIN invitations' = DOMAIN invitations \cup {Len(invitations) + 1}
        /\ invitations'[Len(invitations) + 1] = new
        /\ \A i \in DOMAIN invitations : invitations'[i] = invitations[i]
    BY <1>t, <2>2, <2>3
  <2>5. OneEach'
    BY <1>5, <2>3, <2>4 DEF InsertInvitation, IInv, OneEach, OneSeat, OnePending, NonePending
  <2>6. TypeOK'
    BY <1>5, <1>t, <2>1, <2>4 DEF InsertInvitation, TypeOK
  <2> QED BY <1>5, <2>1, <2>5, <2>6, QuietStep DEF InsertInvitation
<1>6. ASSUME NEW r \in Req, NEW i \in DOMAIN invitations, ArriveRevoke(r, i) PROVE IInv'
  <2>1. i \in Nat
    BY <1>t
  <2>2. call' \in [Req -> Call] /\ call'[r].pc = "read" /\ \A q \in Req \ {r} : call'[q] = call[q]
    BY <1>6, <1>t, <2>1, MembershipAssumption DEF ArriveRevoke, TypeOK, Blank, Call, Pc, Op
  <2>3. TypeOK' /\ OneEach'
    BY <1>6, <1>t, <2>2 DEF ArriveRevoke, IInv, TypeOK, OneEach, OneSeat, OnePending
  <2> QED BY <1>6, <2>2, <2>3, QuietStep DEF ArriveRevoke
<1>7. ASSUME NEW r \in Req, NEW i \in DOMAIN invitations, ArriveAccept(r, i) PROVE IInv'
  <2>1. i \in Nat /\ invitations[i] \in Invitation
    BY <1>t
  <2>2. invitations[i].email \in User /\ invitations[i].role \in Role
    BY <2>1 DEF Invitation
  <2>3. call' \in [Req -> Call] /\ call'[r].pc = "check" /\ \A q \in Req \ {r} : call'[q] = call[q]
    BY <1>7, <1>t, <2>1, <2>2, MembershipAssumption
       DEF ArriveAccept, TypeOK, Blank, Call, Pc, Op
  <2>4. TypeOK' /\ OneEach'
    BY <1>7, <1>t, <2>3 DEF ArriveAccept, IInv, TypeOK, OneEach, OneSeat, OnePending
  <2> QED BY <1>7, <2>3, <2>4, QuietStep DEF ArriveAccept
<1>8. ASSUME NEW r \in Req, ReadInvitation(r) PROVE IInv'
  <2>1. call' \in [Req -> Call] /\ call'[r].pc = "set" /\ \A q \in Req \ {r} : call'[q] = call[q]
    BY <1>8, <1>t, GotoTyped DEF ReadInvitation, Pc
  <2>2. TypeOK' /\ OneEach'
    BY <1>8, <1>t, <2>1 DEF ReadInvitation, IInv, TypeOK, OneEach, OneSeat, OnePending
  <2> QED BY <1>8, <2>1, <2>2, QuietStep DEF ReadInvitation
<1>9. ASSUME NEW r \in Req, CheckSeat(r) PROVE IInv'
  <2>1. call' \in [Req -> Call] /\ call'[r].pc = "join" /\ \A q \in Req \ {r} : call'[q] = call[q]
    BY <1>9, <1>t, GotoTyped DEF CheckSeat, Pc
  <2>2. TypeOK' /\ OneEach'
    BY <1>9, <1>t, <2>1 DEF CheckSeat, IInv, TypeOK, OneEach, OneSeat, OnePending
  <2> QED BY <1>9, <2>1, <2>2, QuietStep DEF CheckSeat
<1>10. ASSUME NEW r \in Req, SetRevoked(r) PROVE IInv'
  <2> DEFINE k == call[r].row
             row == [invitations[k] EXCEPT !.status = "REVOKED"]
  <2>1. call' \in [Req -> Call] /\ call'[r].pc = "idle" /\ \A q \in Req \ {r} : call'[q] = call[q]
    BY <1>10, <1>t, DoneTyped DEF SetRevoked
  <2>2. invitations' = [invitations EXCEPT ![k] = row]
    BY <1>10 DEF SetRevoked
  <2>3. ASSUME k \in DOMAIN invitations
        PROVE  /\ row \in Invitation /\ row.email = invitations[k].email
               /\ row.status # "PENDING"
    <3> HIDE DEF k
    <3>1. invitations[k] \in Invitation
      BY <1>t, <2>3
    <3> QED BY <3>1 DEF Invitation
  <2> HIDE DEF k, row
  <2>4. invitations' \in Seq(Invitation) /\ OnePending'
    BY <1>t, <2>2, <2>3, InvitationStep DEF IInv, OneEach
  <2>5. TypeOK' /\ OneEach'
    BY <1>10, <1>t, <2>1, <2>4 DEF SetRevoked, IInv, TypeOK, OneEach, OneSeat
  <2> QED BY <1>10, <2>1, <2>5, QuietStep DEF SetRevoked
<1>11. ASSUME NEW i \in DOMAIN invitations, Expire(i) PROVE IInv'
  <2> DEFINE row == [invitations[i] EXCEPT !.expired = TRUE]
  <2>1. invitations' = [invitations EXCEPT ![i] = row]
    BY <1>11 DEF Expire
  <2>2. row \in Invitation /\ row.email = invitations[i].email
        /\ row.status = invitations[i].status
    <3>1. invitations[i] \in Invitation
      BY <1>t
    <3> QED BY <3>1 DEF Invitation
  <2> HIDE DEF row
  <2>3. invitations' \in Seq(Invitation) /\ OnePending'
    BY <1>t, <2>1, <2>2, InvitationStep DEF IInv, OneEach
  <2>4. UNCHANGED <<members, orgLock, call>>
    BY <1>11 DEF Expire
  <2> QED BY <2>3, <2>4 DEF IInv, TypeOK, AdminRemains, Admins, OneEach, OneSeat,
                            AuditTellsTheTruth, Rows, LockHeld, Fresh, Covered
<1>12. ASSUME NEW r \in Req, Join(r) PROVE IInv'
  <2> DEFINE k == call[r].row
             u == call[r].user
             new == NewSeat(u, call[r].role)
             n == invitations[k].seats + 1
             row == [invitations[k] EXCEPT !.status = "ACCEPTED", !.seats = n]
  <2>1. call' \in [Req -> Call] /\ call'[r].pc = "idle" /\ \A q \in Req \ {r} : call'[q] = call[q]
    BY <1>12, <1>t, DoneTyped DEF Join
  <2>2. u \in User /\ call[r].role \in Role
    BY <1>t DEF Call
  <2>3. new \in Seat /\ Truthful(new) /\ new.user = u /\ new.active
    BY <2>2, NewSeatTruthful
  <2>4. invitations' = [invitations EXCEPT ![k] = row]
    BY <1>12 DEF Join
  <2>5. ASSUME k \in DOMAIN invitations
        PROVE  /\ row \in Invitation /\ row.email = invitations[k].email
               /\ row.status # "PENDING"
    <3>1. invitations[k] \in Invitation
      <4> HIDE DEF k
      <4> QED BY <1>t, <2>5
    <3>2. n \in Nat
      BY <3>1 DEF Invitation
    <3> HIDE DEF n, k
    <3> QED BY <3>1, <3>2 DEF Invitation
  <2> HIDE DEF k, row
  <2>6. invitations' \in Seq(Invitation) /\ OnePending'
    BY <1>t, <2>4, <2>5, InvitationStep DEF IInv, OneEach
  <2>7. members' = Append(members, new) /\ ~HasSeat(u) /\ orgLock' = orgLock
    BY <1>12 DEF Join, SeatFree
  <2> HIDE DEF new, u
  <2>8. /\ members' \in Seq(Seat) /\ DOMAIN members' = DOMAIN members \cup {Len(members) + 1}
        /\ members'[Len(members) + 1] = new
        /\ \A m \in DOMAIN members : members'[m] = members[m]
    BY <1>t, <2>3, <2>7
  <2>9. TypeOK'
    BY <1>t, <2>1, <2>6, <2>7, <2>8 DEF TypeOK
  <2>10. Admins \subseteq Admins'
    BY <2>8 DEF Admins
  <2>11. AdminRemains' /\ AuditTellsTheTruth'
    BY <2>3, <2>8, <2>10 DEF IInv, AdminRemains, AuditTellsTheTruth
  <2>12. OneSeat'
    BY <2>3, <2>7, <2>8 DEF IInv, OneEach, OneSeat, HasSeat
  <2>13. Rows' /\ LockHeld'
    BY <2>1, <2>7, <2>8 DEF IInv, Rows, LockHeld
  <2>14. Fresh'
    BY <2>1, <2>8 DEF IInv, Fresh, Rows
  <2>15. Covered'
    <3> SUFFICES ASSUME NEW q \in Req, call'[q].pc = "write", DropsAdmin(call'[q])
                 PROVE  \E m \in Admins' : m # call'[q].row
      BY DEF Covered
    <3>1. call'[q] = call[q]
      BY <2>1
    <3>2. PICK m \in Admins : m # call[q].row
      BY <3>1 DEF IInv, Covered
    <3> QED BY <3>1, <3>2, <2>10
  <2> QED BY <2>6, <2>9, <2>11, <2>12, <2>13, <2>14, <2>15 DEF IInv, OneEach
<1>13. ASSUME NEW r \in Req, NEW m \in DOMAIN members,
              NEW op \in {"change", "remove"}, NEW role \in Role, NEW version \in Nat,
              Arrive(r, op, m, role, version)
       PROVE  IInv'
  <2> DEFINE c == [pc |-> "queued", op |-> op, row |-> m, user |-> members[m].user,
                   role |-> role, was |-> members[m].role, version |-> version]
  <2>1. m \in Nat /\ members[m] \in Seat
    BY <1>t
  <2>2. c \in Call /\ c.pc = "queued" /\ c.row = m
    BY <2>1 DEF Seat, Call, Pc, Op
  <2>3. call' = [call EXCEPT ![r] = c] /\ UNCHANGED <<members, invitations, orgLock>>
    BY <1>13 DEF Arrive
  <2> HIDE DEF c
  <2>4. call' \in [Req -> Call] /\ call'[r] = c /\ \A q \in Req \ {r} : call'[q] = call[q]
    BY <1>t, <2>2, <2>3 DEF TypeOK
  <2>5. TypeOK' /\ AdminRemains' /\ OneEach' /\ AuditTellsTheTruth'
    BY <2>3, <2>4 DEF IInv, TypeOK, AdminRemains, Admins, OneEach, OneSeat, OnePending,
                      AuditTellsTheTruth
  <2>6. Rows' /\ LockHeld' /\ Fresh'
    BY <2>2, <2>3, <2>4 DEF IInv, Rows, LockHeld, Fresh
  <2>7. \A q \in Req : call'[q].pc = "write" => q # r /\ call'[q] = call[q]
    BY <2>2, <2>4
  <2>8. Admins' = Admins
    BY <2>3 DEF Admins
  <2>9. Covered'
    BY <2>7, <2>8 DEF IInv, Covered
  <2> QED BY <2>5, <2>6, <2>9 DEF IInv
<1>14. ASSUME NEW r \in Req, LockOrganization(r) PROVE IInv'
  <2>1. /\ call' \in [Req -> Call] /\ call'[r].pc = "locked" /\ call'[r].row = call[r].row
        /\ \A q \in Req \ {r} : call'[q] = call[q]
    BY <1>14, <1>t, GotoTyped DEF LockOrganization, Pc
  <2>2. orgLock = NoReq /\ orgLock' = r /\ UNCHANGED <<members, invitations>>
        /\ call[r].pc = "queued"
    BY <1>14 DEF LockOrganization
  <2>3. TypeOK' /\ AdminRemains' /\ OneEach' /\ AuditTellsTheTruth'
    BY <2>1, <2>2 DEF IInv, TypeOK, AdminRemains, Admins, OneEach, OneSeat, OnePending,
                      AuditTellsTheTruth
  <2>4. \A q \in Req : call[q].pc \notin InTx
    BY <2>2, MembershipAssumption DEF IInv, LockHeld
  <2>5. \A q \in Req : call'[q].pc \in InTx => q = r
    BY <2>1, <2>4
  <2>6. LockHeld' /\ Fresh' /\ Covered'
    BY <2>1, <2>2, <2>5 DEF LockHeld, Fresh, Covered
  <2>7. Rows'
    BY <2>1, <2>2 DEF IInv, Rows
  <2> QED BY <2>3, <2>6, <2>7 DEF IInv
<1>15. ASSUME NEW r \in Req, ReadMember(r) PROVE IInv'
  <2> DEFINE role == members[call[r].row].role
             c == [call[r] EXCEPT !.pc = "count", !.was = role]
  <2>1. call[r].pc = "locked" /\ call[r].row \in DOMAIN members
    BY <1>15 DEF ReadMember, IInv, Rows
  <2>2. role \in Role
    <3>1. PICK m \in DOMAIN members : m = call[r].row
      BY <2>1
    <3>2. members[m] \in Seat
      BY <1>t
    <3> QED BY <3>1, <3>2 DEF Seat
  <2>3. call' = [call EXCEPT ![r] = c] /\ UNCHANGED <<members, invitations, orgLock>>
    BY <1>15 DEF ReadMember
  <2>4. c \in Call /\ c.pc = "count" /\ c.row = call[r].row /\ c.was = role
    <3> HIDE DEF role
    <3> QED BY <2>2, <1>t DEF Call, Pc
  <2> HIDE DEF c
  <2>5. call' \in [Req -> Call] /\ call'[r] = c /\ \A q \in Req \ {r} : call'[q] = call[q]
    BY <1>t, <2>3, <2>4 DEF TypeOK
  <2>6. TypeOK' /\ AdminRemains' /\ OneEach' /\ AuditTellsTheTruth'
    BY <2>3, <2>5 DEF IInv, TypeOK, AdminRemains, Admins, OneEach, OneSeat, OnePending,
                      AuditTellsTheTruth
  <2>7. Rows' /\ LockHeld' /\ Fresh'
    BY <2>1, <2>3, <2>4, <2>5 DEF IInv, Rows, LockHeld, Fresh
  <2>8. \A q \in Req : call'[q].pc = "write" => q # r /\ call'[q] = call[q]
    BY <2>4, <2>5
  <2>9. Admins' = Admins
    BY <2>3 DEF Admins
  <2>10. Covered'
    BY <2>8, <2>9 DEF IInv, Covered
  <2> QED BY <2>6, <2>7, <2>10 DEF IInv
<1>16. ASSUME NEW r \in Req, NotLastAdmin(r) PROVE IInv'
  <2>1. /\ call' \in [Req -> Call] /\ call'[r].pc = "write" /\ call'[r].row = call[r].row
        /\ call'[r].was = call[r].was /\ call'[r].op = call[r].op /\ call'[r].role = call[r].role
        /\ \A q \in Req \ {r} : call'[q] = call[q]
    BY <1>16, <1>t, GotoTyped DEF NotLastAdmin, Pc
  <2>2. UNCHANGED <<members, invitations, orgLock>> /\ call[r].pc = "count"
    BY <1>16 DEF NotLastAdmin
  <2>3. TypeOK' /\ AdminRemains' /\ OneEach' /\ AuditTellsTheTruth'
    BY <2>1, <2>2 DEF IInv, TypeOK, AdminRemains, Admins, OneEach, OneSeat, OnePending,
                      AuditTellsTheTruth
  <2>4. Rows' /\ LockHeld' /\ Fresh'
    BY <2>1, <2>2 DEF IInv, Rows, LockHeld, Fresh
  <2>5. ASSUME DropsAdmin(call[r]) PROVE \E m \in Admins : m # call[r].row
    <3>1. Cardinality(Admins) > 1
      BY <1>16, <2>5 DEF NotLastAdmin
    <3>2. SUFFICES ASSUME Admins \subseteq {call[r].row} PROVE FALSE
      OBVIOUS
    <3>3. Admins = {} \/ Admins = {call[r].row}
      BY <3>2
    <3>4. Cardinality(Admins) = 0 \/ Cardinality(Admins) = 1
      BY <3>3, FS_EmptySet, FS_Singleton
    <3> QED BY <3>1, <3>4
  <2>6. DropsAdmin(call'[r]) => DropsAdmin(call[r])
    BY <2>1 DEF DropsAdmin
  <2>7. Admins' = Admins
    BY <2>2 DEF Admins
  <2>8. Covered'
    <3> SUFFICES ASSUME NEW q \in Req, call'[q].pc = "write", DropsAdmin(call'[q])
                 PROVE  \E m \in Admins' : m # call'[q].row
      BY DEF Covered
    <3>1. CASE q = r
      BY <3>1, <2>1, <2>5, <2>6, <2>7
    <3>2. CASE q # r
      <4>1. call'[q] = call[q]
        BY <3>2, <2>1
      <4> QED BY <4>1, <2>7 DEF IInv, Covered
    <3> QED BY <3>1, <3>2
  <2> QED BY <2>3, <2>4, <2>8 DEF IInv
<1>17. ASSUME NEW r \in Req, UpdateRole(r) \/ SoftDelete(r) PROVE IInv'
  <2>1. PICK m \in DOMAIN members : m = call[r].row
    BY <1>17 DEF UpdateRole, SoftDelete, IInv, Rows
  <2>2. /\ call[r].pc = "write" /\ members[m].active
        /\ EndTx(r) /\ UNCHANGED invitations
    BY <1>17, <2>1 DEF UpdateRole, SoftDelete
  <2>3. call[r].was = members[m].role
    BY <2>1, <2>2 DEF IInv, Fresh
  <2>4. members[m] \in Seat /\ Truthful(members[m]) /\ call[r].role \in Role
    BY <1>t DEF IInv, AuditTellsTheTruth, Call
  <2>5. CASE UpdateRole(r)
    <3> DEFINE row == WithRole(members[m], members[m].role, call[r].role)
    <3>1. members' = [members EXCEPT ![m] = row] /\ call[r].op = "change"
      BY <2>1, <2>3, <2>5 DEF UpdateRole
    <3>2. /\ row \in Seat /\ Truthful(row) /\ row.user = members[m].user
          /\ row.active /\ row.role = call[r].role
      BY <2>2, <2>4, WithRoleTruthful
    <3> HIDE DEF row
    <3>3. DropsAdmin(call[r]) \/ (members[m].role = Admin => row.active /\ row.role = Admin)
      BY <2>3, <3>2 DEF DropsAdmin
    <3> QED BY <2>1, <2>2, <3>1, <3>2, <3>3, RowStep
  <2>6. CASE SoftDelete(r)
    <3> DEFINE row == Deleted(members[m], members[m].role)
    <3>1. members' = [members EXCEPT ![m] = row] /\ call[r].op = "remove"
      BY <2>1, <2>3, <2>6 DEF SoftDelete
    <3>2. row \in Seat /\ Truthful(row) /\ row.user = members[m].user /\ ~row.active
      BY <2>2, <2>4, DeletedTruthful
    <3> HIDE DEF row
    <3>3. DropsAdmin(call[r]) \/ (members[m].role = Admin => row.active /\ row.role = Admin)
      BY <2>3, <3>1 DEF DropsAdmin
    <3> QED BY <2>1, <2>2, <3>1, <3>2, <3>3, RowStep
  <2> QED BY <1>17, <2>5, <2>6
<1>18. ASSUME NEW r \in Req, NEW m \in DOMAIN members, NEW role \in Role,
              NEW version \in 1..members[m].version, ArriveChange(r, m, role, version)
       PROVE  IInv'
  <2>1. members[m] \in Seat
    BY <1>t
  <2>2. version \in Nat
    BY <2>1 DEF Seat
  <2> QED BY <1>13, <1>18, <2>2 DEF ArriveChange
<1>19. ASSUME NEW r \in Req, NEW m \in DOMAIN members, ArriveRemove(r, m) PROVE IInv'
  BY <1>13, <1>19, MembershipAssumption DEF ArriveRemove
<1> QED BY <1>1, <1>2, <1>3, <1>4, <1>5, <1>6, <1>7, <1>8, <1>9, <1>10, <1>11, <1>12,
           <1>14, <1>15, <1>16, <1>17, <1>18, <1>19 DEF Next, Serve

THEOREM Invariance == Spec => []IInv
<1> QED BY InitIInv, NextIInv, PTL DEF Spec

\* Rows, the lock and the requests are well typed in every reachable state.
THEOREM TypeCorrect == Spec => []TypeOK
<1>1. IInv => TypeOK
  BY DEF IInv
<1> QED BY <1>1, Invariance, PTL

\* However many administrators are demoted and removed at once, one remains.
THEOREM AnAdminRemains == Spec => []AdminRemains
<1>1. IInv => AdminRemains
  BY DEF IInv
<1> QED BY <1>1, Invariance, PTL

\* Nobody has two seats, and no address two pending invitations.
THEOREM SeatsAreSingle == Spec => []OneEach
<1>1. IInv => OneEach
  BY DEF IInv
<1> QED BY <1>1, Invariance, PTL

\* The audit log of a membership is its history, record by record.
THEOREM AuditIsTrue == Spec => []AuditTellsTheTruth
<1>1. IInv => AuditTellsTheTruth
  BY DEF IInv
<1> QED BY <1>1, Invariance, PTL


(***************************************************************************)
(*                               Calendars                                 *)
(***************************************************************************)
-----------------------------------------------------------------------------
(* The rows.                                                               *)

\* What is live is in what is live.
Housed ==
  /\ \A p \in Plan : hold[p].batch = Live => proj[HomeOf[p]] = Live
  /\ \A a \in Activity : hold[a].batch = Live => hold[PlanOf[a]].batch = Live

\* A calendar suits whatever is bound to it, deleted or not.
Suits(c, h) == cal[c].batch # Absent /\ cal[c].home \in {Org, Area(h)}
Suited ==
  \A h \in Holder : hold[h].batch # Absent /\ hold[h].cal # NoCal => Suits(hold[h].cal, h)

\* c is live or comes back with a project that was deleted with it.
Anchored(c) ==
  \/ cal[c].batch = Live
  \/ cal[c].batch \in Batch /\ \E x \in Project : proj[x] = cal[c].batch
Moored == \A h \in Holder : hold[h].batch = Live /\ hold[h].cal # NoCal => Anchored(hold[h].cal)

\* What one delete took of the holders is under one project or plan, or is one.
Rooted ==
  /\ \A a \in Activity : hold[a].batch \in Batch =>
       \/ hold[PlanOf[a]].batch = hold[a].batch
       \/ /\ \A h \in Holder : hold[h].batch = hold[a].batch => h = a
          /\ \A x \in Project : proj[x] # hold[a].batch
  /\ \A p \in Plan : hold[p].batch \in Batch =>
       \/ proj[HomeOf[p]] = hold[p].batch
       \/ \A h \in Holder : hold[h].batch = hold[p].batch => h \in Under(p)
  /\ \A r \in Resource : hold[r].batch \in Batch =>
       \A h \in Holder : hold[h].batch = hold[r].batch => h = r
  /\ \A x \in Project : proj[x] \in Batch =>
       \A h \in Holder : hold[h].batch = proj[x] => h \notin Resource /\ Area(h) = x

RowsOK == Housed /\ Suited /\ Moored /\ Rooted

-----------------------------------------------------------------------------
(* The requests.                                                           *)

Locks(q) == req[q].todo \cup req[q].holds

\* The calendar q is about to bind is what it was found to be under its lock.
Settled(q) ==
  LET c == req[q].cal
  IN  c # NoCal => c \in req[q].holds /\ Anchored(c) /\ Suits(c, req[q].of)

\* The project of the plan q brings in is shared, the plan of the activity locked.
ProjectShared(q) == HomeOf[req[q].of] \in req[q].share /\ proj[HomeOf[req[q].of]] = Live
PlanLocked(q) == PlanOf[req[q].of] \in req[q].holds
PlanLive(q) == hold[PlanOf[req[q].of]].batch = Live

Adding(q) ==
  /\ req[q].of \in Holder /\ hold[req[q].of].batch = Absent
  /\ req[q].at \in {"share", "plans", "calendars", "commit"}
  /\ req[q].of \in Plan => req[q].at # "plans"
  /\ req[q].of \in Plan /\ req[q].at # "share" => ProjectShared(q)
  /\ req[q].of \in Activity => req[q].at # "share" /\ PlanOf[req[q].of] \in Locks(q)
  /\ req[q].of \in Activity /\ req[q].at # "plans" => PlanLocked(q) /\ PlanLive(q)
  /\ req[q].of \in Resource => req[q].at \in {"calendars", "commit"}
  /\ req[q].at = "calendars" => req[q].cal = NoCal \/ req[q].cal \in Locks(q)
  /\ req[q].at = "commit" => Settled(q)

Binding(q) ==
  /\ req[q].of \in Holder
  /\ req[q].at \in {"plans", "calendars", "commit"}
  /\ req[q].at = "calendars" => req[q].cal = NoCal \/ req[q].cal \in Locks(q)
  /\ req[q].at = "commit" => Settled(q)

Creating(q) == req[q].of \in Calendar /\ cal[req[q].of].batch = Absent

Moving(q) ==
  /\ req[q].of \in Calendar
  /\ req[q].home # Org =>
       /\ req[q].of \in Locks(q)
       /\ req[q].at = "commit" =>
            req[q].of \in req[q].holds /\ NarrowingAllowed(req[q].of, req[q].home)

Removing(q) ==
  req[q].at = "commit" => req[q].todo = {} /\ \A c \in Calendar \cap req[q].holds : ~InUse(c)

\* A calendar of the batch is locked, and comes back if it is not there.
Kept(q, c) ==
  /\ c \in req[q].holds
  /\ cal[c].batch = req[q].batch \/ Anchored(c) \/ c \in req[q].found

Restoring(q) ==
  /\ req[q].batch \in Batch
  /\ req[q].of \in Calendar \cup Project \cup Holder
  /\ req[q].of \in Plan =>
       /\ req[q].at \in {"share", "calendars", "commit"}
       /\ req[q].at # "share" => ProjectShared(q)
  /\ req[q].of \in Activity =>
       /\ req[q].at \in {"plans", "calendars", "commit"} /\ PlanOf[req[q].of] \in Locks(q)
       /\ req[q].at # "plans" => PlanLocked(q)
       /\ req[q].at = "commit" => PlanLive(q)
  /\ req[q].of \in Resource \cup Project => req[q].at \in {"calendars", "commit"}
  /\ req[q].of \in Calendar /\ req[q].at = "share" => req[q].home # Org
  /\ \A c \in req[q].found : cal[c].batch # Absent
  /\ req[q].of \notin Calendar =>
       /\ req[q].at # "plans" => CalsOf(req[q].batch) \subseteq Locks(q)
       /\ req[q].at = "commit" => \A c \in CalsOf(req[q].batch) : Kept(q, c)

Sweeping(q) ==
  /\ req[q].of \in Project
  /\ req[q].at \in {"row", "plans", "commit"}
  /\ req[q].at # "row" =>
       /\ req[q].of \in req[q].row /\ proj[req[q].of] = Live
       /\ \A p \in PlansIn(req[q].of) : hold[p].batch = Live => p \in Locks(q)

Good(q) ==
  /\ req[q].op = "add" => Adding(q)
  /\ req[q].op = "bind" => Binding(q)
  /\ req[q].op = "new" => Creating(q)
  /\ req[q].op = "move" => Moving(q)
  /\ req[q].op = "remove" => Removing(q)
  /\ req[q].op = "restore" => Restoring(q)
  /\ req[q].op = "sweep" => Sweeping(q)

\* Two requests hold no lock against each other, and what is new is one's.
Apart(q, u) ==
  /\ req[q].holds \cap req[u].holds = {}
  /\ req[q].row \cap (req[u].row \cup req[u].share) = {}
  /\ req[q].op \in {"add", "new"} => req[u].of # req[q].of

CalendarsIInv ==
  /\ CalendarsTypeOK /\ RowsOK
  /\ \A q \in Slot : Good(q)
  /\ \A q, u \in Slot : q # u => Apart(q, u)

-----------------------------------------------------------------------------
(* Kinds of rows.                                                          *)

LEMMA Kinds ==
  /\ \A p \in Plan : /\ p \in Holder /\ p \notin Activity /\ p \notin Resource
                     /\ p \notin Calendar /\ p \notin Project
                     /\ HomeOf[p] \in Project /\ Area(p) = HomeOf[p]
  /\ \A a \in Activity : /\ a \in Holder /\ a \notin Plan /\ a \notin Resource
                         /\ a \notin Calendar /\ a \notin Project
                         /\ PlanOf[a] \in Plan /\ Area(a) = HomeOf[PlanOf[a]]
  /\ \A r \in Resource : /\ r \in Holder /\ r \notin Plan /\ r \notin Activity
                         /\ r \notin Calendar /\ r \notin Project /\ Area(r) = Org
  /\ \A c \in Calendar : c \notin Project /\ c \notin Holder
  /\ \A x \in Project : x \notin Calendar /\ x \notin Holder /\ x # Org
  BY CalendarsAssumption DEF Holder, Area

LEMMA Batches ==
  /\ Live \notin Batch /\ Absent \notin Batch /\ Live # Absent
  /\ \A c \in Calendar : BatchOf(c) = cal[c].batch
  /\ \A x \in Project : BatchOf(x) = proj[x]
  /\ \A h \in Holder : BatchOf(h) = hold[h].batch
  BY Kinds, CalendarsAssumption DEF BatchOf

\* A fresh batch is nobody's.
LEMMA FreshForAll ==
  ASSUME NEW b \in Batch, FreshBatch(b)
  PROVE  /\ \A c \in Calendar : cal[c].batch # b
         /\ \A x \in Project : proj[x] # b
         /\ \A h \in Holder : hold[h].batch # b
         /\ \A u \in Slot : req[u].batch # b
  BY Batches DEF FreshBatch

-----------------------------------------------------------------------------
(* What the others do.                                                     *)

\* u is where it was.
Same(u) ==
  /\ req'[u].op = req[u].op /\ req'[u].at = req[u].at /\ req'[u].of = req[u].of
  /\ req'[u].cal = req[u].cal /\ req'[u].home = req[u].home
  /\ req'[u].batch = req[u].batch /\ req'[u].todo = req[u].todo
  /\ req'[u].holds = req[u].holds /\ req'[u].share = req[u].share
  /\ req'[u].row = req[u].row /\ req'[u].found = req[u].found

\* What the others leave to u: the rows it has locked, the row it is to create,
\* and the batch it is to restore.
Beside(u) ==
  /\ req[u].op = "add" => hold'[req[u].of].batch = hold[req[u].of].batch
  /\ req[u].op = "new" => cal'[req[u].of].batch = cal[req[u].of].batch
  /\ \A c \in Calendar : cal[c].batch # Absent => cal'[c].batch # Absent
  /\ \A x \in req[u].share \cup req[u].row : proj[x] = Live => proj'[x] = Live
  /\ \A p \in Plan \cap req[u].holds : hold[p].batch = Live => hold'[p].batch = Live
  /\ \A c \in Calendar \cap req[u].holds :
       /\ cal[c].batch # Absent => cal'[c].home \in {cal[c].home, Org}
       /\ Anchored(c) => Anchored(c)'
       /\ cal'[c].batch = cal[c].batch \/ Anchored(c)'
       /\ \A h \in Holder : hold'[h].cal = c /\ hold'[h].batch # Absent =>
            /\ hold[h].cal = c /\ hold[h].batch # Absent
            /\ hold'[h].batch = Live => hold[h].batch = Live
  /\ \A h \in Holder : hold'[h].batch = req[u].batch /\ req[u].batch \in Batch =>
       hold[h].batch = req[u].batch /\ hold'[h].cal = hold[h].cal
  /\ \A p \in Plan : HomeOf[p] \in req[u].row /\ proj[HomeOf[p]] = Live /\ hold'[p].batch = Live =>
       hold[p].batch = Live

LEMMA SettledStays ==
  ASSUME NEW u \in Slot, CalendarsTypeOK, Settled(u), Same(u), Beside(u)
  PROVE  Settled(u)'
<1>1. req[u].cal \in Calendar \cup {NoCal}
  BY DEF CalendarsTypeOK, Request, Bound
<1>2. CASE req[u].cal = NoCal
  BY <1>2 DEF Settled, Same
<1>3. CASE req[u].cal \in Calendar /\ req[u].cal # NoCal
  <2>0. PICK c \in Calendar : c = req[u].cal
    BY <1>3
  <2>1. c \in req[u].holds /\ Anchored(c) /\ Suits(c, req[u].of)
    BY <1>3, <2>0 DEF Settled
  <2>2. Anchored(c)' /\ cal'[c].batch # Absent /\ cal'[c].home \in {cal[c].home, Org}
    BY <2>1 DEF Beside, Suits
  <2>3. Suits(c, req[u].of)'
    BY <2>1, <2>2 DEF Suits, Same, Area
  <2> QED BY <2>0, <2>1, <2>2, <2>3 DEF Settled, Same
<1> QED BY <1>1, <1>2, <1>3

LEMMA AddingStays ==
  ASSUME NEW u \in Slot, CalendarsTypeOK, Adding(u), req[u].op = "add", Same(u), Beside(u)
  PROVE  Adding(u)'
<1>1. req[u].at = "commit" => Settled(u)'
  BY SettledStays DEF Adding
<1>2. ProjectShared(u) => ProjectShared(u)'
  BY DEF ProjectShared, Same, Beside
<1>3. req[u].of \in Activity /\ PlanLocked(u) /\ PlanLive(u) => PlanLocked(u)' /\ PlanLive(u)'
  BY Kinds DEF PlanLocked, PlanLive, Same, Beside
<1> QED BY <1>1, <1>2, <1>3 DEF Adding, Same, Beside, Locks

LEMMA MovingStays ==
  ASSUME NEW u \in Slot, CalendarsTypeOK, Moving(u), Same(u), Beside(u)
  PROVE  Moving(u)'
<1> DEFINE c == req[u].of
<1>1. ASSUME c \in req[u].holds, NarrowingAllowed(c, req[u].home)
      PROVE  NarrowingAllowed(c, req[u].home)'
  <2>1. c \in Calendar \cap req[u].holds
    BY <1>1 DEF Moving
  <2>2. \A h \in Holder : hold'[h].cal = c /\ hold'[h].batch # Absent =>
          hold[h].cal = c /\ hold[h].batch # Absent
    BY <2>1 DEF Beside
  <2>3. \A h \in Holder : hold'[h].cal = c /\ hold'[h].batch # Absent => Area(h) = req[u].home
    BY <1>1, <2>2 DEF NarrowingAllowed, Users
  <2> QED BY <2>3 DEF NarrowingAllowed, Users, Same, Area
<1>2. /\ req'[u].of = c /\ req'[u].home = req[u].home /\ req'[u].at = req[u].at
      /\ Locks(u)' = Locks(u) /\ req'[u].holds = req[u].holds
  BY DEF Same, Locks
<1> QED BY <1>1, <1>2 DEF Moving

LEMMA RemovingStays ==
  ASSUME NEW u \in Slot, Removing(u), Same(u), Beside(u)
  PROVE  Removing(u)'
<1> SUFFICES ASSUME req[u].at = "commit", NEW c \in Calendar \cap req[u].holds, InUse(c)'
             PROVE  FALSE
  BY DEF Removing, Same
<1>1. PICK h \in Holder : hold'[h].cal = c /\ hold'[h].batch = Live
  BY Kinds DEF InUse, Users, IsLive, BatchOf
<1>2. hold[h].cal = c /\ hold[h].batch = Live
  BY <1>1, Batches DEF Beside
<1>3. InUse(c)
  BY <1>2, Batches DEF InUse, Users, IsLive
<1> QED BY <1>3 DEF Removing

LEMMA RestoringStays ==
  ASSUME NEW u \in Slot, CalendarsTypeOK, Restoring(u), Same(u), Beside(u)
  PROVE  Restoring(u)'
<1> DEFINE b == req[u].batch
<1>1. b \in Batch /\ req'[u].batch = b
  BY DEF Restoring, Same
<1>2. \A h \in Holder : hold'[h].batch = b => hold[h].batch = b /\ hold'[h].cal = hold[h].cal
  BY <1>1 DEF Beside
<1>3. CalsOf(req[u].batch)' \subseteq CalsOf(req[u].batch)
  BY <1>1, <1>2 DEF CalsOf, Members
<1>4. req[u].of \in Plan /\ ProjectShared(u) => ProjectShared(u)'
  BY DEF ProjectShared, Same, Beside
<1>5. req[u].of \in Activity /\ PlanLocked(u) => PlanLocked(u)'
  BY DEF PlanLocked, Same
<1>6. req[u].of \in Activity /\ PlanLocked(u) /\ PlanLive(u) => PlanLive(u)'
  BY Kinds DEF PlanLocked, PlanLive, Same, Beside
<1>7. ASSUME NEW c \in CalsOf(req[u].batch)', Kept(u, c) PROVE Kept(u, c)'
  <2>1. c \in CalsOf(req[u].batch)
    BY <1>3, <1>7
  <2>2. c \in Calendar
    BY <2>1 DEF CalsOf, Members, CalendarsTypeOK, Bound
  <2> QED BY <1>7, <2>2 DEF Kept, Same, Beside
<1>8. Locks(u)' = Locks(u)
  BY DEF Locks, Same
<1>9. \A c \in req[u].found : cal'[c].batch # Absent
  BY DEF Restoring, Beside, CalendarsTypeOK, Request
<1>10. /\ req'[u].of = req[u].of /\ req'[u].at = req[u].at /\ req'[u].home = req[u].home
       /\ req'[u].found = req[u].found
  BY DEF Same
<1>11. req[u].of \notin Calendar =>
       /\ req[u].at # "plans" => CalsOf(req[u].batch)' \subseteq Locks(u)'
       /\ req[u].at = "commit" => \A c \in CalsOf(req[u].batch)' : Kept(u, c)'
  BY <1>3, <1>7, <1>8 DEF Restoring
<1> QED BY <1>1, <1>4, <1>5, <1>6, <1>8, <1>9, <1>10, <1>11 DEF Restoring

LEMMA SweepingStays ==
  ASSUME NEW u \in Slot, Sweeping(u), Same(u), Beside(u)
  PROVE  Sweeping(u)'
<1>1. /\ req'[u].of = req[u].of /\ req'[u].at = req[u].at /\ req'[u].row = req[u].row
      /\ Locks(u)' = Locks(u)
  BY DEF Same, Locks
<1>2. ASSUME req[u].at # "row" PROVE proj'[req[u].of] = Live
  BY <1>2 DEF Sweeping, Beside
<1>3. ASSUME req[u].at # "row", NEW p \in PlansIn(req[u].of), hold'[p].batch = Live
      PROVE  p \in Locks(u)
  <2>1. p \in Plan /\ HomeOf[p] = req[u].of
    BY DEF PlansIn
  <2>2. hold[p].batch = Live
    BY <1>3, <2>1 DEF Sweeping, Beside
  <2> QED BY <1>3, <2>2 DEF Sweeping
<1> QED BY <1>1, <1>2, <1>3 DEF Sweeping, PlansIn

LEMMA GoodStays ==
  ASSUME NEW u \in Slot, CalendarsTypeOK, Good(u), Same(u), Beside(u)
  PROVE  Good(u)'
<1>1. req'[u].op = req[u].op
  BY DEF Same
<1>2. req[u].op = "add" => Adding(u)'
  BY AddingStays DEF Good
<1>3. req[u].op = "bind" => Binding(u)'
  BY SettledStays DEF Good, Binding, Same, Locks
<1>4. req[u].op = "new" => Creating(u)'
  BY DEF Good, Creating, Same, Beside
<1>5. req[u].op = "move" => Moving(u)'
  BY MovingStays DEF Good
<1>6. req[u].op = "remove" => Removing(u)'
  BY RemovingStays DEF Good
<1>7. req[u].op = "restore" => Restoring(u)'
  BY RestoringStays DEF Good
<1>8. req[u].op = "sweep" => Sweeping(u)'
  BY SweepingStays DEF Good
<1> QED BY <1>1, <1>2, <1>3, <1>4, <1>5, <1>6, <1>7, <1>8 DEF Good

-----------------------------------------------------------------------------
(* One request moves and the others stay.                                  *)

LEMMA IdleIsGood ==
  /\ Idle \in Request
  /\ Idle.op = "idle" /\ Idle.of = Nobody /\ Idle.batch = Live
  /\ Idle.holds = {} /\ Idle.row = {} /\ Idle.share = {}
  /\ \A u \in Slot : req[u] = Idle => Good(u)
<1>1. Idle \in Request
  BY DEF Idle, Request, State, Bound
<1> QED BY <1>1 DEF Idle, Good

\* A request about a new row is about a row.
LEMMA NewOnesAreRows ==
  ASSUME NEW u \in Slot, Good(u), req[u].op \in {"add", "new"}
  PROVE  /\ req[u].of \in Holder \cup Calendar /\ req[u].of # Nobody
         /\ req[u].of \notin Project /\ BatchOf(req[u].of) = Absent
BY Kinds, Batches, CalendarsAssumption DEF Good, Adding, Creating

\* What is live, or was deleted, is no row that a request is to create.
LEMMA NotAboutNew ==
  ASSUME CalendarsIInv, NEW r \in Holder \cup Calendar \cup Project \cup {Nobody},
         r # Nobody => BatchOf(r) # Absent
  PROVE  \A u \in Slot : req[u].op \in {"add", "new"} => r # req[u].of
BY NewOnesAreRows DEF CalendarsIInv

LEMMA OthersKeep ==
  ASSUME CalendarsIInv, CalendarsTypeOK', RowsOK',
         \A u \in Slot : req'[u] = Idle \/ (Same(u) /\ Beside(u))
  PROVE  CalendarsIInv'
<1>1. ASSUME NEW u \in Slot PROVE Good(u)'
  <2>1. CASE req'[u] = Idle
    BY <2>1, IdleIsGood DEF Good
  <2>2. CASE Same(u) /\ Beside(u)
    BY <2>2, GoodStays DEF CalendarsIInv
  <2> QED BY <2>1, <2>2
<1>2. ASSUME NEW q \in Slot, NEW u \in Slot, q # u PROVE Apart(q, u)'
  <2>1. CASE req'[q] = Idle
    BY <2>1, IdleIsGood DEF Apart
  <2>2. CASE Same(q) /\ req'[u] = Idle
    <3>1. req[q].op \in {"add", "new"} => req[q].of # Nobody
      BY NewOnesAreRows DEF CalendarsIInv
    <3> QED BY <2>2, <3>1, IdleIsGood DEF Apart, Same
  <2>3. CASE Same(q) /\ Same(u)
    BY <1>2, <2>3 DEF CalendarsIInv, Apart, Same
  <2> QED BY <2>1, <2>2, <2>3
<1> QED BY <1>1, <1>2 DEF CalendarsIInv

\* Nothing is written, nothing is lost.
LEMMA QuietBeside ==
  ASSUME NEW u \in Slot, UNCHANGED <<cal, proj, hold>>
  PROVE  Beside(u) /\ (RowsOK => RowsOK')
<1>1. \A c : Anchored(c)' = Anchored(c)
  BY DEF Anchored
<1>2. Beside(u)
  BY <1>1 DEF Beside
<1>3. RowsOK => RowsOK'
  BY <1>1 DEF RowsOK, Housed, Suited, Suits, Moored, Rooted
<1> QED BY <1>2, <1>3

LEMMA StepKeeps ==
  ASSUME CalendarsIInv, NEW q \in Slot, NEW c \in Request, Step(q, c), Good(q)',
         \A u \in Slot \ {q} :
           /\ c.holds \cap req[u].holds = {}
           /\ c.row \cap (req[u].row \cup req[u].share) = {}
           /\ req[u].row \cap c.share = {}
           /\ c.op \in {"add", "new"} => req[u].of # c.of
           /\ req[u].op \in {"add", "new"} => c.of # req[u].of
  PROVE  CalendarsIInv'
<1>1. /\ req'[q] = c /\ UNCHANGED <<cal, proj, hold>>
      /\ \A u \in Slot \ {q} : req'[u] = req[u]
  BY DEF Step, CalendarsIInv, CalendarsTypeOK
<1>2. CalendarsTypeOK'
  BY <1>1 DEF Step, CalendarsIInv, CalendarsTypeOK
<1>3. RowsOK'
  BY <1>1, QuietBeside DEF CalendarsIInv
<1>4. ASSUME NEW u \in Slot PROVE Good(u)'
  <2>1. CASE u = q
    BY <2>1
  <2>2. CASE u # q
    <3>1. Same(u) /\ Beside(u)
      BY <1>1, <2>2, QuietBeside DEF Same
    <3> QED BY <3>1, GoodStays DEF CalendarsIInv
  <2> QED BY <2>1, <2>2
<1>5. ASSUME NEW v \in Slot, NEW u \in Slot, v # u PROVE Apart(v, u)'
  <2>1. CASE v = q
    BY <1>1, <1>5, <2>1 DEF Apart
  <2>2. CASE u = q
    <3>1. Apart(v, u)
      BY <1>5 DEF CalendarsIInv
    <3> QED BY <1>1, <1>5, <2>2, <3>1 DEF Apart
  <2>3. CASE v # q /\ u # q
    BY <1>1, <1>5, <2>3 DEF Apart, CalendarsIInv
  <2> QED BY <2>1, <2>2, <2>3
<1> QED BY <1>2, <1>3, <1>4, <1>5 DEF CalendarsIInv

\* A step that takes and gives back no lock.
LEMMA OnwardKeeps ==
  ASSUME CalendarsIInv, NEW q \in Slot, NEW c \in Request, Step(q, c), Good(q)',
         c.op = req[q].op, c.of = req[q].of,
         c.holds = req[q].holds, c.row = req[q].row, c.share = req[q].share
  PROVE  CalendarsIInv'
<1>1. \A u \in Slot \ {q} : Apart(q, u) /\ Apart(u, q)
  BY DEF CalendarsIInv
<1> QED BY <1>1, StepKeeps DEF Apart

LEMMA RefusedKeeps ==
  ASSUME CalendarsIInv, NEW q \in Slot, Refused(q)
  PROVE  CalendarsIInv'
<1>1. Step(q, Idle)
  BY DEF Refused
<1>2. /\ req'[q] = Idle /\ UNCHANGED <<cal, proj, hold>>
      /\ \A u \in Slot \ {q} : req'[u] = req[u]
  BY <1>1 DEF Step, CalendarsIInv, CalendarsTypeOK
<1>3. CalendarsTypeOK'
  BY <1>1, IdleIsGood DEF Step, CalendarsIInv, CalendarsTypeOK
<1>4. RowsOK' /\ \A u \in Slot : Beside(u)
  BY <1>2, QuietBeside DEF CalendarsIInv
<1> QED BY <1>2, <1>3, <1>4, OthersKeep DEF Same

\* A request that starts has nothing yet.
LEMMA BeginKeeps ==
  ASSUME CalendarsIInv, NEW q \in Slot, NEW c \in Request, Begin(q, c), Good(q)',
         c.holds = {}, c.row = {}, c.share = {}, 
         c.op \in {"add", "new"} => \A u \in Slot \ {q} : req[u].of # c.of,
         \A u \in Slot \ {q} : req[u].op \in {"add", "new"} => c.of # req[u].of
  PROVE  CalendarsIInv'
<1>1. Step(q, c)
  BY DEF Begin, Step
<1> QED BY <1>1, StepKeeps

-----------------------------------------------------------------------------
(* A request commits.                                                      *)

LEMMA CommitFields ==
  ASSUME CalendarsTypeOK, NEW q \in Slot, NEW S, Commit(q, S)
  PROVE  /\ req' \in [Slot -> Request]
         /\ req'[q] = Idle
         /\ \A u \in Slot \ {q} : Same(u)
<1>1. ASSUME NEW u \in Slot, u # q PROVE req'[u] \in Request /\ Same(u)
  <2>1. PICK r \in Request : r = req[u]
    BY DEF CalendarsTypeOK
  <2>2. PICK f \in BOOLEAN : f = (r.current /\ r.of \notin S)
    BY DEF Request
  <2>3. req'[u] = [r EXCEPT !.current = f]
    BY <1>1, <2>1, <2>2 DEF Commit
  <2> QED BY <2>1, <2>3 DEF Request, Same
<1>2. req'[q] = Idle
  BY DEF Commit
<1>3. req' \in [Slot -> Request]
  BY <1>1, <1>2, IdleIsGood DEF Commit
<1> QED BY <1>1, <1>2, <1>3

LEMMA CommitKeeps ==
  ASSUME CalendarsIInv, NEW q \in Slot, NEW S, Commit(q, S),
         cal' \in [Calendar -> [batch: State, home: Project \cup {Org}]],
         proj' \in [Project -> State \ {Absent}],
         hold' \in [Holder -> [batch: State, cal: Bound]],
         RowsOK', \A u \in Slot \ {q} : Beside(u)
  PROVE  CalendarsIInv'
<1>1. /\ req' \in [Slot -> Request] /\ req'[q] = Idle
      /\ \A u \in Slot \ {q} : Same(u)
  BY CommitFields DEF CalendarsIInv
<1>2. CalendarsTypeOK'
  BY <1>1 DEF CalendarsTypeOK
<1> QED BY <1>1, <1>2, OthersKeep

-----------------------------------------------------------------------------
(* What is written: holders.                                               *)

\* Nothing is written of calendars and projects.
LEMMA SameCalendars ==
  ASSUME UNCHANGED <<cal, proj>>
  PROVE  /\ \A c : Anchored(c)' = Anchored(c)
         /\ \A c, h : Suits(c, h)' = Suits(c, h)
BY DEF Anchored, Suits, Area

\* The batch of what was deleted is the batch it had.
SameDead ==
  \A h \in Holder : hold'[h].batch \in Batch => hold'[h].batch = hold[h].batch
SameDeadProjects ==
  \A x \in Project : proj'[x] \in Batch => proj'[x] = proj[x]

\* A batch that some of the rows leave stays rooted if they all leave it.
LEMMA RootedStays ==
  ASSUME Rooted, SameDead, SameDeadProjects,
         \A g, h \in Holder : hold[g].batch = hold[h].batch /\ hold'[g].batch \in Batch =>
           hold'[h].batch = hold[h].batch,
         \A h \in Holder, x \in Project : proj[x] = hold[h].batch /\ hold'[h].batch \in Batch =>
           proj'[x] = proj[x]
  PROVE  Rooted'
<1>1. ASSUME NEW a \in Activity, hold'[a].batch \in Batch
      PROVE  \/ hold'[PlanOf[a]].batch = hold'[a].batch
             \/ /\ \A h \in Holder : hold'[h].batch = hold'[a].batch => h = a
                /\ \A x \in Project : proj'[x] # hold'[a].batch
  BY <1>1, Kinds DEF Rooted, SameDead, SameDeadProjects
<1>2. ASSUME NEW p \in Plan, hold'[p].batch \in Batch
      PROVE  \/ proj'[HomeOf[p]] = hold'[p].batch
             \/ \A h \in Holder : hold'[h].batch = hold'[p].batch => h \in Under(p)
  BY <1>2, Kinds DEF Rooted, SameDead, SameDeadProjects
<1>3. ASSUME NEW r \in Resource, hold'[r].batch \in Batch
      PROVE  \A h \in Holder : hold'[h].batch = hold'[r].batch => h = r
  BY <1>3, Kinds DEF Rooted, SameDead
<1>4. ASSUME NEW x \in Project, proj'[x] \in Batch
      PROVE  \A h \in Holder : hold'[h].batch = proj'[x] => h \notin Resource /\ Area(h) = x
  BY <1>4 DEF Rooted, SameDead, SameDeadProjects
<1> QED BY <1>1, <1>2, <1>3, <1>4 DEF Rooted, Under, Area

LEMMA AddKeeps ==
  ASSUME CalendarsIInv, NEW q \in Slot, Add(q)
  PROVE  CalendarsIInv'
<1>1. Adding(q) /\ Settled(q) /\ req[q].at = "commit" /\ req[q].todo = {}
  BY DEF Add, At, CalendarsIInv, Good, Adding
<1>2. PICK h \in Holder : h = req[q].of
  BY <1>1 DEF Adding
<1>3. PICK k \in Bound : k = req[q].cal
  BY DEF CalendarsIInv, CalendarsTypeOK, Request
<1>4. hold[h].batch = Absent
  BY <1>1, <1>2 DEF Adding
<1>5. /\ hold' = [hold EXCEPT ![h] = [batch |-> Live, cal |-> k]]
      /\ UNCHANGED <<cal, proj>> /\ Commit(q, {})
  BY <1>2, <1>3 DEF Add
<1>6. hold' \in [Holder -> [batch: State, cal: Bound]]
  BY <1>5 DEF CalendarsIInv, CalendarsTypeOK, State
<1>7. /\ hold'[h].batch = Live /\ hold'[h].cal = k
      /\ \A g \in Holder \ {h} : hold'[g] = hold[g]
  BY <1>5 DEF CalendarsIInv, CalendarsTypeOK
<1>8. h \in Plan => HomeOf[h] \in req[q].share /\ proj[HomeOf[h]] = Live
  BY <1>1, <1>2 DEF Adding, ProjectShared
<1>9. h \in Activity => hold[PlanOf[h]].batch = Live /\ PlanOf[h] # h
  BY <1>1, <1>2, Kinds DEF Adding, PlanLive
<1>10. k # NoCal => k \in req[q].holds /\ Anchored(k) /\ Suits(k, h)
  BY <1>1, <1>2, <1>3 DEF Settled
<1>11. RowsOK'
  <2>1. Housed'
    BY <1>4, <1>5, <1>7, <1>8, <1>9, Kinds, CalendarsAssumption
    DEF CalendarsIInv, RowsOK, Housed
  <2>2. Suited' /\ Moored'
    BY <1>5, <1>7, <1>10, SameCalendars DEF CalendarsIInv, RowsOK, Suited, Moored
  <2>3. Rooted'
    BY <1>4, <1>5, <1>7, Batches, RootedStays
    DEF CalendarsIInv, RowsOK, SameDead, SameDeadProjects
  <2> QED BY <2>1, <2>2, <2>3 DEF RowsOK
<1>12. ASSUME NEW u \in Slot \ {q} PROVE Beside(u)
  <2>1. Apart(q, u) /\ Apart(u, q)
    BY DEF CalendarsIInv
  <2>2. req[u].op = "add" => req[u].of \in Holder \ {h}
    BY <1>2, <2>1, NewOnesAreRows DEF Apart, CalendarsIInv, Good, Adding
  <2>3. \A c \in Calendar \cap req[u].holds : c # k
    BY <1>10, <2>1, CalendarsAssumption DEF Apart
  <2>4. h \in Plan => HomeOf[h] \notin req[u].row
    BY <1>8, <2>1 DEF Apart
  <2>5. \A c : Anchored(c)' = Anchored(c)
    BY <1>5, SameCalendars
  <2>6. Live \notin Batch
    BY Batches
  <2> QED BY <1>4, <1>5, <1>7, <2>2, <2>3, <2>4, <2>5, <2>6, Kinds DEF Beside
<1> QED BY <1>5, <1>6, <1>11, <1>12, CommitKeeps DEF CalendarsIInv, CalendarsTypeOK

\* A holder that is there is bound to c instead, or to none.
LEMMA Rebound ==
  ASSUME CalendarsIInv, NEW h \in Holder, hold[h].batch = Live, NEW k \in Bound,
         hold' = [hold EXCEPT ![h].cal = k], UNCHANGED <<cal, proj>>,
         k # NoCal => Anchored(k) /\ Suits(k, h)
  PROVE  /\ hold' \in [Holder -> [batch: State, cal: Bound]]
         /\ RowsOK'
         /\ \A u \in Slot : (k # NoCal => k \notin req[u].holds) => Beside(u)
<1>1. hold' \in [Holder -> [batch: State, cal: Bound]]
  BY DEF CalendarsIInv, CalendarsTypeOK
<1>2. /\ hold'[h].batch = Live /\ hold'[h].cal = k
      /\ \A g \in Holder : hold'[g].batch = hold[g].batch
      /\ \A g \in Holder \ {h} : hold'[g].cal = hold[g].cal
  BY DEF CalendarsIInv, CalendarsTypeOK
<1>3. RowsOK'
  <2>1. Housed'
    BY <1>2, Kinds DEF CalendarsIInv, RowsOK, Housed
  <2>2. Suited' /\ Moored'
    BY <1>2, SameCalendars DEF CalendarsIInv, RowsOK, Suited, Moored
  <2>3. Rooted'
    BY <1>2, RootedStays DEF CalendarsIInv, RowsOK, SameDead, SameDeadProjects
  <2> QED BY <2>1, <2>2, <2>3 DEF RowsOK
<1>4. ASSUME NEW u \in Slot, k # NoCal => k \notin req[u].holds PROVE Beside(u)
  <2>1. \A c \in Calendar \cap req[u].holds : c # k
    BY <1>4, CalendarsAssumption
  <2>2. \A c : Anchored(c)' = Anchored(c)
    BY SameCalendars
  <2>3. req[u].op = "add" => req[u].of \in Holder
    BY DEF CalendarsIInv, Good, Adding
  <2> QED BY <1>2, <2>1, <2>2, <2>3, Batches, Kinds DEF Beside
<1> QED BY <1>1, <1>3, <1>4

LEMMA BindKeeps ==
  ASSUME CalendarsIInv, NEW q \in Slot, Bind(q)
  PROVE  CalendarsIInv'
<1>1. Binding(q) /\ Settled(q)
  BY DEF Bind, At, CalendarsIInv, Good, Binding
<1>2. PICK h \in Holder : h = req[q].of
  BY <1>1 DEF Binding
<1>3. PICK k \in Bound : k = req[q].cal
  BY DEF CalendarsIInv, CalendarsTypeOK, Request
<1>4. k # NoCal => k \in req[q].holds /\ Anchored(k) /\ Suits(k, h)
  BY <1>1, <1>2, <1>3 DEF Settled
<1>5. CASE Refused(q)
  BY <1>5, RefusedKeeps
<1>6. CASE /\ IsLive(h) /\ hold' = [hold EXCEPT ![h].cal = k]
           /\ Commit(q, {h}) /\ UNCHANGED <<cal, proj>>
  <2>1. hold[h].batch = Live
    BY <1>6, Batches DEF IsLive
  <2>2. \A u \in Slot \ {q} : k # NoCal => k \notin req[u].holds
    BY <1>4 DEF CalendarsIInv, Apart
  <2>3. /\ hold' \in [Holder -> [batch: State, cal: Bound]]
        /\ RowsOK' /\ \A u \in Slot \ {q} : Beside(u)
    BY <1>4, <1>6, <2>1, <2>2, Rebound
  <2> QED BY <1>6, <2>3, CommitKeeps DEF CalendarsIInv, CalendarsTypeOK
<1> QED BY <1>2, <1>3, <1>5, <1>6 DEF Bind

LEMMA UnbindKeeps ==
  ASSUME CalendarsIInv, NEW h \in Holder, Unbind(h)
  PROVE  CalendarsIInv'
<1>1. hold[h].batch = Live /\ NoCal \in Bound
  BY Batches DEF Unbind, IsLive, Bound
<1>2. /\ hold' \in [Holder -> [batch: State, cal: Bound]]
      /\ RowsOK' /\ \A u \in Slot : Beside(u)
  BY <1>1, Rebound DEF Unbind
<1>3. ASSUME NEW u \in Slot PROVE req'[u] \in Request /\ Same(u)
  <2>1. PICK r \in Request : r = req[u]
    BY DEF CalendarsIInv, CalendarsTypeOK
  <2>2. PICK f \in BOOLEAN : f = (r.current /\ r.of # h)
    BY DEF Request
  <2>3. req'[u] = [r EXCEPT !.current = f]
    BY <2>1, <2>2 DEF Unbind
  <2> QED BY <2>1, <2>3 DEF Request, Same
<1>4. CalendarsTypeOK'
  <2>1. req' \in [Slot -> Request]
    BY <1>3 DEF Unbind
  <2> QED BY <1>2, <2>1 DEF Unbind, CalendarsIInv, CalendarsTypeOK
<1> QED BY <1>2, <1>3, <1>4, OthersKeep

LEMMA Stamped ==
  ASSUME CalendarsIInv, NEW S, NEW b \in Batch, FreshBatch(b), hold' = StampHolders(S, b)
  PROVE  /\ hold' \in [Holder -> [batch: State, cal: Bound]]
         /\ \A g \in Holder :
              /\ hold'[g].cal = hold[g].cal
              /\ g \in S /\ hold[g].batch = Live => hold'[g].batch = b
              /\ g \notin S \/ hold[g].batch # Live => hold'[g].batch = hold[g].batch
              /\ hold[g].batch # b
<1>1. ASSUME NEW g \in Holder
      PROVE  /\ hold'[g] \in [batch: State, cal: Bound]
             /\ hold'[g].cal = hold[g].cal
             /\ g \in S /\ hold[g].batch = Live => hold'[g].batch = b
             /\ g \notin S \/ hold[g].batch # Live => hold'[g].batch = hold[g].batch
  <2>1. PICK r \in [batch: State, cal: Bound] : r = hold[g]
    BY DEF CalendarsIInv, CalendarsTypeOK
  <2>2. CASE g \in S /\ hold[g].batch = Live
    <3>1. hold'[g] = [r EXCEPT !.batch = b]
      BY <2>1, <2>2, Batches DEF StampHolders, IsLive
    <3> QED BY <2>1, <2>2, <3>1 DEF State
  <2>3. CASE ~(g \in S /\ hold[g].batch = Live)
    <3>1. hold'[g] = r
      BY <2>1, <2>3, Batches DEF StampHolders, IsLive
    <3> QED BY <2>1, <2>3, <3>1
  <2> QED BY <2>2, <2>3
<1>2. hold' \in [Holder -> [batch: State, cal: Bound]]
  BY <1>1 DEF StampHolders
<1> QED BY <1>1, <1>2, FreshForAll

\* Holders of a fresh batch leave the others what they have, but for the plans
\* that others have locked.
LEMMA StampedBeside ==
  ASSUME CalendarsIInv, NEW S, NEW b \in Batch, FreshBatch(b), hold' = StampHolders(S, b),
         NEW u \in Slot, UNCHANGED <<cal, proj>>,
         \A p \in Plan \cap req[u].holds : hold[p].batch = Live => p \notin S
  PROVE  Beside(u)
<1>1. \A c : Anchored(c)' = Anchored(c)
  BY SameCalendars
<1>2. req[u].op = "add" => req[u].of \in Holder /\ hold[req[u].of].batch = Absent
  BY DEF CalendarsIInv, Good, Adding
<1>3. req[u].batch # b
  BY FreshForAll
<1> QED BY <1>1, <1>2, <1>3, Stamped, Batches, Kinds DEF Beside

LEMMA DropKeeps ==
  ASSUME CalendarsIInv, NEW h \in Holder, NEW b \in Batch, Drop(h, b)
  PROVE  CalendarsIInv'
<1> DEFINE S == IF h \in Plan THEN Under(h) ELSE {h}
<1>1. /\ hold[h].batch = Live /\ FreshBatch(b) /\ hold' = StampHolders(S, b)
      /\ UNCHANGED <<cal, proj, req>>
  BY Batches DEF Drop, IsLive
<1>2. /\ h \in S
      /\ h \notin Plan => S = {h}
      /\ h \in Plan => \A g \in Holder : g \in S <=> g = h \/ (g \in Activity /\ PlanOf[g] = h)
  BY Kinds DEF Under
<1>3. \A u \in Slot : h \in Plan => h \notin req[u].holds
  BY DEF Drop, LockFree
<1> HIDE DEF S
<1>4. /\ hold' \in [Holder -> [batch: State, cal: Bound]]
      /\ \A g \in Holder :
           /\ hold'[g].cal = hold[g].cal
           /\ g \in S /\ hold[g].batch = Live => hold'[g].batch = b
           /\ g \notin S \/ hold[g].batch # Live => hold'[g].batch = hold[g].batch
           /\ hold[g].batch # b
  BY <1>1, Stamped
<1>5. \A x \in Project : proj[x] # b
  BY <1>1, FreshForAll
<1>6. RowsOK'
  <2>1. Housed'
    BY <1>1, <1>2, <1>4, Kinds, Batches DEF CalendarsIInv, RowsOK, Housed
  <2>2. Suited' /\ Moored'
    BY <1>1, <1>4, Batches, SameCalendars DEF CalendarsIInv, RowsOK, Suited, Moored
  <2>3. ASSUME NEW a \in Activity, hold'[a].batch \in Batch
        PROVE  \/ hold'[PlanOf[a]].batch = hold'[a].batch
               \/ /\ \A g \in Holder : hold'[g].batch = hold'[a].batch => g = a
                  /\ \A x \in Project : proj'[x] # hold'[a].batch
    <3>1. CASE hold'[a].batch # b
      BY <1>1, <1>4, <2>3, <3>1, Batches, Kinds DEF CalendarsIInv, RowsOK, Rooted
    <3>2. CASE hold'[a].batch = b
      <4>1. a \in S
        BY <1>4, <3>2, Kinds
      <4>2. \A g \in Holder : hold'[g].batch = b => g \in S
        BY <1>4
      <4> QED BY <1>1, <1>2, <1>4, <1>5, <3>2, <4>1, <4>2, Kinds
    <3> QED BY <3>1, <3>2
  <2>4. ASSUME NEW p \in Plan, hold'[p].batch \in Batch
        PROVE  \/ proj'[HomeOf[p]] = hold'[p].batch
               \/ \A g \in Holder : hold'[g].batch = hold'[p].batch => g \in Under(p)
    <3>1. CASE hold'[p].batch # b
      BY <1>1, <1>4, <2>4, <3>1, Batches, Kinds DEF CalendarsIInv, RowsOK, Rooted
    <3>2. CASE hold'[p].batch = b
      <4>1. p \in S
        BY <1>4, <3>2, Kinds
      <4>2. p = h /\ S = Under(p)
        BY <1>2, <4>1, Kinds DEF S
      <4> QED BY <1>4, <3>2, <4>2
    <3> QED BY <3>1, <3>2
  <2>5. ASSUME NEW r \in Resource, hold'[r].batch \in Batch
        PROVE  \A g \in Holder : hold'[g].batch = hold'[r].batch => g = r
    <3>1. CASE hold'[r].batch # b
      BY <1>1, <1>4, <2>5, <3>1, Batches, Kinds DEF CalendarsIInv, RowsOK, Rooted
    <3>2. CASE hold'[r].batch = b
      <4>1. r \in S
        BY <1>4, <3>2, Kinds
      <4>2. S = {r}
        BY <1>2, <4>1, Kinds
      <4> QED BY <1>4, <3>2, <4>2
    <3> QED BY <3>1, <3>2
  <2>6. ASSUME NEW x \in Project, proj'[x] \in Batch
        PROVE  \A g \in Holder : hold'[g].batch = proj'[x] => g \notin Resource /\ Area(g) = x
    BY <1>1, <1>4, <1>5, <2>6, Batches DEF CalendarsIInv, RowsOK, Rooted
  <2>7. Rooted'
    BY <2>3, <2>4, <2>5, <2>6 DEF Rooted, Under, Area
  <2> QED BY <2>1, <2>2, <2>7 DEF RowsOK
<1>7. ASSUME NEW u \in Slot PROVE Same(u) /\ Beside(u)
  <2>1. Same(u)
    BY <1>1 DEF Same
  <2>2. \A p \in Plan \cap req[u].holds : p \notin S
    BY <1>2, <1>3, Kinds
  <2> QED BY <1>1, <2>1, <2>2, StampedBeside
<1>8. CalendarsTypeOK'
  BY <1>1, <1>4 DEF CalendarsIInv, CalendarsTypeOK
<1> QED BY <1>6, <1>7, <1>8, OthersKeep

-----------------------------------------------------------------------------
(* What is written: calendars.                                             *)

\* Nothing is written of the holders and the projects.
LEMMA SameHolders ==
  ASSUME CalendarsIInv, UNCHANGED <<proj, hold>>
  PROVE  /\ Housed' /\ Rooted'
         /\ proj' \in [Project -> State \ {Absent}]
         /\ hold' \in [Holder -> [batch: State, cal: Bound]]
BY DEF CalendarsIInv, CalendarsTypeOK, RowsOK, Housed, Rooted

\* A calendar that is written leaves the others what they have.
LEMMA CalendarBeside ==
  ASSUME CalendarsIInv, NEW u \in Slot, UNCHANGED <<proj, hold>>,
         req[u].op = "new" => cal'[req[u].of].batch = cal[req[u].of].batch,
         \A c \in Calendar : cal[c].batch # Absent => cal'[c].batch # Absent,
         \A c \in Calendar \cap req[u].holds :
           /\ cal[c].batch # Absent => cal'[c].home \in {cal[c].home, Org}
           /\ Anchored(c) => Anchored(c)'
           /\ cal'[c].batch = cal[c].batch \/ Anchored(c)'
  PROVE  Beside(u)
BY DEF Beside

LEMMA NewKeeps ==
  ASSUME CalendarsIInv, NEW q \in Slot, New(q)
  PROVE  CalendarsIInv'
<1>1. Creating(q)
  BY DEF New, At, CalendarsIInv, Good
<1>2. PICK c \in Calendar : c = req[q].of
  BY <1>1 DEF Creating
<1>3. PICK x \in Project \cup {Org} : x = req[q].home
  BY DEF CalendarsIInv, CalendarsTypeOK, Request
<1>4. /\ cal' = [cal EXCEPT ![c] = [batch |-> Live, home |-> x]]
      /\ Commit(q, {}) /\ UNCHANGED <<proj, hold>> /\ cal[c].batch = Absent
  BY <1>1, <1>2, <1>3 DEF New, Creating
<1>5. cal' \in [Calendar -> [batch: State, home: Project \cup {Org}]]
  BY <1>4 DEF CalendarsIInv, CalendarsTypeOK, State
<1>6. cal'[c].batch = Live /\ \A d \in Calendar \ {c} : cal'[d] = cal[d]
  BY <1>4 DEF CalendarsIInv, CalendarsTypeOK
<1>7. \A d \in Calendar : Anchored(d) => Anchored(d)'
  BY <1>4, <1>6 DEF Anchored
<1>8. \A h \in Holder : hold[h].batch # Absent /\ hold[h].cal # NoCal => hold[h].cal \in Calendar \ {c}
  BY <1>4 DEF CalendarsIInv, CalendarsTypeOK, Bound, RowsOK, Suited, Suits
<1>9. Suited' /\ Moored'
  BY <1>4, <1>6, <1>7, <1>8, Batches
  DEF CalendarsIInv, RowsOK, Suited, Suits, Moored, Area
<1>10. ASSUME NEW u \in Slot \ {q} PROVE Beside(u)
  <2>1. req[u].op = "new" => req[u].of \in Calendar \ {c}
    BY <1>2 DEF CalendarsIInv, Apart, Good, Creating
  <2>2. Anchored(c)'
    BY <1>6 DEF Anchored
  <2> QED BY <1>4, <1>6, <1>7, <2>1, <2>2, Batches, CalendarBeside
<1>11. RowsOK'
  BY <1>4, <1>9, SameHolders DEF RowsOK
<1> QED BY <1>4, <1>5, <1>10, <1>11, SameHolders, CommitKeeps

LEMMA MoveKeeps ==
  ASSUME CalendarsIInv, NEW q \in Slot, Move(q)
  PROVE  CalendarsIInv'
<1>1. Moving(q) /\ req[q].at = "commit"
  BY DEF Move, At, CalendarsIInv, Good
<1>2. PICK c \in Calendar : c = req[q].of
  BY <1>1 DEF Moving
<1>3. PICK x \in Project \cup {Org} : x = req[q].home
  BY DEF CalendarsIInv, CalendarsTypeOK, Request
<1>4. x # Org => c \in req[q].holds /\ NarrowingAllowed(c, x)
  BY <1>1, <1>2, <1>3 DEF Moving
<1>5. CASE Refused(q)
  BY <1>5, RefusedKeeps
<1>6. CASE /\ cal' = [cal EXCEPT ![c].home = x]
           /\ Commit(q, {c}) /\ UNCHANGED <<proj, hold>>
  <2>1. cal' \in [Calendar -> [batch: State, home: Project \cup {Org}]]
    BY <1>6 DEF CalendarsIInv, CalendarsTypeOK
  <2>2. /\ \A d \in Calendar : cal'[d].batch = cal[d].batch
        /\ cal'[c].home = x
        /\ \A d \in Calendar \ {c} : cal'[d].home = cal[d].home
    BY <1>6 DEF CalendarsIInv, CalendarsTypeOK
  <2>3. \A d \in Calendar : Anchored(d)' = Anchored(d)
    BY <1>6, <2>2 DEF Anchored
  <2>4. \A h \in Holder : hold[h].batch # Absent /\ hold[h].cal # NoCal => hold[h].cal \in Calendar
    BY DEF CalendarsIInv, CalendarsTypeOK, Bound
  <2>5. x # Org => \A h \in Holder : hold[h].cal = c /\ hold[h].batch # Absent => Area(h) = x
    BY <1>4 DEF NarrowingAllowed, Users
  <2>6. Suited'
    BY <1>6, <2>2, <2>4, <2>5 DEF CalendarsIInv, RowsOK, Suited, Suits, Area
  <2>7. Moored'
    BY <1>6, <2>3, <2>4, Batches DEF CalendarsIInv, RowsOK, Moored
  <2>8. ASSUME NEW u \in Slot \ {q} PROVE Beside(u)
    <3>1. x # Org => c \notin req[u].holds
      BY <1>4 DEF CalendarsIInv, Apart
    <3>2. req[u].op = "new" => req[u].of \in Calendar
      BY DEF CalendarsIInv, Good, Creating
    <3> QED BY <1>6, <2>2, <2>3, <3>1, <3>2, CalendarBeside
  <2>9. RowsOK'
    BY <1>6, <2>6, <2>7, SameHolders DEF RowsOK
  <2> QED BY <1>6, <2>1, <2>8, <2>9, SameHolders, CommitKeeps
<1> QED BY <1>2, <1>3, <1>5, <1>6 DEF Move

LEMMA RemoveKeeps ==
  ASSUME CalendarsIInv, NEW q \in Slot, NEW batch \in [req[q].holds -> Batch], Remove(q, batch)
  PROVE  CalendarsIInv'
<1>1. \A c \in Calendar \cap req[q].holds : ~InUse(c)
  BY DEF Remove, At, CalendarsIInv, Good, Removing
<1>2. /\ cal' = [c \in Calendar |-> IF c \in req[q].holds THEN StampCals({c}, batch[c])[c] ELSE cal[c]]
      /\ Commit(q, {}) /\ UNCHANGED <<proj, hold>>
  BY DEF Remove
<1>3. ASSUME NEW c \in Calendar
      PROVE  /\ cal'[c] \in [batch: State, home: Project \cup {Org}]
             /\ cal'[c].home = cal[c].home
             /\ cal'[c].batch # cal[c].batch =>
                  c \in req[q].holds /\ cal[c].batch = Live /\ cal'[c].batch \in Batch
  <2>1. PICK r \in [batch: State, home: Project \cup {Org}] : r = cal[c]
    BY DEF CalendarsIInv, CalendarsTypeOK
  <2>2. CASE c \in req[q].holds /\ cal[c].batch = Live
    <3>1. cal'[c] = [r EXCEPT !.batch = batch[c]]
      BY <1>2, <2>1, <2>2, Batches DEF StampCals, IsLive
    <3> QED BY <2>1, <2>2, <3>1 DEF State
  <2>3. CASE ~(c \in req[q].holds /\ cal[c].batch = Live)
    <3>1. cal'[c] = r
      BY <1>2, <2>1, <2>3, Batches DEF StampCals, IsLive
    <3> QED BY <2>1, <3>1
  <2> QED BY <2>2, <2>3
<1>4. cal' \in [Calendar -> [batch: State, home: Project \cup {Org}]]
  BY <1>2, <1>3
<1>5. \A c \in Calendar : cal'[c].batch = cal[c].batch => Anchored(c)' = Anchored(c)
  BY <1>2 DEF Anchored
<1>6. \A h \in Holder : hold[h].batch # Absent /\ hold[h].cal # NoCal => hold[h].cal \in Calendar
  BY DEF CalendarsIInv, CalendarsTypeOK, Bound
<1>7. Suited'
  <2>1. \A c \in Calendar : /\ cal'[c].home = cal[c].home
                            /\ cal[c].batch # Absent => cal'[c].batch # Absent
    BY <1>3, Batches
  <2> QED BY <1>2, <1>6, <2>1 DEF CalendarsIInv, RowsOK, Suited, Suits, Area
<1>8. ASSUME NEW h \in Holder, hold[h].batch = Live, hold[h].cal # NoCal
      PROVE  Anchored(hold[h].cal)'
  <2>1. PICK c \in Calendar : c = hold[h].cal
    BY <1>6, <1>8, Batches
  <2>2. InUse(c) /\ Anchored(c)
    BY <1>8, <2>1, Batches DEF InUse, Users, IsLive, CalendarsIInv, RowsOK, Moored
  <2>3. Anchored(c)'
    BY <1>1, <1>3, <1>5, <2>2
  <2> QED BY <1>2, <2>1, <2>3
<1>9. Moored'
  BY <1>2, <1>8 DEF Moored
<1>10. ASSUME NEW u \in Slot \ {q} PROVE Beside(u)
  <2>1. \A c \in Calendar \cap req[u].holds : cal'[c].batch = cal[c].batch
    BY <1>3 DEF CalendarsIInv, Apart
  <2>2. req[u].op = "new" => req[u].of \in Calendar /\ cal[req[u].of].batch = Absent
    BY DEF CalendarsIInv, Good, Creating
  <2>3. req[u].op = "new" => cal'[req[u].of].batch = cal[req[u].of].batch
    BY <1>3, <2>2, Batches
  <2>4. \A c \in Calendar : cal[c].batch # Absent => cal'[c].batch # Absent
    BY <1>3, Batches
  <2>5. \A c \in Calendar : cal'[c].home = cal[c].home
    BY <1>3
  <2> QED BY <1>2, <1>5, <2>1, <2>3, <2>4, <2>5, CalendarBeside
<1>11. RowsOK'
  BY <1>2, <1>7, <1>9, SameHolders DEF RowsOK
<1> QED BY <1>2, <1>4, <1>10, <1>11, SameHolders, CommitKeeps

-----------------------------------------------------------------------------
(* What is written: a batch comes back, and a project goes.                *)

LEMMA RestoredFields ==
  ASSUME CalendarsIInv, NEW b \in Batch, NEW C \in SUBSET Calendar,
         cal' = [c \in Calendar |-> IF c \in C THEN [cal[c] EXCEPT !.batch = Live] ELSE cal[c]],
         proj' = [x \in Project |-> IF proj[x] = b THEN Live ELSE proj[x]],
         hold' = [h \in Holder |-> IF h \in Members(b) THEN [hold[h] EXCEPT !.batch = Live] ELSE hold[h]]
  PROVE  /\ cal' \in [Calendar -> [batch: State, home: Project \cup {Org}]]
         /\ proj' \in [Project -> State \ {Absent}]
         /\ hold' \in [Holder -> [batch: State, cal: Bound]]
         /\ \A c \in Calendar : /\ cal'[c].home = cal[c].home
                                /\ c \in C => cal'[c].batch = Live
                                /\ c \notin C => cal'[c].batch = cal[c].batch
         /\ \A x \in Project : /\ proj[x] = b => proj'[x] = Live
                               /\ proj[x] # b => proj'[x] = proj[x]
         /\ \A h \in Holder : /\ hold'[h].cal = hold[h].cal
                              /\ hold[h].batch = b => hold'[h].batch = Live
                              /\ hold[h].batch # b => hold'[h].batch = hold[h].batch
<1>1. ASSUME NEW c \in Calendar
      PROVE  /\ cal'[c] \in [batch: State, home: Project \cup {Org}]
             /\ cal'[c].home = cal[c].home
             /\ c \in C => cal'[c].batch = Live
             /\ c \notin C => cal'[c].batch = cal[c].batch
  <2>1. PICK r \in [batch: State, home: Project \cup {Org}] : r = cal[c]
    BY DEF CalendarsIInv, CalendarsTypeOK
  <2>2. cal'[c] = IF c \in C THEN [r EXCEPT !.batch = Live] ELSE r
    BY <2>1
  <2> QED BY <2>1, <2>2 DEF State
<1>2. ASSUME NEW h \in Holder
      PROVE  /\ hold'[h] \in [batch: State, cal: Bound]
             /\ hold'[h].cal = hold[h].cal
             /\ hold[h].batch = b => hold'[h].batch = Live
             /\ hold[h].batch # b => hold'[h].batch = hold[h].batch
  <2>1. PICK r \in [batch: State, cal: Bound] : r = hold[h]
    BY DEF CalendarsIInv, CalendarsTypeOK
  <2>2. hold'[h] = IF r.batch = b THEN [r EXCEPT !.batch = Live] ELSE r
    BY <2>1 DEF Members
  <2> QED BY <2>1, <2>2 DEF State
<1>3. /\ \A x \in Project : /\ proj[x] = b => proj'[x] = Live
                            /\ proj[x] # b => proj'[x] = proj[x]
      /\ proj' \in [Project -> State \ {Absent}]
  BY Batches DEF CalendarsIInv, CalendarsTypeOK, State
<1>4. cal' \in [Calendar -> [batch: State, home: Project \cup {Org}]]
  BY <1>1
<1>5. hold' \in [Holder -> [batch: State, cal: Bound]]
  BY <1>2
<1> QED BY <1>1, <1>2, <1>3, <1>4, <1>5

\* A calendar by itself: nothing else is written.
LEMMA RestoredCalendar ==
  ASSUME CalendarsIInv, NEW r \in Calendar, cal[r].batch \in Batch, UNCHANGED <<proj, hold>>,
         cal' = [c \in Calendar |-> IF c = r THEN [cal[c] EXCEPT !.batch = Live] ELSE cal[c]]
  PROVE  /\ cal' \in [Calendar -> [batch: State, home: Project \cup {Org}]]
         /\ RowsOK' /\ \A u \in Slot : Beside(u)
<1>1. ASSUME NEW c \in Calendar
      PROVE  /\ cal'[c] \in [batch: State, home: Project \cup {Org}]
             /\ cal'[c].home = cal[c].home
             /\ c = r => cal'[c].batch = Live
             /\ c # r => cal'[c].batch = cal[c].batch
  <2>1. PICK k \in [batch: State, home: Project \cup {Org}] : k = cal[c]
    BY DEF CalendarsIInv, CalendarsTypeOK
  <2>2. cal'[c] = IF c = r THEN [k EXCEPT !.batch = Live] ELSE k
    BY <2>1
  <2> QED BY <2>1, <2>2 DEF State
<1>2. cal' \in [Calendar -> [batch: State, home: Project \cup {Org}]]
  BY <1>1
<1>3. \A c \in Calendar : /\ Anchored(c) => Anchored(c)'
                          /\ cal'[c].batch = cal[c].batch \/ Anchored(c)'
  BY <1>1 DEF Anchored
<1>4. \A h \in Holder : hold[h].batch # Absent /\ hold[h].cal # NoCal => hold[h].cal \in Calendar
  BY DEF CalendarsIInv, CalendarsTypeOK, Bound
<1>5. Suited'
  BY <1>1, <1>4, Batches DEF CalendarsIInv, RowsOK, Suited, Suits, Area
<1>6. Moored'
  BY <1>3, <1>4, Batches DEF CalendarsIInv, RowsOK, Moored
<1>7. RowsOK'
  BY <1>5, <1>6, SameHolders DEF RowsOK
<1>8. ASSUME NEW u \in Slot PROVE Beside(u)
  <2>1. req[u].op = "new" => req[u].of \in Calendar \ {r}
    BY Batches DEF CalendarsIInv, Good, Creating
  <2>2. \A c \in Calendar : cal[c].batch # Absent => cal'[c].batch # Absent
    BY <1>1, Batches
  <2>3. req[u].op = "new" => cal'[req[u].of].batch = cal[req[u].of].batch
    BY <1>1, <2>1
  <2>4. \A c \in Calendar : cal'[c].home = cal[c].home
    BY <1>1
  <2> QED BY <1>3, <2>2, <2>3, <2>4, CalendarBeside
<1> QED BY <1>2, <1>7, <1>8

\* What comes back with r, and what r's request has made sure of.
LEMMA BatchOfOne ==
  ASSUME CalendarsIInv, NEW q \in Slot, Restoring(q), req[q].at = "commit",
         req[q].of \notin Calendar, BatchOf(req[q].of) = req[q].batch,
         NEW h \in Members(req[q].batch)
  PROVE  /\ \/ req[q].of \in Project /\ h \notin Resource /\ Area(h) = req[q].of
            \/ /\ req[q].of \in Plan /\ ProjectShared(q)
               /\ h = req[q].of \/ (h \in Activity /\ PlanOf[h] = req[q].of)
            \/ req[q].of \in Activity /\ PlanLive(q) /\ h = req[q].of
            \/ req[q].of \in Resource /\ h = req[q].of
         /\ hold[h].cal = NoCal \/ Kept(q, hold[h].cal)
<1> DEFINE r == req[q].of
           b == req[q].batch
<1>1. b \in Batch /\ h \in Holder /\ hold[h].batch = b
  BY DEF Restoring, Members
<1>2. hold[h].cal = NoCal \/ Kept(q, hold[h].cal)
  BY DEF Restoring, CalsOf
<1>3. CASE r \in Project
  BY <1>1, <1>2, <1>3, Batches DEF CalendarsIInv, RowsOK, Rooted
<1>4. CASE r \in Plan
  <2>1. proj[HomeOf[r]] = Live
    BY <1>4 DEF Restoring, ProjectShared
  <2>2. hold[r].batch = b
    BY <1>4, Kinds, Batches
  <2>3. h \in Under(r)
    BY <1>1, <1>4, <2>1, <2>2, Batches DEF CalendarsIInv, RowsOK, Rooted
  <2> QED BY <1>2, <1>4, <2>3 DEF Under, Restoring
<1>5. CASE r \in Activity
  <2>1. hold[PlanOf[r]].batch = Live /\ hold[r].batch = b
    BY <1>5, Kinds, Batches DEF Restoring, PlanLive
  <2>2. h = r
    BY <1>1, <1>5, <2>1, Batches DEF CalendarsIInv, RowsOK, Rooted
  <2> QED BY <1>2, <1>5, <2>2 DEF Restoring
<1>6. CASE r \in Resource
  <2>1. hold[r].batch = b
    BY <1>6, Kinds, Batches
  <2> QED BY <1>1, <1>2, <1>6, <2>1 DEF CalendarsIInv, RowsOK, Rooted
<1> QED BY <1>3, <1>4, <1>5, <1>6 DEF Restoring, Holder

LEMMA RestoreKeeps ==
  ASSUME CalendarsIInv, NEW q \in Slot, Restore(q)
  PROVE  CalendarsIInv'
<1>1. Restoring(q) /\ req[q].at = "commit"
  BY DEF Restore, At, CalendarsIInv, Good
<1>2. PICK b \in Batch : b = req[q].batch
  BY <1>1 DEF Restoring
<1>3. PICK r \in Calendar \cup Project \cup Holder : r = req[q].of
  BY <1>1 DEF Restoring
<1>4. PICK F \in SUBSET Calendar : F = req[q].found
  BY DEF CalendarsIInv, CalendarsTypeOK, Request
<1>5. CASE Refused(q)
  BY <1>5, RefusedKeeps
<1> DEFINE S == F \cup ({r} \cap (Calendar \cup Resource))
<1>6. CASE /\ r \in Calendar /\ cal[r].batch = b /\ Commit(q, S) /\ UNCHANGED <<proj, hold>>
           /\ cal' = [c \in Calendar |-> IF c = r THEN [cal[c] EXCEPT !.batch = Live] ELSE cal[c]]
  <2>1. /\ cal' \in [Calendar -> [batch: State, home: Project \cup {Org}]]
        /\ RowsOK' /\ \A u \in Slot : Beside(u)
    BY <1>6, RestoredCalendar
  <2> QED BY <1>6, <2>1, SameHolders, CommitKeeps
<1> DEFINE C == {c \in Calendar : cal[c].batch = b} \cup F
<1>7. CASE /\ r \notin Calendar /\ BatchOf(r) = b /\ Commit(q, S)
           /\ cal' = [c \in Calendar |-> IF c \in C THEN [cal[c] EXCEPT !.batch = Live] ELSE cal[c]]
           /\ proj' = [x \in Project |-> IF proj[x] = b THEN Live ELSE proj[x]]
           /\ hold' = [h \in Holder |-> IF h \in Members(b) THEN [hold[h] EXCEPT !.batch = Live]
                                        ELSE hold[h]]
  <2>1. /\ cal' \in [Calendar -> [batch: State, home: Project \cup {Org}]]
        /\ proj' \in [Project -> State \ {Absent}]
        /\ hold' \in [Holder -> [batch: State, cal: Bound]]
        /\ \A c \in Calendar : /\ cal'[c].home = cal[c].home
                               /\ c \in C => cal'[c].batch = Live
                               /\ c \notin C => cal'[c].batch = cal[c].batch
        /\ \A x \in Project : /\ proj[x] = b => proj'[x] = Live
                              /\ proj[x] # b => proj'[x] = proj[x]
        /\ \A h \in Holder : /\ hold'[h].cal = hold[h].cal
                             /\ hold[h].batch = b => hold'[h].batch = Live
                             /\ hold[h].batch # b => hold'[h].batch = hold[h].batch
    <3>1. C \in SUBSET Calendar
      OBVIOUS
    <3> HIDE DEF C
    <3> QED BY <1>7, <3>1, RestoredFields
  <2>2. \A c \in C : c \in Calendar /\ cal[c].batch # Absent
    BY <1>1, <1>4, Batches DEF Restoring
  <2>3. ASSUME NEW c \in Calendar PROVE (Anchored(c) => Anchored(c)') /\ (c \in C => Anchored(c)')
    <3>1. c \in C => cal'[c].batch = Live
      BY <2>1
    <3>2. CASE c \in C
      BY <3>1, <3>2 DEF Anchored
    <3>3. CASE c \notin C
      <4>1. cal'[c].batch = cal[c].batch /\ cal[c].batch # b
        BY <2>1, <3>3
      <4>2. \A x \in Project : proj[x] = cal[c].batch => proj'[x] = cal[c].batch
        BY <2>1, <4>1
      <4> QED BY <3>3, <4>1, <4>2 DEF Anchored
    <3> QED BY <3>2, <3>3
  <2>4. ASSUME NEW h \in Holder, hold[h].batch = b
        PROVE  /\ \/ r \in Project /\ h \notin Resource /\ Area(h) = r
                  \/ /\ r \in Plan /\ ProjectShared(q)
                     /\ h = r \/ (h \in Activity /\ PlanOf[h] = r)
                  \/ r \in Activity /\ PlanLive(q) /\ h = r
                  \/ r \in Resource /\ h = r
               /\ hold[h].cal = NoCal \/ Kept(q, hold[h].cal)
    <3>1. h \in Members(req[q].batch)
      BY <1>2, <2>4 DEF Members
    <3> QED BY <1>1, <1>2, <1>3, <1>7, <3>1, BatchOfOne
  <2>5. ASSUME NEW h \in Holder, hold[h].batch = b, hold[h].cal # NoCal
        PROVE  hold[h].cal \in req[q].holds /\ Anchored(hold[h].cal)'
    <3>1. PICK c \in Calendar : c = hold[h].cal
      BY <2>5 DEF CalendarsIInv, CalendarsTypeOK, Bound
    <3>2. c \in req[q].holds /\ (c \in C \/ Anchored(c))
      BY <1>2, <1>4, <2>4, <2>5, <3>1 DEF Kept
    <3>3. Anchored(c)'
      BY <2>3, <3>2
    <3> QED BY <2>1, <3>1, <3>2, <3>3
  <2> HIDE DEF C, S
  <2>6. Housed'
    <3>1. ASSUME NEW p \in Plan, hold'[p].batch = Live PROVE proj'[HomeOf[p]] = Live
      <4>1. CASE hold[p].batch = Live
        BY <2>1, <4>1, Kinds, Batches DEF CalendarsIInv, RowsOK, Housed
      <4>2. CASE hold[p].batch = b
        <5>1. (r \in Project /\ HomeOf[p] = r) \/ (r = p /\ ProjectShared(q))
          BY <2>4, <4>2, Kinds
        <5>2. r \in Project => proj[r] = b
          BY <1>7, Batches
        <5> QED BY <1>3, <2>1, <5>1, <5>2, Kinds, Batches DEF ProjectShared
      <4> QED BY <2>1, <3>1, <4>1, <4>2, Kinds
    <3>2. ASSUME NEW a \in Activity, hold'[a].batch = Live PROVE hold'[PlanOf[a]].batch = Live
      <4>1. CASE hold[a].batch = Live
        BY <2>1, <4>1, Kinds, Batches DEF CalendarsIInv, RowsOK, Housed
      <4>2. CASE hold[a].batch = b
        <5>1. CASE r \in Project
          <6>1. proj[r] = b
            BY <1>7, <5>1, Batches
          <6>2. hold[PlanOf[a]].batch = b
            BY <4>2, <5>1, <6>1 DEF CalendarsIInv, RowsOK, Rooted
          <6> QED BY <2>1, <6>2, Kinds
        <5>2. CASE r \in Plan
          <6>1. PlanOf[a] = r /\ hold[r].batch = b
            BY <1>7, <2>4, <4>2, <5>2, Kinds, Batches
          <6> QED BY <2>1, <6>1, Kinds
        <5>3. CASE r = a /\ PlanLive(q)
          BY <1>3, <2>1, <5>3, Kinds, Batches DEF PlanLive
        <5> QED BY <2>4, <4>2, <5>1, <5>2, <5>3, Kinds
      <4> QED BY <2>1, <3>2, <4>1, <4>2, Kinds
    <3> QED BY <3>1, <3>2 DEF Housed
  <2>7. Suited'
    <3>1. ASSUME NEW h \in Holder, hold'[h].batch # Absent, hold'[h].cal # NoCal
          PROVE  Suits(hold[h].cal, h)'
      <4>1. hold[h].batch # Absent /\ hold'[h].cal = hold[h].cal
        BY <2>1, <3>1, Batches
      <4>2. PICK c \in Calendar : c = hold[h].cal
        BY <3>1, <4>1 DEF CalendarsIInv, CalendarsTypeOK, Bound
      <4>3. Suits(c, h)
        BY <3>1, <4>1, <4>2 DEF CalendarsIInv, RowsOK, Suited
      <4>4. cal'[c].batch # Absent /\ cal'[c].home = cal[c].home
        BY <2>1, <2>2, <4>3, Batches DEF Suits
      <4> QED BY <4>1, <4>2, <4>3, <4>4 DEF Suits, Area
    <3> QED BY <3>1 DEF Suited
  <2>8. Moored'
    <3>1. ASSUME NEW h \in Holder, hold'[h].batch = Live, hold'[h].cal # NoCal
          PROVE  Anchored(hold[h].cal)'
      <4>1. PICK c \in Calendar : c = hold[h].cal
        BY <2>1, <3>1 DEF CalendarsIInv, CalendarsTypeOK, Bound
      <4>2. CASE hold[h].batch = b
        BY <2>1, <2>5, <3>1, <4>2
      <4>3. CASE hold[h].batch = Live
        <5>1. Anchored(c)'
          BY <2>1, <2>3, <3>1, <4>1, <4>3 DEF CalendarsIInv, RowsOK, Moored
        <5> QED BY <2>1, <4>1, <5>1
      <4> QED BY <2>1, <3>1, <4>2, <4>3
    <3> QED BY <3>1 DEF Moored
  <2>9. Rooted'
    BY <2>1, Batches, RootedStays DEF CalendarsIInv, RowsOK, SameDead, SameDeadProjects
  <2>10. ASSUME NEW u \in Slot \ {q} PROVE Beside(u)
    <3>1. Apart(q, u) /\ Apart(u, q)
      BY DEF CalendarsIInv
    <3>2. req[u].op = "add" => req[u].of \in Holder /\ hold[req[u].of].batch = Absent
      BY DEF CalendarsIInv, Good, Adding
    <3>3. req[u].op = "new" => req[u].of \in Calendar /\ cal[req[u].of].batch = Absent
      BY DEF CalendarsIInv, Good, Creating
    <3>4. req[u].op = "add" => hold'[req[u].of].batch = hold[req[u].of].batch
      BY <2>1, <3>2, Batches
    <3>5. req[u].op = "new" => cal'[req[u].of].batch = cal[req[u].of].batch
      BY <2>1, <2>2, <3>3
    <3>6. \A c \in Calendar : cal[c].batch # Absent => cal'[c].batch # Absent
      BY <2>1, Batches
    <3>7. \A x \in req[u].share \cup req[u].row : proj[x] = Live => proj'[x] = Live
      BY <2>1, Batches DEF CalendarsIInv, CalendarsTypeOK, Request
    <3>8. \A p \in Plan : hold[p].batch = Live => hold'[p].batch = Live
      BY <2>1, Kinds, Batches
    <3>9. ASSUME NEW c \in Calendar \cap req[u].holds
          PROVE  /\ cal'[c].home = cal[c].home
                 /\ Anchored(c) => Anchored(c)'
                 /\ cal'[c].batch = cal[c].batch \/ Anchored(c)'
                 /\ \A h \in Holder : hold'[h].cal = c /\ hold'[h].batch # Absent =>
                      /\ hold[h].cal = c /\ hold[h].batch # Absent
                      /\ hold'[h].batch = Live => hold[h].batch = Live
      <4>1. \A h \in Holder : hold[h].batch = b => hold[h].cal # c
        BY <2>5, <3>1, CalendarsAssumption DEF Apart
      <4> QED BY <2>1, <2>3, <4>1, Batches
    <3>10. \A h \in Holder : hold'[h].batch = req[u].batch /\ req[u].batch \in Batch =>
             hold[h].batch = req[u].batch /\ hold'[h].cal = hold[h].cal
      BY <2>1, Batches
    <3>11. ASSUME NEW p \in Plan, HomeOf[p] \in req[u].row, proj[HomeOf[p]] = Live, hold'[p].batch = Live
           PROVE  hold[p].batch = Live
      <4>1. CASE hold[p].batch = b
        <5>1. (r \in Project /\ HomeOf[p] = r) \/ (r = p /\ ProjectShared(q))
          BY <2>4, <4>1, Kinds
        <5>2. r \in Project => proj[r] = b
          BY <1>7, Batches
        <5> QED BY <1>3, <3>1, <3>11, <5>1, <5>2, Batches DEF ProjectShared, Apart
      <4>2. CASE hold[p].batch # b
        BY <2>1, <3>11, <4>2, Kinds
      <4> QED BY <4>1, <4>2
    <3> QED BY <3>4, <3>5, <3>6, <3>7, <3>8, <3>9, <3>10, <3>11 DEF Beside
  <2>11. RowsOK'
    BY <2>6, <2>7, <2>8, <2>9 DEF RowsOK
  <2> QED BY <1>7, <2>1, <2>10, <2>11, CommitKeeps
<1>8. Refused(q) \/ (BatchOf(r) = b /\ Commit(q, S))
  BY <1>2, <1>3, <1>4 DEF Restore
<1>9. ASSUME ~Refused(q), r \in Calendar
      PROVE  /\ UNCHANGED <<proj, hold>> /\ cal[r].batch = b
             /\ cal' = [c \in Calendar |-> IF c = r THEN [cal[c] EXCEPT !.batch = Live] ELSE cal[c]]
  BY <1>2, <1>3, <1>9, Batches DEF Restore
<1>10. ASSUME ~Refused(q), r \notin Calendar
       PROVE  /\ cal' = [c \in Calendar |-> IF c \in C THEN [cal[c] EXCEPT !.batch = Live] ELSE cal[c]]
              /\ proj' = [x \in Project |-> IF proj[x] = b THEN Live ELSE proj[x]]
              /\ hold' = [h \in Holder |-> IF h \in Members(b) THEN [hold[h] EXCEPT !.batch = Live]
                                           ELSE hold[h]]
  BY <1>2, <1>3, <1>4, <1>10 DEF Restore
<1> QED BY <1>5, <1>6, <1>7, <1>8, <1>9, <1>10

LEMMA SweepKeeps ==
  ASSUME CalendarsIInv, NEW q \in Slot, NEW b \in Batch, Sweep(q, b)
  PROVE  CalendarsIInv'
<1>1. Sweeping(q) /\ req[q].at = "commit" /\ req[q].todo = {} /\ FreshBatch(b)
  BY DEF Sweep, At, CalendarsIInv, Good
<1>2. PICK x \in Project : x = req[q].of
  BY <1>1 DEF Sweeping
<1>3. PICK F \in SUBSET Calendar : F = req[q].found
  BY DEF CalendarsIInv, CalendarsTypeOK, Request
<1> DEFINE S == UNION {Under(p) : p \in PlansIn(x)}
<1>4. /\ cal' = StampCals(F, b) /\ hold' = StampHolders(S, b)
      /\ proj' = [proj EXCEPT ![x] = b] /\ Commit(q, {})
  BY <1>2, <1>3 DEF Sweep
<1>5. /\ x \in req[q].row /\ proj[x] = Live
      /\ \A p \in Plan : HomeOf[p] = x /\ hold[p].batch = Live => p \in req[q].holds
  BY <1>1, <1>2 DEF Sweeping, Locks, PlansIn
<1>6. /\ \A p \in Plan : p \in S <=> HomeOf[p] = x
      /\ \A a \in Activity : a \in S <=> HomeOf[PlanOf[a]] = x
      /\ \A g \in Holder : g \in S => g \notin Resource /\ Area(g) = x
  BY Kinds DEF Under, PlansIn
<1> HIDE DEF S
<1>7. /\ hold' \in [Holder -> [batch: State, cal: Bound]]
      /\ \A g \in Holder :
           /\ hold'[g].cal = hold[g].cal
           /\ g \in S /\ hold[g].batch = Live => hold'[g].batch = b
           /\ g \notin S \/ hold[g].batch # Live => hold'[g].batch = hold[g].batch
           /\ hold[g].batch # b
  BY <1>1, <1>4, Stamped
<1>8. ASSUME NEW c \in Calendar
      PROVE  /\ cal'[c] \in [batch: State, home: Project \cup {Org}]
             /\ cal'[c].home = cal[c].home
             /\ cal'[c].batch = cal[c].batch \/ (cal[c].batch = Live /\ cal'[c].batch = b)
  <2>1. PICK r \in [batch: State, home: Project \cup {Org}] : r = cal[c]
    BY DEF CalendarsIInv, CalendarsTypeOK
  <2>2. CASE c \in F /\ cal[c].batch = Live
    <3>1. cal'[c] = [r EXCEPT !.batch = b]
      BY <1>4, <2>1, <2>2, Batches DEF StampCals, IsLive
    <3> QED BY <2>1, <2>2, <3>1 DEF State
  <2>3. CASE ~(c \in F /\ cal[c].batch = Live)
    <3>1. cal'[c] = r
      BY <1>4, <2>1, <2>3, Batches DEF StampCals, IsLive
    <3> QED BY <2>1, <3>1
  <2> QED BY <2>2, <2>3
<1>9. cal' \in [Calendar -> [batch: State, home: Project \cup {Org}]]
  BY <1>4, <1>8 DEF StampCals
<1>10. /\ proj' \in [Project -> State \ {Absent}]
       /\ proj'[x] = b /\ \A y \in Project \ {x} : proj'[y] = proj[y]
       /\ \A y \in Project : proj[y] # b
  BY <1>1, <1>4, Batches, FreshForAll DEF CalendarsIInv, CalendarsTypeOK, State
<1>11. ASSUME NEW c \in Calendar
       PROVE  /\ Anchored(c) => Anchored(c)'
              /\ cal'[c].batch = cal[c].batch \/ Anchored(c)'
  <2>1. CASE cal'[c].batch = b
    BY <1>10, <2>1 DEF Anchored
  <2>2. CASE cal'[c].batch = cal[c].batch
    <3>1. \A y \in Project : proj[y] = cal[c].batch /\ cal[c].batch \in Batch => proj'[y] = cal[c].batch
      BY <1>5, <1>10, Batches
    <3> QED BY <2>2, <3>1 DEF Anchored
  <2> QED BY <1>8, <2>1, <2>2
<1>12. Housed'
  <2>1. ASSUME NEW p \in Plan, hold'[p].batch = Live PROVE proj'[HomeOf[p]] = Live
    <3>1. hold[p].batch = Live /\ p \notin S
      BY <1>7, <2>1, Kinds, Batches
    <3> QED BY <1>6, <1>10, <3>1, Kinds DEF CalendarsIInv, RowsOK, Housed
  <2>2. ASSUME NEW a \in Activity, hold'[a].batch = Live PROVE hold'[PlanOf[a]].batch = Live
    <3>1. hold[a].batch = Live /\ a \notin S
      BY <1>7, <2>2, Kinds, Batches
    <3>2. hold[PlanOf[a]].batch = Live /\ PlanOf[a] \notin S
      BY <1>6, <3>1, Kinds DEF CalendarsIInv, RowsOK, Housed
    <3> QED BY <1>7, <3>2, Kinds
  <2> QED BY <2>1, <2>2 DEF Housed
<1>13. \A h \in Holder : hold[h].batch # Absent /\ hold[h].cal # NoCal => hold[h].cal \in Calendar
  BY DEF CalendarsIInv, CalendarsTypeOK, Bound
<1>14. Suited'
  <2>1. ASSUME NEW h \in Holder, hold'[h].batch # Absent, hold'[h].cal # NoCal
        PROVE  Suits(hold[h].cal, h)'
    <3>1. hold[h].batch # Absent /\ hold'[h].cal = hold[h].cal
      BY <1>7, <2>1, Batches
    <3>2. PICK c \in Calendar : c = hold[h].cal
      BY <1>13, <2>1, <3>1
    <3>3. Suits(c, h)
      BY <2>1, <3>1, <3>2 DEF CalendarsIInv, RowsOK, Suited
    <3>4. cal'[c].batch # Absent /\ cal'[c].home = cal[c].home
      BY <1>8, <3>3, Batches DEF Suits
    <3> QED BY <3>1, <3>2, <3>3, <3>4 DEF Suits, Area
  <2> QED BY <2>1 DEF Suited
<1>15. Moored'
  <2>1. ASSUME NEW h \in Holder, hold'[h].batch = Live, hold'[h].cal # NoCal
        PROVE  Anchored(hold[h].cal)'
    <3>1. hold[h].batch = Live /\ hold'[h].cal = hold[h].cal
      BY <1>7, <2>1, Batches
    <3>2. PICK c \in Calendar : c = hold[h].cal
      BY <1>13, <2>1, <3>1, Batches
    <3>3. Anchored(c)'
      BY <1>11, <2>1, <3>1, <3>2 DEF CalendarsIInv, RowsOK, Moored
    <3> QED BY <3>1, <3>2, <3>3
  <2> QED BY <2>1 DEF Moored
<1>16. \A g \in Holder : hold'[g].batch = b <=> g \in S /\ hold[g].batch = Live
  BY <1>7
<1>17. Rooted'
  <2>1. ASSUME NEW a \in Activity, hold'[a].batch \in Batch
        PROVE  \/ hold'[PlanOf[a]].batch = hold'[a].batch
               \/ /\ \A g \in Holder : hold'[g].batch = hold'[a].batch => g = a
                  /\ \A y \in Project : proj'[y] # hold'[a].batch
    <3>1. CASE hold'[a].batch = b
      <4>1. a \in S /\ hold[a].batch = Live
        BY <1>16, <3>1, Kinds
      <4>2. PlanOf[a] \in S /\ hold[PlanOf[a]].batch = Live
        BY <1>6, <4>1, Kinds DEF CalendarsIInv, RowsOK, Housed
      <4> QED BY <1>16, <3>1, <4>2, Kinds
    <3>2. CASE hold'[a].batch # b
      <4>1. hold[a].batch = hold'[a].batch /\ hold[a].batch \in Batch
        BY <1>7, <2>1, <3>2, Kinds
      <4>2. \A g \in Holder : hold'[g].batch = hold[a].batch <=> hold[g].batch = hold[a].batch
        BY <1>7, <3>2, <4>1, Batches
      <4>3. \A y \in Project : proj'[y] = hold[a].batch => proj[y] = hold[a].batch
        BY <1>10, <3>2, <4>1
      <4> QED BY <4>1, <4>2, <4>3, Kinds DEF CalendarsIInv, RowsOK, Rooted
    <3> QED BY <3>1, <3>2
  <2>2. ASSUME NEW p \in Plan, hold'[p].batch \in Batch
        PROVE  \/ proj'[HomeOf[p]] = hold'[p].batch
               \/ \A g \in Holder : hold'[g].batch = hold'[p].batch => g \in Under(p)
    <3>1. CASE hold'[p].batch = b
      BY <1>6, <1>10, <1>16, <3>1, Kinds
    <3>2. CASE hold'[p].batch # b
      <4>1. hold[p].batch = hold'[p].batch /\ hold[p].batch \in Batch
        BY <1>7, <2>2, <3>2, Kinds
      <4>2. \A g \in Holder : hold'[g].batch = hold[p].batch <=> hold[g].batch = hold[p].batch
        BY <1>7, <3>2, <4>1, Batches
      <4>3. \A y \in Project : proj[y] = hold[p].batch => proj'[y] = hold[p].batch
        BY <1>5, <1>10, <4>1, Batches
      <4> QED BY <4>1, <4>2, <4>3, Kinds DEF CalendarsIInv, RowsOK, Rooted
    <3> QED BY <3>1, <3>2
  <2>3. ASSUME NEW r \in Resource, hold'[r].batch \in Batch
        PROVE  \A g \in Holder : hold'[g].batch = hold'[r].batch => g = r
    <3>1. r \notin S /\ r \in Holder
      BY <1>6, Kinds
    <3>2. hold'[r].batch = hold[r].batch /\ hold[r].batch # b
      BY <1>7, <3>1
    <3>3. \A g \in Holder : hold'[g].batch = hold[r].batch => hold[g].batch = hold[r].batch
      BY <1>7, <3>2
    <3> QED BY <2>3, <3>2, <3>3 DEF CalendarsIInv, RowsOK, Rooted
  <2>4. ASSUME NEW y \in Project, proj'[y] \in Batch
        PROVE  \A g \in Holder : hold'[g].batch = proj'[y] => g \notin Resource /\ Area(g) = y
    <3>1. CASE y = x
      BY <1>6, <1>10, <1>16, <3>1
    <3>2. CASE y # x
      BY <1>7, <1>10, <2>4, <3>2, Batches DEF CalendarsIInv, RowsOK, Rooted
    <3> QED BY <3>1, <3>2
  <2> QED BY <2>1, <2>2, <2>3, <2>4 DEF Rooted, Under, Area
<1>18. ASSUME NEW u \in Slot \ {q} PROVE Beside(u)
  <2>1. Apart(q, u) /\ Apart(u, q)
    BY DEF CalendarsIInv
  <2>2. req[u].op = "add" => hold'[req[u].of].batch = hold[req[u].of].batch
    BY <1>7, Batches DEF CalendarsIInv, Good, Adding
  <2>3. req[u].op = "new" => cal'[req[u].of].batch = cal[req[u].of].batch
    BY <1>8, Batches DEF CalendarsIInv, Good, Creating
  <2>4. \A c \in Calendar : cal[c].batch # Absent => cal'[c].batch # Absent
    BY <1>8, Batches
  <2>5. \A y \in req[u].share \cup req[u].row : proj[y] = Live => proj'[y] = Live
    BY <1>5, <1>10, <2>1 DEF Apart, CalendarsIInv, CalendarsTypeOK, Request
  <2>6. \A p \in Plan \cap req[u].holds : hold[p].batch = Live => hold'[p].batch = Live
    BY <1>5, <1>6, <1>7, <2>1, Kinds DEF Apart
  <2>7. \A c \in Calendar : cal'[c].home = cal[c].home
    BY <1>8
  <2>8. \A h \in Holder : hold'[h].cal = hold[h].cal
    BY <1>7
  <2>9. \A h \in Holder : hold'[h].batch # Absent =>
           hold[h].batch # Absent /\ (hold'[h].batch = Live => hold[h].batch = Live)
    BY <1>7, Batches
  <2>10. \A h \in Holder : hold'[h].batch = req[u].batch /\ req[u].batch \in Batch =>
           hold[h].batch = req[u].batch
    BY <1>1, <1>7, FreshForAll, Batches
  <2> QED BY <1>11, <2>2, <2>3, <2>4, <2>5, <2>6, <2>7, <2>8, <2>9, <2>10, Kinds, Batches DEF Beside
<1>19. RowsOK'
  BY <1>12, <1>14, <1>15, <1>17 DEF RowsOK
<1> QED BY <1>4, <1>7, <1>9, <1>10, <1>18, <1>19, CommitKeeps

-----------------------------------------------------------------------------
(* What is not written: locks and checks.                                  *)

LEMMA CalsOfBatch ==
  ASSUME CalendarsIInv, NEW b
  PROVE  CalsOf(b) \in SUBSET Calendar
BY DEF CalsOf, Members, CalendarsIInv, CalendarsTypeOK, Bound

\* After a step of q its record is c and the rows are what they were.
LEMMA Stepped ==
  ASSUME CalendarsIInv, NEW q \in Slot, NEW c, Step(q, c)
  PROVE  /\ req'[q] = c /\ UNCHANGED <<cal, proj, hold>>
         /\ \A k : Anchored(k)' = Anchored(k)
         /\ \A k, h : Suits(k, h)' = Suits(k, h)
         /\ \A k : InUse(k)' = InUse(k)
         /\ \A k, x : NarrowingAllowed(k, x)' = NarrowingAllowed(k, x)
         /\ \A b : CalsOf(b)' = CalsOf(b)
         /\ \A x : PlansIn(x)' = PlansIn(x)
<1>1. req'[q] = c /\ UNCHANGED <<cal, proj, hold>>
  BY DEF Step, CalendarsIInv, CalendarsTypeOK
<1>2. /\ \A k : Anchored(k)' = Anchored(k)
      /\ \A k, h : Suits(k, h)' = Suits(k, h)
  BY <1>1, SameCalendars
<1>3. \A k : InUse(k)' = InUse(k)
  BY <1>1 DEF InUse, Users, IsLive, BatchOf
<1>4. \A k, x : NarrowingAllowed(k, x)' = NarrowingAllowed(k, x)
  BY <1>1 DEF NarrowingAllowed, Users, Area
<1>5. \A b : CalsOf(b)' = CalsOf(b)
  BY <1>1 DEF CalsOf, Members
<1>6. \A x : PlansIn(x)' = PlansIn(x)
  BY DEF PlansIn
<1> QED BY <1>1, <1>2, <1>3, <1>4, <1>5, <1>6

LEMMA TakeLockKeeps ==
  ASSUME CalendarsIInv, NEW q \in Slot, TakeLock(q)
  PROVE  CalendarsIInv'
<1>1. PICK r \in Request : r = req[q]
  BY DEF CalendarsIInv, CalendarsTypeOK
<1>2. NextLock(q) \in r.todo
  <2>1. CASE r.todo \subseteq Calendar
    <3>1. r.todo \in SUBSET Nat /\ r.todo # {}
      BY <1>1, <2>1, CalendarsAssumption DEF TakeLock
    <3>2. \E m \in r.todo : \A k \in r.todo : m <= k
      BY <3>1, SmallestNumber
    <3> QED BY <1>1, <2>1, <3>2 DEF NextLock, Min
  <2>2. CASE ~(r.todo \subseteq Calendar)
    BY <1>1, <2>2 DEF NextLock, TakeLock
  <2> QED BY <2>1, <2>2
<1>3. PICK l \in r.todo : l = NextLock(q)
  BY <1>2
<1> DEFINE c == [r EXCEPT !.todo = @ \ {l}, !.holds = @ \cup {l}]
<1>4. Step(q, c) /\ \A u \in Slot : l \notin req[u].holds
  BY <1>1, <1>3 DEF TakeLock, LockFree
<1>5. /\ c.op = r.op /\ c.at = r.at /\ c.of = r.of /\ c.cal = r.cal /\ c.home = r.home
      /\ c.batch = r.batch /\ c.share = r.share /\ c.row = r.row /\ c.found = r.found
      /\ c.holds = r.holds \cup {l} /\ c.todo = r.todo \ {l}
      /\ c \in Request
  BY DEF Request
<1> HIDE DEF c
<1>6. Locks(q)' = Locks(q) /\ req'[q] = c
  BY <1>1, <1>4, <1>5, Stepped DEF Locks
<1>7. Good(q)
  BY DEF CalendarsIInv
<1>8. c.op = "add" => Adding(q)'
  BY <1>1, <1>4, <1>5, <1>6, <1>7, Stepped
  DEF Good, Adding, Settled, ProjectShared, PlanLocked, PlanLive
<1>9. c.op = "bind" => Binding(q)'
  BY <1>1, <1>4, <1>5, <1>6, <1>7, Stepped DEF Good, Binding, Settled
<1>10. c.op = "new" => Creating(q)'
  BY <1>1, <1>4, <1>5, <1>6, <1>7, Stepped DEF Good, Creating
<1>11. c.op = "move" => Moving(q)'
  BY <1>1, <1>4, <1>5, <1>6, <1>7, Stepped DEF Good, Moving
<1>12. c.op = "remove" => Removing(q)'
  BY <1>1, <1>3, <1>4, <1>5, <1>6, <1>7, Stepped DEF Good, Removing
<1>13. c.op = "restore" => Restoring(q)'
  BY <1>1, <1>4, <1>5, <1>6, <1>7, Stepped
  DEF Good, Restoring, ProjectShared, PlanLocked, PlanLive, Kept
<1>14. c.op = "sweep" => Sweeping(q)'
  BY <1>1, <1>4, <1>5, <1>6, <1>7, Stepped DEF Good, Sweeping
<1>15. Good(q)'
  BY <1>6, <1>8, <1>9, <1>10, <1>11, <1>12, <1>13, <1>14 DEF Good
<1>16. \A u \in Slot \ {q} : Apart(q, u) /\ Apart(u, q)
  BY DEF CalendarsIInv
<1> QED BY <1>1, <1>4, <1>5, <1>15, <1>16, StepKeeps DEF Apart

LEMMA HasPlanLockKeeps ==
  ASSUME CalendarsIInv, NEW q \in Slot, HasPlanLock(q)
  PROVE  CalendarsIInv'
<1>1. PICK r \in Request : r = req[q]
  BY DEF CalendarsIInv, CalendarsTypeOK
<1> DEFINE c == [r EXCEPT !.at = "calendars", !.todo = {r.cal} \ {NoCal}]
<1>2. CASE Refused(q)
  BY <1>2, RefusedKeeps
<1>3. CASE IsLive(PlanAbove(r.of)) /\ Step(q, c)
  <2>1. r.op \in {"add", "bind"} /\ r.at = "plans" /\ r.todo = {} /\ Good(q)
    BY <1>1 DEF HasPlanLock, At, CalendarsIInv
  <2>2. /\ c.op = r.op /\ c.at = "calendars" /\ c.of = r.of /\ c.cal = r.cal
        /\ c.share = r.share /\ c.row = r.row /\ c.holds = r.holds
        /\ c.todo = {r.cal} \ {NoCal}
    BY DEF Request
  <2>3. c \in Request
    BY DEF Request, Bound
  <2> HIDE DEF c
  <2>4. ASSUME r.op = "add" PROVE Adding(q)'
    <3>1. r.of \in Activity /\ PlanOf[r.of] \in r.holds /\ hold[r.of].batch = Absent
      BY <1>1, <2>1, <2>4 DEF Good, Adding, Locks, Holder
    <3>2. hold[PlanOf[r.of]].batch = Live
      BY <1>3, <3>1, Kinds, Batches DEF IsLive, PlanAbove
    <3> QED BY <1>3, <2>2, <3>1, <3>2, Stepped, Kinds DEF Adding, PlanLocked, PlanLive, Locks
  <2>5. ASSUME r.op = "bind" PROVE Binding(q)'
    BY <1>1, <1>3, <2>1, <2>2, <2>5, Stepped DEF Good, Binding, Locks
  <2>6. Good(q)'
    BY <1>3, <2>1, <2>2, <2>4, <2>5, Stepped DEF Good
  <2> QED BY <1>1, <1>3, <2>2, <2>3, <2>6, OnwardKeeps
<1> QED BY <1>1, <1>2, <1>3 DEF HasPlanLock

\* The project is shared: nobody has it for a delete.
LEMMA ShareKeeps ==
  ASSUME CalendarsIInv, NEW q \in Slot, NEW c \in Request, Step(q, c), Good(q)',
         c.op = req[q].op, c.of = req[q].of, c.holds = req[q].holds, c.row = req[q].row,
         NEW x, c.share = {x}, ShareFree(x)
  PROVE  CalendarsIInv'
<1>1. \A u \in Slot \ {q} : Apart(q, u) /\ Apart(u, q)
  BY DEF CalendarsIInv
<1>2. \A u \in Slot : x \notin req[u].row
  BY DEF ShareFree
<1> QED BY <1>1, <1>2, StepKeeps DEF Apart

LEMMA ShareForPlanKeeps ==
  ASSUME CalendarsIInv, NEW q \in Slot, ShareForPlan(q)
  PROVE  CalendarsIInv'
<1>1. PICK r \in Request : r = req[q]
  BY DEF CalendarsIInv, CalendarsTypeOK
<1>2. r.op = "add" /\ r.at = "share" /\ r.of \in Plan /\ hold[r.of].batch = Absent
  BY <1>1 DEF ShareForPlan, At, CalendarsIInv, Good, Adding, Holder
<1>3. PICK x \in Project : x = HomeOf[r.of]
  BY <1>2, Kinds
<1>4. ProjectFor(q) = x
  BY <1>1, <1>2, <1>3 DEF ProjectFor
<1> DEFINE c == [r EXCEPT !.at = "calendars", !.todo = {r.cal} \ {NoCal}, !.share = {x}]
<1>5. CASE Refused(q)
  BY <1>5, RefusedKeeps
<1>6. CASE ShareFree(x) /\ IsLive(x) /\ Step(q, c)
  <2>1. /\ c.op = r.op /\ c.at = "calendars" /\ c.of = r.of /\ c.cal = r.cal
        /\ c.share = {x} /\ c.row = r.row /\ c.holds = r.holds
        /\ c.todo = {r.cal} \ {NoCal}
    BY DEF Request
  <2>2. c \in Request
    BY DEF Request, Bound
  <2> HIDE DEF c
  <2>3. proj[x] = Live
    BY <1>6, Batches DEF IsLive
  <2>4. Adding(q)'
    BY <1>2, <1>3, <1>6, <2>1, <2>3, Stepped, Kinds DEF Adding, ProjectShared, Locks
  <2>5. Good(q)'
    BY <1>2, <1>6, <2>1, <2>4, Stepped DEF Good
  <2> QED BY <1>1, <1>6, <2>1, <2>2, <2>5, ShareKeeps
<1> QED BY <1>1, <1>4, <1>5, <1>6 DEF ShareForPlan, TakeShare

LEMMA GuardKeeps ==
  ASSUME CalendarsIInv, NEW q \in Slot, Guard(q)
  PROVE  CalendarsIInv'
<1>1. PICK r \in Request : r = req[q]
  BY DEF CalendarsIInv, CalendarsTypeOK
<1> DEFINE gone == r.of \in Plan /\ r.op = "add" /\ ~IsLive(r.cal)
           k == IF r.cal # NoCal /\ gone THEN NoCal ELSE r.cal
           c == [r EXCEPT !.at = "commit", !.cal = k]
<1>2. CASE Refused(q)
  BY <1>2, RefusedKeeps
<1>3. CASE (r.cal = NoCal \/ gone \/ Usable(r.cal, r.of)) /\ Step(q, c)
  <2>1. r.op \in {"add", "bind"} /\ r.at = "calendars" /\ r.todo = {} /\ Good(q)
    BY <1>1 DEF Guard, At, CalendarsIInv
  <2>2. k \in Bound
    BY DEF Request, Bound
  <2>3. k = NoCal \/ (k = r.cal /\ k \in Calendar /\ Usable(k, r.of))
    BY <1>3 DEF Request, Bound
  <2> HIDE DEF k
  <2>4. /\ c.op = r.op /\ c.at = "commit" /\ c.of = r.of /\ c.cal = k
        /\ c.share = r.share /\ c.row = r.row /\ c.holds = r.holds /\ c.todo = r.todo
        /\ c \in Request
    BY <2>2 DEF Request
  <2> HIDE DEF c
  <2>5. r.cal = NoCal \/ r.cal \in r.holds
    BY <1>1, <2>1 DEF Good, Adding, Binding, Locks
  <2>6. k # NoCal => k \in r.holds /\ Anchored(k) /\ Suits(k, r.of)
    BY <2>3, <2>5, Batches DEF Usable, IsLive, Anchored, Suits
  <2>7. Settled(q)'
    BY <1>3, <2>4, <2>6, Stepped DEF Settled
  <2>8. ASSUME r.op = "add" PROVE Adding(q)'
    BY <1>1, <1>3, <2>1, <2>4, <2>7, <2>8, Stepped
    DEF Good, Adding, ProjectShared, PlanLocked, PlanLive, Locks
  <2>9. ASSUME r.op = "bind" PROVE Binding(q)'
    BY <1>1, <1>3, <2>1, <2>4, <2>7, <2>9, Stepped DEF Good, Binding
  <2>10. Good(q)'
    BY <1>3, <2>1, <2>4, <2>8, <2>9, Stepped DEF Good
  <2> QED BY <1>1, <1>3, <2>4, <2>10, OnwardKeeps
<1> QED BY <1>1, <1>2, <1>3 DEF Guard

LEMMA CheckMoveKeeps ==
  ASSUME CalendarsIInv, NEW q \in Slot, CheckMove(q)
  PROVE  CalendarsIInv'
<1>1. PICK r \in Request : r = req[q]
  BY DEF CalendarsIInv, CalendarsTypeOK
<1> DEFINE c == [r EXCEPT !.at = "commit"]
<1>2. CASE Refused(q)
  BY <1>2, RefusedKeeps
<1>3. CASE NarrowingAllowed(r.of, r.home) /\ Step(q, c)
  <2>1. r.op = "move" /\ r.todo = {} /\ Moving(q)
    BY <1>1 DEF CheckMove, At, CalendarsIInv, Good
  <2>2. /\ c.op = r.op /\ c.at = "commit" /\ c.of = r.of /\ c.home = r.home
        /\ c.share = r.share /\ c.row = r.row /\ c.holds = r.holds /\ c.todo = r.todo
        /\ c \in Request
    BY DEF Request
  <2> HIDE DEF c
  <2>3. Moving(q)'
    BY <1>1, <1>3, <2>1, <2>2, Stepped DEF Moving, Locks
  <2>4. Good(q)'
    BY <1>3, <2>1, <2>2, <2>3, Stepped DEF Good
  <2> QED BY <1>1, <1>3, <2>2, <2>4, OnwardKeeps
<1> QED BY <1>1, <1>2, <1>3 DEF CheckMove

LEMMA CheckRemoveKeeps ==
  ASSUME CalendarsIInv, NEW q \in Slot, CheckRemove(q)
  PROVE  CalendarsIInv'
<1>1. PICK r \in Request : r = req[q]
  BY DEF CalendarsIInv, CalendarsTypeOK
<1> DEFINE c == [r EXCEPT !.at = "commit"]
<1>2. CASE Refused(q)
  BY <1>2, RefusedKeeps
<1>3. CASE (\A k \in r.holds : ~InUse(k)) /\ Step(q, c)
  <2>1. r.op = "remove" /\ r.todo = {}
    BY <1>1 DEF CheckRemove, At
  <2>2. /\ c.op = r.op /\ c.at = "commit" /\ c.of = r.of
        /\ c.share = r.share /\ c.row = r.row /\ c.holds = r.holds /\ c.todo = r.todo
        /\ c \in Request
    BY DEF Request
  <2> HIDE DEF c
  <2>3. Removing(q)'
    BY <1>3, <2>1, <2>2, Stepped DEF Removing
  <2>4. Good(q)'
    BY <1>3, <2>1, <2>2, <2>3, Stepped DEF Good
  <2> QED BY <1>1, <1>3, <2>2, <2>4, OnwardKeeps
<1>4. Refused(q) \/ ((\A k \in r.holds : ~InUse(k)) /\ Step(q, c))
  BY <1>1 DEF CheckRemove
<1> QED BY <1>2, <1>3, <1>4

LEMMA ReadBatchKeeps ==
  ASSUME CalendarsIInv, NEW q \in Slot, ReadBatch(q)
  PROVE  CalendarsIInv'
<1>1. PICK r \in Request : r = req[q]
  BY DEF CalendarsIInv, CalendarsTypeOK
<1> DEFINE c == [r EXCEPT !.at = "calendars", !.batch = BatchOf(r.of), !.todo = CalsOf(BatchOf(r.of))]
<1>2. CASE Refused(q)
  BY <1>2, RefusedKeeps
<1>3. CASE IsDead(r.of) /\ Step(q, c)
  <2>1. r.op = "restore" /\ r.at = "plans" /\ r.todo = {} /\ Restoring(q)
    BY <1>1 DEF ReadBatch, At, CalendarsIInv, Good
  <2>2. PICK b \in Batch : b = BatchOf(r.of)
    BY <1>3 DEF IsDead
  <2>3. PICK K \in SUBSET Calendar : K = CalsOf(b)
    BY CalsOfBatch
  <2>4. /\ c.op = r.op /\ c.at = "calendars" /\ c.of = r.of /\ c.home = r.home
        /\ c.share = r.share /\ c.row = r.row /\ c.holds = r.holds
        /\ c.todo = K /\ c.batch = b /\ c.found = r.found
    BY <2>2, <2>3 DEF Request
  <2>5. c \in Request
    <3>1. c = [r EXCEPT !.at = "calendars", !.batch = b, !.todo = K]
      BY <2>2, <2>3
    <3>2. b \in State /\ K \in SUBSET (Calendar \cup Plan)
      BY DEF State
    <3> QED BY <3>1, <3>2 DEF Request
  <2> HIDE DEF c
  <2>6. r.of \in Activity => PlanOf[r.of] \in r.holds
    BY <1>1, <2>1 DEF Restoring, PlanLocked, Locks
  <2>7. r.of \notin Plan \cup Resource \cup Project
    BY <1>1, <2>1 DEF Restoring
  <2>8. Restoring(q)'
    BY <1>1, <1>3, <2>1, <2>3, <2>4, <2>6, <2>7, Stepped DEF Restoring, PlanLocked, Locks
  <2>9. Good(q)'
    BY <1>3, <2>1, <2>4, <2>8, Stepped DEF Good
  <2> QED BY <1>1, <1>3, <2>4, <2>5, <2>9, OnwardKeeps
<1> QED BY <1>1, <1>2, <1>3 DEF ReadBatch

LEMMA RereadKeeps ==
  ASSUME CalendarsIInv, NEW q \in Slot, Reread(q)
  PROVE  CalendarsIInv'
<1>1. PICK r \in Request : r = req[q]
  BY DEF CalendarsIInv, CalendarsTypeOK
<1>2. PICK k \in Calendar : k = r.of
  BY <1>1 DEF Reread
<1>3. PICK x \in Project \cup {Org} : x = cal[k].home
  BY DEF CalendarsIInv, CalendarsTypeOK
<1> DEFINE c == [r EXCEPT !.batch = cal[k].batch, !.home = x,
                          !.at = IF x = Org THEN "commit" ELSE "share"]
<1>4. CASE Refused(q)
  BY <1>4, RefusedKeeps
<1>5. CASE IsDead(k) /\ Step(q, c)
  <2>1. r.op = "restore" /\ Restoring(q)
    BY <1>1 DEF Reread, At, CalendarsIInv, Good
  <2>2. PICK b \in Batch : b = cal[k].batch
    BY <1>5, Batches DEF IsDead
  <2>3. /\ c.op = r.op /\ c.of = k /\ c.home = x /\ (c.at = "share" => x # Org)
        /\ c.share = r.share /\ c.row = r.row /\ c.holds = r.holds
        /\ c.todo = r.todo /\ c.batch = b /\ c.found = r.found
    BY <1>2, <2>2 DEF Request
  <2>4. c \in Request
    <3> DEFINE at == IF x = Org THEN "commit" ELSE "share"
    <3>1. c = [r EXCEPT !.batch = b, !.home = x, !.at = at]
      BY <2>2
    <3>2. b \in State /\ at \in {"commit", "share"}
      BY DEF State
    <3> HIDE DEF at, c
    <3> QED BY <3>1, <3>2 DEF Request
  <2> HIDE DEF c
  <2>5. \A d \in r.found : cal[d].batch # Absent
    BY <1>1, <2>1 DEF Restoring
  <2>6. Restoring(q)'
    BY <1>5, <2>3, <2>5, Stepped, Kinds DEF Restoring
  <2>7. Good(q)'
    BY <1>5, <2>1, <2>3, <2>6, Stepped DEF Good
  <2> QED BY <1>1, <1>2, <1>5, <2>3, <2>4, <2>7, OnwardKeeps
<1>6. Refused(q) \/ (IsDead(k) /\ Step(q, c))
  BY <1>1, <1>2, <1>3 DEF Reread
<1> QED BY <1>4, <1>5, <1>6

LEMMA ShareForRestoreKeeps ==
  ASSUME CalendarsIInv, NEW q \in Slot, ShareForRestore(q)
  PROVE  CalendarsIInv'
<1>1. PICK r \in Request : r = req[q]
  BY DEF CalendarsIInv, CalendarsTypeOK
<1>2. r.op = "restore" /\ r.at = "share" /\ r.todo = {} /\ Restoring(q)
  BY <1>1 DEF ShareForRestore, At, CalendarsIInv, Good
<1>3. r.of \in Plan \/ (r.of \in Calendar /\ r.home # Org)
  BY <1>1, <1>2 DEF Restoring, Holder
<1>4. PICK x \in Project : x = ProjectFor(q)
  BY <1>1, <1>3, Kinds DEF ProjectFor, Request
<1> DEFINE c == [r EXCEPT !.at = IF r.of \in Plan THEN "calendars" ELSE "commit", !.share = {x}]
<1>5. CASE Refused(q)
  BY <1>5, RefusedKeeps
<1>6. CASE ShareFree(x) /\ IsLive(x) /\ Step(q, c)
  <2>1. /\ c.op = r.op /\ c.of = r.of /\ c.home = r.home
        /\ c.at = IF r.of \in Plan THEN "calendars" ELSE "commit"
        /\ c.share = {x} /\ c.row = r.row /\ c.holds = r.holds
        /\ c.todo = r.todo /\ c.batch = r.batch /\ c.found = r.found
    BY DEF Request
  <2>2. c \in Request
    <3> DEFINE at == IF r.of \in Plan THEN "calendars" ELSE "commit"
    <3>1. at \in {"calendars", "commit"} /\ {x} \in SUBSET Project /\ c = [r EXCEPT !.at = at, !.share = {x}]
      OBVIOUS
    <3> HIDE DEF at
    <3> QED BY <3>1 DEF Request
  <2> HIDE DEF c
  <2>3. proj[x] = Live /\ (r.of \in Plan => HomeOf[r.of] = x)
    BY <1>1, <1>4, <1>6, Batches DEF IsLive, ProjectFor
  <2>4. Restoring(q)'
    BY <1>1, <1>2, <1>3, <1>6, <2>1, <2>3, Stepped, Kinds DEF Restoring, ProjectShared, Locks
  <2>5. Good(q)'
    BY <1>2, <1>6, <2>1, <2>4, Stepped DEF Good
  <2> QED BY <1>1, <1>6, <2>1, <2>2, <2>5, ShareKeeps
<1>7. Refused(q) \/ (ShareFree(x) /\ IsLive(x) /\ Step(q, c))
  BY <1>1, <1>4 DEF ShareForRestore, TakeShare
<1> QED BY <1>5, <1>6, <1>7

LEMMA CheckRestoreKeeps ==
  ASSUME CalendarsIInv, NEW q \in Slot, CheckRestore(q)
  PROVE  CalendarsIInv'
<1>1. PICK r \in Request : r = req[q]
  BY DEF CalendarsIInv, CalendarsTypeOK
<1>2. PICK F \in SUBSET Calendar : F = Stranded(q)
  BY DEF Stranded, CalsOf, Members, CalendarsIInv, CalendarsTypeOK, Bound
<1> DEFINE c == [r EXCEPT !.at = "commit", !.found = F]
<1>3. CASE Refused(q)
  BY <1>3, RefusedKeeps
<1>4. CASE /\ r.of \in Activity => IsLive(PlanOf[r.of])
           /\ CalendarsFit(q) /\ Step(q, c)
  <2>1. /\ r.op = "restore" /\ r.at = "calendars" /\ r.todo = {} /\ Restoring(q)
        /\ r.of \notin Calendar
    BY <1>1 DEF CheckRestore, At, CalendarsIInv, Good
  <2>2. /\ c.op = r.op /\ c.of = r.of /\ c.home = r.home /\ c.at = "commit"
        /\ c.share = r.share /\ c.row = r.row /\ c.holds = r.holds
        /\ c.todo = r.todo /\ c.batch = r.batch /\ c.found = F
    BY DEF Request
  <2>3. c \in Request
    BY DEF Request
  <2> HIDE DEF c
  <2>4. CalsOf(r.batch) \subseteq r.holds
    BY <1>1, <2>1 DEF Restoring, Locks
  <2>5. ASSUME NEW k \in CalsOf(r.batch)
        PROVE  cal[k].batch = r.batch \/ Anchored(k) \/ k \in F
    <3>1. PICK h \in Members(r.batch) : k = hold[h].cal /\ k # NoCal
      BY DEF CalsOf
    <3>2. k \in Calendar
      BY <3>1 DEF Members, CalendarsIInv, CalendarsTypeOK, Bound
    <3>3. cal[k].batch = r.batch \/ IsLive(k) \/ k \in Stranded(q)
      BY <1>1, <1>4, <3>1 DEF CalendarsFit
    <3> QED BY <1>2, <3>2, <3>3, Batches DEF IsLive, Anchored
  <2>6. \A k \in F : cal[k].batch # Absent
    BY <1>2, Batches DEF Stranded, IsDead
  <2>7. r.of \in Activity => hold[PlanOf[r.of]].batch = Live
    BY <1>4, Kinds, Batches DEF IsLive
  <2>8. \A k \in CalsOf(r.batch) : Kept(q, k)'
    BY <1>4, <2>2, <2>4, <2>5, Stepped DEF Kept
  <2>9. Restoring(q)'
    BY <1>1, <1>4, <2>1, <2>2, <2>4, <2>6, <2>7, <2>8, Stepped
    DEF Restoring, ProjectShared, PlanLocked, PlanLive, Locks
  <2>10. Good(q)'
    BY <1>4, <2>1, <2>2, <2>9, Stepped DEF Good
  <2> QED BY <1>1, <1>4, <2>2, <2>3, <2>10, OnwardKeeps
<1>5. \/ Refused(q)
      \/ /\ r.of \in Activity => IsLive(PlanOf[r.of])
         /\ CalendarsFit(q) /\ Step(q, c)
  BY <1>1, <1>2 DEF CheckRestore
<1> QED BY <1>3, <1>4, <1>5

LEMMA LockRowKeeps ==
  ASSUME CalendarsIInv, NEW q \in Slot, LockRow(q)
  PROVE  CalendarsIInv'
<1>1. PICK r \in Request : r = req[q]
  BY DEF CalendarsIInv, CalendarsTypeOK
<1>2. r.op = "sweep" /\ r.at = "row" /\ r.of \in Project
  BY <1>1 DEF LockRow, At, CalendarsIInv, Good, Sweeping
<1>3. PICK x \in Project : x = r.of
  BY <1>2
<1> DEFINE P == {p \in PlansIn(x) : IsLive(p)}
           c == [r EXCEPT !.at = "plans", !.row = {x}, !.todo = P]
<1>4. CASE Refused(q)
  BY <1>4, RefusedKeeps
<1>5. CASE RowFree(x) /\ IsLive(x) /\ Step(q, c)
  <2>1. P \in SUBSET Plan /\ \A p \in PlansIn(x) : hold[p].batch = Live => p \in P
    BY Kinds, Batches DEF PlansIn, IsLive
  <2> HIDE DEF P
  <2>2. /\ c.op = r.op /\ c.of = r.of /\ c.at = "plans" /\ c.share = r.share
        /\ c.row = {x} /\ c.holds = r.holds /\ c.todo = P /\ c \in Request
    BY <2>1 DEF Request
  <2> HIDE DEF c
  <2>3. proj[x] = Live
    BY <1>5, Batches DEF IsLive
  <2>4. Sweeping(q)'
    BY <1>3, <1>5, <2>1, <2>2, <2>3, Stepped DEF Sweeping, Locks
  <2>5. Good(q)'
    BY <1>2, <1>5, <2>2, <2>4, Stepped DEF Good
  <2>6. \A u \in Slot \ {q} : Apart(q, u) /\ Apart(u, q) /\ x \notin req[u].row \cup req[u].share
    BY <1>5 DEF CalendarsIInv, RowFree
  <2> QED BY <1>1, <1>5, <2>2, <2>5, <2>6, StepKeeps DEF Apart
<1> QED BY <1>1, <1>3, <1>4, <1>5 DEF LockRow

LEMMA FindCalendarsKeeps ==
  ASSUME CalendarsIInv, NEW q \in Slot, FindCalendars(q)
  PROVE  CalendarsIInv'
<1>1. PICK r \in Request : r = req[q]
  BY DEF CalendarsIInv, CalendarsTypeOK
<1>2. r.op = "sweep" /\ r.at = "plans" /\ Sweeping(q)
  BY <1>1 DEF FindCalendars, At, CalendarsIInv, Good
<1> DEFINE F == {c \in Calendar : IsLive(c) /\ cal[c].home = r.of}
           c == [r EXCEPT !.at = "commit", !.found = F]
<1>3. Step(q, c) /\ F \in SUBSET Calendar
  BY <1>1 DEF FindCalendars
<1> HIDE DEF F
<1>4. /\ c.op = r.op /\ c.of = r.of /\ c.at = "commit" /\ c.share = r.share
      /\ c.row = r.row /\ c.holds = r.holds /\ c.todo = r.todo /\ c \in Request
  BY <1>3 DEF Request
<1> HIDE DEF c
<1>5. Sweeping(q)'
  BY <1>1, <1>2, <1>3, <1>4, Stepped DEF Sweeping, Locks
<1>6. Good(q)'
  BY <1>2, <1>3, <1>4, <1>5, Stepped DEF Good
<1> QED BY <1>1, <1>3, <1>4, <1>6, OnwardKeeps

-----------------------------------------------------------------------------
(* Requests.                                                               *)

LEMMA AskAddKeeps ==
  ASSUME CalendarsIInv, NEW q \in Slot, NEW h \in Holder, NEW k \in Bound, AskAdd(q, h, k)
  PROVE  CalendarsIInv'
<1> DEFINE where == IF h \in Plan THEN "share" ELSE IF h \in Activity THEN "plans" ELSE "calendars"
           T == IF h \in Plan THEN {} ELSE IF h \in Activity THEN {PlanOf[h]} ELSE {k} \ {NoCal}
           c == [Idle EXCEPT !.op = "add", !.of = h, !.cal = k, !.at = where, !.todo = T]
<1>1. Begin(q, c) /\ hold[h].batch = Absent /\ \A u \in Slot : req[u].of # h
  BY Batches DEF AskAdd, Unused
<1>2. T \in SUBSET (Calendar \cup Plan)
  BY Kinds DEF Bound
<1>3. /\ h \in Plan => where = "share"
      /\ h \in Activity => where = "plans" /\ T = {PlanOf[h]}
      /\ h \in Resource => where = "calendars" /\ T = {k} \ {NoCal}
      /\ where \in {"share", "plans", "calendars"}
  BY Kinds
<1> HIDE DEF where, T
<1>4. /\ c.op = "add" /\ c.of = h /\ c.cal = k /\ c.at = where /\ c.todo = T
      /\ c.holds = {} /\ c.row = {} /\ c.share = {} /\ c \in Request
  BY <1>2, <1>3, IdleIsGood DEF Idle, Request
<1> HIDE DEF c
<1>5. Step(q, c)
  BY <1>1 DEF Begin, Step
<1>6. Adding(q)'
  BY <1>1, <1>3, <1>4, <1>5, Stepped, Kinds DEF Adding, Locks, Holder
<1>7. Good(q)'
  BY <1>4, <1>5, <1>6, Stepped DEF Good
<1> QED BY <1>1, <1>4, <1>7, BeginKeeps

LEMMA AskBindKeeps ==
  ASSUME CalendarsIInv, NEW q \in Slot, NEW h \in Holder, NEW k \in Bound, AskBind(q, h, k)
  PROVE  CalendarsIInv'
<1>1. hold[h].batch = Live /\ k \in Calendar
  BY Batches DEF AskBind, IsLive, Known
<1>2. \A u \in Slot : req[u].op \in {"add", "new"} => h # req[u].of
  BY <1>1, Batches, NotAboutNew
<1>3. ASSUME NEW where \in {"plans", "calendars"}, NEW T \in SUBSET (Calendar \cup Plan),
             where = "calendars" => k \in T,
             Begin(q, [Idle EXCEPT !.op = "bind", !.of = h, !.cal = k, !.at = where, !.todo = T])
      PROVE  CalendarsIInv'
  <2> DEFINE c == [Idle EXCEPT !.op = "bind", !.of = h, !.cal = k, !.at = where, !.todo = T]
  <2>1. /\ c.op = "bind" /\ c.of = h /\ c.cal = k /\ c.at = where /\ c.todo = T
        /\ c.holds = {} /\ c.row = {} /\ c.share = {} /\ c \in Request
    BY IdleIsGood DEF Idle, Request
  <2>2. Begin(q, c)
    BY <1>3
  <2> HIDE DEF c
  <2>3. Step(q, c)
    BY <2>2 DEF Begin, Step
  <2>4. Binding(q)'
    BY <1>3, <2>1, <2>3, Stepped DEF Binding, Locks
  <2>5. Good(q)'
    BY <2>1, <2>3, <2>4, Stepped DEF Good
  <2> QED BY <1>2, <2>1, <2>2, <2>5, BeginKeeps
<1>4. CASE Begin(q, [Idle EXCEPT !.op = "bind", !.of = h, !.cal = k, !.at = "calendars", !.todo = {k}])
  <2>1. "calendars" \in {"plans", "calendars"} /\ {k} \in SUBSET (Calendar \cup Plan) /\ k \in {k}
    BY <1>1
  <2> QED BY <1>3, <1>4, <2>1
<1>5. CASE /\ h \notin Resource
           /\ Begin(q, [Idle EXCEPT !.op = "bind", !.of = h, !.cal = k, !.at = "plans",
                                    !.todo = {PlanAbove(h)}])
  <2>1. PlanAbove(h) \in Plan
    BY <1>5, Kinds DEF PlanAbove, Holder
  <2>2. "plans" \in {"plans", "calendars"} /\ {PlanAbove(h)} \in SUBSET (Calendar \cup Plan)
        /\ "plans" # "calendars"
    BY <2>1
  <2> QED BY <1>3, <1>5, <2>2
<1> QED BY <1>4, <1>5 DEF AskBind

LEMMA AskNewKeeps ==
  ASSUME CalendarsIInv, NEW q \in Slot, NEW k \in Calendar, NEW x \in Project \cup {Org}, AskNew(q, k, x)
  PROVE  CalendarsIInv'
<1> DEFINE c == [Idle EXCEPT !.op = "new", !.of = k, !.home = x]
<1>1. Begin(q, c) /\ cal[k].batch = Absent /\ \A u \in Slot : req[u].of # k
  BY Batches DEF AskNew, Unused
<1>2. /\ c.op = "new" /\ c.of = k /\ c.holds = {} /\ c.row = {} /\ c.share = {} /\ c \in Request
  BY IdleIsGood DEF Idle, Request
<1> HIDE DEF c
<1>3. Step(q, c)
  BY <1>1 DEF Begin, Step
<1>4. Creating(q)'
  BY <1>1, <1>2, <1>3, Stepped DEF Creating
<1>5. Good(q)'
  BY <1>2, <1>3, <1>4, Stepped DEF Good
<1> QED BY <1>1, <1>2, <1>5, BeginKeeps

LEMMA AskMoveKeeps ==
  ASSUME CalendarsIInv, NEW q \in Slot, NEW k \in Calendar, NEW x \in Project \cup {Org}, AskMove(q, k, x)
  PROVE  CalendarsIInv'
<1> DEFINE where == IF x = Org THEN "commit" ELSE "calendars"
           T == IF x = Org THEN {} ELSE {k}
           c == [Idle EXCEPT !.op = "move", !.of = k, !.home = x, !.at = where, !.todo = T]
<1>1. Begin(q, c) /\ cal[k].batch = Live
  BY Batches DEF AskMove, IsLive
<1>2. /\ T \in SUBSET (Calendar \cup Plan) /\ where \in {"commit", "calendars"}
      /\ x # Org => T = {k} /\ where = "calendars"
  OBVIOUS
<1> HIDE DEF where, T
<1>3. /\ c.op = "move" /\ c.of = k /\ c.home = x /\ c.at = where /\ c.todo = T
      /\ c.holds = {} /\ c.row = {} /\ c.share = {} /\ c \in Request
  BY <1>2, IdleIsGood DEF Idle, Request
<1> HIDE DEF c
<1>4. Step(q, c)
  BY <1>1 DEF Begin, Step
<1>5. Moving(q)'
  BY <1>2, <1>3, <1>4, Stepped DEF Moving, Locks
<1>6. Good(q)'
  BY <1>3, <1>4, <1>5, Stepped DEF Good
<1>7. \A u \in Slot : req[u].op \in {"add", "new"} => k # req[u].of
  BY <1>1, Batches, NotAboutNew
<1> QED BY <1>1, <1>3, <1>6, <1>7, BeginKeeps

LEMMA AskRemoveKeeps ==
  ASSUME CalendarsIInv, NEW q \in Slot, NEW S \in (SUBSET Calendar) \ {{}}, AskRemove(q, S)
  PROVE  CalendarsIInv'
<1>1. PICK bulk \in BOOLEAN :
        /\ IF bulk THEN S \subseteq Known ELSE \E k \in Calendar : S = {k} /\ IsLive(k)
        /\ Begin(q, [Idle EXCEPT !.op = "remove", !.of = Min(S), !.at = "calendars",
                                 !.bulk = bulk, !.todo = S])
  BY DEF AskRemove
<1>2. \E m \in S : \A k \in S : m <= k
  <2>1. S \in SUBSET Nat /\ S # {}
    BY CalendarsAssumption
  <2> QED BY <2>1, SmallestNumber
<1>3. PICK k \in S : k = Min(S)
  BY <1>2 DEF Min
<1>4. k \in Calendar /\ cal[k].batch # Absent
  BY <1>1, Batches DEF Known, IsLive
<1> DEFINE c == [Idle EXCEPT !.op = "remove", !.of = k, !.at = "calendars", !.bulk = bulk, !.todo = S]
<1>5. Begin(q, c)
  BY <1>1, <1>3
<1>6. /\ c.op = "remove" /\ c.of = k /\ c.at = "calendars"
      /\ c.holds = {} /\ c.row = {} /\ c.share = {} /\ c \in Request
  BY <1>4, IdleIsGood DEF Idle, Request
<1> HIDE DEF c
<1>7. Step(q, c)
  BY <1>5 DEF Begin, Step
<1>8. Good(q)'
  BY <1>6, <1>7, Stepped DEF Good, Removing
<1>9. \A u \in Slot : req[u].op \in {"add", "new"} => k # req[u].of
  BY <1>4, Batches, NotAboutNew
<1> QED BY <1>5, <1>6, <1>8, <1>9, BeginKeeps

LEMMA AskRestoreKeeps ==
  ASSUME CalendarsIInv, NEW q \in Slot, NEW r \in Holder \cup Calendar \cup Project, AskRestore(q, r)
  PROVE  CalendarsIInv'
<1>1. PICK b \in Batch : b = BatchOf(r)
  BY DEF AskRestore, IsDead
<1>2. PICK K \in SUBSET Calendar : K = CalsOf(b)
  BY CalsOfBatch
<1> DEFINE where == IF r \in Activity THEN "plans" ELSE IF r \in Plan THEN "share" ELSE "calendars"
           T == IF r \in Activity THEN {PlanOf[r]} ELSE IF r \in Calendar THEN {r} ELSE K
           c == [Idle EXCEPT !.op = "restore", !.of = r, !.batch = b, !.at = where, !.todo = T]
<1>3. Begin(q, c)
  BY <1>1, <1>2 DEF AskRestore
<1>4. /\ T \in SUBSET (Calendar \cup Plan) /\ where \in {"plans", "share", "calendars"}
      /\ r \in Plan => where = "share" /\ T = K
      /\ r \in Activity => where = "plans" /\ T = {PlanOf[r]}
      /\ r \in Resource \cup Project => where = "calendars" /\ T = K
      /\ r \in Calendar => where = "calendars"
  BY Kinds
<1> HIDE DEF where, T
<1>5. /\ c.op = "restore" /\ c.of = r /\ c.batch = b /\ c.at = where /\ c.todo = T
      /\ c.holds = {} /\ c.row = {} /\ c.share = {} /\ c.found = {} /\ c \in Request
  <2>1. b \in State
    BY DEF State
  <2> QED BY <1>4, <2>1, IdleIsGood DEF Idle, Request
<1> HIDE DEF c
<1>6. Step(q, c)
  BY <1>3 DEF Begin, Step
<1>7. Restoring(q)'
  BY <1>2, <1>4, <1>5, <1>6, Stepped, Kinds DEF Restoring, Locks, Holder
<1>8. Good(q)'
  BY <1>5, <1>6, <1>7, Stepped DEF Good
<1>9. \A u \in Slot : req[u].op \in {"add", "new"} => r # req[u].of
  BY <1>1, Batches, NotAboutNew
<1> QED BY <1>3, <1>5, <1>8, <1>9, BeginKeeps

LEMMA AskSweepKeeps ==
  ASSUME CalendarsIInv, NEW q \in Slot, NEW x \in Project, AskSweep(q, x)
  PROVE  CalendarsIInv'
<1> DEFINE c == [Idle EXCEPT !.op = "sweep", !.of = x, !.at = "row"]
<1>1. Begin(q, c) /\ proj[x] = Live
  BY Batches DEF AskSweep, IsLive
<1>2. /\ c.op = "sweep" /\ c.of = x /\ c.at = "row"
      /\ c.holds = {} /\ c.row = {} /\ c.share = {} /\ c \in Request
  BY IdleIsGood DEF Idle, Request
<1> HIDE DEF c
<1>3. Step(q, c)
  BY <1>1 DEF Begin, Step
<1>4. Good(q)'
  BY <1>2, <1>3, Stepped DEF Good, Sweeping
<1>5. \A u \in Slot : req[u].op \in {"add", "new"} => x # req[u].of
  BY <1>1, Batches, NotAboutNew
<1> QED BY <1>1, <1>2, <1>4, <1>5, BeginKeeps

-----------------------------------------------------------------------------
(* The invariant and the theorem.                                          *)

LEMMA CalendarsStart == CalendarsInit => CalendarsIInv
<1> SUFFICES ASSUME CalendarsInit PROVE CalendarsIInv
  OBVIOUS
<1>1. CalendarsTypeOK
  BY IdleIsGood, Batches DEF CalendarsInit, CalendarsTypeOK, State, Bound
<1>2. RowsOK
  BY Batches, Kinds DEF CalendarsInit, RowsOK, Housed, Suited, Moored, Rooted
<1>3. \A q \in Slot : req[q] = Idle /\ Good(q)
  BY IdleIsGood DEF CalendarsInit
<1>4. \A q, u \in Slot : Apart(q, u)
  BY <1>3, IdleIsGood DEF Apart
<1> QED BY <1>1, <1>2, <1>3, <1>4 DEF CalendarsIInv

LEMMA CalendarsStep == CalendarsIInv /\ [CalendarsNext]_calendarsVars => CalendarsIInv'
<1> SUFFICES ASSUME CalendarsIInv, [CalendarsNext]_calendarsVars PROVE CalendarsIInv'
  OBVIOUS
<1>1. CASE Ask
  BY <1>1, AskAddKeeps, AskBindKeeps, AskNewKeeps, AskMoveKeeps, AskRemoveKeeps,
     AskRestoreKeeps, AskSweepKeeps DEF Ask
<1>2. CASE Work
  <2>1. PICK q \in Slot :
          \/ TakeLock(q)
          \/ HasPlanLock(q) \/ ShareForPlan(q) \/ Guard(q) \/ Add(q) \/ Bind(q)
          \/ New(q) \/ CheckMove(q) \/ Move(q)
          \/ CheckRemove(q) \/ \E batch \in [req[q].holds -> Batch] : Remove(q, batch)
          \/ ReadBatch(q) \/ Reread(q) \/ ShareForRestore(q) \/ CheckRestore(q) \/ Restore(q)
          \/ LockRow(q) \/ FindCalendars(q) \/ \E b \in Batch : Sweep(q, b)
          \/ Fail(q)
    BY <1>2 DEF Work
  <2>2. CASE TakeLock(q) \/ HasPlanLock(q) \/ ShareForPlan(q) \/ Guard(q) \/ Add(q) \/ Bind(q)
    BY <2>2, TakeLockKeeps, HasPlanLockKeeps, ShareForPlanKeeps, GuardKeeps, AddKeeps, BindKeeps
  <2>3. CASE New(q) \/ CheckMove(q) \/ Move(q) \/ CheckRemove(q)
    BY <2>3, NewKeeps, CheckMoveKeeps, MoveKeeps, CheckRemoveKeeps
  <2>4. CASE \E batch \in [req[q].holds -> Batch] : Remove(q, batch)
    BY <2>4, RemoveKeeps
  <2>5. CASE ReadBatch(q) \/ Reread(q) \/ ShareForRestore(q) \/ CheckRestore(q) \/ Restore(q)
    BY <2>5, ReadBatchKeeps, RereadKeeps, ShareForRestoreKeeps, CheckRestoreKeeps, RestoreKeeps
  <2>6. CASE LockRow(q) \/ FindCalendars(q) \/ \E b \in Batch : Sweep(q, b)
    BY <2>6, LockRowKeeps, FindCalendarsKeeps, SweepKeeps
  <2>7. CASE Fail(q)
    BY <2>7, RefusedKeeps DEF Fail
  <2> QED BY <2>1, <2>2, <2>3, <2>4, <2>5, <2>6, <2>7
<1>3. CASE Direct
  BY <1>3, UnbindKeeps, DropKeeps DEF Direct
<1>4. CASE UNCHANGED calendarsVars
  <2>1. \A u \in Slot : Same(u) /\ Beside(u)
    BY <1>4, QuietBeside DEF calendarsVars, Same
  <2>2. CalendarsTypeOK' /\ RowsOK'
    BY <1>4, QuietBeside DEF calendarsVars, CalendarsIInv, CalendarsTypeOK,
       RowsOK, Housed, Suited, Suits, Moored, Anchored, Rooted
  <2> QED BY <2>1, <2>2, OthersKeep
<1> QED BY <1>1, <1>2, <1>3, <1>4 DEF CalendarsNext

LEMMA CalendarsMeaning == CalendarsIInv => HoldersKeepCalendar
<1> SUFFICES ASSUME CalendarsIInv, NEW h \in Holder, IsLive(h), hold[h].cal # NoCal
             PROVE  Usable(hold[h].cal, h) \/ SweptAfterMove(hold[h].cal)
  BY DEF HoldersKeepCalendar
<1>1. PICK c \in Calendar : c = hold[h].cal
  BY DEF CalendarsIInv, CalendarsTypeOK, Bound
<1>2. hold[h].batch = Live
  BY Batches DEF IsLive
<1>3. Suits(c, h) /\ Anchored(c)
  BY <1>1, <1>2, Batches DEF CalendarsIInv, RowsOK, Suited, Moored
<1>4. CASE cal[c].batch = Live
  BY <1>1, <1>3, <1>4, Batches DEF Usable, IsLive, Suits
<1>5. CASE cal[c].batch \in Batch
  <2>1. PICK x \in Project : proj[x] = cal[c].batch
    BY <1>3, <1>5, Batches DEF Anchored
  <2>2. ASSUME cal[c].home = x PROVE FALSE
    <3>1. Area(h) = x
      BY <1>3, <2>2, Kinds DEF Suits
    <3>2. \/ h \in Plan /\ HomeOf[h] = x
          \/ h \in Activity /\ HomeOf[PlanOf[h]] = x
      BY <3>1, Kinds DEF Holder
    <3>3. proj[x] = Live
      BY <1>2, <3>2, Kinds DEF CalendarsIInv, RowsOK, Housed
    <3> QED BY <1>5, <2>1, <3>3, Batches
  <2>3. SweptAfterMove(c)
    BY <1>5, <2>1, <2>2, Batches DEF SweptAfterMove, IsDead
  <2> QED BY <1>1, <2>3
<1> QED BY <1>3, <1>4, <1>5 DEF Anchored

\* CalendarsOfHolders: whatever binds, deletes, narrows, sweeps and restores run
\* at once, what is live is scheduled on a calendar that is live and that it may
\* use, but for one swept after it was moved away.
THEOREM CalendarsOfHolders == CalendarsSpec => []HoldersKeepCalendar
<1>1. CalendarsSpec => []CalendarsIInv
  BY CalendarsStart, CalendarsStep, PTL DEF CalendarsSpec
<1> QED BY <1>1, CalendarsMeaning, PTL
=============================================================================
