----------------------------- MODULE Membership -----------------------------
(***************************************************************************)
(* Who belongs to one organisation and in which role: invitations are      *)
(* created, revoked, accepted and expire; members change role and are      *)
(* removed.  Each request runs statement by statement beside the others.   *)
(*                                                                         *)
(* Role changes and removals hold the organisation's advisory lock from    *)
(* before they re-read the member until they commit.  Invitations and      *)
(* acceptance take no lock: two partial unique indexes stand between them. *)
(*                                                                         *)
(* A caller's permissions are read once, when the request arrives.  An     *)
(* address stands for the one account that has it (both are lower case).   *)
(* The transaction of an acceptance is one step: the index makes a second  *)
(* one wait for it, and nobody sees the seat before the commit.            *)
(***************************************************************************)
EXTENDS Sequences, FiniteSets, Integers

CONSTANTS
  User,       \* accounts, and the addresses that are invited
  Founder,    \* who created the organisation
  Proven,     \* accounts whose address is verified, or need not be
  Role, Admin,
  Req,        \* slots for requests being served at the same time
  NoReq,      \* nobody has the organisation's lock
  MaxSeats, MaxInvitations, MaxVersion  \* bounds (model checking only)

ASSUME MembershipAssumption ==
  /\ Founder \in User /\ Proven \subseteq User
  /\ Admin \in Role /\ "removed" \notin Role /\ "none" \notin Role
  /\ NoReq \notin Req
  /\ {MaxSeats, MaxInvitations, MaxVersion} \subseteq Nat

VARIABLES
  members,      \* the membership rows, in the order of their creation
  invitations,  \* the invitation rows
  orgLock,      \* the request in the organisation's lock, or NoReq
  call          \* what each request slot is doing

vars == <<members, invitations, orgLock, call>>

\* What the audit log says of a membership, record by record.
Entry == [before: Role \cup {"none"}, after: Role \cup {"removed"}]
Seat == [user: User, role: Role, active: BOOLEAN, version: Nat, trail: Seq(Entry)]

\* `seats` counts the memberships the invitation has given.
Invitation ==
  [email: User, role: Role, status: {"PENDING", "ACCEPTED", "REVOKED"},
   expired: BOOLEAN, seats: Nat]

InTx == {"locked", "count", "write"}
Pc == InTx \cup {"idle", "check", "insert", "read", "set", "join", "queued"}
Op == {"none", "invite", "revoke", "accept", "change", "remove"}

\* `row` is the member or the invitation; `was` is the role a member was read
\* with, `role` the one to give, `version` the one the client last saw.
Call == [pc: Pc, op: Op, row: Nat, user: User, role: Role, was: Role, version: Nat]

Blank == [pc |-> "idle", op |-> "none", row |-> 0, user |-> Founder, role |-> Admin,
          was |-> Admin, version |-> 0]

TypeOK ==
  /\ members \in Seq(Seat)
  /\ invitations \in Seq(Invitation)
  /\ orgLock \in Req \cup {NoReq}
  /\ call \in [Req -> Call]

NewSeat(u, role) ==
  [user |-> u, role |-> role, active |-> TRUE, version |-> 1,
   trail |-> <<[before |-> "none", after |-> role]>>]

Init ==
  /\ members = <<NewSeat(Founder, Admin)>>
  /\ invitations = <<>>
  /\ orgLock = NoReq
  /\ call = [r \in Req |-> Blank]

-----------------------------------------------------------------------------
(* What the rows amount to, and the steps of a request.                    *)

HasSeat(u) == \E m \in DOMAIN members : members[m].active /\ members[m].user = u
Admins == {m \in DOMAIN members : members[m].active /\ members[m].role = Admin}

\* Some caller's principal carries the permission an Org Admin has.
Allowed == Admins # {}

\* Mutant of SeatFree: there is no unique index.
SeatFreeUnindexed(u) == TRUE

\* uq_org_members_org_user, and uq_invitations_org_email_pending.
SeatFree(u) == ~HasSeat(u)
NonePending(u) ==
  \A i \in DOMAIN invitations :
    ~(invitations[i].email = u /\ invitations[i].status = "PENDING")

Goto(r, pc) == call' = [call EXCEPT ![r].pc = pc]

Done(r) == call' = [call EXCEPT ![r] = Blank]

\* A request ends early: its next statement refuses (403, 404, 409, 410), or
\* fails, or the process dies.  An open transaction is rolled back.
Abandon(r) ==
  /\ call[r].pc # "idle"
  /\ orgLock' = IF orgLock = r THEN NoReq ELSE orgLock
  /\ Done(r)
  /\ UNCHANGED <<members, invitations>>

-----------------------------------------------------------------------------
(* Invitations.                                                            *)

ArriveInvite(r, u, role) ==
  /\ call[r].pc = "idle"
  /\ Allowed
  /\ call' = [call EXCEPT ![r] = [Blank EXCEPT !.pc = "check", !.op = "invite",
                                               !.user = u, !.role = role]]
  /\ UNCHANGED <<members, invitations, orgLock>>

CheckInvitee(r) ==
  /\ call[r].pc = "check" /\ call[r].op = "invite"
  /\ ~HasSeat(call[r].user)
  /\ Goto(r, "insert")
  /\ UNCHANGED <<members, invitations, orgLock>>

InsertInvitation(r) ==
  /\ call[r].pc = "insert"
  /\ NonePending(call[r].user)
  /\ Len(invitations) < MaxInvitations
  /\ invitations' = Append(invitations,
       [email |-> call[r].user, role |-> call[r].role, status |-> "PENDING",
        expired |-> FALSE, seats |-> 0])
  /\ Done(r)
  /\ UNCHANGED <<members, orgLock>>

ArriveRevoke(r, i) ==
  /\ call[r].pc = "idle"
  /\ Allowed
  /\ call' = [call EXCEPT ![r] = [Blank EXCEPT !.pc = "read", !.op = "revoke", !.row = i]]
  /\ UNCHANGED <<members, invitations, orgLock>>

ReadInvitation(r) ==
  /\ call[r].pc = "read"
  /\ invitations[call[r].row].status = "PENDING"
  /\ Goto(r, "set")
  /\ UNCHANGED <<members, invitations, orgLock>>

\* UPDATE ... WHERE id = ?, whatever the status is by now.
SetRevoked(r) ==
  /\ call[r].pc = "set"
  /\ invitations' = [invitations EXCEPT ![call[r].row].status = "REVOKED"]
  /\ Done(r)
  /\ UNCHANGED <<members, orgLock>>

\* The invitee's own request: found by its token, pending, in time, theirs.
ArriveAccept(r, i) ==
  /\ call[r].pc = "idle"
  /\ invitations[i].status = "PENDING" /\ ~invitations[i].expired
  /\ invitations[i].email \in Proven
  /\ call' = [call EXCEPT ![r] = [Blank EXCEPT !.pc = "check", !.op = "accept", !.row = i,
                                               !.user = invitations[i].email,
                                               !.role = invitations[i].role]]
  /\ UNCHANGED <<members, invitations, orgLock>>

CheckSeat(r) ==
  /\ call[r].pc = "check" /\ call[r].op = "accept"
  /\ ~HasSeat(call[r].user)
  /\ Goto(r, "join")
  /\ UNCHANGED <<members, invitations, orgLock>>

\* One transaction: the membership, and ACCEPTED whatever the status is by now.
Join(r) ==
  /\ call[r].pc = "join"
  /\ SeatFree(call[r].user)
  /\ Len(members) < MaxSeats
  /\ members' = Append(members, NewSeat(call[r].user, call[r].role))
  /\ invitations' = [invitations EXCEPT ![call[r].row].status = "ACCEPTED",
                                        ![call[r].row].seats = @ + 1]
  /\ Done(r)
  /\ UNCHANGED orgLock

\* The time of an invitation runs out; its status stays PENDING.
Expire(i) ==
  /\ ~invitations[i].expired
  /\ invitations' = [invitations EXCEPT ![i].expired = TRUE]
  /\ UNCHANGED <<members, orgLock, call>>

-----------------------------------------------------------------------------
(* Members.                                                                *)

\* The check before the transaction only looks whether the member is there.
Arrive(r, op, m, role, version) ==
  /\ call[r].pc = "idle"
  /\ Allowed
  /\ members[m].active /\ members[m].version < MaxVersion
  /\ call' = [call EXCEPT ![r] =
       [pc |-> "queued", op |-> op, row |-> m, user |-> members[m].user, role |-> role,
        was |-> members[m].role, version |-> version]]
  /\ UNCHANGED <<members, invitations, orgLock>>

ArriveChange(r, m, role, version) == Arrive(r, "change", m, role, version)
ArriveRemove(r, m) == Arrive(r, "remove", m, Admin, 0)

\* Mutant of LockOrganization: the lock is not waited for.
LockOrganizationAnyway(r) ==
  /\ call[r].pc = "queued"
  /\ orgLock' = r
  /\ Goto(r, "locked")
  /\ UNCHANGED <<members, invitations>>

LockOrganization(r) ==
  /\ call[r].pc = "queued"
  /\ orgLock = NoReq
  /\ orgLock' = r
  /\ Goto(r, "locked")
  /\ UNCHANGED <<members, invitations>>

\* Mutant of ReadMember: what was read before the lock is kept.
ReadMemberBefore(r) ==
  /\ call[r].pc = "locked"
  /\ members[call[r].row].active
  /\ call' = [call EXCEPT ![r].pc = "count"]
  /\ UNCHANGED <<members, invitations, orgLock>>

ReadMember(r) ==
  /\ call[r].pc = "locked"
  /\ members[call[r].row].active
  /\ call' = [call EXCEPT ![r].pc = "count", ![r].was = members[call[r].row].role]
  /\ UNCHANGED <<members, invitations, orgLock>>

\* The request takes the Org Admin role away from someone who has it.
DropsAdmin(c) == c.was = Admin /\ (c.op = "remove" \/ c.role # Admin)

\* assertNotLastAdmin, for a request that drops an admin.
NotLastAdmin(r) ==
  /\ call[r].pc = "count"
  /\ DropsAdmin(call[r]) => Cardinality(Admins) > 1
  /\ Goto(r, "write")
  /\ UNCHANGED <<members, invitations, orgLock>>

\* A change of a row, and its record, written in the same transaction.
WithRole(row, was, role) ==
  [row EXCEPT !.role = role, !.version = @ + 1,
              !.trail = Append(@, [before |-> was, after |-> role])]
Deleted(row, was) ==
  [row EXCEPT !.active = FALSE, !.version = @ + 1,
              !.trail = Append(@, [before |-> was, after |-> "removed"])]

EndTx(r) == orgLock' = NoReq /\ Done(r)

\* UPDATE ... WHERE id = ? AND version = ? AND deleted_at IS NULL
UpdateRole(r) ==
  LET m == call[r].row IN
  /\ call[r].pc = "write" /\ call[r].op = "change"
  /\ members[m].active /\ members[m].version = call[r].version
  /\ members' = [members EXCEPT ![m] = WithRole(@, call[r].was, call[r].role)]
  /\ EndTx(r)
  /\ UNCHANGED invitations

\* UPDATE ... WHERE id = ? AND deleted_at IS NULL
SoftDelete(r) ==
  LET m == call[r].row IN
  /\ call[r].pc = "write" /\ call[r].op = "remove"
  /\ members[m].active
  /\ members' = [members EXCEPT ![m] = Deleted(@, call[r].was)]
  /\ EndTx(r)
  /\ UNCHANGED invitations

Serve(r) ==
  \/ \E u \in User, role \in Role : ArriveInvite(r, u, role)
  \/ CheckInvitee(r) \/ InsertInvitation(r)
  \/ \E i \in DOMAIN invitations : ArriveRevoke(r, i) \/ ArriveAccept(r, i)
  \/ ReadInvitation(r) \/ SetRevoked(r)
  \/ CheckSeat(r) \/ Join(r)
  \/ \E m \in DOMAIN members :
       \/ \E role \in Role, version \in 1..members[m].version : ArriveChange(r, m, role, version)
       \/ ArriveRemove(r, m)
  \/ LockOrganization(r) \/ ReadMember(r) \/ NotLastAdmin(r)
  \/ UpdateRole(r) \/ SoftDelete(r)
  \/ Abandon(r)

Next ==
  \/ \E r \in Req : Serve(r)
  \/ \E i \in DOMAIN invitations : Expire(i)

Spec == Init /\ [][Next]_vars

-----------------------------------------------------------------------------
(* Properties.                                                             *)

\* The organisation keeps an Org Admin, although each of two administrators
\* may be demoted or removed on a count taken while the other still was one.
AdminRemains == Admins # {}

\* A person has at most one seat, and an address at most one pending
\* invitation, although acceptance and invitation check for one before they
\* write and take no lock.
OneSeat ==
  \A m, n \in DOMAIN members :
    members[m].active /\ members[n].active /\ members[m].user = members[n].user => m = n
OnePending ==
  \A i, j \in DOMAIN invitations :
    /\ invitations[i].status = "PENDING" /\ invitations[j].status = "PENDING"
    /\ invitations[i].email = invitations[j].email
    => i = j
OneEach == OneSeat /\ OnePending

\* The audit log of a membership is its history: every record begins with the
\* role the one before it left, the last says what the member is now, and the
\* version counts them.
Truthful(row) ==
  LET t == row.trail IN
  /\ Len(t) = row.version
  /\ \A k \in 2..Len(t) : t[k].before = t[k - 1].after
  /\ t[Len(t)].after = IF row.active THEN row.role ELSE "removed"
AuditTellsTheTruth == \A m \in DOMAIN members : Truthful(members[m])

\* schema.prisma says of an invitation "expiry + status gate accept": it gives
\* a seat only while it is pending.
\* No run checks it: TLC refutes it (README, section 4).
StatusGatesAccept ==
  [][\A i \in DOMAIN invitations :
       invitations'[i].seats # invitations[i].seats => invitations[i].status = "PENDING"]_vars
=============================================================================
