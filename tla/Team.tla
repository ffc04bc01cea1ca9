-------------------------------- MODULE Team --------------------------------
(***************************************************************************)
(* The team of one organization: its members, the invitations that bring   *)
(* them in and the seats its plan pays for.  Every operation below runs in *)
(* one serializable transaction under the lock of the organization, so one *)
(* operation is one step.                                                  *)
(*                                                                         *)
(* A member is "NONE" before it joins.  Nobody is ever made an OWNER after *)
(* the organization was created, and the clock only shows in the "lapsed"  *)
(* flag of an invitation: its expiresAt has passed, whatever its status.   *)
(***************************************************************************)
EXTENDS Naturals, Sequences, FiniteSets

CONSTANTS People,          \* the users that may belong to the organization
          Owner,           \* the one who created it
          SeatLimit,       \* seats of its plan, for managers and staff
          MaxInvitations   \* bound on the invitations ever sent

ASSUME TeamAssumption ==
  Owner \in People /\ SeatLimit \in Nat /\ MaxInvitations \in Nat

Seated == {"MANAGER", "STAFF"}   \* the roles that take a seat

Member == [role   : {"OWNER", "MANAGER", "STAFF"},
           status : {"NONE", "ACTIVE", "SUSPENDED", "REMOVED"},
           local  : BOOLEAN]     \* a QR identity that cannot sign in

Invitation == [to     : People,
               role   : Seated,
               by     : People,
               status : {"PENDING", "ACCEPTED", "EXPIRED", "CANCELED"},
               lapsed : BOOLEAN]

VARIABLES members,       \* membership row of each person
          users,         \* status of each person's own account
          invitations    \* the invitation rows, oldest first

teamVars == <<members, users, invitations>>

TeamInit ==
  /\ members = [p \in People |->
                  [role   |-> IF p = Owner THEN "OWNER" ELSE "STAFF",
                   status |-> IF p = Owner THEN "ACTIVE" ELSE "NONE",
                   local  |-> FALSE]]
  /\ users = [p \in People |-> "ACTIVE"]
  /\ invitations = <<>>

(***************************************************************************)
(* Who may do what.                                                        *)
(***************************************************************************)
IsActive(p) == members[p].status = "ACTIVE" /\ users[p] = "ACTIVE"

MayInvite(actor, role) ==
  CASE members[actor].role = "OWNER"   -> TRUE
    [] members[actor].role = "MANAGER" -> role = "STAFF"
    [] OTHER                           -> FALSE

MayManage(actor, p) ==
  \/ members[actor].role = "OWNER"
  \/ members[actor].role = "MANAGER" /\ members[p].role = "STAFF"

FinalOwner(p) ==
  /\ members[p].role = "OWNER" /\ members[p].status = "ACTIVE"
  /\ \A q \in People \ {p} :
        ~ (members[q].role = "OWNER" /\ members[q].status = "ACTIVE")

(***************************************************************************)
(* Seats in use: active managers and staff, and the invitations that can   *)
(* still be accepted.  Every invitation is for a seated role.              *)
(***************************************************************************)
SeatsUsed(invited) ==
    Cardinality({p \in People : /\ members[p].status = "ACTIVE"
                                /\ members[p].role \in Seated})
  + Cardinality({i \in DOMAIN invited : /\ invited[i].status = "PENDING"
                                        /\ ~ invited[i].lapsed})

SeatFree(invited) == SeatsUsed(invited) < SeatLimit

\* The sweep at the head of invite, resend and cancel.
Swept == [i \in DOMAIN invitations |->
            IF invitations[i].status = "PENDING" /\ invitations[i].lapsed
            THEN [invitations[i] EXCEPT !.status = "EXPIRED"]
            ELSE invitations[i]]

\* The partial unique index: one PENDING invitation of an address.
PendingFor(invited, p) ==
  \E i \in DOMAIN invited : invited[i].to = p /\ invited[i].status = "PENDING"

(***************************************************************************)
(* Invitations.                                                            *)
(***************************************************************************)
CreateLocalStaff(actor, p, role) ==
  /\ IsActive(actor) /\ MayInvite(actor, role)
  /\ members[p].status = "NONE"
  /\ \A i \in DOMAIN invitations : invitations[i].to # p
  /\ SeatFree(invitations)
  /\ members' = [members EXCEPT ![p] =
                   [role |-> role, status |-> "ACTIVE", local |-> TRUE]]
  /\ UNCHANGED <<users, invitations>>

\* Only a person who is not a member, or not any more, can be invited.
\* Mutant: members can be invited again.
InvitableAgain(p) == ~ members[p].local
Invitable(p) == members[p].status \in {"NONE", "REMOVED"} /\ ~ members[p].local

Invite(actor, p, role) ==
  /\ Len(invitations) < MaxInvitations
  /\ IsActive(actor) /\ MayInvite(actor, role)
  /\ Invitable(p)
  /\ ~ PendingFor(Swept, p)
  /\ SeatFree(Swept)
  /\ invitations' = Append(Swept, [to |-> p, role |-> role, by |-> actor,
                                   status |-> "PENDING", lapsed |-> FALSE])
  /\ UNCHANGED <<members, users>>

\* A new link and a new expiry, for an invitation that is not over.  It is
\* not asked whether its addressee has joined by another one meanwhile.
\* Mutant: an expired invitation is sent again without counting the seats.
ResendableUncounted(i) ==
  \/ Swept[i].status = "PENDING"
  \/ Swept[i].status = "EXPIRED" /\ ~ PendingFor(Swept, Swept[i].to)
Resendable(i) ==
  \/ Swept[i].status = "PENDING"
  \/ Swept[i].status = "EXPIRED" /\ SeatFree(Swept) /\ ~ PendingFor(Swept, Swept[i].to)

Resend(actor, i) ==
  /\ IsActive(actor) /\ MayInvite(actor, invitations[i].role)
  /\ Resendable(i)
  /\ invitations' = [Swept EXCEPT ![i].status = "PENDING", ![i].lapsed = FALSE]
  /\ UNCHANGED <<members, users>>

CancelInvitation(actor, i) ==
  /\ IsActive(actor) /\ MayInvite(actor, invitations[i].role)
  /\ Swept[i].status = "PENDING"
  /\ invitations' = [Swept EXCEPT ![i].status = "CANCELED"]
  /\ UNCHANGED <<members, users>>

InvitationLapses(i) ==
  /\ invitations[i].status = "PENDING" /\ ~ invitations[i].lapsed
  /\ invitations' = [invitations EXCEPT ![i].lapsed = TRUE]
  /\ UNCHANGED <<members, users>>

\* The link of an invitation that has run out is opened or accepted.
InvitationExpires(i) ==
  /\ invitations[i].status = "PENDING" /\ invitations[i].lapsed
  /\ invitations' = [invitations EXCEPT ![i].status = "EXPIRED"]
  /\ UNCHANGED <<members, users>>

\* The link is followed by its addressee.  An inviter who may no longer
\* invite voids it; otherwise the membership is made, or made again, with
\* the role of the invitation.
Accept(i) ==
  LET p == invitations[i].to
      inviter == members[invitations[i].by]
      valid == inviter.status = "ACTIVE" /\ inviter.role \in {"OWNER", "MANAGER"}
  IN /\ users[p] = "ACTIVE"
     /\ invitations[i].status = "PENDING" /\ ~ invitations[i].lapsed
     /\ invitations' = [invitations EXCEPT ![i].status =
                          IF valid THEN "ACCEPTED" ELSE "CANCELED"]
     /\ members' = IF valid
                   THEN [members EXCEPT ![p].role = invitations[i].role,
                                        ![p].status = "ACTIVE"]
                   ELSE members
     /\ UNCHANGED users

(***************************************************************************)
(* Members.  Role and status may be given together; OWNER is never         *)
(* assigned, and a member that becomes active again needs a free seat.     *)
(***************************************************************************)
Changeable(actor, p) ==
  /\ IsActive(actor) /\ MayManage(actor, p)
  /\ members[p].status \in {"ACTIVE", "SUSPENDED"}

MayAssign(actor, p, role) ==
  \/ role = members[p].role
  \/ role \in Seated /\ MayInvite(actor, role)

Reactivates(p, role, status) ==
  members[p].status # "ACTIVE" /\ status = "ACTIVE" /\ role \in Seated

UpdateMember(actor, p, role, status) ==
  /\ Changeable(actor, p)
  /\ MayAssign(actor, p, role)
  /\ FinalOwner(p) => role = "OWNER" /\ status = "ACTIVE"
  /\ Reactivates(p, role, status) => SeatFree(invitations)
  /\ members' = [members EXCEPT ![p].role = role, ![p].status = status]
  /\ UNCHANGED <<users, invitations>>

RemoveMember(actor, p) ==
  /\ Changeable(actor, p)
  /\ ~ FinalOwner(p)
  /\ members' = [members EXCEPT ![p].status = "REMOVED"]
  /\ UNCHANGED <<users, invitations>>

\* A person closes their own account; their memberships stay as they are.
DeactivateAccount(p) ==
  /\ users[p] = "ACTIVE" /\ ~ members[p].local
  /\ users' = [users EXCEPT ![p] = "DEACTIVATED"]
  /\ UNCHANGED <<members, invitations>>

CloseOrganization ==
  /\ IsActive(Owner)
  /\ members' = [p \in People |->
                   IF members[p].status = "NONE" THEN members[p]
                   ELSE [members[p] EXCEPT !.status = "REMOVED"]]
  /\ invitations' = [i \in DOMAIN invitations |->
                       IF invitations[i].status = "PENDING"
                       THEN [invitations[i] EXCEPT !.status = "CANCELED"]
                       ELSE invitations[i]]
  /\ UNCHANGED users

TeamNext ==
  \/ \E a, p \in People :
        \/ \E r \in Seated : CreateLocalStaff(a, p, r) \/ Invite(a, p, r)
        \/ \E r \in Seated \cup {members[p].role}, st \in {"ACTIVE", "SUSPENDED"} :
              UpdateMember(a, p, r, st)
        \/ RemoveMember(a, p)
  \/ \E i \in DOMAIN invitations :
        \/ \E a \in People : Resend(a, i) \/ CancelInvitation(a, i)
        \/ InvitationLapses(i) \/ InvitationExpires(i) \/ Accept(i)
  \/ \E p \in People : DeactivateAccount(p)
  \/ CloseOrganization

TeamSpec == TeamInit /\ [][TeamNext]_teamVars

(***************************************************************************)
(* Properties.                                                             *)
(***************************************************************************)
TeamTypeOK ==
  /\ members \in [People -> Member]
  /\ users \in [People -> {"ACTIVE", "DEACTIVATED"}]
  /\ invitations \in Seq(Invitation) /\ Len(invitations) <= MaxInvitations
  /\ \A i, j \in DOMAIN invitations :
        /\ invitations[i].status = "PENDING" /\ invitations[j].status = "PENDING"
        /\ invitations[i].to = invitations[j].to
        => i = j
  /\ \A p \in People : members[p].local => \A i \in DOMAIN invitations : invitations[i].to # p

\* The seats in use never exceed the plan: team.service.ts counts members and
\* open invitations before each operation that can add one of them, and none
\* of the ways in (an invitation sent again after it expired, a suspended
\* member taken back, a member removed and invited anew) slips past the count.
SeatsWithinPlan == SeatsUsed(invitations) <= SeatLimit

\* While it is open, an organization keeps an active owner: neither a change
\* of role or status, nor a removal, nor an invitation accepted late takes the
\* last one (ensureNotFinalOwner; docs/security.md, "final-owner invariant").
AnOwnerRemains ==
  (\A p \in People : members[p].status \in {"NONE", "REMOVED"})
    \/ \E p \in People : members[p].role = "OWNER" /\ members[p].status = "ACTIVE"

=============================================================================
