---------------------------- MODULE RedeemApproval ----------------------------
(***************************************************************************)
(* The redemption of a reward that requires a manager's approval: the      *)
(* durable command of DurableCommand together with its approval challenge. *)
(* The first request reserves the command and creates the challenge        *)
(* (redeemReward's preparation); managers decide it (decideApproval); a    *)
(* retry that carries the challenge claims and executes the command and    *)
(* consumes the approval in the transaction of the redemption; listings    *)
(* and the cleanup worker expire challenges in bulk.                       *)
(*                                                                         *)
(* decideApproval runs at the default isolation: it reads the challenge,   *)
(* then updates it under a condition, so a manager's read and write are    *)
(* two steps, and other transactions commit in between.                    *)
(***************************************************************************)
EXTENDS DurableCommand

CONSTANTS Carrying,     \* the requests that carry the public id of the challenge
          Managers

ASSUME CarryingAssumption == Carrying \subseteq Attempts

VARIABLES
  approval,     \* status of the challenge
  valid,        \* its expiresAt is in the future
  eligible,     \* what the decision and the execution check beside the approval
  manager,      \* what each manager is about to write
  told          \* what each manager was told

commandVars == <<cmd, pc, polls, answer, applied>>
approvalVars == <<approval, valid, eligible, manager, told>>
redeemVars == <<cmd, pc, polls, answer, applied, approval, valid, eligible, manager, told>>

ApprovalStatus == {"NONE", "PENDING", "APPROVED", "REJECTED", "EXPIRED", "CONSUMED"}
Intents == {"idle", "approve", "reject", "expire", "discard", "done"}

ApprovalTypeOK ==
  /\ TypeOK
  /\ approval \in ApprovalStatus
  /\ valid \in BOOLEAN /\ eligible \in BOOLEAN
  /\ manager \in [Managers -> Intents]
  /\ told \in [Managers -> {"none", "APPROVED", "REJECTED", "refused"}]

RedeemInit ==
  /\ Init /\ cmd = AbsentRow
  /\ approval = "NONE" /\ valid = FALSE /\ eligible = TRUE
  /\ manager = [m \in Managers |-> "idle"]
  /\ told = [m \in Managers |-> "none"]

\* Mutant: every challenge that was not rejected can expire.
OpenUnlessRejected == approval \in {"PENDING", "APPROVED", "CONSUMED"}

Open == approval \in {"PENDING", "APPROVED"}
Unclaimed == cmd.status = "PROCESSING" /\ cmd.owner = None
\* Mutant: the reserved command is left as it is.
LeaveUnclaimed == cmd

FailUnclaimed == IF Unclaimed THEN [cmd EXCEPT !.status = "FAILED"] ELSE cmd

-----------------------------------------------------------------------------
(* The preparation of a redemption, one serializable transaction.          *)

\* A request carries the challenge's id only after some request was given it.
StartRedeem(a) ==
  /\ pc[a] = "idle"
  /\ a \in Carrying => approval # "NONE"
  /\ Move(a, "preparing")
  /\ UNCHANGED <<cmd, polls, answer, applied, approvalVars>>

\* Reserve the command and ask for an approval.
PrepareNew(a) ==
  /\ pc[a] = "preparing" /\ cmd.status = "ABSENT"
  /\ cmd' = ReservedRow(Fingerprint[a])
  /\ approval' = "PENDING" /\ valid' = TRUE
  /\ Tell(a, "error")
  /\ UNCHANGED <<polls, applied, eligible, manager, told>>

PrepareConflict(a) ==
  /\ pc[a] = "preparing" /\ cmd.status # "ABSENT" /\ ~Matches(a)
  /\ Tell(a, "conflict")
  /\ UNCHANGED <<cmd, polls, applied, approvalVars>>

\* Mutant: the preparation replays a result to whoever holds the key.
PrepareReplaysAny(a) ==
  /\ pc[a] = "preparing"
  /\ \/ Is("COMPLETED") /\ Tell(a, "success")
     \/ Is("FAILED") /\ Tell(a, "failure")
  /\ UNCHANGED <<cmd, polls, applied, approvalVars>>

PrepareReplays(a) ==
  /\ pc[a] = "preparing" /\ Matches(a)
  /\ \/ Is("COMPLETED") /\ Tell(a, "success")
     \/ Is("FAILED") /\ Tell(a, "failure")
  /\ UNCHANGED <<cmd, polls, applied, approvalVars>>

PrepareExpires(a) ==
  /\ pc[a] = "preparing" /\ Is("PROCESSING") /\ Matches(a)
  /\ ~valid /\ approval # "CONSUMED"
  /\ approval' = IF Open THEN "EXPIRED" ELSE approval
  /\ cmd' = FailUnclaimed
  /\ Tell(a, "error")
  /\ UNCHANGED <<polls, applied, valid, eligible, manager, told>>

Undecided(a) ==
  /\ pc[a] = "preparing" /\ Is("PROCESSING") /\ Matches(a)
  /\ valid \/ approval = "CONSUMED"

\* The request names no challenge, or one that is not approved.
PrepareRefused(a) ==
  /\ Undecided(a)
  /\ a \notin Carrying \/ approval # "APPROVED"
  /\ Tell(a, "error")
  /\ UNCHANGED <<cmd, polls, applied, approvalVars>>

PrepareProceeds(a) ==
  /\ Undecided(a)
  /\ a \in Carrying /\ approval = "APPROVED"
  /\ Move(a, "claiming")
  /\ UNCHANGED <<cmd, polls, answer, applied, approvalVars>>

\* The preparation's own checks of membership, credential and permissions
\* refuse the request, or its serialization retries run out.
PrepareAborts(a) ==
  /\ pc[a] = "preparing"
  /\ Tell(a, "error")
  /\ UNCHANGED <<cmd, polls, applied, approvalVars>>

Prepare(a) ==
  \/ PrepareNew(a) \/ PrepareConflict(a) \/ PrepareReplays(a) \/ PrepareExpires(a)
  \/ PrepareRefused(a) \/ PrepareProceeds(a) \/ PrepareAborts(a)

-----------------------------------------------------------------------------
(* The execution consumes the approval or is rejected by it.               *)

Consumable == approval = "APPROVED" /\ valid

\* Mutant: the execution trusts what the preparation found.
RedeemTrusting(a) ==
  /\ ExecuteCommits(a) \/ ExecuteUnacknowledged(a)
  /\ eligible
  /\ approval' = "CONSUMED"
  /\ UNCHANGED <<valid, eligible, manager, told>>

RedeemCommits(a) ==
  /\ ExecuteCommits(a) \/ ExecuteUnacknowledged(a)
  /\ eligible /\ Consumable
  /\ approval' = "CONSUMED"
  /\ UNCHANGED <<valid, eligible, manager, told>>

\* The steps of DurableCommand that leave the approval alone.
OrdinaryStep(a) ==
  /\ \/ Claim(a) \/ Replay(a) \/ ReplayFailure(a) \/ Poll(a)
     \/ ExecuteRejected(a) \/ ExecuteReplays(a) \/ ExecuteFenced(a)
     \/ RecordFailure(a)
  /\ UNCHANGED approvalVars

-----------------------------------------------------------------------------
(* The managers.                                                           *)

Finish(m, word) ==
  /\ manager' = [manager EXCEPT ![m] = "done"]
  /\ told' = [told EXCEPT ![m] = word]

Intend(m, what) == manager' = [manager EXCEPT ![m] = what]

DecideReads(m) ==
  /\ manager[m] = "idle" /\ approval = "PENDING"
  /\ \/ ~valid /\ Intend(m, "expire")
     \/ valid /\ Intend(m, "reject")
     \/ valid /\ Intend(m, IF eligible THEN "approve" ELSE "discard")
  /\ UNCHANGED <<commandVars, approval, valid, eligible, told>>

DecideTooLate(m) ==
  /\ manager[m] = "idle" /\ approval \notin {"NONE", "PENDING"}
  /\ Finish(m, "refused")
  /\ UNCHANGED <<commandVars, approval, valid, eligible>>

\* Mutant: the update does not ask for a pending challenge.
DecideApprovesAny(m) ==
  /\ manager[m] = "approve"
  /\ approval' = "APPROVED"
  /\ Finish(m, "APPROVED")
  /\ UNCHANGED <<commandVars, valid, eligible>>

\* Only a pending challenge is decided; its expiry was compared at the read.
DecideApproves(m) ==
  /\ manager[m] = "approve" /\ approval = "PENDING"
  /\ approval' = "APPROVED"
  /\ Finish(m, "APPROVED")
  /\ UNCHANGED <<commandVars, valid, eligible>>

DecideRejects(m) ==
  /\ manager[m] = "reject" /\ approval = "PENDING"
  /\ approval' = "REJECTED"
  /\ cmd' = FailUnclaimed
  /\ Finish(m, "REJECTED")
  /\ UNCHANGED <<pc, polls, answer, applied, valid, eligible>>

DecideLost(m) ==
  /\ manager[m] \in {"approve", "reject"} /\ approval # "PENDING"
  /\ Finish(m, "refused")
  /\ UNCHANGED <<commandVars, approval, valid, eligible>>

\* An expired or a stale intent: the command's update does not depend on
\* whether the challenge was still pending.
DecideCloses(m) ==
  /\ manager[m] \in {"expire", "discard"}
  /\ approval' = IF approval = "PENDING" THEN "EXPIRED" ELSE approval
  /\ cmd' = FailUnclaimed
  /\ Finish(m, "refused")
  /\ UNCHANGED <<pc, polls, answer, applied, valid, eligible>>

Decide(m) ==
  \/ DecideReads(m) \/ DecideTooLate(m) \/ DecideApproves(m) \/ DecideRejects(m)
  \/ DecideLost(m) \/ DecideCloses(m)

-----------------------------------------------------------------------------
(* Time, listings and the cleanup worker.                                  *)

ApprovalLapses ==
  /\ valid
  /\ valid' = FALSE
  /\ UNCHANGED <<commandVars, approval, eligible, manager, told>>

ExpireInBulk ==
  /\ Open /\ ~valid
  /\ approval' = "EXPIRED"
  /\ UNCHANGED <<commandVars, valid, eligible, manager, told>>

\* A suspension, an expired reward, a revoked device, a lost assignment, or
\* the end of one.
EligibilityChanges ==
  /\ eligible' = ~eligible
  /\ UNCHANGED <<commandVars, approval, valid, manager, told>>

RedeemCrash(a) == Crash(a) /\ UNCHANGED approvalVars

RedeemLeaseExpires == LeaseExpires /\ UNCHANGED approvalVars

RedeemStep(a) == Prepare(a) \/ OrdinaryStep(a) \/ RedeemCommits(a)

RedeemNext ==
  \/ \E a \in Attempts : StartRedeem(a) \/ RedeemStep(a) \/ RedeemCrash(a)
  \/ \E m \in Managers : Decide(m)
  \/ RedeemLeaseExpires
  \/ ApprovalLapses \/ ExpireInBulk \/ EligibilityChanges

RedeemSpec == RedeemInit /\ [][RedeemNext]_redeemVars

\* A server that does not die carries its requests on; nobody makes managers decide.
RedeemFairness == \A a \in Attempts : WF_redeemVars(RedeemStep(a))

RedeemFairSpec == RedeemSpec /\ RedeemFairness

-----------------------------------------------------------------------------
(* Correctness.                                                            *)

\* A reward is handed out exactly when an approval was consumed for it,
\* although the approval is checked when the request is prepared, again when
\* it executes, and may be expired by a listing in between.
EffectConsumesApproval == applied # {} <=> approval = "CONSUMED"

\* Two managers racing can produce only one terminal decision, and a claim is
\* made only after a manager approved.
OneDecision ==
  /\ \A m, n \in Managers :
       told[m] \in {"APPROVED", "REJECTED"} /\ told[n] \in {"APPROVED", "REJECTED"} => m = n
  /\ cmd.tries > 0 => \E m \in Managers : told[m] = "APPROVED"

\* A rejection is final: its command has failed and takes no effect, whatever
\* requests were under way.
RejectionIsFinal == approval = "REJECTED" => cmd.status = "FAILED" /\ cmd.tries = 0

\* A challenge that was closed is never opened again, and a consumed one is
\* never expired by a manager, a retry, a listing or the cleanup worker.
ClosedStaysClosed ==
  [][(approval \in {"REJECTED", "EXPIRED", "CONSUMED"}) => approval' = approval]_redeemVars

\* Every redemption is answered unless its server dies, whether its approval is
\* decided, expires or is never looked at, and whoever holds its command.
EveryRedeemAnswered ==
  \A a \in Attempts : pc[a] = "preparing" ~> pc[a] \in {"done", "crashed"}

\* What the documentation of manager approval says: two managers racing can
\* produce only one terminal decision.  When one was told APPROVED, no other
\* has ended the unclaimed command.
OneTerminalDecision ==
  (\E m \in Managers : told[m] = "APPROVED") /\ cmd.tries = 0 /\ valid => cmd.status # "FAILED"
=============================================================================
