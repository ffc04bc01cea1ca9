------------------------- MODULE RedeemApproval_proofs -------------------------
(***************************************************************************)
(* Proofs about the durable command and about a redemption with a          *)
(* manager's approval, for any number of requests and managers and every   *)
(* choice of fingerprints.                                                 *)
(*                                                                         *)
(* The first part is the durable command by itself (Spec): it keeps the    *)
(* promise of its idempotency key.  The second part is its composition     *)
(* with the approval (RedeemSpec), and rests on the first: the command's   *)
(* own invariant (IInv) survives, because the approval reserves a row      *)
(* nobody claimed and ends one nobody claimed, and leaves every other row  *)
(* alone.                                                                  *)
(***************************************************************************)
EXTENDS RedeemApproval, TLAPS

-----------------------------------------------------------------------------
(* The durable command.  Of its inductive invariant, the first two parts   *)
(* say what the row tells of the effect; the last three follow the owners  *)
(* of the command, which is what keeps a late failure mark apart from an   *)
(* effect.                                                                 *)

RowTellsEffect ==
  /\ cmd.status = "COMPLETED" => applied # {}
  /\ applied # {} => /\ cmd.status \in {"COMPLETED", "FAILED"}
                     /\ cmd.result \in applied
                     /\ Fingerprint[cmd.result] = cmd.fingerprint

UnansweredUntilDone == \A a \in Attempts : pc[a] # "done" => answer[a] = "none"

OwnersCounted == cmd.owner # None => cmd.tries >= 1

MarkersOwnOrLost ==
  \A a \in Attempts : pc[a] = "marking" => OwnsCommand(a) \/ cmd.tries >= 2

IInv ==
  /\ TypeOK
  /\ AtMostOneEffect
  /\ RowTellsEffect
  /\ UnansweredUntilDone
  /\ OwnersCounted
  /\ MarkersOwnOrLost
  /\ SoleFailureChangedNothing

LEMMA InitIInv == Init => IInv
<1> USE AttemptsAssumption, PollsAssumption
<1> SUFFICES ASSUME Init PROVE IInv
  OBVIOUS
<1>1. /\ cmd \in Command
      /\ cmd.status \in {"ABSENT", "PROCESSING"} /\ cmd.owner = None /\ cmd.tries = 0
  <2>1. CASE cmd = AbsentRow
    BY <2>1 DEF AbsentRow, Command
  <2>2. CASE \E f \in Fingerprints : cmd = ReservedRow(f)
    <3>1. PICK f \in Fingerprints : cmd = ReservedRow(f)
      BY <2>2
    <3>2. cmd = [status |-> "PROCESSING", fingerprint |-> f, owner |-> None,
                 lease |-> "none", tries |-> 0, result |-> None]
      BY <3>1 DEF ReservedRow, AbsentRow
    <3>3. QED
      BY <3>2 DEF Command
  <2>3. QED
    BY <2>1, <2>2 DEF Init
<1>2. TypeOK
  BY <1>1 DEF Init, TypeOK, Places, Answers
<1>3. QED
  BY <1>1, <1>2 DEF IInv, Init, AtMostOneEffect, RowTellsEffect,
       UnansweredUntilDone, OwnersCounted, MarkersOwnOrLost, SoleFailureChangedNothing

LEMMA StepIInv == IInv /\ [Next]_vars => IInv'
<1> USE AttemptsAssumption, PollsAssumption
<1> SUFFICES ASSUME IInv, [Next]_vars PROVE IInv'
  OBVIOUS
<1> USE DEF IInv, TypeOK, Command, Places, Answers, Move, Tell, Matches, Is,
            AtMostOneEffect, RowTellsEffect, UnansweredUntilDone, OwnersCounted,
            MarkersOwnOrLost, OwnsCommand, SoleFailureChangedNothing
<1>1. ASSUME NEW a \in Attempts, Start(a) PROVE IInv'
  BY <1>1 DEF Start
<1>2. ASSUME NEW a \in Attempts, ClaimOwn(a) PROVE IInv'
  <2>1. cmd.status \in {"ABSENT", "PROCESSING"} /\ applied = {} /\ pc[a] = "claiming"
    BY <1>2 DEF ClaimOwn, Claimable
  <2>2. /\ cmd' = [status |-> "PROCESSING", fingerprint |-> Fingerprint[a], owner |-> a,
                   lease |-> "live", tries |-> cmd.tries + 1, result |-> cmd.result]
        /\ pc' = [pc EXCEPT ![a] = "executing"]
        /\ UNCHANGED <<polls, answer, applied>>
    BY <1>2 DEF ClaimOwn, TakeLease
  <2>3. TypeOK'
    BY <2>2 DEF Fingerprints
  <2>4. MarkersOwnOrLost'
    <3> SUFFICES ASSUME NEW b \in Attempts, pc'[b] = "marking" PROVE cmd'.tries >= 2
      OBVIOUS
    <3>1. OwnsCommand(b) \/ cmd.tries >= 2
      BY <2>2
    <3>2. cmd.tries >= 1
      BY <3>1
    <3>3. QED
      BY <2>2, <3>2
  <2>5. QED
    BY <2>1, <2>2, <2>3, <2>4
<1>3. ASSUME NEW a \in Attempts,
             ClaimConflict(a) \/ Replay(a) \/ ReplayFailure(a) \/ ClaimAborts(a)
      PROVE  IInv'
  BY <1>3 DEF ClaimConflict, Replay, ReplayFailure, ClaimAborts, Asking
<1>4. ASSUME NEW a \in Attempts, ClaimWait(a) \/ Poll(a) PROVE IInv'
  BY <1>4 DEF ClaimWait, Poll, PollReclaims, PollAgain, PollGivesUp, Polling
<1>5. ASSUME NEW a \in Attempts, ExecuteCommits(a) \/ ExecuteUnacknowledged(a) PROVE IInv'
  <2>1. cmd.status = "PROCESSING" /\ applied = {} /\ pc[a] = "executing" /\ OwnsCommand(a)
    BY <1>5 DEF ExecuteCommits, ExecuteUnacknowledged
  <2>2. /\ cmd' = [cmd EXCEPT !.status = "COMPLETED", !.result = a]
        /\ applied' = {a}
        /\ UNCHANGED polls
        /\ \/ Tell(a, "success")
           \/ Move(a, "failing") /\ UNCHANGED answer
    BY <1>5, <2>1 DEF ExecuteCommits, ExecuteUnacknowledged, Commit
  <2>3. TypeOK'
    <3>1. cmd' \in Command
      BY <2>2
    <3>2. pc' \in [Attempts -> Places] /\ answer' \in [Attempts -> Answers]
      BY <2>2
    <3>3. QED
      BY <2>2, <3>1, <3>2
  <2>4. RowTellsEffect' /\ AtMostOneEffect' /\ OwnersCounted' /\ SoleFailureChangedNothing'
    <3>1. /\ cmd'.status = "COMPLETED" /\ cmd'.result = a /\ cmd'.fingerprint = cmd.fingerprint
          /\ cmd'.owner = cmd.owner /\ cmd'.tries = cmd.tries
      BY <2>2
    <3>2. Fingerprint[a] = cmd.fingerprint
      BY <2>1
    <3>3. QED
      BY <2>2, <3>1, <3>2
  <2>5. UnansweredUntilDone'
    BY <2>1, <2>2
  <2>6. MarkersOwnOrLost'
    <3> SUFFICES ASSUME NEW b \in Attempts, pc'[b] = "marking" PROVE cmd'.tries >= 2
      OBVIOUS
    <3>1. b # a /\ pc[b] = "marking"
      BY <2>2
    <3>2. ~OwnsCommand(b)
      BY <2>1, <3>1
    <3>3. QED
      BY <2>2, <3>1, <3>2
  <2>7. QED
    BY <2>3, <2>4, <2>5, <2>6
<1>6. ASSUME NEW a \in Attempts,
             ExecuteRejected(a) \/ ExecuteReplays(a) \/ ExecuteFenced(a)
      PROVE  IInv'
  BY <1>6 DEF ExecuteRejected, ExecuteReplays, ExecuteFenced
<1>7. ASSUME NEW a \in Attempts, FailRead(a) \/ FailLost(a) PROVE IInv'
  BY <1>7 DEF FailRead, FailLost
<1>8. ASSUME NEW a \in Attempts, FailWrite(a) PROVE IInv'
  <2>1. /\ pc[a] = "marking"
        /\ cmd' = [cmd EXCEPT !.status = "FAILED", !.owner = None, !.lease = "none"]
        /\ Tell(a, "error")
        /\ UNCHANGED <<polls, applied>>
    BY <1>8 DEF FailWrite
  <2>2. TypeOK' /\ AtMostOneEffect' /\ RowTellsEffect' /\ UnansweredUntilDone' /\ OwnersCounted'
    <3>1. /\ cmd' \in Command /\ cmd'.status = "FAILED" /\ cmd'.owner = None
          /\ cmd'.result = cmd.result /\ cmd'.fingerprint = cmd.fingerprint
      BY <2>1
    <3>2. pc' \in [Attempts -> Places] /\ answer' \in [Attempts -> Answers] /\ UnansweredUntilDone'
      BY <2>1
    <3>3. AtMostOneEffect' /\ RowTellsEffect' /\ OwnersCounted'
      BY <2>1, <3>1
    <3>4. QED
      BY <2>1, <3>1, <3>2, <3>3
  \* The sole claimant still owned the command, so nothing had happened.
  <2>3. SoleFailureChangedNothing'
    BY <2>1
  <2>4. MarkersOwnOrLost'
    <3> SUFFICES ASSUME NEW b \in Attempts, pc'[b] = "marking" PROVE cmd'.tries >= 2
      OBVIOUS
    <3>1. b # a /\ pc[b] = "marking" /\ cmd'.tries = cmd.tries
      BY <2>1
    <3>2. ~OwnsCommand(a) \/ ~OwnsCommand(b)
      BY <3>1
    <3>3. QED
      BY <2>1, <3>1, <3>2
  <2>5. QED
    BY <2>2, <2>3, <2>4
<1>9. ASSUME NEW a \in Attempts, Crash(a) PROVE IInv'
  BY <1>9 DEF Crash
<1>10. CASE LeaseExpires
  BY <1>10 DEF LeaseExpires
<1>11. CASE UNCHANGED vars
  BY <1>11 DEF vars
<1>12. QED
  BY <1>1, <1>2, <1>3, <1>4, <1>5, <1>6, <1>7, <1>8, <1>9, <1>10, <1>11
     DEF Next, Step, Claim, Execute, RecordFailure

\* The invariant holds of every behaviour.
THEOREM CommandInvariant == Spec => []IInv
  BY InitIInv, StepIInv, PTL DEF Spec

\* The operation takes effect at most once, for any number of requests, owners
\* and lost leases (claimDurableCommand and the execution's fence).
THEOREM AtMostOnce == Spec => []AtMostOneEffect
<1>1. IInv => AtMostOneEffect
  BY DEF IInv
<1>2. QED
  BY <1>1, CommandInvariant, PTL

\* A failure recorded by the only request that ever claimed the command is the
\* truth (persistCommandFailure).
THEOREM SoleFailureIsTrue == Spec => []SoleFailureChangedNothing
<1>1. IInv => SoleFailureChangedNothing
  BY DEF IInv
<1>2. QED
  BY <1>1, CommandInvariant, PTL

\* An effect stays on record, so that no later request executes again.
THEOREM EffectStaysRecorded == Spec => []EffectIsRecorded
<1>1. IInv => EffectIsRecorded
  BY DEF IInv, RowTellsEffect, EffectIsRecorded
<1>2. QED
  BY <1>1, CommandInvariant, PTL

-----------------------------------------------------------------------------
(* The refinement: every step applies the one effect, answers one request  *)
(* truthfully, or is invisible to the clients.                             *)

LEMMA StepKeepsPromise ==
  IInv /\ [Next]_vars => [Key!Next]_<<applied, answer>>
<1> SUFFICES ASSUME IInv, [Next]_vars
             PROVE  Key!Next \/ UNCHANGED <<applied, answer>>
  OBVIOUS
<1> USE DEF IInv, UnansweredUntilDone, Tell, Move, Key!Next
<1>1. ASSUME NEW a \in Attempts, pc[a] # "done", UNCHANGED applied,
             NEW w \in {"conflict", "failure", "in_progress", "error"}, Tell(a, w)
      PROVE  Key!Refuse(a)
  BY <1>1 DEF Key!Refuse
<1>2. ASSUME NEW a \in Attempts, pc[a] # "done", UNCHANGED applied,
             Is("COMPLETED"), Matches(a), Tell(a, "success")
      PROVE  Key!Confirm(a)
  BY <1>2 DEF Key!Confirm, Key!Kept, RowTellsEffect, Is, Matches
<1>3. ASSUME NEW a \in Attempts, ExecuteCommits(a) PROVE Key!ApplyAndConfirm(a)
  BY <1>3 DEF ExecuteCommits, Key!ApplyAndConfirm, RowTellsEffect, OwnsCommand, Is, Commit
<1>4. ASSUME NEW a \in Attempts, ExecuteUnacknowledged(a) PROVE Key!Apply(a)
  BY <1>4 DEF ExecuteUnacknowledged, Key!Apply, RowTellsEffect, OwnsCommand, Is, Commit
<1>5. ASSUME NEW a \in Attempts, Replay(a) \/ ExecuteReplays(a) PROVE Key!Confirm(a)
  BY <1>2, <1>5 DEF Replay, Asking, ExecuteReplays
<1>6. ASSUME NEW a \in Attempts,
             ClaimConflict(a) \/ ReplayFailure(a) \/ ClaimAborts(a) \/ PollGivesUp(a)
             \/ FailWrite(a) \/ FailLost(a)
      PROVE  Key!Refuse(a)
  BY <1>1, <1>6 DEF ClaimConflict, ReplayFailure, Asking, ClaimAborts, PollGivesUp,
                    FailWrite, FailLost
<1>7. ASSUME NEW a \in Attempts, FailRead(a)
      PROVE  Key!Refuse(a) \/ UNCHANGED <<applied, answer>>
  BY <1>1, <1>7 DEF FailRead
<1>8. ASSUME NEW a \in Attempts,
             Start(a) \/ ClaimOwn(a) \/ ClaimWait(a) \/ PollReclaims(a) \/ PollAgain(a)
             \/ ExecuteRejected(a) \/ ExecuteFenced(a) \/ Crash(a)
      PROVE  UNCHANGED <<applied, answer>>
  BY <1>8 DEF Start, ClaimOwn, ClaimWait, PollReclaims, PollAgain, ExecuteRejected,
              ExecuteFenced, Crash
<1>9. QED
  BY <1>3, <1>4, <1>5, <1>6, <1>7, <1>8
     DEF Next, Step, Claim, Poll, Execute, RecordFailure, LeaseExpires, vars

\* The command implements the promise: at most one effect, and a success
\* answer only for a request whose content took effect.
THEOREM CommandKeepsPromise == Spec => KeepsPromise
<1>1. Init => Key!Init
  BY DEF Init, Key!Init
<1>2. QED
  BY <1>1, CommandInvariant, StepKeepsPromise, PTL DEF Spec, KeepsPromise, Key!Spec

-----------------------------------------------------------------------------
(* The redemption.  Its inductive invariant.                               *)

\* A request that has not got past the preparation of its redemption.
Unprepared == {"idle", "preparing", "done", "crashed"}

\* The row and its challenge are created together.
RowWithChallenge == cmd.status = "ABSENT" <=> approval = "NONE"

\* Before an approval, and after a rejection, nobody has got to the claim.
ClaimsFollowApproval ==
  approval \in {"NONE", "PENDING", "REJECTED"} =>
    cmd.tries = 0 /\ \A a \in Attempts : pc[a] \in Unprepared

CompletedWasClaimed == cmd.status = "COMPLETED" => cmd.tries >= 1

SomeoneApproved == \E m \in Managers : told[m] = "APPROVED"

\* Whatever follows an approval follows a manager who was told so.
ApprovalWasTold ==
  /\ approval \in {"APPROVED", "CONSUMED"} => SomeoneApproved
  /\ cmd.tries > 0 => SomeoneApproved
  /\ (\E a \in Attempts : pc[a] \notin Unprepared) => SomeoneApproved

\* A manager is told once, and a decision leaves no pending challenge.
ToldOnce ==
  /\ \A m \in Managers : told[m] # "none" => manager[m] = "done"
  /\ \A m \in Managers : told[m] \in {"APPROVED", "REJECTED"} => approval \notin {"NONE", "PENDING"}
  /\ \A m, n \in Managers :
       told[m] \in {"APPROVED", "REJECTED"} /\ told[n] \in {"APPROVED", "REJECTED"} => m = n

RInv ==
  /\ ApprovalTypeOK /\ IInv
  /\ EffectConsumesApproval /\ RejectionIsFinal
  /\ RowWithChallenge /\ ClaimsFollowApproval /\ CompletedWasClaimed
  /\ ApprovalWasTold /\ ToldOnce

LEMMA InitRInv == RedeemInit => RInv
<1> SUFFICES ASSUME RedeemInit PROVE RInv
  OBVIOUS
<1>1. IInv
  BY InitIInv DEF RedeemInit
<1>2. /\ cmd.status = "ABSENT" /\ cmd.tries = 0 /\ applied = {} /\ approval = "NONE"
      /\ \A a \in Attempts : pc[a] = "idle"
      /\ \A m \in Managers : told[m] = "none"
  BY DEF RedeemInit, Init, AbsentRow
<1>3. ApprovalTypeOK
  BY <1>1 DEF RedeemInit, ApprovalTypeOK, ApprovalStatus, Intents, IInv
<1>4. QED
  BY <1>1, <1>2, <1>3 DEF RInv, EffectConsumesApproval, RejectionIsFinal, RowWithChallenge,
     ClaimsFollowApproval, CompletedWasClaimed, ApprovalWasTold, ToldOnce, Unprepared

-----------------------------------------------------------------------------
(* The durable command's invariant under the steps of the approval.        *)

\* Ending a row nobody claimed.
LEMMA EndingKeepsCommand ==
  ASSUME IInv, cmd' = FailUnclaimed,
         UNCHANGED <<pc, polls, answer, applied>>
  PROVE  IInv'
<1> USE AttemptsAssumption, PollsAssumption DEF IInv
<1>1. CASE ~Unclaimed
  <2>1. UNCHANGED vars
    BY <1>1 DEF FailUnclaimed, vars
  <2>2. QED
    BY <2>1, StepIInv
<1>2. CASE Unclaimed
  <2>1. /\ cmd' = [cmd EXCEPT !.status = "FAILED"] /\ cmd \in Command
        /\ cmd.status = "PROCESSING" /\ cmd.owner = None
    BY <1>2 DEF FailUnclaimed, Unclaimed, TypeOK
  <2>2. /\ cmd' \in Command /\ cmd'.status = "FAILED" /\ cmd'.owner = None
        /\ cmd'.tries = cmd.tries /\ cmd.tries \in Nat /\ applied = {}
    BY <2>1 DEF Command, RowTellsEffect
  <2>3. TypeOK' /\ AtMostOneEffect' /\ RowTellsEffect' /\ OwnersCounted' /\ UnansweredUntilDone'
    BY <2>2 DEF TypeOK, AtMostOneEffect, RowTellsEffect, OwnersCounted, UnansweredUntilDone
  <2>4. SoleFailureChangedNothing'
    BY <2>2 DEF SoleFailureChangedNothing
  <2>5. MarkersOwnOrLost'
    BY <2>1, <2>2 DEF MarkersOwnOrLost, OwnsCommand
  <2>6. QED
    BY <2>3, <2>4, <2>5
<1>3. QED
  BY <1>1, <1>2

\* Telling a request that is not done, with the row as it was or ended.
LEMMA TellingKeepsCommand ==
  ASSUME IInv, NEW a \in Attempts, NEW w \in Answers, Tell(a, w),
         cmd' = cmd \/ cmd' = FailUnclaimed, UNCHANGED <<polls, applied>>
  PROVE  IInv'
<1> USE AttemptsAssumption, PollsAssumption DEF IInv
<1>1. /\ pc' = [pc EXCEPT ![a] = "done"] /\ answer' = [answer EXCEPT ![a] = w]
      /\ pc \in [Attempts -> Places] /\ answer \in [Attempts -> Answers]
  BY DEF Tell, Move, TypeOK
<1>2. /\ cmd' \in Command /\ cmd'.owner = cmd.owner /\ cmd'.tries = cmd.tries
      /\ cmd'.result = cmd.result /\ cmd'.fingerprint = cmd.fingerprint /\ cmd.tries \in Nat
      /\ cmd'.status = cmd.status \/ (cmd'.status = "FAILED" /\ Unclaimed)
  <2>1. cmd \in Command
    BY DEF TypeOK
  <2>2. QED
    BY <2>1 DEF FailUnclaimed, Command
<1>3. TypeOK'
  BY <1>1, <1>2 DEF TypeOK, Places
<1>4. UnansweredUntilDone'
  BY <1>1 DEF UnansweredUntilDone
<1>5. AtMostOneEffect' /\ RowTellsEffect' /\ OwnersCounted' /\ SoleFailureChangedNothing'
  BY <1>2 DEF AtMostOneEffect, RowTellsEffect, OwnersCounted, SoleFailureChangedNothing, Unclaimed
<1>6. MarkersOwnOrLost'
  <2> SUFFICES ASSUME NEW b \in Attempts, pc'[b] = "marking"
               PROVE  OwnsCommand(b)' \/ cmd'.tries >= 2
    BY DEF MarkersOwnOrLost
  <2>1. OwnsCommand(b) \/ cmd.tries >= 2
    BY <1>1 DEF MarkersOwnOrLost
  <2>2. OwnsCommand(b) => ~Unclaimed
    BY DEF OwnsCommand, Unclaimed
  <2>3. QED
    BY <1>2, <2>1, <2>2 DEF OwnsCommand, Is, Matches
<1>7. QED
  BY <1>3, <1>4, <1>5, <1>6

\* A request that moves on without a word, and not to mark a failure.
LEMMA MovingKeepsCommand ==
  ASSUME IInv, NEW a \in Attempts, pc[a] # "done",
         NEW p \in {"preparing", "claiming"}, Move(a, p),
         UNCHANGED <<cmd, polls, answer, applied>>
  PROVE  IInv'
<1> USE AttemptsAssumption, PollsAssumption DEF IInv
<1>1. pc' = [pc EXCEPT ![a] = p] /\ pc \in [Attempts -> Places]
  BY DEF Move, TypeOK
<1>2. TypeOK'
  BY <1>1 DEF TypeOK, Places
<1>3. UnansweredUntilDone'
  BY <1>1 DEF UnansweredUntilDone
<1>4. /\ AtMostOneEffect' /\ RowTellsEffect' /\ OwnersCounted' /\ SoleFailureChangedNothing'
  BY DEF AtMostOneEffect, RowTellsEffect, OwnersCounted, SoleFailureChangedNothing
<1>5. MarkersOwnOrLost'
  BY <1>1 DEF MarkersOwnOrLost, OwnsCommand, Is, Matches
<1>6. QED
  BY <1>2, <1>3, <1>4, <1>5

\* What the row says after it was ended, if it was unclaimed.
LEMMA EndedRow ==
  ASSUME cmd \in Command
  PROVE  /\ FailUnclaimed.tries = cmd.tries
         /\ FailUnclaimed.status = "ABSENT" <=> cmd.status = "ABSENT"
         /\ FailUnclaimed.status = "COMPLETED" <=> cmd.status = "COMPLETED"
         /\ cmd.status = "FAILED" => FailUnclaimed.status = "FAILED"
  BY DEF FailUnclaimed, Unclaimed, Command

-----------------------------------------------------------------------------
(* Every step keeps the invariant.  The managers' part (the last line of   *)
(* RInv) is disturbed by the managers only, the requests' part by both.    *)

\* The preparation of a redemption.
LEMMA PrepareRInv ==
  ASSUME RInv, NEW a \in Attempts, StartRedeem(a) \/ Prepare(a)
  PROVE  RInv'
<1> USE AttemptsAssumption, PollsAssumption DEF RInv
<1>1. /\ UNCHANGED <<told, manager, eligible, applied, polls>>
      /\ cmd \in Command /\ pc \in [Attempts -> Places]
      /\ pc[a] \in {"idle", "preparing"} /\ pc[a] # "done"
      /\ \/ pc' = [pc EXCEPT ![a] = "preparing"]
         \/ pc' = [pc EXCEPT ![a] = "claiming"] /\ approval = "APPROVED"
         \/ pc' = [pc EXCEPT ![a] = "done"]
  BY DEF StartRedeem, Prepare, PrepareNew, PrepareConflict, PrepareReplays, PrepareExpires,
         PrepareRefused, PrepareProceeds, PrepareAborts, Undecided, Move, Tell, approvalVars,
         ApprovalTypeOK, TypeOK
<1>2. CASE PrepareNew(a)
  <2>1. /\ cmd.status = "ABSENT" /\ approval = "NONE" /\ approval' = "PENDING" /\ valid' = TRUE
        /\ cmd' = [status |-> "PROCESSING", fingerprint |-> Fingerprint[a], owner |-> None,
                   lease |-> "none", tries |-> 0, result |-> None]
        /\ Tell(a, "error")
    BY <1>2 DEF PrepareNew, RowWithChallenge, ReservedRow, AbsentRow
  <2>2. /\ pc' = [pc EXCEPT ![a] = "done"] /\ answer' = [answer EXCEPT ![a] = "error"]
        /\ applied = {} /\ answer \in [Attempts -> Answers]
        /\ \A b \in Attempts : pc[b] \in Unprepared
    BY <2>1 DEF Tell, Move, ClaimsFollowApproval, EffectConsumesApproval, ApprovalTypeOK, TypeOK
  <2>3. TypeOK'
    <3>1. cmd' \in Command
      BY <2>1 DEF Command, Fingerprints
    <3>2. pc' \in [Attempts -> Places] /\ answer' \in [Attempts -> Answers]
      BY <1>1, <2>2 DEF Places, Answers
    <3>3. QED
      BY <1>1, <3>1, <3>2 DEF ApprovalTypeOK, TypeOK
  <2>4. IInv'
    <3>1. UnansweredUntilDone'
      BY <1>1, <2>2 DEF IInv, UnansweredUntilDone
    <3>2. MarkersOwnOrLost'
      BY <1>1, <2>2 DEF MarkersOwnOrLost, Unprepared
    <3>3. QED
      BY <1>1, <2>1, <2>2, <2>3, <3>1, <3>2
         DEF IInv, AtMostOneEffect, RowTellsEffect, OwnersCounted, SoleFailureChangedNothing
  <2>5. ApprovalTypeOK'
    BY <1>1, <2>1, <2>3 DEF ApprovalTypeOK, ApprovalStatus
  <2>6. \A b \in Attempts : pc'[b] \in Unprepared
    BY <1>1, <2>2 DEF Unprepared
  <2>7. ToldOnce'
    BY <1>1, <2>1 DEF ToldOnce
  <2>8. cmd'.tries = 0 /\ cmd'.status = "PROCESSING"
    BY <2>1
  <2>9. QED
    BY <1>1, <2>1, <2>2, <2>4, <2>5, <2>6, <2>7, <2>8
       DEF EffectConsumesApproval, RejectionIsFinal, RowWithChallenge, ClaimsFollowApproval,
           CompletedWasClaimed, ApprovalWasTold
<1>3. CASE ~PrepareNew(a)
  <2>1. /\ valid' = valid
        /\ \/ approval' = approval
           \/ approval \in {"PENDING", "APPROVED"} /\ approval' = "EXPIRED"
        /\ cmd' = cmd \/ cmd' = FailUnclaimed
    BY <1>3 DEF StartRedeem, Prepare, PrepareConflict, PrepareReplays, PrepareExpires,
         PrepareRefused, PrepareProceeds, PrepareAborts, Undecided, Open, approvalVars
  <2>2. /\ cmd'.tries = cmd.tries
        /\ cmd'.status = "ABSENT" <=> cmd.status = "ABSENT"
        /\ cmd'.status = "COMPLETED" <=> cmd.status = "COMPLETED"
        /\ cmd.status = "FAILED" => cmd'.status = "FAILED"
    BY <1>1, <2>1, EndedRow
  <2>3. IInv'
    <3>1. CASE \E w \in Answers : Tell(a, w)
      <4>1. PICK w \in Answers : Tell(a, w)
        BY <3>1
      <4>2. QED
        BY <1>1, <2>1, <4>1, TellingKeepsCommand
    <3>2. CASE \E p \in {"preparing", "claiming"} :
                 Move(a, p) /\ UNCHANGED <<cmd, polls, answer, applied>>
      <4>1. PICK p \in {"preparing", "claiming"} :
              Move(a, p) /\ UNCHANGED <<cmd, polls, answer, applied>>
        BY <3>2
      <4>2. QED
        BY <1>1, <4>1, MovingKeepsCommand
    <3>3. QED
      BY <1>3, <3>1, <3>2 DEF StartRedeem, Prepare, PrepareConflict, PrepareReplays,
         PrepareExpires, PrepareRefused, PrepareProceeds, PrepareAborts, Answers
  <2>4. ApprovalTypeOK'
    BY <1>1, <2>1, <2>3 DEF IInv, ApprovalTypeOK, ApprovalStatus
  <2>5. ClaimsFollowApproval'
    BY <1>1, <2>1, <2>2 DEF ClaimsFollowApproval, Unprepared
  <2>6. ApprovalWasTold'
    BY <1>1, <2>1, <2>2 DEF ApprovalWasTold, SomeoneApproved, Unprepared
  <2>7. ToldOnce'
    BY <1>1, <2>1 DEF ToldOnce
  <2>8. QED
    BY <1>1, <2>1, <2>2, <2>3, <2>4, <2>5, <2>6, <2>7
       DEF EffectConsumesApproval, RejectionIsFinal, RowWithChallenge, CompletedWasClaimed
<1>4. QED
  BY <1>2, <1>3

\* The claim and what follows it are steps of the durable command.
LEMMA CommandRInv ==
  ASSUME RInv, NEW a \in Attempts,
         OrdinaryStep(a) \/ RedeemCommits(a)
  PROVE  RInv'
<1> USE AttemptsAssumption, PollsAssumption DEF RInv
<1>1. Next /\ UNCHANGED <<valid, eligible, manager, told>>
  BY DEF OrdinaryStep, RedeemCommits, approvalVars, Next, Step, Execute
<1>2. IInv'
  BY <1>1, StepIInv
<1>3. cmd \in Command /\ pc \in [Attempts -> Places]
  BY DEF ApprovalTypeOK, TypeOK
<1>4. ToldOnce' /\ ApprovalTypeOK'
  BY <1>1, <1>2 DEF ToldOnce, RedeemCommits, OrdinaryStep, approvalVars, Consumable,
                    ApprovalTypeOK, ApprovalStatus, IInv
<1>5. /\ pc[a] \notin Unprepared /\ approval \notin {"NONE", "PENDING", "REJECTED"}
      /\ SomeoneApproved
  <2>1. pc[a] \notin Unprepared
    BY DEF OrdinaryStep, RedeemCommits, Claim, ClaimOwn, ClaimConflict, ClaimWait,
       ClaimAborts, Replay, ReplayFailure, Asking, Poll, PollReclaims, PollAgain, PollGivesUp,
       Polling, ExecuteRejected, ExecuteReplays, ExecuteFenced, ExecuteCommits,
       ExecuteUnacknowledged, RecordFailure, FailRead, FailWrite, FailLost, Unprepared
  <2>2. QED
    BY <2>1 DEF ClaimsFollowApproval, ApprovalWasTold
<1>6. SomeoneApproved'
  BY <1>1, <1>5 DEF SomeoneApproved
<1>7. CASE OrdinaryStep(a)
  <2>1. UNCHANGED <<approval, applied>>
    BY <1>7 DEF OrdinaryStep, Claim, ClaimOwn, ClaimConflict, ClaimWait, ClaimAborts, Replay,
       ReplayFailure, Poll, PollReclaims, PollAgain, PollGivesUp, ExecuteRejected,
       ExecuteReplays, ExecuteFenced, RecordFailure, FailRead, FailWrite, FailLost, approvalVars
  <2>2. cmd.tries \in Nat /\ cmd.status # "ABSENT"
    BY <1>3, <1>5 DEF Command, RowWithChallenge
  <2>3. \/ cmd' = cmd
        \/ cmd'.status = "FAILED"
        \/ cmd'.status = "PROCESSING"
    BY <1>3, <1>7 DEF OrdinaryStep, Claim, ClaimOwn, ClaimConflict, ClaimWait, ClaimAborts,
       Replay, ReplayFailure, Poll, PollReclaims, PollAgain, PollGivesUp, ExecuteRejected,
       ExecuteReplays, ExecuteFenced, RecordFailure, FailRead, FailWrite, FailLost, TakeLease,
       Command
  <2>4. QED
    BY <1>2, <1>4, <1>5, <1>6, <2>1, <2>2, <2>3
       DEF EffectConsumesApproval, RejectionIsFinal, RowWithChallenge, ClaimsFollowApproval,
           CompletedWasClaimed, ApprovalWasTold
<1>8. CASE RedeemCommits(a)
  <2>1. /\ applied' = applied \cup {a} /\ approval' = "CONSUMED"
        /\ cmd' = [cmd EXCEPT !.status = "COMPLETED", !.result = a] /\ cmd.owner = a
    BY <1>8 DEF RedeemCommits, ExecuteCommits, ExecuteUnacknowledged, Commit, OwnsCommand
  <2>2. cmd'.status = "COMPLETED" /\ cmd'.tries = cmd.tries /\ cmd.tries >= 1
    BY <1>3, <2>1 DEF Command, IInv, OwnersCounted
  <2>3. QED
    BY <1>2, <1>4, <1>6, <2>1, <2>2
       DEF EffectConsumesApproval, RejectionIsFinal, RowWithChallenge, ClaimsFollowApproval,
           CompletedWasClaimed, ApprovalWasTold
<1>9. QED
  BY <1>7, <1>8

\* A server dies, or a lease runs out: the row's status and the approval stay.
LEMMA InterruptionRInv ==
  ASSUME RInv, RedeemLeaseExpires \/ \E a \in Attempts : RedeemCrash(a)
  PROVE  RInv'
<1> USE DEF RInv
<1>1. cmd \in Command /\ pc \in [Attempts -> Places]
  BY DEF ApprovalTypeOK, TypeOK
<1>2. /\ Next /\ UNCHANGED <<valid, eligible, manager, told, approval, applied>>
      /\ cmd'.status = cmd.status /\ cmd'.tries = cmd.tries
      /\ \A b \in Attempts : pc'[b] = pc[b] \/ pc'[b] = "crashed"
  BY <1>1 DEF RedeemCrash, RedeemLeaseExpires, Crash, LeaseExpires, Move, approvalVars, Command,
              Next
<1>3. IInv'
  BY <1>2, StepIInv
<1>4. ToldOnce' /\ ApprovalTypeOK'
  BY <1>2, <1>3 DEF ToldOnce, ApprovalTypeOK, IInv
<1>5. QED
  BY <1>2, <1>3, <1>4
     DEF EffectConsumesApproval, RejectionIsFinal, RowWithChallenge, ClaimsFollowApproval,
         CompletedWasClaimed, ApprovalWasTold, SomeoneApproved, Unprepared

\* The managers.
LEMMA DecideRInv ==
  ASSUME RInv, NEW m \in Managers, Decide(m)
  PROVE  RInv'
<1> USE AttemptsAssumption, PollsAssumption DEF RInv
<1>1. /\ UNCHANGED <<pc, polls, answer, applied, valid, eligible>>
      /\ cmd \in Command /\ cmd.tries \in Nat
      /\ manager \in [Managers -> Intents]
      /\ told \in [Managers -> {"none", "APPROVED", "REJECTED", "refused"}]
      /\ manager[m] # "done" /\ told[m] = "none"
      /\ cmd' = cmd \/ cmd' = FailUnclaimed
  <2>1. cmd \in Command /\ cmd.tries \in Nat
    BY DEF ApprovalTypeOK, TypeOK, Command
  <2>2. manager[m] # "done"
    BY DEF Decide, DecideReads, DecideTooLate, DecideApproves, DecideRejects, DecideLost,
           DecideCloses
  <2>3. /\ UNCHANGED <<pc, polls, answer, applied, valid, eligible>>
        /\ cmd' = cmd \/ cmd' = FailUnclaimed
    BY DEF Decide, DecideReads, DecideTooLate, DecideApproves, DecideRejects, DecideLost,
           DecideCloses, commandVars
  <2>4. QED
    BY <2>1, <2>2, <2>3 DEF ApprovalTypeOK, ToldOnce
<1>2. /\ cmd'.tries = cmd.tries
      /\ cmd'.status = "ABSENT" <=> cmd.status = "ABSENT"
      /\ cmd'.status = "COMPLETED" <=> cmd.status = "COMPLETED"
      /\ cmd.status = "FAILED" => cmd'.status = "FAILED"
  BY <1>1, EndedRow
<1>3. IInv'
  <2>1. CASE UNCHANGED cmd
    <3>1. UNCHANGED vars
      BY <1>1, <2>1 DEF vars
    <3>2. QED
      BY <3>1, StepIInv
  <2>2. CASE cmd' = FailUnclaimed
    BY <1>1, <2>2, EndingKeepsCommand
  <2>3. QED
    BY <1>1, <2>1, <2>2
<1>4. CASE DecideReads(m)
  <2>1. /\ UNCHANGED <<approval, told, cmd>>
        /\ \E w \in Intents : manager' = [manager EXCEPT ![m] = w]
    BY <1>4 DEF DecideReads, Intend, Intents, commandVars
  <2>2. ApprovalTypeOK' /\ ToldOnce'
    BY <1>1, <1>3, <2>1 DEF IInv, ApprovalTypeOK, ToldOnce
  <2>3. QED
    BY <1>1, <1>2, <1>3, <2>1, <2>2
       DEF EffectConsumesApproval, RejectionIsFinal, RowWithChallenge, ClaimsFollowApproval,
           CompletedWasClaimed, ApprovalWasTold, SomeoneApproved
<1>5. ASSUME NEW w \in {"APPROVED", "REJECTED", "refused"}, Finish(m, w),
             \/ w = "refused" /\ UNCHANGED approval
             \/ w = "refused" /\ approval = "PENDING" /\ approval' = "EXPIRED"
             \/ w = "APPROVED" /\ approval = "PENDING" /\ approval' = "APPROVED"
             \/ /\ w = "REJECTED" /\ approval = "PENDING" /\ approval' = "REJECTED"
                /\ cmd' = FailUnclaimed
      PROVE  RInv'
  <2>1. /\ manager' = [manager EXCEPT ![m] = "done"] /\ told' = [told EXCEPT ![m] = w]
        /\ \A n \in Managers : n # m => told'[n] = told[n] /\ manager'[n] = manager[n]
        /\ told'[m] = w /\ manager'[m] = "done"
    BY <1>1, <1>5 DEF Finish
  <2>2. ApprovalTypeOK'
    BY <1>1, <1>3, <1>5, <2>1 DEF IInv, ApprovalTypeOK, ApprovalStatus, Intents
  \* A pending challenge means that no manager was told a decision yet.
  <2>3. ToldOnce'
    <3>1. approval = "PENDING" =>
            \A n \in Managers : told[n] \notin {"APPROVED", "REJECTED"}
      BY DEF ToldOnce
    <3>2. \A n \in Managers : told'[n] # "none" => manager'[n] = "done"
      BY <2>1 DEF ToldOnce
    <3>3. \A n \in Managers :
            told'[n] \in {"APPROVED", "REJECTED"} => approval' \notin {"NONE", "PENDING"}
      BY <1>5, <2>1 DEF ToldOnce
    <3>4. \A n, k \in Managers :
            told'[n] \in {"APPROVED", "REJECTED"} /\ told'[k] \in {"APPROVED", "REJECTED"}
              => n = k
      BY <1>5, <2>1, <3>1 DEF ToldOnce
    <3>5. QED
      BY <3>2, <3>3, <3>4 DEF ToldOnce
  <2>4. SomeoneApproved \/ w = "APPROVED" => SomeoneApproved'
    BY <1>1, <2>1 DEF SomeoneApproved
  <2>5. ApprovalWasTold'
    BY <1>1, <1>2, <1>5, <2>4 DEF ApprovalWasTold
  \* A pending challenge means that the row is there and was never claimed.
  <2>6. RejectionIsFinal'
    <3>1. CASE approval = "PENDING" /\ cmd' = FailUnclaimed
      <4>1. cmd.tries = 0 /\ cmd.owner = None /\ cmd.status \in {"PROCESSING", "FAILED"}
        BY <1>1, <3>1 DEF ClaimsFollowApproval, RowWithChallenge, CompletedWasClaimed, IInv,
                          OwnersCounted, Command
      <4>2. FailUnclaimed.status = "FAILED"
        BY <1>1, <4>1 DEF FailUnclaimed, Unclaimed, Command
      <4>3. QED
        BY <1>2, <3>1, <4>1, <4>2 DEF RejectionIsFinal
    <3>2. CASE approval' = approval \/ approval' # "REJECTED"
      BY <1>2, <3>2 DEF RejectionIsFinal
    <3>3. QED
      BY <1>5, <3>1, <3>2
  <2>7. QED
    BY <1>1, <1>2, <1>3, <1>5, <2>2, <2>3, <2>5, <2>6
       DEF EffectConsumesApproval, RowWithChallenge, ClaimsFollowApproval, CompletedWasClaimed
<1>6. CASE DecideTooLate(m) \/ DecideLost(m) \/ DecideCloses(m)
  BY <1>5, <1>6 DEF DecideTooLate, DecideLost, DecideCloses
<1>7. CASE DecideApproves(m)
  BY <1>5, <1>7 DEF DecideApproves
<1>8. CASE DecideRejects(m)
  BY <1>5, <1>8 DEF DecideRejects
<1>9. QED
  BY <1>4, <1>6, <1>7, <1>8 DEF Decide

\* Time, listings, eligibility, and the steps that change nothing.
LEMMA EnvironmentRInv ==
  ASSUME RInv, ApprovalLapses \/ ExpireInBulk \/ EligibilityChanges \/ UNCHANGED redeemVars
  PROVE  RInv'
<1> USE DEF RInv
<1>1. /\ UNCHANGED <<commandVars, manager, told>>
      /\ \/ UNCHANGED approval
         \/ approval \in {"PENDING", "APPROVED"} /\ approval' = "EXPIRED"
      /\ valid' \in BOOLEAN /\ eligible' \in BOOLEAN
  BY DEF ApprovalLapses, ExpireInBulk, EligibilityChanges, redeemVars, commandVars, Open,
         ApprovalTypeOK
<1>2. IInv'
  <2>1. UNCHANGED vars
    BY <1>1 DEF vars, commandVars
  <2>2. QED
    BY <2>1, StepIInv
<1>3. ApprovalTypeOK' /\ ToldOnce'
  BY <1>1, <1>2 DEF IInv, ApprovalTypeOK, ApprovalStatus, ToldOnce
<1>4. QED
  BY <1>1, <1>2, <1>3
     DEF EffectConsumesApproval, RejectionIsFinal, RowWithChallenge, ClaimsFollowApproval,
         CompletedWasClaimed, ApprovalWasTold, SomeoneApproved, commandVars

LEMMA StepRInv == RInv /\ [RedeemNext]_redeemVars => RInv'
<1> SUFFICES ASSUME RInv, [RedeemNext]_redeemVars PROVE RInv'
  OBVIOUS
<1>1. ASSUME NEW a \in Attempts, StartRedeem(a) \/ Prepare(a) PROVE RInv'
  BY <1>1, PrepareRInv
<1>2. ASSUME NEW a \in Attempts, OrdinaryStep(a) \/ RedeemCommits(a) \/ RedeemCrash(a)
      PROVE  RInv'
  BY <1>2, CommandRInv, InterruptionRInv
<1>3. ASSUME NEW m \in Managers, Decide(m) PROVE RInv'
  BY <1>3, DecideRInv
<1>4. CASE RedeemLeaseExpires
  BY <1>4, InterruptionRInv
<1>5. CASE ApprovalLapses \/ ExpireInBulk \/ EligibilityChanges \/ UNCHANGED redeemVars
  BY <1>5, EnvironmentRInv
<1>6. QED
  BY <1>1, <1>2, <1>3, <1>4, <1>5 DEF RedeemNext, RedeemStep

-----------------------------------------------------------------------------
(* The theorems.                                                           *)

\* The invariant holds of every redemption.
THEOREM RedeemInvariant == RedeemSpec => []RInv
  BY InitRInv, StepRInv, PTL DEF RedeemSpec

\* Every variable of the redemption keeps its type.
THEOREM ApprovalTypeCorrect == RedeemSpec => []ApprovalTypeOK
<1>1. RInv => ApprovalTypeOK
  BY DEF RInv
<1>2. QED
  BY <1>1, RedeemInvariant, PTL

\* A reward is handed out exactly when an approval was consumed for it, for any
\* number of requests and managers (assertRedemptionApprovalForExecution and
\* the consumption in the redemption's transaction).
THEOREM EffectsConsumeApprovals == RedeemSpec => []EffectConsumesApproval
<1>1. RInv => EffectConsumesApproval
  BY DEF RInv
<1>2. QED
  BY <1>1, RedeemInvariant, PTL

\* However many managers decide at once, one decision stands, and nobody claims
\* the redemption before a manager was told that it is approved
\* (decideApproval's conditional update).
THEOREM DecisionIsUnique == RedeemSpec => []OneDecision
<1>1. RInv => OneDecision
  BY DEF RInv, OneDecision, ToldOnce, ApprovalWasTold, SomeoneApproved
<1>2. QED
  BY <1>1, RedeemInvariant, PTL

\* A rejected redemption has failed and was never claimed (decideApproval's
\* update of the unclaimed command).
THEOREM RejectionStands == RedeemSpec => []RejectionIsFinal
<1>1. RInv => RejectionIsFinal
  BY DEF RInv
<1>2. QED
  BY <1>1, RedeemInvariant, PTL

\* The redemption takes effect at most once, also when its row was reserved for
\* an approval and ended by managers who race with the requests.
THEOREM RedeemedAtMostOnce == RedeemSpec => []AtMostOneEffect
<1>1. RInv => AtMostOneEffect
  BY DEF RInv, IInv
<1>2. QED
  BY <1>1, RedeemInvariant, PTL

\* A challenge that was rejected, expired or consumed stays so, whoever else
\* was about to decide, consume or expire it.
THEOREM ChallengesStayClosed == RedeemSpec => ClosedStaysClosed
<1>1. RInv /\ [RedeemNext]_redeemVars =>
        [(approval \in {"REJECTED", "EXPIRED", "CONSUMED"}) => approval' = approval]_redeemVars
  <2> SUFFICES ASSUME RInv, [RedeemNext]_redeemVars,
                      approval \in {"REJECTED", "EXPIRED", "CONSUMED"}
               PROVE  approval' = approval
    OBVIOUS
  <2>1. ASSUME NEW a \in Attempts, StartRedeem(a) \/ Prepare(a) PROVE approval' = approval
    BY <2>1 DEF StartRedeem, Prepare, PrepareNew, PrepareConflict, PrepareReplays,
         PrepareExpires, PrepareRefused, PrepareProceeds, PrepareAborts, Undecided, Open,
         approvalVars, RInv, RowWithChallenge
  <2>2. ASSUME NEW a \in Attempts, OrdinaryStep(a) \/ RedeemCommits(a) \/ RedeemCrash(a)
        PROVE  approval' = approval
    BY <2>2 DEF OrdinaryStep, RedeemCommits, RedeemCrash, Consumable, approvalVars
  <2>3. ASSUME NEW m \in Managers, Decide(m) PROVE approval' = approval
    BY <2>3 DEF Decide, DecideReads, DecideTooLate, DecideApproves, DecideRejects, DecideLost,
         DecideCloses
  <2>4. CASE \/ RedeemLeaseExpires \/ ApprovalLapses \/ ExpireInBulk \/ EligibilityChanges
             \/ UNCHANGED redeemVars
    BY <2>4 DEF RedeemLeaseExpires, ApprovalLapses, ExpireInBulk, EligibilityChanges, Open,
         approvalVars, redeemVars
  <2>5. QED
    BY <2>1, <2>2, <2>3, <2>4 DEF RedeemNext, RedeemStep
<1>2. QED
  BY <1>1, RedeemInvariant, PTL DEF RedeemSpec, ClosedStaysClosed

\* A redemption with an approval still keeps the promise of its idempotency
\* key: the preparation replays a result only to a request of the same content,
\* and the managers answer no request.
THEOREM RedemptionKeepsPromise == RedeemSpec => KeepsPromise
<1>1. RedeemInit => Key!Init
  BY DEF RedeemInit, Init, Key!Init
<1>2. RInv /\ [RedeemNext]_redeemVars => [Key!Next]_<<applied, answer>>
  <2> SUFFICES ASSUME RInv, [RedeemNext]_redeemVars
               PROVE  [Key!Next]_<<applied, answer>>
    OBVIOUS
  <2>1. ASSUME NEW a \in Attempts, Prepare(a) PROVE [Key!Next]_<<applied, answer>>
    <3>1. pc[a] = "preparing" /\ answer[a] = "none" /\ UNCHANGED applied
      BY <2>1 DEF Prepare, PrepareNew, PrepareConflict, PrepareReplays, PrepareExpires,
           PrepareRefused, PrepareProceeds, PrepareAborts, Undecided, RInv, IInv,
           UnansweredUntilDone
    <3>2. CASE PrepareReplays(a) /\ Is("COMPLETED") /\ Matches(a)
      <4>1. Tell(a, "success")
        BY <3>2 DEF PrepareReplays, Is
      <4>2. Key!Kept(a)
        BY <3>2 DEF Key!Kept, RInv, IInv, RowTellsEffect, Is, Matches
      <4>3. QED
        BY <3>1, <4>1, <4>2 DEF Key!Next, Key!Confirm, Tell
    <3>3. CASE PrepareProceeds(a)
      BY <3>1, <3>3 DEF PrepareProceeds
    <3>4. CASE \E w \in {"conflict", "failure", "error"} : Tell(a, w)
      BY <3>1, <3>4 DEF Key!Next, Key!Refuse, Tell
    <3>5. QED
      BY <2>1, <3>2, <3>3, <3>4 DEF Prepare, PrepareNew, PrepareConflict, PrepareReplays,
           PrepareExpires, PrepareRefused, PrepareAborts
  <2>2. ASSUME NEW a \in Attempts, OrdinaryStep(a) \/ RedeemCommits(a) \/ RedeemCrash(a)
        PROVE  [Key!Next]_<<applied, answer>>
    <3>1. Next
      BY <2>2 DEF OrdinaryStep, RedeemCommits, RedeemCrash, Next, Step, Execute
    <3>2. QED
      BY <3>1, StepKeepsPromise DEF RInv
  <2>3. CASE \/ \E a \in Attempts : StartRedeem(a)
             \/ \E m \in Managers : Decide(m)
             \/ RedeemLeaseExpires \/ ApprovalLapses \/ ExpireInBulk \/ EligibilityChanges
             \/ UNCHANGED redeemVars
    BY <2>3 DEF StartRedeem, Decide, DecideReads, DecideTooLate, DecideApproves, DecideRejects,
         DecideLost, DecideCloses, RedeemLeaseExpires, LeaseExpires, ApprovalLapses, ExpireInBulk,
         EligibilityChanges, commandVars, redeemVars
  <2>4. QED
    BY <2>1, <2>2, <2>3 DEF RedeemNext, RedeemStep
<1>3. QED
  BY <1>1, <1>2, RedeemInvariant, PTL DEF RedeemSpec, KeepsPromise, Key!Spec
=============================================================================
