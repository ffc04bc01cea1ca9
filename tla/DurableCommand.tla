---------------------------- MODULE DurableCommand ----------------------------
(***************************************************************************)
(* How the operations API carries out one idempotent command: the row of   *)
(* loyalty_operation_commands with its lease, and the requests that carry  *)
(* its idempotency key.  A request claims the row (claimDurableCommand),   *)
(* executes the operation in a second transaction that checks the claim    *)
(* again, and marks the row FAILED in a third one when the execution       *)
(* throws (persistCommandFailure).  A request that finds another owner's   *)
(* live lease polls until the command ends or the lease runs out.          *)
(*                                                                         *)
(* The claim and the execution are serializable and hold the command's     *)
(* advisory lock; each is one step.  The failure transaction takes no lock *)
(* and runs at the default isolation (read committed): its read and its    *)
(* write are two steps.  What the operation does to the membership is the  *)
(* subject of MembershipLedger; here it is the membership of the request   *)
(* in "applied", committed together with the COMPLETED row.                *)
(***************************************************************************)
EXTENDS Naturals, FiniteSets

CONSTANTS Attempts,     \* requests sent under the one idempotency key
          Fingerprint,  \* request -> fingerprint of what it asks for
          None,         \* no owner, no result
          MaxPolls      \* polls of a waiting request before it gives up (200 in the code)

ASSUME AttemptsAssumption == None \notin Attempts /\ DOMAIN Fingerprint = Attempts
ASSUME PollsAssumption == MaxPolls \in Nat

VARIABLES
  cmd,      \* the command row
  pc,       \* where each request is
  polls,    \* polls made by each waiting request
  answer,   \* what each request was told
  applied   \* requests whose effect is committed

vars == <<cmd, pc, polls, answer, applied>>

Fingerprints == {Fingerprint[a] : a \in Attempts}

Command ==
  [status : {"ABSENT", "PROCESSING", "COMPLETED", "FAILED"},
   fingerprint : Fingerprints \cup {None}, owner : Attempts \cup {None},
   lease : {"none", "live", "expired"}, tries : Nat, result : Attempts \cup {None}]

Places == {"idle", "preparing", "claiming", "waiting", "executing",
           "failing", "marking", "done", "crashed"}

Answers == {"none", "success", "conflict", "failure", "in_progress", "error"}

TypeOK ==
  /\ cmd \in Command
  /\ pc \in [Attempts -> Places]
  /\ polls \in [Attempts -> 0..MaxPolls]
  /\ answer \in [Attempts -> Answers]
  /\ applied \subseteq Attempts

AbsentRow == [status |-> "ABSENT", fingerprint |-> None, owner |-> None,
              lease |-> "none", tries |-> 0, result |-> None]

\* A row that the preparation of a redemption created and nobody claimed yet.
ReservedRow(f) == [AbsentRow EXCEPT !.status = "PROCESSING", !.fingerprint = f]

Init ==
  /\ cmd \in {AbsentRow} \cup {ReservedRow(f) : f \in Fingerprints}
  /\ pc = [a \in Attempts |-> "idle"]
  /\ polls = [a \in Attempts |-> 0]
  /\ answer = [a \in Attempts |-> "none"]
  /\ applied = {}

-----------------------------------------------------------------------------
\* "preparing" is where a redemption starts (RedeemApproval); the other
\* operations start with the claim.
Move(a, place) == pc' = [pc EXCEPT ![a] = place]

Tell(a, what) == Move(a, "done") /\ answer' = [answer EXCEPT ![a] = what]

Matches(a) == cmd.fingerprint = Fingerprint[a]

Is(status) == cmd.status = status

Start(a) ==
  /\ pc[a] = "idle"
  /\ Move(a, "claiming")
  /\ UNCHANGED <<cmd, polls, answer, applied>>

(***************************************************************************)
(* The claim.                                                              *)
(***************************************************************************)
TakeLease(a) ==
  cmd' = [cmd EXCEPT !.status = "PROCESSING", !.fingerprint = Fingerprint[a],
                     !.owner = a, !.lease = "live", !.tries = @ + 1]

\* A row that is new, that was only reserved, or whose lease ran out.
Claimable(a) ==
  \/ cmd.status = "ABSENT"
  \/ /\ cmd.status = "PROCESSING" /\ Matches(a)
     /\ cmd.lease \in {"none", "expired"}

ClaimOwn(a) ==
  /\ pc[a] = "claiming" /\ Claimable(a)
  /\ TakeLease(a)
  /\ Move(a, "executing")
  /\ UNCHANGED <<polls, answer, applied>>

ClaimConflict(a) ==
  /\ pc[a] = "claiming" /\ cmd.status # "ABSENT" /\ ~Matches(a)
  /\ Tell(a, "conflict")
  /\ UNCHANGED <<cmd, polls, applied>>

\* A claiming or a polling request finds the command ended.
Asking(a) == pc[a] = "claiming" \/ (pc[a] = "waiting" /\ polls[a] < MaxPolls)

Replay(a) ==
  /\ Asking(a) /\ Is("COMPLETED") /\ Matches(a)
  /\ Tell(a, "success")
  /\ UNCHANGED <<cmd, polls, applied>>

ReplayFailure(a) ==
  /\ Asking(a) /\ Is("FAILED") /\ Matches(a)
  /\ Tell(a, "failure")
  /\ UNCHANGED <<cmd, polls, applied>>

ClaimWait(a) ==
  /\ pc[a] = "claiming" /\ Is("PROCESSING") /\ Matches(a) /\ cmd.lease = "live"
  /\ Move(a, "waiting")
  /\ polls' = [polls EXCEPT ![a] = 0]
  /\ UNCHANGED <<cmd, answer, applied>>

\* The claim transaction exhausts its serialization retries or loses its connection.
ClaimAborts(a) ==
  /\ pc[a] = "claiming"
  /\ Tell(a, "error")
  /\ UNCHANGED <<cmd, polls, applied>>

Claim(a) == ClaimOwn(a) \/ ClaimConflict(a) \/ ClaimWait(a) \/ ClaimAborts(a)

(***************************************************************************)
(* Polling while another request holds the lease.                          *)
(***************************************************************************)
Polling(a) == pc[a] = "waiting" /\ Is("PROCESSING") /\ polls[a] < MaxPolls

PollReclaims(a) ==
  /\ Polling(a) /\ cmd.lease = "expired"
  /\ Move(a, "claiming")
  /\ UNCHANGED <<cmd, polls, answer, applied>>

\* Mutant: a request waits for the lease without counting its polls.
PollForEver(a) ==
  /\ Polling(a) /\ cmd.lease # "expired"
  /\ UNCHANGED <<cmd, polls, pc, answer, applied>>

PollAgain(a) ==
  /\ Polling(a) /\ cmd.lease # "expired"
  /\ polls' = [polls EXCEPT ![a] = @ + 1]
  /\ UNCHANGED <<cmd, pc, answer, applied>>

PollGivesUp(a) ==
  /\ pc[a] = "waiting" /\ polls[a] = MaxPolls
  /\ Tell(a, "in_progress")
  /\ UNCHANGED <<cmd, polls, applied>>

Poll(a) == PollReclaims(a) \/ PollAgain(a) \/ PollGivesUp(a)

(***************************************************************************)
(* The execution.  It checks status, fingerprint and owner of the row, not *)
(* the time of its lease; the row keeps its lease when it completes.       *)
(***************************************************************************)
OwnsCommand(a) == Is("PROCESSING") /\ Matches(a) /\ cmd.owner = a

Commit(a) ==
  /\ applied' = applied \cup {a}
  /\ cmd' = [cmd EXCEPT !.status = "COMPLETED", !.result = a]

ExecuteCommits(a) ==
  /\ pc[a] = "executing" /\ OwnsCommand(a)
  /\ Commit(a) /\ Tell(a, "success")
  /\ UNCHANGED polls

\* The database commits and the acknowledgement is lost.
ExecuteUnacknowledged(a) ==
  /\ pc[a] = "executing" /\ OwnsCommand(a)
  /\ Commit(a) /\ Move(a, "failing")
  /\ UNCHANGED <<polls, answer>>

\* A rule of the operation refuses it, or its transaction cannot commit.
ExecuteRejected(a) ==
  /\ pc[a] = "executing" /\ OwnsCommand(a)
  /\ Move(a, "failing")
  /\ UNCHANGED <<cmd, polls, answer, applied>>

ExecuteReplays(a) ==
  /\ pc[a] = "executing" /\ Is("COMPLETED") /\ Matches(a)
  /\ Tell(a, "success")
  /\ UNCHANGED <<cmd, polls, applied>>

\* Another request reclaimed the command, or it failed meanwhile.
ExecuteFenced(a) ==
  /\ pc[a] = "executing" /\ ~OwnsCommand(a) /\ ~Is("COMPLETED")
  /\ Move(a, "failing")
  /\ UNCHANGED <<cmd, polls, answer, applied>>

Execute(a) ==
  \/ ExecuteCommits(a) \/ ExecuteUnacknowledged(a) \/ ExecuteRejected(a)
  \/ ExecuteReplays(a) \/ ExecuteFenced(a)

(***************************************************************************)
(* Recording the failure: a read of the row, then an update by its id that *)
(* does not repeat what the read found.  The request is told the error.    *)
(***************************************************************************)
FailRead(a) ==
  /\ pc[a] = "failing"
  /\ IF OwnsCommand(a)
     THEN Move(a, "marking") /\ UNCHANGED answer
     ELSE Tell(a, "error")
  /\ UNCHANGED <<cmd, polls, applied>>

FailWrite(a) ==
  /\ pc[a] = "marking"
  /\ cmd' = [cmd EXCEPT !.status = "FAILED", !.owner = None, !.lease = "none"]
  /\ Tell(a, "error")
  /\ UNCHANGED <<polls, applied>>

FailLost(a) ==
  /\ pc[a] \in {"failing", "marking"}
  /\ Tell(a, "error")
  /\ UNCHANGED <<cmd, polls, applied>>

RecordFailure(a) == FailRead(a) \/ FailWrite(a) \/ FailLost(a)

(***************************************************************************)
(* The environment: a server process dies, the 90 seconds of a lease pass. *)
(***************************************************************************)
Crash(a) ==
  /\ pc[a] \notin {"idle", "done", "crashed"}
  /\ Move(a, "crashed")
  /\ UNCHANGED <<cmd, polls, answer, applied>>

LeaseExpires ==
  /\ cmd.lease = "live"
  /\ cmd' = [cmd EXCEPT !.lease = "expired"]
  /\ UNCHANGED <<pc, polls, answer, applied>>

Step(a) ==
  \/ Claim(a) \/ Replay(a) \/ ReplayFailure(a) \/ Poll(a) \/ Execute(a) \/ RecordFailure(a)

Next == LeaseExpires \/ \E a \in Attempts : Start(a) \/ Step(a) \/ Crash(a)

Spec == Init /\ [][Next]_vars

\* A server process that does not die carries its requests on.
ServerFairness == \A a \in Attempts : WF_vars(Step(a))

FairSpec == Spec /\ ServerFairness

-----------------------------------------------------------------------------
(* Correctness.                                                            *)

\* The operation takes effect at most once, however often it is sent, and
\* although a lease may run out under an owner that is still executing.
AtMostOneEffect == \A a, b \in applied : a = b

\* A command that only one request ever claimed and that is FAILED has changed
\* nothing: a lost acknowledgement is not recorded as a failure.
SoleFailureChangedNothing ==
  cmd.status = "FAILED" /\ cmd.tries <= 1 => applied = {}

\* An effect is on record: the row that carries it has ended and names it, so
\* that no later request claims the command again, even when two owners raced.
EffectIsRecorded ==
  applied # {} => /\ cmd.status \in {"COMPLETED", "FAILED"}
                  /\ cmd.result \in applied

\* The command keeps the promise of an idempotency key.
Key == INSTANCE IdempotentEffect
KeepsPromise == Key!Spec

\* Every request is answered unless its server dies.
EveryRequestAnswered ==
  \A a \in Attempts : pc[a] = "claiming" ~> pc[a] \in {"done", "crashed"}

\* What the documentation of the ledger says: completed commands replay their
\* stored result.  So a completed command stays completed.
CompletedReplays == [][cmd.status = "COMPLETED" => cmd'.status = "COMPLETED"]_vars
=============================================================================
