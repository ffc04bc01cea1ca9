---------------------------- MODULE WalletOutbox ----------------------------
(***************************************************************************)
(* The wallet worker and the outbox commands of one wallet pass: operations *)
(* of the API, jobs of a program and repairs append commands, a dispatcher  *)
(* moves the due ones to a Redis list, the slots of the workers pop, claim  *)
(* and execute them against the provider, and record what happened.         *)
(*                                                                          *)
(* Every step of a slot that waits for the database, for Redis or for the   *)
(* provider is an action: between the snapshot of the pass and the write    *)
(* of the result anything may happen.  A slot executes a command while its  *)
(* row says so by lease only; the writes that end a command go by its id.   *)
(***************************************************************************)
EXTENDS Integers, Sequences, FiniteSets

CONSTANTS
  Providers,    \* the providers a pass may have
  Slots,        \* the consumers of all worker processes
  MaxAttempts,  \* WALLET_COMMAND_MAX_ATTEMPTS
  MaxChanges,   \* bound on the state changes of the pass
  MaxFaults     \* bound on errors, deaths, and timers that run out under somebody at work

ASSUME OutboxAssumption ==
  /\ Providers \subseteq {"APPLE", "GOOGLE"}
  /\ MaxAttempts \in Nat \ {0}
  /\ MaxChanges \in Nat /\ MaxFaults \in Nat

VARIABLES
  pass,       \* the wallet_pass_instances row, its version, its credential,
              \* whether its membership is revoked and it was ever shown active
  commands,   \* the wallet_commands rows of the pass
  lost,       \* the commands with a Redis key that says they are queued, and are not
  slot,       \* slot -> what it is doing
  object,     \* Google's copy: the last one written
  published,  \* the newest version the provider or the device was told of
  faults,     \* how many there were
  late        \* commands whose lease ran out under their owner

shown == <<object, published>>
vars == <<pass, commands, lost, slot, object, published, faults, late>>

CommandIds ==
  [type : {"ISSUE"}, of : {0}]
    \cup [type : {"UPDATE", "RECONCILE", "APPLE_PUSH"}, of : 0..MaxChanges]
    \cup [type : {"INVALIDATE"}, of : 1..MaxChanges]
Command(type, n) == [type |-> type, of |-> n]

Row == [status : {"ABSENT", "PENDING", "PROCESSING", "FAILED", "COMPLETED", "DEAD_LETTER"},
        leased : BOOLEAN, attempts : Nat]
Absent == [status |-> "ABSENT", leased |-> FALSE, attempts |-> 0]
Created == [Absent EXCEPT !.status = "PENDING"]

Snapshot == [version : 0..MaxChanges, credential : {"ACTIVE", "TRANSFERRED", "REVOKED"}]
Unread == [version |-> 0, credential |-> "ACTIVE"]
Idle == [at |-> "idle", cmd |-> Command("ISSUE", 0), attempt |-> 0, seen |-> Unread]

Init ==
  /\ pass \in [provider : Providers, status : {"PENDING"}, credential : {"ACTIVE"},
              version : {0}, revoked : {FALSE}, wasActive : {FALSE}]
  /\ commands = [c \in CommandIds |-> IF c.type = "ISSUE" THEN Created ELSE Absent]
  /\ lost = {}
  /\ slot = [s \in Slots |-> Idle]
  /\ object = [version |-> 0, active |-> FALSE]
  /\ published = 0
  /\ faults = 0 /\ late = {}

-----------------------------------------------------------------------------
(* The writers of commands.  A change of what the pass shows takes the next *)
(* version and leaves a command of that version behind.                     *)

Queues(type) ==
  /\ pass.version < MaxChanges
  /\ commands' = [commands EXCEPT ![Command(type, pass.version + 1)] = Created]

Closed == {"INVALIDATED", "INVALIDATION_PENDING"}

(* A loyalty operation, or the expiry of a reward: they skip the passes     *)
(* that are, or are about to be, invalidated.                               *)
Operation ==
  /\ ~pass.revoked /\ pass.status \notin Closed
  /\ Queues("UPDATE")
  /\ pass' = [pass EXCEPT !.status = "UPDATE_PENDING", !.version = @ + 1]
  /\ UNCHANGED <<lost, slot, shown, faults, late>>

(* A job of the program (branding, pause, archive, restore, reconcile), or  *)
(* an Apple campaign.  It lists passes by status and credential before the  *)
(* transaction that queues, so nothing it read need still be true.          *)
SyncJob(type) ==
  /\ Queues(type)
  /\ pass' = [pass EXCEPT !.status = IF type = "INVALIDATE" THEN "INVALIDATION_PENDING"
                                     ELSE "UPDATE_PENDING",
                          !.version = @ + 1]
  /\ UNCHANGED <<lost, slot, shown, faults, late>>

(* The repair of a presentation, or a look at who holds a Google object:    *)
(* one command of no version, and the row is left alone.  The pass was      *)
(* active when the scan read it, and need not be now.                       *)
Patches == {Command("UPDATE", 0), Command("RECONCILE", 0)}

Patch(c) ==
  /\ pass.wasActive
  /\ c.type = "RECONCILE" => pass.provider = "GOOGLE"
  /\ commands[c].status = "ABSENT"
  /\ commands' = [commands EXCEPT ![c] = Created]
  /\ UNCHANGED <<pass, lost, slot, shown, faults, late>>

Revoked == IF pass.credential = "ACTIVE" THEN "REVOKED" ELSE pass.credential

Revoke ==
  /\ ~pass.revoked /\ pass.status \notin Closed
  /\ Queues("INVALIDATE")
  /\ pass' = [pass EXCEPT !.status = "INVALIDATION_PENDING", !.credential = Revoked,
                          !.version = @ + 1, !.revoked = TRUE]
  /\ UNCHANGED <<lost, slot, shown, faults, late>>

(* The erasure of the customer takes every pass, whatever its state.        *)
Erase ==
  /\ Queues("INVALIDATE")
  /\ pass' = [pass EXCEPT !.status = "INVALIDATION_PENDING", !.credential = Revoked,
                          !.version = @ + 1, !.revoked = TRUE]
  /\ UNCHANGED <<lost, slot, shown, faults, late>>

Superseded(c) ==
  c.type \in {"ISSUE", "UPDATE"} /\ commands[c].status \in {"PENDING", "FAILED"}

(* A transfer takes every pass of the card, whatever its state, and gives   *)
(* up their older commands.  It fails on a pass whose credential was        *)
(* transferred before: both would be replaced by one of the new credential. *)
Transfer ==
  /\ pass.credential = "ACTIVE"
  /\ pass.version < MaxChanges
  /\ commands' = [c \in CommandIds |->
       IF c = Command("INVALIDATE", pass.version + 1) THEN Created
       ELSE IF Superseded(c) THEN [commands[c] EXCEPT !.status = "DEAD_LETTER"]
       ELSE commands[c]]
  /\ pass' = [pass EXCEPT !.status = "INVALIDATION_PENDING", !.credential = "TRANSFERRED",
                          !.version = @ + 1]
  /\ UNCHANGED <<lost, slot, shown, faults, late>>

-----------------------------------------------------------------------------
(* The dispatcher and Redis.                                                *)

(* Mutants: a lease nobody respects; a lease that never lapses.             *)
DueAlways(c) == commands[c].status \in {"PENDING", "FAILED", "PROCESSING"}
DueUnclaimed(c) == commands[c].status \in {"PENDING", "FAILED"}

Due(c) ==
  \/ commands[c].status \in {"PENDING", "FAILED"}
  \/ commands[c].status = "PROCESSING" /\ ~commands[c].leased

(* The dispatcher queues every due command that has no key; a slot pops it, *)
(* and it may be queued and popped again before the first slot claims it.   *)
Pop(s, c) ==
  /\ slot[s].at = "idle"
  /\ Due(c) /\ c \notin lost
  /\ slot' = [slot EXCEPT ![s].at = "popped", ![s].cmd = c]
  /\ UNCHANGED <<pass, commands, lost, shown, faults, late>>

(* The dispatcher dies between the key and the list, or a slot between the  *)
(* list and the key: nobody queues the command before the key expires.      *)
SignalLost(c) ==
  /\ Due(c) /\ c \notin lost
  /\ faults < MaxFaults
  /\ lost' = lost \cup {c}
  /\ faults' = faults + 1
  /\ UNCHANGED <<pass, commands, slot, shown, late>>

SignalExpires(c) ==
  /\ c \in lost
  /\ lost' = lost \ {c}
  /\ UNCHANGED <<pass, commands, slot, shown, faults, late>>

-----------------------------------------------------------------------------
(* A slot.                                                                  *)

Goes(s, place) == slot' = [slot EXCEPT ![s].at = place]
Leaves(s, place) == slot' = [slot EXCEPT ![s].at = place, ![s].seen = Unread]

Claim(s) ==
  LET c == slot[s].cmd IN
  /\ slot[s].at = "popped"
  /\ IF Due(c)
       THEN /\ commands' = [commands EXCEPT ![c] =
                 [status |-> "PROCESSING", leased |-> TRUE, attempts |-> @.attempts + 1]]
            /\ slot' = [slot EXCEPT ![s].at = "claimed", ![s].attempt = commands[c].attempts + 1]
       ELSE commands' = commands /\ slot' = [slot EXCEPT ![s] = Idle]
  /\ UNCHANGED <<pass, lost, shown, faults, late>>

PassCommands == {"ISSUE", "UPDATE", "INVALIDATE", "RECONCILE"}

(* For Apple the artifact is built on the spot, and the device fetches the  *)
(* pass after a push.                                                       *)
ReadPass(s) ==
  /\ slot[s].at = "claimed" /\ slot[s].cmd.type \in PassCommands
  /\ slot' = [slot EXCEPT ![s].seen = [version |-> pass.version, credential |-> pass.credential],
                          ![s].at = IF slot[s].cmd.type = "ISSUE" /\ pass.credential # "ACTIVE"
                                      THEN "refused"
                                    ELSE IF pass.provider = "GOOGLE" THEN "calling" ELSE "called"]
  /\ UNCHANGED <<pass, commands, lost, shown, faults, late>>

Newest(m, n) == IF m > n THEN m ELSE n

(* Google replaces its object by the one drawn from the snapshot.           *)
CallProvider(s) ==
  /\ slot[s].at = "calling"
  /\ object' = [version |-> slot[s].seen.version,
                active |-> slot[s].cmd.type # "INVALIDATE" /\ slot[s].seen.credential = "ACTIVE"]
  /\ published' = Newest(published, slot[s].seen.version)
  /\ Goes(s, "called")
  /\ UNCHANGED <<pass, commands, lost, faults, late>>

Push(s) ==
  /\ slot[s].at = "claimed" /\ slot[s].cmd.type = "APPLE_PUSH"
  /\ published' = pass.version
  /\ Goes(s, "completing")
  /\ UNCHANGED <<pass, commands, lost, object, faults, late>>

(* Mutant: the guard of the write forgets the credential.                   *)
AliveUnlessPending == pass.status # "INVALIDATION_PENDING"

Alive == pass.credential = "ACTIVE" /\ pass.status # "INVALIDATION_PENDING"

RecordedStatus(s) ==
  CASE slot[s].cmd.type = "INVALIDATE" -> "INVALIDATED"
    [] slot[s].cmd.type = "RECONCILE" /\ slot[s].seen.credential = "TRANSFERRED" -> "INVALIDATED"
    [] OTHER -> IF Alive THEN "ACTIVE" ELSE pass.status

Record(s) ==
  /\ slot[s].at = "called"
  /\ pass' = [pass EXCEPT !.status = RecordedStatus(s),
                          !.wasActive = @ \/ RecordedStatus(s) = "ACTIVE"]
  /\ IF pass.provider = "APPLE" /\ slot[s].cmd.type \in {"UPDATE", "INVALIDATE"}
       THEN Goes(s, "pushing")
       ELSE Leaves(s, "completing")
  /\ UNCHANGED <<commands, lost, shown, faults, late>>

(* Mutant: one push for a pass at a time.                                   *)
QueueOnePush(s) ==
  LET p == Command("APPLE_PUSH", slot[s].seen.version) IN
  /\ slot[s].at = "pushing"
  /\ commands' = IF \E n \in 0..MaxChanges : commands[Command("APPLE_PUSH", n)].status # "ABSENT"
                   THEN commands ELSE [commands EXCEPT ![p] = Created]
  /\ Leaves(s, "completing")
  /\ UNCHANGED <<pass, lost, shown, faults, late>>

(* The push is keyed by the sequence of the snapshot, and is not queued     *)
(* again when it exists.                                                    *)
QueueApplePush(s) ==
  LET p == Command("APPLE_PUSH", slot[s].seen.version) IN
  /\ slot[s].at = "pushing"
  /\ commands' = [commands EXCEPT ![p] = IF @.status = "ABSENT" THEN Created ELSE @]
  /\ Leaves(s, "completing")
  /\ UNCHANGED <<pass, lost, shown, faults, late>>

Ends(s, status) ==
  /\ commands' = [commands EXCEPT ![slot[s].cmd].status = status, ![slot[s].cmd].leased = FALSE]
  /\ slot' = [slot EXCEPT ![s] = Idle]

Complete(s) ==
  /\ slot[s].at = "completing"
  /\ Ends(s, "COMPLETED")
  /\ UNCHANGED <<pass, lost, shown, faults, late>>

(* Anything the slot awaits may throw, the provider after it did as asked.  *)
Throws(s) ==
  /\ slot[s].at \in {"claimed", "calling", "called", "pushing", "completing"}
  /\ faults < MaxFaults
  /\ faults' = faults + 1
  /\ Leaves(s, "failing")
  /\ UNCHANGED <<pass, commands, lost, shown, late>>

Fail(s) ==
  /\ slot[s].at = "failing"
  /\ slot[s].attempt < MaxAttempts
  /\ Ends(s, "FAILED")
  /\ pass' = IF slot[s].cmd.type = "RECONCILE" THEN pass ELSE [pass EXCEPT !.status = "ERROR"]
  /\ UNCHANGED <<lost, shown, faults, late>>

(* The last attempt, an error no retry helps, a credential that is no      *)
(* longer active, or a merchant that does not pay.                          *)
DeadLetter(s) ==
  /\ \/ slot[s].at \in {"failing", "refused"}
     \/ slot[s].at = "claimed" /\ slot[s].cmd.type = "ISSUE"
  /\ Ends(s, "DEAD_LETTER")
  /\ UNCHANGED <<pass, lost, shown, faults, late>>

-----------------------------------------------------------------------------
(* Time and faults.                                                         *)

Executing(s) == slot[s].at \notin {"idle", "popped"}
AtWork(c) == \E s \in Slots : /\ Executing(s) /\ slot[s].cmd = c
                             /\ slot[s].attempt = commands[c].attempts

LeaseExpires(c) ==
  /\ commands[c].status = "PROCESSING" /\ commands[c].leased
  /\ AtWork(c) => faults < MaxFaults
  /\ commands' = [commands EXCEPT ![c].leased = FALSE]
  /\ faults' = IF AtWork(c) THEN faults + 1 ELSE faults
  /\ late' = IF AtWork(c) THEN late \cup {c} ELSE late
  /\ UNCHANGED <<pass, lost, slot, shown>>

Crash(s) ==
  /\ slot[s].at # "idle" /\ faults < MaxFaults
  /\ slot' = [slot EXCEPT ![s] = Idle]
  /\ faults' = faults + 1
  /\ UNCHANGED <<pass, commands, lost, shown, late>>

Work(s) ==
  \/ (\E c \in CommandIds : Pop(s, c)) \/ Claim(s) \/ ReadPass(s) \/ CallProvider(s) \/ Push(s)
  \/ Record(s) \/ QueueApplePush(s) \/ Complete(s) \/ Fail(s) \/ DeadLetter(s)

Next ==
  \/ Operation \/ Revoke \/ Erase \/ Transfer
  \/ \E type \in {"UPDATE", "RECONCILE", "INVALIDATE"} : SyncJob(type)
  \/ \E c \in Patches : Patch(c)
  \/ \E c \in CommandIds :
       SignalLost(c) \/ SignalExpires(c) \/ LeaseExpires(c)
  \/ \E s \in Slots : Work(s) \/ Throws(s) \/ Crash(s)

(* The dispatcher and the consumers poll in loops, and time passes.         *)
Fairness ==
  /\ WF_vars(\E c \in CommandIds : SignalExpires(c))
  /\ WF_vars(\E c \in CommandIds : LeaseExpires(c) /\ ~AtWork(c))
  /\ \A s \in Slots : WF_vars(Work(s))

Spec == Init /\ [][Next]_vars /\ Fairness

-----------------------------------------------------------------------------
(* Properties.                                                              *)

Places == {"idle", "popped", "claimed", "refused", "calling", "called",
           "pushing", "completing", "failing"}

(* Type invariant of the pass, its commands, the queue and the slots.       *)
TypeOK ==
  /\ pass \in [provider : Providers,
               status : {"PENDING", "ACTIVE", "UPDATE_PENDING", "INVALIDATION_PENDING",
                         "INVALIDATED", "ERROR"},
               credential : {"ACTIVE", "TRANSFERRED", "REVOKED"}, version : 0..MaxChanges,
               revoked : BOOLEAN, wasActive : BOOLEAN]
  /\ commands \in [CommandIds -> Row]
  /\ lost \subseteq CommandIds
  /\ slot \in [Slots -> [at : Places, cmd : CommandIds, attempt : Nat, seen : Snapshot]]
  /\ object \in [version : 0..MaxChanges, active : BOOLEAN]
  /\ published \in 0..MaxChanges
  /\ faults \in 0..MaxFaults /\ late \subseteq CommandIds

(* The conditional claim and the lease: however often a command is queued,  *)
(* two slots execute it together only after its lease ran out under one of  *)
(* them.                                                                    *)
OneExecution ==
  \A s, t \in Slots :
    s # t /\ Executing(s) /\ Executing(t) /\ slot[s].cmd = slot[t].cmd => slot[s].cmd \in late

(* The guarded writes of results: a pass whose credential was transferred   *)
(* or revoked is never shown as active again, whatever the slots that read  *)
(* it before write afterwards.                                              *)
NeverReactivated == pass.credential # "ACTIVE" => pass.status # "ACTIVE"

(* No change is lost on its way: a change whose command completed was       *)
(* published in its version or a later one, for Apple by the push the       *)
(* command leaves behind.                                                   *)
ChangesPublished ==
  \A c \in CommandIds : commands[c].status = "COMPLETED" =>
    IF c.type = "APPLE_PUSH" \/ pass.provider = "GOOGLE"
      THEN published >= c.of
      ELSE c.type \in {"UPDATE", "INVALIDATE"} =>
             \E n \in c.of..MaxChanges : commands[Command("APPLE_PUSH", n)].status # "ABSENT"

Ended(c) == commands[c].status \in {"COMPLETED", "DEAD_LETTER"}

(* Through lost queue entries, dead slots, failures and lapsed leases every *)
(* command ends and stays ended, because dispatch works from the rows.      *)
EveryCommandEnds == <>[](\A c \in CommandIds : commands[c].status = "ABSENT" \/ Ended(c))

(* docs/w3/google-wallet.md:7: transfer makes the old object inactive.  When *)
(* every command of a transferred pass has completed, the object Google     *)
(* keeps should be inactive.                                                *)
TransferredObjectInactive ==
  pass.provider = "GOOGLE" /\ pass.credential = "TRANSFERRED"
    /\ (\A c \in CommandIds : commands[c].status \in {"ABSENT", "COMPLETED"})
    => ~object.active
=============================================================================
