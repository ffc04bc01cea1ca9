-------------------------- MODULE WalletOutbox_proofs --------------------------
(***************************************************************************)
(* Proofs about the wallet worker, for any number of slots, attempts,      *)
(* changes and faults.  A slot acts on what it read some steps ago and     *)
(* ends its command by the id alone, so what is known of a slot at each of *)
(* its places has to survive every step of the API and of the other slots: *)
(* versions and publications only grow, a command never becomes absent     *)
(* again, and a row changes under its owner only when it is late.          *)
(***************************************************************************)
EXTENDS WalletOutbox, TLAPS

-----------------------------------------------------------------------------
(* The inductive invariant.                                                *)

\* What the completion of a command promises (ChangesPublished).
Delivered(c) ==
  IF c.type = "APPLE_PUSH" \/ pass.provider = "GOOGLE"
  THEN published >= c.of
  ELSE c.type \in {"UPDATE", "INVALIDATE"} =>
         \E n \in c.of..MaxChanges : commands[Command("APPLE_PUSH", n)].status # "ABSENT"

\* A command belongs to a version the pass has reached.
CommandOK(c) ==
  /\ commands[c].status # "ABSENT" => c.of <= pass.version
  /\ commands[c].status = "COMPLETED" => Delivered(c)

\* The row of a command is as its owner left it.
Holds(s) ==
  /\ commands[slot[s].cmd].status = "PROCESSING" /\ commands[slot[s].cmd].leased
  /\ slot[s].attempt = commands[slot[s].cmd].attempts

\* What is known at each place of a slot.
SlotOK(s) ==
  /\ slot[s].seen.version <= pass.version
  /\ slot[s].at # "idle" => commands[slot[s].cmd].status # "ABSENT"
  /\ slot[s].at \in {"calling", "called", "pushing"} =>
       slot[s].cmd.type \in PassCommands /\ slot[s].cmd.of <= slot[s].seen.version
  /\ slot[s].at = "called" /\ pass.provider = "GOOGLE" => published >= slot[s].cmd.of
  /\ slot[s].at = "pushing" =>
       pass.provider = "APPLE" /\ slot[s].cmd.type \in {"UPDATE", "INVALIDATE"}
  /\ slot[s].at = "completing" => Delivered(slot[s].cmd)
  /\ Executing(s) /\ slot[s].cmd \notin late => Holds(s)

OInv ==
  /\ TypeOK
  /\ published <= pass.version
  /\ \A c \in CommandIds : CommandOK(c)
  /\ \A s \in Slots : SlotOK(s)
  /\ OneExecution
  /\ NeverReactivated

-----------------------------------------------------------------------------
(* Facts about the rows.                                                    *)

Pass == [provider : Providers,
         status : {"PENDING", "ACTIVE", "UPDATE_PENDING", "INVALIDATION_PENDING",
                   "INVALIDATED", "ERROR"},
         credential : {"ACTIVE", "TRANSFERRED", "REVOKED"}, version : 0..MaxChanges,
         revoked : BOOLEAN, wasActive : BOOLEAN]

SlotRow == [at : Places, cmd : CommandIds, attempt : Nat, seen : Snapshot]

LEMMA RowFacts ==
  ASSUME OInv
  PROVE  /\ pass \in Pass /\ pass.version \in 0..MaxChanges
         /\ commands \in [CommandIds -> Row]
         /\ \A c \in CommandIds : commands[c] \in Row
         /\ slot \in [Slots -> SlotRow]
         /\ \A s \in Slots : slot[s] \in SlotRow /\ slot[s].cmd \in CommandIds
         /\ \A s \in Slots : slot[s].seen \in Snapshot /\ slot[s].seen.version \in 0..MaxChanges
         /\ lost \subseteq CommandIds /\ late \subseteq CommandIds
         /\ object \in [version : 0..MaxChanges, active : BOOLEAN]
         /\ published \in 0..MaxChanges /\ faults \in 0..MaxFaults
<1>1. pass \in Pass /\ pass.version \in 0..MaxChanges
  BY DEF OInv, TypeOK, Pass
<1>2. slot \in [Slots -> SlotRow]
  BY DEF OInv, TypeOK, SlotRow
<1>3. \A s \in Slots : slot[s] \in SlotRow /\ slot[s].cmd \in CommandIds
                         /\ slot[s].seen \in Snapshot
  BY <1>2 DEF SlotRow
<1>4. \A s \in Slots : slot[s].seen.version \in 0..MaxChanges
  BY <1>3 DEF Snapshot
<1> QED BY <1>1, <1>2, <1>3, <1>4 DEF OInv, TypeOK

LEMMA CommandFacts ==
  /\ \A c \in CommandIds : c.of \in 0..MaxChanges
  /\ \A c \in CommandIds : c.type \in PassCommands \/ c.type = "APPLE_PUSH"
  /\ Command("ISSUE", 0) \in CommandIds
  /\ \A n \in 0..MaxChanges, t \in {"UPDATE", "RECONCILE", "APPLE_PUSH"} :
       /\ Command(t, n) \in CommandIds
       /\ Command(t, n).type = t /\ Command(t, n).of = n
  /\ \A n \in 1..MaxChanges, t \in {"UPDATE", "RECONCILE", "INVALIDATE"} :
       /\ Command(t, n) \in CommandIds
       /\ Command(t, n).type = t /\ Command(t, n).of = n
<1> QED BY OutboxAssumption DEF CommandIds, Command, PassCommands

LEMMA SlotWritten ==
  ASSUME OInv, NEW s \in Slots, NEW row \in SlotRow, slot' = [slot EXCEPT ![s] = row]
  PROVE  /\ slot' \in [Slots -> SlotRow] /\ slot'[s] = row
         /\ \A t \in Slots \ {s} : slot'[t] = slot[t]
<1> QED BY RowFacts

(* Types of the next state, from its parts.                                 *)
LEMMA TypeNext ==
  ASSUME pass' \in Pass, commands' \in [CommandIds -> Row], lost' \subseteq CommandIds,
         slot' \in [Slots -> SlotRow], object' \in [version : 0..MaxChanges, active : BOOLEAN],
         published' \in 0..MaxChanges, faults' \in 0..MaxFaults, late' \subseteq CommandIds
  PROVE  TypeOK'
<1> QED BY DEF TypeOK, Pass, SlotRow

-----------------------------------------------------------------------------
(* What every step leaves behind.                                           *)

Grows ==
  /\ pass'.provider = pass.provider
  /\ pass.version <= pass'.version /\ pass'.version \in 0..MaxChanges
  /\ published <= published' /\ published' \in 0..MaxChanges
  /\ late \subseteq late'
  /\ \A c \in CommandIds : commands[c].status # "ABSENT" => commands'[c].status # "ABSENT"

LEMMA DeliveredStays ==
  ASSUME OInv, Grows, NEW c \in CommandIds, Delivered(c)
  PROVE  Delivered(c)'
<1>1. /\ c.of \in 0..MaxChanges /\ published \in 0..MaxChanges /\ published' \in 0..MaxChanges
      /\ published <= published' /\ pass'.provider = pass.provider
  BY CommandFacts, RowFacts DEF Grows
<1>2. CASE c.type = "APPLE_PUSH" \/ pass.provider = "GOOGLE"
  BY <1>1, <1>2, OutboxAssumption DEF Delivered
<1>3. CASE ~ (c.type = "APPLE_PUSH" \/ pass.provider = "GOOGLE")
  <2>1. ASSUME NEW n \in c.of..MaxChanges, c.type \in {"UPDATE", "INVALIDATE"},
               commands[Command("APPLE_PUSH", n)].status # "ABSENT"
        PROVE  commands'[Command("APPLE_PUSH", n)].status # "ABSENT"
    <3>1. n \in 0..MaxChanges
      BY <2>1, CommandFacts, OutboxAssumption
    <3> QED BY <2>1, <3>1, CommandFacts DEF Grows
  <2> QED BY <1>1, <1>3, <2>1 DEF Delivered
<1> QED BY <1>2, <1>3

(* A slot that does not move keeps what is known of it, if the row of its   *)
(* command is left alone or late.                                           *)
LEMMA SlotStays ==
  ASSUME OInv, Grows, NEW t \in Slots, slot'[t] = slot[t],
         Executing(t) => slot[t].cmd \in late' \/ commands'[slot[t].cmd] = commands[slot[t].cmd]
  PROVE  SlotOK(t)'
<1>1. PICK c \in CommandIds : c = slot[t].cmd
  BY RowFacts
<1>2. SlotOK(t) /\ c.of \in 0..MaxChanges
  BY CommandFacts DEF OInv
<1>3. /\ slot[t].seen.version \in 0..MaxChanges /\ pass.version \in 0..MaxChanges
      /\ published \in 0..MaxChanges
  BY RowFacts
<1>4. slot[t].at = "completing" => Delivered(c)'
  BY <1>1, <1>2, DeliveredStays DEF SlotOK
<1>5. (slot[t].at = "completing" => Delivered(slot[t].cmd))'
  BY <1>1, <1>4 DEF Delivered
<1>6. Executing(t)' /\ slot'[t].cmd \notin late' => Holds(t)'
  BY <1>2 DEF SlotOK, Grows, Executing, Holds
<1>7. slot'[t].seen.version <= pass'.version
  BY <1>2, <1>3, OutboxAssumption DEF SlotOK, Grows
<1>8. slot'[t].at = "called" /\ pass'.provider = "GOOGLE" => published' >= slot'[t].cmd.of
  BY <1>1, <1>2, <1>3, OutboxAssumption DEF SlotOK, Grows
<1>9. slot'[t].at # "idle" => commands'[slot'[t].cmd].status # "ABSENT"
  BY <1>1, <1>2 DEF SlotOK, Grows
<1>10. /\ slot'[t].at \in {"calling", "called", "pushing"} =>
            slot'[t].cmd.type \in PassCommands /\ slot'[t].cmd.of <= slot'[t].seen.version
       /\ slot'[t].at = "pushing" =>
            pass'.provider = "APPLE" /\ slot'[t].cmd.type \in {"UPDATE", "INVALIDATE"}
  BY <1>2 DEF SlotOK, Grows
<1> QED BY <1>5, <1>6, <1>7, <1>8, <1>9, <1>10 DEF SlotOK

(* A command whose row keeps its status, or does not come to an end now.    *)
LEMMA CommandStays ==
  ASSUME OInv, Grows, NEW c \in CommandIds,
         commands'[c].status # "ABSENT" => commands[c].status # "ABSENT",
         commands'[c].status = "COMPLETED" => commands[c].status = "COMPLETED"
  PROVE  CommandOK(c)'
<1>1. CommandOK(c) /\ c.of \in 0..MaxChanges /\ pass.version \in 0..MaxChanges
  BY RowFacts, CommandFacts DEF OInv
<1>2. commands'[c].status # "ABSENT" => c.of <= pass'.version
  BY <1>1, OutboxAssumption DEF CommandOK, Grows
<1>3. commands'[c].status = "COMPLETED" => Delivered(c)'
  BY <1>1, DeliveredStays DEF CommandOK
<1> QED BY <1>2, <1>3 DEF CommandOK

(* Nobody new executes: no two slots come to execute one command.           *)
LEMMA OneExecutionStays ==
  ASSUME OInv, Grows,
         \A t \in Slots : Executing(t)' => Executing(t) /\ slot'[t].cmd = slot[t].cmd
  PROVE  OneExecution'
<1> QED BY DEF OInv, Grows, OneExecution

LEMMA InitOInv == Init => OInv
<1> SUFFICES ASSUME Init PROVE OInv
  OBVIOUS
<1> USE OutboxAssumption
<1>1. /\ pass \in Pass /\ pass.status = "PENDING" /\ pass.version = 0 /\ pass.provider \in Providers
  <2>1. pass \in [provider : Providers, status : {"PENDING"}, credential : {"ACTIVE"},
                  version : {0}, revoked : {FALSE}, wasActive : {FALSE}]
    BY DEF Init
  <2>2. 0 \in 0..MaxChanges /\ FALSE \in BOOLEAN
    OBVIOUS
  <2> QED BY <2>1, <2>2 DEF Pass
<1>2. /\ Absent \in Row /\ Absent.status = "ABSENT"
      /\ Created \in Row /\ Created.status = "PENDING"
  BY DEF Absent, Created, Row
<1>3. /\ commands \in [CommandIds -> Row]
      /\ \A c \in CommandIds :
           /\ commands[c].status # "COMPLETED"
           /\ commands[c].status # "ABSENT" => c.type = "ISSUE"
  BY <1>2 DEF Init
<1>4. \A c \in CommandIds : c.type = "ISSUE" => c.of = 0
  BY DEF CommandIds
<1>5. Unread \in Snapshot /\ Unread.version = 0
  BY DEF Unread, Snapshot
<1>6. /\ Idle \in SlotRow /\ Idle.at = "idle" /\ Idle.seen = Unread
  BY <1>5, CommandFacts DEF Idle, SlotRow, Places
<1>7. slot \in [Slots -> SlotRow] /\ \A s \in Slots : slot[s] = Idle
  BY <1>6 DEF Init
<1>8. TypeOK
  BY <1>1, <1>3, <1>7 DEF Init, TypeOK, Pass, SlotRow
<1>9. published <= pass.version
  BY <1>1 DEF Init
<1>10. \A c \in CommandIds : CommandOK(c)
  BY <1>1, <1>3, <1>4 DEF CommandOK
<1>11. \A s \in Slots : SlotOK(s)
  BY <1>1, <1>5, <1>6, <1>7 DEF SlotOK, Executing
<1>12. OneExecution /\ NeverReactivated
  BY <1>1, <1>6, <1>7 DEF OneExecution, Executing, NeverReactivated
<1> QED BY <1>8, <1>9, <1>10, <1>11, <1>12 DEF OInv

-----------------------------------------------------------------------------
(* The writers of commands append one, and may give others up.              *)

LEMMA ApiStep ==
  ASSUME OInv, NEW new \in CommandIds, commands[new].status = "ABSENT",
         new.of <= pass'.version,
         pass' \in Pass, pass'.provider = pass.provider, pass.version <= pass'.version,
         commands' \in [CommandIds -> Row], commands'[new].status = "PENDING",
         \A c \in CommandIds \ {new} :
            \/ commands'[c] = commands[c]
            \/ /\ commands[c].status \in {"PENDING", "FAILED"}
               /\ commands'[c].status = "DEAD_LETTER",
         NeverReactivated', UNCHANGED <<lost, slot, shown, faults, late>>
  PROVE  OInv'
<1>1. UNCHANGED <<lost, slot, object, published, faults, late>>
  BY DEF shown
<1>2. /\ pass.version \in 0..MaxChanges /\ pass'.version \in 0..MaxChanges
      /\ published \in 0..MaxChanges
  BY RowFacts DEF Pass
<1>3. Grows
  BY <1>1, <1>2, OutboxAssumption DEF Grows
<1>4. TypeOK'
  BY <1>1, RowFacts, TypeNext
<1>5. published' <= pass'.version
  BY <1>1, <1>2, OutboxAssumption DEF OInv
<1>6. \A c \in CommandIds : CommandOK(c)'
  <2> SUFFICES ASSUME NEW c \in CommandIds PROVE CommandOK(c)'
    OBVIOUS
  <2>1. CASE c = new
    BY <1>2, <2>1, OutboxAssumption DEF CommandOK
  <2>2. CASE c # new
    <3>1. /\ commands'[c].status # "ABSENT" => commands[c].status # "ABSENT"
          /\ commands'[c].status = "COMPLETED" => commands[c].status = "COMPLETED"
      BY <2>2
    <3> QED BY <1>3, <3>1, CommandStays
  <2> QED BY <2>1, <2>2
<1>7. \A t \in Slots : SlotOK(t)'
  <2> SUFFICES ASSUME NEW t \in Slots PROVE SlotOK(t)'
    OBVIOUS
  <2>1. ASSUME Executing(t), slot[t].cmd \notin late
        PROVE  commands'[slot[t].cmd] = commands[slot[t].cmd]
    <3>1. /\ commands[slot[t].cmd].status = "PROCESSING" /\ slot[t].cmd \in CommandIds
      BY <2>1, RowFacts DEF OInv, SlotOK, Holds
    <3>2. slot[t].cmd # new
      BY <3>1
    <3> QED BY <3>1, <3>2
  <2>2. slot'[t] = slot[t]
    BY <1>1
  <2> QED BY <1>1, <1>3, <2>1, <2>2, SlotStays
<1>8. OneExecution'
  BY <1>1, <1>3, OneExecutionStays DEF Executing
<1> QED BY <1>4, <1>5, <1>6, <1>7, <1>8 DEF OInv

LEMMA CreatedIs == Created \in Row /\ Created.status = "PENDING"
<1> QED BY DEF Created, Absent, Row

(* No command belongs to a version the pass has not reached.                *)
LEMMA NextIsAbsent ==
  ASSUME OInv, NEW c \in CommandIds, c.of = pass.version + 1
  PROVE  commands[c].status = "ABSENT"
<1>1. pass.version \in 0..MaxChanges
  BY RowFacts
<1>2. commands[c].status # "ABSENT" => c.of <= pass.version
  BY DEF OInv, CommandOK
<1> QED BY <1>1, <1>2, OutboxAssumption

LEMMA QueuesRow ==
  ASSUME OInv, NEW type \in {"UPDATE", "RECONCILE", "INVALIDATE"}, Queues(type)
  PROVE  /\ commands' \in [CommandIds -> Row]
         /\ \E new \in CommandIds :
              /\ new.of = pass.version + 1 /\ commands[new].status = "ABSENT"
              /\ commands'[new].status = "PENDING"
              /\ \A c \in CommandIds \ {new} : commands'[c] = commands[c]
         /\ pass.version + 1 \in 1..MaxChanges
<1>1. pass.version + 1 \in 1..MaxChanges
  BY RowFacts, OutboxAssumption DEF Queues
<1>2. PICK new \in CommandIds : new = Command(type, pass.version + 1) /\ new.of = pass.version + 1
  BY <1>1, CommandFacts
<1>3. commands' = [commands EXCEPT ![new] = Created]
  BY <1>2 DEF Queues
<1> QED BY <1>1, <1>2, <1>3, RowFacts, CreatedIs, NextIsAbsent

(* Whatever else it writes, a writer that queues leaves the pass pending.   *)
LEMMA QueueStep ==
  ASSUME OInv, NEW type \in {"UPDATE", "RECONCILE", "INVALIDATE"}, Queues(type),
         NEW status \in {"UPDATE_PENDING", "INVALIDATION_PENDING"},
         NEW credential \in {"ACTIVE", "TRANSFERRED", "REVOKED"}, NEW revoked \in BOOLEAN,
         pass' = [pass EXCEPT !.status = status, !.credential = credential,
                              !.version = pass.version + 1, !.revoked = revoked],
         UNCHANGED <<lost, slot, shown, faults, late>>
  PROVE  OInv'
<1>1. PICK new \in CommandIds :
        /\ new.of = pass.version + 1 /\ commands[new].status = "ABSENT"
        /\ commands'[new].status = "PENDING"
        /\ \A c \in CommandIds \ {new} : commands'[c] = commands[c]
  BY QueuesRow
<1>2. commands' \in [CommandIds -> Row]
  BY QueuesRow
<1>3. /\ pass' \in Pass /\ pass'.provider = pass.provider /\ pass'.version = pass.version + 1
      /\ pass'.status = status
  <2>1. pass \in Pass /\ pass.version + 1 \in 0..MaxChanges
    BY RowFacts, QueuesRow, OutboxAssumption
  <2> QED BY <2>1 DEF Pass
<1>4. NeverReactivated'
  BY <1>3 DEF NeverReactivated
<1>5. new.of <= pass'.version /\ pass.version <= pass'.version
  BY <1>1, <1>3, RowFacts, OutboxAssumption
<1> QED BY <1>1, <1>2, <1>3, <1>4, <1>5, ApiStep

LEMMA PassIs ==
  ASSUME OInv
  PROVE  /\ pass.credential \in {"ACTIVE", "TRANSFERRED", "REVOKED"} /\ pass.revoked \in BOOLEAN
         /\ Revoked \in {"ACTIVE", "TRANSFERRED", "REVOKED"}
         /\ \A st, n : [pass EXCEPT !.status = st, !.version = n] =
                         [pass EXCEPT !.status = st, !.credential = pass.credential,
                                      !.version = n, !.revoked = pass.revoked]
<1>1. pass \in Pass
  BY RowFacts
<1> QED BY <1>1 DEF Pass, Revoked

LEMMA OperationStep == OInv /\ Operation => OInv'
<1> SUFFICES ASSUME OInv, Operation PROVE OInv'
  OBVIOUS
<1>1. /\ Queues("UPDATE")
      /\ pass' = [pass EXCEPT !.status = "UPDATE_PENDING", !.version = pass.version + 1]
      /\ UNCHANGED <<lost, slot, shown, faults, late>>
  BY DEF Operation
<1>2. pass' = [pass EXCEPT !.status = "UPDATE_PENDING", !.credential = pass.credential,
                           !.version = pass.version + 1, !.revoked = pass.revoked]
  BY <1>1, PassIs
<1> QED BY <1>1, <1>2, PassIs, QueueStep

LEMMA SyncJobStep ==
  ASSUME OInv, NEW type \in {"UPDATE", "RECONCILE", "INVALIDATE"}, SyncJob(type)
  PROVE  OInv'
<1>1. PICK status \in {"UPDATE_PENDING", "INVALIDATION_PENDING"} :
        pass' = [pass EXCEPT !.status = status, !.version = pass.version + 1]
  BY DEF SyncJob
<1>2. Queues(type) /\ UNCHANGED <<lost, slot, shown, faults, late>>
  BY DEF SyncJob
<1>3. pass' = [pass EXCEPT !.status = status, !.credential = pass.credential,
                           !.version = pass.version + 1, !.revoked = pass.revoked]
  BY <1>1, PassIs
<1> QED BY <1>2, <1>3, PassIs, QueueStep

LEMMA RevokeStep == OInv /\ (Revoke \/ Erase) => OInv'
<1> SUFFICES ASSUME OInv, Revoke \/ Erase PROVE OInv'
  OBVIOUS
<1>1. /\ Queues("INVALIDATE")
      /\ pass' = [pass EXCEPT !.status = "INVALIDATION_PENDING", !.credential = Revoked,
                              !.version = pass.version + 1, !.revoked = TRUE]
      /\ UNCHANGED <<lost, slot, shown, faults, late>>
  BY DEF Revoke, Erase
<1> QED BY <1>1, PassIs, QueueStep

(* A patch leaves the row of the pass alone.                                *)
LEMMA PatchStep ==
  ASSUME OInv, NEW c \in Patches, Patch(c)
  PROVE  OInv'
<1>1. c \in CommandIds /\ c.of = 0
  BY CommandFacts, OutboxAssumption DEF Patches
<1>2. /\ commands[c].status = "ABSENT" /\ commands' = [commands EXCEPT ![c] = Created]
      /\ UNCHANGED <<pass, lost, slot, shown, faults, late>>
  BY DEF Patch
<1>3. /\ commands' \in [CommandIds -> Row] /\ commands'[c].status = "PENDING"
      /\ \A d \in CommandIds \ {c} : commands'[d] = commands[d]
  BY <1>1, <1>2, RowFacts, CreatedIs
<1>4. /\ pass' \in Pass /\ pass'.provider = pass.provider /\ pass.version <= pass'.version
      /\ c.of <= pass'.version
  BY <1>1, <1>2, RowFacts, OutboxAssumption
<1>5. NeverReactivated'
  BY <1>2 DEF OInv, NeverReactivated
<1> QED BY <1>1, <1>2, <1>3, <1>4, <1>5, ApiStep

LEMMA TransferStep == OInv /\ Transfer => OInv'
<1> SUFFICES ASSUME OInv, Transfer PROVE OInv'
  OBVIOUS
<1>1. pass.version + 1 \in 1..MaxChanges
  BY RowFacts, OutboxAssumption DEF Transfer
<1>2. PICK new \in CommandIds :
        new = Command("INVALIDATE", pass.version + 1) /\ new.of = pass.version + 1
  BY <1>1, CommandFacts
<1>3. /\ commands' = [c \in CommandIds |->
                        IF c = new THEN Created
                        ELSE IF Superseded(c) THEN [commands[c] EXCEPT !.status = "DEAD_LETTER"]
                        ELSE commands[c]]
      /\ pass' = [pass EXCEPT !.status = "INVALIDATION_PENDING", !.credential = "TRANSFERRED",
                              !.version = pass.version + 1]
      /\ UNCHANGED <<lost, slot, shown, faults, late>>
  BY <1>2 DEF Transfer
<1>4. /\ pass' \in Pass /\ pass'.provider = pass.provider /\ pass'.version = pass.version + 1
      /\ pass'.status = "INVALIDATION_PENDING"
  <2>1. pass \in Pass /\ pass.version + 1 \in 0..MaxChanges
    BY <1>1, RowFacts, OutboxAssumption
  <2> QED BY <1>3, <2>1 DEF Pass
<1>5. NeverReactivated'
  BY <1>4 DEF NeverReactivated
<1>6. \A c \in CommandIds :
        /\ [commands[c] EXCEPT !.status = "DEAD_LETTER"] \in Row
        /\ [commands[c] EXCEPT !.status = "DEAD_LETTER"].status = "DEAD_LETTER"
        /\ commands[c] \in Row
  BY RowFacts DEF Row
<1>7. /\ commands' \in [CommandIds -> Row] /\ commands'[new].status = "PENDING"
      /\ \A c \in CommandIds \ {new} :
           \/ commands'[c] = commands[c]
           \/ /\ commands[c].status \in {"PENDING", "FAILED"}
              /\ commands'[c].status = "DEAD_LETTER"
  BY <1>3, <1>6, CreatedIs DEF Superseded
<1>8. /\ commands[new].status = "ABSENT" /\ new.of <= pass'.version
      /\ pass.version <= pass'.version
  BY <1>2, <1>4, NextIsAbsent, RowFacts, OutboxAssumption
<1> QED BY <1>3, <1>4, <1>5, <1>7, <1>8, ApiStep

-----------------------------------------------------------------------------
(* Redis and the clock.                                                     *)

LEMMA SignalStep ==
  ASSUME OInv, NEW c \in CommandIds, SignalLost(c) \/ SignalExpires(c)
  PROVE  OInv'
<1>1. /\ UNCHANGED <<pass, commands, slot, object, published, late>>
      /\ lost' \subseteq CommandIds /\ faults' \in 0..MaxFaults
  BY RowFacts, OutboxAssumption DEF SignalLost, SignalExpires, shown
<1>2. Grows
  BY <1>1, RowFacts, OutboxAssumption DEF Grows
<1>3. TypeOK'
  BY <1>1, RowFacts, TypeNext
<1>4. \A d \in CommandIds : CommandOK(d)'
  BY <1>1, <1>2, CommandStays
<1>5. \A t \in Slots : SlotOK(t)'
  BY <1>1, <1>2, SlotStays
<1>6. OneExecution'
  BY <1>1, <1>2, OneExecutionStays DEF Executing
<1> QED BY <1>1, <1>3, <1>4, <1>5, <1>6 DEF OInv, NeverReactivated

(* A lease that runs out under somebody at work makes the command late.     *)
LEMMA LeaseExpiresStep ==
  ASSUME OInv, NEW c \in CommandIds, LeaseExpires(c)
  PROVE  OInv'
<1> DEFINE row == [commands[c] EXCEPT !.leased = FALSE]
<1>1. /\ commands[c].status = "PROCESSING"
      /\ commands' = [commands EXCEPT ![c] = row]
      /\ UNCHANGED <<pass, lost, slot, object, published>>
      /\ late' = IF AtWork(c) THEN late \cup {c} ELSE late
      /\ faults' \in 0..MaxFaults
  BY RowFacts, OutboxAssumption DEF LeaseExpires, shown
<1>2. row \in Row /\ row.status = "PROCESSING"
  BY <1>1, RowFacts DEF Row
<1> HIDE DEF row
<1>3. /\ commands' \in [CommandIds -> Row]
      /\ \A d \in CommandIds :
           /\ commands'[d].status = commands[d].status
           /\ d # c => commands'[d] = commands[d]
  BY <1>1, <1>2, RowFacts
<1>4. late \subseteq late' /\ late' \subseteq CommandIds
  BY <1>1, RowFacts
<1>5. Grows
  BY <1>1, <1>3, <1>4, RowFacts, OutboxAssumption DEF Grows
<1>6. TypeOK'
  BY <1>1, <1>3, <1>4, RowFacts, TypeNext
<1>7. \A d \in CommandIds : CommandOK(d)'
  BY <1>3, <1>5, CommandStays
<1>8. \A t \in Slots : SlotOK(t)'
  <2> SUFFICES ASSUME NEW t \in Slots PROVE SlotOK(t)'
    OBVIOUS
  <2>1. ASSUME Executing(t), slot[t].cmd \notin late'
        PROVE  commands'[slot[t].cmd] = commands[slot[t].cmd]
    <3>1. slot[t].cmd \notin late /\ Holds(t) /\ slot[t].cmd \in CommandIds
      BY <1>4, <2>1, RowFacts DEF OInv, SlotOK
    <3>2. slot[t].cmd # c
      BY <1>1, <2>1, <3>1 DEF AtWork, Holds
    <3> QED BY <1>3, <3>1, <3>2
  <2> QED BY <1>1, <1>5, <2>1, SlotStays
<1>9. OneExecution'
  BY <1>1, <1>5, OneExecutionStays DEF Executing
<1> QED BY <1>1, <1>6, <1>7, <1>8, <1>9 DEF OInv, NeverReactivated

-----------------------------------------------------------------------------
(* The steps of a slot that leave the commands alone.                       *)

LEMMA MoveStep ==
  ASSUME OInv, NEW s \in Slots, NEW row \in SlotRow, slot' = [slot EXCEPT ![s] = row],
         UNCHANGED <<commands, lost, late>>,
         row.at \notin {"idle", "popped"} =>
            Executing(s) /\ row.cmd = slot[s].cmd /\ row.attempt = slot[s].attempt,
         pass' \in Pass, pass'.provider = pass.provider, pass'.version = pass.version,
         published <= published', published' <= pass.version, published' \in 0..MaxChanges,
         object' \in [version : 0..MaxChanges, active : BOOLEAN], faults' \in 0..MaxFaults,
         NeverReactivated',
         row.seen.version <= pass.version,
         row.at # "idle" => commands[row.cmd].status # "ABSENT",
         row.at \in {"calling", "called", "pushing"} =>
            row.cmd.type \in PassCommands /\ row.cmd.of <= row.seen.version,
         row.at = "called" /\ pass.provider = "GOOGLE" => published' >= row.cmd.of,
         row.at = "pushing" =>
            pass.provider = "APPLE" /\ row.cmd.type \in {"UPDATE", "INVALIDATE"},
         (slot[s].at = "completing" => Delivered(slot[s].cmd))'
  PROVE  OInv'
<1>1. /\ slot' \in [Slots -> SlotRow] /\ slot'[s] = row
      /\ \A t \in Slots \ {s} : slot'[t] = slot[t]
  BY SlotWritten
<1>2. Grows
  BY RowFacts, OutboxAssumption DEF Grows
<1>3. TypeOK'
  BY <1>1, RowFacts, TypeNext
<1>4. \A c \in CommandIds : CommandOK(c)'
  BY <1>2, CommandStays
<1>5. \A t \in Slots \ {s} : SlotOK(t)'
  BY <1>1, <1>2, SlotStays
<1>6. SlotOK(s)'
  <2>1. Executing(s)' /\ slot'[s].cmd \notin late' => Holds(s)'
    BY <1>1 DEF OInv, SlotOK, Executing, Holds
  <2> QED BY <1>1, <2>1 DEF SlotOK
<1>7. OneExecution'
  BY <1>1, <1>2, OneExecutionStays DEF Executing
<1>8. \A t \in Slots : SlotOK(t)'
  BY <1>5, <1>6
<1>9. published' <= pass'.version
  OBVIOUS
<1> QED BY <1>3, <1>4, <1>7, <1>8, <1>9 DEF OInv

(* What is known of the slot that moves, before it does.                    *)
LEMMA SlotNow ==
  ASSUME OInv, NEW s \in Slots
  PROVE  /\ slot[s] \in SlotRow /\ slot[s].cmd \in CommandIds /\ slot[s].at \in Places
         /\ slot[s].cmd.of \in 0..MaxChanges
         /\ slot[s].seen \in Snapshot /\ slot[s].seen.version \in 0..MaxChanges
         /\ slot[s].seen.version <= pass.version
         /\ SlotOK(s)
         /\ pass \in Pass /\ pass.version \in 0..MaxChanges
         /\ published \in 0..MaxChanges /\ published <= pass.version
         /\ commands[slot[s].cmd] \in Row
         /\ commands[slot[s].cmd].status # "ABSENT" => slot[s].cmd.of <= pass.version
<1>1. slot[s] \in SlotRow /\ slot[s].cmd \in CommandIds /\ slot[s].seen \in Snapshot
  BY RowFacts
<1>2. slot[s].at \in Places
  BY <1>1 DEF SlotRow
<1> QED BY <1>1, <1>2, RowFacts, CommandFacts DEF OInv, SlotOK, CommandOK

LEMMA UnreadIs == Unread \in Snapshot /\ Unread.version = 0
<1> QED BY OutboxAssumption DEF Unread, Snapshot

LEMMA IdleIs == Idle \in SlotRow /\ Idle.at = "idle" /\ Idle.seen.version = 0
<1> QED BY UnreadIs, CommandFacts DEF Idle, SlotRow, Places

(* What a step leaves alone stays as it should be.                          *)
LEMMA Still ==
  ASSUME OInv
  PROVE  /\ UNCHANGED pass =>
              /\ pass' \in Pass /\ pass'.provider = pass.provider
              /\ pass'.version = pass.version /\ NeverReactivated'
         /\ UNCHANGED published =>
              /\ published <= published' /\ published' <= pass.version
              /\ published' \in 0..MaxChanges
         /\ UNCHANGED object => object' \in [version : 0..MaxChanges, active : BOOLEAN]
         /\ UNCHANGED faults => faults' \in 0..MaxFaults
<1>1. UNCHANGED pass =>
        /\ pass' \in Pass /\ pass'.provider = pass.provider
        /\ pass'.version = pass.version
  BY RowFacts
<1>2. UNCHANGED pass => NeverReactivated'
  BY DEF OInv, NeverReactivated
<1>3. UNCHANGED published =>
        /\ published <= published' /\ published' <= pass.version
        /\ published' \in 0..MaxChanges
  BY RowFacts, OutboxAssumption DEF OInv
<1>4. /\ UNCHANGED object => object' \in [version : 0..MaxChanges, active : BOOLEAN]
      /\ UNCHANGED faults => faults' \in 0..MaxFaults
  BY RowFacts
<1> QED BY <1>1, <1>2, <1>3, <1>4

LEMMA FaultCounted ==
  ASSUME OInv, faults < MaxFaults, faults' = faults + 1
  PROVE  faults' \in 0..MaxFaults
<1>1. faults \in 0..MaxFaults /\ MaxFaults \in Nat
  BY RowFacts, OutboxAssumption
<1> QED BY <1>1

LEMMA PopStep ==
  ASSUME OInv, NEW s \in Slots, NEW c \in CommandIds, Pop(s, c)
  PROVE  OInv'
<1> DEFINE row == [slot[s] EXCEPT !.at = "popped", !.cmd = c]
<1>1. /\ slot' = [slot EXCEPT ![s] = row] /\ commands[c].status # "ABSENT"
      /\ UNCHANGED <<pass, commands, lost, object, published, faults, late>>
  BY DEF Pop, Due, shown
<1>2. /\ row \in SlotRow /\ row.at = "popped" /\ row.cmd = c /\ row.seen = slot[s].seen
  BY SlotNow DEF SlotRow, Places
<1> HIDE DEF row
<1>3. slot'[s] = row
  BY <1>1, <1>2, SlotWritten
<1>4. NeverReactivated'
  BY <1>1 DEF OInv, NeverReactivated
<1>5. (slot[s].at = "completing" => Delivered(slot[s].cmd))'
  BY <1>2, <1>3
<1> QED BY <1>1, <1>2, <1>4, <1>5, SlotNow, Still, MoveStep

(* A slot becomes idle: the claim came too late, or the process died.       *)
LEMMA IdleStep ==
  ASSUME OInv, NEW s \in Slots, slot' = [slot EXCEPT ![s] = Idle], faults' \in 0..MaxFaults,
         UNCHANGED <<pass, commands, lost, object, published, late>>
  PROVE  OInv'
<1>1. slot'[s] = Idle
  BY IdleIs, SlotWritten
<1>2. NeverReactivated'
  BY DEF OInv, NeverReactivated
<1>3. (slot[s].at = "completing" => Delivered(slot[s].cmd))'
  BY <1>1, IdleIs
<1>4. /\ pass' \in Pass /\ pass'.provider = pass.provider /\ pass'.version = pass.version
      /\ published <= published' /\ published' <= pass.version /\ published' \in 0..MaxChanges
      /\ object' \in [version : 0..MaxChanges, active : BOOLEAN] /\ faults' \in 0..MaxFaults
      /\ NeverReactivated'
  BY <1>2, <1>3, Still
<1>5. /\ Idle.at \notin {"idle", "popped"} =>
           Executing(s) /\ Idle.cmd = slot[s].cmd /\ Idle.attempt = slot[s].attempt
      /\ Idle.seen.version <= pass.version
      /\ Idle.at # "idle" => commands[Idle.cmd].status # "ABSENT"
      /\ Idle.at \in {"calling", "called", "pushing"} =>
           Idle.cmd.type \in PassCommands /\ Idle.cmd.of <= Idle.seen.version
      /\ Idle.at = "called" /\ pass.provider = "GOOGLE" => published' >= Idle.cmd.of
      /\ Idle.at = "pushing" =>
           pass.provider = "APPLE" /\ Idle.cmd.type \in {"UPDATE", "INVALIDATE"}
  BY IdleIs, SlotNow
<1> QED BY <1>2, <1>3, IdleIs, <1>4, <1>5, MoveStep

LEMMA ReadPassStep ==
  ASSUME OInv, NEW s \in Slots, ReadPass(s)
  PROVE  OInv'
<1> DEFINE seen == [version |-> pass.version, credential |-> pass.credential]
<1>1. PICK place \in {"refused", "calling", "called"} :
        /\ slot' = [slot EXCEPT ![s] = [slot[s] EXCEPT !.seen = seen, !.at = place]]
        /\ place = "called" => pass.provider # "GOOGLE"
  BY DEF ReadPass
<1>2. /\ slot[s].at = "claimed" /\ slot[s].cmd.type \in PassCommands
      /\ UNCHANGED <<pass, commands, lost, object, published, faults, late>>
  BY DEF ReadPass, shown
<1>3. seen \in Snapshot /\ seen.version = pass.version
  BY SlotNow DEF Snapshot, Pass
<1> HIDE DEF seen
<1> DEFINE row == [slot[s] EXCEPT !.seen = seen, !.at = place]
<1>4. /\ row \in SlotRow /\ row.at = place /\ row.cmd = slot[s].cmd
      /\ row.attempt = slot[s].attempt /\ row.seen = seen
  BY <1>3, SlotNow DEF SlotRow, Places
<1>5. slot' = [slot EXCEPT ![s] = row]
  BY <1>1
<1> HIDE DEF row
<1>6. slot'[s] = row
  BY <1>4, <1>5, SlotWritten
<1>7. NeverReactivated'
  BY <1>2 DEF OInv, NeverReactivated
<1>8. (slot[s].at = "completing" => Delivered(slot[s].cmd))'
  BY <1>4, <1>6
<1>9. commands[row.cmd].status # "ABSENT" /\ row.cmd.of <= pass.version /\ Executing(s)
  BY <1>2, <1>4, SlotNow DEF SlotOK, Executing
<1>10. /\ pass' \in Pass /\ pass'.provider = pass.provider /\ pass'.version = pass.version
       /\ published <= published' /\ published' <= pass.version /\ published' \in 0..MaxChanges
       /\ object' \in [version : 0..MaxChanges, active : BOOLEAN] /\ faults' \in 0..MaxFaults
       /\ NeverReactivated'
  BY <1>2, <1>3, <1>4, <1>5, <1>7, <1>8, <1>9, Still
<1>11. /\ row.at \notin {"idle", "popped"} =>
            Executing(s) /\ row.cmd = slot[s].cmd /\ row.attempt = slot[s].attempt
       /\ row.seen.version <= pass.version
       /\ row.at # "idle" => commands[row.cmd].status # "ABSENT"
       /\ row.at \in {"calling", "called", "pushing"} =>
            row.cmd.type \in PassCommands /\ row.cmd.of <= row.seen.version
       /\ row.at = "called" /\ pass.provider = "GOOGLE" => published' >= row.cmd.of
       /\ row.at = "pushing" =>
            pass.provider = "APPLE" /\ row.cmd.type \in {"UPDATE", "INVALIDATE"}
  BY <1>1, <1>2, <1>3, <1>4, <1>9, SlotNow
<1> QED BY <1>2, <1>3, <1>4, <1>5, <1>7, <1>8, <1>9, <1>10, <1>11, MoveStep

LEMMA CallProviderStep ==
  ASSUME OInv, NEW s \in Slots, CallProvider(s)
  PROVE  OInv'
<1> DEFINE row == [slot[s] EXCEPT !.at = "called"]
<1>1. /\ slot[s].at = "calling" /\ slot' = [slot EXCEPT ![s] = row]
      /\ UNCHANGED <<pass, commands, lost, faults, late>>
  BY DEF CallProvider, Goes
<1>2. /\ row \in SlotRow /\ row.at = "called" /\ row.cmd = slot[s].cmd
      /\ row.attempt = slot[s].attempt /\ row.seen = slot[s].seen
  BY SlotNow DEF SlotRow, Places
<1> HIDE DEF row
<1>3. /\ slot[s].cmd.type \in PassCommands /\ slot[s].cmd.of <= slot[s].seen.version
      /\ commands[slot[s].cmd].status # "ABSENT" /\ Executing(s)
  BY <1>1, SlotNow DEF SlotOK, Executing
<1>4. /\ published <= published' /\ published' <= pass.version /\ published' \in 0..MaxChanges
      /\ published' >= slot[s].cmd.of
      /\ object' \in [version : 0..MaxChanges, active : BOOLEAN]
  <2>1. /\ published' = Newest(published, slot[s].seen.version)
        /\ object' = [version |-> slot[s].seen.version,
                      active |-> slot[s].cmd.type # "INVALIDATE"
                                   /\ slot[s].seen.credential = "ACTIVE"]
    BY DEF CallProvider
  <2>2. object' \in [version : 0..MaxChanges, active : BOOLEAN]
    BY <2>1, SlotNow
  <2>3. /\ published <= published' /\ published' <= pass.version
        /\ published' \in 0..MaxChanges /\ published' >= slot[s].cmd.of
    BY <1>3, <2>1, SlotNow, OutboxAssumption DEF Newest
  <2> QED BY <2>2, <2>3
<1>5. slot'[s] = row
  BY <1>1, <1>2, SlotWritten
<1>6. NeverReactivated'
  BY <1>1 DEF OInv, NeverReactivated
<1>7. (slot[s].at = "completing" => Delivered(slot[s].cmd))'
  BY <1>2, <1>5
<1> QED BY <1>1, <1>2, <1>3, <1>4, <1>6, <1>7, SlotNow, Still, MoveStep

LEMMA PushStep ==
  ASSUME OInv, NEW s \in Slots, Push(s)
  PROVE  OInv'
<1> DEFINE row == [slot[s] EXCEPT !.at = "completing"]
<1>1. /\ slot[s].at = "claimed" /\ slot[s].cmd.type = "APPLE_PUSH"
      /\ published' = pass.version /\ slot' = [slot EXCEPT ![s] = row]
      /\ UNCHANGED <<pass, commands, lost, object, faults, late>>
  BY DEF Push, Goes
<1>2. /\ row \in SlotRow /\ row.at = "completing" /\ row.cmd = slot[s].cmd
      /\ row.attempt = slot[s].attempt /\ row.seen = slot[s].seen
  BY SlotNow DEF SlotRow, Places
<1> HIDE DEF row
<1>3. /\ commands[slot[s].cmd].status # "ABSENT" /\ slot[s].cmd.of <= pass.version /\ Executing(s)
  BY <1>1, SlotNow DEF SlotOK, Executing
<1>4. slot'[s] = row
  BY <1>1, <1>2, SlotWritten
<1>5. (slot[s].at = "completing" => Delivered(slot[s].cmd))'
  BY <1>1, <1>2, <1>3, <1>4, SlotNow DEF Delivered
<1>6. NeverReactivated'
  BY <1>1 DEF OInv, NeverReactivated
<1>7. /\ pass' \in Pass /\ pass'.provider = pass.provider /\ pass'.version = pass.version
      /\ published <= published' /\ published' <= pass.version /\ published' \in 0..MaxChanges
      /\ object' \in [version : 0..MaxChanges, active : BOOLEAN] /\ faults' \in 0..MaxFaults
      /\ NeverReactivated'
  <2>1. published <= published' /\ published' <= pass.version /\ published' \in 0..MaxChanges
    BY <1>1, SlotNow, OutboxAssumption
  <2> QED BY <1>1, <2>1, Still
<1>8. /\ row.at \notin {"idle", "popped"} =>
           Executing(s) /\ row.cmd = slot[s].cmd /\ row.attempt = slot[s].attempt
      /\ row.seen.version <= pass.version
      /\ row.at # "idle" => commands[row.cmd].status # "ABSENT"
      /\ row.at \in {"calling", "called", "pushing"} =>
           row.cmd.type \in PassCommands /\ row.cmd.of <= row.seen.version
      /\ row.at = "called" /\ pass.provider = "GOOGLE" => published' >= row.cmd.of
      /\ row.at = "pushing" =>
           pass.provider = "APPLE" /\ row.cmd.type \in {"UPDATE", "INVALIDATE"}
  BY <1>1, <1>2, <1>3, SlotNow
<1> QED BY <1>1, <1>2, <1>3, <1>5, <1>6, <1>7, <1>8, MoveStep

(* The result is written under a guard: a retired pass stays retired.       *)
LEMMA RecordStep ==
  ASSUME OInv, NEW s \in Slots, Record(s)
  PROVE  OInv'
<1>1. PICK st : st = RecordedStatus(s)
  OBVIOUS
<1>2. /\ slot[s].at = "called"
      /\ pass' = [pass EXCEPT !.status = st, !.wasActive = pass.wasActive \/ st = "ACTIVE"]
      /\ UNCHANGED <<commands, lost, object, published, faults, late>>
  BY <1>1 DEF Record, shown
<1>3. \/ st = "INVALIDATED"
      \/ st = IF Alive THEN "ACTIVE" ELSE pass.status
  BY <1>1 DEF RecordedStatus
<1>4. /\ pass' \in Pass /\ pass'.provider = pass.provider /\ pass'.version = pass.version
      /\ pass'.credential = pass.credential /\ pass'.status = st
  BY <1>2, <1>3, SlotNow DEF Pass
<1>5. NeverReactivated'
  BY <1>3, <1>4 DEF OInv, NeverReactivated, Alive
<1>6. /\ slot[s].cmd.type \in PassCommands /\ slot[s].cmd.of <= slot[s].seen.version
      /\ commands[slot[s].cmd].status # "ABSENT" /\ Executing(s)
      /\ pass.provider = "GOOGLE" => published >= slot[s].cmd.of
  BY <1>2, SlotNow DEF SlotOK, Executing
<1>7. CASE pass.provider = "APPLE" /\ slot[s].cmd.type \in {"UPDATE", "INVALIDATE"}
  <2> DEFINE row == [slot[s] EXCEPT !.at = "pushing"]
  <2>1. slot' = [slot EXCEPT ![s] = row]
    BY <1>7 DEF Record, Goes
  <2>2. /\ row \in SlotRow /\ row.at = "pushing" /\ row.cmd = slot[s].cmd
        /\ row.attempt = slot[s].attempt /\ row.seen = slot[s].seen
    BY SlotNow DEF SlotRow, Places
  <2> HIDE DEF row
  <2>3. slot'[s] = row
    BY <2>1, <2>2, SlotWritten
  <2>4. (slot[s].at = "completing" => Delivered(slot[s].cmd))'
    BY <2>2, <2>3
  <2> QED BY <1>2, <1>4, <1>5, <1>6, <1>7, <2>1, <2>2, <2>4, SlotNow, Still, MoveStep
<1>8. CASE ~ (pass.provider = "APPLE" /\ slot[s].cmd.type \in {"UPDATE", "INVALIDATE"})
  <2> DEFINE row == [slot[s] EXCEPT !.at = "completing", !.seen = Unread]
  <2>1. slot' = [slot EXCEPT ![s] = row]
    BY <1>8 DEF Record, Leaves
  <2>2. /\ row \in SlotRow /\ row.at = "completing" /\ row.cmd = slot[s].cmd
        /\ row.attempt = slot[s].attempt /\ row.seen.version = 0
    BY SlotNow, UnreadIs DEF SlotRow, Places
  <2> HIDE DEF row
  <2>3. slot'[s] = row
    BY <2>1, <2>2, SlotWritten
  <2>4. pass.provider \in {"APPLE", "GOOGLE"}
    BY SlotNow, OutboxAssumption DEF Pass
  <2>5. (slot[s].at = "completing" => Delivered(slot[s].cmd))'
    BY <1>2, <1>4, <1>6, <1>8, <2>2, <2>3, <2>4 DEF Delivered, PassCommands
  <2>6. /\ pass' \in Pass /\ pass'.provider = pass.provider /\ pass'.version = pass.version
        /\ published <= published' /\ published' <= pass.version /\ published' \in 0..MaxChanges
        /\ object' \in [version : 0..MaxChanges, active : BOOLEAN] /\ faults' \in 0..MaxFaults
        /\ NeverReactivated'
    BY <1>2, <1>4, <1>5, <1>6, <2>1, <2>2, <2>5, Still
  <2>7. /\ row.at \notin {"idle", "popped"} =>
             Executing(s) /\ row.cmd = slot[s].cmd /\ row.attempt = slot[s].attempt
        /\ row.seen.version <= pass.version
        /\ row.at # "idle" => commands[row.cmd].status # "ABSENT"
        /\ row.at \in {"calling", "called", "pushing"} =>
             row.cmd.type \in PassCommands /\ row.cmd.of <= row.seen.version
        /\ row.at = "called" /\ pass.provider = "GOOGLE" => published' >= row.cmd.of
        /\ row.at = "pushing" =>
             pass.provider = "APPLE" /\ row.cmd.type \in {"UPDATE", "INVALIDATE"}
    BY <1>2, <1>6, <2>2, SlotNow
  <2> QED BY <1>2, <1>4, <1>5, <1>6, <2>1, <2>2, <2>5, <2>6, <2>7, MoveStep
<1> QED BY <1>7, <1>8

LEMMA ThrowsStep ==
  ASSUME OInv, NEW s \in Slots, Throws(s)
  PROVE  OInv'
<1> DEFINE row == [slot[s] EXCEPT !.at = "failing", !.seen = Unread]
<1>1. /\ slot[s].at \in {"claimed", "calling", "called", "pushing", "completing"}
      /\ slot' = [slot EXCEPT ![s] = row] /\ faults' \in 0..MaxFaults
      /\ UNCHANGED <<pass, commands, lost, object, published, late>>
  BY FaultCounted DEF Throws, Leaves, shown
<1>2. /\ row \in SlotRow /\ row.at = "failing" /\ row.cmd = slot[s].cmd
      /\ row.attempt = slot[s].attempt /\ row.seen.version = 0
  BY SlotNow, UnreadIs DEF SlotRow, Places
<1> HIDE DEF row
<1>3. slot'[s] = row
  BY <1>1, <1>2, SlotWritten
<1>4. commands[slot[s].cmd].status # "ABSENT" /\ Executing(s)
  BY <1>1, SlotNow DEF SlotOK, Executing
<1>5. NeverReactivated'
  BY <1>1 DEF OInv, NeverReactivated
<1>6. (slot[s].at = "completing" => Delivered(slot[s].cmd))'
  BY <1>2, <1>3
<1>7. /\ pass' \in Pass /\ pass'.provider = pass.provider /\ pass'.version = pass.version
      /\ published <= published' /\ published' <= pass.version /\ published' \in 0..MaxChanges
      /\ object' \in [version : 0..MaxChanges, active : BOOLEAN] /\ faults' \in 0..MaxFaults
      /\ NeverReactivated'
  BY <1>1, <1>2, <1>4, <1>5, <1>6, Still
<1>8. /\ row.at \notin {"idle", "popped"} =>
           Executing(s) /\ row.cmd = slot[s].cmd /\ row.attempt = slot[s].attempt
      /\ row.seen.version <= pass.version
      /\ row.at # "idle" => commands[row.cmd].status # "ABSENT"
      /\ row.at \in {"calling", "called", "pushing"} =>
           row.cmd.type \in PassCommands /\ row.cmd.of <= row.seen.version
      /\ row.at = "called" /\ pass.provider = "GOOGLE" => published' >= row.cmd.of
      /\ row.at = "pushing" =>
           pass.provider = "APPLE" /\ row.cmd.type \in {"UPDATE", "INVALIDATE"}
  BY <1>1, <1>2, <1>4, SlotNow
<1> QED BY <1>1, <1>2, <1>4, <1>5, <1>6, <1>7, <1>8, MoveStep

-----------------------------------------------------------------------------
(* The steps of a slot that write the row of a command.                     *)

(* The row of a command somebody executes in time is leased, so it is not   *)
(* due, and no second slot claims it.                                       *)
LEMMA DueIsFree ==
  ASSUME OInv, NEW c \in CommandIds, Due(c) \/ commands[c].status = "ABSENT"
  PROVE  \A t \in Slots : Executing(t) /\ slot[t].cmd = c => c \in late
<1> QED BY DEF OInv, SlotOK, Holds, Due

LEMMA ClaimStep ==
  ASSUME OInv, NEW s \in Slots, Claim(s)
  PROVE  OInv'
<1>1. PICK c \in CommandIds : c = slot[s].cmd
  BY SlotNow
<1>2. /\ slot[s].at = "popped" /\ UNCHANGED <<pass, lost, object, published, faults, late>>
  BY DEF Claim, shown
<1>3. CASE ~ Due(c)
  <2>1. slot' = [slot EXCEPT ![s] = Idle] /\ UNCHANGED commands
    BY <1>1, <1>3 DEF Claim
  <2> QED BY <1>2, <2>1, RowFacts, IdleStep
<1>4. CASE Due(c)
  <2> DEFINE taken == [status |-> "PROCESSING", leased |-> TRUE,
                       attempts |-> commands[c].attempts + 1]
             row == [slot[s] EXCEPT !.at = "claimed", !.attempt = commands[c].attempts + 1]
  <2>1. commands' = [commands EXCEPT ![c] = taken] /\ slot' = [slot EXCEPT ![s] = row]
    BY <1>1, <1>4 DEF Claim
  <2>2. commands[c].attempts + 1 \in Nat
    BY RowFacts DEF Row
  <2>3. /\ taken \in Row /\ taken.status = "PROCESSING" /\ taken.leased
        /\ taken.attempts = commands[c].attempts + 1
    BY <2>2 DEF Row
  <2>4. /\ row \in SlotRow /\ row.at = "claimed" /\ row.cmd = c
        /\ row.attempt = taken.attempts /\ row.seen = slot[s].seen
    BY <1>1, <2>2, SlotNow DEF SlotRow, Places
  <2> HIDE DEF taken, row
  <2>5. /\ slot' \in [Slots -> SlotRow] /\ slot'[s] = row
        /\ \A t \in Slots \ {s} : slot'[t] = slot[t]
    BY <2>1, <2>4, SlotWritten
  <2>6. /\ commands' \in [CommandIds -> Row] /\ commands'[c] = taken
        /\ \A d \in CommandIds \ {c} : commands'[d] = commands[d]
    BY <2>1, <2>3, RowFacts
  <2>7. commands[c].status # "ABSENT"
    BY <1>4 DEF Due
  <2>8. Grows
    BY <1>2, <2>3, <2>6, RowFacts, OutboxAssumption DEF Grows
  <2>9. TypeOK'
    BY <1>2, <2>5, <2>6, RowFacts, TypeNext
  <2>10. \A d \in CommandIds : CommandOK(d)'
    BY <2>3, <2>6, <2>7, <2>8, CommandStays
  <2>11. \A t \in Slots : Executing(t) /\ slot[t].cmd = c => c \in late
    BY <1>4, DueIsFree
  <2>12. \A t \in Slots \ {s} : SlotOK(t)'
    <3> SUFFICES ASSUME NEW t \in Slots \ {s} PROVE SlotOK(t)'
      OBVIOUS
    <3>1. Executing(t) => slot[t].cmd \in late' \/ commands'[slot[t].cmd] = commands[slot[t].cmd]
      BY <1>2, <2>6, <2>11, RowFacts
    <3> QED BY <2>5, <2>8, <3>1, SlotStays
  <2>13. SlotOK(s)'
    <3>1. slot'[s].seen.version <= pass'.version
      BY <1>2, <2>4, <2>5, SlotNow
    <3> QED BY <2>3, <2>4, <2>5, <2>6, <3>1 DEF SlotOK, Holds
  <2>14. OneExecution'
    BY <1>2, <2>4, <2>5, <2>11 DEF OInv, OneExecution, Executing
  <2>15. \A t \in Slots : SlotOK(t)'
    BY <2>12, <2>13
  <2> QED BY <1>2, <2>9, <2>10, <2>14, <2>15 DEF OInv, NeverReactivated
<1> QED BY <1>3, <1>4

LEMMA QueueApplePushStep ==
  ASSUME OInv, NEW s \in Slots, QueueApplePush(s)
  PROVE  OInv'
<1>1. /\ slot[s].at = "pushing" /\ UNCHANGED <<pass, lost, object, published, faults, late>>
  BY DEF QueueApplePush, shown
<1>2. PICK c \in CommandIds : c = slot[s].cmd
  BY SlotNow
<1>3. PICK n : n = slot[s].seen.version
  OBVIOUS
<1>4. /\ pass.provider = "APPLE" /\ c.type \in {"UPDATE", "INVALIDATE"} /\ c.of <= n
      /\ commands[c].status # "ABSENT" /\ Executing(s) /\ n <= pass.version
  BY <1>1, <1>2, <1>3, SlotNow DEF SlotOK, Executing
<1>5. n \in 0..MaxChanges /\ n \in c.of..MaxChanges /\ c.of \in 0..MaxChanges
  BY <1>2, <1>3, <1>4, SlotNow, CommandFacts, OutboxAssumption
<1>6. PICK p \in CommandIds : /\ p = Command("APPLE_PUSH", n)
                              /\ p.type = "APPLE_PUSH" /\ p.of = n
  BY <1>5, CommandFacts
<1> DEFINE row == [slot[s] EXCEPT !.at = "completing", !.seen = Unread]
<1>7. /\ commands' = [commands EXCEPT ![p] = IF commands[p].status = "ABSENT" THEN Created
                                             ELSE commands[p]]
      /\ slot' = [slot EXCEPT ![s] = row]
  BY <1>3, <1>6 DEF QueueApplePush, Leaves
<1>8. /\ row \in SlotRow /\ row.at = "completing" /\ row.cmd = c
      /\ row.attempt = slot[s].attempt /\ row.seen.version = 0
  BY <1>2, SlotNow, UnreadIs DEF SlotRow, Places
<1> HIDE DEF row
<1>9. /\ slot' \in [Slots -> SlotRow] /\ slot'[s] = row
      /\ \A t \in Slots \ {s} : slot'[t] = slot[t]
  BY <1>7, <1>8, SlotWritten
<1>10. /\ commands' \in [CommandIds -> Row]
       /\ \A d \in CommandIds : commands[d].status # "ABSENT" => commands'[d] = commands[d]
       /\ \A d \in CommandIds \ {p} : commands'[d] = commands[d]
       /\ commands'[p].status # "ABSENT"
       /\ commands'[p].status = "COMPLETED" => commands[p].status = "COMPLETED"
  BY <1>7, RowFacts, CreatedIs
<1>11. Grows
  BY <1>1, <1>10, RowFacts, OutboxAssumption DEF Grows
<1>12. TypeOK'
  BY <1>1, <1>9, <1>10, RowFacts, TypeNext
<1>13. \A d \in CommandIds : CommandOK(d)'
  <2> SUFFICES ASSUME NEW d \in CommandIds PROVE CommandOK(d)'
    OBVIOUS
  <2>1. CASE d # p \/ commands[p].status # "ABSENT"
    BY <1>10, <1>11, <2>1, CommandStays
  <2>2. CASE d = p /\ commands[p].status = "ABSENT"
    <3>1. commands'[d].status # "COMPLETED"
      BY <1>10, <2>2
    <3>2. d.of <= pass'.version
      BY <1>1, <1>4, <1>6, <2>2
    <3> QED BY <3>1, <3>2 DEF CommandOK
  <2> QED BY <2>1, <2>2
<1>14. \A t \in Slots \ {s} : SlotOK(t)'
  <2> SUFFICES ASSUME NEW t \in Slots \ {s} PROVE SlotOK(t)'
    OBVIOUS
  <2>1. Executing(t) => commands[slot[t].cmd].status # "ABSENT" /\ slot[t].cmd \in CommandIds
    BY RowFacts DEF OInv, SlotOK, Executing
  <2>2. Executing(t) => commands'[slot[t].cmd] = commands[slot[t].cmd]
    BY <1>10, <2>1
  <2> QED BY <1>9, <1>11, <2>2, SlotStays
<1>15. SlotOK(s)'
  <2>1. commands'[Command("APPLE_PUSH", n)].status # "ABSENT"
    BY <1>6, <1>10
  <2>2. (slot[s].at = "completing" => Delivered(slot[s].cmd))'
    BY <1>1, <1>4, <1>5, <1>8, <1>9, <2>1 DEF Delivered
  <2>3. slot[s].cmd \notin late => Holds(s)
    BY <1>4 DEF OInv, SlotOK
  <2>4. commands'[c] = commands[c]
    BY <1>4, <1>10
  <2>5. Executing(s)' /\ slot'[s].cmd \notin late' => Holds(s)'
    BY <1>1, <1>2, <1>8, <1>9, <2>3, <2>4 DEF Holds
  <2>6. slot'[s].seen.version <= pass'.version
    BY <1>1, <1>8, <1>9, SlotNow, OutboxAssumption
  <2> QED BY <1>4, <1>8, <1>9, <2>2, <2>4, <2>5, <2>6 DEF SlotOK
<1>16. OneExecution'
  <2>1. \A t \in Slots : Executing(t)' => Executing(t) /\ slot'[t].cmd = slot[t].cmd
    BY <1>2, <1>4, <1>8, <1>9 DEF Executing
  <2> QED BY <1>11, <2>1, OneExecutionStays
<1>17. \A t \in Slots : SlotOK(t)'
  BY <1>14, <1>15
<1> QED BY <1>1, <1>12, <1>13, <1>16, <1>17 DEF OInv, NeverReactivated

(* A slot ends its command, by the id alone.                                *)
LEMMA EndsStep ==
  ASSUME OInv, NEW s \in Slots, NEW st \in {"COMPLETED", "FAILED", "DEAD_LETTER"},
         Executing(s), Ends(s, st), st = "COMPLETED" => Delivered(slot[s].cmd),
         pass' \in Pass, pass'.provider = pass.provider, pass'.version = pass.version,
         NeverReactivated', UNCHANGED <<lost, object, published, faults, late>>
  PROVE  OInv'
<1>1. PICK c \in CommandIds : c = slot[s].cmd
  BY SlotNow
<1> DEFINE row == [commands[c] EXCEPT !.status = st, !.leased = FALSE]
<1>2. /\ commands' = [commands EXCEPT ![c] = row] /\ slot' = [slot EXCEPT ![s] = Idle]
  BY <1>1 DEF Ends
<1>3. row \in Row /\ row.status = st
  BY RowFacts, ZenonT(60) DEF Row
<1> HIDE DEF row
<1>4. /\ slot' \in [Slots -> SlotRow] /\ slot'[s] = Idle
      /\ \A t \in Slots \ {s} : slot'[t] = slot[t]
  BY <1>2, IdleIs, SlotWritten
<1>5. /\ commands' \in [CommandIds -> Row] /\ commands'[c].status = st
      /\ \A d \in CommandIds \ {c} : commands'[d] = commands[d]
  BY <1>2, <1>3, RowFacts
<1>6. commands[c].status # "ABSENT"
  BY <1>1, SlotNow DEF SlotOK, Executing
<1>7. Grows
  BY <1>5, RowFacts, OutboxAssumption DEF Grows
<1>8. TypeOK'
  BY <1>4, <1>5, RowFacts, TypeNext
<1>9. \A d \in CommandIds : CommandOK(d)'
  <2> SUFFICES ASSUME NEW d \in CommandIds PROVE CommandOK(d)'
    OBVIOUS
  <2>1. CASE d # c
    BY <1>5, <1>7, <2>1, CommandStays
  <2>2. CASE d = c
    <3>1. st = "COMPLETED" => Delivered(c)'
      BY <1>1, <1>7, DeliveredStays
    <3>2. c.of <= pass'.version
      BY <1>1, <1>6, SlotNow
    <3> QED BY <1>5, <2>2, <3>1, <3>2 DEF CommandOK
  <2> QED BY <2>1, <2>2
<1>10. \A t \in Slots \ {s} : SlotOK(t)'
  <2> SUFFICES ASSUME NEW t \in Slots \ {s} PROVE SlotOK(t)'
    OBVIOUS
  <2>1. Executing(t) => slot[t].cmd \in late' \/ commands'[slot[t].cmd] = commands[slot[t].cmd]
    BY <1>1, <1>5, RowFacts DEF OInv, OneExecution
  <2> QED BY <1>4, <1>7, <2>1, SlotStays
<1>11. SlotOK(s)'
  <2>1. slot'[s].seen.version <= pass'.version
    BY <1>4, IdleIs, SlotNow, OutboxAssumption
  <2> QED BY <1>4, <2>1, IdleIs DEF SlotOK, Executing
<1>12. OneExecution'
  <2>1. \A t \in Slots : Executing(t)' => Executing(t) /\ slot'[t].cmd = slot[t].cmd
    BY <1>4, IdleIs DEF Executing
  <2> QED BY <1>7, <2>1, OneExecutionStays
<1>13. \A t \in Slots : SlotOK(t)'
  BY <1>10, <1>11
<1>14. published' <= pass'.version
  BY DEF OInv
<1> QED BY <1>8, <1>9, <1>12, <1>13, <1>14 DEF OInv

LEMMA EndingSteps ==
  ASSUME OInv, NEW s \in Slots, Complete(s) \/ Fail(s) \/ DeadLetter(s)
  PROVE  OInv'
<1>1. CASE Complete(s)
  <2>1. /\ slot[s].at = "completing" /\ Ends(s, "COMPLETED")
        /\ UNCHANGED <<pass, lost, object, published, faults, late>>
    BY <1>1 DEF Complete, shown
  <2>2. Executing(s) /\ Delivered(slot[s].cmd)
    BY <2>1, SlotNow DEF SlotOK, Executing
  <2> QED BY <2>1, <2>2, Still, EndsStep
<1>2. CASE Fail(s)
  <2>1. /\ slot[s].at = "failing" /\ Ends(s, "FAILED")
        /\ pass' = pass \/ pass' = [pass EXCEPT !.status = "ERROR"]
        /\ UNCHANGED <<lost, object, published, faults, late>>
    BY <1>2 DEF Fail, shown
  <2>2. /\ pass' \in Pass /\ pass'.provider = pass.provider /\ pass'.version = pass.version
        /\ NeverReactivated'
    <3>1. CASE pass' = pass
      BY <3>1, Still
    <3>2. CASE pass' = [pass EXCEPT !.status = "ERROR"]
      <4>1. /\ pass' \in Pass /\ pass'.provider = pass.provider /\ pass'.version = pass.version
            /\ pass'.status = "ERROR"
        BY <3>2, RowFacts DEF Pass
      <4> QED BY <4>1 DEF NeverReactivated
    <3> QED BY <2>1, <3>1, <3>2
  <2>3. Executing(s)
    BY <2>1 DEF Executing
  <2> QED BY <2>1, <2>2, <2>3, EndsStep
<1>3. CASE DeadLetter(s)
  <2>1. /\ Executing(s) /\ Ends(s, "DEAD_LETTER")
        /\ UNCHANGED <<pass, lost, object, published, faults, late>>
    BY <1>3 DEF DeadLetter, Executing, shown
  <2> QED BY <2>1, Still, EndsStep
<1> QED BY <1>1, <1>2, <1>3

LEMMA StepOInv == OInv /\ [Next]_vars => OInv'
<1> SUFFICES ASSUME OInv, [Next]_vars PROVE OInv'
  OBVIOUS
<1>1. CASE Operation \/ Revoke \/ Erase \/ Transfer
  BY <1>1, OperationStep, RevokeStep, TransferStep
<1>9. ASSUME NEW type \in {"UPDATE", "RECONCILE", "INVALIDATE"}, SyncJob(type) PROVE OInv'
  BY <1>9, SyncJobStep
<1>10. ASSUME NEW c \in Patches, Patch(c) PROVE OInv'
  BY <1>10, PatchStep
<1>2. ASSUME NEW c \in CommandIds, SignalLost(c) \/ SignalExpires(c) PROVE OInv'
  BY <1>2, SignalStep
<1>3. ASSUME NEW c \in CommandIds, LeaseExpires(c) PROVE OInv'
  BY <1>3, LeaseExpiresStep
<1>4. ASSUME NEW s \in Slots, Work(s) PROVE OInv'
  <2>1. ASSUME NEW c \in CommandIds, Pop(s, c) PROVE OInv'
    BY <2>1, PopStep
  <2>2. CASE Claim(s)
    BY <2>2, ClaimStep
  <2>3. CASE ReadPass(s)
    BY <2>3, ReadPassStep
  <2>4. CASE CallProvider(s)
    BY <2>4, CallProviderStep
  <2>5. CASE Push(s)
    BY <2>5, PushStep
  <2>6. CASE Record(s)
    BY <2>6, RecordStep
  <2>7. CASE QueueApplePush(s)
    BY <2>7, QueueApplePushStep
  <2>8. CASE Complete(s) \/ Fail(s) \/ DeadLetter(s)
    BY <2>8, EndingSteps
  <2> QED BY <1>4, <2>1, <2>2, <2>3, <2>4, <2>5, <2>6, <2>7, <2>8 DEF Work
<1>5. ASSUME NEW s \in Slots, Throws(s) PROVE OInv'
  BY <1>5, ThrowsStep
<1>6. ASSUME NEW s \in Slots, Crash(s) PROVE OInv'
  <2>1. /\ slot' = [slot EXCEPT ![s] = Idle] /\ faults' \in 0..MaxFaults
        /\ UNCHANGED <<pass, commands, lost, object, published, late>>
    BY <1>6, FaultCounted DEF Crash, shown
  <2> QED BY <2>1, IdleStep
<1>7. CASE UNCHANGED vars
  <2>1. UNCHANGED <<pass, commands, lost, slot, object, published, faults, late>>
    BY <1>7 DEF vars, shown
  <2>2. Grows
    BY <2>1, RowFacts, OutboxAssumption DEF Grows
  <2>3. TypeOK'
    BY <2>1, RowFacts, TypeNext
  <2>4. \A d \in CommandIds : CommandOK(d)'
    BY <2>1, <2>2, CommandStays
  <2>5. \A t \in Slots : SlotOK(t)'
    BY <2>1, <2>2, SlotStays
  <2>6. OneExecution'
    BY <2>1, <2>2, OneExecutionStays DEF Executing
  <2> QED BY <2>1, <2>3, <2>4, <2>5, <2>6 DEF OInv, NeverReactivated
<1>8. CASE Next
  BY <1>1, <1>2, <1>3, <1>4, <1>5, <1>6, <1>8, <1>9, <1>10 DEF Next
<1> QED BY <1>7, <1>8

-----------------------------------------------------------------------------
(* The theorems.  They need no fairness.                                    *)

(* The invariant holds in every reachable state.                            *)
THEOREM OutboxInvariant == Spec => []OInv
<1>1. Spec => Init /\ [][Next]_vars
  BY DEF Spec
<1>2. OInv /\ [Next]_vars => OInv'
  BY StepOInv
<1> QED BY InitOInv, <1>1, <1>2, PTL

(* Every variable stays in its type.                                        *)
THEOREM OutboxTypes == Spec => []TypeOK
<1>1. OInv => TypeOK
  BY DEF OInv
<1> QED BY OutboxInvariant, <1>1, PTL

(* Two slots execute one command only after its lease ran out under one of  *)
(* them, however many slots there are and however often it was queued.      *)
THEOREM ExecutedByOne == Spec => []OneExecution
<1>1. OInv => OneExecution
  BY DEF OInv
<1> QED BY OutboxInvariant, <1>1, PTL

(* A pass whose credential was transferred or revoked is never shown as     *)
(* active again, whichever snapshot a late result was drawn from.           *)
THEOREM RetiredStaysRetired == Spec => []NeverReactivated
<1>1. OInv => NeverReactivated
  BY DEF OInv
<1> QED BY OutboxInvariant, <1>1, PTL

(* A change whose command completed was published in its version or a later *)
(* one, or left the push behind that will publish it.                       *)
THEOREM CompletedIsPublished == Spec => []ChangesPublished
<1>1. OInv => ChangesPublished
  BY DEF OInv, CommandOK, Delivered, ChangesPublished
<1> QED BY OutboxInvariant, <1>1, PTL

=============================================================================
