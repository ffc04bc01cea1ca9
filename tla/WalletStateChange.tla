------------------------- MODULE WalletStateChange -------------------------
(***************************************************************************)
(* queueWalletPassStateChange: the transactions of the API and of the      *)
(* workers that change what a wallet pass shows, the advisory locks they   *)
(* take, the global update sequence they draw for Apple passes, and the    *)
(* devices that poll for the passes updated since the last sequence they   *)
(* saw.                                                                    *)
(*                                                                         *)
(* A transaction walks the passes of its Plan in order.  Its writes stay   *)
(* in work until it commits; an abort drops them and frees its locks, but  *)
(* gives no drawn sequence back.  A transaction of Serializable reads the  *)
(* commands of its snapshot; the others read what is committed.            *)
(***************************************************************************)
EXTENDS Naturals, Sequences, FiniteSets

CONSTANTS
  Passes, ApplePasses,  \* the other passes are Google's
  Transactions,
  Plan,                 \* transaction -> the passes it changes, in its order
  Event,                \* transaction -> the event key of its commands
  Inserts,              \* transaction -> the passes of Plan it creates
  PreLocking,           \* take the Apple lock before their first pass
  Serializable,         \* the transactions of withOrderedInvariantLocks
  Devices,
  Installs,             \* device -> the passes its user adds to its Wallet
  SplitListing,         \* a listing reads tags and sequences separately
  MaxSequence,          \* bound on the sequences drawn
  None

Inserted == UNION {Inserts[t] : t \in Transactions}
Events == {Event[t] : t \in Transactions}

ASSUME PassesAssumption == ApplePasses \subseteq Passes /\ IsFiniteSet(Passes)
ASSUME PlanAssumption ==
  /\ Plan \in [Transactions -> Seq(Passes)]
  /\ \A t \in Transactions : \A i, j \in DOMAIN Plan[t] : Plan[t][i] = Plan[t][j] => i = j
  /\ Event \in [Transactions -> Events]
  /\ Inserts \in [Transactions -> SUBSET Passes]
  /\ \A t, u \in Transactions : Inserts[t] \cap Inserts[u] # {} => t = u
  /\ PreLocking \subseteq Transactions
  /\ Serializable \subseteq Transactions
ASSUME NoneAssumption == None \notin Transactions
ASSUME InstallsAssumption == Installs \in [Devices -> SUBSET ApplePasses]
ASSUME BoundAssumption == SplitListing \in BOOLEAN /\ MaxSequence \in Nat

VARIABLES
  rows,       \* pass -> its committed wallet_pass_instances row
  commands,   \* the committed state change commands, as <<event, pass>>
  sequence,   \* last value drawn from apple_pass_update_sequence
  appleLock,  \* the transaction holding the global Apple lock
  passLock,   \* pass -> the transaction holding its lock
  txn,        \* transaction -> its place, its position in Plan, its snapshot
  work,       \* transaction -> the updates it has not committed
  device      \* device -> what its Wallet knows

database == <<rows, commands>>
locks == <<appleLock, passLock>>
vars == <<rows, commands, sequence, appleLock, passLock, txn, work, device>>

FirstTag == 1  \* the default of the column

Row == [exists : BOOLEAN, updateTag : Nat, sequence : Nat]
Update == [pass : Passes, updateTag : Nat, sequence : Nat]
Progress == [place : {"idle", "open", "committed"},
             position : Nat \ {0},
             seen : SUBSET (Events \X Passes)]

(* Of a device: the sequence it sends, the passes registered, to download   *)
(* and being listed, the version it has of each pass (0: none), and the one *)
(* current at its registration.                                             *)
Wallet == [since : Nat,
           registered : SUBSET ApplePasses,
           wanted : SUBSET ApplePasses,
           listed : SUBSET ApplePasses,
           last : ApplePasses \cup {None},
           copy : [Passes -> Nat],
           base : [Passes -> Nat]]

(* The migration numbers the Apple passes that exist, in order of creation. *)
Init ==
  /\ sequence = Cardinality(ApplePasses \ Inserted)
  /\ \E number \in [ApplePasses \ Inserted -> 1..sequence] :
       /\ \A p, q \in ApplePasses \ Inserted : number[p] = number[q] => p = q
       /\ rows = [p \in Passes |->
            [exists |-> p \notin Inserted,
             updateTag |-> FirstTag,
             sequence |-> IF p \in ApplePasses \ Inserted THEN number[p] ELSE 0]]
  /\ commands = {}
  /\ appleLock = None
  /\ passLock = [p \in Passes |-> None]
  /\ txn = [t \in Transactions |-> [place |-> "idle", position |-> 1, seen |-> {}]]
  /\ work = [t \in Transactions |-> {}]
  /\ device = [d \in Devices |->
       [since |-> 0, registered |-> {}, wanted |-> {}, listed |-> {}, last |-> None,
        copy |-> [p \in Passes |-> 0], base |-> [p \in Passes |-> 0]]]

-----------------------------------------------------------------------------
(* Transactions.                                                            *)

Working(t) == txn[t].place = "open" /\ txn[t].position \in DOMAIN Plan[t]
Current(t) == Plan[t][txn[t].position]
PlannedPasses(t) == {Plan[t][i] : i \in DOMAIN Plan[t]}

(* The sync job and the transfer lock once, before the loop over passes.    *)
NeedsAppleLock(t) ==
  \/ Current(t) \in ApplePasses
  \/ t \in PreLocking /\ PlannedPasses(t) \cap ApplePasses # {}

(* The pass is read again once its lock is held; a serializable transaction *)
(* sees the commands of its snapshot.                                       *)
SeenCommands(t) == IF t \in Serializable THEN txn[t].seen ELSE commands
Stale(t, p) == \E e \in Events : <<e, p>> \in commands \ SeenCommands(t)

Begin(t) ==
  /\ txn[t].place = "idle"
  /\ \A p \in PlannedPasses(t) \ Inserts[t] : rows[p].exists
  /\ txn' = [txn EXCEPT ![t] = [place |-> "open", position |-> 1,
                                seen |-> IF t \in Serializable THEN commands ELSE {}]]
  /\ UNCHANGED <<database, sequence, locks, work, device>>

WantsAppleLock(t) == Working(t) /\ NeedsAppleLock(t) /\ appleLock # t

\* Mutant: a lock that transactions share.
LockAppleShared(t) ==
  /\ WantsAppleLock(t)
  /\ appleLock' = t
  /\ UNCHANGED <<database, sequence, passLock, txn, work, device>>

LockApple(t) ==
  /\ WantsAppleLock(t)
  /\ appleLock = None
  /\ appleLock' = t
  /\ UNCHANGED <<database, sequence, passLock, txn, work, device>>

WantsPassLock(t) ==
  /\ Working(t)
  /\ NeedsAppleLock(t) => appleLock = t
  /\ Current(t) \notin Inserts[t]
  /\ passLock[Current(t)] # t

LockPass(t) ==
  /\ WantsPassLock(t)
  /\ passLock[Current(t)] = None
  /\ passLock' = [passLock EXCEPT ![Current(t)] = t]
  /\ UNCHANGED <<database, sequence, appleLock, txn, work, device>>

Locked(t) == Working(t) /\ passLock[Current(t)] = t

Advance(t) == txn' = [txn EXCEPT ![t].position = @ + 1]

(* The command exists: an earlier run of the same event queued it.          *)
Replay(t) ==
  /\ Locked(t)
  /\ <<Event[t], Current(t)>> \in SeenCommands(t)
  /\ Advance(t)
  /\ UNCHANGED <<database, sequence, locks, work, device>>

Draw(t, tag) ==
  IF Current(t) \in ApplePasses
    THEN /\ sequence < MaxSequence
         /\ sequence' = sequence + 1
         /\ work' = [work EXCEPT ![t] = @ \cup
              {[pass |-> Current(t), updateTag |-> tag, sequence |-> sequence']}]
    ELSE /\ work' = [work EXCEPT ![t] = @ \cup
              {[pass |-> Current(t), updateTag |-> rows[Current(t)].updateTag, sequence |-> 0]}]
         /\ UNCHANGED sequence

\* Mutant: the command's idempotency key is not looked up.
ChangeAgain(t) ==
  /\ Locked(t)
  /\ ~Stale(t, Current(t))
  /\ Draw(t, rows[Current(t)].updateTag + 1)
  /\ Advance(t)
  /\ UNCHANGED <<database, locks, device>>

(* A row changed since the snapshot refuses the update: could not serialize. *)
Change(t) ==
  /\ Locked(t)
  /\ <<Event[t], Current(t)>> \notin SeenCommands(t)
  /\ ~Stale(t, Current(t))
  /\ Draw(t, rows[Current(t)].updateTag + 1)
  /\ Advance(t)
  /\ UNCHANGED <<database, locks, device>>

(* The trigger numbers a new Apple pass, under the Apple lock.              *)
Insert(t) ==
  /\ Working(t)
  /\ Current(t) \in Inserts[t]
  /\ NeedsAppleLock(t) => appleLock = t
  /\ Draw(t, FirstTag)
  /\ Advance(t)
  /\ UNCHANGED <<database, locks, device>>

Release(t) ==
  /\ appleLock' = IF appleLock = t THEN None ELSE appleLock
  /\ passLock' = [p \in Passes |-> IF passLock[p] = t THEN None ELSE passLock[p]]

Commit(t) ==
  /\ txn[t].place = "open"
  /\ txn[t].position = Len(Plan[t]) + 1
  /\ rows' = [p \in Passes |->
       IF \E u \in work[t] : u.pass = p
         THEN LET u == CHOOSE u \in work[t] : u.pass = p
              IN [exists |-> TRUE, updateTag |-> u.updateTag, sequence |-> u.sequence]
         ELSE rows[p]]
  /\ commands' = commands \cup {<<Event[t], u.pass>> : u \in {v \in work[t] : v.pass \notin Inserts[t]}}
  /\ txn' = [txn EXCEPT ![t].place = "committed"]
  /\ work' = [work EXCEPT ![t] = {}]
  /\ Release(t)
  /\ UNCHANGED <<sequence, device>>

(* A serialization failure, a deadlock victim, a lost connection or an      *)
(* error of the caller: everything but the drawn sequences is undone.       *)
Abort(t) ==
  /\ txn[t].place = "open"
  /\ txn' = [txn EXCEPT ![t].place = "idle"]
  /\ work' = [work EXCEPT ![t] = {}]
  /\ Release(t)
  /\ UNCHANGED <<database, sequence, device>>

-----------------------------------------------------------------------------
(* Devices and the Apple web service.                                       *)

Add(d, p) ==
  /\ p \in Installs[d]
  /\ rows[p].exists
  /\ device[d].copy[p] = 0
  /\ device' = [device EXCEPT ![d].copy[p] = rows[p].sequence]
  /\ UNCHANGED <<database, sequence, locks, txn, work>>

Register(d, p) ==
  /\ device[d].copy[p] # 0
  /\ p \notin device[d].registered
  /\ device' = [device EXCEPT ![d].registered = @ \cup {p},
                              ![d].base[p] = rows[p].sequence]
  /\ UNCHANGED <<database, sequence, locks, txn, work>>

(* The user deletes the pass.                                               *)
Unregister(d, p) ==
  /\ p \in device[d].registered
  /\ device' = [device EXCEPT ![d].registered = @ \ {p},
                              ![d].wanted = @ \ {p},
                              ![d].copy[p] = 0]
  /\ UNCHANGED <<database, sequence, locks, txn, work>>

Updated(d) == {p \in device[d].registered : rows[p].sequence > device[d].since}

Newest(passes) == {p \in passes : \A q \in passes : rows[q].sequence <= rows[p].sequence}

\* Mutant: the answer carries the last value drawn.
AnswerWithCounter(d, serials, last) ==
  device' = [device EXCEPT ![d].since = sequence,
                           ![d].wanted = @ \cup (serials \cap device[d].registered),
                           ![d].listed = {},
                           ![d].last = None]

(* The answer carries the sequence of the last pass listed; the device      *)
(* keeps it, and downloads the passes of the list it still has.             *)
Answer(d, serials, last) ==
  device' = [device EXCEPT ![d].since = rows[last].sequence,
                           ![d].wanted = @ \cup (serials \cap device[d].registered),
                           ![d].listed = {},
                           ![d].last = None]

(* updatedSerials when nothing commits between its two statements.          *)
Poll(d) ==
  /\ device[d].listed = {}
  /\ \E last \in Newest(Updated(d)) : Answer(d, Updated(d), last)
  /\ UNCHANGED <<database, sequence, locks, txn, work>>

(* updatedSerials as the two statements of its include: the registrations   *)
(* whose pass matches, in the order of its sequence, then those passes.     *)
ListRegistrations(d) ==
  /\ SplitListing
  /\ device[d].listed = {}
  /\ \E last \in Newest(Updated(d)) :
       device' = [device EXCEPT ![d].listed = Updated(d), ![d].last = last]
  /\ UNCHANGED <<database, sequence, locks, txn, work>>

ReadListed(d) ==
  /\ device[d].listed # {}
  /\ Answer(d, device[d].listed, device[d].last)
  /\ UNCHANGED <<database, sequence, locks, txn, work>>

Download(d, p) ==
  /\ p \in device[d].wanted
  /\ device' = [device EXCEPT ![d].copy[p] = rows[p].sequence,
                              ![d].wanted = @ \ {p}]
  /\ UNCHANGED <<database, sequence, locks, txn, work>>

-----------------------------------------------------------------------------
Next ==
  \/ \E t \in Transactions :
       \/ Begin(t) \/ LockApple(t) \/ LockPass(t) \/ Replay(t) \/ Change(t)
       \/ Insert(t) \/ Commit(t) \/ Abort(t)
  \/ \E d \in Devices :
       \/ Poll(d) \/ ListRegistrations(d) \/ ReadListed(d)
       \/ \E p \in ApplePasses :
            Add(d, p) \/ Register(d, p) \/ Unregister(d, p) \/ Download(d, p)

(* Wallet keeps polling and downloads what it was told of.                  *)
Fairness ==
  \A d \in Devices :
    /\ WF_vars(Poll(d) \/ ListRegistrations(d) \/ ReadListed(d))
    /\ \A p \in ApplePasses : WF_vars(Download(d, p))

Spec == Init /\ [][Next]_vars
FairSpec == Spec /\ Fairness

-----------------------------------------------------------------------------
(* Type invariant. Rows, commands, locks, transactions and devices keep the *)
(* shape that queueWalletPassStateChange and updatedSerials give them.      *)
TypeOK ==
  /\ rows \in [Passes -> Row]
  /\ commands \subseteq Events \X Passes
  /\ sequence \in Nat
  /\ appleLock \in Transactions \cup {None}
  /\ passLock \in [Passes -> Transactions \cup {None}]
  /\ txn \in [Transactions -> Progress]
  /\ work \in [Transactions -> SUBSET Update]
  /\ device \in [Devices -> Wallet]
  /\ \A d \in Devices : device[d].listed # {} => device[d].last \in device[d].listed

(* The updateTag of an Apple pass counts its state changes: however the     *)
(* transactions interleave, are retried or replay an event, no increment is *)
(* lost and no event counts twice (nextUpdateTag, the idempotency key).     *)
TagCountsCommands ==
  \A p \in ApplePasses :
    rows[p].updateTag = FirstTag + Cardinality({c \in commands : c[2] = p})

(* What the comment on the Apple lock promises: sequence allocation order   *)
(* equals commit order, so a commit that updates an Apple pass gives it a   *)
(* sequence above every sequence committed before it.                       *)
CommitOrder ==
  [][\A p, q \in ApplePasses :
       rows'[p].sequence # rows[p].sequence => rows'[p].sequence > rows[q].sequence]_vars

(* A registered pass that changed since its registration, and whose newest  *)
(* version the device has not, is not to be downloaded either, and no later *)
(* listing will show it before it changes again.                            *)
Missed(d, p) ==
  /\ p \in device[d].registered
  /\ rows[p].sequence > device[d].base[p]
  /\ rows[p].sequence > device[d].copy[p]
  /\ p \notin device[d].wanted
  /\ rows[p].sequence <= device[d].since

(* An update is lost only between the two statements of a listing: the pass *)
(* changed after the first, so it is not listed, and a listed pass changed  *)
(* after it and before the second, so the sequence answered is above it.    *)
(* No commit loses one, however the sequences were drawn, and no listing    *)
(* within one statement (updatedSerials, the Apple lock).                   *)
MissedOnlyBetweenStatements ==
  [][\A d \in Devices, p \in ApplePasses :
       ~Missed(d, p) /\ Missed(d, p)' =>
         /\ ReadListed(d)
         /\ p \in device[d].registered \ device[d].listed
         /\ device[d].since < rows[p].sequence
         /\ rows[p].sequence <= rows[device[d].last].sequence]_vars

(* No device misses an update: what the serial's ordering is for, and what  *)
(* holds when a listing is one statement.                                    *)
NoUpdateMissed == \A d \in Devices, p \in ApplePasses : ~Missed(d, p)

(* Every update of a registered pass reaches the device, unless the user    *)
(* deletes the pass first.                                                  *)
UpdatesReachDevice ==
  \A d \in Devices : \A p \in ApplePasses : \A n \in 1..MaxSequence :
    /\ p \in device[d].registered
    /\ rows[p].sequence = n
    /\ n > device[d].base[p]
    ~> (device[d].copy[p] >= n \/ p \notin device[d].registered)

(* The Apple lock is acquired before the per-pass lock: a transaction that  *)
(* waits for the Apple lock holds no pass lock its holder waits for.        *)
AppleLockFirst ==
  \A t, u \in Transactions :
    ~ /\ WantsAppleLock(t)
      /\ appleLock = u
      /\ WantsPassLock(u)
      /\ passLock[Current(u)] = t

=============================================================================
