--------------------------- MODULE MembershipLedger ---------------------------
(***************************************************************************)
(* One membership: its append-only loyalty ledger, the progress projection *)
(* derived from it, the reward entitlements it has earned, their           *)
(* redemptions, and the worker commands that expire them.                  *)
(*                                                                         *)
(* Every operation is one transaction under the ordered invariant locks    *)
(* (organization, program lifecycle, membership, ...), so it is one action *)
(* here.  How an operation is claimed, retried and recovered is the        *)
(* subject of DurableCommand; a rejected operation leaves this state alone *)
(* and is not an action, except for the two rejections a unique index of   *)
(* the database raises, which are recorded in "rejected".                  *)
(*                                                                         *)
(* A command is identified by the ledger position of its first entry, an   *)
(* entitlement by the unique key <<cycle, threshold>> of its row, and a    *)
(* redemption by its entitlement and its entitlement sequence.             *)
(***************************************************************************)
EXTENDS LedgerReducer, FiniteSets, FiniteSetsExt

CONSTANTS
  Rewards,            \* thresholds of the version's rewards, ascending; the last is Goal
  MaximumRedemptions, \* threshold -> maximumRedemptionsPerEarned
  Validity,           \* threshold -> validity in ticks, 0 when the reward never expires
  Amounts,            \* stamp amounts a staff member may request
  Corrections,        \* stamp deltas a manager may request
  MaximumPerOperation,
  DailyCap,           \* maximumStampsPerCustomerPerDay, or NoCap
  Receipts,           \* digests of the merchant transaction references
  Locations,          \* where a receipt may be presented
  KeyVersions,        \* versions of the key that makes the digest, as deployed
  NoReference,        \* an issue without a merchant transaction reference
  ReversalWindow,     \* ticks after which no actor may reverse an operation
  TicksPerDay,        \* length of an operational day (and of the 24 hours of the risk rule)
  MaxLedger, MaxCycles, MaxTime   \* bounds: ledger length, cycles, clock

NoCap == 0
Thresholds == {Rewards[i] : i \in DOMAIN Rewards}
Cycles == 1..MaxCycles
Keys == Cycles \X Thresholds
NoKey == <<0, 0>>
FinalKey(c) == <<c, Goal>>
RedemptionLimit(t) == IF t = Goal THEN 1 ELSE MaximumRedemptions[t]
Slots == UNION {1..RedemptionLimit(t) : t \in Thresholds}

\* A receipt as the ledger keeps it: with the place and the key it came under.
References == [receipt : Receipts, location : Locations, keyVersion : KeyVersions]

ASSUME RewardsAssumption ==
  /\ Rewards \in Seq(1..Goal) /\ Rewards # <<>> /\ Rewards[Len(Rewards)] = Goal
  /\ \A i, j \in DOMAIN Rewards : i < j => Rewards[i] < Rewards[j]
ASSUME PolicyAssumption ==
  /\ MaximumRedemptions \in [Thresholds -> Nat \ {0}]
  /\ Validity \in [Thresholds -> Nat] /\ Validity[Goal] = 0
  /\ Amounts \subseteq Nat /\ Corrections \subseteq Int
  /\ MaximumPerOperation \in Nat /\ DailyCap \in Nat
  /\ ReversalWindow \in Nat /\ TicksPerDay \in Nat \ {0}
ASSUME BoundsAssumption ==
  /\ MaxLedger \in Nat /\ MaxTime \in Nat /\ MaxCycles \in Nat \ {0}

VARIABLES
  ledger,        \* loyalty_ledger_entries, by membership sequence
  progress,      \* membership_progress_projections
  entitlements,  \* reward_entitlements, by unique key
  redemptions,   \* reward_redemptions, by entitlement and sequence
  membership,    \* memberships.status
  expiry,        \* reward_expiry_commands, at most one for an entitlement
  now,           \* the clock, in ticks
  rejected       \* unique index that rejected the last operation, or "none"

vars == <<ledger, progress, entitlements, redemptions, membership, expiry, now, rejected>>

-----------------------------------------------------------------------------
Held == {"AVAILABLE", "PARTIALLY_REDEEMED"}
EntitlementStatus == Held \cup {"NONE", "REDEEMED", "VOIDED", "EXPIRED"}
Entitlement == [status : EntitlementStatus, count : Nat, expiresAt : Nat]
NoEntitlement == [status |-> "NONE", count |-> 0, expiresAt |-> 0]

Entry == [type : EventTypes, delta : Int, cycle : Nat, key : Keys \cup {NoKey},
          slot : Nat, reversalOf : Nat, command : Nat, at : Nat,
          reference : References \cup {NoReference}]

TypeOK ==
  /\ ledger \in Seq(Entry)
  /\ progress \in Projection
  /\ entitlements \in [Keys -> Entitlement]
  /\ redemptions \in [Keys \X Slots -> {"NONE", "COMPLETED", "REVERSED"}]
  /\ membership \in {"ACTIVE", "SUSPENDED", "REVOKED"}
  /\ expiry \in [Keys -> {"NONE", "PENDING", "COMPLETED"}]
  /\ now \in Nat
  /\ rejected \in {"none", "ENTITLEMENT_KEY", "REDEMPTION_KEY"}

Init ==
  /\ ledger = <<>>
  /\ progress = EmptyProjection
  /\ entitlements = [k \in Keys |-> NoEntitlement]
  /\ redemptions = [r \in Keys \X Slots |-> "NONE"]
  /\ membership = "ACTIVE"
  /\ expiry = [k \in Keys |-> "NONE"]
  /\ now = 0
  /\ rejected = "none"

-----------------------------------------------------------------------------
(* Ledger entries.  All entries of one operation carry its command, the    *)
(* current cycle and the same time.                                        *)

CurrentCycle == progress.completed + 1
Day(t) == t \div TicksPerDay

Event(type, delta, key, slot, reversalOf, reference) ==
  [type |-> type, delta |-> delta, cycle |-> CurrentCycle, key |-> key, slot |-> slot,
   reversalOf |-> reversalOf, command |-> Len(ledger) + 1, at |-> now,
   reference |-> reference]

Plain(type, key) == Event(type, 0, key, 0, 0, NoReference)
Moving(type, delta) == Event(type, delta, NoKey, 0, 0, NoReference)

\* appendEntry refuses a projection whose version is not the ledger's length.
AppendEntries(es, p) ==
  /\ progress.version = Len(ledger)
  /\ ledger' = ledger \o es
  /\ progress' = p

AppendOne(e) ==
  /\ Reducible(progress, e)
  /\ AppendEntries(<<e>>, ReduceProjectionEvent(progress, e))

AppendTwo(e, f) ==
  LET p == ReduceProjectionEvent(progress, e) IN
  /\ Reducible(progress, e) /\ Reducible(p, f)
  /\ AppendEntries(<<e, f>>, ReduceProjectionEvent(p, f))

-----------------------------------------------------------------------------
(* Earning.  An addition of stamps unlocks every reward whose threshold it *)
(* crosses, in ascending order: one unlock entry and one entitlement each. *)

Reached(n) == Cardinality({i \in DOMAIN Rewards : Rewards[i] <= n})
CrossedRewardThresholds(prior, next) == {t \in Thresholds : prior < t /\ t <= next}

UnlockType(t) == IF t = Goal THEN "FINAL_REWARD_UNLOCKED" ELSE "MILESTONE_REWARD_UNLOCKED"

Unlocks(prior, next) ==
  [i \in 1..(Reached(next) - Reached(prior)) |->
     LET t == Rewards[Reached(prior) + i]
     IN  Plain(UnlockType(t), <<CurrentCycle, t>>)]

\* Mutant: the unlock entries do not count as versions of the projection.
AfterNoUnlocks(p, unlocks) == p

\* An unlock entry reduces to the same card, one version further.
AfterUnlocks(p, unlocks) == [p EXCEPT !.version = @ + Len(unlocks)]

NewEntitlement(t) ==
  [status |-> "AVAILABLE", count |-> 0,
   expiresAt |-> IF t = Goal \/ Validity[t] = 0 THEN 0 ELSE now + Validity[t]]

KeysCrossed(next) ==
  {<<CurrentCycle, t>> : t \in CrossedRewardThresholds(progress.stamps, next)}

\* The unique index on membership, cycle and reward also covers voided rows.
EntitlementKeyTaken(next) ==
  \E k \in KeysCrossed(next) : entitlements[k].status # "NONE"

AddStamps(e) ==
  LET next == progress.stamps + e.delta
      unlocks == Unlocks(progress.stamps, next)
  IN
  /\ Reducible(progress, e)
  /\ AppendEntries(<<e>> \o unlocks,
                   AfterUnlocks(ReduceProjectionEvent(progress, e), unlocks))
  /\ entitlements' = [k \in Keys |-> IF k \in KeysCrossed(next)
                                     THEN NewEntitlement(k[2]) ELSE entitlements[k]]

\* Mutant: the daily total is net, a reversal gives its stamps back.
NetToday ==
  LET counted == {i \in DOMAIN ledger : Day(ledger[i].at) = Day(now)}
  IN  MapThenSumSet(LAMBDA i : ledger[i].delta, counted)

GrossPositiveToday ==
  LET counted == {i \in DOMAIN ledger : /\ ledger[i].type \in StampAdditions
                                        /\ ledger[i].delta > 0
                                        /\ Day(ledger[i].at) = Day(now)}
  IN  MapThenSumSet(LAMBDA i : ledger[i].delta, counted)

\* Mutant: a receipt is free again exactly at the end of its 24 hours.
DuplicateWithinDay(r) ==
  \E i \in DOMAIN ledger : /\ r # NoReference
                           /\ ledger[i].type = "STAMP_ISSUED"
                           /\ ledger[i].reference = r
                           /\ ledger[i].at > now - TicksPerDay

\* A receipt already used for a stamp within the last 24 hours, at the same
\* location and under the same key version: the lookup names all three.
DuplicateReference(r) ==
  \E i \in DOMAIN ledger : /\ r # NoReference
                           /\ ledger[i].type = "STAMP_ISSUED"
                           /\ ledger[i].reference = r
                           /\ ledger[i].at >= now - TicksPerDay

StampPolicyAllows(n) ==
  /\ n > 0 /\ n <= MaximumPerOperation
  /\ ~progress.ready
  /\ progress.stamps + n <= Goal
  /\ DailyCap # NoCap => GrossPositiveToday + n <= DailyCap

CanIssue(n, r) ==
  membership = "ACTIVE" /\ StampPolicyAllows(n) /\ ~DuplicateReference(r)

IssueStamps(n, r) ==
  /\ CanIssue(n, r)
  /\ ~EntitlementKeyTaken(progress.stamps + n)
  /\ AddStamps([Moving("STAMP_ISSUED", n) EXCEPT !.reference = r])
  /\ rejected' = "none"
  /\ UNCHANGED <<redemptions, membership, expiry, now>>

IssueRejected(n, r) ==
  /\ CanIssue(n, r)
  /\ EntitlementKeyTaken(progress.stamps + n)
  /\ rejected' = "ENTITLEMENT_KEY"
  /\ UNCHANGED <<ledger, progress, entitlements, redemptions, membership, expiry, now>>

\* Mutant: only a reward that nobody has used yet counts as earned.
UnusedAbove(n) ==
  \E t \in Thresholds : t > n /\ entitlements[<<CurrentCycle, t>>].status = "AVAILABLE"

\* A negative correction may not take back the threshold of an earned reward.
EarnedAbove(n) ==
  \E t \in Thresholds : /\ t > n
                        /\ entitlements[<<CurrentCycle, t>>].status \notin {"NONE", "VOIDED"}

CanAdjust(d) ==
  /\ membership = "ACTIVE"
  /\ ~progress.ready
  /\ progress.stamps + d \in 0..Goal
  /\ d < 0 => ~EarnedAbove(progress.stamps + d)

RaiseAdjustment(d) ==
  /\ d > 0 /\ CanAdjust(d)
  /\ ~EntitlementKeyTaken(progress.stamps + d)
  /\ AddStamps(Moving("MANUAL_STAMP_ADJUSTMENT", d))
  /\ rejected' = "none"
  /\ UNCHANGED <<redemptions, membership, expiry, now>>

RaiseRejected(d) ==
  /\ d > 0 /\ CanAdjust(d)
  /\ EntitlementKeyTaken(progress.stamps + d)
  /\ rejected' = "ENTITLEMENT_KEY"
  /\ UNCHANGED <<ledger, progress, entitlements, redemptions, membership, expiry, now>>

LowerAdjustment(d) ==
  /\ d < 0 /\ CanAdjust(d)
  /\ AppendOne(Moving("MANUAL_STAMP_ADJUSTMENT", d))
  /\ rejected' = "none"
  /\ UNCHANGED <<entitlements, redemptions, membership, expiry, now>>

-----------------------------------------------------------------------------
(* Redeeming.  The redemption takes the slot after the entitlement's       *)
(* count; redeeming the final reward also resets the cycle.                *)

Lapsed(k) == entitlements[k].expiresAt # 0 /\ entitlements[k].expiresAt <= now

CanRedeem(k) ==
  /\ membership = "ACTIVE"
  /\ entitlements[k].status \in Held
  /\ ~Lapsed(k)
  /\ entitlements[k].count < RedemptionLimit(k[2])

NextSlot(k) == entitlements[k].count + 1

\* Mutant: the last redemption is not recognised as the last.
CountOneMore(k, n) ==
  entitlements' = [entitlements EXCEPT ![k].count = n,
                     ![k].status = IF n > RedemptionLimit(k[2])
                                   THEN "REDEEMED" ELSE "PARTIALLY_REDEEMED"]

CountRedemption(k, n) ==
  entitlements' = [entitlements EXCEPT ![k].count = n,
                     ![k].status = IF n >= RedemptionLimit(k[2])
                                   THEN "REDEEMED" ELSE "PARTIALLY_REDEEMED"]

Redemption(type, k, slot, target) == Event(type, 0, k, slot, target, NoReference)

RedeemMilestone(k) ==
  /\ CanRedeem(k) /\ k[2] # Goal
  /\ redemptions[<<k, NextSlot(k)>>] = "NONE"
  /\ AppendOne(Redemption("REWARD_REDEEMED", k, NextSlot(k), 0))
  /\ redemptions' = [redemptions EXCEPT ![<<k, NextSlot(k)>>] = "COMPLETED"]
  /\ CountRedemption(k, NextSlot(k))
  /\ rejected' = "none"
  /\ UNCHANGED <<membership, expiry, now>>

RedeemFinal(k) ==
  /\ CanRedeem(k) /\ k[2] = Goal
  /\ redemptions[<<k, NextSlot(k)>>] = "NONE"
  /\ CurrentCycle < MaxCycles
  /\ AppendTwo(Redemption("REWARD_REDEEMED", k, NextSlot(k), 0),
               Redemption("CYCLE_RESET", k, NextSlot(k), 0))
  /\ redemptions' = [redemptions EXCEPT ![<<k, NextSlot(k)>>] = "COMPLETED"]
  /\ CountRedemption(k, NextSlot(k))
  /\ rejected' = "none"
  /\ UNCHANGED <<membership, expiry, now>>

\* The slot is taken for ever: the unique index also covers reversed rows.
RedeemRejected(k) ==
  /\ CanRedeem(k)
  /\ redemptions[<<k, NextSlot(k)>>] # "NONE"
  /\ rejected' = "REDEMPTION_KEY"
  /\ UNCHANGED <<ledger, progress, entitlements, redemptions, membership, expiry, now>>

-----------------------------------------------------------------------------
(* Reversing.  c is the command to reverse, that is the position of its    *)
(* first entry, which is the entry the reversal names as its target.       *)

EntriesOf(c) == {i \in DOMAIN ledger : ledger[i].command = c}

\* Mutant: corrections do not count as dependent events.
HasDependentOperations(c) ==
  \E i \in DOMAIN ledger :
    i > c /\ ledger[i].command # c /\ ledger[i].type # "MANUAL_STAMP_ADJUSTMENT"

HasDependentEvents(c) ==
  \E i \in DOMAIN ledger : i > c /\ ledger[i].command # c

UnlockedBy(c) == {ledger[i].key : i \in EntriesOf(c)} \ {NoKey}

ReversalAllowed(c) ==
  /\ membership = "ACTIVE"
  /\ ~\E i \in DOMAIN ledger : ledger[i].reversalOf = c
  /\ ~HasDependentEvents(c)
  /\ ledger[c].type = "STAMP_ISSUED" =>
       \A k \in UnlockedBy(c) : entitlements[k].count = 0
  /\ now - ledger[c].at <= ReversalWindow

ReverseStamp(c) ==
  /\ ledger[c].type = "STAMP_ISSUED" /\ ReversalAllowed(c)
  /\ AppendOne(Event("STAMP_REVERSED", -ledger[c].delta, NoKey, 0, c, NoReference))
  /\ entitlements' = [k \in Keys |->
                        IF k \in UnlockedBy(c) /\ entitlements[k].count = 0
                        THEN [entitlements[k] EXCEPT !.status = "VOIDED"]
                        ELSE entitlements[k]]
  /\ rejected' = "none"
  /\ UNCHANGED <<redemptions, membership, expiry, now>>

HasReset(c) == \E i \in EntriesOf(c) : ledger[i].type = "CYCLE_RESET"

\* Mutant: a returned reward always counts as partly redeemed.
ReturnPartly(k, slot) ==
  /\ entitlements' = [entitlements EXCEPT ![k].count = @ - 1,
                        ![k].status = "PARTIALLY_REDEEMED"]
  /\ redemptions' = [redemptions EXCEPT ![<<k, slot>>] = "REVERSED"]

ReturnReward(k, slot) ==
  LET n == IF entitlements[k].count = 0 THEN 0 ELSE entitlements[k].count - 1 IN
  /\ entitlements' = [entitlements EXCEPT ![k].count = n,
                        ![k].status = IF n = 0 THEN "AVAILABLE" ELSE "PARTIALLY_REDEEMED"]
  /\ redemptions' = [redemptions EXCEPT ![<<k, slot>>] = "REVERSED"]

ReverseRedemption(c) ==
  LET k == ledger[c].key
      slot == ledger[c].slot
      reversal == Redemption("REWARD_REDEMPTION_REVERSED", k, slot, c)
  IN
  /\ ledger[c].type = "REWARD_REDEEMED" /\ ReversalAllowed(c)
  /\ redemptions[<<k, slot>>] = "COMPLETED"
  /\ IF HasReset(c)
     THEN AppendTwo(reversal, Redemption("CYCLE_RESET_REVERSED", k, slot, c + 1))
     ELSE AppendOne(reversal)
  /\ ReturnReward(k, slot)
  /\ rejected' = "none"
  /\ UNCHANGED <<membership, expiry, now>>

-----------------------------------------------------------------------------
(* Membership status.                                                      *)

SetStatus(from, to, type) ==
  /\ membership \in from
  /\ AppendOne(Plain(type, NoKey))
  /\ membership' = to
  /\ rejected' = "none"
  /\ UNCHANGED <<entitlements, redemptions, expiry, now>>

Suspend == SetStatus({"ACTIVE"}, "SUSPENDED", "MEMBERSHIP_SUSPENDED")
Restore == SetStatus({"SUSPENDED"}, "ACTIVE", "MEMBERSHIP_RESTORED")
Revoke == SetStatus({"ACTIVE", "SUSPENDED"}, "REVOKED", "MEMBERSHIP_REVOKED")

-----------------------------------------------------------------------------
(* Reward expiry by the operational worker: a scan creates at most one     *)
(* command for an entitlement; executing the command expires the           *)
(* entitlement or finds it no longer eligible.                             *)

Expirable(k) == entitlements[k].status \in Held /\ Lapsed(k)

\* Mutant: the scan looks only at rewards nobody has used yet.
ScheduleUnused(k) ==
  /\ expiry[k] = "NONE" /\ Expirable(k) /\ entitlements[k].status = "AVAILABLE"
  /\ expiry' = [expiry EXCEPT ![k] = "PENDING"]
  /\ UNCHANGED <<ledger, progress, entitlements, redemptions, membership, now, rejected>>

ScheduleExpiry(k) ==
  /\ expiry[k] = "NONE" /\ Expirable(k)
  /\ expiry' = [expiry EXCEPT ![k] = "PENDING"]
  /\ UNCHANGED <<ledger, progress, entitlements, redemptions, membership, now, rejected>>

ExpireReward(k) ==
  /\ expiry[k] = "PENDING" /\ Expirable(k)
  /\ AppendOne(Plain("REWARD_EXPIRED", k))
  /\ entitlements' = [entitlements EXCEPT ![k].status = "EXPIRED"]
  /\ expiry' = [expiry EXCEPT ![k] = "COMPLETED"]
  /\ UNCHANGED <<redemptions, membership, now, rejected>>

CloseExpiry(k) ==
  /\ expiry[k] = "PENDING" /\ ~Expirable(k)
  /\ expiry' = [expiry EXCEPT ![k] = "COMPLETED"]
  /\ UNCHANGED <<ledger, progress, entitlements, redemptions, membership, now, rejected>>

Tick ==
  /\ now < MaxTime
  /\ now' = now + 1
  /\ UNCHANGED <<ledger, progress, entitlements, redemptions, membership, expiry, rejected>>

-----------------------------------------------------------------------------
(* The steps of the system.  MaxLedger bounds the ledger at which people   *)
(* still start an operation; the worker is not bounded.                    *)

Earn == \E n \in Amounts, r \in References \cup {NoReference} :
          IssueStamps(n, r) \/ IssueRejected(n, r)
Correct == \E d \in Corrections :
             RaiseAdjustment(d) \/ RaiseRejected(d) \/ LowerAdjustment(d)
Redeem == \E k \in Keys : RedeemMilestone(k) \/ RedeemFinal(k) \/ RedeemRejected(k)
ReverseOperation == \E c \in DOMAIN ledger : ReverseStamp(c) \/ ReverseRedemption(c)
ChangeMembershipStatus == Suspend \/ Restore \/ Revoke

Operate ==
  /\ Len(ledger) < MaxLedger
  /\ Earn \/ Correct \/ Redeem \/ ReverseOperation \/ ChangeMembershipStatus

ExpireRewards == \E k \in Keys : ScheduleExpiry(k) \/ ExpireReward(k) \/ CloseExpiry(k)

Next == Operate \/ ExpireRewards \/ Tick

Spec == Init /\ [][Next]_vars

\* The worker polls for ever: it does not put off an expiry it could make.
WorkerFairness ==
  \A k \in Keys : WF_vars(ScheduleExpiry(k) \/ ExpireReward(k) \/ CloseExpiry(k))

FairSpec == Spec /\ WorkerFairness

-----------------------------------------------------------------------------
(* Correctness.                                                            *)

\* The projection is what a rebuild of the ledger computes, and the rebuild
\* meets no event the reducer refuses: neither the operations' batches of
\* entries nor the way a reversal undoes a reset can make the two diverge.
ProjectionMatchesLedger ==
  /\ progress = RebuildProjection(ledger)
  /\ Replays(ledger)

\* A card is ready exactly when it is full, and never over-full.
ReadyExactlyAtGoal ==
  /\ progress.stamps \in 0..Goal
  /\ progress.ready <=> progress.stamps = Goal
  /\ progress.version = Len(ledger)

\* In the current cycle a reward is earned exactly when its threshold has been
\* reached; every earlier cycle has all its rewards; no later one has any.  A
\* correction or a reversal never strands a reward the card no longer backs,
\* and no reward is lost or earned twice in a cycle.
EarnedMatchesProgress ==
  \A k \in Keys :
    entitlements[k].status \notin {"NONE", "VOIDED"} <=>
      \/ k[1] < CurrentCycle
      \/ k[1] = CurrentCycle /\ k[2] <= progress.stamps

\* The final reward is open exactly in the current cycle of a ready card, and
\* it has been redeemed exactly in the completed cycles.
FinalRewardDrivesCycle ==
  \A c \in Cycles :
    /\ entitlements[FinalKey(c)].status = "AVAILABLE" <=>
         c = CurrentCycle /\ progress.ready
    /\ entitlements[FinalKey(c)].status = "REDEEMED" <=> c < CurrentCycle

\* The redemption count of an entitlement is the number of its redemptions
\* that were not reversed, its status says whether any are left, and it is
\* never redeemed more often than its reward allows.
RedemptionsCounted ==
  \A k \in Keys :
    LET done == {s \in Slots : redemptions[<<k, s>>] = "COMPLETED"} IN
    /\ entitlements[k].count = Cardinality(done)
    /\ entitlements[k].count <= RedemptionLimit(k[2])
    /\ entitlements[k].status = "REDEEMED" <=> entitlements[k].count = RedemptionLimit(k[2])
    /\ entitlements[k].status \in {"NONE", "AVAILABLE", "VOIDED"} => entitlements[k].count = 0
    /\ entitlements[k].status = "PARTIALLY_REDEEMED" => entitlements[k].count > 0

\* The service's own checks are enough: whenever they allow an operation, the
\* reducer accepts every entry it appends, so no operation fails half-way with
\* a ledger invariant error.
ChecksSuffice ==
  /\ \A k \in Keys : CanRedeem(k) /\ k[2] = Goal =>
       progress.ready /\ progress.stamps = Goal /\ k[1] = CurrentCycle
  /\ \A c \in DOMAIN ledger :
       /\ ledger[c].type = "STAMP_ISSUED" /\ ReversalAllowed(c) =>
            progress.stamps >= ledger[c].delta
       /\ ledger[c].type = "REWARD_REDEEMED" /\ ReversalAllowed(c) =>
            /\ redemptions[<<ledger[c].key, ledger[c].slot>>] = "COMPLETED"
            /\ HasReset(c) => /\ progress.stamps = 0 /\ ~progress.ready
                              /\ progress.completed >= 1

\* An entry is reversed at most once, by the operation that directly follows
\* its own: nothing was appended in between that could depend on it.
ReversalsAreImmediate ==
  \A i, j \in DOMAIN ledger :
    /\ ledger[i].reversalOf # 0 /\ ledger[j].reversalOf = ledger[i].reversalOf => i = j
    /\ ledger[i].reversalOf # 0 =>
         \A m \in (ledger[i].reversalOf)..i :
           ledger[m].command \in {ledger[ledger[i].reversalOf].command, ledger[i].command}

\* The gross number of stamps added on a day, reversed or not, is within the
\* cap right after every stamp issue of that day.
DailyCapRespected ==
  \A i \in DOMAIN ledger :
    ledger[i].type = "STAMP_ISSUED" /\ DailyCap # NoCap =>
      MapThenSumSet(LAMBDA j : ledger[j].delta,
                    {j \in 1..i : /\ ledger[j].type \in StampAdditions
                                  /\ ledger[j].delta > 0
                                  /\ Day(ledger[j].at) = Day(ledger[i].at)}) <= DailyCap

\* One receipt earns stamps once in 24 hours at one location and under one key
\* version, even when the first issue was reversed.  At another location, or
\* after a change of the key, it may earn again.
ReceiptsEarnOnce ==
  \A i, j \in DOMAIN ledger :
    /\ i < j /\ ledger[i].type = "STAMP_ISSUED" /\ ledger[j].type = "STAMP_ISSUED"
    /\ ledger[i].reference = ledger[j].reference /\ ledger[i].reference # NoReference
    => ledger[j].at - ledger[i].at > TicksPerDay

\* A revoked membership is closed: after its revocation only the worker still
\* appends, and only to expire a reward.
RevocationCloses ==
  \A i, j \in DOMAIN ledger :
    i < j /\ ledger[i].type = "MEMBERSHIP_REVOKED" => ledger[j].type = "REWARD_EXPIRED"

\* No step brings an expired or voided reward back, or redeems one that has
\* lapsed.
EndedRewardsStayEnded ==
  [][\A k \in Keys :
       /\ entitlements[k].status \in {"EXPIRED", "VOIDED"} =>
            entitlements'[k] = entitlements[k]
       /\ entitlements'[k].count > entitlements[k].count => ~Lapsed(k)]_vars

\* The membership implements the card: its final rewards are the redemptions
\* of final entitlements that were not reversed.
FinalRewardsHandedOut ==
  Cardinality({c \in Cycles : redemptions[<<FinalKey(c), 1>>] = "COMPLETED"})

Card == INSTANCE LoyaltyCard WITH stamps <- progress.stamps,
                                  completed <- progress.completed,
                                  rewards <- FinalRewardsHandedOut

ImplementsCard == Card!Spec

\* A reward that lapses while held, and whose expiry command has not been
\* closed yet, is expired by the worker or redeemed or reversed before.
LapsedRewardsExpire ==
  \A k \in Keys :
    (Expirable(k) /\ expiry[k] # "COMPLETED") ~> ~(Expirable(k) /\ expiry[k] # "COMPLETED")

\* What the documentation of rewards and corrections says of a crossed
\* threshold: it appends an unlock event and creates one entitlement.
CrossingUnlocks == rejected # "ENTITLEMENT_KEY"

\* What the documentation of redemption asks before it appends the redemption:
\* locations, expiry, the redemption count and any approval, nothing else.
AvailableRewardRedeems == rejected # "REDEMPTION_KEY"
=============================================================================
