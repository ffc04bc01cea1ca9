------------------------ MODULE MembershipLedger_proofs ------------------------
(***************************************************************************)
(* Proofs about MembershipLedger for every program, policy and bound: its  *)
(* safety properties, and that it implements LoyaltyCard.                  *)
(*                                                                         *)
(* Each lemma of an operation shows three things of its steps: the         *)
(* inductive invariant IInv holds again (one step for each conjunct), the  *)
(* card moves as LoyaltyCard allows (CardStep), and no reward that ended   *)
(* or lapsed changes hands (EndedKept).                                    *)
(*                                                                         *)
(* What is said of the whole ledger comes after that, in two parts that    *)
(* rest on IInv: that the projection is what a rebuild of the ledger       *)
(* computes, and what each entry says of the ones before it.               *)
(***************************************************************************)
EXTENDS MembershipLedgerInvariant, FoldFacts, SequenceTheorems, TLAPS

-----------------------------------------------------------------------------
(* Facts about the constants.                                              *)

LEMMA RewardFacts ==
  /\ Goal \in Nat /\ Goal >= 2
  /\ Len(Rewards) \in Nat \ {0} /\ DOMAIN Rewards = 1..Len(Rewards)
  /\ \A i \in DOMAIN Rewards : Rewards[i] \in Thresholds
  /\ Thresholds \subseteq 1..Goal /\ Goal \in Thresholds
<1>1. Rewards \in Seq(1..Goal) /\ Rewards # <<>> /\ Rewards[Len(Rewards)] = Goal
  BY RewardsAssumption
<1>2. Len(Rewards) \in Nat \ {0} /\ DOMAIN Rewards = 1..Len(Rewards)
  BY <1>1
<1>3. \A i \in DOMAIN Rewards : Rewards[i] \in 1..Goal
  BY <1>1, <1>2, ElementOfSeq
<1>4. Thresholds \subseteq 1..Goal /\ \A i \in DOMAIN Rewards : Rewards[i] \in Thresholds
  BY <1>3 DEF Thresholds
<1>5. Goal \in Thresholds
  <2>1. Len(Rewards) \in DOMAIN Rewards
    BY <1>2
  <2>2. QED
    BY <1>1, <1>4, <2>1
<1>6. QED
  BY <1>2, <1>4, <1>5, GoalAssumption

LEMMA LimitFacts == \A t \in Thresholds : RedemptionLimit(t) \in Nat /\ RedemptionLimit(t) >= 1
  BY PolicyAssumption DEF RedemptionLimit

\* The rewards ascend, so the ones up to n are the first Reached(n) of them.
LEMMA ReachedIsPrefix ==
  ASSUME NEW n \in Int
  PROVE  /\ Reached(n) \in 0..Len(Rewards)
         /\ \A i \in DOMAIN Rewards : Rewards[i] <= n <=> i <= Reached(n)
<1> DEFINE L == Len(Rewards)
           Below == {i \in DOMAIN Rewards : Rewards[i] <= n}
<1>1. L \in Nat /\ DOMAIN Rewards = 1..L /\ \A i \in 1..L : Rewards[i] \in Int
  <2>1. \A i \in 1..L : Rewards[i] \in 1..Goal
    BY RewardFacts
  <2>2. QED
    BY <2>1, RewardFacts
<1>2. Reached(n) = Cardinality(Below)
  BY DEF Reached
<1>3. IsFiniteSet(1..L) /\ Cardinality(1..L) = L
  <2>1. \A m \in Nat : IsFiniteSet(1..m) /\ Cardinality(1..m) = m
    BY FS_Interval
  <2>2. QED
    BY <1>1, <2>1
<1>4. IsFiniteSet(Below) /\ Cardinality(Below) \in Nat /\ Cardinality(Below) <= L
  <2>1. Below \in SUBSET (1..L)
    BY <1>1
  <2>2. QED
    BY <1>3, <2>1, FS_Subset, FS_CardinalityType
<1>5. \A i, j \in 1..L : i < j => Rewards[i] < Rewards[j]
  BY <1>1, RewardsAssumption
<1>6. ASSUME NEW i \in 1..L, Rewards[i] <= n PROVE i <= Cardinality(Below)
  <2>1. 1..i \in SUBSET Below
    <3> SUFFICES ASSUME NEW j \in 1..i PROVE j \in 1..L /\ Rewards[j] <= n
      BY <1>1
    <3>1. QED
      BY <1>1, <1>5, <1>6
  <2>2. IsFiniteSet(1..i) /\ Cardinality(1..i) = i
    BY <1>1, FS_Interval
  <2>3. Cardinality(1..i) <= Cardinality(Below)
    BY <1>4, <2>1, FS_Subset
  <2>4. QED
    BY <2>2, <2>3
<1>7. ASSUME NEW i \in 1..L, ~(Rewards[i] <= n) PROVE ~(i <= Cardinality(Below))
  <2>1. Below \in SUBSET (1..(i - 1))
    <3> SUFFICES ASSUME NEW j \in 1..L, Rewards[j] <= n PROVE j \in 1..(i - 1)
      BY <1>1
    <3>1. QED
      BY <1>1, <1>5, <1>7
  <2>2. IsFiniteSet(1..(i - 1)) /\ Cardinality(1..(i - 1)) = i - 1
    <3>1. i - 1 \in Nat
      BY <1>1
    <3>2. \A m \in Nat : IsFiniteSet(1..m) /\ Cardinality(1..m) = m
      BY FS_Interval
    <3>3. QED
      BY <3>1, <3>2
  <2>3. Cardinality(Below) <= Cardinality(1..(i - 1))
    BY <2>1, <2>2, FS_Subset
  <2>4. QED
    BY <1>1, <1>4, <2>2, <2>3
<1>8. QED
  BY <1>1, <1>2, <1>4, <1>6, <1>7

-----------------------------------------------------------------------------
(* Entries and projections of one step.                                    *)

LEMMA EventIsEntry ==
  ASSUME TypeOK, CycleBound,
         NEW type \in EventTypes, NEW delta \in Int, NEW key \in Keys \cup {NoKey},
         NEW slot \in Nat, NEW reversalOf \in Nat,
         NEW reference \in References \cup {NoReference}
  PROVE  Event(type, delta, key, slot, reversalOf, reference) \in Entry
  BY BoundsAssumption DEF TypeOK, CycleBound, Event, Entry, CurrentCycle, Projection

LEMMA CurrentKeys ==
  ASSUME TypeOK, CycleBound
  PROVE  /\ CurrentCycle \in Cycles /\ CurrentCycle = progress.completed + 1
         /\ \A t \in Thresholds : <<CurrentCycle, t>> \in Keys
         /\ NoKey \notin Keys
<1>1. CurrentCycle \in Cycles
  BY BoundsAssumption DEF TypeOK, CycleBound, CurrentCycle, Cycles, Projection
<1>2. NoKey \notin Keys
  BY DEF Keys, Cycles, NoKey
<1>3. QED
  BY <1>1, <1>2 DEF Keys, CurrentCycle

LEMMA UnlockEntries ==
  ASSUME TypeOK, CycleBound,
         NEW prior \in 0..Goal, NEW next \in 0..Goal, prior < next
  PROVE  /\ Unlocks(prior, next) \in Seq(Entry)
         /\ Len(Unlocks(prior, next)) \in Nat
         /\ \A i \in 1..Len(Unlocks(prior, next)) :
              LET u == Unlocks(prior, next)[i] IN
              /\ \E t \in CrossedRewardThresholds(prior, next) : u.key = <<CurrentCycle, t>>
              /\ u = Plain(u.type, u.key)
              /\ u.type \in {"FINAL_REWARD_UNLOCKED", "MILESTONE_REWARD_UNLOCKED"}
         /\ \A t \in CrossedRewardThresholds(prior, next) :
              \E i \in 1..Len(Unlocks(prior, next)) :
                Unlocks(prior, next)[i].key = <<CurrentCycle, t>>
<1> DEFINE P == Reached(prior)
           m == Reached(next) - Reached(prior)
           t(i) == Rewards[P + i]
           U(i) == Plain(UnlockType(t(i)), <<CurrentCycle, t(i)>>)
<1>1. /\ P \in 0..Len(Rewards) /\ Reached(next) \in 0..Len(Rewards)
      /\ \A i \in DOMAIN Rewards : Rewards[i] <= prior <=> i <= P
      /\ \A i \in DOMAIN Rewards : Rewards[i] <= next <=> i <= Reached(next)
  <2>1. prior \in Int /\ next \in Int
    BY RewardFacts
  <2>2. QED
    BY <2>1, ReachedIsPrefix
<1>2. m \in Nat
  <2>1. CASE P = 0
    BY <1>1, <2>1
  <2>2. CASE P # 0
    <3>1. P \in DOMAIN Rewards /\ Rewards[P] \in 1..Goal
      <4>1. P \in 1..Len(Rewards)
        BY <1>1, <2>2, RewardFacts
      <4>2. QED
        BY <4>1, RewardFacts
    <3>2. Rewards[P] <= prior
      BY <1>1, <3>1
    <3>3. Rewards[P] <= next
      BY <3>1, <3>2, RewardFacts
    <3>4. P <= Reached(next)
      BY <1>1, <3>1, <3>3
    <3>5. QED
      BY <1>1, <3>4
  <2>3. QED
    BY <2>1, <2>2
<1>3. \A i \in 1..m : t(i) \in CrossedRewardThresholds(prior, next)
  <2> SUFFICES ASSUME NEW i \in 1..m PROVE t(i) \in Thresholds /\ prior < t(i) /\ t(i) <= next
    BY DEF CrossedRewardThresholds
  <2>1. P + i \in DOMAIN Rewards /\ P < P + i /\ P + i <= Reached(next)
    BY <1>1, <1>2, RewardFacts
  <2>2. t(i) \in Thresholds /\ t(i) \in 1..Goal
    BY <2>1, RewardFacts
  <2>3. ~(P + i <= P)
    BY <1>1, <2>1
  <2>4. QED
    BY <1>1, <2>1, <2>2, <2>3, RewardFacts
<1>4. \A i \in 1..m : U(i) \in Entry
  <2> SUFFICES ASSUME NEW i \in 1..m PROVE U(i) \in Entry
    OBVIOUS
  <2>1. <<CurrentCycle, t(i)>> \in Keys
    BY <1>3, CurrentKeys DEF CrossedRewardThresholds
  <2>2. UnlockType(t(i)) \in EventTypes
    BY DEF UnlockType, EventTypes, NeutralEvents
  <2>3. QED
    BY <2>1, <2>2, EventIsEntry DEF Plain
<1>5. Unlocks(prior, next) = [i \in 1..m |-> U(i)]
  BY DEF Unlocks
<1> HIDE DEF U, m, t
<1>6. Unlocks(prior, next) \in Seq(Entry) /\ Len(Unlocks(prior, next)) = m
  <2>1. Unlocks(prior, next) \in [1..m -> Entry]
    BY <1>4, <1>5
  <2>2. QED
    BY <1>2, <2>1
<1>7. \A i \in 1..m : /\ U(i).key = <<CurrentCycle, t(i)>>
                       /\ U(i).type = UnlockType(t(i))
                       /\ U(i) = Plain(U(i).type, U(i).key)
  BY DEF U, Plain, Event
<1>8. ASSUME NEW r \in CrossedRewardThresholds(prior, next)
      PROVE  \E i \in 1..m : t(i) = r
  <2>1. PICK j \in DOMAIN Rewards : Rewards[j] = r
    BY <1>8 DEF CrossedRewardThresholds, Thresholds
  <2>2. r \in 1..Goal /\ ~(r <= prior) /\ r <= next
    BY <1>8, RewardFacts DEF CrossedRewardThresholds
  <2>3. ~(j <= P) /\ j <= Reached(next)
    BY <1>1, <2>1, <2>2
  <2>4. j - P \in 1..m /\ P + (j - P) = j
    BY <1>1, <2>1, <2>3, RewardFacts DEF m
  <2>5. QED
    BY <2>1, <2>4 DEF t
<1>9. QED
  BY <1>2, <1>3, <1>5, <1>6, <1>7, <1>8 DEF UnlockType

LEMMA Reduced ==
  ASSUME NEW p \in Projection, NEW e, e.delta \in Int
  PROVE  LET r == ReduceProjectionEvent(p, e) IN
         /\ r \in Projection /\ r.version = p.version + 1
         /\ e.type \in NeutralEvents =>
              r.stamps = p.stamps /\ r.completed = p.completed /\ r.ready = p.ready
         /\ e.type \in StampAdditions \cup {"STAMP_REVERSED"} =>
              /\ r.stamps = p.stamps + e.delta /\ r.completed = p.completed
              /\ r.ready = (p.stamps + e.delta = Goal)
         /\ e.type = "CYCLE_RESET" =>
              r.stamps = 0 /\ r.completed = p.completed + 1 /\ r.ready = FALSE
         /\ e.type = "CYCLE_RESET_REVERSED" =>
              r.stamps = Goal /\ r.completed = p.completed - 1 /\ r.ready = TRUE
<1>1. /\ e.type \in NeutralEvents =>
           /\ StampsAfter(p, e) = p.stamps /\ CompletedAfter(p, e) = p.completed
           /\ ReadyAfter(p, e) = p.ready
      /\ e.type \in StampAdditions \cup {"STAMP_REVERSED"} =>
           /\ StampsAfter(p, e) = p.stamps + e.delta /\ CompletedAfter(p, e) = p.completed
           /\ ReadyAfter(p, e) = (p.stamps + e.delta = Goal)
      /\ e.type = "CYCLE_RESET" =>
           /\ StampsAfter(p, e) = 0 /\ CompletedAfter(p, e) = p.completed + 1
           /\ ReadyAfter(p, e) = FALSE
      /\ e.type = "CYCLE_RESET_REVERSED" =>
           /\ StampsAfter(p, e) = Goal /\ CompletedAfter(p, e) = p.completed - 1
           /\ ReadyAfter(p, e) = TRUE
  BY DEF StampsAfter, CompletedAfter, ReadyAfter, MovesStamps, NeutralEvents, StampAdditions
<1>2. /\ StampsAfter(p, e) \in Int /\ CompletedAfter(p, e) \in Int
      /\ ReadyAfter(p, e) \in BOOLEAN
  <2>1. CASE MovesStamps(e)
    <3>1. StampsAfter(p, e) \in Int /\ CompletedAfter(p, e) \in Int
      BY <1>1, <2>1 DEF MovesStamps, Projection
    <3>2. ReadyAfter(p, e) = (p.stamps + e.delta = Goal)
      BY <1>1, <2>1, Zenon DEF MovesStamps
    <3>3. ReadyAfter(p, e) \in BOOLEAN
      BY <3>2, Zenon
    <3>4. QED
      BY <3>1, <3>3
  <2>2. CASE e.type = "CYCLE_RESET" \/ e.type = "CYCLE_RESET_REVERSED"
    <3>1. StampsAfter(p, e) \in Int /\ CompletedAfter(p, e) \in Int
      BY <1>1, <2>2, GoalAssumption DEF Projection
    <3>2. ReadyAfter(p, e) = FALSE \/ ReadyAfter(p, e) = TRUE
      BY <1>1, <2>2, Zenon
    <3>3. QED
      BY <3>1, <3>2, Zenon
  <2>3. CASE ~MovesStamps(e) /\ e.type \notin {"CYCLE_RESET", "CYCLE_RESET_REVERSED"}
    <3>1. StampsAfter(p, e) = p.stamps /\ CompletedAfter(p, e) = p.completed
      BY <2>3 DEF StampsAfter, CompletedAfter
    <3>2. ReadyAfter(p, e) \in BOOLEAN
      <4>1. CASE e.type = "FINAL_REWARD_UNLOCKED"
        BY <2>3, <4>1 DEF ReadyAfter
      <4>2. CASE e.type # "FINAL_REWARD_UNLOCKED"
        BY <2>3, <4>2 DEF ReadyAfter, Projection
      <4>3. QED
        BY <4>1, <4>2
    <3>3. QED
      BY <3>1, <3>2 DEF Projection
  <2>4. QED
    BY <2>1, <2>2, <2>3
<1>3. QED
  BY <1>1, <1>2 DEF ReduceProjectionEvent, Projection

\* The entries of an operation follow the ledger and belong to a command of
\* their own, on which every older command then depends.
LEMMA Appended ==
  ASSUME TypeOK, NEW es \in Seq(Entry), es # <<>>, ledger' = ledger \o es,
         \A i \in 1..Len(es) : es[i].command = Len(ledger) + 1
  PROVE  /\ ledger' \in Seq(Entry) /\ Len(ledger') = Len(ledger) + Len(es)
         /\ DOMAIN ledger = 1..Len(ledger) /\ DOMAIN ledger' = 1..Len(ledger')
         /\ Len(ledger) \in Nat /\ Len(es) \in Nat \ {0}
         /\ \A i \in DOMAIN ledger : ledger'[i] = ledger[i]
         /\ \A i \in 1..Len(es) : ledger'[Len(ledger) + i] = es[i]
         /\ \A i \in DOMAIN ledger' \ DOMAIN ledger :
              /\ i - Len(ledger) \in 1..Len(es)
              /\ ledger'[i] = es[i - Len(ledger)]
         /\ \A c \in DOMAIN ledger : HasDependentEvents(c)'
<1>1. ledger \in Seq(Entry) /\ Len(ledger) \in Nat /\ Len(es) \in Nat \ {0}
  BY DEF TypeOK
<1>2. /\ ledger' \in Seq(Entry) /\ Len(ledger') = Len(ledger) + Len(es)
      /\ DOMAIN ledger = 1..Len(ledger) /\ DOMAIN ledger' = 1..Len(ledger')
  BY <1>1
<1>3. /\ \A i \in DOMAIN ledger : ledger'[i] = ledger[i]
      /\ \A i \in 1..Len(es) : ledger'[Len(ledger) + i] = es[i]
      /\ \A i \in DOMAIN ledger' \ DOMAIN ledger :
           /\ i - Len(ledger) \in 1..Len(es)
           /\ ledger'[i] = es[i - Len(ledger)]
  BY <1>1, <1>2
<1>4. ASSUME NEW c \in DOMAIN ledger PROVE HasDependentEvents(c)'
  <2>1. Len(ledger) + 1 \in DOMAIN ledger' /\ ledger'[Len(ledger) + 1].command = Len(ledger) + 1
    BY <1>1, <1>2, <1>3
  <2>2. Len(ledger) + 1 > c /\ Len(ledger) + 1 # c
    BY <1>1, <1>2
  <2>3. \E i \in DOMAIN ledger' : i > c /\ ledger'[i].command # c
    BY <2>1, <2>2
  <2>4. QED
    BY <2>3 DEF HasDependentEvents
<1>5. QED
  BY <1>1, <1>2, <1>3, <1>4

-----------------------------------------------------------------------------
(* What a step does: to the card, as LoyaltyCard promises, and to a reward *)
(* that has ended or lapsed.                                               *)

CardStep ==
  \/ progress'.completed = progress.completed
  \/ /\ progress.stamps = Goal /\ progress'.stamps = 0
     /\ progress'.completed = progress.completed + 1
  \/ /\ progress.stamps = 0 /\ progress.completed > 0 /\ progress'.stamps = Goal
     /\ progress'.completed = progress.completed - 1

EndedKept ==
  \A k \in Keys :
    /\ entitlements[k].status \in {"EXPIRED", "VOIDED"} => entitlements'[k] = entitlements[k]
    /\ entitlements'[k].count > entitlements[k].count => ~Lapsed(k)

\* It is enough to look at the rewards a step changes.
LEMMA EndedByChanges ==
  ASSUME TypeOK,
         \A k \in Keys : entitlements'[k] # entitlements[k] =>
           /\ entitlements[k].status \notin {"EXPIRED", "VOIDED"}
           /\ entitlements'[k].count > entitlements[k].count => ~Lapsed(k)
  PROVE  EndedKept
<1>1. \A k \in Keys : entitlements[k].count \in Nat
  BY DEF TypeOK, Entitlement
<1>2. QED
  BY <1>1 DEF EndedKept

-----------------------------------------------------------------------------
(* Facts used by the step lemmas.                                          *)

LEMMA SlotFacts ==
  /\ IsFiniteSet(Slots) /\ Slots \subseteq Nat \ {0}
  /\ \A t \in Thresholds : 1..RedemptionLimit(t) \subseteq Slots
<1> DEFINE Ranges == {1..RedemptionLimit(t) : t \in Thresholds}
<1>1. IsFiniteSet(Thresholds)
  <2>1. IsFiniteSet(1..Goal)
    BY RewardFacts, FS_Interval
  <2>2. QED
    BY <2>1, RewardFacts, FS_Subset
<1>2. \A t \in Thresholds : RedemptionLimit(t) \in Nat
  BY LimitFacts
<1>3. IsFiniteSet(Ranges)
  <2> DEFINE f == [t \in Thresholds |-> 1..RedemptionLimit(t)]
  <2>1. f \in [Thresholds -> Ranges] /\ \A R \in Ranges : \E t \in Thresholds : f[t] = R
    OBVIOUS
  <2>2. f \in Surjection(Thresholds, Ranges)
    BY <2>1 DEF Surjection
  <2>3. QED
    BY <1>1, <2>2, FS_Surjection
<1>4. \A R \in Ranges : IsFiniteSet(R) /\ R \subseteq Nat \ {0}
  <2> SUFFICES ASSUME NEW t \in Thresholds
               PROVE  IsFiniteSet(1..RedemptionLimit(t)) /\ 1..RedemptionLimit(t) \subseteq Nat \ {0}
    OBVIOUS
  <2>1. RedemptionLimit(t) \in Nat
    BY <1>2
  <2>2. \A a, b \in Int : IsFiniteSet(a..b)
    BY FS_Interval
  <2>3. QED
    BY <2>1, <2>2
<1>5. IsFiniteSet(UNION Ranges)
  BY <1>3, <1>4, FS_UNION
<1>6. Slots = UNION Ranges
  BY DEF Slots
<1>7. QED
  BY <1>4, <1>5, <1>6

\* Steps that leave the ledger, the card and its rewards alone.
LEMMA QuietStep ==
  ASSUME IInv, TypeOK', UNCHANGED <<ledger, progress, entitlements, redemptions>>
  PROVE  IInv' /\ CardStep /\ EndedKept
<1> USE DEF IInv
<1>1. CycleBound' /\ ReadyExactlyAtGoal' /\ CommandsPast'
  BY DEF CycleBound, ReadyExactlyAtGoal, CommandsPast
<1>2. \A c : /\ HasDependentEvents(c)' <=> HasDependentEvents(c)
             /\ HasReset(c)' <=> HasReset(c)
             /\ UnlockedBy(c)' = UnlockedBy(c)
  BY DEF HasDependentEvents, HasReset, UnlockedBy, EntriesOf
<1>3. StampTail' /\ RedeemTail'
  BY <1>2 DEF StampTail, StampTailAt, RedeemTail, RedeemTailAt, CurrentCycle
<1>4. /\ EarnedMatchesProgress' /\ FinalRewardDrivesCycle'
      /\ RedemptionsCounted' /\ FinalNeverLapses' /\ SlotsWithinLimit'
  BY DEF EarnedMatchesProgress, FinalRewardDrivesCycle, RedemptionsCounted, FinalNeverLapses,
         SlotsWithinLimit, CurrentCycle
<1>5. CardStep
  BY DEF CardStep
<1>6. EndedKept
  BY EndedByChanges DEF IInv
<1>7. QED
  BY <1>1, <1>3, <1>4, <1>5, <1>6

\* Appending an operation keeps what is known of commands and their tails, if
\* it holds of the appended command itself: on every older command another one
\* depends now.
LEMMA TailsAppended ==
  ASSUME TypeOK, CommandsPast, RedeemTail,
         NEW es \in Seq(Entry), es # <<>>, ledger' = ledger \o es,
         \A i \in 1..Len(es) : es[i].command = Len(ledger) + 1,
         \A i \in 2..Len(es) : es[i].type \notin {"STAMP_ISSUED", "REWARD_REDEEMED"},
         NEW c \in Nat, c = Len(ledger) + 1,
         es[1].type = "STAMP_ISSUED" => StampTailAt(c)',
         es[1].type = "REWARD_REDEEMED" => RedeemTailAt(c)'
  PROVE  CommandsPast' /\ StampTail' /\ RedeemTail'
<1> DEFINE n == Len(ledger)
<1>1. /\ ledger' \in Seq(Entry) /\ Len(ledger') = n + Len(es)
      /\ DOMAIN ledger = 1..n /\ DOMAIN ledger' = 1..Len(ledger')
      /\ n \in Nat /\ Len(es) \in Nat \ {0}
      /\ \A i \in DOMAIN ledger : ledger'[i] = ledger[i]
      /\ \A i \in DOMAIN ledger' \ DOMAIN ledger :
           i - n \in 1..Len(es) /\ ledger'[i] = es[i - n]
      /\ \A b \in DOMAIN ledger : HasDependentEvents(b)'
  BY Appended
<1> HIDE DEF n
<1>2. ASSUME NEW i \in DOMAIN ledger', i \notin DOMAIN ledger
      PROVE  /\ ledger'[i].command = n + 1 /\ i \in Nat /\ n + 1 <= i
             /\ ledger'[i].type \in {"STAMP_ISSUED", "REWARD_REDEEMED"} => i = n + 1
             /\ i = n + 1 => ledger'[i] = es[1]
  <2>1. i - n \in 1..Len(es) /\ ledger'[i] = es[i - n] /\ i \in Nat
    BY <1>1, <1>2
  <2>2. i - n = 1 \/ i - n \in 2..Len(es)
    BY <1>1, <2>1
  <2>3. QED
    BY <1>1, <2>1, <2>2 DEF n
<1>3. CommandsPast'
  <2> SUFFICES ASSUME NEW i \in DOMAIN ledger'
               PROVE  /\ ledger'[i].command \in 1..i
                      /\ ledger'[i].type \in {"STAMP_ISSUED", "REWARD_REDEEMED"} =>
                           ledger'[i].command = i
    BY DEF CommandsPast
  <2>1. CASE i \in DOMAIN ledger
    BY <1>1, <2>1 DEF CommandsPast
  <2>2. CASE i \notin DOMAIN ledger
    <3>1. /\ ledger'[i].command = n + 1 /\ i \in Nat /\ n + 1 <= i /\ n \in Nat
          /\ ledger'[i].type \in {"STAMP_ISSUED", "REWARD_REDEEMED"} => i = n + 1
      BY <1>1, <1>2, <2>2
    <3>2. n + 1 \in 1..i
      BY <3>1
    <3>3. QED
      BY <3>1, <3>2
  <2>3. QED
    BY <2>1, <2>2
<1>4. StampTail'
  <2> SUFFICES ASSUME NEW i \in DOMAIN ledger', ledger'[i].type = "STAMP_ISSUED"
               PROVE  StampTailAt(i)'
    BY DEF StampTail
  <2>1. CASE i \in DOMAIN ledger
    BY <1>1, <2>1 DEF StampTailAt
  <2>2. CASE i \notin DOMAIN ledger
    BY <1>2, <2>2 DEF n
  <2>3. QED
    BY <2>1, <2>2
<1>5. RedeemTail'
  <2> SUFFICES ASSUME NEW i \in DOMAIN ledger', ledger'[i].type = "REWARD_REDEEMED"
               PROVE  RedeemTailAt(i)'
    BY DEF RedeemTail
  <2>1. CASE i \in DOMAIN ledger
    <3>1. RedeemTailAt(i) /\ ledger'[i] = ledger[i]
      BY <1>1, <2>1 DEF RedeemTail
    <3>2. QED
      BY <1>1, <2>1, <3>1 DEF RedeemTailAt
  <2>2. CASE i \notin DOMAIN ledger
    BY <1>2, <2>2 DEF n
  <2>3. QED
    BY <2>1, <2>2
<1>6. QED
  BY <1>3, <1>4, <1>5

\* The entries of the command that is being appended are the appended ones.
LEMMA AppendedEntries ==
  ASSUME TypeOK, CommandsPast,
         NEW es \in Seq(Entry), es # <<>>, ledger' = ledger \o es,
         \A i \in 1..Len(es) : es[i].command = Len(ledger) + 1,
         NEW c \in Nat, c = Len(ledger) + 1
  PROVE  /\ c \in DOMAIN ledger' /\ ledger'[c] = es[1]
         /\ \A i : i \in EntriesOf(c)' <=> i \in DOMAIN ledger' /\ i >= c
         /\ \A i \in EntriesOf(c)' : i - Len(ledger) \in 1..Len(es)
                                      /\ ledger'[i] = es[i - Len(ledger)]
         /\ \A j \in 1..Len(es) : \E i \in EntriesOf(c)' : ledger'[i] = es[j]
<1> DEFINE n == Len(ledger)
<1>1. /\ ledger' \in Seq(Entry) /\ Len(ledger') = n + Len(es)
      /\ DOMAIN ledger = 1..n /\ DOMAIN ledger' = 1..Len(ledger')
      /\ n \in Nat /\ Len(es) \in Nat \ {0}
      /\ \A i \in DOMAIN ledger : ledger'[i] = ledger[i]
      /\ \A i \in 1..Len(es) : ledger'[n + i] = es[i]
      /\ \A i \in DOMAIN ledger' \ DOMAIN ledger :
           i - n \in 1..Len(es) /\ ledger'[i] = es[i - n]
  BY Appended
<1>2. EntriesOf(c)' = {i \in DOMAIN ledger' : ledger'[i].command = n + 1}
  BY DEF EntriesOf
<1> HIDE DEF n
<1>3. \A i \in DOMAIN ledger : ledger'[i].command # n + 1 /\ i < c
  <2> SUFFICES ASSUME NEW i \in DOMAIN ledger PROVE ledger'[i].command # n + 1 /\ i < c
    OBVIOUS
  <2>1. ledger[i].command \in 1..i /\ i \in 1..n
    BY <1>1 DEF CommandsPast
  <2>2. QED
    BY <1>1, <2>1 DEF n
<1>4. \A i \in DOMAIN ledger' \ DOMAIN ledger : ledger'[i].command = n + 1 /\ i >= c
  <2> SUFFICES ASSUME NEW i \in DOMAIN ledger' \ DOMAIN ledger
               PROVE  ledger'[i].command = n + 1 /\ i >= c
    OBVIOUS
  <2>1. i - n \in 1..Len(es) /\ ledger'[i] = es[i - n] /\ i \in Nat
    BY <1>1
  <2>2. QED
    BY <1>1, <2>1 DEF n
<1>5. \A i : i \in EntriesOf(c)' <=> i \in DOMAIN ledger' /\ i >= c
  <2> SUFFICES ASSUME NEW i \in DOMAIN ledger' PROVE ledger'[i].command = n + 1 <=> i >= c
    BY <1>2
  <2>1. i \in Nat /\ c \in Nat
    BY <1>1
  <2>2. CASE i \in DOMAIN ledger
    BY <1>3, <2>1, <2>2
  <2>3. CASE i \notin DOMAIN ledger
    BY <1>4, <2>3
  <2>4. QED
    BY <2>2, <2>3
<1>6. \A i \in EntriesOf(c)' : i \in DOMAIN ledger' \ DOMAIN ledger
  BY <1>2, <1>3
<1>7. ASSUME NEW j \in 1..Len(es) PROVE \E i \in EntriesOf(c)' : ledger'[i] = es[j]
  <2>1. n + j \in DOMAIN ledger' /\ ledger'[n + j] = es[j]
    BY <1>1
  <2>2. es[j].command = n + 1
    BY DEF n
  <2>3. QED
    BY <1>2, <2>1, <2>2
<1>8. c \in DOMAIN ledger' /\ ledger'[c] = es[1]
  <2>1. 1 \in 1..Len(es)
    BY <1>1
  <2>2. n + 1 \in DOMAIN ledger' /\ ledger'[n + 1] = es[1]
    BY <1>1, <2>1
  <2>3. QED
    BY <2>2 DEF n
<1>9. QED
  BY <1>1, <1>5, <1>6, <1>7, <1>8 DEF n

-----------------------------------------------------------------------------
(* The steps that append.                                                  *)

\* Adding stamps: the rewards it crosses were not earned in this cycle, and
\* they are the ones its reversal would void.
LEMMA Earning ==
  ASSUME IInv, NEW e \in Entry, e.type \in StampAdditions, e.delta > 0, e.key = NoKey,
         e.command = Len(ledger) + 1,
         ~EntitlementKeyTaken(progress.stamps + e.delta), AddStamps(e), rejected' = "none",
         UNCHANGED <<redemptions, membership, expiry, now>>
  PROVE  IInv' /\ CardStep /\ EndedKept
<1> DEFINE s == progress.stamps
           next == progress.stamps + e.delta
           unlocks == Unlocks(s, next)
           es == <<e>> \o unlocks
<1>1. TypeOK /\ CycleBound /\ CommandsPast /\ RedeemTail
  BY DEF IInv
<1>2. /\ s \in 0..Goal /\ next \in 0..Goal /\ s < next /\ next - e.delta = s
      /\ e.delta \in 1..next
  <2>1. s \in 0..Goal /\ e.delta \in Int
    BY DEF IInv, ReadyExactlyAtGoal, Entry
  <2>2. next \in 0..Goal
    BY DEF AddStamps, Reducible, StampsAccepted
  <2>3. QED
    BY <2>1, <2>2, RewardFacts
<1>3. /\ unlocks \in Seq(Entry) /\ Len(unlocks) \in Nat
      /\ \A i \in 1..Len(unlocks) :
           /\ \E t \in CrossedRewardThresholds(s, next) : unlocks[i].key = <<CurrentCycle, t>>
           /\ unlocks[i] = Plain(unlocks[i].type, unlocks[i].key)
           /\ unlocks[i].type \in {"FINAL_REWARD_UNLOCKED", "MILESTONE_REWARD_UNLOCKED"}
      /\ \A t \in CrossedRewardThresholds(s, next) :
           \E i \in 1..Len(unlocks) : unlocks[i].key = <<CurrentCycle, t>>
  BY <1>1, <1>2, UnlockEntries
<1>4. /\ ledger' = ledger \o es
      /\ progress.version = Len(ledger)
      /\ progress' = AfterUnlocks(ReduceProjectionEvent(progress, e), unlocks)
      /\ entitlements' = [k \in Keys |-> IF k \in KeysCrossed(next)
                                         THEN NewEntitlement(k[2]) ELSE entitlements[k]]
  BY DEF AddStamps, AppendEntries
<1>5. \A k \in Keys : k \in KeysCrossed(next) <=> k[1] = CurrentCycle /\ s < k[2] /\ k[2] <= next
  BY DEF KeysCrossed, CrossedRewardThresholds, Keys
<1> HIDE DEF unlocks
<1>6. /\ es \in Seq(Entry) /\ es # <<>> /\ Len(es) = Len(unlocks) + 1 /\ es[1] = e
      /\ \A i \in 2..Len(es) : i - 1 \in 1..Len(unlocks) /\ es[i] = unlocks[i - 1]
      /\ \A i \in 1..Len(unlocks) : i + 1 \in 1..Len(es) /\ es[i + 1] = unlocks[i]
  BY <1>3
<1>7. /\ \A i \in 2..Len(es) : es[i].type \in {"FINAL_REWARD_UNLOCKED", "MILESTONE_REWARD_UNLOCKED"}
      /\ \A i \in 2..Len(es) : es[i].command = Len(ledger) + 1
  <2>1. \A type, key : Plain(type, key).command = Len(ledger) + 1
    BY DEF Plain, Event
  <2> SUFFICES ASSUME NEW i \in 2..Len(es)
               PROVE  /\ es[i].type \in {"FINAL_REWARD_UNLOCKED", "MILESTONE_REWARD_UNLOCKED"}
                      /\ es[i].command = Len(ledger) + 1
    OBVIOUS
  <2>2. PICK j \in 1..Len(unlocks) : es[i] = unlocks[j]
    BY <1>6
  <2>3. QED
    BY <1>3, <2>1, <2>2
<1> HIDE DEF es
<1>8. \A i \in 1..Len(es) : es[i].command = Len(ledger) + 1
  <2> SUFFICES ASSUME NEW i \in 1..Len(es) PROVE es[i].command = Len(ledger) + 1
    OBVIOUS
  <2>1. i = 1 \/ i \in 2..Len(es)
    BY <1>3, <1>6
  <2>2. QED
    BY <1>6, <1>7, <2>1
<1>9. /\ ledger' \in Seq(Entry) /\ Len(ledger') = Len(ledger) + Len(es)
  BY <1>1, <1>4, <1>6, <1>8, Appended
<1>10. /\ progress' \in Projection /\ progress'.stamps = next
       /\ progress'.completed = progress.completed
       /\ progress'.version = Len(ledger')
       /\ progress'.ready = (next = Goal)
  <2> DEFINE r == ReduceProjectionEvent(progress, e)
  <2>1. progress \in Projection /\ e.delta \in Int /\ Len(ledger) \in Nat
    BY <1>1 DEF TypeOK, Entry
  <2>2. /\ r \in Projection /\ r.version = progress.version + 1
        /\ r.stamps = next /\ r.completed = progress.completed
        /\ r.ready = (next = Goal)
    BY <2>1, Reduced, Zenon
  <2> HIDE DEF r
  <2>3. progress' = [r EXCEPT !.version = @ + Len(unlocks)]
    BY <1>4 DEF AfterUnlocks, r
  <2>4. /\ progress' \in Projection /\ progress'.stamps = next
        /\ progress'.completed = progress.completed
        /\ progress'.version = Len(ledger')
    <3>1. /\ progress' \in Projection /\ progress'.stamps = r.stamps
          /\ progress'.completed = r.completed
          /\ progress'.version = r.version + Len(unlocks)
      BY <1>3, <2>2, <2>3 DEF Projection
    <3>2. Len(ledger') = Len(ledger) + (Len(unlocks) + 1)
      BY <1>6, <1>9
    <3>3. r.version = Len(ledger) + 1
      BY <1>4, <2>2
    <3>4. progress'.version = Len(ledger')
      BY <1>3, <2>1, <3>1, <3>2, <3>3
    <3>5. QED
      BY <2>2, <3>1, <3>4
  <2>5. progress'.ready = r.ready
    BY <2>2, <2>3 DEF Projection
  <2>6. QED
    BY <2>2, <2>4, <2>5, Zenon
<1> HIDE DEF s, next
<1>11. \A k \in Keys : k \in KeysCrossed(next) => entitlements[k].status = "NONE" /\ entitlements[k].count = 0
  <2>1. \A k \in Keys : k \in KeysCrossed(next) => entitlements[k].status = "NONE"
    BY DEF EntitlementKeyTaken, next
  <2>2. QED
    BY <2>1 DEF IInv, RedemptionsCounted
<1>12. /\ entitlements' \in [Keys -> Entitlement]
       /\ \A k \in Keys : k \notin KeysCrossed(next) => entitlements'[k] = entitlements[k]
       /\ \A k \in Keys : k \in KeysCrossed(next) =>
            /\ entitlements'[k].status = "AVAILABLE" /\ entitlements'[k].count = 0
            /\ k[2] = Goal => entitlements'[k].expiresAt = 0
  <2>1. \A t \in Thresholds : NewEntitlement(t) \in Entitlement
    BY PolicyAssumption, <1>1 DEF NewEntitlement, Entitlement, EntitlementStatus, Held, TypeOK
  <2>2. \A k \in Keys : k[2] \in Thresholds
    BY DEF Keys
  <2>3. QED
    BY <1>1, <1>4, <2>1, <2>2 DEF TypeOK, NewEntitlement
<1>13. CurrentCycle' = CurrentCycle /\ CurrentCycle \in Cycles /\ CurrentCycle = progress.completed + 1
  BY <1>1, <1>10, CurrentKeys DEF CurrentCycle
<1>14. TypeOK'
  BY <1>1, <1>9, <1>10, <1>12 DEF TypeOK
<1>15. CycleBound'
  BY <1>1, <1>10 DEF CycleBound
<1>16. ReadyExactlyAtGoal'
  <2>1. progress'.ready <=> progress'.stamps = Goal
    BY <1>10, Zenon
  <2>2. QED
    BY <1>2, <1>10, <2>1 DEF ReadyExactlyAtGoal
<1>17. ASSUME NEW c \in Nat, c = Len(ledger) + 1, e.type = "STAMP_ISSUED" PROVE StampTailAt(c)'
  <2>1. /\ c \in DOMAIN ledger' /\ ledger'[c] = es[1]
        /\ \A i \in EntriesOf(c)' : i - Len(ledger) \in 1..Len(es)
                                     /\ ledger'[i] = es[i - Len(ledger)]
        /\ \A j \in 1..Len(es) : \E i \in EntriesOf(c)' : ledger'[i] = es[j]
    BY <1>1, <1>4, <1>6, <1>8, <1>17, AppendedEntries
  <2>2. UnlockedBy(c)' = {ledger'[i].key : i \in EntriesOf(c)'} \ {NoKey}
    BY DEF UnlockedBy
  <2>3. ASSUME NEW k \in UnlockedBy(c)' PROVE k \in KeysCrossed(next)
    <3>1. PICK i \in EntriesOf(c)' : k = ledger'[i].key /\ k # NoKey
      BY <2>2
    <3>2. PICK j \in 1..Len(es) : k = es[j].key
      BY <2>1, <3>1
    <3>3. j # 1
      BY <1>6, <3>1, <3>2
    <3>4. j \in 2..Len(es)
      BY <3>2, <3>3, <1>3, <1>6
    <3>5. k = unlocks[j - 1].key /\ j - 1 \in 1..Len(unlocks)
      BY <1>6, <3>2, <3>4
    <3>6. QED
      BY <1>3, <3>5 DEF KeysCrossed, s
  <2>4. ASSUME NEW k \in KeysCrossed(next) PROVE k \in UnlockedBy(c)'
    <3>1. PICK t \in CrossedRewardThresholds(s, next) : k = <<CurrentCycle, t>>
      BY DEF KeysCrossed, s
    <3>2. PICK j \in 1..Len(unlocks) : unlocks[j].key = k
      BY <1>3, <3>1
    <3>3. PICK i \in EntriesOf(c)' : ledger'[i].key = k
      <4>1. j + 1 \in 1..Len(es) /\ es[j + 1] = unlocks[j]
        BY <1>6
      <4>2. PICK i \in EntriesOf(c)' : ledger'[i] = es[j + 1]
        BY <2>1, <4>1
      <4>3. QED
        BY <3>2, <4>1, <4>2
    <3>4. k # NoKey
      BY <1>1, <3>1, CurrentKeys DEF CrossedRewardThresholds
    <3>5. QED
      BY <2>2, <3>3, <3>4
  <2>5. KeysCrossed(next) \subseteq Keys
    BY <1>1, CurrentKeys DEF KeysCrossed, CrossedRewardThresholds
  <2>6. ledger'[c].delta \in 1..progress'.stamps /\ progress'.stamps - ledger'[c].delta = s
    BY <1>2, <1>6, <1>10, <2>1
  <2>7. \A k \in Keys : k \in UnlockedBy(c)' <=>
          k[1] = CurrentCycle' /\ s < k[2] /\ k[2] <= progress'.stamps
    BY <1>5, <1>10, <1>13, <2>3, <2>4 DEF s, next
  <2>8. \A k \in UnlockedBy(c)' : entitlements'[k].status = "AVAILABLE"
    BY <1>12, <2>3, <2>5
  <2>9. QED
    BY <2>3, <2>5, <2>6, <2>7, <2>8 DEF StampTailAt
<1>18. CommandsPast' /\ StampTail' /\ RedeemTail'
  <2>1. PICK c \in Nat : c = Len(ledger) + 1
    BY <1>1 DEF TypeOK
  <2>2. es[1].type = "STAMP_ISSUED" => StampTailAt(c)'
    BY <1>6, <1>17, <2>1
  <2>3. es[1].type # "REWARD_REDEEMED"
    BY <1>6 DEF StampAdditions
  <2>4. \A i \in 2..Len(es) : es[i].type \notin {"STAMP_ISSUED", "REWARD_REDEEMED"}
    BY <1>7
  <2>5. QED
    BY <1>1, <1>4, <1>6, <1>8, <2>1, <2>2, <2>3, <2>4, TailsAppended
<1>19. EarnedMatchesProgress'
  <2> SUFFICES ASSUME NEW k \in Keys
               PROVE  entitlements'[k].status \notin {"NONE", "VOIDED"} <=>
                        \/ k[1] < CurrentCycle
                        \/ k[1] = CurrentCycle /\ k[2] <= next
    BY <1>10, <1>13 DEF EarnedMatchesProgress
  <2>1. /\ k[1] \in Nat /\ k[2] \in Nat /\ CurrentCycle \in Nat /\ s \in Nat /\ next \in Nat
        /\ s < next
    <3>1. k[1] \in 1..MaxCycles /\ k[2] \in 1..Goal
      BY RewardFacts DEF Keys, Cycles
    <3>2. k[1] \in Nat /\ k[2] \in Nat
      BY <3>1
    <3>3. CurrentCycle \in Nat
      BY <1>13 DEF Cycles
    <3>4. s \in Nat /\ next \in Nat /\ s < next
      BY <1>2
    <3>5. QED
      BY <3>2, <3>3, <3>4
  <2>2. entitlements[k].status \notin {"NONE", "VOIDED"} <=>
          k[1] < CurrentCycle \/ (k[1] = CurrentCycle /\ k[2] <= s)
    BY DEF IInv, EarnedMatchesProgress, s
  <2>3. CASE k \in KeysCrossed(next)
    BY <1>5, <1>12, <2>3 DEF s, next
  <2>4. CASE k \notin KeysCrossed(next)
    <3>1. ~(k[1] = CurrentCycle /\ s < k[2] /\ k[2] <= next)
      BY <1>5, <2>4 DEF s, next
    <3>2. QED
      BY <1>12, <2>1, <2>2, <2>4, <3>1
  <2>5. QED
    BY <2>3, <2>4
<1>20. FinalRewardDrivesCycle'
  <2> SUFFICES ASSUME NEW c \in Cycles
               PROVE  /\ entitlements'[FinalKey(c)].status = "AVAILABLE" <=>
                           c = CurrentCycle /\ next = Goal
                      /\ entitlements'[FinalKey(c)].status = "REDEEMED" <=> c < CurrentCycle
    <3>1. progress'.ready <=> next = Goal
      BY <1>10, Zenon
    <3>2. QED
      BY <1>13, <3>1 DEF FinalRewardDrivesCycle
  <2>1. FinalKey(c) \in Keys /\ FinalKey(c)[1] = c /\ FinalKey(c)[2] = Goal
    BY RewardFacts DEF FinalKey, Keys
  <2>2. ~progress.ready /\ s < Goal
    BY <1>2, RewardFacts DEF IInv, ReadyExactlyAtGoal, s
  <2>3. /\ entitlements[FinalKey(c)].status # "AVAILABLE"
        /\ entitlements[FinalKey(c)].status = "REDEEMED" <=> c < CurrentCycle
    BY <2>2 DEF IInv, FinalRewardDrivesCycle
  <2>4. FinalKey(c) \in KeysCrossed(next) <=> c = CurrentCycle /\ next = Goal
    <3>1. FinalKey(c) \in KeysCrossed(next) <=> c = CurrentCycle /\ s < Goal /\ Goal <= next
      BY <1>5, <2>1 DEF s, next
    <3>2. QED
      BY <1>2, <2>2, <3>1, RewardFacts
  <2>5. c \in Nat /\ CurrentCycle \in Nat
    BY <1>13 DEF Cycles
  <2>6. QED
    BY <1>12, <2>1, <2>3, <2>4, <2>5
<1>21. RedemptionsCounted'
  <2> SUFFICES ASSUME NEW k \in Keys
               PROVE  LET done == {x \in Slots : redemptions[<<k, x>>] = "COMPLETED"} IN
                      /\ entitlements'[k].count = Cardinality(done)
                      /\ entitlements'[k].count <= RedemptionLimit(k[2])
                      /\ entitlements'[k].status = "REDEEMED" <=>
                           entitlements'[k].count = RedemptionLimit(k[2])
                      /\ entitlements'[k].status \in {"NONE", "AVAILABLE", "VOIDED"} =>
                           entitlements'[k].count = 0
                      /\ entitlements'[k].status = "PARTIALLY_REDEEMED" => entitlements'[k].count > 0
    BY DEF RedemptionsCounted
  <2>1. RedemptionsCounted
    BY DEF IInv
  <2>2. CASE k \notin KeysCrossed(next)
    BY <1>12, <2>1, <2>2 DEF RedemptionsCounted
  <2>3. CASE k \in KeysCrossed(next)
    <3>1. /\ entitlements'[k].status = "AVAILABLE" /\ entitlements'[k].count = 0
          /\ entitlements[k].count = 0
      BY <1>11, <1>12, <2>3
    <3>2. RedemptionLimit(k[2]) \in Nat /\ RedemptionLimit(k[2]) >= 1
      BY LimitFacts DEF Keys
    <3>3. QED
      BY <2>1, <3>1, <3>2 DEF RedemptionsCounted
  <2>4. QED
    BY <2>2, <2>3
<1>22. FinalNeverLapses' /\ SlotsWithinLimit'
  <2>1. FinalNeverLapses /\ SlotsWithinLimit
    BY DEF IInv
  <2>2. \A c \in Cycles : FinalKey(c) \in Keys /\ FinalKey(c)[2] = Goal
    BY RewardFacts DEF FinalKey, Keys
  <2>3. QED
    BY <1>12, <2>1, <2>2 DEF FinalNeverLapses, SlotsWithinLimit
<1>23. CardStep
  BY <1>10 DEF CardStep
<1>24. EndedKept
  <2>1. \A k \in Keys : entitlements'[k] # entitlements[k] =>
          /\ entitlements[k].status \notin {"EXPIRED", "VOIDED"}
          /\ ~(entitlements'[k].count > entitlements[k].count)
    BY <1>11, <1>12
  <2>2. QED
    BY <1>1, <2>1, EndedByChanges
<1>25. QED
  BY <1>14, <1>15, <1>16, <1>18, <1>19, <1>20, <1>21, <1>22, <1>23, <1>24 DEF IInv

\* An operation of one entry, when it earns no stamps.
LEMMA OneAppended ==
  ASSUME IInv, NEW e \in Entry, e.command = Len(ledger) + 1, e.type # "STAMP_ISSUED",
         AppendOne(e), NEW c \in Nat, c = Len(ledger) + 1,
         ledger' = ledger \o <<e>> /\ EntriesOf(c)' = {c} /\ ledger'[c] = e
           => (e.type = "REWARD_REDEEMED" => RedeemTailAt(c)')
  PROVE  /\ Reducible(progress, e)
         /\ progress' = ReduceProjectionEvent(progress, e)
         /\ progress' \in Projection /\ progress'.version = Len(ledger')
         /\ ledger' \in Seq(Entry)
         /\ CommandsPast' /\ StampTail' /\ RedeemTail'
<1>1. /\ TypeOK /\ CycleBound /\ CommandsPast /\ RedeemTail /\ Len(ledger) \in Nat
      /\ progress \in Projection /\ e.delta \in Int
  BY DEF IInv, TypeOK, Entry
<1>2. /\ Reducible(progress, e) /\ progress.version = Len(ledger)
      /\ progress' = ReduceProjectionEvent(progress, e) /\ ledger' = ledger \o <<e>>
  BY DEF AppendOne, AppendEntries
<1> DEFINE es == <<e>>
<1>3. /\ es \in Seq(Entry) /\ es # <<>> /\ Len(es) = 1 /\ es[1] = e
      /\ \A i \in 1..Len(es) : es[i].command = Len(ledger) + 1
      /\ \A i \in 2..Len(es) : es[i].type \notin {"STAMP_ISSUED", "REWARD_REDEEMED"}
  OBVIOUS
<1>4. ledger' = ledger \o es
  BY <1>2
<1> HIDE DEF es
<1>5. ledger' \in Seq(Entry) /\ Len(ledger') = Len(ledger) + 1 /\ DOMAIN ledger' = 1..Len(ledger')
  BY <1>1, <1>3, <1>4, Appended
<1>6. progress' \in Projection /\ progress'.version = Len(ledger')
  <2>1. progress' \in Projection /\ progress'.version = progress.version + 1
    BY <1>1, <1>2, Reduced
  <2>2. QED
    BY <1>2, <1>5, <2>1
<1>7. /\ c \in DOMAIN ledger' /\ ledger'[c] = es[1]
      /\ \A i : i \in EntriesOf(c)' <=> i \in DOMAIN ledger' /\ i >= c
  BY <1>1, <1>3, <1>4, AppendedEntries
<1>8. EntriesOf(c)' = {c}
  <2>1. \A i : i \in EntriesOf(c)' <=> i = c
    BY <1>1, <1>5, <1>7
  <2>2. QED
    BY <2>1
<1>9. es[1].type = "REWARD_REDEEMED" => RedeemTailAt(c)'
  BY <1>2, <1>3, <1>7, <1>8
<1>10. es[1].type # "STAMP_ISSUED"
  BY <1>3
<1>11. CommandsPast' /\ StampTail' /\ RedeemTail'
  BY <1>1, <1>3, <1>4, <1>9, <1>10, TailsAppended
<1>12. QED
  BY <1>2, <1>5, <1>6, <1>11

\* An operation of two entries: a redemption with its reset, or the reversal
\* of both.
LEMMA TwoAppended ==
  ASSUME IInv, NEW e \in Entry, NEW f \in Entry,
         e.command = Len(ledger) + 1, f.command = Len(ledger) + 1,
         e.type \in NeutralEvents, f.type \notin {"STAMP_ISSUED", "REWARD_REDEEMED"},
         AppendTwo(e, f), NEW c \in Nat, c = Len(ledger) + 1,
         ledger' = ledger \o <<e, f>> /\ c + 1 \in EntriesOf(c)'
           /\ ledger'[c] = e /\ ledger'[c + 1] = f
           => (e.type = "REWARD_REDEEMED" => RedeemTailAt(c)')
  PROVE  /\ \E p \in Projection :
              /\ p.stamps = progress.stamps /\ p.completed = progress.completed
              /\ p.ready = progress.ready
              /\ Reducible(p, f) /\ progress' = ReduceProjectionEvent(p, f)
         /\ progress' \in Projection /\ progress'.version = Len(ledger')
         /\ ledger' \in Seq(Entry)
         /\ CommandsPast' /\ StampTail' /\ RedeemTail'
<1> DEFINE p == ReduceProjectionEvent(progress, e)
           es == <<e, f>>
<1>1. /\ TypeOK /\ CycleBound /\ CommandsPast /\ RedeemTail /\ Len(ledger) \in Nat
      /\ progress \in Projection /\ e.delta \in Int /\ f.delta \in Int
  <2>1. e.delta \in Int /\ f.delta \in Int
    BY DEF Entry
  <2>2. QED
    BY <2>1 DEF IInv, TypeOK
<1>2. /\ Reducible(p, f) /\ progress.version = Len(ledger)
      /\ progress' = ReduceProjectionEvent(p, f) /\ ledger' = ledger \o es
  BY DEF AppendTwo, AppendEntries
<1>3. /\ es \in Seq(Entry) /\ es # <<>> /\ Len(es) = 2 /\ es[1] = e /\ es[2] = f
      /\ \A i \in 1..Len(es) : es[i].command = Len(ledger) + 1
      /\ \A i \in 2..Len(es) : es[i].type \notin {"STAMP_ISSUED", "REWARD_REDEEMED"}
  OBVIOUS
<1>4. /\ p \in Projection /\ p.version = progress.version + 1
      /\ p.stamps = progress.stamps /\ p.completed = progress.completed
      /\ p.ready = progress.ready
  BY <1>1, Reduced, Zenon
<1>es. es = <<e, f>>
  OBVIOUS
<1> HIDE DEF es, p
<1>5. ledger' \in Seq(Entry) /\ Len(ledger') = Len(ledger) + 2 /\ DOMAIN ledger' = 1..Len(ledger')
  BY <1>1, <1>2, <1>3, Appended
<1>6. progress' \in Projection /\ progress'.version = Len(ledger')
  <2>1. progress' \in Projection /\ progress'.version = p.version + 1
    BY <1>1, <1>2, <1>4, Reduced
  <2>2. QED
    BY <1>1, <1>2, <1>4, <1>5, <2>1
<1>7. /\ c \in DOMAIN ledger' /\ ledger'[c] = es[1]
      /\ \A i : i \in EntriesOf(c)' <=> i \in DOMAIN ledger' /\ i >= c
      /\ \A i \in EntriesOf(c)' : i - Len(ledger) \in 1..Len(es)
                                   /\ ledger'[i] = es[i - Len(ledger)]
  BY <1>1, <1>2, <1>3, AppendedEntries
<1>8. c + 1 \in EntriesOf(c)' /\ ledger'[c + 1] = f
  <2>1. c + 1 \in EntriesOf(c)'
    BY <1>1, <1>5, <1>7
  <2>2. ledger'[c + 1] = es[c + 1 - Len(ledger)] /\ c + 1 - Len(ledger) = 2
    BY <1>1, <1>7, <2>1
  <2>3. QED
    BY <1>3, <2>1, <2>2
<1>9. es[1].type = "REWARD_REDEEMED" => RedeemTailAt(c)'
  BY <1>2, <1>3, <1>es, <1>7, <1>8
<1>10. es[1].type # "STAMP_ISSUED"
  BY <1>3 DEF NeutralEvents
<1>11. CommandsPast' /\ StampTail' /\ RedeemTail'
  BY <1>1, <1>2, <1>3, <1>9, <1>10, TailsAppended
<1>12. QED
  BY <1>2, <1>4, <1>5, <1>6, <1>11

\* A correction that takes stamps back crosses no threshold: a reward between
\* the old and the new number of stamps would be earned, and forbids it.
LEMMA Lowering ==
  ASSUME IInv, NEW d \in Int, LowerAdjustment(d)
  PROVE  IInv' /\ CardStep /\ EndedKept
<1> DEFINE e == Moving("MANUAL_STAMP_ADJUSTMENT", d)
           s == progress.stamps
<1>1. /\ TypeOK /\ CycleBound /\ Len(ledger) \in Nat /\ CurrentCycle \in Cycles
      /\ CurrentCycle = progress.completed + 1
  BY CurrentKeys DEF IInv, TypeOK
<1>2. e \in Entry
  <2>1. "MANUAL_STAMP_ADJUSTMENT" \in EventTypes
    BY DEF EventTypes, StampAdditions
  <2>2. QED
    BY <1>1, <2>1, EventIsEntry DEF Moving
<1>3. e.command = Len(ledger) + 1 /\ e.type = "MANUAL_STAMP_ADJUSTMENT" /\ e.delta = d
  BY DEF Moving, Event
<1>4. /\ AppendOne(e) /\ d < 0 /\ ~progress.ready /\ s + d \in 0..Goal
      /\ ~EarnedAbove(s + d) /\ s \in 0..Goal /\ s + d < s
      /\ UNCHANGED <<entitlements, redemptions, membership, expiry, now>> /\ rejected' = "none"
  BY RewardFacts DEF LowerAdjustment, CanAdjust, IInv, ReadyExactlyAtGoal
<1> HIDE DEF e
<1>5. /\ progress' = ReduceProjectionEvent(progress, e)
      /\ progress' \in Projection /\ progress'.version = Len(ledger')
      /\ ledger' \in Seq(Entry)
      /\ CommandsPast' /\ StampTail' /\ RedeemTail'
  <2>1. PICK c \in Nat : c = Len(ledger) + 1
    BY <1>1
  <2>2. QED
    BY <1>2, <1>3, <1>4, <2>1, OneAppended
<1>6. /\ progress'.stamps = s + d /\ progress'.completed = progress.completed
      /\ progress'.ready = FALSE
  <2>1. e.type \in StampAdditions \cup {"STAMP_REVERSED"} /\ progress \in Projection /\ e.delta \in Int
    BY <1>1, <1>3 DEF StampAdditions, TypeOK
  <2> DEFINE r == ReduceProjectionEvent(progress, e)
  <2>a. /\ r.stamps = s + e.delta /\ r.completed = progress.completed
        /\ r.ready = (s + e.delta = Goal)
    BY <2>1, Reduced, Zenon
  <2> HIDE DEF r
  <2>b. progress' = r /\ e.delta = d
    BY <1>3, <1>5 DEF r
  <2>2. /\ progress'.stamps = s + d /\ progress'.completed = progress.completed
        /\ progress'.ready = (s + d = Goal)
    BY <2>a, <2>b, Zenon
  <2>3. ~(s + d = Goal)
    BY <1>4, RewardFacts
  <2>4. QED
    BY <2>2, <2>3, Zenon
<1>7. CurrentCycle' = CurrentCycle
  BY <1>6 DEF CurrentCycle
<1>8. TypeOK' /\ CycleBound'
  BY <1>1, <1>4, <1>5, <1>6 DEF TypeOK, CycleBound
<1>9. ReadyExactlyAtGoal'
  BY <1>4, <1>5, <1>6, RewardFacts DEF ReadyExactlyAtGoal
<1>10. EarnedMatchesProgress'
  <2> SUFFICES ASSUME NEW k \in Keys
               PROVE  entitlements[k].status \notin {"NONE", "VOIDED"} <=>
                        \/ k[1] < CurrentCycle
                        \/ k[1] = CurrentCycle /\ k[2] <= s + d
    BY <1>4, <1>6, <1>7 DEF EarnedMatchesProgress
  <2>1. k[1] \in 1..MaxCycles /\ k[2] \in 1..Goal /\ k[2] \in Thresholds /\ k = <<k[1], k[2]>>
    <3>1. k[1] \in 1..MaxCycles /\ k[2] \in Thresholds /\ k = <<k[1], k[2]>>
      BY DEF Keys, Cycles
    <3>2. QED
      BY <3>1, RewardFacts
  <2>2. entitlements[k].status \notin {"NONE", "VOIDED"} <=>
          k[1] < CurrentCycle \/ (k[1] = CurrentCycle /\ k[2] <= s)
    BY DEF IInv, EarnedMatchesProgress
  <2>3. k[1] = CurrentCycle /\ k[2] > s + d => entitlements[k].status \in {"NONE", "VOIDED"}
    BY <1>4, <2>1 DEF EarnedAbove
  <2>4. CurrentCycle \in 1..MaxCycles
    BY <1>1 DEF Cycles
  <2>5. QED
    BY <1>4, <2>1, <2>2, <2>3, <2>4
<1>11. FinalRewardDrivesCycle'
  BY <1>4, <1>6, <1>7 DEF FinalRewardDrivesCycle, IInv
<1>12. RedemptionsCounted' /\ FinalNeverLapses' /\ SlotsWithinLimit'
  BY <1>4 DEF RedemptionsCounted, FinalNeverLapses, SlotsWithinLimit, IInv
<1>13. CardStep
  BY <1>6 DEF CardStep
<1>14. EndedKept
  BY <1>1, <1>4, EndedByChanges
<1>15. QED
  BY <1>5, <1>8, <1>9, <1>10, <1>11, <1>12, <1>13, <1>14 DEF IInv

\* Appending a fact of the membership leaves the card and its rewards.
LEMMA StatusSet ==
  ASSUME IInv, NEW from, NEW to \in {"ACTIVE", "SUSPENDED", "REVOKED"},
         NEW type \in {"MEMBERSHIP_SUSPENDED", "MEMBERSHIP_RESTORED", "MEMBERSHIP_REVOKED"},
         SetStatus(from, to, type)
  PROVE  IInv' /\ CardStep /\ EndedKept
<1> DEFINE e == Plain(type, NoKey)
<1>1. TypeOK /\ CycleBound /\ Len(ledger) \in Nat
  BY DEF IInv, TypeOK
<1>2. e \in Entry
  <2>1. type \in EventTypes
    BY DEF EventTypes, NeutralEvents
  <2>2. QED
    BY <1>1, <2>1, EventIsEntry DEF Plain
<1>3. e.command = Len(ledger) + 1 /\ e.type = type
  BY DEF Plain, Event
<1>4. /\ AppendOne(e) /\ membership' = to /\ rejected' = "none"
      /\ UNCHANGED <<entitlements, redemptions, expiry, now>>
  BY DEF SetStatus
<1> HIDE DEF e
<1>5. /\ progress' = ReduceProjectionEvent(progress, e)
      /\ progress' \in Projection /\ progress'.version = Len(ledger')
      /\ ledger' \in Seq(Entry)
      /\ CommandsPast' /\ StampTail' /\ RedeemTail'
  <2>1. PICK c \in Nat : c = Len(ledger) + 1
    BY <1>1
  <2>2. e.type # "STAMP_ISSUED" /\ e.type # "REWARD_REDEEMED"
    BY <1>3
  <2>3. QED
    BY <1>2, <1>3, <1>4, <2>1, <2>2, OneAppended
<1>6. /\ progress'.stamps = progress.stamps /\ progress'.completed = progress.completed
      /\ progress'.ready = progress.ready
  <2>1. e.type \in NeutralEvents /\ progress \in Projection /\ e.delta \in Int
    BY <1>1, <1>2, <1>3 DEF NeutralEvents, TypeOK, Entry
  <2>2. QED
    BY <1>5, <2>1, Reduced, Zenon
<1>7. TypeOK' /\ CycleBound' /\ ReadyExactlyAtGoal'
  BY <1>1, <1>4, <1>5, <1>6 DEF TypeOK, CycleBound, ReadyExactlyAtGoal, IInv
<1>8. /\ EarnedMatchesProgress' /\ FinalRewardDrivesCycle'
      /\ RedemptionsCounted' /\ FinalNeverLapses' /\ SlotsWithinLimit'
  BY <1>4, <1>6 DEF EarnedMatchesProgress, FinalRewardDrivesCycle, RedemptionsCounted,
     FinalNeverLapses, SlotsWithinLimit, CurrentCycle, IInv
<1>9. CardStep
  BY <1>6 DEF CardStep
<1>10. EndedKept
  BY <1>1, <1>4, EndedByChanges
<1>11. QED
  BY <1>5, <1>7, <1>8, <1>9, <1>10 DEF IInv

\* Only a reward that is not final lapses, so expiring one leaves the cycles.
LEMMA Expiring ==
  ASSUME IInv, NEW k \in Keys, ExpireReward(k)
  PROVE  IInv' /\ CardStep /\ EndedKept
<1> DEFINE e == Plain("REWARD_EXPIRED", k)
<1>1. TypeOK /\ CycleBound /\ Len(ledger) \in Nat
  BY DEF IInv, TypeOK
<1>2. e \in Entry
  <2>1. "REWARD_EXPIRED" \in EventTypes
    BY DEF EventTypes, NeutralEvents
  <2>2. QED
    BY <1>1, <2>1, EventIsEntry DEF Plain
<1>3. e.command = Len(ledger) + 1 /\ e.type = "REWARD_EXPIRED"
  BY DEF Plain, Event
<1>4. /\ AppendOne(e)
      /\ entitlements[k].status \in Held /\ Lapsed(k)
      /\ entitlements' = [entitlements EXCEPT ![k].status = "EXPIRED"]
      /\ expiry' = [expiry EXCEPT ![k] = "COMPLETED"]
      /\ UNCHANGED <<redemptions, membership, now, rejected>>
  BY DEF ExpireReward, Expirable
<1> HIDE DEF e
<1>5. /\ progress' = ReduceProjectionEvent(progress, e)
      /\ progress' \in Projection /\ progress'.version = Len(ledger')
      /\ ledger' \in Seq(Entry)
      /\ CommandsPast' /\ StampTail' /\ RedeemTail'
  <2>1. PICK c \in Nat : c = Len(ledger) + 1
    BY <1>1
  <2>2. e.type # "STAMP_ISSUED" /\ e.type # "REWARD_REDEEMED"
    BY <1>3
  <2>3. QED
    BY <1>2, <1>3, <1>4, <2>1, <2>2, OneAppended
<1>6. /\ progress'.stamps = progress.stamps /\ progress'.completed = progress.completed
      /\ progress'.ready = progress.ready
  <2>1. e.type \in NeutralEvents /\ progress \in Projection /\ e.delta \in Int
    BY <1>1, <1>2, <1>3 DEF NeutralEvents, TypeOK, Entry
  <2>2. QED
    BY <1>5, <2>1, Reduced, Zenon
<1>7. /\ entitlements' \in [Keys -> Entitlement]
      /\ entitlements'[k].status = "EXPIRED" /\ entitlements'[k].count = entitlements[k].count
      /\ entitlements'[k].expiresAt = entitlements[k].expiresAt
      /\ \A m \in Keys : m # k => entitlements'[m] = entitlements[m]
  BY <1>1, <1>4 DEF TypeOK, Entitlement, EntitlementStatus
<1>8. expiry' \in [Keys -> {"NONE", "PENDING", "COMPLETED"}]
  BY <1>1, <1>4 DEF TypeOK
<1>9. TypeOK' /\ CycleBound' /\ ReadyExactlyAtGoal'
  BY <1>1, <1>4, <1>5, <1>6, <1>7, <1>8 DEF TypeOK, CycleBound, ReadyExactlyAtGoal, IInv
<1>10. \A c \in Cycles : FinalKey(c) \in Keys /\ FinalKey(c) # k
  <2> SUFFICES ASSUME NEW c \in Cycles PROVE FinalKey(c) \in Keys /\ FinalKey(c) # k
    OBVIOUS
  <2>1. FinalKey(c) \in Keys
    BY RewardFacts DEF FinalKey, Keys
  <2>2. entitlements[FinalKey(c)].expiresAt = 0 /\ entitlements[k].expiresAt # 0
    BY <1>4 DEF IInv, FinalNeverLapses, Lapsed
  <2>3. QED
    BY <2>1, <2>2
<1>11. FinalRewardDrivesCycle' /\ FinalNeverLapses'
  BY <1>6, <1>7, <1>10 DEF FinalRewardDrivesCycle, FinalNeverLapses, CurrentCycle, IInv
<1>12. EarnedMatchesProgress'
  <2>1. \A m \in Keys : entitlements'[m].status \notin {"NONE", "VOIDED"} <=>
                          entitlements[m].status \notin {"NONE", "VOIDED"}
    BY <1>4, <1>7 DEF Held
  <2>2. EarnedMatchesProgress
    BY DEF IInv
  <2>3. QED
    BY <1>6, <2>1, <2>2 DEF EarnedMatchesProgress, CurrentCycle
<1>13. RedemptionsCounted'
  <2>1. RedemptionsCounted
    BY DEF IInv
  <2>2. entitlements[k].count # RedemptionLimit(k[2])
    BY <1>4, <2>1 DEF RedemptionsCounted, Held
  <2> DEFINE Done(m) == {x \in Slots : redemptions[<<m, x>>] = "COMPLETED"}
  <2> SUFFICES ASSUME NEW m \in Keys
               PROVE  /\ entitlements'[m].count = Cardinality(Done(m))
                      /\ entitlements'[m].count <= RedemptionLimit(m[2])
                      /\ entitlements'[m].status = "REDEEMED" <=>
                           entitlements'[m].count = RedemptionLimit(m[2])
                      /\ entitlements'[m].status \in {"NONE", "AVAILABLE", "VOIDED"} =>
                           entitlements'[m].count = 0
                      /\ entitlements'[m].status = "PARTIALLY_REDEEMED" => entitlements'[m].count > 0
    BY <1>4 DEF RedemptionsCounted
  <2>3. /\ entitlements[m].count = Cardinality(Done(m))
        /\ entitlements[m].count <= RedemptionLimit(m[2])
        /\ entitlements[m].status = "REDEEMED" <=>
             entitlements[m].count = RedemptionLimit(m[2])
        /\ entitlements[m].status \in {"NONE", "AVAILABLE", "VOIDED"} => entitlements[m].count = 0
        /\ entitlements[m].status = "PARTIALLY_REDEEMED" => entitlements[m].count > 0
    BY <2>1 DEF RedemptionsCounted
  <2> HIDE DEF Done
  <2>4. QED
    BY <1>7, <2>2, <2>3
<1>14. SlotsWithinLimit'
  BY <1>4 DEF SlotsWithinLimit, IInv
<1>15. CardStep
  BY <1>6 DEF CardStep
<1>16. EndedKept
  <2>1. entitlements[k].count \in Nat
    BY <1>1 DEF TypeOK, Entitlement
  <2>2. \A m \in Keys : entitlements'[m] # entitlements[m] =>
          /\ entitlements[m].status \notin {"EXPIRED", "VOIDED"}
          /\ ~(entitlements'[m].count > entitlements[m].count)
    BY <1>4, <1>7, <2>1 DEF Held
  <2>3. QED
    BY <1>1, <2>2, EndedByChanges
<1>17. QED
  BY <1>5, <1>9, <1>11, <1>12, <1>13, <1>14, <1>15, <1>16 DEF IInv

\* The reversal of a stamp issue voids exactly the rewards it had unlocked:
\* nothing depends on them, so they are all still unused.
LEMMA ReversingStamp ==
  ASSUME IInv, NEW b \in DOMAIN ledger, ReverseStamp(b)
  PROVE  IInv' /\ CardStep /\ EndedKept
<1> DEFINE d == ledger[b].delta
           s == progress.stamps
           e == Event("STAMP_REVERSED", -d, NoKey, 0, b, NoReference)
           U == UnlockedBy(b)
<1>1. /\ TypeOK /\ CycleBound /\ Len(ledger) \in Nat /\ DOMAIN ledger = 1..Len(ledger)
      /\ CurrentCycle \in Cycles /\ CurrentCycle = progress.completed + 1
      /\ progress \in Projection /\ s \in 0..Goal
  BY CurrentKeys DEF IInv, TypeOK, ReadyExactlyAtGoal
<1>2. /\ ledger[b].type = "STAMP_ISSUED" /\ ~HasDependentEvents(b)
      /\ AppendOne(e)
      /\ entitlements' = [k \in Keys |->
                            IF k \in U /\ entitlements[k].count = 0
                            THEN [entitlements[k] EXCEPT !.status = "VOIDED"]
                            ELSE entitlements[k]]
      /\ rejected' = "none" /\ UNCHANGED <<redemptions, membership, expiry, now>>
  BY DEF ReverseStamp, ReversalAllowed
<1>3. /\ d \in 1..s /\ U \subseteq Keys
      /\ \A k \in Keys : k \in U <=> k[1] = CurrentCycle /\ s - d < k[2] /\ k[2] <= s
      /\ \A k \in U : entitlements[k].status = "AVAILABLE"
  BY <1>2 DEF IInv, StampTail, StampTailAt
<1> HIDE DEF U, d
<1>4. e \in Entry
  <2>1. "STAMP_REVERSED" \in EventTypes /\ b \in Nat /\ -d \in Int
    BY <1>1, <1>3 DEF EventTypes
  <2>2. QED
    BY <1>1, <2>1, EventIsEntry
<1>5. e.command = Len(ledger) + 1 /\ e.type = "STAMP_REVERSED" /\ e.delta = -d
  BY DEF Event
<1> HIDE DEF e
<1>6. /\ progress' = ReduceProjectionEvent(progress, e)
      /\ progress' \in Projection /\ progress'.version = Len(ledger')
      /\ ledger' \in Seq(Entry)
      /\ CommandsPast' /\ StampTail' /\ RedeemTail'
  <2>1. PICK c \in Nat : c = Len(ledger) + 1
    BY <1>1
  <2>2. e.type # "STAMP_ISSUED" /\ e.type # "REWARD_REDEEMED"
    BY <1>5
  <2>3. QED
    BY <1>2, <1>4, <1>5, <2>1, <2>2, OneAppended
<1>7. /\ progress'.stamps = s - d /\ progress'.completed = progress.completed
      /\ progress'.ready = FALSE
  <2>1. e.type \in StampAdditions \cup {"STAMP_REVERSED"} /\ e.delta \in Int
    BY <1>3, <1>5
  <2>2. /\ progress'.stamps = s + e.delta /\ progress'.completed = progress.completed
        /\ progress'.ready = (s + e.delta = Goal)
    BY <1>1, <1>6, <2>1, Reduced, Zenon
  <2>3. s + e.delta = s - d /\ ~(s + e.delta = Goal)
    BY <1>1, <1>3, <1>5, RewardFacts
  <2>4. progress'.ready = FALSE
    BY <2>2, <2>3, Zenon
  <2>5. QED
    BY <2>2, <2>3, <2>4
<1>8. CurrentCycle' = CurrentCycle
  BY <1>7 DEF CurrentCycle
<1>9. \A k \in U : entitlements[k].count = 0
  BY <1>3 DEF IInv, RedemptionsCounted
<1>10. /\ entitlements' \in [Keys -> Entitlement]
       /\ \A k \in Keys : k \notin U => entitlements'[k] = entitlements[k]
       /\ \A k \in U : /\ entitlements'[k].status = "VOIDED"
                       /\ entitlements'[k].count = entitlements[k].count
       /\ \A k \in Keys : entitlements'[k].expiresAt = entitlements[k].expiresAt
  <2> DEFINE voided(k) == [entitlements[k] EXCEPT !.status = "VOIDED"]
  <2>1. \A k \in Keys : entitlements[k] \in Entitlement
    BY <1>1 DEF TypeOK
  <2>2. \A k \in Keys : /\ voided(k) \in Entitlement /\ voided(k).status = "VOIDED"
                         /\ voided(k).count = entitlements[k].count
                         /\ voided(k).expiresAt = entitlements[k].expiresAt
    BY <2>1 DEF Entitlement, EntitlementStatus
  <2>3. entitlements' = [k \in Keys |-> IF k \in U THEN voided(k) ELSE entitlements[k]]
    BY <1>2, <1>9
  <2> HIDE DEF voided
  <2>4. QED
    BY <1>3, <2>1, <2>2, <2>3
<1> HIDE DEF s
<1>11. TypeOK' /\ CycleBound'
  BY <1>1, <1>2, <1>6, <1>7, <1>10 DEF TypeOK, CycleBound
<1>12. ReadyExactlyAtGoal'
  BY <1>1, <1>3, <1>6, <1>7, RewardFacts DEF ReadyExactlyAtGoal
<1>13. EarnedMatchesProgress'
  <2> SUFFICES ASSUME NEW k \in Keys
               PROVE  entitlements'[k].status \notin {"NONE", "VOIDED"} <=>
                        \/ k[1] < CurrentCycle
                        \/ k[1] = CurrentCycle /\ k[2] <= s - d
    BY <1>7, <1>8 DEF EarnedMatchesProgress
  <2>1. k[1] \in Nat /\ k[2] \in Nat /\ CurrentCycle \in Nat
    <3>1. k[1] \in 1..MaxCycles /\ k[2] \in 1..Goal
      BY RewardFacts DEF Keys, Cycles
    <3>2. QED
      BY <1>1, <3>1, RewardFacts DEF Cycles
  <2>2. entitlements[k].status \notin {"NONE", "VOIDED"} <=>
          k[1] < CurrentCycle \/ (k[1] = CurrentCycle /\ k[2] <= s)
    BY DEF IInv, EarnedMatchesProgress, s
  <2>3. CASE k \in U
    <3>1. k[1] = CurrentCycle /\ s - d < k[2]
      BY <1>3, <2>3
    <3>2. QED
      BY <1>1, <1>3, <1>10, <2>1, <2>3, <3>1, RewardFacts
  <2>4. CASE k \notin U
    <3>1. ~(k[1] = CurrentCycle /\ s - d < k[2] /\ k[2] <= s)
      BY <1>3, <2>4
    <3>2. QED
      BY <1>1, <1>3, <1>10, <2>1, <2>2, <2>4, <3>1, RewardFacts
  <2>5. QED
    BY <2>3, <2>4
<1>14. FinalRewardDrivesCycle'
  <2> SUFFICES ASSUME NEW c \in Cycles
               PROVE  /\ entitlements'[FinalKey(c)].status # "AVAILABLE"
                      /\ entitlements'[FinalKey(c)].status = "REDEEMED" <=> c < CurrentCycle
    BY <1>7, <1>8 DEF FinalRewardDrivesCycle
  <2>1. FinalKey(c) \in Keys /\ FinalKey(c)[1] = c /\ FinalKey(c)[2] = Goal
    BY RewardFacts DEF FinalKey, Keys
  <2>2. /\ entitlements[FinalKey(c)].status = "AVAILABLE" <=> c = CurrentCycle /\ progress.ready
        /\ entitlements[FinalKey(c)].status = "REDEEMED" <=> c < CurrentCycle
        /\ progress.ready <=> s = Goal
    BY DEF IInv, FinalRewardDrivesCycle, ReadyExactlyAtGoal, s
  <2>3. c = CurrentCycle /\ s = Goal => FinalKey(c) \in U
    BY <1>1, <1>3, <2>1, RewardFacts
  <2>4. QED
    BY <1>3, <1>10, <2>1, <2>2, <2>3
<1>15. RedemptionsCounted'
  <2> SUFFICES ASSUME NEW k \in Keys
               PROVE  LET done == {x \in Slots : redemptions[<<k, x>>] = "COMPLETED"} IN
                      /\ entitlements'[k].count = Cardinality(done)
                      /\ entitlements'[k].count <= RedemptionLimit(k[2])
                      /\ entitlements'[k].status = "REDEEMED" <=>
                           entitlements'[k].count = RedemptionLimit(k[2])
                      /\ entitlements'[k].status \in {"NONE", "AVAILABLE", "VOIDED"} =>
                           entitlements'[k].count = 0
                      /\ entitlements'[k].status = "PARTIALLY_REDEEMED" => entitlements'[k].count > 0
    BY <1>2 DEF RedemptionsCounted
  <2>1. RedemptionsCounted
    BY DEF IInv
  <2>2. CASE k \notin U
    BY <1>10, <2>1, <2>2 DEF RedemptionsCounted
  <2>3. CASE k \in U
    <3>1. RedemptionLimit(k[2]) \in Nat /\ RedemptionLimit(k[2]) >= 1
      BY LimitFacts DEF Keys
    <3>2. QED
      BY <1>9, <1>10, <2>1, <2>3, <3>1 DEF RedemptionsCounted
  <2>4. QED
    BY <2>2, <2>3
<1>16. FinalNeverLapses' /\ SlotsWithinLimit'
  <2>1. \A c \in Cycles : FinalKey(c) \in Keys
    BY RewardFacts DEF FinalKey, Keys
  <2>2. QED
    BY <1>2, <1>10, <2>1 DEF FinalNeverLapses, SlotsWithinLimit, IInv
<1>17. CardStep
  BY <1>7 DEF CardStep
<1>18. EndedKept
  <2>1. \A k \in Keys : entitlements[k].count \in Nat
    BY <1>1 DEF TypeOK, Entitlement
  <2>2. \A k \in Keys : entitlements'[k] # entitlements[k] =>
          /\ entitlements[k].status \notin {"EXPIRED", "VOIDED"}
          /\ ~(entitlements'[k].count > entitlements[k].count)
    BY <1>3, <1>10, <2>1
  <2>3. QED
    BY <1>1, <2>2, EndedByChanges
<1>19. QED
  BY <1>6, <1>11, <1>12, <1>13, <1>14, <1>15, <1>16, <1>17, <1>18 DEF IInv

\* A redemption takes one more slot of its reward, and one that is free.
LEMMA Redeeming ==
  ASSUME IInv, NEW k \in Keys, CanRedeem(k), redemptions[<<k, NextSlot(k)>>] = "NONE",
         redemptions' = [redemptions EXCEPT ![<<k, NextSlot(k)>>] = "COMPLETED"],
         CountRedemption(k, NextSlot(k))
  PROVE  /\ NextSlot(k) \in Slots /\ NextSlot(k) \in 1..RedemptionLimit(k[2])
         /\ entitlements' \in [Keys -> Entitlement]
         /\ redemptions' \in [Keys \X Slots -> {"NONE", "COMPLETED", "REVERSED"}]
         /\ redemptions'[<<k, NextSlot(k)>>] = "COMPLETED"
         /\ entitlements'[k].status = IF NextSlot(k) >= RedemptionLimit(k[2])
                                      THEN "REDEEMED" ELSE "PARTIALLY_REDEEMED"
         /\ \A m \in Keys : m # k => entitlements'[m] = entitlements[m]
         /\ RedemptionsCounted' /\ SlotsWithinLimit' /\ FinalNeverLapses'
<1> DEFINE n == NextSlot(k)
           Done(m) == {x \in Slots : redemptions[<<m, x>>] = "COMPLETED"}
           DoneAfter(m) == {x \in Slots : redemptions'[<<m, x>>] = "COMPLETED"}
<1>1. /\ TypeOK /\ k[2] \in Thresholds /\ RedemptionLimit(k[2]) \in Nat
      /\ RedemptionLimit(k[2]) >= 1 /\ entitlements[k] \in Entitlement
  BY LimitFacts DEF IInv, TypeOK, Keys
<1>2. entitlements[k].count \in Nat /\ n = entitlements[k].count + 1 /\ n <= RedemptionLimit(k[2])
  BY <1>1 DEF CanRedeem, NextSlot, Entitlement
<1>3. n \in 1..RedemptionLimit(k[2]) /\ n \in Slots
  <2>1. n \in 1..RedemptionLimit(k[2])
    BY <1>1, <1>2
  <2>2. QED
    BY <1>1, <2>1, SlotFacts
<1>4. /\ redemptions' = [redemptions EXCEPT ![<<k, n>>] = "COMPLETED"]
      /\ redemptions[<<k, n>>] = "NONE"
      /\ entitlements' = [entitlements EXCEPT ![k].count = n,
                            ![k].status = IF n >= RedemptionLimit(k[2])
                                          THEN "REDEEMED" ELSE "PARTIALLY_REDEEMED"]
  BY DEF CountRedemption
<1> HIDE DEF n
<1>5. /\ redemptions' \in [Keys \X Slots -> {"NONE", "COMPLETED", "REVERSED"}]
      /\ redemptions'[<<k, n>>] = "COMPLETED"
      /\ \A m \in Keys, x \in Slots : <<m, x>> # <<k, n>> =>
           redemptions'[<<m, x>>] = redemptions[<<m, x>>]
  BY <1>1, <1>3, <1>4 DEF TypeOK
<1>6. /\ entitlements' \in [Keys -> Entitlement]
      /\ entitlements'[k].count = n
      /\ entitlements'[k].status = IF n >= RedemptionLimit(k[2])
                                   THEN "REDEEMED" ELSE "PARTIALLY_REDEEMED"
      /\ entitlements'[k].expiresAt = entitlements[k].expiresAt
      /\ \A m \in Keys : m # k => entitlements'[m] = entitlements[m]
  <2> DEFINE st == IF n >= RedemptionLimit(k[2]) THEN "REDEEMED" ELSE "PARTIALLY_REDEEMED"
  <2>1. st \in EntitlementStatus /\ n \in Nat
    BY <1>2 DEF EntitlementStatus, Held
  <2>2. entitlements' = [entitlements EXCEPT ![k].count = n, ![k].status = st]
    BY <1>4
  <2> HIDE DEF st
  <2>3. /\ entitlements' \in [Keys -> Entitlement]
        /\ entitlements'[k].count = n /\ entitlements'[k].status = st
        /\ entitlements'[k].expiresAt = entitlements[k].expiresAt
        /\ \A m \in Keys : m # k => entitlements'[m] = entitlements[m]
    BY <1>1, <2>1, <2>2 DEF TypeOK, Entitlement
  <2>4. QED
    BY <2>3 DEF st
<1>7. \A m \in Keys : m # k => DoneAfter(m) = Done(m)
  <2> SUFFICES ASSUME NEW m \in Keys, m # k, NEW x \in Slots
               PROVE  redemptions'[<<m, x>>] = redemptions[<<m, x>>]
    BY Zenon
  <2>1. <<m, x>> # <<k, n>>
    OBVIOUS
  <2>2. QED
    BY <1>5, <2>1
<1>8. DoneAfter(k) = Done(k) \cup {n} /\ n \notin Done(k)
  BY <1>3, <1>4, <1>5
<1>9. IsFiniteSet(Done(k))
  <2>1. Done(k) \in SUBSET Slots
    OBVIOUS
  <2>2. QED
    BY <2>1, SlotFacts, FS_Subset
<1>10. Cardinality(DoneAfter(k)) = n
  <2>1. entitlements[k].count = Cardinality(Done(k))
    BY DEF IInv, RedemptionsCounted
  <2>2. Cardinality(Done(k) \cup {n}) = Cardinality(Done(k)) + 1
    BY <1>8, <1>9, FS_AddElement
  <2>3. QED
    BY <1>2, <1>8, <2>1, <2>2
<1>11. RedemptionsCounted'
  <2> SUFFICES ASSUME NEW m \in Keys
               PROVE  /\ entitlements'[m].count = Cardinality(DoneAfter(m))
                      /\ entitlements'[m].count <= RedemptionLimit(m[2])
                      /\ entitlements'[m].status = "REDEEMED" <=>
                           entitlements'[m].count = RedemptionLimit(m[2])
                      /\ entitlements'[m].status \in {"NONE", "AVAILABLE", "VOIDED"} =>
                           entitlements'[m].count = 0
                      /\ entitlements'[m].status = "PARTIALLY_REDEEMED" => entitlements'[m].count > 0
    BY DEF RedemptionsCounted
  <2>1. CASE m # k
    <3>1. entitlements'[m] = entitlements[m] /\ DoneAfter(m) = Done(m)
      BY <1>6, <1>7, <2>1
    <3>2. /\ entitlements[m].count = Cardinality(Done(m))
          /\ entitlements[m].count <= RedemptionLimit(m[2])
          /\ entitlements[m].status = "REDEEMED" <=>
               entitlements[m].count = RedemptionLimit(m[2])
          /\ entitlements[m].status \in {"NONE", "AVAILABLE", "VOIDED"} => entitlements[m].count = 0
          /\ entitlements[m].status = "PARTIALLY_REDEEMED" => entitlements[m].count > 0
      BY DEF IInv, RedemptionsCounted
    <3> HIDE DEF Done, DoneAfter
    <3>3. QED
      BY <3>1, <3>2
  <2>2. CASE m = k
    BY <1>1, <1>2, <1>6, <1>10, <2>2
  <2>3. QED
    BY <2>1, <2>2
<1>12. SlotsWithinLimit'
  <2> SUFFICES ASSUME NEW m \in Keys, NEW x \in Slots, redemptions'[<<m, x>>] = "COMPLETED"
               PROVE  x <= RedemptionLimit(m[2])
    BY DEF SlotsWithinLimit
  <2>1. CASE <<m, x>> = <<k, n>>
    BY <1>2, <2>1
  <2>2. CASE <<m, x>> # <<k, n>>
    BY <1>5, <2>2 DEF IInv, SlotsWithinLimit
  <2>3. QED
    BY <2>1, <2>2
<1>13. FinalNeverLapses'
  <2>1. \A c \in Cycles : FinalKey(c) \in Keys
    BY RewardFacts DEF FinalKey, Keys
  <2>2. QED
    BY <1>6, <2>1 DEF IInv, FinalNeverLapses
<1>14. QED
  BY <1>3, <1>5, <1>6, <1>11, <1>12, <1>13 DEF n

\* A reversal gives back one slot that is taken.
LEMMA Returning ==
  ASSUME IInv, NEW k \in Keys, NEW slot \in Slots,
         redemptions[<<k, slot>>] = "COMPLETED",
         entitlements[k].status \in {"REDEEMED", "PARTIALLY_REDEEMED"},
         ReturnReward(k, slot)
  PROVE  /\ entitlements' \in [Keys -> Entitlement]
         /\ redemptions' \in [Keys \X Slots -> {"NONE", "COMPLETED", "REVERSED"}]
         /\ entitlements'[k].status \in Held
         /\ entitlements'[k].count < RedemptionLimit(k[2])
         /\ \A m \in Keys : m # k => entitlements'[m] = entitlements[m]
         /\ RedemptionsCounted' /\ SlotsWithinLimit' /\ FinalNeverLapses'
<1> DEFINE n == entitlements[k].count - 1
           Done(m) == {x \in Slots : redemptions[<<m, x>>] = "COMPLETED"}
           DoneAfter(m) == {x \in Slots : redemptions'[<<m, x>>] = "COMPLETED"}
<1>1. /\ TypeOK /\ k[2] \in Thresholds /\ RedemptionLimit(k[2]) \in Nat
      /\ RedemptionLimit(k[2]) >= 1 /\ entitlements[k] \in Entitlement
  BY LimitFacts DEF IInv, TypeOK, Keys
<1>2. /\ entitlements[k].count \in Nat /\ entitlements[k].count # 0
      /\ entitlements[k].count <= RedemptionLimit(k[2])
      /\ n \in Nat /\ n < RedemptionLimit(k[2])
  <2>1. entitlements[k].count \in Nat
    BY <1>1 DEF Entitlement
  <2>2. entitlements[k].count # 0 /\ entitlements[k].count <= RedemptionLimit(k[2])
    <3>1. /\ entitlements[k].count <= RedemptionLimit(k[2])
          /\ entitlements[k].status = "REDEEMED" =>
               entitlements[k].count = RedemptionLimit(k[2])
          /\ entitlements[k].status = "PARTIALLY_REDEEMED" => entitlements[k].count > 0
      BY DEF IInv, RedemptionsCounted
    <3>2. CASE entitlements[k].status = "REDEEMED"
      BY <1>1, <2>1, <3>1, <3>2
    <3>3. CASE entitlements[k].status = "PARTIALLY_REDEEMED"
      BY <2>1, <3>1, <3>3
    <3>4. QED
      BY <3>1, <3>2, <3>3
  <2>3. QED
    BY <1>1, <2>1, <2>2
<1>3. /\ redemptions' = [redemptions EXCEPT ![<<k, slot>>] = "REVERSED"]
      /\ entitlements' = [entitlements EXCEPT ![k].count = n,
                            ![k].status = IF n = 0 THEN "AVAILABLE" ELSE "PARTIALLY_REDEEMED"]
  BY <1>2 DEF ReturnReward
<1> HIDE DEF n
<1>4. /\ redemptions' \in [Keys \X Slots -> {"NONE", "COMPLETED", "REVERSED"}]
      /\ redemptions'[<<k, slot>>] = "REVERSED"
      /\ \A m \in Keys, x \in Slots : <<m, x>> # <<k, slot>> =>
           redemptions'[<<m, x>>] = redemptions[<<m, x>>]
  BY <1>1, <1>3 DEF TypeOK
<1>5. /\ entitlements' \in [Keys -> Entitlement]
      /\ entitlements'[k].count = n
      /\ entitlements'[k].status = IF n = 0 THEN "AVAILABLE" ELSE "PARTIALLY_REDEEMED"
      /\ entitlements'[k].expiresAt = entitlements[k].expiresAt
      /\ \A m \in Keys : m # k => entitlements'[m] = entitlements[m]
  BY <1>1, <1>2, <1>3 DEF TypeOK, Entitlement, EntitlementStatus, Held
<1>6. \A m \in Keys : m # k => DoneAfter(m) = Done(m)
  <2> SUFFICES ASSUME NEW m \in Keys, m # k, NEW x \in Slots
               PROVE  redemptions'[<<m, x>>] = redemptions[<<m, x>>]
    BY Zenon
  <2>1. <<m, x>> # <<k, slot>>
    OBVIOUS
  <2>2. QED
    BY <1>4, <2>1
<1>7. DoneAfter(k) = Done(k) \ {slot} /\ slot \in Done(k)
  BY <1>4
<1>8. IsFiniteSet(Done(k))
  <2>1. Done(k) \in SUBSET Slots
    OBVIOUS
  <2>2. QED
    BY <2>1, SlotFacts, FS_Subset
<1>9. Cardinality(DoneAfter(k)) = n
  <2>1. entitlements[k].count = Cardinality(Done(k))
    BY DEF IInv, RedemptionsCounted
  <2>2. Cardinality(Done(k) \ {slot}) = Cardinality(Done(k)) - 1
    BY <1>7, <1>8, FS_RemoveElement
  <2>3. QED
    BY <1>7, <2>1, <2>2 DEF n
<1>10. RedemptionsCounted'
  <2> SUFFICES ASSUME NEW m \in Keys
               PROVE  /\ entitlements'[m].count = Cardinality(DoneAfter(m))
                      /\ entitlements'[m].count <= RedemptionLimit(m[2])
                      /\ entitlements'[m].status = "REDEEMED" <=>
                           entitlements'[m].count = RedemptionLimit(m[2])
                      /\ entitlements'[m].status \in {"NONE", "AVAILABLE", "VOIDED"} =>
                           entitlements'[m].count = 0
                      /\ entitlements'[m].status = "PARTIALLY_REDEEMED" => entitlements'[m].count > 0
    BY DEF RedemptionsCounted
  <2>1. CASE m # k
    <3>1. entitlements'[m] = entitlements[m] /\ DoneAfter(m) = Done(m)
      BY <1>5, <1>6, <2>1
    <3>2. /\ entitlements[m].count = Cardinality(Done(m))
          /\ entitlements[m].count <= RedemptionLimit(m[2])
          /\ entitlements[m].status = "REDEEMED" <=>
               entitlements[m].count = RedemptionLimit(m[2])
          /\ entitlements[m].status \in {"NONE", "AVAILABLE", "VOIDED"} => entitlements[m].count = 0
          /\ entitlements[m].status = "PARTIALLY_REDEEMED" => entitlements[m].count > 0
      BY DEF IInv, RedemptionsCounted
    <3> HIDE DEF Done, DoneAfter
    <3>3. QED
      BY <3>1, <3>2
  <2>2. CASE m = k
    BY <1>1, <1>2, <1>5, <1>9, <2>2
  <2>3. QED
    BY <2>1, <2>2
<1>11. SlotsWithinLimit'
  <2> SUFFICES ASSUME NEW m \in Keys, NEW x \in Slots, redemptions'[<<m, x>>] = "COMPLETED"
               PROVE  x <= RedemptionLimit(m[2])
    BY DEF SlotsWithinLimit
  <2>1. redemptions[<<m, x>>] = "COMPLETED"
    BY <1>4
  <2>2. QED
    BY <2>1 DEF IInv, SlotsWithinLimit
<1>12. FinalNeverLapses'
  <2>1. \A c \in Cycles : FinalKey(c) \in Keys
    BY RewardFacts DEF FinalKey, Keys
  <2>2. QED
    BY <1>5, <2>1 DEF IInv, FinalNeverLapses
<1>13. QED
  BY <1>2, <1>4, <1>5, <1>10, <1>11, <1>12 DEF Held

\* A milestone is redeemed from a held reward and leaves a used one.
LEMMA RedeemingMilestone ==
  ASSUME IInv, NEW k \in Keys, RedeemMilestone(k)
  PROVE  IInv' /\ CardStep /\ EndedKept
<1> DEFINE n == NextSlot(k)
           e == Redemption("REWARD_REDEEMED", k, n, 0)
<1>1. TypeOK /\ CycleBound /\ Len(ledger) \in Nat /\ progress \in Projection
  BY DEF IInv, TypeOK
<1>2. /\ CanRedeem(k) /\ k[2] # Goal /\ AppendOne(e)
      /\ entitlements[k].status \in Held
      /\ UNCHANGED <<membership, expiry, now>> /\ rejected' = "none"
  BY DEF RedeemMilestone, CanRedeem
<1>3. /\ n \in Slots
      /\ entitlements' \in [Keys -> Entitlement]
      /\ redemptions' \in [Keys \X Slots -> {"NONE", "COMPLETED", "REVERSED"}]
      /\ redemptions'[<<k, n>>] = "COMPLETED"
      /\ entitlements'[k].status \in {"REDEEMED", "PARTIALLY_REDEEMED"}
      /\ \A m \in Keys : m # k => entitlements'[m] = entitlements[m]
      /\ RedemptionsCounted' /\ SlotsWithinLimit' /\ FinalNeverLapses'
  BY Redeeming DEF RedeemMilestone
<1> HIDE DEF n
<1>4. e \in Entry
  <2>1. "REWARD_REDEEMED" \in EventTypes /\ n \in Nat
    BY <1>3, SlotFacts DEF EventTypes, NeutralEvents
  <2>2. QED
    BY <1>1, <2>1, EventIsEntry DEF Redemption
<1>5. /\ e.command = Len(ledger) + 1 /\ e.type = "REWARD_REDEEMED"
      /\ e.key = k /\ e.slot = n
  BY DEF Redemption, Event
<1> HIDE DEF e
<1>6. ASSUME NEW c \in Nat, c = Len(ledger) + 1, EntriesOf(c)' = {c}, ledger'[c] = e
      PROVE  RedeemTailAt(c)'
  <2>1. ~HasReset(c)'
    BY <1>5, <1>6 DEF HasReset
  <2>2. QED
    BY <1>2, <1>3, <1>5, <1>6, <2>1 DEF RedeemTailAt
<1>7. /\ progress' = ReduceProjectionEvent(progress, e)
      /\ progress' \in Projection /\ progress'.version = Len(ledger')
      /\ ledger' \in Seq(Entry)
      /\ CommandsPast' /\ StampTail' /\ RedeemTail'
  <2>1. PICK c \in Nat : c = Len(ledger) + 1
    BY <1>1
  <2>2. ledger' = ledger \o <<e>> /\ EntriesOf(c)' = {c} /\ ledger'[c] = e
          => (e.type = "REWARD_REDEEMED" => RedeemTailAt(c)')
    BY <1>6, <2>1
  <2>3. e.type # "STAMP_ISSUED"
    BY <1>5
  <2>4. QED
    BY <1>2, <1>4, <1>5, <2>1, <2>2, <2>3, OneAppended
<1>8. /\ progress'.stamps = progress.stamps /\ progress'.completed = progress.completed
      /\ progress'.ready = progress.ready
  <2>1. e.type \in NeutralEvents /\ e.delta \in Int
    BY <1>4, <1>5 DEF NeutralEvents, Entry
  <2>2. QED
    BY <1>1, <1>7, <2>1, Reduced, Zenon
<1>9. TypeOK' /\ CycleBound' /\ ReadyExactlyAtGoal'
  BY <1>1, <1>2, <1>3, <1>7, <1>8 DEF TypeOK, CycleBound, ReadyExactlyAtGoal, IInv
<1>10. EarnedMatchesProgress'
  <2>1. \A m \in Keys : entitlements'[m].status \notin {"NONE", "VOIDED"} <=>
                          entitlements[m].status \notin {"NONE", "VOIDED"}
    BY <1>2, <1>3 DEF Held
  <2>2. EarnedMatchesProgress
    BY DEF IInv
  <2>3. QED
    BY <1>8, <2>1, <2>2 DEF EarnedMatchesProgress, CurrentCycle
<1>11. FinalRewardDrivesCycle'
  <2>1. \A c \in Cycles : FinalKey(c) \in Keys /\ FinalKey(c) # k
    BY <1>2, RewardFacts DEF FinalKey, Keys
  <2>2. QED
    BY <1>3, <1>8, <2>1 DEF FinalRewardDrivesCycle, CurrentCycle, IInv
<1>12. CardStep
  BY <1>8 DEF CardStep
<1>13. EndedKept
  <2>1. ~Lapsed(k)
    BY <1>2 DEF CanRedeem
  <2>2. QED
    BY <1>1, <1>2, <1>3, <2>1, EndedByChanges DEF Held
<1>14. QED
  BY <1>3, <1>7, <1>9, <1>10, <1>11, <1>12, <1>13 DEF IInv

\* The final reward that is open is the one of the current cycle, on a ready
\* card: redeeming it completes that cycle and no other.
LEMMA RedeemingFinal ==
  ASSUME IInv, NEW k \in Keys, RedeemFinal(k)
  PROVE  IInv' /\ CardStep /\ EndedKept
<1> DEFINE n == NextSlot(k)
           e == Redemption("REWARD_REDEEMED", k, n, 0)
           f == Redemption("CYCLE_RESET", k, n, 0)
<1>1. /\ TypeOK /\ CycleBound /\ Len(ledger) \in Nat /\ progress \in Projection
      /\ CurrentCycle \in Cycles /\ CurrentCycle = progress.completed + 1
  BY CurrentKeys DEF IInv, TypeOK
<1>2. /\ CanRedeem(k) /\ k[2] = Goal /\ AppendTwo(e, f) /\ CurrentCycle < MaxCycles
      /\ UNCHANGED <<membership, expiry, now>> /\ rejected' = "none"
  BY DEF RedeemFinal
<1>3. /\ n \in Slots /\ n \in 1..RedemptionLimit(k[2])
      /\ entitlements' \in [Keys -> Entitlement]
      /\ redemptions' \in [Keys \X Slots -> {"NONE", "COMPLETED", "REVERSED"}]
      /\ redemptions'[<<k, n>>] = "COMPLETED"
      /\ entitlements'[k].status = IF n >= RedemptionLimit(k[2])
                                   THEN "REDEEMED" ELSE "PARTIALLY_REDEEMED"
      /\ \A m \in Keys : m # k => entitlements'[m] = entitlements[m]
      /\ RedemptionsCounted' /\ SlotsWithinLimit' /\ FinalNeverLapses'
  BY Redeeming DEF RedeemFinal
<1> HIDE DEF n
<1>4. k = FinalKey(k[1]) /\ k[1] \in Cycles /\ RedemptionLimit(k[2]) = 1
  BY <1>2 DEF Keys, FinalKey, RedemptionLimit
<1>5. entitlements'[k].status = "REDEEMED"
  BY <1>3, <1>4
<1>6. k[1] = CurrentCycle /\ progress.ready /\ progress.stamps = Goal
  <2>1. entitlements[k].status = "AVAILABLE"
    <3>1. /\ entitlements[k].status \in Held /\ entitlements[k].count < 1
          /\ entitlements[k].count \in Nat
      BY <1>1, <1>2, <1>4 DEF CanRedeem, TypeOK, Entitlement
    <3>2. entitlements[k].status = "PARTIALLY_REDEEMED" => entitlements[k].count > 0
      BY DEF IInv, RedemptionsCounted
    <3>3. QED
      BY <3>1, <3>2 DEF Held
  <2>2. QED
    BY <1>4, <2>1 DEF IInv, FinalRewardDrivesCycle, ReadyExactlyAtGoal
<1>7. e \in Entry /\ f \in Entry
  <2>1. "REWARD_REDEEMED" \in EventTypes /\ "CYCLE_RESET" \in EventTypes /\ n \in Nat
    BY <1>3, SlotFacts DEF EventTypes, NeutralEvents
  <2>2. QED
    BY <1>1, <2>1, EventIsEntry DEF Redemption
<1>8. /\ e.command = Len(ledger) + 1 /\ e.type = "REWARD_REDEEMED" /\ e.key = k /\ e.slot = n
      /\ f.command = Len(ledger) + 1 /\ f.type = "CYCLE_RESET"
  BY DEF Redemption, Event
<1> HIDE DEF e, f
\* What the reset does to the card, whatever the redemption before it wrote.
<1>9. ASSUME NEW p \in Projection, p.completed = progress.completed,
             progress' = ReduceProjectionEvent(p, f)
      PROVE  /\ progress'.stamps = 0 /\ progress'.completed = CurrentCycle
             /\ progress'.ready = FALSE
  <2>1. f.delta \in Int
    BY <1>7 DEF Entry
  <2>2. /\ progress'.stamps = 0 /\ progress'.completed = p.completed + 1
        /\ progress'.ready = FALSE
    BY <1>8, <1>9, <2>1, Reduced, Zenon
  <2>3. QED
    BY <1>1, <1>9, <2>2
<1>10. ASSUME NEW c \in Nat, c = Len(ledger) + 1, c + 1 \in EntriesOf(c)',
              ledger'[c] = e, ledger'[c + 1] = f
       PROVE  RedeemTailAt(c)'
  <2>1. HasReset(c)'
    BY <1>8, <1>10 DEF HasReset
  <2>2. progress'.stamps = 0 /\ progress'.completed = CurrentCycle
    <3> DEFINE p == ReduceProjectionEvent(progress, e)
    <3>1. p \in Projection /\ p.completed = progress.completed
      <4>1. e.type \in NeutralEvents /\ e.delta \in Int
        BY <1>7, <1>8 DEF NeutralEvents, Entry
      <4>2. QED
        BY <1>1, <4>1, Reduced, Zenon
    <3>2. progress' = ReduceProjectionEvent(p, f)
      BY <1>2 DEF AppendTwo, AppendEntries
    <3> HIDE DEF p
    <3>3. QED
      BY <1>9, <3>1, <3>2
  <2>3. k = FinalKey(progress'.completed) /\ progress'.completed >= 1
    BY <1>1, <1>4, <1>6, <2>2 DEF Cycles
  <2>4. QED
    BY <1>3, <1>5, <1>8, <1>10, <2>1, <2>2, <2>3 DEF RedeemTailAt
<1>11. /\ \E p \in Projection :
            /\ p.stamps = progress.stamps /\ p.completed = progress.completed
            /\ p.ready = progress.ready
            /\ Reducible(p, f) /\ progress' = ReduceProjectionEvent(p, f)
       /\ progress' \in Projection /\ progress'.version = Len(ledger')
       /\ ledger' \in Seq(Entry)
       /\ CommandsPast' /\ StampTail' /\ RedeemTail'
  <2>1. PICK c \in Nat : c = Len(ledger) + 1
    BY <1>1
  <2>2. ledger' = ledger \o <<e, f>> /\ c + 1 \in EntriesOf(c)'
          /\ ledger'[c] = e /\ ledger'[c + 1] = f
          => (e.type = "REWARD_REDEEMED" => RedeemTailAt(c)')
    BY <1>10, <2>1
  <2>3. e.type \in NeutralEvents /\ f.type \notin {"STAMP_ISSUED", "REWARD_REDEEMED"}
    BY <1>8 DEF NeutralEvents
  <2>4. QED
    BY <1>2, <1>7, <1>8, <2>1, <2>2, <2>3, TwoAppended
<1>12. progress'.stamps = 0 /\ progress'.completed = CurrentCycle /\ progress'.ready = FALSE
  BY <1>9, <1>11
<1>13. TypeOK'
  BY <1>1, <1>2, <1>3, <1>11 DEF TypeOK
<1>14. CycleBound' /\ ReadyExactlyAtGoal'
  BY <1>1, <1>2, <1>11, <1>12, RewardFacts, BoundsAssumption DEF CycleBound, ReadyExactlyAtGoal, Cycles
<1>15. CurrentCycle' = CurrentCycle + 1
  BY <1>12 DEF CurrentCycle
<1>16. EarnedMatchesProgress'
  <2> SUFFICES ASSUME NEW m \in Keys
               PROVE  entitlements'[m].status \notin {"NONE", "VOIDED"} <=>
                        m[1] < CurrentCycle + 1 \/ (m[1] = CurrentCycle + 1 /\ m[2] <= 0)
    BY <1>12, <1>15 DEF EarnedMatchesProgress
  <2>1. m[1] \in Nat /\ m[2] \in 1..Goal /\ CurrentCycle \in Nat
    <3>1. m[1] \in 1..MaxCycles /\ m[2] \in 1..Goal
      BY RewardFacts DEF Keys, Cycles
    <3>2. QED
      BY <1>1, <3>1 DEF Cycles
  <2>2. entitlements[m].status \notin {"NONE", "VOIDED"} <=>
          m[1] < CurrentCycle \/ (m[1] = CurrentCycle /\ m[2] <= Goal)
    BY <1>6 DEF IInv, EarnedMatchesProgress
  <2>3. entitlements'[m].status \notin {"NONE", "VOIDED"} <=>
          entitlements[m].status \notin {"NONE", "VOIDED"}
    BY <1>2, <1>3, <1>5 DEF CanRedeem, Held
  <2>4. QED
    BY <2>1, <2>2, <2>3, RewardFacts
<1>17. FinalRewardDrivesCycle'
  <2> SUFFICES ASSUME NEW c \in Cycles
               PROVE  /\ entitlements'[FinalKey(c)].status # "AVAILABLE"
                      /\ entitlements'[FinalKey(c)].status = "REDEEMED" <=> c < CurrentCycle + 1
    BY <1>12, <1>15 DEF FinalRewardDrivesCycle
  <2>1. FinalKey(c) \in Keys /\ FinalKey(c)[1] = c
    BY RewardFacts DEF FinalKey, Keys
  <2>2. /\ entitlements[FinalKey(c)].status = "AVAILABLE" <=> c = CurrentCycle
        /\ entitlements[FinalKey(c)].status = "REDEEMED" <=> c < CurrentCycle
    BY <1>6 DEF IInv, FinalRewardDrivesCycle
  <2>3. c \in Nat /\ CurrentCycle \in Nat
    BY <1>1 DEF Cycles
  <2>4. CASE c = CurrentCycle
    BY <1>4, <1>5, <1>6, <2>3, <2>4
  <2>5. CASE c # CurrentCycle
    <3>1. FinalKey(c) # k
      BY <1>6, <2>1, <2>5
    <3>2. QED
      BY <1>3, <2>1, <2>2, <2>3, <2>5, <3>1
  <2>6. QED
    BY <2>4, <2>5
<1>18. CardStep
  BY <1>1, <1>6, <1>12 DEF CardStep
<1>19. EndedKept
  <2>1. ~Lapsed(k) /\ entitlements[k].status \in Held
    BY <1>2 DEF CanRedeem
  <2>2. QED
    BY <1>1, <1>3, <2>1, EndedByChanges DEF Held
<1>20. QED
  BY <1>3, <1>11, <1>13, <1>14, <1>16, <1>17, <1>18, <1>19 DEF IInv

\* A reversed redemption gives its reward back; one that completed a cycle is
\* still the last thing that happened, so it reopens that very cycle.
LEMMA ReversingRedemption ==
  ASSUME IInv, NEW b \in DOMAIN ledger, ReverseRedemption(b)
  PROVE  IInv' /\ CardStep /\ EndedKept
<1> DEFINE k == ledger[b].key
           slot == ledger[b].slot
           e == Redemption("REWARD_REDEMPTION_REVERSED", k, slot, b)
           f == Redemption("CYCLE_RESET_REVERSED", k, slot, b + 1)
<1>1. /\ TypeOK /\ CycleBound /\ Len(ledger) \in Nat /\ progress \in Projection
      /\ CurrentCycle \in Cycles /\ CurrentCycle = progress.completed + 1 /\ b \in Nat
  BY CurrentKeys DEF IInv, TypeOK
<1>2. /\ ledger[b].type = "REWARD_REDEEMED" /\ ~HasDependentEvents(b)
      /\ redemptions[<<k, slot>>] = "COMPLETED"
      /\ IF HasReset(b) THEN AppendTwo(e, f) ELSE AppendOne(e)
      /\ ReturnReward(k, slot)
      /\ UNCHANGED <<membership, expiry, now>> /\ rejected' = "none"
  BY DEF ReverseRedemption, ReversalAllowed
<1>3. /\ k \in Keys /\ slot \in Slots
      /\ entitlements[k].status \in {"REDEEMED", "PARTIALLY_REDEEMED"}
      /\ HasReset(b) => /\ k = FinalKey(progress.completed)
                        /\ progress.completed >= 1 /\ progress.stamps = 0
      /\ ~HasReset(b) => k[2] # Goal
  BY <1>2 DEF IInv, RedeemTail, RedeemTailAt
<1> HIDE DEF k, slot
<1>4. e \in Entry /\ f \in Entry
  <2>1. /\ "REWARD_REDEMPTION_REVERSED" \in EventTypes /\ "CYCLE_RESET_REVERSED" \in EventTypes
        /\ slot \in Nat /\ b + 1 \in Nat
    BY <1>1, <1>3, SlotFacts DEF EventTypes, NeutralEvents
  <2>2. ASSUME NEW type \in EventTypes, NEW x \in Nat
        PROVE  Redemption(type, k, slot, x) \in Entry
    <3>1. k \in Keys \cup {NoKey} /\ NoReference \in References \cup {NoReference} /\ 0 \in Int
      BY <1>3
    <3>2. Event(type, 0, k, slot, x, NoReference) \in Entry
      BY <1>1, <2>1, <3>1, EventIsEntry
    <3>3. QED
      BY <3>2 DEF Redemption
  <2>3. QED
    BY <1>1, <2>1, <2>2
<1>5. /\ e.command = Len(ledger) + 1 /\ e.type = "REWARD_REDEMPTION_REVERSED"
      /\ f.command = Len(ledger) + 1 /\ f.type = "CYCLE_RESET_REVERSED"
  BY DEF Redemption, Event
<1> HIDE DEF e, f
<1>6. /\ entitlements' \in [Keys -> Entitlement]
      /\ redemptions' \in [Keys \X Slots -> {"NONE", "COMPLETED", "REVERSED"}]
      /\ entitlements'[k].status \in Held
      /\ entitlements'[k].count < RedemptionLimit(k[2])
      /\ \A m \in Keys : m # k => entitlements'[m] = entitlements[m]
      /\ RedemptionsCounted' /\ SlotsWithinLimit' /\ FinalNeverLapses'
  BY <1>2, <1>3, Returning
<1>7. \A m \in Keys : entitlements'[m].status \notin {"NONE", "VOIDED"} <=>
                        entitlements[m].status \notin {"NONE", "VOIDED"}
  BY <1>3, <1>6 DEF Held
<1>8. \A c \in Cycles : FinalKey(c) \in Keys /\ FinalKey(c)[1] = c /\ FinalKey(c)[2] = Goal
  BY RewardFacts DEF FinalKey, Keys
<1>e. EndedKept
  <2>1. entitlements[k].count \in Nat /\ entitlements'[k].count <= entitlements[k].count
    <3>1. entitlements[k].count \in Nat
      BY <1>1, <1>3 DEF TypeOK, Entitlement
    <3>2. entitlements[k] \in Entitlement
      BY <1>1, <1>3 DEF TypeOK
    <3>3. entitlements' = [entitlements EXCEPT
            ![k].count = IF entitlements[k].count = 0 THEN 0 ELSE entitlements[k].count - 1,
            ![k].status = entitlements'[k].status]
      BY <1>1, <1>2, <1>3 DEF ReturnReward, TypeOK, Entitlement
    <3>4. QED
      BY <1>1, <1>3, <3>1, <3>2, <3>3 DEF TypeOK, Entitlement
  <2>2. \A m \in Keys : entitlements'[m] # entitlements[m] =>
          /\ entitlements[m].status \notin {"EXPIRED", "VOIDED"}
          /\ entitlements'[m].count <= entitlements[m].count
    BY <1>3, <1>6, <2>1
  <2>3. \A m \in Keys : entitlements[m].count \in Nat /\ entitlements'[m].count \in Nat
    BY <1>1, <1>6 DEF TypeOK, Entitlement
  <2>4. \A m \in Keys : entitlements'[m] # entitlements[m] =>
          ~(entitlements'[m].count > entitlements[m].count)
    BY <2>2, <2>3
  <2>5. QED
    BY <1>1, <2>2, <2>4, EndedByChanges
<1>9. CASE ~HasReset(b)
  <2>1. PICK c \in Nat : c = Len(ledger) + 1
    BY <1>1
  <2>2. e.type # "STAMP_ISSUED" /\ e.type # "REWARD_REDEEMED"
    BY <1>5
  <2>3. /\ progress' = ReduceProjectionEvent(progress, e)
        /\ progress' \in Projection /\ progress'.version = Len(ledger')
        /\ ledger' \in Seq(Entry)
        /\ CommandsPast' /\ StampTail' /\ RedeemTail'
    BY <1>2, <1>4, <1>5, <1>9, <2>1, <2>2, OneAppended
  <2>4. /\ progress'.stamps = progress.stamps /\ progress'.completed = progress.completed
        /\ progress'.ready = progress.ready
    <3>1. e.type \in NeutralEvents /\ e.delta \in Int
      BY <1>4, <1>5 DEF NeutralEvents, Entry
    <3>2. QED
      BY <1>1, <2>3, <3>1, Reduced, Zenon
  <2>5. TypeOK' /\ CycleBound' /\ ReadyExactlyAtGoal'
    BY <1>1, <1>2, <1>6, <2>3, <2>4 DEF TypeOK, CycleBound, ReadyExactlyAtGoal, IInv
  <2>6. EarnedMatchesProgress'
    <3>1. EarnedMatchesProgress
      BY DEF IInv
    <3>2. QED
      BY <1>7, <2>4, <3>1 DEF EarnedMatchesProgress, CurrentCycle
  <2>7. FinalRewardDrivesCycle'
    <3>1. \A c2 \in Cycles : FinalKey(c2) \in Keys /\ FinalKey(c2) # k
      BY <1>3, <1>8, <1>9
    <3>2. QED
      BY <1>6, <2>4, <3>1 DEF FinalRewardDrivesCycle, CurrentCycle, IInv
  <2>8. CardStep
    BY <2>4 DEF CardStep
  <2>9. QED
    BY <1>6, <1>e, <2>3, <2>5, <2>6, <2>7, <2>8 DEF IInv
<1>10. CASE HasReset(b)
  <2>1. PICK c \in Nat : c = Len(ledger) + 1
    BY <1>1
  <2>2. /\ e.type \in NeutralEvents /\ e.type # "REWARD_REDEEMED"
        /\ f.type \notin {"STAMP_ISSUED", "REWARD_REDEEMED"}
    BY <1>5 DEF NeutralEvents
  <2>3. /\ \E p \in Projection :
             /\ p.stamps = progress.stamps /\ p.completed = progress.completed
             /\ p.ready = progress.ready
             /\ Reducible(p, f) /\ progress' = ReduceProjectionEvent(p, f)
        /\ progress' \in Projection /\ progress'.version = Len(ledger')
        /\ ledger' \in Seq(Entry)
        /\ CommandsPast' /\ StampTail' /\ RedeemTail'
    BY <1>2, <1>4, <1>5, <1>10, <2>1, <2>2, TwoAppended
  <2>4. /\ progress'.stamps = Goal /\ progress'.completed = progress.completed - 1
        /\ progress'.ready = TRUE
    <3>1. PICK p \in Projection : /\ p.completed = progress.completed
                                  /\ progress' = ReduceProjectionEvent(p, f)
      BY <2>3
    <3>2. f.delta \in Int
      BY <1>4 DEF Entry
    <3>3. /\ progress'.stamps = Goal /\ progress'.completed = p.completed - 1
          /\ progress'.ready = TRUE
      BY <1>5, <3>1, <3>2, Reduced, Zenon
    <3>4. QED
      BY <3>1, <3>3
  <2>5. /\ CurrentCycle' = progress.completed /\ CurrentCycle = progress.completed + 1
        /\ progress.completed \in Nat /\ progress.completed \in Cycles
        /\ k = FinalKey(progress.completed) /\ progress.completed - 1 \in 0..(MaxCycles - 1)
    <3>1. progress.completed \in 1..(MaxCycles - 1)
      BY <1>1, <1>3, <1>10, BoundsAssumption DEF CycleBound
    <3>2. progress'.completed + 1 = progress.completed
      BY <2>4, <3>1, BoundsAssumption
    <3>3. QED
      BY <1>1, <1>3, <1>10, <3>1, <3>2, BoundsAssumption DEF CurrentCycle, Cycles
  <2>6. TypeOK' /\ CycleBound'
    BY <1>1, <1>2, <1>6, <2>3, <2>4, <2>5 DEF TypeOK, CycleBound
  <2>7. ReadyExactlyAtGoal'
    BY <2>3, <2>4, RewardFacts DEF ReadyExactlyAtGoal
  <2>8. EarnedMatchesProgress'
    <3> SUFFICES ASSUME NEW m \in Keys
                 PROVE  entitlements[m].status \notin {"NONE", "VOIDED"} <=>
                          \/ m[1] < progress.completed
                          \/ m[1] = progress.completed /\ m[2] <= Goal
      BY <1>7, <2>4, <2>5 DEF EarnedMatchesProgress
    <3>1. m[1] \in Nat /\ m[2] \in 1..Goal
      <4>1. m[1] \in 1..MaxCycles /\ m[2] \in 1..Goal
        BY RewardFacts DEF Keys, Cycles
      <4>2. QED
        BY <4>1
    <3>2. entitlements[m].status \notin {"NONE", "VOIDED"} <=>
            m[1] < progress.completed + 1 \/ (m[1] = progress.completed + 1 /\ m[2] <= 0)
      BY <1>3, <1>10, <2>5 DEF IInv, EarnedMatchesProgress
    <3>3. QED
      BY <2>5, <3>1, <3>2, RewardFacts
  <2>9. entitlements'[k].status = "AVAILABLE"
    <3>1. RedemptionLimit(k[2]) = 1
      BY <1>8, <2>5 DEF RedemptionLimit
    <3>2. entitlements'[k].count \in Nat /\ entitlements'[k].count < 1
      BY <1>3, <1>6, <3>1 DEF Entitlement
    <3>3. entitlements'[k].status = "PARTIALLY_REDEEMED" => entitlements'[k].count > 0
      BY <1>3, <1>6 DEF RedemptionsCounted
    <3>4. QED
      BY <1>6, <3>2, <3>3 DEF Held
  <2>10. FinalRewardDrivesCycle'
    <3> SUFFICES ASSUME NEW c2 \in Cycles
                 PROVE  /\ entitlements'[FinalKey(c2)].status = "AVAILABLE" <=>
                             c2 = progress.completed
                        /\ entitlements'[FinalKey(c2)].status = "REDEEMED" <=>
                             c2 < progress.completed
      BY <2>4, <2>5 DEF FinalRewardDrivesCycle
    <3>1. progress.ready => progress.stamps = Goal
      BY DEF IInv, ReadyExactlyAtGoal
    <3>2. ~progress.ready
      BY <1>3, <1>10, <3>1, RewardFacts
    <3>3. /\ entitlements[FinalKey(c2)].status # "AVAILABLE"
          /\ entitlements[FinalKey(c2)].status = "REDEEMED" <=> c2 < progress.completed + 1
      BY <2>5, <3>2 DEF IInv, FinalRewardDrivesCycle
    <3>4. c2 \in Nat
      BY DEF Cycles
    <3>5. CASE c2 = progress.completed
      BY <2>5, <2>9, <3>5
    <3>6. CASE c2 # progress.completed
      <4>1. FinalKey(c2) # k
        BY <1>8, <2>5, <3>6
      <4>2. entitlements'[FinalKey(c2)] = entitlements[FinalKey(c2)]
        BY <1>6, <1>8, <4>1
      <4>3. QED
        BY <2>5, <3>3, <3>4, <3>6, <4>2
    <3>7. QED
      BY <3>5, <3>6
  <2>11. CardStep
    BY <1>3, <1>10, <2>4, <2>5 DEF CardStep
  <2>12. QED
    BY <1>6, <1>e, <2>3, <2>6, <2>7, <2>8, <2>10, <2>11 DEF IInv
<1>11. QED
  BY <1>9, <1>10

-----------------------------------------------------------------------------
(* The invariant holds initially and every step preserves it.              *)

LEMMA InitIInv == Init => IInv
<1> SUFFICES ASSUME Init PROVE IInv
  OBVIOUS
<1>1. /\ ledger = <<>> /\ progress = EmptyProjection /\ membership = "ACTIVE" /\ now = 0
      /\ entitlements = [k \in Keys |-> NoEntitlement]
      /\ redemptions = [r \in Keys \X Slots |-> "NONE"]
      /\ expiry = [k \in Keys |-> "NONE"] /\ rejected = "none"
  BY DEF Init
<1>2. progress \in Projection /\ CurrentCycle = 1
  BY <1>1 DEF EmptyProjection, Projection, CurrentCycle
<1>3. TypeOK
  BY <1>1, <1>2 DEF TypeOK, NoEntitlement, Entitlement, EntitlementStatus
<1>4. CycleBound /\ ReadyExactlyAtGoal
  BY <1>1, RewardFacts, BoundsAssumption DEF CycleBound, ReadyExactlyAtGoal, EmptyProjection
<1>5. CommandsPast /\ StampTail /\ RedeemTail
  BY <1>1 DEF CommandsPast, StampTail, RedeemTail
<1>6. \A k \in Keys : /\ k[1] \in Nat \ {0} /\ k[2] \in Nat \ {0}
                      /\ entitlements[k].status = "NONE" /\ entitlements[k].count = 0
                      /\ entitlements[k].expiresAt = 0
  <2>1. \A k \in Keys : k[1] \in 1..MaxCycles /\ k[2] \in 1..Goal
    BY RewardFacts DEF Keys, Cycles
  <2>2. \A k \in Keys : k[1] \in Nat \ {0} /\ k[2] \in Nat \ {0}
    BY <2>1
  <2>3. QED
    BY <1>1, <2>2 DEF NoEntitlement
<1>7. EarnedMatchesProgress
  BY <1>1, <1>2, <1>6 DEF EarnedMatchesProgress, EmptyProjection
<1>8. FinalRewardDrivesCycle /\ FinalNeverLapses
  <2>1. \A c \in Cycles : FinalKey(c) \in Keys /\ c \in Nat \ {0}
    BY RewardFacts DEF FinalKey, Keys, Cycles
  <2>2. QED
    BY <1>1, <1>2, <1>6, <2>1 DEF FinalRewardDrivesCycle, FinalNeverLapses, EmptyProjection
<1>9. RedemptionsCounted
  <2> DEFINE Done(k) == {x \in Slots : redemptions[<<k, x>>] = "COMPLETED"}
  <2>1. \A k \in Keys : Cardinality(Done(k)) = 0
    <3>1. \A k \in Keys : Done(k) = {}
      BY <1>1
    <3>2. Cardinality({}) = 0
      BY FS_EmptySet
    <3>3. QED
      BY <3>1, <3>2
  <2> SUFFICES ASSUME NEW k \in Keys
               PROVE  /\ entitlements[k].count = Cardinality(Done(k))
                      /\ entitlements[k].count <= RedemptionLimit(k[2])
                      /\ entitlements[k].status = "REDEEMED" <=>
                           entitlements[k].count = RedemptionLimit(k[2])
                      /\ entitlements[k].status \in {"NONE", "AVAILABLE", "VOIDED"} =>
                           entitlements[k].count = 0
                      /\ entitlements[k].status = "PARTIALLY_REDEEMED" => entitlements[k].count > 0
    BY DEF RedemptionsCounted
  <2>2. RedemptionLimit(k[2]) \in Nat /\ RedemptionLimit(k[2]) >= 1
    BY LimitFacts DEF Keys
  <2> HIDE DEF Done
  <2>3. QED
    BY <1>6, <2>1, <2>2
<1>10. SlotsWithinLimit
  BY <1>1 DEF SlotsWithinLimit
<1>11. QED
  BY <1>3, <1>4, <1>5, <1>7, <1>8, <1>9, <1>10 DEF IInv

\* The entry an addition of stamps starts with.
LEMMA StampEntries ==
  ASSUME IInv
  PROVE  /\ \A n \in Nat, r \in References \cup {NoReference} :
              LET e == [Moving("STAMP_ISSUED", n) EXCEPT !.reference = r] IN
              /\ e \in Entry /\ e.type = "STAMP_ISSUED" /\ e.delta = n /\ e.key = NoKey
              /\ e.command = Len(ledger) + 1
         /\ \A d \in Int :
              LET e == Moving("MANUAL_STAMP_ADJUSTMENT", d) IN
              /\ e \in Entry /\ e.type = "MANUAL_STAMP_ADJUSTMENT" /\ e.delta = d /\ e.key = NoKey
              /\ e.command = Len(ledger) + 1
<1>1. TypeOK /\ CycleBound
  BY DEF IInv
<1>2. "STAMP_ISSUED" \in EventTypes /\ "MANUAL_STAMP_ADJUSTMENT" \in EventTypes
  BY DEF EventTypes, StampAdditions
<1>3. \A d \in Int : /\ Moving("STAMP_ISSUED", d) \in Entry
                     /\ Moving("MANUAL_STAMP_ADJUSTMENT", d) \in Entry
  BY <1>1, <1>2, EventIsEntry DEF Moving
<1>4. \A type, d : LET e == Moving(type, d) IN
                   e.type = type /\ e.delta = d /\ e.key = NoKey /\ e.command = Len(ledger) + 1
  BY DEF Moving, Event
<1>5. ASSUME NEW n \in Nat, NEW r \in References \cup {NoReference}
      PROVE  LET e == [Moving("STAMP_ISSUED", n) EXCEPT !.reference = r] IN
             /\ e \in Entry /\ e.type = "STAMP_ISSUED" /\ e.delta = n /\ e.key = NoKey
             /\ e.command = Len(ledger) + 1
  <2> DEFINE m == Moving("STAMP_ISSUED", n)
  <2>1. m \in Entry
    BY <1>3
  <2>2. m.type = "STAMP_ISSUED" /\ m.delta = n /\ m.key = NoKey /\ m.command = Len(ledger) + 1
    BY <1>4
  <2> HIDE DEF m
  <2>3. [m EXCEPT !.reference = r] \in Entry
    BY <2>1 DEF Entry
  <2>4. QED
    BY <2>1, <2>2, <2>3 DEF m, Entry
<1>6. QED
  BY <1>3, <1>4, <1>5

LEMMA StepIInv == IInv /\ [Next]_vars => IInv' /\ CardStep /\ EndedKept
<1> SUFFICES ASSUME IInv, [Next]_vars PROVE IInv' /\ CardStep /\ EndedKept
  OBVIOUS
<1>1. TypeOK
  BY DEF IInv
<1>2. CASE UNCHANGED vars
  <2>1. TypeOK'
    BY <1>1, <1>2 DEF TypeOK, vars
  <2>2. QED
    BY <1>2, <2>1, QuietStep DEF vars
<1>3. ASSUME NEW n \in Amounts, NEW r \in References \cup {NoReference}, IssueStamps(n, r)
      PROVE  IInv' /\ CardStep /\ EndedKept
  <2>1. n \in Nat /\ n > 0
    BY <1>3, PolicyAssumption DEF IssueStamps, CanIssue, StampPolicyAllows
  <2> DEFINE e == [Moving("STAMP_ISSUED", n) EXCEPT !.reference = r]
  <2>2. /\ e \in Entry /\ e.type = "STAMP_ISSUED" /\ e.delta = n /\ e.key = NoKey
        /\ e.command = Len(ledger) + 1
    BY <2>1, StampEntries
  <2>a. AddStamps(e)
    BY <1>3 DEF IssueStamps
  <2> HIDE DEF e
  <2>3. /\ ~EntitlementKeyTaken(progress.stamps + e.delta) /\ AddStamps(e) /\ rejected' = "none"
        /\ UNCHANGED <<redemptions, membership, expiry, now>>
    BY <1>3, <2>2, <2>a DEF IssueStamps
  <2>4. e.type \in StampAdditions /\ e.delta > 0
    BY <2>1, <2>2 DEF StampAdditions
  <2>5. QED
    BY <2>2, <2>3, <2>4, Earning
<1>4. ASSUME NEW d \in Corrections, RaiseAdjustment(d) PROVE IInv' /\ CardStep /\ EndedKept
  <2>1. d \in Int /\ d > 0
    BY <1>4, PolicyAssumption DEF RaiseAdjustment
  <2> DEFINE e == Moving("MANUAL_STAMP_ADJUSTMENT", d)
  <2>2. /\ e \in Entry /\ e.type = "MANUAL_STAMP_ADJUSTMENT" /\ e.delta = d /\ e.key = NoKey
        /\ e.command = Len(ledger) + 1
    BY <2>1, StampEntries
  <2>a. AddStamps(e)
    BY <1>4 DEF RaiseAdjustment
  <2> HIDE DEF e
  <2>3. /\ ~EntitlementKeyTaken(progress.stamps + e.delta) /\ AddStamps(e) /\ rejected' = "none"
        /\ UNCHANGED <<redemptions, membership, expiry, now>>
    BY <1>4, <2>2, <2>a DEF RaiseAdjustment
  <2>4. e.type \in StampAdditions /\ e.delta > 0
    BY <2>1, <2>2 DEF StampAdditions
  <2>5. QED
    BY <2>2, <2>3, <2>4, Earning
<1>5. ASSUME NEW d \in Corrections, LowerAdjustment(d) PROVE IInv' /\ CardStep /\ EndedKept
  BY <1>5, Lowering, PolicyAssumption
<1>6. ASSUME NEW n, NEW r, IssueRejected(n, r) PROVE IInv' /\ CardStep /\ EndedKept
  <2>1. TypeOK'
    BY <1>1, <1>6 DEF IssueRejected, TypeOK
  <2>2. QED
    BY <1>6, <2>1, QuietStep DEF IssueRejected
<1>7. ASSUME NEW d, RaiseRejected(d) PROVE IInv' /\ CardStep /\ EndedKept
  <2>1. TypeOK'
    BY <1>1, <1>7 DEF RaiseRejected, TypeOK
  <2>2. QED
    BY <1>7, <2>1, QuietStep DEF RaiseRejected
<1>8. ASSUME NEW k \in Keys, RedeemMilestone(k) \/ RedeemFinal(k) PROVE IInv' /\ CardStep /\ EndedKept
  BY <1>8, RedeemingMilestone, RedeemingFinal
<1>9. ASSUME NEW k \in Keys, RedeemRejected(k) PROVE IInv' /\ CardStep /\ EndedKept
  <2>1. TypeOK'
    BY <1>1, <1>9 DEF RedeemRejected, TypeOK
  <2>2. QED
    BY <1>9, <2>1, QuietStep DEF RedeemRejected
<1>10. ASSUME NEW b \in DOMAIN ledger, ReverseStamp(b) \/ ReverseRedemption(b) PROVE IInv' /\ CardStep /\ EndedKept
  BY <1>10, ReversingStamp, ReversingRedemption
<1>11. CASE ChangeMembershipStatus
  BY <1>11, StatusSet DEF ChangeMembershipStatus, Suspend, Restore, Revoke
<1>12. ASSUME NEW k \in Keys, ScheduleExpiry(k) \/ CloseExpiry(k) PROVE IInv' /\ CardStep /\ EndedKept
  <2>1. /\ expiry' \in [Keys -> {"NONE", "PENDING", "COMPLETED"}]
        /\ UNCHANGED <<ledger, progress, entitlements, redemptions, membership, now, rejected>>
    BY <1>1, <1>12 DEF ScheduleExpiry, CloseExpiry, TypeOK
  <2>2. TypeOK'
    BY <1>1, <2>1 DEF TypeOK
  <2>3. QED
    BY <2>1, <2>2, QuietStep
<1>13. ASSUME NEW k \in Keys, ExpireReward(k) PROVE IInv' /\ CardStep /\ EndedKept
  BY <1>13, Expiring
<1>14. CASE Tick
  <2>1. TypeOK'
    BY <1>1, <1>14 DEF Tick, TypeOK
  <2>2. QED
    BY <1>14, <2>1, QuietStep DEF Tick
<1>15. QED
  BY <1>2, <1>3, <1>4, <1>5, <1>6, <1>7, <1>8, <1>9, <1>10, <1>11, <1>12, <1>13, <1>14
     DEF Next, Operate, Earn, Correct, Redeem, ReverseOperation, ExpireRewards

\* The invariant every operation relies on, and keeps for the next one.
THEOREM InvariantHolds == Spec => []IInv
<1>1. IInv /\ [Next]_vars => IInv'
  BY StepIInv
<1>2. QED
  BY <1>1, InitIInv, PTL DEF Spec

-----------------------------------------------------------------------------
(* The theorems.                                                           *)

\* The rows of the database keep their types, for every program and policy.
THEOREM TypeCorrect == Spec => []TypeOK
<1>1. IInv => TypeOK
  BY DEF IInv
<1>2. QED
  BY <1>1, InvariantHolds, PTL

\* A card is ready exactly when it is full, never over-full, and its version
\* is the length of its ledger, whatever operations its batches combine.
THEOREM CardIsReadyWhenFull == Spec => []ReadyExactlyAtGoal
<1>1. IInv => ReadyExactlyAtGoal
  BY DEF IInv
<1>2. QED
  BY <1>1, InvariantHolds, PTL

\* In the current cycle the rewards earned are those the stamps have reached;
\* earlier cycles have all of theirs and later ones none: no sequence of
\* corrections and reversals strands a reward or earns one twice in a cycle.
THEOREM RewardsFollowTheCard == Spec => []EarnedMatchesProgress
<1>1. IInv => EarnedMatchesProgress
  BY DEF IInv
<1>2. QED
  BY <1>1, InvariantHolds, PTL

\* The final reward is open exactly in the current cycle of a ready card and
\* redeemed exactly in the completed cycles, undone resets included.
THEOREM FinalRewardIsTheCycle == Spec => []FinalRewardDrivesCycle
<1>1. IInv => FinalRewardDrivesCycle
  BY DEF IInv
<1>2. QED
  BY <1>1, InvariantHolds, PTL

\* The count of an entitlement is the number of its redemptions that stand,
\* agrees with its status, and never exceeds what its reward allows.
THEOREM RewardsAreCounted == Spec => []RedemptionsCounted
<1>1. IInv => RedemptionsCounted
  BY DEF IInv
<1>2. QED
  BY <1>1, InvariantHolds, PTL

\* The checks of the service are enough for the reducer to accept the entries
\* of a final redemption and of a reversal: no operation fails half-way.
THEOREM ServiceChecksSuffice == Spec => []ChecksSuffice
<1>1. IInv => ChecksSuffice
  <2> SUFFICES ASSUME IInv PROVE ChecksSuffice
    OBVIOUS
  <2>1. TypeOK
    BY DEF IInv
  <2>2. ASSUME NEW k \in Keys, CanRedeem(k), k[2] = Goal
        PROVE  progress.ready /\ progress.stamps = Goal /\ k[1] = CurrentCycle
    <3>1. k = FinalKey(k[1]) /\ k[1] \in Cycles /\ RedemptionLimit(k[2]) = 1
      BY <2>2 DEF Keys, FinalKey, RedemptionLimit
    <3>2. /\ entitlements[k].status \in Held /\ entitlements[k].count < 1
          /\ entitlements[k].count \in Nat
      BY <2>1, <2>2, <3>1 DEF CanRedeem, TypeOK, Entitlement
    <3>3. entitlements[k].status = "PARTIALLY_REDEEMED" => entitlements[k].count > 0
      BY DEF IInv, RedemptionsCounted
    <3>4. entitlements[k].status = "AVAILABLE"
      BY <3>2, <3>3 DEF Held
    <3>5. QED
      BY <3>1, <3>4 DEF IInv, FinalRewardDrivesCycle, ReadyExactlyAtGoal
  <2>3. ASSUME NEW c \in DOMAIN ledger, ledger[c].type = "STAMP_ISSUED", ReversalAllowed(c)
        PROVE  progress.stamps >= ledger[c].delta
    <3>1. ledger[c].delta \in 1..progress.stamps
      BY <2>3 DEF IInv, StampTail, StampTailAt, ReversalAllowed
    <3>2. QED
      BY <2>1, <3>1 DEF TypeOK, Projection
  <2>4. ASSUME NEW c \in DOMAIN ledger, ledger[c].type = "REWARD_REDEEMED", ReversalAllowed(c)
        PROVE  /\ redemptions[<<ledger[c].key, ledger[c].slot>>] = "COMPLETED"
               /\ HasReset(c) => /\ progress.stamps = 0 /\ ~progress.ready
                                 /\ progress.completed >= 1
    <3>1. /\ redemptions[<<ledger[c].key, ledger[c].slot>>] = "COMPLETED"
          /\ HasReset(c) => progress.stamps = 0 /\ progress.completed >= 1
      BY <2>4 DEF IInv, RedeemTail, RedeemTailAt, ReversalAllowed
    <3>2. progress.stamps = 0 => ~progress.ready
      BY RewardFacts DEF IInv, ReadyExactlyAtGoal
    <3>3. QED
      BY <3>1, <3>2
  <2>5. QED
    BY <2>2, <2>3, <2>4 DEF ChecksSuffice
<1>2. QED
  BY <1>1, InvariantHolds, PTL

\* An expired or voided reward never comes back, and no reward is redeemed
\* after it has lapsed.
THEOREM RewardsStayEnded == Spec => EndedRewardsStayEnded
<1>1. IInv /\ [Next]_vars => [EndedKept]_vars
  BY StepIInv
<1>2. Spec => [][EndedKept]_vars
  BY <1>1, InvariantHolds, PTL DEF Spec
<1>3. QED
  BY <1>2 DEF EndedRewardsStayEnded, EndedKept

\* The final rewards handed out are the completed cycles.
OneForEachCycle == FinalRewardsHandedOut = progress.completed

LEMMA HandedOut == IInv => OneForEachCycle
<1> SUFFICES ASSUME IInv PROVE FinalRewardsHandedOut = progress.completed
  BY DEF OneForEachCycle
<1> DEFINE Handed == {c \in Cycles : redemptions[<<FinalKey(c), 1>>] = "COMPLETED"}
<1>1. /\ TypeOK /\ progress.completed \in 0..(MaxCycles - 1) /\ CurrentCycle = progress.completed + 1
      /\ MaxCycles \in Nat \ {0} /\ Cycles = 1..MaxCycles
  BY BoundsAssumption DEF IInv, CycleBound, CurrentCycle, Cycles
<1>2. ASSUME NEW c \in Cycles
      PROVE  redemptions[<<FinalKey(c), 1>>] = "COMPLETED" <=> c < CurrentCycle
  <2> DEFINE k == FinalKey(c)
             done == {x \in Slots : redemptions[<<k, x>>] = "COMPLETED"}
  <2>1. k \in Keys /\ k[2] = Goal /\ Goal \in Thresholds /\ RedemptionLimit(k[2]) = 1
    BY RewardFacts DEF FinalKey, Keys, RedemptionLimit
  <2>2. 1 \in Slots /\ Slots \subseteq Nat \ {0}
    <3>1. 1..RedemptionLimit(Goal) \subseteq Slots /\ RedemptionLimit(Goal) = 1
      BY <2>1, SlotFacts DEF RedemptionLimit
    <3>2. QED
      BY <3>1, SlotFacts
  <2>3. done \subseteq {1}
    <3>1. \A x \in Slots : redemptions[<<k, x>>] = "COMPLETED" => x <= 1
      BY <2>1 DEF IInv, SlotsWithinLimit
    <3>2. \A x \in Nat \ {0} : x <= 1 => x = 1
      OBVIOUS
    <3>3. \A x \in done : x \in Slots /\ redemptions[<<k, x>>] = "COMPLETED"
      OBVIOUS
    <3> HIDE DEF done
    <3>4. \A x \in done : x = 1
      BY <2>2, <3>1, <3>2, <3>3
    <3>5. QED
      BY <3>4
  <2>4. entitlements[k].status = "REDEEMED" <=> c < CurrentCycle
    BY DEF IInv, FinalRewardDrivesCycle
  <2>5. /\ entitlements[k].count = Cardinality(done)
        /\ entitlements[k].status = "REDEEMED" <=> entitlements[k].count = 1
    BY <2>1 DEF IInv, RedemptionsCounted
  <2>6. Cardinality({}) = 0 /\ Cardinality({1}) = 1
    BY FS_EmptySet, FS_Singleton
  <2>7. done = {1} <=> redemptions[<<k, 1>>] = "COMPLETED"
    BY <2>2, <2>3
  <2>8. done = {} \/ done = {1}
    BY <2>3
  <2> HIDE DEF done, k
  <2>9. redemptions[<<k, 1>>] = "COMPLETED" <=> c < CurrentCycle
    BY <2>4, <2>5, <2>6, <2>7, <2>8
  <2>10. QED
    BY <2>9 DEF k
<1>3. Handed = 1..progress.completed
  BY <1>1, <1>2
<1>4. Cardinality(1..progress.completed) = progress.completed
  <2>1. progress.completed \in Nat
    BY <1>1
  <2>2. \A m \in Nat : Cardinality(1..m) = m
    BY FS_Interval
  <2>3. QED
    BY <2>1, <2>2
<1>5. QED
  BY <1>3, <1>4 DEF FinalRewardsHandedOut

LEMMA HandedOutAfter == IInv' => OneForEachCycle'
  BY HandedOut, PTL

\* Every step of a membership is a step of the card a customer is promised:
\* one final reward for each completed card, whatever is corrected, reversed
\* or expired in between.
THEOREM MembershipImplementsCard == Spec => ImplementsCard
<1>1. Init => Card!Init
  <2> SUFFICES ASSUME Init PROVE Card!Init
    OBVIOUS
  <2>1. progress.stamps = 0 /\ progress.completed = 0
    BY DEF Init, EmptyProjection
  <2>2. FinalRewardsHandedOut = 0
    BY <2>1, InitIInv, HandedOut DEF OneForEachCycle
  <2>3. QED
    BY <2>1, <2>2 DEF Card!Init
<1>2. IInv /\ IInv' /\ [Next]_vars => [Card!Next]_(Card!card)
  <2> SUFFICES ASSUME IInv, IInv', [Next]_vars PROVE Card!Next \/ UNCHANGED Card!card
    OBVIOUS
  <2>1. CardStep
    BY StepIInv
  <2>2. /\ FinalRewardsHandedOut = progress.completed
        /\ FinalRewardsHandedOut' = progress'.completed
    BY HandedOut, HandedOutAfter DEF OneForEachCycle
  <2>3. progress.stamps \in 0..Goal /\ progress'.stamps \in 0..Goal /\ Goal \in Nat
    BY RewardFacts DEF IInv, ReadyExactlyAtGoal
  <2>4. CASE progress'.completed = progress.completed /\ progress'.stamps = progress.stamps
    BY <2>2, <2>4 DEF Card!card
  <2>5. CASE progress'.completed = progress.completed /\ progress'.stamps > progress.stamps
    <3>1. Card!AddStamps
      BY <2>2, <2>3, <2>5 DEF Card!AddStamps
    <3>2. QED
      BY <3>1 DEF Card!Next
  <2>6. CASE progress'.completed = progress.completed /\ progress'.stamps < progress.stamps
    <3>1. Card!TakeStamps
      BY <2>2, <2>3, <2>6 DEF Card!TakeStamps
    <3>2. QED
      BY <3>1 DEF Card!Next
  <2>7. CASE progress'.completed # progress.completed
    <3>1. Card!Exchange \/ Card!TakeBackExchange
      BY <2>1, <2>2, <2>7 DEF CardStep, Card!Exchange, Card!TakeBackExchange
    <3>2. QED
      BY <3>1 DEF Card!Next
  <2>8. QED
    BY <2>3, <2>4, <2>5, <2>6, <2>7
<1>3. QED
  BY <1>1, <1>2, InvariantHolds, PTL DEF Spec, ImplementsCard, Card!Spec

-----------------------------------------------------------------------------
(* The projection is a rebuild of the ledger.                              *)

\* What FoldLeft makes of the reducer: an iteration over sets of positions that
\* takes the last one away first.
IsRebuild(it, events, S) ==
  it = [s \in SUBSET S |->
          IF s = {} THEN EmptyProjection
          ELSE ReduceProjectionEvent(it[s \ {Max(s)}], events[Max(s)])]

LEMMA RebuildIsIteration ==
  ASSUME NEW events
  PROVE  RebuildProjection(events) =
           (CHOOSE it : IsRebuild(it, events, DOMAIN events))[DOMAIN events]
  BY DEF RebuildProjection, FoldLeft, MapThenFoldSet, IsRebuild

\* The positions of a finite sequence, or some of them.
Positions(S) == S \subseteq Int /\ IsFiniteSet(S)

\* Two iterations agree where their entries do.
LEMMA RebuildsAgree ==
  ASSUME NEW S, Positions(S), NEW T, Positions(T),
         NEW es, NEW fs, AgreeOn(es, fs, S \cap T),
         NEW g, IsRebuild(g, es, S), NEW h, IsRebuild(h, fs, T)
  PROVE  AgreeOn(g, h, SUBSET (S \cap T))
<1> SUFFICES ASSUME NEW s \in SUBSET (S \cap T)
             PROVE  g[s] = h[s]
  BY DEF AgreeOn
<1> USE DEF AgreeOn
<1> DEFINE F == {t \in SUBSET (S \cap T) : g[t] # h[t]}
<1>1. IsFiniteSet(S) /\ S \subseteq Int
  BY DEF Positions
<1>2. ASSUME F # {}
      PROVE  FALSE
  <2>1. PICK m \in F : \A t \in F : t \subseteq m => t = m
    <3>1. SubsetFamily(F, S)
      BY <1>2 DEF SubsetFamily
    <3> HIDE DEF F
    <3>2. HasSmallest(F)
      BY <1>1, <3>1, SmallestSubset
    <3> QED  BY <3>2 DEF HasSmallest
  <2>2. m \in SUBSET S /\ m \in SUBSET T /\ g[m] # h[m]
    OBVIOUS
  <2>3. CASE m = {}
    BY <2>2, <2>3 DEF IsRebuild
  <2>4. CASE m # {}
    <3>1. Max(m) \in m
      <4>1. IsFiniteSet(m)
        BY <1>1, <2>2, FS_Subset
      <4>2. m \subseteq Int
        BY <1>1, <2>2
      <4> QED  BY <2>4, <4>1, <4>2, MaxIsLast
    <3>2. g[m \ {Max(m)}] = h[m \ {Max(m)}]
      <4>1. m \ {Max(m)} \in SUBSET (S \cap T) /\ m \ {Max(m)} \subseteq m
            /\ m \ {Max(m)} # m
        BY <2>2, <3>1
      <4> QED  BY <2>1, <4>1
    <3>3. g[m] = ReduceProjectionEvent(g[m \ {Max(m)}], es[Max(m)])
      BY <2>2, <2>4 DEF IsRebuild
    <3>4. h[m] = ReduceProjectionEvent(h[m \ {Max(m)}], fs[Max(m)])
      BY <2>2, <2>4 DEF IsRebuild
    <3>5. es[Max(m)] = fs[Max(m)]
      BY <2>2, <3>1
    <3> QED  BY <2>2, <3>2, <3>3, <3>4, <3>5
  <2> QED  BY <2>3, <2>4
<1> QED  BY <1>2

\* There is such an iteration.
LEMMA RebuildExists ==
  ASSUME NEW n \in Nat, NEW es, NEW S \in SUBSET (1..n)
  PROVE  \E it : IsRebuild(it, es, S)
<1> DEFINE F == {t \in SUBSET (1..n) : ~\E it : IsRebuild(it, es, t)}
<1>1. IsFiniteSet(1..n)
  BY FS_Interval
<1>2. ASSUME F # {}
      PROVE  FALSE
  <2>1. PICK m \in F : \A t \in F : t \subseteq m => t = m
    <3>1. SubsetFamily(F, 1..n)
      BY <1>2 DEF SubsetFamily
    <3> HIDE DEF F
    <3>2. HasSmallest(F)
      BY <1>1, <3>1, SmallestSubset
    <3> QED  BY <3>2 DEF HasSmallest
  <2> DEFINE part(t) == (CHOOSE it : IsRebuild(it, es, t))[t]
             step(t) == ReduceProjectionEvent(part(t \ {Max(t)}), es[Max(t)])
             whole == [t \in SUBSET m |-> IF t = {} THEN EmptyProjection ELSE step(t)]
  <2>2. m \subseteq 1..n
    OBVIOUS
  <2>3. ASSUME NEW t \in SUBSET m, t # m
        PROVE  IsRebuild(CHOOSE it : IsRebuild(it, es, t), es, t)
    <3>1. \E it : IsRebuild(it, es, t)
      BY <2>1, <2>2, <2>3
    <3> QED  BY <3>1
  <2>4. ASSUME NEW t \in SUBSET m, t # {}
        PROVE  t \ {Max(t)} \in SUBSET m /\ t \ {Max(t)} # m
    <3>1. t \in SUBSET (1..n) /\ t \subseteq Int
      BY <2>2
    <3>2. IsFiniteSet(t)
      BY <1>1, <3>1, FS_Subset
    <3> QED  BY <2>4, <3>1, <3>2, MaxIsLast
  <2>5. ASSUME NEW t \in SUBSET m, t # m
        PROVE  whole[t] = part(t)
    <3>1. CASE t = {}
      <4> DEFINE g == CHOOSE it : IsRebuild(it, es, t)
      <4>1. IsRebuild(g, es, t)
        BY <2>3, <2>5
      <4>2. g[t] = EmptyProjection
        <5> HIDE DEF g
        <5> QED  BY <3>1, <4>1 DEF IsRebuild
      <4> QED  BY <3>1, <4>2
    <3>2. CASE t # {}
      <4> DEFINE g == CHOOSE it : IsRebuild(it, es, t)
                 u == t \ {Max(t)}
                 h == CHOOSE it : IsRebuild(it, es, u)
      <4>1. IsRebuild(g, es, t)
        BY <2>3, <2>5
      <4>2. u \in SUBSET m /\ u # m /\ u \subseteq t
        BY <2>4, <3>2
      <4>3. IsRebuild(h, es, u)
        BY <2>3, <4>2
      <4>4. g[u] = h[u]
        <5>1. Positions(t) /\ Positions(u) /\ u \in SUBSET (t \cap u)
          <6>1. t \subseteq 1..n /\ u \subseteq 1..n
            BY <2>2, <4>2
          <6>2. IsFiniteSet(t) /\ IsFiniteSet(u)
            BY <1>1, <6>1, FS_Subset
          <6> QED  BY <4>2, <6>1, <6>2 DEF Positions
        <5>2. AgreeOn(es, es, t \cap u)
          BY DEF AgreeOn
        <5> HIDE DEF g, h, u
        <5>3. AgreeOn(g, h, SUBSET (t \cap u))
          BY <4>1, <4>3, <5>1, <5>2, RebuildsAgree
        <5> QED  BY <5>1, <5>3 DEF AgreeOn
      <4>5. g[t] = ReduceProjectionEvent(g[u], es[Max(t)])
        <5> HIDE DEF g
        <5> QED  BY <3>2, <4>1 DEF IsRebuild
      <4> QED  BY <3>2, <4>4, <4>5
    <3> QED  BY <3>1, <3>2
  <2>6. \A t \in SUBSET m : t # {} => whole[t] = ReduceProjectionEvent(whole[t \ {Max(t)}], es[Max(t)])
    <3> SUFFICES ASSUME NEW t \in SUBSET m, t # {}
                 PROVE  whole[t] = ReduceProjectionEvent(whole[t \ {Max(t)}], es[Max(t)])
      OBVIOUS
    <3>1. whole[t \ {Max(t)}] = part(t \ {Max(t)})
      <4> HIDE DEF whole, part
      <4> QED  BY <2>4, <2>5
    <3>2. whole[t] = step(t)
      OBVIOUS
    <3> QED  BY <3>1, <3>2
  <2>7. IsRebuild(whole, es, m)
    <3>1. whole[{}] = EmptyProjection
      OBVIOUS
    <3>2. whole = [t \in SUBSET m |-> whole[t]]
      OBVIOUS
    <3> HIDE DEF whole
    <3>3. whole = [t \in SUBSET m |-> IF t = {} THEN EmptyProjection
                     ELSE ReduceProjectionEvent(whole[t \ {Max(t)}], es[Max(t)])]
      BY <2>6, <3>1, <3>2
    <3> QED  BY <3>3 DEF IsRebuild
  <2>8. m \notin F
    <3> HIDE DEF whole
    <3> QED  BY <2>7
  <2> QED  BY <2>8
<1> QED  BY <1>2

\* The rebuild of an empty ledger, and of one that is one entry longer.
LEMMA RebuildOfNone ==
  ASSUME NEW es, DOMAIN es = {}
  PROVE  RebuildProjection(es) = EmptyProjection
<1> DEFINE it == CHOOSE it : IsRebuild(it, es, {})
<1>1. IsRebuild(it, es, {})
  <2>1. {} \in SUBSET (1..0) /\ 0 \in Nat
    OBVIOUS
  <2> QED  BY <2>1, RebuildExists
<1>2. it[{}] = EmptyProjection
  <2> HIDE DEF it
  <2> QED  BY <1>1 DEF IsRebuild
<1> QED  BY <1>2, RebuildIsIteration

LEMMA RebuildOfMore ==
  ASSUME NEW n \in Nat, NEW es, DOMAIN es = 1..n,
         NEW fs, DOMAIN fs = 1..(n + 1), \A i \in 1..n : fs[i] = es[i]
  PROVE  RebuildProjection(fs) = ReduceProjectionEvent(RebuildProjection(es), fs[n + 1])
<1> DEFINE S == 1..n
           T == 1..(n + 1)
           g == CHOOSE it : IsRebuild(it, es, S)
           h == CHOOSE it : IsRebuild(it, fs, T)
<1>1. IsRebuild(g, es, S)
  <2>1. \E it : IsRebuild(it, es, S)
    BY RebuildExists
  <2> QED  BY <2>1
<1>2. IsRebuild(h, fs, T)
  <2>1. \E it : IsRebuild(it, fs, T)
    <3>1. n + 1 \in Nat /\ T \in SUBSET (1..(n + 1))
      OBVIOUS
    <3> QED  BY <3>1, RebuildExists
  <2> QED  BY <2>1
<1>3. Positions(S) /\ Positions(T)
  BY FS_Interval DEF Positions
<1>4. Max(T) = n + 1
  <2>1. Max(T) \in T /\ \A x \in T : x <= Max(T)
    <3>1. n + 1 \in T
      OBVIOUS
    <3> HIDE DEF T
    <3> QED  BY <1>3, <3>1, MaxIsLast DEF Positions
  <2> QED  BY <2>1
<1>5. T \ {Max(T)} = S /\ T # {} /\ S \cap T = S /\ S \subseteq T
  BY <1>4
<1>6. AgreeOn(es, fs, S \cap T)
  BY <1>5 DEF AgreeOn
<1>7. g[S] = h[S]
  <2> HIDE DEF S, T, g, h
  <2>1. AgreeOn(g, h, SUBSET (S \cap T))
    BY <1>1, <1>2, <1>3, <1>6, RebuildsAgree
  <2> QED  BY <1>5, <2>1 DEF AgreeOn
<1>8. h[T] = ReduceProjectionEvent(h[S], fs[n + 1])
  <2> HIDE DEF S, T, g, h
  <2> QED  BY <1>2, <1>4, <1>5 DEF IsRebuild
<1> QED  BY <1>7, <1>8, RebuildIsIteration

\* A sequence that replays still does when an accepted entry follows it.
LEMMA ReplayOfMore ==
  ASSUME NEW X, NEW es \in Seq(X), NEW fs \in Seq(X), Len(fs) = Len(es) + 1,
         \A i \in 1..Len(es) : fs[i] = es[i],
         Replays(es), Reducible(RebuildProjection(es), fs[Len(fs)])
  PROVE  /\ RebuildProjection(fs) = ReduceProjectionEvent(RebuildProjection(es), fs[Len(fs)])
         /\ Replays(fs)
<1> DEFINE n == Len(es)
<1>1. n \in Nat /\ DOMAIN es = 1..n /\ DOMAIN fs = 1..(n + 1)
  OBVIOUS
<1>2. RebuildProjection(fs) = ReduceProjectionEvent(RebuildProjection(es), fs[n + 1])
  BY <1>1, RebuildOfMore
<1>3. ASSUME NEW i \in DOMAIN fs
      PROVE  Reducible(RebuildProjection(SubSeq(fs, 1, i - 1)), fs[i])
  <2>1. SubSeq(fs, 1, i - 1) = SubSeq(es, 1, i - 1)
    BY <1>1
  <2>2. CASE i \in 1..n
    BY <1>1, <2>1, <2>2 DEF Replays
  <2>3. CASE i = n + 1
    <3>1. SubSeq(es, 1, i - 1) = es
      BY <1>1, <2>3
    <3> QED  BY <2>1, <2>3, <3>1
  <2> QED  BY <1>1, <2>2, <2>3
<1> QED  BY <1>2, <1>3 DEF Replays

\* One entry that the reducer accepts keeps the replay.
LEMMA MatchesAfterOne ==
  ASSUME TypeOK, ProjectionMatchesLedger, NEW e, AppendOne(e)
  PROVE  ProjectionMatchesLedger'
<1> DEFINE X == Entry \cup {e}
           fs == Append(ledger, e)
<1>1. ledger \in Seq(X)
  BY DEF TypeOK
<1>2. /\ fs \in Seq(X) /\ Len(fs) = Len(ledger) + 1 /\ fs[Len(fs)] = e
      /\ \A i \in 1..Len(ledger) : fs[i] = ledger[i]
  BY <1>1
<1>3. ledger' = fs /\ progress' = ReduceProjectionEvent(progress, e) /\ Reducible(progress, e)
  <2>1. ledger \o <<e>> = Append(ledger, e)
    BY <1>1
  <2> QED  BY <2>1 DEF AppendOne, AppendEntries
<1> HIDE DEF fs, X
<1>4. progress = RebuildProjection(ledger) /\ Replays(ledger)
  BY DEF ProjectionMatchesLedger
<1>5. RebuildProjection(fs) = ReduceProjectionEvent(progress, e) /\ Replays(fs)
  BY <1>1, <1>2, <1>3, <1>4, ReplayOfMore
<1> QED  BY <1>3, <1>5 DEF ProjectionMatchesLedger

\* So do two entries of one operation, appended together or not at all.
LEMMA MatchesAfterTwo ==
  ASSUME TypeOK, ProjectionMatchesLedger, NEW e, NEW f, AppendTwo(e, f)
  PROVE  ProjectionMatchesLedger'
<1> DEFINE X == Entry \cup {e, f}
           fs == Append(ledger, e)
           gs == Append(fs, f)
           p == ReduceProjectionEvent(progress, e)
<1>1. ledger \in Seq(X)
  BY DEF TypeOK
<1>2. /\ fs \in Seq(X) /\ Len(fs) = Len(ledger) + 1 /\ fs[Len(fs)] = e
      /\ \A i \in 1..Len(ledger) : fs[i] = ledger[i]
  BY <1>1
<1>3. /\ gs \in Seq(X) /\ Len(gs) = Len(fs) + 1 /\ gs[Len(gs)] = f
      /\ \A i \in 1..Len(fs) : gs[i] = fs[i]
  <2> HIDE DEF fs
  <2> QED  BY <1>2 DEF X
<1>4. /\ ledger' = gs /\ progress' = ReduceProjectionEvent(p, f)
      /\ Reducible(progress, e) /\ Reducible(p, f)
  <2>1. ledger \o <<e, f>> = gs
    BY <1>1
  <2> QED  BY <2>1 DEF AppendTwo, AppendEntries
<1> HIDE DEF gs, fs, X
<1>5. progress = RebuildProjection(ledger) /\ Replays(ledger)
  BY DEF ProjectionMatchesLedger
<1>6. RebuildProjection(fs) = p /\ Replays(fs)
  BY <1>1, <1>2, <1>4, <1>5, ReplayOfMore
<1>7. RebuildProjection(gs) = ReduceProjectionEvent(p, f) /\ Replays(gs)
  BY <1>2, <1>3, <1>4, <1>6, ReplayOfMore
<1> QED  BY <1>4, <1>7 DEF ProjectionMatchesLedger

\* An unlock entry is accepted by the card it belongs to and counts as a version.
LEMMA UnlockReduces ==
  ASSUME NEW q \in Projection, q.ready = (q.stamps = Goal), NEW u, u.cycle = q.completed + 1,
         u.delta = 0, u.type \in {"FINAL_REWARD_UNLOCKED", "MILESTONE_REWARD_UNLOCKED"},
         u.type = "FINAL_REWARD_UNLOCKED" => q.stamps = Goal
  PROVE  Reducible(q, u) /\ ReduceProjectionEvent(q, u) = [q EXCEPT !.version = @ + 1]
<1>1. Reducible(q, u)
  BY DEF Reducible, StampAdditions, NeutralEvents
<1>2. StampsAfter(q, u) = q.stamps /\ CompletedAfter(q, u) = q.completed
  BY DEF StampsAfter, CompletedAfter, MovesStamps, StampAdditions
<1>3. ReadyAfter(q, u) = q.ready
  <2>1. CASE u.type = "FINAL_REWARD_UNLOCKED"
    <3>1. q.ready = TRUE
      BY <2>1
    <3>2. ReadyAfter(q, u) = TRUE
      BY <2>1 DEF ReadyAfter, MovesStamps, StampAdditions
    <3> QED  BY <3>1, <3>2
  <2>2. CASE u.type = "MILESTONE_REWARD_UNLOCKED"
    BY <2>2 DEF ReadyAfter, MovesStamps, StampAdditions
  <2> QED  BY <2>1, <2>2
<1>4. q = [stamps |-> q.stamps, completed |-> q.completed, ready |-> q.ready, version |-> q.version]
  BY DEF Projection
<1>5. [q EXCEPT !.version = @ + 1] =
        [stamps |-> q.stamps, completed |-> q.completed, ready |-> q.ready, version |-> q.version + 1]
  BY DEF Projection
<1> QED  BY <1>1, <1>2, <1>3, <1>5 DEF ReduceProjectionEvent

\* The unlock entries of an addition belong to the card that it is made to.
LEMMA UnlocksAreOfCard ==
  ASSUME TypeOK, CycleBound,
         NEW prior \in 0..Goal, NEW next \in 0..Goal, prior < next,
         NEW i \in 1..Len(Unlocks(prior, next))
  PROVE  LET u == Unlocks(prior, next)[i] IN
         /\ u.cycle = progress.completed + 1 /\ u.delta = 0
         /\ u.type \in {"FINAL_REWARD_UNLOCKED", "MILESTONE_REWARD_UNLOCKED"}
         /\ u.type = "FINAL_REWARD_UNLOCKED" => next = Goal
<1> DEFINE u == Unlocks(prior, next)[i]
           r == Rewards[Reached(prior) + i]
<1>1. /\ u = Plain(u.type, u.key)
      /\ u.type \in {"FINAL_REWARD_UNLOCKED", "MILESTONE_REWARD_UNLOCKED"}
      /\ \E t \in CrossedRewardThresholds(prior, next) : u.key = <<CurrentCycle, t>>
  BY UnlockEntries
<1>2. u.cycle = progress.completed + 1 /\ u.delta = 0
  <2> HIDE DEF u
  <2> QED  BY <1>1 DEF Plain, Event, CurrentCycle
<1>3. u.type = UnlockType(r) /\ u.key = <<CurrentCycle, r>>
  <2>1. u = Plain(UnlockType(r), <<CurrentCycle, r>>)
    <3>1. Unlocks(prior, next) \in Seq(Entry)
      BY UnlockEntries
    <3>2. i \in DOMAIN Unlocks(prior, next)
      BY <3>1
    <3> QED  BY <3>2 DEF Unlocks
  <2> HIDE DEF u, r
  <2> QED  BY <2>1 DEF Plain, Event
<1>4. u.type = "FINAL_REWARD_UNLOCKED" => next = Goal
  <2> HIDE DEF u, r
  <2>1. PICK t \in CrossedRewardThresholds(prior, next) : u.key = <<CurrentCycle, t>>
    BY <1>1
  <2>2. r = t
    BY <1>3, <2>1
  <2>3. t <= next
    BY DEF CrossedRewardThresholds
  <2>4. u.type = "FINAL_REWARD_UNLOCKED" => r = Goal
    BY <1>3 DEF UnlockType
  <2> QED  BY <2>2, <2>3, <2>4, RewardFacts
<1> QED  BY <1>1, <1>2, <1>4

\* An addition and the entries of all the rewards it unlocks keep the replay.
LEMMA MatchesAfterStamps ==
  ASSUME IInv, ProjectionMatchesLedger, NEW e \in Entry, e.type \in StampAdditions,
         e.delta > 0, AddStamps(e)
  PROVE  ProjectionMatchesLedger'
<1> DEFINE s == progress.stamps
           next == progress.stamps + e.delta
           us == Unlocks(s, next)
           p == ReduceProjectionEvent(progress, e)
           first == Append(ledger, e)
           upTo(m) == first \o SubSeq(us, 1, m)
           G == {m \in 0..Len(us) :
                   /\ RebuildProjection(upTo(m)) = [p EXCEPT !.version = @ + m]
                   /\ Replays(upTo(m))}
<1>1. TypeOK /\ CycleBound /\ ReadyExactlyAtGoal /\ e.delta \in Int
  BY DEF IInv, Entry
<1>2. s \in 0..Goal /\ next \in 0..Goal /\ s < next
  <2>1. s \in 0..Goal
    BY <1>1 DEF ReadyExactlyAtGoal
  <2>2. next \in 0..Goal
    BY DEF AddStamps, Reducible, StampsAccepted
  <2> QED  BY <1>1, <2>1, <2>2, RewardFacts
<1>3. us \in Seq(Entry) /\ Len(us) \in Nat
  BY <1>1, <1>2, UnlockEntries
<1>4. /\ ledger' = ledger \o (<<e>> \o us) /\ Reducible(progress, e)
      /\ progress' = [p EXCEPT !.version = @ + Len(us)]
  BY DEF AddStamps, AppendEntries, AfterUnlocks
<1>5. /\ p \in Projection /\ p.stamps = next /\ p.completed = progress.completed
      /\ p.ready = (next = Goal)
  BY <1>1, Reduced, ZenonT(60) DEF TypeOK
<1>6. ledger \in Seq(Entry) /\ first \in Seq(Entry) /\ Len(first) = Len(ledger) + 1
      /\ first[Len(first)] = e /\ \A i \in 1..Len(ledger) : first[i] = ledger[i]
  BY <1>1 DEF TypeOK
<1>7. RebuildProjection(first) = p /\ Replays(first)
  <2>1. progress = RebuildProjection(ledger) /\ Replays(ledger)
    BY DEF ProjectionMatchesLedger
  <2> HIDE DEF first
  <2> QED  BY <1>4, <1>6, <2>1, ReplayOfMore
<1>8. 0 \in G
  <2>1. upTo(0) = first
    <3> HIDE DEF us, first
    <3> QED  BY <1>3, <1>6
  <2>2. [p EXCEPT !.version = @ + 0] = p
    <3> HIDE DEF p
    <3> QED  BY <1>5 DEF Projection
  <2>3. RebuildProjection(upTo(0)) = [p EXCEPT !.version = @ + 0] /\ Replays(upTo(0))
    <3> HIDE DEF upTo, p
    <3> QED  BY <1>7, <2>1, <2>2
  <2>4. 0 \in 0..Len(us)
    BY <1>3
  <2> HIDE DEF upTo, p, us
  <2> QED  BY <2>3, <2>4
<1>9. ASSUME NEW m \in 0..(Len(us) - 1), m \in G
      PROVE  m + 1 \in G
  <2> DEFINE q == [p EXCEPT !.version = @ + m]
             es == upTo(m)
             fs == upTo(m + 1)
             u == us[m + 1]
  <2>a. m \in Nat /\ m + 1 \in Nat
    BY <1>3
  <2>1. RebuildProjection(es) = q /\ Replays(es)
    BY <1>9
  <2>2. /\ es \in Seq(Entry) /\ fs \in Seq(Entry) /\ Len(fs) = Len(es) + 1
        /\ fs[Len(fs)] = u /\ \A i \in 1..Len(es) : fs[i] = es[i]
    <3> HIDE DEF us, first
    <3>1. /\ SubSeq(us, 1, m) \in Seq(Entry) /\ SubSeq(us, 1, m + 1) \in Seq(Entry)
          /\ Len(SubSeq(us, 1, m)) = m /\ Len(SubSeq(us, 1, m + 1)) = m + 1
          /\ \A i \in 1..m : SubSeq(us, 1, m)[i] = us[i]
          /\ \A i \in 1..(m + 1) : SubSeq(us, 1, m + 1)[i] = us[i]
      BY <1>3, <1>9
    <3>2. /\ es \in Seq(Entry) /\ fs \in Seq(Entry)
          /\ Len(es) = Len(first) + m /\ Len(fs) = Len(first) + (m + 1)
      BY <1>6, <1>9, <3>1
    <3>3. /\ \A i \in 1..Len(first) : es[i] = first[i] /\ fs[i] = first[i]
          /\ \A i \in 1..m : es[Len(first) + i] = us[i] /\ fs[Len(first) + i] = us[i]
          /\ fs[Len(first) + (m + 1)] = u
      <4> DEFINE a == SubSeq(us, 1, m)
                 b == SubSeq(us, 1, m + 1)
      <4>1. es = first \o a /\ fs = first \o b
        OBVIOUS
      <4>2. /\ a \in Seq(Entry) /\ b \in Seq(Entry) /\ Len(a) = m /\ Len(b) = m + 1
            /\ \A i \in 1..m : a[i] = us[i] /\ b[i] = us[i]
            /\ b[m + 1] = u
        BY <2>a, <3>1
      <4> HIDE DEF a, b, es, fs, u
      <4>3. \A i \in 1..Len(first) : es[i] = first[i] /\ fs[i] = first[i]
        BY <1>6, <2>a, <4>1, <4>2
      <4>4. \A i \in 1..m : es[Len(first) + i] = us[i] /\ fs[Len(first) + i] = us[i]
        BY <1>6, <2>a, <4>1, <4>2, SMTT(30)
      <4>5. fs[Len(first) + (m + 1)] = u
        BY <1>6, <2>a, <4>1, <4>2
      <4> QED  BY <4>3, <4>4, <4>5
    <3> HIDE DEF es, fs, u
    <3>4. ASSUME NEW i \in 1..Len(es)
          PROVE  fs[i] = es[i]
      <4>1. CASE i <= Len(first)
        BY <3>3, <4>1
      <4>2. CASE i > Len(first)
        <5>1. i - Len(first) \in 1..m /\ Len(first) + (i - Len(first)) = i
          BY <1>6, <2>a, <3>2, <4>2
        <5> QED  BY <3>3, <5>1
      <4> QED  BY <1>6, <4>1, <4>2
    <3> QED  BY <1>6, <2>a, <3>2, <3>3, <3>4
  <2>3. m + 1 \in 1..Len(us)
    BY <1>3, <1>9
  <2>4. /\ u.cycle = progress.completed + 1 /\ u.delta = 0
        /\ u.type \in {"FINAL_REWARD_UNLOCKED", "MILESTONE_REWARD_UNLOCKED"}
        /\ u.type = "FINAL_REWARD_UNLOCKED" => next = Goal
    BY <1>1, <1>2, <2>3, UnlocksAreOfCard
  <2>5. /\ q \in Projection /\ q.stamps = next /\ q.completed = progress.completed
        /\ q.ready = (q.stamps = Goal) /\ [q EXCEPT !.version = @ + 1] = [p EXCEPT !.version = @ + (m + 1)]
    <3> HIDE DEF p
    <3>1. q \in Projection /\ q.stamps = p.stamps /\ q.completed = p.completed /\ q.ready = p.ready
      BY <1>5, <2>a DEF Projection
    <3>2. [q EXCEPT !.version = @ + 1] = [p EXCEPT !.version = @ + (m + 1)]
      <4>1. (p.version + m) + 1 = p.version + (m + 1)
        BY <1>5, <2>a DEF Projection
      <4> QED  BY <1>5, <4>1 DEF Projection
    <3> QED  BY <1>5, <3>1, <3>2
  <2> HIDE DEF q, u, es, fs, us
  <2>6. Reducible(q, u) /\ ReduceProjectionEvent(q, u) = [q EXCEPT !.version = @ + 1]
    <3>1. u.cycle = q.completed + 1 /\ (u.type = "FINAL_REWARD_UNLOCKED" => q.stamps = Goal)
      BY <2>4, <2>5
    <3> QED  BY <2>4, <2>5, <3>1, UnlockReduces
  <2>7. RebuildProjection(fs) = [q EXCEPT !.version = @ + 1] /\ Replays(fs)
    BY <2>1, <2>2, <2>6, ReplayOfMore
  <2> QED  BY <2>3, <2>5, <2>7 DEF fs
<1>10. Len(us) \in G
  <2>1. Len(us) \in 0..Len(us)
    BY <1>3
  <2> HIDE DEF G, us
  <2> QED  BY <1>3, <1>8, <1>9, <2>1, Climbing
<1>11. ledger' = upTo(Len(us))
  <2> HIDE DEF us
  <2>1. SubSeq(us, 1, Len(us)) = us
    BY <1>3
  <2>2. ledger \o (<<e>> \o us) = Append(ledger, e) \o us
    BY <1>3, <1>6, SMTT(30)
  <2> QED  BY <1>4, <2>1, <2>2
<1> QED  BY <1>4, <1>10, <1>11 DEF ProjectionMatchesLedger

\* One step for each operation, by the number of entries it appends.
LEMMA StepMatches == IInv /\ ProjectionMatchesLedger /\ [Next]_vars => ProjectionMatchesLedger'
<1> SUFFICES ASSUME IInv, ProjectionMatchesLedger, [Next]_vars PROVE ProjectionMatchesLedger'
  OBVIOUS
<1>1. TypeOK
  BY DEF IInv
<1>2. ASSUME UNCHANGED <<ledger, progress>> PROVE ProjectionMatchesLedger'
  BY <1>2 DEF ProjectionMatchesLedger
<1>3. CASE UNCHANGED vars
  BY <1>2, <1>3 DEF vars
<1>4. ASSUME NEW n \in Amounts, NEW r \in References \cup {NoReference}, IssueStamps(n, r)
      PROVE  ProjectionMatchesLedger'
  <2> DEFINE e == [Moving("STAMP_ISSUED", n) EXCEPT !.reference = r]
  <2>1. n \in Nat /\ n > 0
    BY <1>4, PolicyAssumption DEF IssueStamps, CanIssue, StampPolicyAllows
  <2>2. e \in Entry /\ e.type = "STAMP_ISSUED" /\ e.delta = n
    BY <2>1, StampEntries
  <2>3. AddStamps(e)
    BY <1>4 DEF IssueStamps
  <2> HIDE DEF e
  <2>4. e.type \in StampAdditions /\ e.delta > 0
    BY <2>1, <2>2 DEF StampAdditions
  <2>5. QED
    BY <2>2, <2>3, <2>4, MatchesAfterStamps
<1>5. ASSUME NEW d \in Corrections, RaiseAdjustment(d)
      PROVE  ProjectionMatchesLedger'
  <2> DEFINE e == Moving("MANUAL_STAMP_ADJUSTMENT", d)
  <2>1. d \in Int /\ d > 0
    BY <1>5, PolicyAssumption DEF RaiseAdjustment
  <2>2. e \in Entry /\ e.type = "MANUAL_STAMP_ADJUSTMENT" /\ e.delta = d
    BY <2>1, StampEntries
  <2>3. AddStamps(e)
    BY <1>5 DEF RaiseAdjustment
  <2> HIDE DEF e
  <2>4. e.type \in StampAdditions /\ e.delta > 0
    BY <2>1, <2>2 DEF StampAdditions
  <2>5. QED
    BY <2>2, <2>3, <2>4, MatchesAfterStamps
<1>6. ASSUME NEW d, LowerAdjustment(d) PROVE ProjectionMatchesLedger'
  BY <1>1, <1>6, MatchesAfterOne DEF LowerAdjustment
<1>7. ASSUME NEW n, NEW r, IssueRejected(n, r) \/ RaiseRejected(n) PROVE ProjectionMatchesLedger'
  BY <1>2, <1>7 DEF IssueRejected, RaiseRejected
<1>8. ASSUME NEW k, RedeemMilestone(k) PROVE ProjectionMatchesLedger'
  BY <1>1, <1>8, MatchesAfterOne DEF RedeemMilestone
<1>9. ASSUME NEW k, RedeemFinal(k) PROVE ProjectionMatchesLedger'
  BY <1>1, <1>9, MatchesAfterTwo DEF RedeemFinal
<1>10. ASSUME NEW k, RedeemRejected(k) PROVE ProjectionMatchesLedger'
  BY <1>2, <1>10 DEF RedeemRejected
<1>11. ASSUME NEW c, ReverseStamp(c) PROVE ProjectionMatchesLedger'
  BY <1>1, <1>11, MatchesAfterOne DEF ReverseStamp
<1>12. ASSUME NEW c, ReverseRedemption(c) PROVE ProjectionMatchesLedger'
  <2>1. CASE HasReset(c)
    BY <1>1, <1>12, <2>1, MatchesAfterTwo DEF ReverseRedemption
  <2>2. CASE ~HasReset(c)
    BY <1>1, <1>12, <2>2, MatchesAfterOne DEF ReverseRedemption
  <2>3. QED
    BY <2>1, <2>2
<1>13. CASE ChangeMembershipStatus
  BY <1>1, <1>13, MatchesAfterOne DEF ChangeMembershipStatus, Suspend, Restore, Revoke, SetStatus
<1>14. ASSUME NEW k, ScheduleExpiry(k) \/ CloseExpiry(k) PROVE ProjectionMatchesLedger'
  BY <1>2, <1>14 DEF ScheduleExpiry, CloseExpiry
<1>15. ASSUME NEW k, ExpireReward(k) PROVE ProjectionMatchesLedger'
  BY <1>1, <1>15, MatchesAfterOne DEF ExpireReward
<1>16. CASE Tick
  BY <1>2, <1>16 DEF Tick
<1>17. QED
  BY <1>3, <1>4, <1>5, <1>6, <1>7, <1>8, <1>9, <1>10, <1>11, <1>12, <1>13, <1>14, <1>15, <1>16
     DEF Next, Operate, Earn, Correct, Redeem, ReverseOperation, ExpireRewards

\* The projection is what a rebuild of the whole ledger computes, and the rebuild
\* meets no entry the reducer refuses: for every policy and a ledger of any length,
\* however many rewards one addition unlocks and whichever operations are reversed.
THEOREM ProjectionIsRebuild == Spec => []ProjectionMatchesLedger
<1>1. Init => ProjectionMatchesLedger
  <2>1. ASSUME Init PROVE DOMAIN ledger = {} /\ progress = EmptyProjection
    BY <2>1 DEF Init
  <2>2. QED
    BY <2>1, RebuildOfNone DEF ProjectionMatchesLedger, Replays
<1>2. QED
  BY <1>1, StepMatches, InvariantHolds, PTL DEF Spec

-----------------------------------------------------------------------------
(* Sums of stamps.                                                         *)

\* The sum that the daily cap is about, of any ledger, and its additions of the
\* day of entry i up to i.
Stamps(led, S) == MapThenSumSet(LAMBDA j : led[j].delta, S)
Additions(led, i) == {j \in 1..i : /\ led[j].type \in StampAdditions
                                   /\ led[j].delta > 0
                                   /\ Day(led[j].at) = Day(led[i].at)}
CapKept(led) ==
  \A i \in DOMAIN led : led[i].type = "STAMP_ISSUED" /\ DailyCap # NoCap =>
                          Stamps(led, Additions(led, i)) <= DailyCap

LEMMA CapIsKept == CapKept(ledger) <=> DailyCapRespected
  BY DEF DailyCapRespected, CapKept, Stamps, Additions

\* That sum is one of those of FoldFacts.
StampsIter(it, led, S) ==
  it = [s \in SUBSET S |-> IF s = {} THEN 0 ELSE led[Pick(s)].delta + it[s \ {Pick(s)}]]

LEMMA StampsAreSum ==
  ASSUME NEW led, NEW S, IsFiniteSet(S)
  PROVE  Stamps(led, S) = SumOver([j \in S |-> led[j].delta], S)
<1> DEFINE F == [j \in S |-> led[j].delta]
           g == CHOOSE it : StampsIter(it, led, S)
<1>1. Stamps(led, S) = g[S]
  BY DEF Stamps, MapThenSumSet, MapThenFoldSet, StampsIter, Pick
<1>2. ASSUME NEW it
      PROVE  StampsIter(it, led, S) <=> Adds(it, F, S)
  <2>1. \A s \in SUBSET S : s # {} => F[Pick(s)] = led[Pick(s)].delta
    BY PickIsOne
  <2> HIDE DEF F
  <2>2. [s \in SUBSET S |-> IF s = {} THEN 0 ELSE led[Pick(s)].delta + it[s \ {Pick(s)}]]
          = [s \in SUBSET S |-> IF s = {} THEN 0 ELSE F[Pick(s)] + it[s \ {Pick(s)}]]
    BY <2>1
  <2>3. QED
    BY <2>2 DEF StampsIter, Adds
<1> HIDE DEF F
<1>3. StampsIter(g, led, S)
  <2>1. \E it : StampsIter(it, led, S)
    BY <1>2, SumExists
  <2>2. QED
    BY <2>1
<1> HIDE DEF g
<1>4. g[S] = SumOver(F, S)
  <2>1. Adds(g, F, S) /\ S \in SUBSET S
    BY <1>2, <1>3
  <2>2. QED
    BY <2>1, SumWithin
<1>5. QED
  BY <1>1, <1>4 DEF F

-----------------------------------------------------------------------------
(* How the ledger grows.                                                   *)

\* What an operation appends at the new position i: entries of its own command
\* and time; stamps first and within the policy, after a revocation only
\* expiries, and a reversal of the one command on which nothing depends.
NewEntry(i) ==
  LET e == ledger'[i] IN
  /\ e.at = now /\ e.command = Len(ledger) + 1
  /\ e.type = "STAMP_ISSUED" =>
       i = Len(ledger) + 1 /\ ~DuplicateReference(e.reference) /\ StampPolicyAllows(e.delta)
  /\ membership = "REVOKED" => e.type = "REWARD_EXPIRED"
  /\ e.type = "MEMBERSHIP_REVOKED" => membership' = "REVOKED" /\ Len(ledger') = Len(ledger) + 1
  /\ e.reversalOf # 0 =>
       \E c \in DOMAIN ledger : /\ ledger[c].command = c /\ ~HasDependentEvents(c)
                                /\ e.reversalOf = c + (i - (Len(ledger) + 1))
                                /\ e.reversalOf <= Len(ledger)

\* Entries are appended and none is changed, and a revoked membership stays so.
LedgerGrows ==
  /\ DOMAIN ledger = 1..Len(ledger) /\ DOMAIN ledger' = 1..Len(ledger')
  /\ Len(ledger) \in Nat /\ Len(ledger') \in Nat /\ Len(ledger) <= Len(ledger')
  /\ \A i \in DOMAIN ledger : ledger'[i] = ledger[i]
  /\ \A i \in DOMAIN ledger' \ DOMAIN ledger : i > Len(ledger) /\ NewEntry(i)
  /\ membership = "REVOKED" => membership' = "REVOKED"

\* One lemma for each number of entries that an operation appends.
LEMMA GrowsByNone ==
  ASSUME TypeOK, UNCHANGED ledger, membership = "REVOKED" => membership' = "REVOKED"
  PROVE  LedgerGrows
  BY DEF LedgerGrows, TypeOK

LEMMA GrowsByOne ==
  ASSUME TypeOK, NEW e, AppendOne(e), membership = "REVOKED" => membership' = "REVOKED",
         ledger' = Append(ledger, e) => NewEntry(Len(ledger) + 1)
  PROVE  LedgerGrows
<1>1. ledger \in Seq(Entry \cup {e})
  BY DEF TypeOK
<1>2. ledger' = Append(ledger, e)
  BY <1>1 DEF AppendOne, AppendEntries
<1>3. /\ Len(ledger) \in Nat /\ Len(ledger') = Len(ledger) + 1
      /\ DOMAIN ledger = 1..Len(ledger) /\ DOMAIN ledger' = 1..Len(ledger')
      /\ \A i \in DOMAIN ledger : ledger'[i] = ledger[i]
  BY <1>1, <1>2
<1>4. \A i \in DOMAIN ledger' \ DOMAIN ledger : i = Len(ledger) + 1
  BY <1>3
<1>5. QED
  BY <1>2, <1>3, <1>4 DEF LedgerGrows

LEMMA GrowsByTwo ==
  ASSUME TypeOK, NEW e, NEW f, AppendTwo(e, f), membership = "REVOKED" => membership' = "REVOKED",
         /\ ledger' = ledger \o <<e, f>> /\ ledger'[Len(ledger) + 1] = e
         /\ ledger'[Len(ledger) + 2] = f
         => NewEntry(Len(ledger) + 1) /\ NewEntry(Len(ledger) + 2)
  PROVE  LedgerGrows
<1>1. ledger \in Seq(Entry \cup {e, f})
  BY DEF TypeOK
<1>2. ledger' = ledger \o <<e, f>>
  BY <1>1 DEF AppendTwo, AppendEntries
<1>3. /\ Len(ledger) \in Nat /\ Len(ledger') = Len(ledger) + 2
      /\ DOMAIN ledger = 1..Len(ledger) /\ DOMAIN ledger' = 1..Len(ledger')
      /\ \A i \in DOMAIN ledger : ledger'[i] = ledger[i]
      /\ ledger'[Len(ledger) + 1] = e /\ ledger'[Len(ledger) + 2] = f
  BY <1>1, <1>2
<1>4. \A i \in DOMAIN ledger' \ DOMAIN ledger :
        i > Len(ledger) /\ (i = Len(ledger) + 1 \/ i = Len(ledger) + 2)
  BY <1>3
<1>5. QED
  BY <1>2, <1>3, <1>4 DEF LedgerGrows

\* Stamps come first; the unlock entries that follow say nothing of the past.
LEMMA GrowsByStamps ==
  ASSUME IInv, NEW e \in Entry, e.type \in StampAdditions, e.delta > 0, AddStamps(e),
         e.at = now, e.command = Len(ledger) + 1, e.reversalOf = 0,
         e.type = "STAMP_ISSUED" =>
           ~DuplicateReference(e.reference) /\ StampPolicyAllows(e.delta),
         membership = "ACTIVE", UNCHANGED membership
  PROVE  LedgerGrows
<1> DEFINE s == progress.stamps
           next == progress.stamps + e.delta
           us == Unlocks(s, next)
           es == <<e>> \o us
<1>1. TypeOK /\ CycleBound /\ e.delta \in Int /\ s \in 0..Goal
  BY DEF IInv, Entry, ReadyExactlyAtGoal
<1>2. next \in 0..Goal /\ s < next
  <2>1. next \in 0..Goal
    BY DEF AddStamps, Reducible, StampsAccepted
  <2>2. QED
    BY <1>1, <2>1, RewardFacts
<1>3. /\ us \in Seq(Entry) /\ Len(us) \in Nat
      /\ \A i \in 1..Len(us) :
           /\ us[i] = Plain(us[i].type, us[i].key)
           /\ us[i].type \in {"FINAL_REWARD_UNLOCKED", "MILESTONE_REWARD_UNLOCKED"}
  BY <1>1, <1>2, UnlockEntries
<1>4. ledger' = ledger \o es
  BY DEF AddStamps, AppendEntries
<1> HIDE DEF us
<1>5. /\ es \in Seq(Entry) /\ Len(es) = Len(us) + 1 /\ es[1] = e
      /\ \A i \in 2..Len(es) : i - 1 \in 1..Len(us) /\ es[i] = us[i - 1]
  BY <1>3
<1>6. \A i \in 1..Len(us) : us[i].at = now /\ us[i].command = Len(ledger) + 1 /\ us[i].reversalOf = 0
  <2> SUFFICES ASSUME NEW i \in 1..Len(us)
               PROVE  us[i].at = now /\ us[i].command = Len(ledger) + 1 /\ us[i].reversalOf = 0
    OBVIOUS
  <2> DEFINE u == us[i]
  <2>1. u = Plain(u.type, u.key)
    BY <1>3
  <2> HIDE DEF u
  <2>2. u.at = now /\ u.command = Len(ledger) + 1 /\ u.reversalOf = 0
    BY <2>1 DEF Plain, Event
  <2>3. QED
    BY <2>2 DEF u
<1> HIDE DEF es
<1>7. /\ Len(ledger) \in Nat /\ Len(ledger') = Len(ledger) + Len(es)
      /\ DOMAIN ledger = 1..Len(ledger) /\ DOMAIN ledger' = 1..Len(ledger')
      /\ \A i \in DOMAIN ledger : ledger'[i] = ledger[i]
      /\ \A j \in 1..Len(es) : ledger'[Len(ledger) + j] = es[j]
  <2>1. \A j \in 1..Len(es) : es[j].command = Len(ledger) + 1
    <3>1. \A j \in 1..Len(es) : j = 1 \/ j \in 2..Len(es)
      BY <1>3, <1>5
    <3>2. QED
      BY <1>5, <1>6, <3>1
  <2>2. es # <<>>
    BY <1>3, <1>5
  <2>3. QED
    BY <1>1, <1>4, <1>5, <2>1, <2>2, Appended
<1>8. ASSUME NEW i \in DOMAIN ledger' \ DOMAIN ledger
      PROVE  i > Len(ledger) /\ NewEntry(i)
  <2> DEFINE j == i - Len(ledger)
  <2>1. i > Len(ledger) /\ j \in 1..Len(es) /\ i = Len(ledger) + j /\ ledger'[i] = es[j]
    <3>1. j \in 1..Len(es) /\ Len(ledger) + j = i
      BY <1>5, <1>7
    <3>2. ledger'[Len(ledger) + j] = es[j]
      BY <1>7, <3>1
    <3>3. QED
      BY <1>5, <1>7, <3>1, <3>2
  <2>2. CASE j = 1
    <3>1. ledger'[i] = e /\ i = Len(ledger) + 1
      BY <1>5, <2>1, <2>2
    <3>2. e.type # "MEMBERSHIP_REVOKED"
      BY DEF StampAdditions
    <3>3. QED
      BY <2>1, <3>1, <3>2 DEF NewEntry
  <2>3. CASE j # 1
    <3>1. j - 1 \in 1..Len(us) /\ es[j] = us[j - 1]
      BY <1>5, <2>1, <2>3
    <3>2. /\ ledger'[i].at = now /\ ledger'[i].command = Len(ledger) + 1
          /\ ledger'[i].reversalOf = 0
          /\ ledger'[i].type \in {"FINAL_REWARD_UNLOCKED", "MILESTONE_REWARD_UNLOCKED"}
      BY <1>3, <1>6, <2>1, <3>1
    <3>3. QED
      BY <2>1, <3>2 DEF NewEntry
  <2>4. QED
    BY <2>2, <2>3
<1>9. QED
  BY <1>5, <1>7, <1>8 DEF LedgerGrows

\* Every step leaves the ledger alone or grows it so.
LEMMA StepGrows == IInv /\ [Next]_vars => LedgerGrows
<1> SUFFICES ASSUME IInv, [Next]_vars PROVE LedgerGrows
  OBVIOUS
<1>1. TypeOK /\ CommandsPast /\ Len(ledger) \in Nat /\ DOMAIN ledger = 1..Len(ledger)
  BY DEF IInv, TypeOK
<1>2. CASE UNCHANGED vars
  BY <1>1, <1>2, GrowsByNone DEF vars
<1>3. ASSUME NEW n \in Amounts, NEW r \in References \cup {NoReference}, IssueStamps(n, r)
      PROVE  LedgerGrows
  <2> DEFINE m == Moving("STAMP_ISSUED", n)
             e == [m EXCEPT !.reference = r]
  <2>1. n \in Nat /\ n > 0
    BY <1>3, PolicyAssumption DEF IssueStamps, CanIssue, StampPolicyAllows
  <2>2. e \in Entry /\ e.type = "STAMP_ISSUED" /\ e.delta = n /\ e.command = Len(ledger) + 1
    BY <2>1, StampEntries
  <2>3. e.at = now /\ e.reversalOf = 0 /\ e.reference = r
    BY DEF Moving, Event
  <2>4. /\ AddStamps(e) /\ ~DuplicateReference(r) /\ StampPolicyAllows(n)
        /\ membership = "ACTIVE" /\ UNCHANGED membership
    BY <1>3 DEF IssueStamps, CanIssue
  <2> HIDE DEF e
  <2>5. e.type \in StampAdditions /\ e.delta > 0
    BY <2>1, <2>2 DEF StampAdditions
  <2>6. QED
    BY <2>2, <2>3, <2>4, <2>5, GrowsByStamps
<1>4. ASSUME NEW d \in Corrections, RaiseAdjustment(d)
      PROVE  LedgerGrows
  <2> DEFINE e == Moving("MANUAL_STAMP_ADJUSTMENT", d)
  <2>1. d \in Int /\ d > 0
    BY <1>4, PolicyAssumption DEF RaiseAdjustment
  <2>2. e \in Entry /\ e.type = "MANUAL_STAMP_ADJUSTMENT" /\ e.delta = d /\ e.command = Len(ledger) + 1
    BY <2>1, StampEntries
  <2>3. e.at = now /\ e.reversalOf = 0
    BY DEF Moving, Event
  <2>4. AddStamps(e) /\ membership = "ACTIVE" /\ UNCHANGED membership
    BY <1>4 DEF RaiseAdjustment, CanAdjust
  <2> HIDE DEF e
  <2>5. e.type \in StampAdditions /\ e.delta > 0
    BY <2>1, <2>2 DEF StampAdditions
  <2>6. QED
    BY <2>2, <2>3, <2>4, <2>5, GrowsByStamps
<1>5. ASSUME NEW e, AppendOne(e), e.at = now, e.command = Len(ledger) + 1, e.reversalOf = 0,
             e.type \notin {"STAMP_ISSUED", "MEMBERSHIP_REVOKED"}, UNCHANGED membership,
             membership = "ACTIVE" \/ e.type = "REWARD_EXPIRED"
      PROVE  LedgerGrows
  <2>1. ASSUME ledger' = Append(ledger, e)
        PROVE  NewEntry(Len(ledger) + 1)
    <3>1. ledger'[Len(ledger) + 1] = e
      <4>1. ledger \in Seq(Entry \cup {e})
        BY <1>1 DEF TypeOK
      <4>2. QED
        BY <2>1, <4>1
    <3>2. QED
      BY <1>5, <3>1 DEF NewEntry
  <2>2. QED
    BY <1>1, <1>5, <2>1, GrowsByOne
<1>6. ASSUME NEW d, LowerAdjustment(d) PROVE LedgerGrows
  BY <1>5, <1>6 DEF LowerAdjustment, CanAdjust, Moving, Event
<1>7. ASSUME NEW n, NEW r, IssueRejected(n, r) \/ RaiseRejected(n) PROVE LedgerGrows
  BY <1>1, <1>7, GrowsByNone DEF IssueRejected, RaiseRejected
<1>8. ASSUME NEW k, RedeemMilestone(k) PROVE LedgerGrows
  BY <1>5, <1>8 DEF RedeemMilestone, CanRedeem, Redemption, Event
<1>9. ASSUME NEW k, RedeemFinal(k) PROVE LedgerGrows
  <2> DEFINE e == Redemption("REWARD_REDEEMED", k, NextSlot(k), 0)
             f == Redemption("CYCLE_RESET", k, NextSlot(k), 0)
  <2>1. /\ e.at = now /\ e.command = Len(ledger) + 1 /\ e.reversalOf = 0
        /\ e.type = "REWARD_REDEEMED"
        /\ f.at = now /\ f.command = Len(ledger) + 1 /\ f.reversalOf = 0
        /\ f.type = "CYCLE_RESET"
    BY DEF Redemption, Event
  <2>2. AppendTwo(e, f) /\ membership = "ACTIVE" /\ UNCHANGED membership
    BY <1>9 DEF RedeemFinal, CanRedeem
  <2> HIDE DEF e, f
  <2>3. ASSUME ledger'[Len(ledger) + 1] = e, ledger'[Len(ledger) + 2] = f
        PROVE  NewEntry(Len(ledger) + 1) /\ NewEntry(Len(ledger) + 2)
    BY <2>1, <2>2, <2>3 DEF NewEntry
  <2>4. QED
    BY <1>1, <2>2, <2>3, GrowsByTwo
<1>10. ASSUME NEW k, RedeemRejected(k) PROVE LedgerGrows
  BY <1>1, <1>10, GrowsByNone DEF RedeemRejected
<1>11. ASSUME NEW c \in DOMAIN ledger, ReversalAllowed(c),
              ledger[c].type \in {"STAMP_ISSUED", "REWARD_REDEEMED"}
       PROVE  /\ membership = "ACTIVE" /\ ~HasDependentEvents(c) /\ ledger[c].command = c
              /\ c \in Nat /\ c # 0
  BY <1>1, <1>11 DEF ReversalAllowed, CommandsPast
<1>12. ASSUME NEW c \in DOMAIN ledger, ReverseStamp(c) PROVE LedgerGrows
  <2> DEFINE e == Event("STAMP_REVERSED", -ledger[c].delta, NoKey, 0, c, NoReference)
  <2>1. /\ e.at = now /\ e.command = Len(ledger) + 1 /\ e.reversalOf = c
        /\ e.type = "STAMP_REVERSED"
    BY DEF Event
  <2>2. AppendOne(e) /\ UNCHANGED membership
    BY <1>12 DEF ReverseStamp
  <2>3. membership = "ACTIVE" /\ ~HasDependentEvents(c) /\ ledger[c].command = c
    BY <1>11, <1>12 DEF ReverseStamp
  <2> HIDE DEF e
  <2>4. ASSUME ledger' = Append(ledger, e)
        PROVE  NewEntry(Len(ledger) + 1)
    <3>1. ledger'[Len(ledger) + 1] = e
      <4>1. ledger \in Seq(Entry \cup {e})
        BY <1>1 DEF TypeOK
      <4>2. QED
        BY <2>4, <4>1
    <3>2. c = c + ((Len(ledger) + 1) - (Len(ledger) + 1)) /\ c <= Len(ledger)
      BY <1>1
    <3>3. QED
      BY <2>1, <2>3, <3>1, <3>2 DEF NewEntry
  <2>5. QED
    BY <1>1, <2>2, <2>3, <2>4, GrowsByOne
<1>13. ASSUME NEW c \in DOMAIN ledger, ReverseRedemption(c) PROVE LedgerGrows
  <2> DEFINE e == Redemption("REWARD_REDEMPTION_REVERSED", ledger[c].key, ledger[c].slot, c)
             f == Redemption("CYCLE_RESET_REVERSED", ledger[c].key, ledger[c].slot, c + 1)
  <2>1. /\ e.at = now /\ e.command = Len(ledger) + 1 /\ e.reversalOf = c
        /\ e.type = "REWARD_REDEMPTION_REVERSED"
        /\ f.at = now /\ f.command = Len(ledger) + 1 /\ f.reversalOf = c + 1
        /\ f.type = "CYCLE_RESET_REVERSED"
    BY DEF Redemption, Event
  <2>2. /\ IF HasReset(c) THEN AppendTwo(e, f) ELSE AppendOne(e)
        /\ UNCHANGED membership /\ ledger[c].type = "REWARD_REDEEMED" /\ ReversalAllowed(c)
    BY <1>13 DEF ReverseRedemption
  <2>3. membership = "ACTIVE" /\ ~HasDependentEvents(c) /\ ledger[c].command = c
    BY <1>11, <2>2
  <2> HIDE DEF e, f
  <2>4. ASSUME ledger'[Len(ledger) + 1] = e
        PROVE  NewEntry(Len(ledger) + 1)
    <3>1. c = c + ((Len(ledger) + 1) - (Len(ledger) + 1)) /\ c <= Len(ledger)
      BY <1>1
    <3>2. QED
      BY <2>1, <2>3, <2>4, <3>1 DEF NewEntry
  <2>5. CASE HasReset(c)
    <3>1. c + 1 <= Len(ledger)
      <4>1. PICK i \in DOMAIN ledger : ledger[i].command = c /\ ledger[i].type = "CYCLE_RESET"
        BY <2>5 DEF HasReset, EntriesOf
      <4>2. i # c /\ c \in 1..i
        BY <1>1, <2>2, <4>1 DEF CommandsPast
      <4>3. QED
        BY <1>1, <4>2
    <3>2. ASSUME ledger'[Len(ledger) + 2] = f
          PROVE  NewEntry(Len(ledger) + 2)
      <4>1. c + 1 = c + ((Len(ledger) + 2) - (Len(ledger) + 1))
        BY <1>1
      <4>2. QED
        BY <2>1, <2>3, <3>1, <3>2, <4>1 DEF NewEntry
    <3>3. AppendTwo(e, f)
      BY <2>2, <2>5
    <3>4. QED
      BY <1>1, <2>2, <2>4, <3>2, <3>3, GrowsByTwo
  <2>6. CASE ~HasReset(c)
    <3>1. AppendOne(e)
      BY <2>2, <2>6
    <3>2. ASSUME ledger' = Append(ledger, e)
          PROVE  ledger'[Len(ledger) + 1] = e
      <4>1. ledger \in Seq(Entry \cup {e})
        BY <1>1 DEF TypeOK
      <4>2. QED
        BY <3>2, <4>1
    <3>3. QED
      BY <1>1, <2>2, <2>4, <3>1, <3>2, GrowsByOne
  <2>7. QED
    BY <2>5, <2>6
<1>14. ASSUME NEW from, NEW to, NEW type, SetStatus(from, to, type), "REVOKED" \notin from,
              type \in {"MEMBERSHIP_SUSPENDED", "MEMBERSHIP_RESTORED", "MEMBERSHIP_REVOKED"},
              type = "MEMBERSHIP_REVOKED" => to = "REVOKED"
       PROVE  LedgerGrows
  <2> DEFINE e == Plain(type, NoKey)
  <2>1. e.at = now /\ e.command = Len(ledger) + 1 /\ e.reversalOf = 0 /\ e.type = type
    BY DEF Plain, Event
  <2>2. AppendOne(e) /\ membership # "REVOKED" /\ membership' = to
    BY <1>14 DEF SetStatus
  <2> HIDE DEF e
  <2>3. ASSUME ledger' = Append(ledger, e)
        PROVE  NewEntry(Len(ledger) + 1)
    <3>1. ledger'[Len(ledger) + 1] = e /\ Len(ledger') = Len(ledger) + 1
      <4>1. ledger \in Seq(Entry \cup {e})
        BY <1>1 DEF TypeOK
      <4>2. QED
        BY <2>3, <4>1
    <3>2. QED
      BY <1>14, <2>1, <2>2, <3>1 DEF NewEntry
  <2>4. QED
    BY <1>1, <2>2, <2>3, GrowsByOne
<1>15. CASE ChangeMembershipStatus
  BY <1>14, <1>15 DEF ChangeMembershipStatus, Suspend, Restore, Revoke
<1>16. ASSUME NEW k, ScheduleExpiry(k) \/ CloseExpiry(k) PROVE LedgerGrows
  BY <1>1, <1>16, GrowsByNone DEF ScheduleExpiry, CloseExpiry
<1>17. ASSUME NEW k, ExpireReward(k) PROVE LedgerGrows
  BY <1>5, <1>17 DEF ExpireReward, Plain, Event
<1>18. CASE Tick
  BY <1>1, <1>18, GrowsByNone DEF Tick
<1>19. QED
  BY <1>2, <1>3, <1>4, <1>6, <1>7, <1>8, <1>9, <1>10, <1>12, <1>13, <1>15, <1>16, <1>17, <1>18
     DEF Next, Operate, Earn, Correct, Redeem, ReverseOperation, ExpireRewards

-----------------------------------------------------------------------------
(* What the ledger says of the past.                                       *)

\* A receipt is refused while an entry of the last 24 hours carries it.
LEMMA ReceiptsAfter ==
  ASSUME TypeOK, LedgerGrows, ReceiptsEarnOnce
  PROVE  ReceiptsEarnOnce'
<1> SUFFICES ASSUME NEW i \in DOMAIN ledger', NEW j \in DOMAIN ledger', i < j,
                    ledger'[i].type = "STAMP_ISSUED", ledger'[j].type = "STAMP_ISSUED",
                    ledger'[i].reference = ledger'[j].reference,
                    ledger'[i].reference # NoReference
             PROVE  ledger'[j].at - ledger'[i].at > TicksPerDay
  BY DEF ReceiptsEarnOnce
<1>1. /\ DOMAIN ledger = 1..Len(ledger) /\ DOMAIN ledger' = 1..Len(ledger')
      /\ Len(ledger) \in Nat /\ Len(ledger') \in Nat
      /\ \A k \in DOMAIN ledger : ledger'[k] = ledger[k] /\ ledger[k].at \in Nat
      /\ \A k \in DOMAIN ledger' \ DOMAIN ledger : k > Len(ledger) /\ NewEntry(k)
  <2>1. \A k \in DOMAIN ledger : ledger[k] \in Entry
    BY DEF TypeOK
  <2>2. QED
    BY <2>1 DEF LedgerGrows, Entry
<1>2. CASE j \in DOMAIN ledger
  <2>1. i \in DOMAIN ledger
    BY <1>1, <1>2
  <2>2. QED
    BY <1>1, <1>2, <2>1 DEF ReceiptsEarnOnce
<1>3. CASE j \notin DOMAIN ledger
  <2>1. NewEntry(j)
    BY <1>1, <1>3
  <2>2. j = Len(ledger) + 1 /\ ~DuplicateReference(ledger'[j].reference) /\ ledger'[j].at = now
    BY <2>1 DEF NewEntry
  <2>3. i \in DOMAIN ledger
    BY <1>1, <2>2
  <2>4. ~(ledger[i].at >= now - TicksPerDay)
    BY <1>1, <2>2, <2>3 DEF DuplicateReference
  <2>5. QED
    BY <1>1, <2>2, <2>3, <2>4, PolicyAssumption DEF TypeOK
<1>4. QED
  BY <1>2, <1>3

\* A new stamp issue was checked against all additions of its day before it.
LEMMA CapAfter ==
  ASSUME TypeOK, TypeOK', LedgerGrows, CapKept(ledger)
  PROVE  CapKept(ledger')
<1> SUFFICES ASSUME NEW i \in DOMAIN ledger', ledger'[i].type = "STAMP_ISSUED",
                    DailyCap # NoCap
             PROVE  Stamps(ledger', Additions(ledger', i)) <= DailyCap
  BY DEF CapKept
<1>1. /\ DOMAIN ledger = 1..Len(ledger) /\ DOMAIN ledger' = 1..Len(ledger')
      /\ Len(ledger) \in Nat /\ Len(ledger') \in Nat
      /\ \A k \in DOMAIN ledger : ledger'[k] = ledger[k] /\ ledger[k].delta \in Int
      /\ \A k \in DOMAIN ledger' \ DOMAIN ledger : k > Len(ledger) /\ NewEntry(k)
  <2>1. \A k \in DOMAIN ledger : ledger[k] \in Entry
    BY DEF TypeOK
  <2>2. QED
    BY <2>1 DEF LedgerGrows, Entry
<1>2. ASSUME NEW S \in SUBSET DOMAIN ledger
      PROVE  /\ IsFiniteSet(S) /\ Stamps(ledger', S) = Stamps(ledger, S)
             /\ SumOver([k \in S |-> ledger[k].delta], S) = Stamps(ledger, S)
  <2>1. IsFiniteSet(S)
    <3>1. IsFiniteSet(1..Len(ledger))
      BY <1>1, FS_Interval
    <3>2. QED
      BY <1>1, <3>1, FS_Subset
  <2>2. [k \in S |-> ledger'[k].delta] = [k \in S |-> ledger[k].delta]
    BY <1>1
  <2>3. QED
    BY <2>1, <2>2, StampsAreSum
<1>3. CASE i \in DOMAIN ledger
  <2>1. Additions(ledger', i) = Additions(ledger, i) /\ Additions(ledger, i) \in SUBSET DOMAIN ledger
    <3>1. \A k \in 1..i : k \in DOMAIN ledger
      BY <1>1, <1>3
    <3>2. QED
      BY <1>1, <1>3, <3>1 DEF Additions
  <2>2. Stamps(ledger, Additions(ledger, i)) <= DailyCap
    BY <1>1, <1>3 DEF CapKept
  <2>3. QED
    BY <1>2, <2>1, <2>2
<1>4. CASE i \notin DOMAIN ledger
  <2> DEFINE T == {k \in DOMAIN ledger : /\ ledger[k].type \in StampAdditions
                                         /\ ledger[k].delta > 0
                                         /\ Day(ledger[k].at) = Day(now)}
             F == [k \in T \cup {i} |-> ledger'[k].delta]
  <2>1. /\ i = Len(ledger) + 1 /\ ledger'[i].at = now
        /\ StampPolicyAllows(ledger'[i].delta)
    BY <1>1, <1>4 DEF NewEntry
  <2>2. ledger'[i].delta \in Int
    <3>1. ledger'[i] \in Entry
      BY DEF TypeOK
    <3>2. QED
      BY <3>1 DEF Entry
  <2>3. Additions(ledger', i) = T \cup {i} /\ i \notin T /\ T \in SUBSET DOMAIN ledger
    <3>1. ledger'[i].type \in StampAdditions /\ ledger'[i].delta > 0
      BY <2>1 DEF StampAdditions, StampPolicyAllows
    <3>2. \A k : k \in 1..i <=> k \in DOMAIN ledger \/ k = i
      BY <1>1, <2>1
    <3>3. \A k \in DOMAIN ledger : ledger'[k] = ledger[k] /\ k # i
      BY <1>1, <1>4
    <3>4. \A k : k \in Additions(ledger', i) <=> k \in T \cup {i}
      BY <2>1, <3>1, <3>2, <3>3 DEF Additions
    <3>5. QED
      BY <1>4, <3>4
  <2>4. /\ IsFiniteSet(T) /\ Stamps(ledger, T) = SumOver([k \in T |-> ledger[k].delta], T)
        /\ IsFiniteSet(T \cup {i})
    <3> HIDE DEF T
    <3>1. IsFiniteSet(T) /\ Stamps(ledger, T) = SumOver([k \in T |-> ledger[k].delta], T)
      BY <1>2, <2>3
    <3>2. QED
      BY <3>1, FS_AddElement
  <2>5. Stamps(ledger', T \cup {i}) = SumOver(F, T \cup {i})
    <3> HIDE DEF T
    <3>1. QED
      BY <2>4, StampsAreSum
  <2>6. SumOver(F, T \cup {i}) = SumOver(F, T) + F[i] /\ SumOver(F, T) \in Int
    <3>1. \A k \in T \cup {i} : F[k] \in Int
      BY <1>1, <2>2, <2>3
    <3> HIDE DEF F, T
    <3>2. QED
      BY <2>3, <2>4, <3>1, SumOfMore
  <2>7. SumOver(F, T) = Stamps(ledger, T)
    <3>1. AgreeOn(F, [k \in T |-> ledger[k].delta], T)
      BY <1>1, <2>3 DEF AgreeOn
    <3> HIDE DEF F, T
    <3>2. QED
      BY <2>4, <3>1, SumOfSame
  <2>8. Stamps(ledger, T) + ledger'[i].delta <= DailyCap
    <3>1. GrossPositiveToday = Stamps(ledger, T)
      BY DEF GrossPositiveToday, Stamps
    <3> HIDE DEF T
    <3>2. QED
      BY <2>1, <3>1 DEF StampPolicyAllows
  <2>9. F[i] = ledger'[i].delta
    OBVIOUS
  <2> HIDE DEF F, T
  <2>10. QED
    BY <2>3, <2>5, <2>6, <2>7, <2>8, <2>9
<1>5. QED
  BY <1>3, <1>4

\* A reversal names an entry of an older command than its own.
ReversalsLookBack ==
  \A i \in DOMAIN ledger : ledger[i].reversalOf # 0 =>
    ledger[i].reversalOf >= 1 /\ ledger[i].reversalOf < ledger[i].command

\* A revoked membership has been revoked for good.
RevokedForGood ==
  \A i \in DOMAIN ledger : ledger[i].type = "MEMBERSHIP_REVOKED" => membership = "REVOKED"

\* After a revocation nothing but expiries of the worker is appended.
LEMMA RevocationAfter ==
  ASSUME LedgerGrows, RevokedForGood, RevocationCloses
  PROVE  RevokedForGood' /\ RevocationCloses'
<1>1. /\ DOMAIN ledger = 1..Len(ledger) /\ DOMAIN ledger' = 1..Len(ledger')
      /\ Len(ledger) \in Nat /\ Len(ledger') \in Nat
      /\ \A k \in DOMAIN ledger : ledger'[k] = ledger[k]
      /\ \A k \in DOMAIN ledger' \ DOMAIN ledger : k > Len(ledger) /\ NewEntry(k)
      /\ membership = "REVOKED" => membership' = "REVOKED"
  BY DEF LedgerGrows
<1>2. RevokedForGood'
  BY <1>1 DEF RevokedForGood, NewEntry
<1>3. ASSUME NEW i \in DOMAIN ledger', NEW j \in DOMAIN ledger', i < j,
             ledger'[i].type = "MEMBERSHIP_REVOKED"
      PROVE  ledger'[j].type = "REWARD_EXPIRED"
  <2>1. i \in DOMAIN ledger
    <3>1. CASE i \notin DOMAIN ledger
      <4>1. Len(ledger') = Len(ledger) + 1 /\ i > Len(ledger)
        BY <1>1, <1>3, <3>1 DEF NewEntry
      <4>2. QED
        BY <1>1, <1>3, <4>1
    <3>2. QED
      BY <3>1
  <2>2. CASE j \in DOMAIN ledger
    BY <1>1, <1>3, <2>1, <2>2 DEF RevocationCloses
  <2>3. CASE j \notin DOMAIN ledger
    <3>1. membership = "REVOKED"
      BY <1>1, <1>3, <2>1 DEF RevokedForGood
    <3>2. QED
      BY <1>1, <2>3, <3>1 DEF NewEntry
  <2>4. QED
    BY <2>2, <2>3
<1>4. QED
  BY <1>2, <1>3 DEF RevocationCloses

\* The command that is reversed is the last one on which nothing depends, so its
\* entries were not reversed before and only the reversal lies after them.
LEMMA ReversalsAfter ==
  ASSUME TypeOK, CommandsPast, LedgerGrows, ReversalsLookBack, ReversalsAreImmediate
  PROVE  ReversalsLookBack' /\ ReversalsAreImmediate'
<1>1. /\ DOMAIN ledger = 1..Len(ledger) /\ DOMAIN ledger' = 1..Len(ledger')
      /\ Len(ledger) \in Nat /\ Len(ledger') \in Nat
      /\ \A k \in DOMAIN ledger : ledger'[k] = ledger[k]
      /\ \A k \in DOMAIN ledger' \ DOMAIN ledger : k > Len(ledger) /\ NewEntry(k)
  BY DEF LedgerGrows
<1>2. \A i \in DOMAIN ledger : ledger[i].reversalOf \in Nat /\ ledger[i].command \in 1..i
  <2>1. \A i \in DOMAIN ledger : ledger[i] \in Entry
    BY DEF TypeOK
  <2>2. QED
    BY <2>1 DEF CommandsPast, Entry
\* A new reversal names an entry of the last command.
<1>3. ASSUME NEW i \in DOMAIN ledger' \ DOMAIN ledger, ledger'[i].reversalOf # 0
      PROVE  \E c \in DOMAIN ledger :
               /\ ledger[c].command = c
               /\ \A m \in DOMAIN ledger : m >= c => ledger[m].command = c
               /\ ledger'[i].reversalOf = c + (i - (Len(ledger) + 1))
               /\ ledger'[i].reversalOf \in c..Len(ledger)
               /\ ledger'[i].command = Len(ledger) + 1
  <2>1. PICK c \in DOMAIN ledger : /\ ledger[c].command = c /\ ~HasDependentEvents(c)
                                   /\ ledger'[i].reversalOf = c + (i - (Len(ledger) + 1))
                                   /\ ledger'[i].reversalOf <= Len(ledger)
    BY <1>1, <1>3 DEF NewEntry
  <2>2. \A m \in DOMAIN ledger : m >= c => ledger[m].command = c
    BY <1>1, <2>1 DEF HasDependentEvents
  <2>3. ledger'[i].reversalOf \in c..Len(ledger)
    BY <1>1, <1>3, <2>1
  <2>4. QED
    BY <1>1, <1>3, <2>1, <2>2, <2>3 DEF NewEntry
<1>4. ReversalsLookBack'
  <2> SUFFICES ASSUME NEW i \in DOMAIN ledger', ledger'[i].reversalOf # 0
               PROVE  ledger'[i].reversalOf >= 1 /\ ledger'[i].reversalOf < ledger'[i].command
    BY DEF ReversalsLookBack
  <2>1. CASE i \in DOMAIN ledger
    BY <1>1, <2>1 DEF ReversalsLookBack
  <2>2. CASE i \notin DOMAIN ledger
    BY <1>1, <1>3, <2>2
  <2>3. QED
    BY <2>1, <2>2
\* No older entry reverses what a new one reverses.
<1>5. ASSUME NEW i \in DOMAIN ledger, NEW j \in DOMAIN ledger' \ DOMAIN ledger,
             ledger[i].reversalOf # 0, ledger'[j].reversalOf = ledger[i].reversalOf
      PROVE  FALSE
  <2>1. PICK c \in DOMAIN ledger :
               /\ \A m \in DOMAIN ledger : m >= c => ledger[m].command = c
               /\ ledger'[j].reversalOf \in c..Len(ledger)
    BY <1>3, <1>5
  <2>2. ledger[i].reversalOf < ledger[i].command /\ ledger[i].command <= i
    BY <1>1, <1>2, <1>5 DEF ReversalsLookBack
  <2>3. i >= c /\ ledger[i].command = c
    BY <1>1, <1>2, <1>5, <2>1, <2>2
  <2>4. QED
    BY <1>1, <1>2, <1>5, <2>1, <2>2, <2>3
<1>6. ASSUME NEW i \in DOMAIN ledger' \ DOMAIN ledger, NEW j \in DOMAIN ledger' \ DOMAIN ledger,
             ledger'[i].reversalOf # 0, ledger'[j].reversalOf = ledger'[i].reversalOf
      PROVE  i = j
  <2>1. PICK c \in DOMAIN ledger :
               /\ ledger[c].command = c
               /\ \A m \in DOMAIN ledger : m >= c => ledger[m].command = c
               /\ ledger'[i].reversalOf = c + (i - (Len(ledger) + 1))
    BY <1>3, <1>6
  <2>2. PICK b \in DOMAIN ledger :
               /\ ledger[b].command = b
               /\ \A m \in DOMAIN ledger : m >= b => ledger[m].command = b
               /\ ledger'[j].reversalOf = b + (j - (Len(ledger) + 1))
    BY <1>3, <1>6
  <2>3. b = c
    BY <1>1, <2>1, <2>2
  <2>4. QED
    BY <1>1, <1>6, <2>1, <2>2, <2>3
<1>7. ASSUME NEW i \in DOMAIN ledger' \ DOMAIN ledger, ledger'[i].reversalOf # 0,
             NEW m \in (ledger'[i].reversalOf)..i
      PROVE  ledger'[m].command \in {ledger'[ledger'[i].reversalOf].command, ledger'[i].command}
  <2> DEFINE r == ledger'[i].reversalOf
  <2>1. PICK c \in DOMAIN ledger :
               /\ \A k \in DOMAIN ledger : k >= c => ledger[k].command = c
               /\ r \in c..Len(ledger) /\ ledger'[i].command = Len(ledger) + 1
    BY <1>3, <1>7
  <2>2. r \in DOMAIN ledger /\ ledger'[r].command = c
    BY <1>1, <2>1
  <2>3. m \in DOMAIN ledger' /\ m >= c
    BY <1>1, <1>7, <2>1
  <2>4. CASE m \in DOMAIN ledger
    BY <1>1, <2>1, <2>2, <2>3, <2>4
  <2>5. CASE m \notin DOMAIN ledger
    <3>1. ledger'[m].command = Len(ledger) + 1
      BY <1>1, <2>3, <2>5 DEF NewEntry
    <3>2. QED
      BY <2>1, <3>1
  <2>6. QED
    BY <2>4, <2>5
<1>8. ASSUME NEW i \in DOMAIN ledger, ledger[i].reversalOf # 0, NEW m \in (ledger[i].reversalOf)..i
      PROVE  ledger'[m].command \in {ledger'[ledger[i].reversalOf].command, ledger'[i].command}
  <2>1. ledger[m].command \in {ledger[ledger[i].reversalOf].command, ledger[i].command}
    BY <1>8 DEF ReversalsAreImmediate
  <2>2. m \in DOMAIN ledger /\ ledger[i].reversalOf \in DOMAIN ledger
    <3>1. ledger[i].reversalOf >= 1 /\ ledger[i].reversalOf < ledger[i].command
      BY <1>8 DEF ReversalsLookBack
    <3>2. QED
      BY <1>1, <1>2, <1>8, <3>1
  <2>3. QED
    BY <1>1, <2>1, <2>2
<1>9. ReversalsAreImmediate'
  <2> SUFFICES ASSUME NEW i \in DOMAIN ledger', ledger'[i].reversalOf # 0
               PROVE  /\ \A j \in DOMAIN ledger' :
                           ledger'[j].reversalOf = ledger'[i].reversalOf => i = j
                      /\ \A m \in (ledger'[i].reversalOf)..i :
                           ledger'[m].command \in {ledger'[ledger'[i].reversalOf].command,
                                                   ledger'[i].command}
    BY DEF ReversalsAreImmediate
  <2>1. ASSUME NEW j \in DOMAIN ledger', ledger'[j].reversalOf = ledger'[i].reversalOf
        PROVE  i = j
    <3>1. CASE i \in DOMAIN ledger /\ j \in DOMAIN ledger
      BY <1>1, <2>1, <3>1 DEF ReversalsAreImmediate
    <3>2. CASE i \in DOMAIN ledger /\ j \notin DOMAIN ledger
      BY <1>1, <1>5, <2>1, <3>2
    <3>3. CASE i \notin DOMAIN ledger /\ j \in DOMAIN ledger
      BY <1>1, <1>5, <2>1, <3>3
    <3>4. CASE i \notin DOMAIN ledger /\ j \notin DOMAIN ledger
      BY <1>6, <2>1, <3>4
    <3>5. QED
      BY <3>1, <3>2, <3>3, <3>4
  <2>2. CASE i \in DOMAIN ledger
    BY <1>1, <1>8, <2>1, <2>2
  <2>3. CASE i \notin DOMAIN ledger
    BY <1>7, <2>1, <2>3
  <2>4. QED
    BY <2>2, <2>3
<1>10. QED
  BY <1>4, <1>9

\* The past as the ledger tells it, beside the invariant of the present.
PastInv ==
  /\ ReceiptsEarnOnce /\ CapKept(ledger)
  /\ RevokedForGood /\ RevocationCloses
  /\ ReversalsLookBack /\ ReversalsAreImmediate

\* Each new entry was checked against the entries before it, and those never
\* change: what they say of each other is kept, for a ledger of any length.
THEOREM PastIsKept == Spec => []PastInv
<1>1. Init => PastInv
  BY DEF Init, PastInv, ReceiptsEarnOnce, CapKept, RevokedForGood, RevocationCloses,
         ReversalsLookBack, ReversalsAreImmediate
<1>2. IInv /\ IInv' /\ PastInv /\ [Next]_vars => PastInv'
  <2> SUFFICES ASSUME IInv, IInv', PastInv, [Next]_vars PROVE PastInv'
    OBVIOUS
  <2>1. TypeOK /\ TypeOK' /\ CommandsPast /\ LedgerGrows
    BY StepGrows DEF IInv
  <2>2. ReceiptsEarnOnce' /\ CapKept(ledger')
    BY <2>1, ReceiptsAfter, CapAfter DEF PastInv
  <2>3. RevokedForGood' /\ RevocationCloses' /\ ReversalsLookBack' /\ ReversalsAreImmediate'
    BY <2>1, RevocationAfter, ReversalsAfter DEF PastInv
  <2>4. QED
    BY <2>2, <2>3 DEF PastInv
<1>3. QED
  BY <1>1, <1>2, InvariantHolds, PTL DEF Spec

\* Within 24 hours one receipt earns stamps once at each location and under each
\* version of the digest key, even when the first issue was reversed: the check
\* looks at the entries, which stay (duplicate reference check of issueStamps).
THEOREM ReceiptsCount == Spec => []ReceiptsEarnOnce
<1>1. PastInv => ReceiptsEarnOnce
  BY DEF PastInv
<1>2. QED
  BY <1>1, PastIsKept, PTL

\* Right after every stamp issue the gross additions of its day are within the
\* cap, whatever was reversed or corrected on that day (stamp policy of issueStamps).
THEOREM CapHolds == Spec => []DailyCapRespected
<1>1. PastInv => DailyCapRespected
  BY CapIsKept DEF PastInv
<1>2. QED
  BY <1>1, PastIsKept, PTL

\* An entry is reversed at most once, by the command that directly follows its
\* own: the projection a reversal undoes is the one its command left behind
\* (reverse operation of the loyalty service).
THEOREM ReversalsFollowDirectly == Spec => []ReversalsAreImmediate
<1>1. PastInv => ReversalsAreImmediate
  BY DEF PastInv
<1>2. QED
  BY <1>1, PastIsKept, PTL

\* A revoked membership is closed: whatever was scheduled before it, only the
\* expiries of the worker are still written to its ledger.
THEOREM RevocationIsTheEnd == Spec => []RevocationCloses
<1>1. PastInv => RevocationCloses
  BY DEF PastInv
<1>2. QED
  BY <1>1, PastIsKept, PTL

=============================================================================
