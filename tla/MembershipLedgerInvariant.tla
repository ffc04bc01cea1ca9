----------------------- MODULE MembershipLedgerInvariant -----------------------
(***************************************************************************)
(* The inductive invariant of MembershipLedger.  Its properties of the     *)
(* card and of the rewards are not inductive by themselves: a reversal     *)
(* takes back whatever the entries of the last command say, so they rest   *)
(* on what those entries say.  StampTail and RedeemTail describe a command *)
(* on which no other depends yet, the only kind a reversal accepts.        *)
(***************************************************************************)
EXTENDS MembershipLedger

\* The bound on the cycles, as a fact about the card.
CycleBound == progress.completed \in 0..(MaxCycles - 1)

\* An entry belongs to a command at or before its own position; a stamp issue
\* and a redemption are the first entries of theirs.
CommandsPast ==
  \A i \in DOMAIN ledger :
    /\ ledger[i].command \in 1..i
    /\ ledger[i].type \in {"STAMP_ISSUED", "REWARD_REDEEMED"} => ledger[i].command = i

\* While nothing depends on a stamp issue, its stamps are still on the card and
\* the rewards its entries name are those its stamps reached, all unused.
StampTailAt(c) ==
  ~HasDependentEvents(c) =>
    /\ ledger[c].delta \in 1..progress.stamps
    /\ UnlockedBy(c) \subseteq Keys
    /\ \A k \in Keys :
         k \in UnlockedBy(c) <=> /\ k[1] = CurrentCycle
                                 /\ progress.stamps - ledger[c].delta < k[2]
                                 /\ k[2] <= progress.stamps
    /\ \A k \in UnlockedBy(c) : entitlements[k].status = "AVAILABLE"

StampTail == \A c \in DOMAIN ledger : ledger[c].type = "STAMP_ISSUED" => StampTailAt(c)

\* While nothing depends on a redemption, its reward is used and its row stands;
\* if it reset the card, it is the final reward of the last completed cycle and
\* the card is still empty.
RedeemTailAt(c) ==
  /\ ledger[c].key \in Keys /\ ledger[c].slot \in Slots
  /\ ~HasDependentEvents(c) =>
       /\ entitlements[ledger[c].key].status \in {"REDEEMED", "PARTIALLY_REDEEMED"}
       /\ redemptions[<<ledger[c].key, ledger[c].slot>>] = "COMPLETED"
       /\ HasReset(c) => /\ ledger[c].key = FinalKey(progress.completed)
                         /\ progress.completed >= 1 /\ progress.stamps = 0
       /\ ~HasReset(c) => ledger[c].key[2] # Goal

RedeemTail == \A c \in DOMAIN ledger : ledger[c].type = "REWARD_REDEEMED" => RedeemTailAt(c)

\* The final reward of a cycle never lapses.
FinalNeverLapses == \A c \in Cycles : entitlements[FinalKey(c)].expiresAt = 0

\* No redemption stands beyond what its reward allows.
SlotsWithinLimit ==
  \A k \in Keys, s \in Slots :
    redemptions[<<k, s>>] = "COMPLETED" => s <= RedemptionLimit(k[2])

\* Every step keeps the membership such that the next reversal, correction,
\* redemption or expiry keeps it too.
IInv ==
  /\ TypeOK /\ CycleBound
  /\ ReadyExactlyAtGoal
  /\ CommandsPast /\ StampTail /\ RedeemTail
  /\ EarnedMatchesProgress /\ FinalRewardDrivesCycle
  /\ RedemptionsCounted /\ FinalNeverLapses /\ SlotsWithinLimit
=============================================================================
