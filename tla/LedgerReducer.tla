---------------------------- MODULE LedgerReducer ----------------------------
(***************************************************************************)
(* The pure functions of packages/loyalty-ledger: how one ledger event     *)
(* changes the progress projection of a membership, and how a projection   *)
(* is rebuilt from a whole ledger.                                         *)
(*                                                                         *)
(* An event carries the fields the reducer reads: its type, its signed     *)
(* stamp delta, its cycle number and its membership sequence.  The         *)
(* identifier of the last event (lastSourceEventId) is left out: it is a   *)
(* function of the version.                                                *)
(***************************************************************************)
EXTENDS Integers, Sequences, SequencesExt

CONSTANT Goal        \* requiredStampCount of the pinned program version

ASSUME GoalAssumption == Goal \in Nat /\ Goal >= 2

StampAdditions == {"STAMP_ISSUED", "MANUAL_STAMP_ADJUSTMENT"}

\* Events that record a fact and leave the card as it is.
NeutralEvents ==
  {"MEMBERSHIP_REVOKED", "MEMBERSHIP_RESTORED", "MEMBERSHIP_SUSPENDED",
   "MILESTONE_REWARD_UNLOCKED", "REWARD_REDEEMED", "REWARD_EXPIRED",
   "REWARD_REDEMPTION_REVERSED"}

EventTypes ==
  StampAdditions \cup NeutralEvents \cup
  {"STAMP_REVERSED", "FINAL_REWARD_UNLOCKED", "CYCLE_RESET", "CYCLE_RESET_REVERSED"}

Projection == [stamps : Int, completed : Int, ready : BOOLEAN, version : Nat]

EmptyProjection == [stamps |-> 0, completed |-> 0, ready |-> FALSE, version |-> 0]

(***************************************************************************)
(* The events the reducer accepts; every other event makes it throw.       *)
(***************************************************************************)
StampsAccepted(p, e) ==
  /\ e.type = "STAMP_ISSUED" => e.delta > 0
  /\ ~(p.ready /\ e.delta > 0)
  /\ p.stamps + e.delta \in 0..Goal

Reducible(p, e) ==
  /\ e.cycle = p.completed + 1
  /\ e.type \in StampAdditions => StampsAccepted(p, e)
  /\ e.type = "STAMP_REVERSED" => e.delta < 0 /\ p.stamps + e.delta >= 0
  /\ e.type = "FINAL_REWARD_UNLOCKED" => p.stamps = Goal
  /\ e.type = "CYCLE_RESET" => p.ready /\ p.stamps = Goal
  /\ e.type = "CYCLE_RESET_REVERSED" => p.stamps = 0 /\ ~p.ready /\ p.completed >= 1
  /\ e.type \in NeutralEvents => e.delta = 0

(***************************************************************************)
(* What an accepted event does to the projection.                          *)
(***************************************************************************)
MovesStamps(e) == e.type \in StampAdditions \cup {"STAMP_REVERSED"}

StampsAfter(p, e) ==
  CASE MovesStamps(e)                   -> p.stamps + e.delta
    [] e.type = "CYCLE_RESET"           -> 0
    [] e.type = "CYCLE_RESET_REVERSED"  -> Goal
    [] OTHER                            -> p.stamps

\* Mutant: undoing a reset gives the stamps back but keeps the completed cycle.
CompletedForEver(p, e) == IF e.type = "CYCLE_RESET" THEN p.completed + 1 ELSE p.completed

CompletedAfter(p, e) ==
  CASE e.type = "CYCLE_RESET"           -> p.completed + 1
    [] e.type = "CYCLE_RESET_REVERSED"  -> p.completed - 1
    [] OTHER                            -> p.completed

ReadyAfter(p, e) ==
  CASE MovesStamps(e)                   -> p.stamps + e.delta = Goal
    [] e.type = "CYCLE_RESET"           -> FALSE
    [] e.type \in {"CYCLE_RESET_REVERSED", "FINAL_REWARD_UNLOCKED"} -> TRUE
    [] OTHER                            -> p.ready

ReduceProjectionEvent(p, e) ==
  [stamps    |-> StampsAfter(p, e),
   completed |-> CompletedAfter(p, e),
   ready     |-> ReadyAfter(p, e),
   version   |-> p.version + 1]

RebuildProjection(events) ==
  FoldLeft(ReduceProjectionEvent, EmptyProjection, events)

(***************************************************************************)
(* The ledger replays without an error: every event is accepted by the     *)
(* projection of the events before it.                                     *)
(***************************************************************************)
Replays(events) ==
  \A i \in DOMAIN events :
    Reducible(RebuildProjection(SubSeq(events, 1, i - 1)), events[i])
=============================================================================
