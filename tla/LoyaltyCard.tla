------------------------------ MODULE LoyaltyCard ------------------------------
(***************************************************************************)
(* What a membership promises its customer: a card that fills up stamp by  *)
(* stamp, can be exchanged for the final reward only when it is full, and  *)
(* starts again empty.  An exchange can be taken back only while the next  *)
(* card is still empty.  One final reward is handed out for each card that *)
(* was completed, no more and no less.                                     *)
(***************************************************************************)
EXTENDS Integers

CONSTANT Goal

VARIABLES stamps, completed, rewards
card == <<stamps, completed, rewards>>

Init == stamps = 0 /\ completed = 0 /\ rewards = 0

AddStamps ==
  /\ stamps < Goal
  /\ stamps' \in (stamps + 1)..Goal
  /\ UNCHANGED <<completed, rewards>>

TakeStamps ==
  /\ stamps > 0
  /\ stamps' \in 0..(stamps - 1)
  /\ UNCHANGED <<completed, rewards>>

Exchange ==
  /\ stamps = Goal
  /\ stamps' = 0
  /\ completed' = completed + 1
  /\ rewards' = rewards + 1

TakeBackExchange ==
  /\ stamps = 0 /\ completed > 0
  /\ stamps' = Goal
  /\ completed' = completed - 1
  /\ rewards' = rewards - 1

Next == AddStamps \/ TakeStamps \/ Exchange \/ TakeBackExchange

Spec == Init /\ [][Next]_card
=============================================================================
