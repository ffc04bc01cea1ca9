------------------------ MODULE WalletStateChangeMC ------------------------
(***************************************************************************)
(* An instance of WalletStateChange: an operation on a membership with a   *)
(* Google and an Apple pass, an enrollment that creates an Apple pass, two *)
(* workers that process the same page of a sync job, and a phone on which  *)
(* both Apple passes are installed.                                        *)
(***************************************************************************)
EXTENDS WalletStateChange, TLC

CONSTANTS google, apple, second, phone, operation, enrollment, sync, again, stamp, joined, job

PlanWithPage(page) == [t \in Transactions |->
  CASE t = operation  -> <<google, apple>>
    [] t = enrollment -> <<second>>
    [] OTHER          -> page]
MCPlan == PlanWithPage(<<apple, google, second>>)
SinglePlan == PlanWithPage(<<apple, google>>)
TwoApplePlan == PlanWithPage(<<second, apple>>)

MCEvent == [t \in Transactions |->
  CASE t = operation  -> stamp
    [] t = enrollment -> joined
    [] OTHER          -> job]
MCInserts == [t \in Transactions |-> IF t = enrollment THEN {second} ELSE {}]

EveryPass == [d \in Devices |-> ApplePasses]
OnePass == [d \in Devices |-> {apple}]

(* The two workers run the same plan for the same event.                    *)
Workers == Permutations({sync, again})
=============================================================================
