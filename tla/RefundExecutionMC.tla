-------------------------- MODULE RefundExecutionMC --------------------------
(***************************************************************************)
(* The instance of RefundExecution for TLC.  SameSecondMC.cfg shows what    *)
(* ProcessingCanGoOn excepts: with two events of one second a request can   *)
(* be left in processing with no lease, a refund that settled and no event  *)
(* to handle.                                                               *)
(***************************************************************************)
EXTENDS RefundExecution, TLC

Stranded(r) ==
  /\ requests[r].status = "PROCESSING" /\ requests[r].lease = None
  /\ \A i \in RefundsOf(r) : refunds[i].status # "pending"
  /\ \A e \in DOMAIN events : Handled(e)

NoneStranded == \A r \in Requests : ~Stranded(r)

Alike == Permutations(Requests) \cup Permutations(Calls) \cup Permutations(Handlers)

=============================================================================
