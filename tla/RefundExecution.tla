--------------------------- MODULE RefundExecution ---------------------------
(***************************************************************************)
(* The refunds of one paid invoice.  An owner requests a refund, reviews   *)
(* it and has it executed; an execution takes a lease on the request, asks *)
(* Stripe for the refunds of the payment and creates one unless it exists. *)
(* Stripe reports what becomes of a refund by events, delivered in any     *)
(* order and more than once; each is claimed with a lease of its own, read *)
(* back from Stripe and applied.  Stripe is external: a refund is created  *)
(* once per idempotency key, and may still fail after it had succeeded.    *)
(*                                                                         *)
(* Requesting and reviewing are serializable transactions under a lock.    *)
(* An execution and the handling of an event are not: between their steps  *)
(* anything may happen, they may die, and their leases may run out.        *)
(***************************************************************************)
EXTENDS Naturals, Sequences, FiniteSetsExt

CONSTANTS Requests,    \* the refund requests that may be made
          Calls,       \* executeRefund calls under way at the same time
          Handlers,    \* webhook deliveries under way at the same time
          Paid,        \* the amount paid on the invoice
          MaxEvents,   \* bound on the events Stripe sends
          MaxSeconds,  \* bound on the clock that stamps the events
          MaxFaults,   \* bound on errors, deaths and leases that run out
          None

ASSUME RefundAssumption ==
  /\ {Paid, MaxEvents, MaxSeconds, MaxFaults} \subseteq Nat /\ MaxSeconds > 0
  /\ None \notin Calls \cup Handlers \cup Requests

Active    == {"REQUESTED", "UNDER_REVIEW", "APPROVED", "PROCESSING"}
Committed == {"APPROVED", "PROCESSING", "SUCCEEDED"}

Request == [status   : Active \cup {"NONE", "REJECTED", "SUCCEEDED", "FAILED"},
            amount   : 0..Paid,            \* requested, then approved
            lease    : Calls \cup {None},  \* the execution that holds it
            lapsed   : BOOLEAN,
            lastEvent : 0..MaxSeconds]     \* when its last event was made

ProviderStatus == {"pending", "succeeded", "failed"}

Refund == [request : Requests, amount : 0..Paid,
           status  : ProviderStatus, first : ProviderStatus]

Event == [refund : Nat, at : 0..MaxSeconds,
          status : {"NEW", "PROCESSING", "PROCESSED", "IGNORED_STALE", "FAILED"},
          owner  : Handlers \cup {None}, lapsed : BOOLEAN]

VARIABLES requests,   \* the refund requests of the invoice
          refunds,    \* the refunds of the payment, at Stripe
          events,     \* the events Stripe sends, with the rows that claim them
          calls,      \* what each execution is at, and what Stripe told it
          handlers,   \* the event each delivery handles, and what it read
          second,     \* the clock of the events
          faults      \* errors, deaths and leases run out so far

refundVars == <<requests, refunds, events, calls, handlers, second, faults>>

NoCall  == [phase |-> "idle", request |-> None, answer |-> "pending"]
NoEvent == [event |-> 0, seen |-> "pending"]

RefundInit ==
  /\ requests = [r \in Requests |->
                   [status |-> "NONE", amount |-> 0, lease |-> None,
                    lapsed |-> FALSE, lastEvent |-> 0]]
  /\ refunds = <<>> /\ events = <<>>
  /\ calls = [c \in Calls |-> NoCall]
  /\ handlers = [h \in Handlers |-> NoEvent]
  /\ second = 1 /\ faults = 0

(***************************************************************************)
(* Request and review: one transaction each.                               *)
(***************************************************************************)
CommittedByOthers(r) ==
  MapThenSumSet(LAMBDA q : requests[q].amount,
                {q \in Requests \ {r} : requests[q].status \in Committed})

OtherActive(r) == \E q \in Requests \ {r} : requests[q].status \in Active

RequestRefund(r, amount) ==
  /\ requests[r].status = "NONE"
  /\ ~OtherActive(r)
  /\ amount + CommittedByOthers(r) <= Paid
  /\ requests' = [requests EXCEPT ![r].status = "REQUESTED", ![r].amount = amount]
  /\ UNCHANGED <<refunds, events, calls, handlers, second, faults>>

StartReview(r) ==
  /\ requests[r].status = "REQUESTED"
  /\ requests' = [requests EXCEPT ![r].status = "UNDER_REVIEW"]
  /\ UNCHANGED <<refunds, events, calls, handlers, second, faults>>

Approve(r, amount) ==
  /\ requests[r].status \in {"REQUESTED", "UNDER_REVIEW"}
  /\ amount + CommittedByOthers(r) <= Paid
  /\ requests' = [requests EXCEPT ![r].status = "APPROVED", ![r].amount = amount]
  /\ UNCHANGED <<refunds, events, calls, handlers, second, faults>>

\* Mutant: a request being executed may be rejected.
RejectableActive(r) == requests[r].status \in Active

Rejectable(r) == requests[r].status \in {"REQUESTED", "UNDER_REVIEW", "APPROVED"}

Reject(r) ==
  /\ Rejectable(r)
  /\ requests' = [requests EXCEPT ![r].status = "REJECTED"]
  /\ UNCHANGED <<refunds, events, calls, handlers, second, faults>>

(***************************************************************************)
(* Execution.  The claim and the record are conditional updates; the calls *)
(* to Stripe lie between them.                                             *)
(***************************************************************************)
ExecuteClaims(c, r) ==
  /\ calls[c].phase = "idle"
  /\ \/ requests[r].status = "APPROVED"
     \/ requests[r].status = "PROCESSING" /\ requests[r].lease # None /\ requests[r].lapsed
  /\ requests' = [requests EXCEPT ![r].status = "PROCESSING",
                                  ![r].lease = c, ![r].lapsed = FALSE]
  /\ calls' = [calls EXCEPT ![c] = [NoCall EXCEPT !.phase = "claimed", !.request = r]]
  /\ UNCHANGED <<refunds, events, handlers, second, faults>>

RefundsOf(r) == {i \in DOMAIN refunds : refunds[i].request = r}

RefundedApartFrom(r) ==
  MapThenSumSet(LAMBDA i : refunds[i].amount,
                {i \in DOMAIN refunds \ RefundsOf(r) : refunds[i].status # "failed"})

\* Lists the refunds of the payment: the one of this request is taken as it is.
ExecuteLists(c) ==
  LET r == calls[c].request IN
  /\ calls[c].phase = "claimed"
  /\ requests[r].amount + RefundedApartFrom(r) <= Paid
  /\ \/ /\ RefundsOf(r) = {}
        /\ calls' = [calls EXCEPT ![c].phase = "listed"]
     \/ \E i \in RefundsOf(r) :
          calls' = [calls EXCEPT ![c].phase = "answered", ![c].answer = refunds[i].status]
  /\ UNCHANGED <<requests, refunds, events, handlers, second, faults>>

Sent(i) == [refund |-> i, at |-> second, status |-> "NEW", owner |-> None, lapsed |-> FALSE]

\* Mutant: the execution sends Stripe no idempotency key.
KnownNever(r) == {}

\* A refund created earlier with the key of this request is answered as it was then.
Known(r) == RefundsOf(r)

ExecuteCreates(c) ==
  LET r == calls[c].request IN
  /\ calls[c].phase = "listed"
  /\ \/ \E i \in Known(r) :
          /\ calls' = [calls EXCEPT ![c].phase = "answered", ![c].answer = refunds[i].first]
          /\ UNCHANGED <<refunds, events>>
     \/ /\ Known(r) = {}
        /\ Len(events) < MaxEvents
        /\ \E answer \in {"pending", "succeeded"} :
             /\ refunds' = Append(refunds, [request |-> r, amount |-> requests[r].amount,
                                            status |-> answer, first |-> answer])
             /\ calls' = [calls EXCEPT ![c].phase = "answered", ![c].answer = answer]
        /\ events' = Append(events, Sent(Len(refunds) + 1))
  /\ UNCHANGED <<requests, handlers, second, faults>>

refundStatusFromStripe(status) ==
  CASE status = "succeeded" -> "SUCCEEDED"
    [] status = "failed"    -> "FAILED"
    [] OTHER                -> "PROCESSING"

Owns(c) == LET r == calls[c].request IN
  requests[r].status = "PROCESSING" /\ requests[r].lease = c

\* Records the answer if the lease is still its own; else the attempt has lost it.
ExecuteRecords(c) ==
  LET r == calls[c].request IN
  /\ calls[c].phase = "answered"
  /\ IF Owns(c)
     THEN requests' = [requests EXCEPT ![r].status = refundStatusFromStripe(calls[c].answer),
                                       ![r].lease = None, ![r].lapsed = FALSE]
     ELSE UNCHANGED requests
  /\ calls' = [calls EXCEPT ![c] = NoCall]
  /\ UNCHANGED <<refunds, events, handlers, second, faults>>

\* Mutant: a failed attempt gives its lease up.
HeldByNone(c) == [requests EXCEPT ![calls[c].request].lapsed = FALSE,
                                  ![calls[c].request].lease = None]

\* The lease is kept for half a minute more, and then another attempt may take it.
Held(c) == [requests EXCEPT ![calls[c].request].lapsed = FALSE]

ExecuteFails(c) ==
  /\ calls[c].phase # "idle"
  /\ faults < MaxFaults /\ faults' = faults + 1
  /\ requests' = IF Owns(c) THEN Held(c) ELSE requests
  /\ calls' = [calls EXCEPT ![c] = NoCall]
  /\ UNCHANGED <<refunds, events, handlers, second>>

CallDies(c) ==
  /\ calls[c].phase # "idle"
  /\ faults < MaxFaults /\ faults' = faults + 1
  /\ calls' = [calls EXCEPT ![c] = NoCall]
  /\ UNCHANGED <<requests, refunds, events, handlers, second>>

LeaseLapses(r) ==
  /\ requests[r].lease # None /\ ~requests[r].lapsed
  /\ faults < MaxFaults /\ faults' = faults + 1
  /\ requests' = [requests EXCEPT ![r].lapsed = TRUE]
  /\ UNCHANGED <<refunds, events, calls, handlers, second>>

(***************************************************************************)
(* Stripe: a refund settles, and may be returned after that.               *)
(***************************************************************************)
Settles(i, status) ==
  /\ Len(events) < MaxEvents
  /\ \/ refunds[i].status = "pending" /\ status \in {"succeeded", "failed"}
     \/ refunds[i].status = "succeeded" /\ status = "failed"
  /\ refunds' = [refunds EXCEPT ![i].status = status]
  /\ events' = Append(events, Sent(i))
  /\ UNCHANGED <<requests, calls, handlers, second, faults>>

Tick ==
  /\ second < MaxSeconds
  /\ second' = second + 1
  /\ UNCHANGED <<requests, refunds, events, calls, handlers, faults>>

(***************************************************************************)
(* The webhook: the delivery claims the event and reads the refund, then   *)
(* applies what it read in a transaction.                                  *)
(***************************************************************************)
Claimable(e) ==
  \/ events[e].status \in {"NEW", "FAILED"}
  \/ events[e].status = "PROCESSING" /\ events[e].lapsed

Deliver(h, e) ==
  /\ handlers[h].event = 0
  /\ Claimable(e)
  /\ events' = [events EXCEPT ![e].status = "PROCESSING", ![e].owner = h, ![e].lapsed = FALSE]
  /\ handlers' = [handlers EXCEPT ![h] =
                    [event |-> e, seen |-> refunds[events[e].refund].status]]
  /\ UNCHANGED <<requests, refunds, calls, second, faults>>

OwnsEvent(h) ==
  /\ handlers[h].event # 0
  /\ events[handlers[h].event].status = "PROCESSING"
  /\ events[handlers[h].event].owner = h

Finished(e, status) ==
  [events EXCEPT ![e].status = status, ![e].owner = None, ![e].lapsed = FALSE]

\* Mutant: the order in which Stripe made its events does not matter.
StaleNever(r, e) == FALSE

Stale(r, e) == requests[r].lastEvent > events[e].at

\* One active request an invoice: the database refuses a second.
Refused(h) ==
  LET e == handlers[h].event
      r == refunds[events[e].refund].request IN
  /\ ~Stale(r, e)
  /\ refundStatusFromStripe(handlers[h].seen) \in Active
  /\ OtherActive(r)

HandlerApplies(h) ==
  LET e == handlers[h].event
      r == refunds[events[e].refund].request IN
  /\ OwnsEvent(h)
  /\ \/ /\ Stale(r, e)
        /\ events' = Finished(e, "IGNORED_STALE")
        /\ UNCHANGED requests
     \/ /\ ~Stale(r, e)
        /\ ~Refused(h)
        /\ events' = Finished(e, "PROCESSED")
        /\ requests' = [requests EXCEPT
             ![r] = [@ EXCEPT !.status = refundStatusFromStripe(handlers[h].seen),
                              !.lease = None, !.lapsed = FALSE,
                              !.lastEvent = events[e].at]]
  /\ handlers' = [handlers EXCEPT ![h] = NoEvent]
  /\ UNCHANGED <<refunds, calls, second, faults>>

\* An error, the refusal of the database, or the lease lost: Stripe delivers again.
HandlerFails(h) ==
  LET e == handlers[h].event IN
  /\ e # 0
  /\ IF OwnsEvent(h)
     THEN /\ Refused(h) \/ faults < MaxFaults
          /\ faults' = IF Refused(h) THEN faults ELSE faults + 1
          /\ events' = Finished(e, "FAILED")
     ELSE UNCHANGED <<events, faults>>
  /\ handlers' = [handlers EXCEPT ![h] = NoEvent]
  /\ UNCHANGED <<requests, refunds, calls, second>>

HandlerDies(h) ==
  /\ handlers[h].event # 0
  /\ faults < MaxFaults /\ faults' = faults + 1
  /\ handlers' = [handlers EXCEPT ![h] = NoEvent]
  /\ UNCHANGED <<requests, refunds, events, calls, second>>

EventLeaseLapses(e) ==
  /\ events[e].status = "PROCESSING" /\ ~events[e].lapsed
  /\ faults < MaxFaults /\ faults' = faults + 1
  /\ events' = [events EXCEPT ![e].lapsed = TRUE]
  /\ UNCHANGED <<requests, refunds, calls, handlers, second>>

RefundNext ==
  \/ \E r \in Requests :
       \/ \E amount \in 1..Paid : RequestRefund(r, amount) \/ Approve(r, amount)
       \/ StartReview(r) \/ Reject(r) \/ LeaseLapses(r)
       \/ \E c \in Calls : ExecuteClaims(c, r)
  \/ \E c \in Calls :
       \/ ExecuteLists(c) \/ ExecuteCreates(c) \/ ExecuteRecords(c)
       \/ ExecuteFails(c) \/ CallDies(c)
  \/ \E i \in DOMAIN refunds, status \in ProviderStatus : Settles(i, status)
  \/ Tick
  \/ \E e \in DOMAIN events : EventLeaseLapses(e) \/ \E h \in Handlers : Deliver(h, e)
  \/ \E h \in Handlers : HandlerApplies(h) \/ HandlerFails(h) \/ HandlerDies(h)

RefundSpec == RefundInit /\ [][RefundNext]_refundVars

-----------------------------------------------------------------------------

\* The variables have their types; a lease is held only while a request is processed.
RefundTypeOK ==
  /\ requests \in [Requests -> Request]
  /\ refunds \in Seq(Refund)
  /\ events \in Seq(Event)
  /\ calls \in [Calls -> [phase : {"idle", "claimed", "listed", "answered"},
                          request : Requests \cup {None}, answer : ProviderStatus]]
  /\ handlers \in [Handlers -> [event : 0..Len(events), seen : ProviderStatus]]
  /\ second \in 1..MaxSeconds /\ faults \in 0..MaxFaults
  /\ \A r \in Requests : requests[r].lease # None => requests[r].status = "PROCESSING"

\* Of a payment no more is ever given back than was paid, however executions of
\* one request overlap, die and are taken over (executeRefund).
RefundsWithinPaid ==
  MapThenSumSet(LAMBDA i : refunds[i].amount,
                {i \in DOMAIN refunds : refunds[i].status # "failed"}) <= Paid

\* A request that was rejected, or whose refund failed, has no refund that stands
\* at Stripe: a rejection never overtakes an execution (reviewRefund), and what
\* Stripe still pays out is never shown as failed.
RejectedIsNotRefunded ==
  \A r \in Requests : requests[r].status \in {"REJECTED", "FAILED"} =>
    \A i \in RefundsOf(r) : refunds[i].status = "failed"

Handled(e) == events[e].status \in {"PROCESSED", "IGNORED_STALE"}

\* The newest event of its refund, and no other one was made in its second.
Newest(e) ==
  \A f \in DOMAIN events \ {e} :
    events[f].refund = events[e].refund => events[f].at < events[e].at

\* From the moment the newest event of a refund is handled, the request says of the
\* refund what Stripe says, whatever executions and deliveries of older events are
\* still under way with what they read before (applyStripeRefundEvent).  Of two
\* events made in the last second neither is the newest: they are not ordered.
SettledAgrees ==
  \A e \in DOMAIN events :
    LET i == events[e].refund IN
    Newest(e) /\ Handled(e)
      => requests[refunds[i].request].status = refundStatusFromStripe(refunds[i].status)

\* A request in processing is not stranded: an execution holds it, and another may
\* take it over when the lease runs out (executeRefund claims no other one); or its
\* refund exists at Stripe and is still pending there, or its newest event is not
\* handled yet.  Two newest events of one second may strand it: the older read wins,
\* and nothing is left that could settle the request (SameSecondMC.cfg).
ProcessingCanGoOn ==
  \A r \in Requests :
    requests[r].status = "PROCESSING" /\ requests[r].lease = None =>
      /\ RefundsOf(r) # {}
      /\ \A i \in RefundsOf(r), e \in DOMAIN events :
           events[e].refund = i /\ Newest(e) => refunds[i].status = "pending" \/ ~Handled(e)

=============================================================================
