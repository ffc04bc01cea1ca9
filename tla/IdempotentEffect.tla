--------------------------- MODULE IdempotentEffect ---------------------------
(***************************************************************************)
(* What an idempotency key promises to the clients of the operations API:  *)
(* of all the requests sent under it at most one takes effect, and a       *)
(* request is told that it succeeded only when a request of the same       *)
(* content has taken effect.  A request may always be told something else. *)
(***************************************************************************)
CONSTANTS Attempts,      \* the requests sent under the key
          Fingerprint    \* request -> what it asks for

VARIABLES applied,       \* the requests that took effect
          answer         \* what each request was told, "none" before that

Kept(a) == \E b \in applied : Fingerprint[b] = Fingerprint[a]

Init ==
  /\ applied = {}
  /\ answer = [a \in Attempts |-> "none"]

Apply(a) ==
  /\ applied = {}
  /\ applied' = {a}
  /\ UNCHANGED answer

ApplyAndConfirm(a) ==
  /\ applied = {} /\ answer[a] = "none"
  /\ applied' = {a}
  /\ answer' = [answer EXCEPT ![a] = "success"]

Confirm(a) ==
  /\ answer[a] = "none" /\ Kept(a)
  /\ answer' = [answer EXCEPT ![a] = "success"]
  /\ UNCHANGED applied

Refuse(a) ==
  /\ answer[a] = "none"
  /\ \E w \in {"conflict", "failure", "in_progress", "error"} :
       answer' = [answer EXCEPT ![a] = w]
  /\ UNCHANGED applied

Next == \E a \in Attempts : Apply(a) \/ ApplyAndConfirm(a) \/ Confirm(a) \/ Refuse(a)

Spec == Init /\ [][Next]_<<applied, answer>>
=============================================================================
