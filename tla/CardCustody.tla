---------------------------- MODULE CardCustody ----------------------------
(***************************************************************************)
(* Who holds a customer's card: the credentials of one membership, the      *)
(* transfers that replace them, and the sessions of the browsers that show  *)
(* the card, under staff who suspend or revoke it, a merchant who closes    *)
(* and a privacy worker that erases the customer.                           *)
(*                                                                          *)
(* The API's transactions are serializable and retried, so each is one      *)
(* step, except where the worker's read-committed erasure can meet it: the  *)
(* erasure takes the set of sessions it revokes when its statement starts,  *)
(* and waits for the rows a rotation has written.  A rotation reads its     *)
(* session before its transaction begins.                                   *)
(***************************************************************************)
EXTENDS Integers, Sequences, FiniteSets

CONSTANTS
  Keys,            \* idempotency keys of transfer requests
  Clients,         \* requests that rotate a session
  ByEmail,         \* does the customer have a primary email address?
  MaxCredentials,  \* bound on the versions of the credential
  MaxSessions      \* bound on the sessions

ASSUME CustodyAssumption ==
  /\ ByEmail \in BOOLEAN
  /\ MaxCredentials \in Nat \ {0} /\ MaxSessions \in Nat \ {0}

VARIABLES
  card,         \* the membership, and what else a transfer requires of it
  credentials,  \* membership_credentials, by version
  sessions,     \* membership_access_sessions, in the order they were created
  transfers,    \* membership_transfer_commands, by idempotency key
  resending,    \* transfers a resend has read and not yet written
  rotation,     \* client -> how far its rotation is
  erasing       \* the erasure that is open, with the sessions it will revoke

vars == <<card, credentials, sessions, transfers, resending, rotation, erasing>>

Credential(status, next) == [status |-> status, replacedBy |-> next]
Session(credential, from) == [status |-> "LIVE", credential |-> credential, from |-> from]
NoTransfer == [status |-> "NONE", old |-> 0, lapsed |-> FALSE]
NoRotation == [at |-> "idle", session |-> 0]
NoErasure == [open |-> FALSE, seen |-> {}]

Versions == 1..Len(credentials)
Live == {s \in DOMAIN sessions : sessions[s].status = "LIVE"}
Pending == {k \in Keys : transfers[k].status = "PENDING_CONFIRMATION"}
Completed == {k \in Keys : transfers[k].status = "COMPLETED"}
\* The rows that open rotations have locked.
Written == {rotation[c].session : c \in {d \in Clients : rotation[d].at = "written"}}

\* Enrollment creates the membership, its first credential and a session at once.
Init ==
  /\ card = [status |-> "ACTIVE", open |-> TRUE, endedBy |-> "NOBODY"]
  /\ credentials = <<Credential("ACTIVE", 0)>>
  /\ sessions = <<Session(1, 0)>>
  /\ transfers = [k \in Keys |-> NoTransfer]
  /\ resending = {}
  /\ rotation = [c \in Clients |-> NoRotation]
  /\ erasing = NoErasure

-----------------------------------------------------------------------------
(* Transfers.                                                               *)

Transferable == card.status = "ACTIVE" /\ card.open

(* A request under its own lock, not the one of the membership: a key that  *)
(* is pending gets a new proof and more time; a new key is refused while    *)
(* any transfer of the card is pending, lapsed or not.                      *)
Asks(k, v) == transfers' = [transfers EXCEPT
  ![k] = [status |-> "PENDING_CONFIRMATION", old |-> v, lapsed |-> FALSE]]

(* Mutant: a request that looks for its own key only.                       *)
RequestAnyway(k, v) ==
  /\ Transferable /\ credentials[v].status = "ACTIVE"
  /\ k \in Pending \/ transfers[k].status = "NONE"
  /\ Asks(k, v)
  /\ UNCHANGED <<card, credentials, sessions, resending, rotation, erasing>>

Request(k, v) ==
  /\ Transferable /\ credentials[v].status = "ACTIVE"
  /\ \/ k \in Pending /\ transfers[k].old = v
     \/ transfers[k].status = "NONE" /\ Pending = {}
  /\ Asks(k, v)
  /\ UNCHANGED <<card, credentials, sessions, resending, rotation, erasing>>

TransferLapses(k) ==
  /\ k \in Pending
  /\ transfers' = [transfers EXCEPT ![k].lapsed = TRUE]
  /\ UNCHANGED <<card, credentials, sessions, resending, rotation, erasing>>

(* A resend reads a pending transfer and later writes a new proof and more  *)
(* time by its id, without a lock and whatever became of it meanwhile.      *)
ResendReads(k) ==
  /\ ByEmail /\ k \in Pending
  /\ resending' = resending \cup {k}
  /\ UNCHANGED <<card, credentials, sessions, transfers, rotation, erasing>>

ResendWrites(k) ==
  /\ k \in resending
  /\ resending' = resending \ {k}
  /\ transfers' = [transfers EXCEPT ![k].lapsed = FALSE]
  /\ UNCHANGED <<card, credentials, sessions, rotation, erasing>>

(* Whoever presents the current proof.  A completed transfer is replayed;   *)
(* of one that lapsed, or whose card cannot be transferred, the writes of   *)
(* EXPIRED and FAILED are undone by the exception that reports them.        *)
Rotates(v) ==
  credentials' = Append([credentials EXCEPT ![v] = Credential("TRANSFERRED", Len(credentials) + 1)],
                        Credential("ACTIVE", 0))
Opens(session) ==
  /\ Len(sessions) < MaxSessions
  /\ sessions' = Append(sessions, session)

(* Mutant: a confirmation that completes what was completed before.         *)
ConfirmAgain(k) ==
  LET v == transfers[k].old IN
  /\ k \in Pending \cup Completed /\ ~transfers[k].lapsed /\ ~erasing.open
  /\ Transferable
  /\ Len(credentials) < MaxCredentials
  /\ Rotates(v) /\ Opens(Session(Len(credentials) + 1, 0))
  /\ transfers' = [transfers EXCEPT ![k].status = "COMPLETED"]
  /\ UNCHANGED <<card, resending, rotation, erasing>>

Confirm(k) ==
  LET v == transfers[k].old IN
  /\ k \in Pending /\ ~transfers[k].lapsed /\ ~erasing.open
  /\ Transferable /\ credentials[v].status = "ACTIVE"
  /\ Len(credentials) < MaxCredentials
  /\ Rotates(v) /\ Opens(Session(Len(credentials) + 1, 0))
  /\ transfers' = [transfers EXCEPT ![k].status = "COMPLETED"]
  /\ UNCHANGED <<card, resending, rotation, erasing>>

-----------------------------------------------------------------------------
(* Sessions.                                                                *)

Ends(ended, status) ==
  [s \in DOMAIN sessions |->
     IF s \in ended /\ sessions[s].status = "LIVE" THEN [sessions[s] EXCEPT !.status = status]
     ELSE sessions[s]]

SessionLapses(s) ==
  /\ s \in Live \ Written
  /\ sessions' = Ends({s}, "LAPSED")
  /\ UNCHANGED <<card, credentials, transfers, resending, rotation, erasing>>

Logout(s) ==
  /\ s \in Live \ Written
  /\ sessions' = Ends({s}, "REVOKED")
  /\ UNCHANGED <<card, credentials, transfers, resending, rotation, erasing>>

RotateReads(c, s) ==
  /\ rotation[c].at = "idle"
  /\ s \in Live /\ credentials[sessions[s].credential].status = "ACTIVE"
  /\ rotation' = [rotation EXCEPT ![c] = [at |-> "read", session |-> s]]
  /\ UNCHANGED <<card, credentials, sessions, transfers, resending, erasing>>

(* The transaction, under the lock of the session; it is refused if the     *)
(* session has ended, and it may fail for any other reason.                 *)
(* Mutant: no second look at the session.                                   *)
RotateTrusting(c) ==
  /\ rotation[c].at = "read"
  /\ rotation[c].session \notin Written
  /\ rotation' = [rotation EXCEPT ![c].at = "written"]
  /\ UNCHANGED <<card, credentials, sessions, transfers, resending, erasing>>

RotateWrites(c) ==
  /\ rotation[c].at = "read"
  /\ rotation[c].session \in Live \ Written
  /\ rotation' = [rotation EXCEPT ![c].at = "written"]
  /\ UNCHANGED <<card, credentials, sessions, transfers, resending, erasing>>

RotateCommits(c) ==
  LET s == rotation[c].session IN
  /\ rotation[c].at = "written"
  /\ Len(sessions) < MaxSessions
  /\ sessions' = Append(Ends({s}, "REVOKED"), Session(sessions[s].credential, s))
  /\ rotation' = [rotation EXCEPT ![c] = NoRotation]
  /\ UNCHANGED <<card, credentials, transfers, resending, erasing>>

RotateFails(c) ==
  /\ rotation[c].at # "idle"
  /\ rotation' = [rotation EXCEPT ![c] = NoRotation]
  /\ UNCHANGED <<card, credentials, sessions, transfers, resending, erasing>>

-----------------------------------------------------------------------------
(* The membership and the organization.  These transactions and the erasure *)
(* exclude each other by the lock of the organization.                      *)

Suspend ==
  /\ card.status = "ACTIVE" /\ card.open /\ ~erasing.open
  /\ card' = [card EXCEPT !.status = "SUSPENDED"]
  /\ UNCHANGED <<credentials, sessions, transfers, resending, rotation, erasing>>

Restore ==
  /\ card.status = "SUSPENDED" /\ card.open /\ ~erasing.open
  /\ \E v \in Versions : credentials[v].status = "ACTIVE"
  /\ card' = [card EXCEPT !.status = "ACTIVE"]
  /\ UNCHANGED <<credentials, sessions, transfers, resending, rotation, erasing>>

Retired == [v \in Versions |-> IF credentials[v].status = "ACTIVE"
                               THEN Credential("REVOKED", 0) ELSE credentials[v]]

(* Mutant: it revokes the sessions of the active credential.                *)
RevokeBound ==
  /\ card.status # "REVOKED" /\ card.open /\ ~erasing.open /\ Live \cap Written = {}
  /\ card' = [card EXCEPT !.status = "REVOKED", !.endedBy = "STAFF"]
  /\ credentials' = Retired
  /\ sessions' = Ends({s \in Live : credentials[sessions[s].credential].status = "ACTIVE"}, "REVOKED")
  /\ UNCHANGED <<transfers, resending, rotation, erasing>>

(* Serializable: it waits for a rotation that has written a session, and    *)
(* starts again when that commits.                                          *)
Revoke ==
  /\ card.status # "REVOKED" /\ card.open /\ ~erasing.open /\ Live \cap Written = {}
  /\ card' = [card EXCEPT !.status = "REVOKED", !.endedBy = "STAFF"]
  /\ credentials' = Retired
  /\ sessions' = Ends(Live, "REVOKED")
  /\ UNCHANGED <<transfers, resending, rotation, erasing>>

CloseOrganization ==
  /\ card.open /\ ~erasing.open /\ Live \cap Written = {}
  /\ card' = [card EXCEPT !.open = FALSE]
  /\ sessions' = Ends(Live, "REVOKED")
  /\ UNCHANGED <<credentials, transfers, resending, rotation, erasing>>

(* The worker's erasure: read-committed, under the organization's, the      *)
(* program's and the membership's lock but not the session's.               *)
EraseSees ==
  /\ ~erasing.open /\ card.endedBy # "ERASURE"
  /\ erasing' = [open |-> TRUE, seen |-> Live]
  /\ UNCHANGED <<card, credentials, sessions, transfers, resending, rotation>>

EraseCommits ==
  /\ erasing.open /\ erasing.seen \cap Written = {}
  /\ card' = [card EXCEPT !.status = "REVOKED", !.endedBy = "ERASURE"]
  /\ credentials' = Retired
  /\ sessions' = Ends(erasing.seen, "REVOKED")
  /\ erasing' = NoErasure
  /\ UNCHANGED <<transfers, resending, rotation>>

EraseFails ==
  /\ erasing.open
  /\ erasing' = NoErasure
  /\ UNCHANGED <<card, credentials, sessions, transfers, resending, rotation>>

-----------------------------------------------------------------------------
Next ==
  \/ \E k \in Keys : \E v \in Versions : Request(k, v)
  \/ \E k \in Keys : TransferLapses(k) \/ ResendReads(k) \/ ResendWrites(k) \/ Confirm(k)
  \/ \E s \in DOMAIN sessions : SessionLapses(s) \/ Logout(s)
  \/ \E c \in Clients : \E s \in DOMAIN sessions : RotateReads(c, s)
  \/ \E c \in Clients : RotateWrites(c) \/ RotateCommits(c) \/ RotateFails(c)
  \/ Suspend \/ Restore \/ Revoke \/ CloseOrganization
  \/ EraseSees \/ EraseCommits \/ EraseFails

Spec == Init /\ [][Next]_vars

-----------------------------------------------------------------------------
(* The rows have the columns and states of the schema, and the statuses     *)
(* EXPIRED and FAILED of a transfer are never committed.                    *)
TypeOK ==
  /\ card \in [status : {"ACTIVE", "SUSPENDED", "REVOKED"}, open : BOOLEAN,
               endedBy : {"NOBODY", "STAFF", "ERASURE"}]
  /\ credentials \in Seq([status : {"ACTIVE", "TRANSFERRED", "REVOKED"},
                          replacedBy : 0..Len(credentials)])
  /\ sessions \in Seq([status : {"LIVE", "LAPSED", "REVOKED"}, credential : Versions,
                       from : 0..Len(sessions)])
  /\ transfers \in [Keys -> [status : {"NONE", "PENDING_CONFIRMATION", "COMPLETED"},
                             old : 0..Len(credentials), lapsed : BOOLEAN]]
  /\ resending \subseteq Keys
  /\ rotation \in [Clients -> [at : {"idle", "read", "written"}, session : 0..Len(sessions)]]
  /\ erasing \in [open : BOOLEAN, seen : SUBSET (DOMAIN sessions)]

(* Credentials form one chain, each link made by one completed transfer:    *)
(* all but the newest are transferred to the next, and the newest is active *)
(* exactly as long as the membership is not revoked.                        *)
CredentialChain ==
  /\ \A v \in Versions : v < Len(credentials) => credentials[v] = Credential("TRANSFERRED", v + 1)
  /\ credentials[Len(credentials)] =
       Credential(IF card.status = "REVOKED" THEN "REVOKED" ELSE "ACTIVE", 0)
  /\ Cardinality(Completed) = Len(credentials) - 1

(* At most one transfer is pending, and it is one of the newest credential: *)
(* completing a transfer leaves no other behind that names a retired one.   *)
PendingIsCurrent ==
  \A k \in Pending : Pending = {k} /\ transfers[k].old = Len(credentials)

(* A session has at most one successor and ends when it gets it, however    *)
(* many requests rotate it at once: never more live sessions than the       *)
(* enrollment and the transfers opened.                                     *)
RotationsDoNotFork ==
  /\ \A s, t \in DOMAIN sessions :
       sessions[t].from = s =>
         /\ s \notin Live
         /\ \A u \in DOMAIN sessions : sessions[u].from = s => u = t
  /\ Cardinality(Live) <= 1 + Cardinality(Completed)

(* After staff revoked the membership, or the merchant closed, no session   *)
(* is live, not even one that a rotation under way would have created.      *)
RevokedStaysOut == card.endedBy = "STAFF" \/ ~card.open => Live = {}

(* docs/w4/privacy-operations.md:6: "Erasure revokes credentials, sessions  *)
(* and public assets".                                                      *)
ErasedStaysOut == card.endedBy = "ERASURE" => Live = {}
=============================================================================
