-------------------------- MODULE CardCustody_proofs --------------------------
(***************************************************************************)
(* Proofs about the custody of a card, for any number of transfer keys,    *)
(* browsers, credentials and sessions.  Each transfer adds one credential  *)
(* and one session, and a rotation only exchanges sessions: what has to be *)
(* carried along is that a rotation that has written its session holds a   *)
(* live one, alone, until it commits or fails.                             *)
(***************************************************************************)
EXTENDS CardCustody, FiniteSetTheorems, SequenceTheorems, TLAPS

-----------------------------------------------------------------------------
(* The inductive invariant.                                                *)

CredentialRow == [status : {"ACTIVE", "TRANSFERRED", "REVOKED"}, replacedBy : Nat]
SessionRow == [status : {"LIVE", "LAPSED", "REVOKED"}, credential : Nat, from : Nat]
TransferRow == [status : {"NONE", "PENDING_CONFIRMATION", "COMPLETED"},
                old : Nat, lapsed : BOOLEAN]
RotationRow == [at : {"idle", "read", "written"}, session : Nat]

\* The rows, and the rows their columns name.
CardRows ==
  /\ card \in [status : {"ACTIVE", "SUSPENDED", "REVOKED"}, open : BOOLEAN,
               endedBy : {"NOBODY", "STAFF", "ERASURE"}]
  /\ credentials \in Seq(CredentialRow) /\ Len(credentials) >= 1
  /\ transfers \in [Keys -> TransferRow]
  /\ \A k \in Keys : transfers[k].old \in 0..Len(credentials)
  /\ resending \subseteq Keys

SessionRows ==
  /\ sessions \in Seq(SessionRow)
  /\ \A s \in DOMAIN sessions : /\ sessions[s].credential \in 1..Len(credentials)
                                /\ sessions[s].from \in 0..Len(sessions)
  /\ rotation \in [Clients -> RotationRow]
  /\ \A c \in Clients : rotation[c].session \in 0..Len(sessions)
  /\ erasing \in [open : BOOLEAN, seen : SUBSET DOMAIN sessions]

\* A rotation that has written holds the lock of a live session, alone.
WritersHold ==
  /\ \A c \in Clients : rotation[c].at = "written" => rotation[c].session \in Live
  /\ \A c, d \in Clients :
       /\ rotation[c].at = "written" /\ rotation[d].at = "written"
       /\ rotation[c].session = rotation[d].session
       => c = d

\* A session ends when it gets its one successor.
Successions ==
  \A s, t \in DOMAIN sessions :
    sessions[t].from = s =>
      /\ s \notin Live
      /\ \A u \in DOMAIN sessions : sessions[u].from = s => u = t

\* Completed transfers and live sessions are counted.
Counts ==
  /\ IsFiniteSet(Completed) /\ IsFiniteSet(Live)
  /\ Cardinality(Completed) = Len(credentials) - 1
  /\ Cardinality(Live) <= 1 + Cardinality(Completed)

Chain ==
  /\ \A v \in Versions : v < Len(credentials) => credentials[v] = Credential("TRANSFERRED", v + 1)
  /\ credentials[Len(credentials)] =
       Credential(IF card.status = "REVOKED" THEN "REVOKED" ELSE "ACTIVE", 0)

EndedIsRevoked == card.endedBy # "NOBODY" => card.status = "REVOKED"

CInv ==
  /\ CardRows /\ SessionRows /\ WritersHold /\ Successions /\ Counts
  /\ Chain /\ PendingIsCurrent /\ EndedIsRevoked /\ RevokedStaysOut

-----------------------------------------------------------------------------
(* Facts about the rows.                                                    *)

LEMMA SessionFacts ==
  ASSUME SessionRows
  PROVE  /\ Len(sessions) \in Nat /\ DOMAIN sessions = 1..Len(sessions)
         /\ \A s \in DOMAIN sessions : sessions[s] \in SessionRow
         /\ Live \subseteq DOMAIN sessions
<1> QED BY LenProperties, ElementOfSeq DEF SessionRows, Live

LEMMA CredentialFacts ==
  ASSUME CardRows
  PROVE  /\ Len(credentials) \in Nat \ {0} /\ DOMAIN credentials = 1..Len(credentials)
         /\ Versions = DOMAIN credentials
         /\ \A v \in Versions : credentials[v] \in CredentialRow
<1> QED BY LenProperties, ElementOfSeq DEF CardRows, Versions

(* Sequences that are written as functions on the domain of another one.    *)
LEMMA FunctionIsSeq ==
  ASSUME NEW S, NEW T, NEW s \in Seq(S), NEW f \in [DOMAIN s -> T]
  PROVE  f \in Seq(T) /\ Len(f) = Len(s) /\ DOMAIN f = DOMAIN s
<1>1. Len(s) \in Nat /\ DOMAIN s = 1..Len(s)
  BY LenProperties
<1>2. f \in [1..Len(s) -> T]
  BY <1>1
<1>3. f \in Seq(T)
  BY <1>1, <1>2, SeqDef
<1>4. Len(f) \in Nat /\ DOMAIN f = 1..Len(f)
  BY <1>3, LenProperties
<1> QED BY <1>1, <1>2, <1>3, <1>4

LEMMA CredentialIs ==
  \A st, n : Credential(st, n).status = st /\ Credential(st, n).replacedBy = n
<1> QED BY DEF Credential

(* The one active credential is the newest, as long as the card is not      *)
(* revoked.                                                                 *)
LEMMA ActiveIsNewest ==
  ASSUME CardRows, Chain, NEW v \in Versions, credentials[v].status = "ACTIVE"
  PROVE  v = Len(credentials) /\ card.status # "REVOKED"
<1>1. v \in 1..Len(credentials) /\ Len(credentials) \in Nat
  BY CredentialFacts
<1>2. v < Len(credentials) => credentials[v].status = "TRANSFERRED"
  BY CredentialIs DEF Chain
<1>3. v = Len(credentials)
  BY <1>1, <1>2
<1>4. card.status = "REVOKED" => credentials[v].status = "REVOKED"
  BY <1>3, CredentialIs DEF Chain
<1> QED BY <1>3, <1>4

(* Ending sessions: those of a set that no writer holds.                    *)
LEMMA EndedRows ==
  ASSUME CInv, NEW E, NEW st \in {"LAPSED", "REVOKED"}
  PROVE  /\ Ends(E, st) \in Seq(SessionRow) /\ Len(Ends(E, st)) = Len(sessions)
         /\ DOMAIN Ends(E, st) = DOMAIN sessions
         /\ \A s \in DOMAIN sessions :
              /\ Ends(E, st)[s].credential = sessions[s].credential
              /\ Ends(E, st)[s].from = sessions[s].from
              /\ Ends(E, st)[s].status = "LIVE" <=> s \in Live \ E
<1> DEFINE Row(s) == IF s \in E /\ sessions[s].status = "LIVE"
                     THEN [sessions[s] EXCEPT !.status = st] ELSE sessions[s]
<1>1. /\ sessions \in Seq(SessionRow)
      /\ \A s \in DOMAIN sessions : sessions[s] \in SessionRow
  BY SessionFacts DEF CInv, SessionRows
<1>2. \A s \in DOMAIN sessions :
        /\ Row(s) \in SessionRow
        /\ Row(s).credential = sessions[s].credential /\ Row(s).from = sessions[s].from
        /\ Row(s).status = "LIVE" <=> s \in Live \ E
  BY <1>1 DEF SessionRow, Live
<1>3. Ends(E, st) = [s \in DOMAIN sessions |-> Row(s)]
  BY DEF Ends
<1> HIDE DEF Row
<1>4. Ends(E, st) \in [DOMAIN sessions -> SessionRow]
  BY <1>2, <1>3
<1> QED BY <1>1, <1>2, <1>3, <1>4, FunctionIsSeq

LEMMA SessionsEnd ==
  ASSUME CInv, NEW E, NEW st \in {"LAPSED", "REVOKED"}, sessions' = Ends(E, st),
         E \cap Written = {}, rotation' = rotation, Len(credentials') = Len(credentials),
         Completed' = Completed,
         erasing' \in [open : BOOLEAN, seen : SUBSET DOMAIN sessions]
  PROVE  SessionRows' /\ WritersHold' /\ Successions' /\ Counts' /\ Live' = Live \ E
<1>1. /\ sessions' \in Seq(SessionRow) /\ Len(sessions') = Len(sessions)
      /\ DOMAIN sessions' = DOMAIN sessions
      /\ \A s \in DOMAIN sessions :
           /\ sessions'[s].credential = sessions[s].credential
           /\ sessions'[s].from = sessions[s].from
           /\ sessions'[s].status = "LIVE" <=> s \in Live \ E
  BY EndedRows
<1>2. Live' = Live \ E
  BY <1>1 DEF Live
<1>3. SessionRows'
  BY <1>1 DEF CInv, SessionRows
<1>4. WritersHold'
  <2>1. \A c \in Clients : rotation[c].at = "written" => rotation[c].session \in Written
    BY DEF Written
  <2> QED BY <1>2, <2>1 DEF CInv, WritersHold
<1>5. Successions'
  BY <1>1, <1>2 DEF CInv, Successions
<1>6. Counts'
  <2>1. IsFiniteSet(Live') /\ Cardinality(Live') <= Cardinality(Live)
    BY <1>2, FS_Subset DEF CInv, Counts
  <2>2. Cardinality(Live) \in Nat /\ Cardinality(Live') \in Nat /\ Cardinality(Completed) \in Nat
    BY <2>1, FS_CardinalityType DEF CInv, Counts
  <2> QED BY <2>1, <2>2 DEF CInv, Counts
<1> QED BY <1>2, <1>3, <1>4, <1>5, <1>6

-----------------------------------------------------------------------------
(* The steps.                                                               *)

LEMMA InitCInv == Init => CInv
<1> SUFFICES ASSUME Init PROVE CInv
  OBVIOUS
<1> USE CustodyAssumption DEF Init
<1>1. Credential("ACTIVE", 0) \in CredentialRow /\ Session(1, 0) \in SessionRow
  BY DEF Credential, CredentialRow, Session, SessionRow
<1>2. /\ credentials \in Seq(CredentialRow) /\ Len(credentials) = 1
      /\ DOMAIN credentials = {1} /\ credentials[1] = Credential("ACTIVE", 0)
  BY <1>1
<1>3. /\ sessions \in Seq(SessionRow) /\ Len(sessions) = 1
      /\ DOMAIN sessions = {1} /\ sessions[1] = Session(1, 0)
  BY <1>1
<1>4. Completed = {} /\ Pending = {}
  BY DEF Completed, Pending, NoTransfer
<1>5. Live = {1} /\ sessions[1].credential = 1 /\ sessions[1].from = 0
  BY <1>3 DEF Live, Session
<1>6. CardRows
  BY <1>2 DEF CardRows, TransferRow, NoTransfer
<1>7. SessionRows
  BY <1>2, <1>3, <1>5 DEF SessionRows, RotationRow, NoRotation, NoErasure
<1>8. WritersHold
  BY DEF WritersHold, NoRotation
<1>9. Successions
  BY <1>3, <1>5 DEF Successions
<1>10. Counts
  <2>1. IsFiniteSet({}) /\ Cardinality({}) = 0 /\ IsFiniteSet({1}) /\ Cardinality({1}) = 1
    BY FS_EmptySet, FS_Singleton
  <2> QED BY <1>2, <1>4, <1>5, <2>1 DEF Counts
<1>11. Chain
  BY <1>2 DEF Chain, Versions
<1>12. PendingIsCurrent /\ EndedIsRevoked /\ RevokedStaysOut
  BY <1>4 DEF PendingIsCurrent, EndedIsRevoked, RevokedStaysOut
<1> QED BY <1>6, <1>7, <1>8, <1>9, <1>10, <1>11, <1>12 DEF CInv

(* A transfer is asked for, lapses or gets another proof.                   *)
LEMMA TransferStep ==
  ASSUME CInv, NEW k \in Keys,
         \/ \E v \in Versions : Request(k, v)
         \/ TransferLapses(k) \/ ResendReads(k) \/ ResendWrites(k)
  PROVE  CInv'
<1>1. UNCHANGED <<card, credentials, sessions, rotation, erasing>>
  BY DEF Request, TransferLapses, ResendReads, ResendWrites
<1>2. Live' = Live /\ Versions' = Versions
  BY <1>1 DEF Live, Versions
<1>3. /\ SessionRows' /\ WritersHold' /\ Successions'
      /\ Chain' /\ EndedIsRevoked' /\ RevokedStaysOut'
  BY <1>1, <1>2
     DEF CInv, SessionRows, WritersHold, Successions, Chain, EndedIsRevoked, RevokedStaysOut
<1>4. /\ transfers \in [Keys -> TransferRow] /\ resending \subseteq Keys
      /\ \A j \in Keys : transfers[j].old \in 0..Len(credentials)
  BY DEF CInv, CardRows
<1>5. SUFFICES CardRows' /\ Completed' = Completed /\ PendingIsCurrent'
  BY <1>1, <1>2, <1>3 DEF CInv, Counts
<1>6. CASE \E v \in Versions : Request(k, v)
  <2>1. PICK v \in Versions : Request(k, v)
    BY <1>6
  <2>2. /\ credentials[v].status = "ACTIVE" /\ UNCHANGED resending
        /\ \/ k \in Pending
           \/ transfers[k].status = "NONE" /\ Pending = {}
        /\ transfers' = [transfers EXCEPT
             ![k] = [status |-> "PENDING_CONFIRMATION", old |-> v, lapsed |-> FALSE]]
    BY <2>1 DEF Request, Asks
  <2>3. v = Len(credentials) /\ Len(credentials) \in Nat
    BY <2>2, ActiveIsNewest, CredentialFacts DEF CInv
  <2> DEFINE row == [status |-> "PENDING_CONFIRMATION", old |-> v, lapsed |-> FALSE]
  <2>4. /\ row \in TransferRow /\ row.status = "PENDING_CONFIRMATION" /\ row.old = v
    BY <2>3 DEF TransferRow
  <2> HIDE DEF row
  <2>5. /\ transfers' \in [Keys -> TransferRow]
        /\ \A j \in Keys : transfers'[j] = IF j = k THEN row ELSE transfers[j]
    BY <1>4, <2>2, <2>4 DEF row
  <2>6. CardRows'
    BY <1>1, <1>4, <2>2, <2>3, <2>4, <2>5 DEF CInv, CardRows
  <2>7. Pending' = {k}
    BY <2>2, <2>4, <2>5 DEF CInv, PendingIsCurrent, Pending
  <2>8. Completed' = Completed
    BY <2>2, <2>4, <2>5 DEF Completed, Pending
  <2>9. PendingIsCurrent'
    BY <1>1, <2>3, <2>4, <2>5, <2>7 DEF PendingIsCurrent
  <2> QED BY <2>6, <2>8, <2>9
<1>7. CASE TransferLapses(k) \/ ResendWrites(k)
  <2>1. PICK lapsed \in BOOLEAN : transfers' = [transfers EXCEPT ![k].lapsed = lapsed]
    BY <1>7 DEF TransferLapses, ResendWrites
  <2> DEFINE row == [transfers[k] EXCEPT !.lapsed = lapsed]
  <2>2. row \in TransferRow /\ row.status = transfers[k].status /\ row.old = transfers[k].old
    BY <1>4 DEF TransferRow
  <2>3. transfers' = [transfers EXCEPT ![k] = row]
    BY <2>1
  <2> HIDE DEF row
  <2>4. /\ transfers' \in [Keys -> TransferRow]
        /\ \A j \in Keys : /\ transfers'[j].status = transfers[j].status
                           /\ transfers'[j].old = transfers[j].old
    BY <1>4, <2>2, <2>3
  <2>5. resending' \subseteq Keys
    BY <1>4, <1>7 DEF TransferLapses, ResendWrites
  <2>6. Completed' = Completed /\ Pending' = Pending
    BY <2>4 DEF Completed, Pending
  <2> QED BY <1>1, <1>4, <2>4, <2>5, <2>6 DEF CInv, CardRows, PendingIsCurrent, Pending
<1>8. CASE ResendReads(k)
  BY <1>1, <1>4, <1>8 DEF ResendReads, CInv, CardRows, PendingIsCurrent, Completed, Pending
<1> QED BY <1>6, <1>7, <1>8

(* A confirmation adds a credential and a session.                          *)
LEMMA ConfirmStep ==
  ASSUME CInv, NEW k \in Keys, Confirm(k)
  PROVE  CInv'
<1>1. PICK n : n = Len(credentials)
  OBVIOUS
<1>2. PICK m : m = Len(sessions)
  OBVIOUS
<1>3. /\ n \in Nat \ {0} /\ DOMAIN credentials = 1..n /\ credentials \in Seq(CredentialRow)
      /\ m \in Nat /\ DOMAIN sessions = 1..m /\ sessions \in Seq(SessionRow)
      /\ Versions = 1..n /\ Live \subseteq 1..m
  BY <1>1, <1>2, CredentialFacts, SessionFacts DEF CInv, CardRows, SessionRows
<1>4. /\ k \in Pending /\ transfers[k].old = n /\ Pending = {k}
      /\ card.status = "ACTIVE" /\ card.open
      /\ UNCHANGED <<card, resending, rotation, erasing>>
      /\ transfers' = [transfers EXCEPT ![k].status = "COMPLETED"]
  BY <1>1 DEF Confirm, Transferable, CInv, PendingIsCurrent
<1>5. /\ credentials' = Append([credentials EXCEPT ![n] = Credential("TRANSFERRED", n + 1)],
                               Credential("ACTIVE", 0))
      /\ sessions' = Append(sessions, Session(n + 1, 0))
  BY <1>1, <1>4 DEF Confirm, Rotates, Opens
<1>6. /\ Credential("ACTIVE", 0) \in CredentialRow
      /\ Credential("TRANSFERRED", n + 1) \in CredentialRow
      /\ Session(n + 1, 0) \in SessionRow
  BY <1>3 DEF Credential, CredentialRow, Session, SessionRow
<1>7. /\ credentials' \in Seq(CredentialRow) /\ Len(credentials') = n + 1
      /\ credentials'[n + 1] = Credential("ACTIVE", 0)
      /\ credentials'[n] = Credential("TRANSFERRED", n + 1)
      /\ \A v \in 1..n : v # n => credentials'[v] = credentials[v]
  BY <1>3, <1>5, <1>6
<1>8. /\ sessions' \in Seq(SessionRow) /\ Len(sessions') = m + 1
      /\ DOMAIN sessions' = 1..(m + 1)
      /\ sessions'[m + 1] = Session(n + 1, 0)
      /\ \A s \in 1..m : sessions'[s] = sessions[s]
  BY <1>3, <1>5, <1>6
<1>9. /\ sessions'[m + 1].status = "LIVE" /\ sessions'[m + 1].credential = n + 1
      /\ sessions'[m + 1].from = 0
  BY <1>8 DEF Session
<1>10. Live' = Live \cup {m + 1} /\ m + 1 \notin Live
  BY <1>3, <1>8, <1>9 DEF Live
<1> DEFINE row == [transfers[k] EXCEPT !.status = "COMPLETED"]
<1>11. row \in TransferRow /\ row.status = "COMPLETED" /\ row.old = n
  BY <1>4 DEF CInv, CardRows, TransferRow
<1>12. transfers' = [transfers EXCEPT ![k] = row]
  BY <1>4
<1> HIDE DEF row
<1>13. /\ transfers' \in [Keys -> TransferRow]
       /\ \A j \in Keys : transfers'[j] = IF j = k THEN row ELSE transfers[j]
  BY <1>11, <1>12 DEF CInv, CardRows
<1>14. /\ Completed' = Completed \cup {k} /\ k \notin Completed /\ Pending' = {}
  BY <1>4, <1>11, <1>13 DEF Completed, Pending
<1>15. CardRows'
  BY <1>1, <1>3, <1>4, <1>7, <1>11, <1>13 DEF CInv, CardRows
<1>16. SessionRows'
  <2>1. \A s \in 1..m : sessions'[s].credential \in 1..(n + 1) /\ sessions'[s].from \in 0..(m + 1)
    BY <1>1, <1>2, <1>3, <1>8, SMTT(30) DEF CInv, SessionRows
  <2>2. \A s \in 1..(m + 1) : sessions'[s].credential \in 1..(n + 1) /\ sessions'[s].from \in 0..(m + 1)
    BY <1>3, <1>9, <2>1
  <2>3. \A c \in Clients : rotation[c].session \in 0..(m + 1)
    BY <1>2, <1>3 DEF CInv, SessionRows
  <2>4. erasing \in [open : BOOLEAN, seen : SUBSET (1..(m + 1))]
    <3>1. /\ erasing \in [open : BOOLEAN, seen : SUBSET (1..m)]
          /\ SUBSET (1..m) \subseteq SUBSET (1..(m + 1))
      BY <1>3 DEF CInv, SessionRows
    <3> QED BY <3>1
  <2> QED BY <1>4, <1>7, <1>8, <2>2, <2>3, <2>4 DEF CInv, SessionRows
<1>17. WritersHold'
  BY <1>4, <1>10 DEF CInv, WritersHold
<1>18. Successions'
  <2>1. \A s \in 1..m : sessions[s].from \in 0..m
    BY <1>2, <1>3 DEF CInv, SessionRows
  <2>2. \A s, t \in 1..(m + 1) : sessions'[t].from = s =>
          s \in 1..m /\ t \in 1..m /\ sessions[t].from = s
    BY <1>3, <1>8, <1>9, <2>1
  <2>3. \A s, t \in 1..m : sessions[t].from = s =>
          s \notin Live /\ \A u \in 1..m : sessions[u].from = s => u = t
    BY <1>3 DEF CInv, Successions
  <2>4. \A s, t \in 1..(m + 1) : sessions'[t].from = s =>
          s \notin Live' /\ \A u \in 1..(m + 1) : sessions'[u].from = s => u = t
    BY <1>3, <1>10, <2>2, <2>3
  <2> QED BY <1>8, <2>4 DEF Successions
<1>19. Counts'
  <2>1. IsFiniteSet(Completed) /\ IsFiniteSet(Live)
    BY DEF CInv, Counts
  <2>2. /\ IsFiniteSet(Completed') /\ Cardinality(Completed') = Cardinality(Completed) + 1
        /\ IsFiniteSet(Live') /\ Cardinality(Live') = Cardinality(Live) + 1
    BY <1>10, <1>14, <2>1, FS_AddElement
  <2>3. Cardinality(Completed) \in Nat /\ Cardinality(Live) \in Nat
    BY <2>1, FS_CardinalityType
  <2> QED BY <1>1, <1>3, <1>7, <2>2, <2>3 DEF CInv, Counts
<1>20. Chain'
  <2>1. \A v \in 1..n : v < n => credentials[v] = Credential("TRANSFERRED", v + 1)
    BY <1>1, <1>3 DEF CInv, Chain
  <2>2. Versions' = 1..(n + 1)
    BY <1>7 DEF Versions
  <2>3. \A v \in 1..(n + 1) : v < n + 1 => credentials'[v] = Credential("TRANSFERRED", v + 1)
    BY <1>3, <1>7, <2>1
  <2> QED BY <1>4, <1>7, <2>2, <2>3 DEF Chain
<1>21. PendingIsCurrent' /\ EndedIsRevoked' /\ RevokedStaysOut'
  BY <1>4, <1>14 DEF CInv, PendingIsCurrent, EndedIsRevoked, RevokedStaysOut
<1> QED BY <1>15, <1>16, <1>17, <1>18, <1>19, <1>20, <1>21 DEF CInv

(* A session ends alone.                                                    *)
LEMMA SessionEndStep ==
  ASSUME CInv, NEW s \in DOMAIN sessions, SessionLapses(s) \/ Logout(s)
  PROVE  CInv'
<1>1. /\ UNCHANGED <<card, credentials, transfers, resending, rotation, erasing>>
      /\ s \in Live \ Written
      /\ \E st \in {"LAPSED", "REVOKED"} : sessions' = Ends({s}, st)
  BY DEF SessionLapses, Logout
<1>2. PICK st \in {"LAPSED", "REVOKED"} : sessions' = Ends({s}, st)
  BY <1>1
<1>3. Completed' = Completed /\ Pending' = Pending /\ Versions' = Versions
  BY <1>1 DEF Completed, Pending, Versions
<1>4. erasing \in [open : BOOLEAN, seen : SUBSET DOMAIN sessions]
  BY DEF CInv, SessionRows
<1>5. SessionRows' /\ WritersHold' /\ Successions' /\ Counts' /\ Live' = Live \ {s}
  BY <1>1, <1>2, <1>3, <1>4, SessionsEnd
<1>6. CardRows' /\ Chain' /\ EndedIsRevoked'
  BY <1>1, <1>3 DEF CInv, CardRows, Chain, EndedIsRevoked
<1>7. PendingIsCurrent' /\ RevokedStaysOut'
  BY <1>1, <1>3, <1>5 DEF CInv, PendingIsCurrent, RevokedStaysOut
<1> QED BY <1>5, <1>6, <1>7 DEF CInv

(* A rotation begins, takes its session or gives up.                        *)
LEMMA RotationStep ==
  ASSUME CInv, NEW c \in Clients,
         \/ \E s \in DOMAIN sessions : RotateReads(c, s)
         \/ RotateWrites(c) \/ RotateFails(c)
  PROVE  CInv'
<1>1. UNCHANGED <<card, credentials, sessions, transfers, resending, erasing>>
  BY DEF RotateReads, RotateWrites, RotateFails
<1>2. Completed' = Completed /\ Pending' = Pending /\ Versions' = Versions /\ Live' = Live
  BY <1>1 DEF Completed, Pending, Versions, Live
<1>3. /\ CardRows' /\ Successions' /\ Counts' /\ Chain' /\ PendingIsCurrent'
      /\ EndedIsRevoked' /\ RevokedStaysOut'
  BY <1>1, <1>2 DEF CInv, CardRows, Successions, Counts, Chain, PendingIsCurrent,
     EndedIsRevoked, RevokedStaysOut
<1>4. rotation \in [Clients -> RotationRow]
  BY DEF CInv, SessionRows
<1>5. PICK row \in RotationRow :
        /\ rotation' = [rotation EXCEPT ![c] = row]
        /\ row.session \in 0..Len(sessions)
        /\ row.at = "written" => row.session \in Live \ Written
  <2>1. CASE \E s \in DOMAIN sessions : RotateReads(c, s)
    <3>1. PICK s \in DOMAIN sessions : RotateReads(c, s)
      BY <2>1
    <3> DEFINE row == [at |-> "read", session |-> s]
    <3>2. s \in Nat /\ s \in 0..Len(sessions)
      BY SessionFacts DEF CInv
    <3>3. row \in RotationRow /\ row.at = "read" /\ row.session = s
      BY <3>2 DEF RotationRow
    <3>4. rotation' = [rotation EXCEPT ![c] = row]
      BY <3>1 DEF RotateReads
    <3> HIDE DEF row
    <3> QED BY <3>2, <3>3, <3>4
  <2>2. CASE RotateWrites(c)
    <3> DEFINE row == [rotation[c] EXCEPT !.at = "written"]
    <3>1. row \in RotationRow /\ row.session = rotation[c].session
      BY <1>4 DEF RotationRow
    <3>2. rotation' = [rotation EXCEPT ![c] = row]
      BY <2>2 DEF RotateWrites
    <3>3. rotation[c].session \in 0..Len(sessions) /\ rotation[c].session \in Live \ Written
      BY <2>2 DEF RotateWrites, CInv, SessionRows
    <3> HIDE DEF row
    <3> QED BY <3>1, <3>2, <3>3
  <2>3. CASE RotateFails(c)
    <3>1. rotation' = [rotation EXCEPT ![c] = NoRotation]
      BY <2>3 DEF RotateFails
    <3>2. NoRotation \in RotationRow /\ NoRotation.at = "idle" /\ NoRotation.session = 0
      BY DEF NoRotation, RotationRow
    <3>3. 0 \in 0..Len(sessions)
      BY SessionFacts DEF CInv
    <3> QED BY <3>1, <3>2, <3>3
  <2> QED BY <2>1, <2>2, <2>3
<1>6. /\ rotation' \in [Clients -> RotationRow]
      /\ \A d \in Clients : rotation'[d] = IF d = c THEN row ELSE rotation[d]
  BY <1>4, <1>5
<1>7. SessionRows'
  BY <1>1, <1>5, <1>6 DEF CInv, SessionRows
<1>8. WritersHold'
  <2>1. \A d \in Clients : rotation[d].at = "written" => rotation[d].session \in Written
    BY DEF Written
  <2> QED BY <1>2, <1>5, <1>6, <2>1 DEF CInv, WritersHold
<1> QED BY <1>3, <1>7, <1>8 DEF CInv

(* A rotation commits: its session ends and gets its successor.             *)
LEMMA RotateCommitsStep ==
  ASSUME CInv, NEW c \in Clients, RotateCommits(c)
  PROVE  CInv'
<1>1. PICK s : s = rotation[c].session
  OBVIOUS
<1>2. PICK m : m = Len(sessions)
  OBVIOUS
<1>3. PICK cred : cred = sessions[s].credential
  OBVIOUS
<1>4. /\ m \in Nat /\ DOMAIN sessions = 1..m /\ sessions \in Seq(SessionRow)
      /\ Live \subseteq 1..m /\ s \in Live /\ s \in 1..m
      /\ \A t \in 1..m : sessions[t] \in SessionRow
  BY <1>1, <1>2, SessionFacts DEF RotateCommits, CInv, SessionRows, WritersHold
<1>5. /\ sessions' = Append(Ends({s}, "REVOKED"), Session(cred, s))
      /\ rotation' = [rotation EXCEPT ![c] = NoRotation]
      /\ rotation[c].at = "written"
      /\ UNCHANGED <<card, credentials, transfers, resending, erasing>>
  BY <1>1, <1>3 DEF RotateCommits
<1>6. Completed' = Completed /\ Pending' = Pending /\ Versions' = Versions
  BY <1>5 DEF Completed, Pending, Versions
<1>7. cred \in 1..Len(credentials) /\ cred \in Nat
  BY <1>3, <1>4, CredentialFacts, SMTT(30) DEF CInv, SessionRows
<1>8. /\ Session(cred, s) \in SessionRow /\ Session(cred, s).status = "LIVE"
      /\ Session(cred, s).credential = cred /\ Session(cred, s).from = s
  BY <1>4, <1>7 DEF Session, SessionRow
<1>9. PICK old : old = Ends({s}, "REVOKED")
  OBVIOUS
<1>10. /\ old \in Seq(SessionRow) /\ Len(old) = m /\ DOMAIN old = 1..m
       /\ \A t \in 1..m :
             /\ old[t].credential = sessions[t].credential
             /\ old[t].from = sessions[t].from
             /\ old[t].status = "LIVE" <=> t \in Live \ {s}
  BY <1>2, <1>4, <1>9, EndedRows
<1>11. /\ sessions' \in Seq(SessionRow) /\ Len(sessions') = m + 1
       /\ DOMAIN sessions' = 1..(m + 1)
       /\ sessions'[m + 1] = Session(cred, s)
       /\ \A t \in 1..m : sessions'[t] = old[t]
  <2>1. sessions' = Append(old, Session(cred, s))
    BY <1>5, <1>9
  <2>2. old \in Seq(SessionRow) /\ Len(old) = m /\ m \in Nat
    BY <1>4, <1>10
  <2> QED BY <1>8, <2>1, <2>2
<1>12. Live' = (Live \ {s}) \cup {m + 1} /\ m + 1 \notin Live
  BY <1>4, <1>8, <1>10, <1>11, SMTT(30) DEF Live
<1>13. rotation \in [Clients -> RotationRow]
  BY DEF CInv, SessionRows
<1>14. /\ NoRotation \in RotationRow /\ NoRotation.at = "idle" /\ NoRotation.session = 0
  BY DEF NoRotation, RotationRow
<1>15. /\ rotation' \in [Clients -> RotationRow]
       /\ \A d \in Clients : rotation'[d] = IF d = c THEN NoRotation ELSE rotation[d]
  BY <1>5, <1>13, <1>14
<1>16. CardRows' /\ Chain' /\ EndedIsRevoked' /\ PendingIsCurrent'
  BY <1>5, <1>6 DEF CInv, CardRows, Chain, EndedIsRevoked, PendingIsCurrent
<1>17. SessionRows'
  <2>1. \A t \in 1..m :
          sessions[t].credential \in 1..Len(credentials) /\ sessions[t].from \in 0..m
    BY <1>2, <1>4 DEF CInv, SessionRows
  <2>2. \A t \in 1..(m + 1) :
          sessions'[t].credential \in 1..Len(credentials) /\ sessions'[t].from \in 0..(m + 1)
    <3>1. \A t \in 1..m :
            sessions'[t].credential \in 1..Len(credentials) /\ sessions'[t].from \in 0..(m + 1)
      <4>1. \A t \in 1..m : /\ sessions'[t].credential = sessions[t].credential
                            /\ sessions'[t].from = sessions[t].from
        BY <1>10, <1>11
      <4>2. \A x \in 0..m : x \in 0..(m + 1)
        BY <1>4
      <4> QED BY <2>1, <4>1, <4>2
    <3>2. /\ sessions'[m + 1].credential \in 1..Len(credentials)
          /\ sessions'[m + 1].from \in 0..(m + 1)
      BY <1>4, <1>7, <1>8, <1>11
    <3>3. \A t \in 1..(m + 1) : t \in 1..m \/ t = m + 1
      BY <1>4
    <3> QED BY <3>1, <3>2, <3>3
  <2>3. \A d \in Clients : rotation'[d].session \in 0..(m + 1)
    BY <1>2, <1>4, <1>14, <1>15 DEF CInv, SessionRows
  <2>4. erasing \in [open : BOOLEAN, seen : SUBSET (1..(m + 1))]
    <3>1. /\ erasing \in [open : BOOLEAN, seen : SUBSET (1..m)]
          /\ SUBSET (1..m) \subseteq SUBSET (1..(m + 1))
      BY <1>4 DEF CInv, SessionRows
    <3> QED BY <3>1
  <2> QED BY <1>5, <1>11, <1>15, <2>2, <2>3, <2>4 DEF SessionRows
<1>18. WritersHold'
  <2>1. \A d \in Clients : d # c /\ rotation[d].at = "written" => rotation[d].session \in Live \ {s}
    BY <1>1, <1>5 DEF CInv, WritersHold
  <2> QED BY <1>12, <1>14, <1>15, <2>1 DEF CInv, WritersHold
<1>19. Successions'
  <2>1. \A t \in 1..m : sessions[t].from \in 0..m /\ sessions[t].from # s
    BY <1>2, <1>4 DEF CInv, SessionRows, Successions
  <2>2. \A t \in 1..m : sessions'[t].from = sessions[t].from
    BY <1>10, <1>11
  <2>3. \A r, t \in 1..m : sessions[t].from = r =>
          r \notin Live /\ \A u \in 1..m : sessions[u].from = r => u = t
    BY <1>4 DEF CInv, Successions
  <2>4. \A r, t \in 1..(m + 1) : sessions'[t].from = r =>
          \/ t = m + 1 /\ r = s
          \/ t \in 1..m /\ r \in 1..m /\ r # s /\ sessions[t].from = r
    BY <1>4, <1>8, <1>11, <2>1, <2>2
  <2>5. \A r, t \in 1..(m + 1) : sessions'[t].from = r =>
          r \notin Live' /\ \A u \in 1..(m + 1) : sessions'[u].from = r => u = t
    BY <1>4, <1>12, <2>3, <2>4
  <2> QED BY <1>11, <2>5 DEF Successions
<1>20. Counts'
  <2>1. IsFiniteSet(Live) /\ s \in Live
    BY <1>4 DEF CInv, Counts
  <2>2. IsFiniteSet(Live \ {s}) /\ Cardinality(Live \ {s}) = Cardinality(Live) - 1
    BY <2>1, FS_RemoveElement
  <2>3. IsFiniteSet(Live') /\ Cardinality(Live') = Cardinality(Live \ {s}) + 1
    BY <1>12, <2>2, FS_AddElement
  <2>4. Cardinality(Live) \in Nat
    BY <2>1, FS_CardinalityType
  <2>5. Cardinality(Live') = Cardinality(Live)
    BY <2>2, <2>3, <2>4
  <2> QED BY <1>5, <1>6, <2>3, <2>5 DEF CInv, Counts
<1>21. RevokedStaysOut'
  BY <1>4, <1>5 DEF CInv, RevokedStaysOut
<1> QED BY <1>16, <1>17, <1>18, <1>19, <1>20, <1>21 DEF CInv

(* Suspension and restoration leave the newest credential active.           *)
LEMMA StandingStep == CInv /\ (Suspend \/ Restore) => CInv'
<1> SUFFICES ASSUME CInv, Suspend \/ Restore PROVE CInv'
  OBVIOUS
<1>1. /\ UNCHANGED <<credentials, sessions, transfers, resending, rotation, erasing>>
      /\ card.status # "REVOKED"
  BY DEF Suspend, Restore
<1>2. PICK status \in {"ACTIVE", "SUSPENDED"} : card' = [card EXCEPT !.status = status]
  BY DEF Suspend, Restore
<1>3. /\ card' \in [status : {"ACTIVE", "SUSPENDED", "REVOKED"}, open : BOOLEAN,
                    endedBy : {"NOBODY", "STAFF", "ERASURE"}]
      /\ card'.status # "REVOKED" /\ card'.open = card.open /\ card'.endedBy = card.endedBy
  BY <1>2 DEF CInv, CardRows
<1>4. Completed' = Completed /\ Pending' = Pending /\ Versions' = Versions /\ Live' = Live
  BY <1>1 DEF Completed, Pending, Versions, Live
<1>5. CardRows' /\ Chain'
  BY <1>1, <1>3, <1>4 DEF CInv, CardRows, Chain
<1>6. SessionRows' /\ WritersHold' /\ Successions' /\ Counts' /\ PendingIsCurrent'
  BY <1>1, <1>4 DEF CInv, SessionRows, WritersHold, Successions, Counts, PendingIsCurrent
<1>7. EndedIsRevoked' /\ RevokedStaysOut'
  BY <1>1, <1>3, <1>4 DEF CInv, EndedIsRevoked, RevokedStaysOut
<1> QED BY <1>5, <1>6, <1>7 DEF CInv

(* What a revocation leaves of the credentials.                             *)
LEMMA RetiredChain ==
  ASSUME CInv, credentials' = Retired, card'.status = "REVOKED"
  PROVE  /\ credentials' \in Seq(CredentialRow) /\ Len(credentials') = Len(credentials)
         /\ Chain'
<1>1. PICK n : n = Len(credentials)
  OBVIOUS
<1>2. /\ n \in Nat \ {0} /\ DOMAIN credentials = 1..n /\ Versions = 1..n
      /\ \A v \in 1..n : credentials[v] \in CredentialRow
      /\ credentials \in Seq(CredentialRow)
  BY <1>1, CredentialFacts DEF CInv, CardRows
<1>3. Credential("REVOKED", 0) \in CredentialRow
  BY DEF Credential, CredentialRow
<1>4. credentials' \in [DOMAIN credentials -> CredentialRow]
  BY <1>2, <1>3 DEF Retired
<1>5. credentials' \in Seq(CredentialRow) /\ Len(credentials') = n
  BY <1>1, <1>2, <1>4, FunctionIsSeq
<1>6. \A v \in 1..n : credentials'[v] = IF credentials[v].status = "ACTIVE"
                                       THEN Credential("REVOKED", 0) ELSE credentials[v]
  BY <1>2 DEF Retired
<1>7. \A v \in 1..n : v < n => credentials'[v] = Credential("TRANSFERRED", v + 1)
  <2>1. \A v \in 1..n : v < n => credentials[v] = Credential("TRANSFERRED", v + 1)
    BY <1>1, <1>2 DEF CInv, Chain
  <2>2. \A v \in 1..n : v < n => credentials[v].status # "ACTIVE"
    BY <2>1, CredentialIs
  <2> QED BY <1>6, <2>1, <2>2
<1>8. credentials'[n] = Credential("REVOKED", 0)
  <2>1. credentials[n] \in {Credential("REVOKED", 0), Credential("ACTIVE", 0)}
    BY <1>1 DEF CInv, Chain
  <2> QED BY <1>2, <1>6, <2>1, CredentialIs
<1> QED BY <1>1, <1>2, <1>5, <1>7, <1>8 DEF Chain, Versions

(* Revocation, closing and the commit of an erasure end sessions that no    *)
(* open rotation has written, and the card or its credentials with them.    *)
LEMMA EndStep ==
  ASSUME CInv, Revoke \/ CloseOrganization \/ EraseCommits
  PROVE  CInv'
<1>1. UNCHANGED <<transfers, resending, rotation>>
  BY DEF Revoke, CloseOrganization, EraseCommits
<1>2. PICK E \in SUBSET Live :
        /\ sessions' = Ends(E, "REVOKED") /\ E \cap Written = {}
        /\ Revoke \/ CloseOrganization => E = Live
  <2>1. CASE Revoke \/ CloseOrganization
    BY <2>1 DEF Revoke, CloseOrganization
  <2>2. CASE EraseCommits
    <3>1. /\ Ends(erasing.seen, "REVOKED") = Ends(erasing.seen \cap Live, "REVOKED")
          /\ sessions' = Ends(erasing.seen, "REVOKED")
          /\ erasing.seen \cap Written = {}
      BY <2>2 DEF EraseCommits, Ends, Live
    <3>2. CASE ~ (Revoke \/ CloseOrganization)
      BY <3>1, <3>2
    <3>3. CASE Revoke \/ CloseOrganization
      BY <2>1, <3>3
    <3> QED BY <3>2, <3>3
  <2> QED BY <2>1, <2>2
<1>3. erasing' \in [open : BOOLEAN, seen : SUBSET DOMAIN sessions]
  <2>1. erasing \in [open : BOOLEAN, seen : SUBSET DOMAIN sessions]
    BY DEF CInv, SessionRows
  <2>2. NoErasure \in [open : BOOLEAN, seen : SUBSET DOMAIN sessions]
    BY DEF NoErasure
  <2>3. erasing' \in {erasing, NoErasure}
    BY DEF Revoke, CloseOrganization, EraseCommits
  <2> QED BY <2>1, <2>2, <2>3
<1>4. Completed' = Completed /\ Pending' = Pending
  BY <1>1 DEF Completed, Pending
<1>5. /\ card' \in [status : {"ACTIVE", "SUSPENDED", "REVOKED"}, open : BOOLEAN,
                    endedBy : {"NOBODY", "STAFF", "ERASURE"}]
      /\ \/ /\ credentials' = Retired /\ card'.status = "REVOKED" /\ card'.open = card.open
            /\ \/ card'.endedBy = "ERASURE"
               \/ E = Live
         \/ /\ credentials' = credentials /\ card'.status = card.status
            /\ card'.endedBy = card.endedBy /\ E = Live
  <2>1. card \in [status : {"ACTIVE", "SUSPENDED", "REVOKED"}, open : BOOLEAN,
                 endedBy : {"NOBODY", "STAFF", "ERASURE"}]
    BY DEF CInv, CardRows
  <2>2. CASE Revoke
    <3>1. E = Live
      BY <1>2, <2>2
    <3> QED BY <2>1, <2>2, <3>1 DEF Revoke
  <2>3. CASE CloseOrganization
    BY <1>2, <2>1, <2>3 DEF CloseOrganization
  <2>4. CASE EraseCommits
    BY <2>1, <2>4 DEF EraseCommits
  <2> QED BY <2>2, <2>3, <2>4
<1>6. /\ credentials' \in Seq(CredentialRow) /\ Len(credentials') = Len(credentials)
      /\ Chain'
  <2>1. CASE credentials' = Retired /\ card'.status = "REVOKED"
    BY <2>1, RetiredChain
  <2>2. CASE credentials' = credentials /\ card'.status = card.status
    BY <2>2 DEF CInv, CardRows, Chain, Versions
  <2> QED BY <1>5, <2>1, <2>2
<1>7. SessionRows' /\ WritersHold' /\ Successions' /\ Counts' /\ Live' = Live \ E
  <2>1. /\ rotation' = rotation /\ Len(credentials') = Len(credentials)
        /\ Completed' = Completed /\ "REVOKED" \in {"LAPSED", "REVOKED"}
        /\ sessions' = Ends(E, "REVOKED") /\ E \cap Written = {}
    BY <1>1, <1>2, <1>4, <1>6
  <2> QED BY <1>3, <2>1, SessionsEnd
<1>8. CardRows' /\ PendingIsCurrent'
  BY <1>1, <1>4, <1>5, <1>6 DEF CInv, CardRows, PendingIsCurrent
<1>9. EndedIsRevoked' /\ RevokedStaysOut'
  BY <1>5, <1>7 DEF CInv, EndedIsRevoked, RevokedStaysOut
<1> QED BY <1>6, <1>7, <1>8, <1>9 DEF CInv

(* An erasure takes the sessions it sees, or is given up.                   *)
LEMMA ErasureStep == CInv /\ (EraseSees \/ EraseFails) => CInv'
<1> SUFFICES ASSUME CInv, EraseSees \/ EraseFails PROVE CInv'
  OBVIOUS
<1>1. UNCHANGED <<card, credentials, sessions, transfers, resending, rotation>>
  BY DEF EraseSees, EraseFails
<1>2. erasing' \in [open : BOOLEAN, seen : SUBSET DOMAIN sessions]
  <2>1. [open |-> TRUE, seen |-> Live] \in [open : BOOLEAN, seen : SUBSET DOMAIN sessions]
    BY DEF Live
  <2>2. NoErasure \in [open : BOOLEAN, seen : SUBSET DOMAIN sessions]
    BY DEF NoErasure
  <2>3. erasing' \in {[open |-> TRUE, seen |-> Live], NoErasure}
    BY DEF EraseSees, EraseFails
  <2> QED BY <2>1, <2>2, <2>3
<1>3. Completed' = Completed /\ Pending' = Pending /\ Versions' = Versions /\ Live' = Live
  BY <1>1 DEF Completed, Pending, Versions, Live
<1>4. CardRows' /\ Chain' /\ EndedIsRevoked' /\ PendingIsCurrent' /\ RevokedStaysOut'
  BY <1>1, <1>3 DEF CInv, CardRows, Chain, EndedIsRevoked, PendingIsCurrent, RevokedStaysOut
<1>5. SessionRows' /\ WritersHold' /\ Successions' /\ Counts'
  BY <1>1, <1>2, <1>3 DEF CInv, SessionRows, WritersHold, Successions, Counts
<1> QED BY <1>4, <1>5 DEF CInv

LEMMA StepCInv == CInv /\ [Next]_vars => CInv'
<1> SUFFICES ASSUME CInv, [Next]_vars PROVE CInv'
  OBVIOUS
<1>1. ASSUME NEW k \in Keys,
             \/ \E v \in Versions : Request(k, v)
             \/ TransferLapses(k) \/ ResendReads(k) \/ ResendWrites(k)
      PROVE  CInv'
  BY <1>1, TransferStep
<1>2. ASSUME NEW k \in Keys, Confirm(k) PROVE CInv'
  BY <1>2, ConfirmStep
<1>3. ASSUME NEW s \in DOMAIN sessions, SessionLapses(s) \/ Logout(s) PROVE CInv'
  BY <1>3, SessionEndStep
<1>4. ASSUME NEW c \in Clients,
             \/ \E s \in DOMAIN sessions : RotateReads(c, s)
             \/ RotateWrites(c) \/ RotateFails(c)
      PROVE  CInv'
  BY <1>4, RotationStep
<1>5. ASSUME NEW c \in Clients, RotateCommits(c) PROVE CInv'
  BY <1>5, RotateCommitsStep
<1>6. ASSUME Suspend \/ Restore PROVE CInv'
  BY <1>6, StandingStep
<1>7. ASSUME Revoke \/ CloseOrganization \/ EraseCommits PROVE CInv'
  BY <1>7, EndStep
<1>8. ASSUME EraseSees \/ EraseFails PROVE CInv'
  BY <1>8, ErasureStep
<1>9. ASSUME UNCHANGED vars PROVE CInv'
  <2> USE <1>9 DEF vars
  <2>1. Completed' = Completed /\ Pending' = Pending /\ Versions' = Versions /\ Live' = Live
    BY DEF Completed, Pending, Versions, Live
  <2>2. CardRows' /\ Chain' /\ EndedIsRevoked' /\ PendingIsCurrent' /\ RevokedStaysOut'
    BY <2>1 DEF CInv, CardRows, Chain, EndedIsRevoked, PendingIsCurrent, RevokedStaysOut
  <2>3. SessionRows' /\ WritersHold' /\ Successions' /\ Counts'
    BY <2>1 DEF CInv, SessionRows, WritersHold, Successions, Counts
  <2> QED BY <2>2, <2>3 DEF CInv
<1> QED BY <1>1, <1>2, <1>3, <1>4, <1>5, <1>6, <1>7, <1>8, <1>9 DEF Next

-----------------------------------------------------------------------------
(* The theorems.                                                            *)

(* In every reachable state the credentials are one chain, a rotation that  *)
(* has written holds its live session alone, a session has one successor,   *)
(* and completed transfers bound the live sessions.                         *)
THEOREM CustodyInvariant == Spec => []CInv
<1> QED BY InitCInv, StepCInv, PTL DEF Spec

(* The rows have their types, and their columns name rows that exist.       *)
THEOREM CustodyTypes == Spec => []TypeOK
<1>1. CInv => TypeOK
  <2> SUFFICES ASSUME CInv PROVE TypeOK
    OBVIOUS
  <2>1. PICK n : n = Len(credentials)
    OBVIOUS
  <2>2. PICK m : m = Len(sessions)
    OBVIOUS
  <2>3. /\ n \in Nat \ {0} /\ DOMAIN credentials = 1..n /\ Versions = 1..n
        /\ credentials \in Seq(CredentialRow)
        /\ m \in Nat /\ DOMAIN sessions = 1..m /\ sessions \in Seq(SessionRow)
        /\ \A s \in 1..m : sessions[s] \in SessionRow
    BY <2>1, <2>2, CredentialFacts, SessionFacts DEF CInv, CardRows, SessionRows
  <2> DEFINE C == [status : {"ACTIVE", "TRANSFERRED", "REVOKED"}, replacedBy : 0..n]
             S == [status : {"LIVE", "LAPSED", "REVOKED"}, credential : 1..n, from : 0..m]
  <2>4. credentials \in Seq(C)
    <3>1. \A v \in 1..n : credentials[v] \in C
      <4>1. \A st \in {"ACTIVE", "TRANSFERRED", "REVOKED"}, r \in 0..n : Credential(st, r) \in C
        BY DEF Credential
      <4>2. \A v \in 1..n : v < n => credentials[v] = Credential("TRANSFERRED", v + 1) /\ v + 1 \in 0..n
        BY <2>1, <2>3 DEF CInv, Chain
      <4>3. credentials[n] \in {Credential("REVOKED", 0), Credential("ACTIVE", 0)} /\ 0 \in 0..n
        BY <2>1, <2>3 DEF CInv, Chain
      <4> HIDE DEF C
      <4>4. \A v \in 1..n : v < n \/ v = n
        BY <2>3
      <4> QED BY <4>1, <4>2, <4>3, <4>4
    <3> HIDE DEF C
    <3>2. credentials \in [1..n -> CredentialRow]
      BY <2>1, <2>3, LenProperties
    <3>3. credentials \in [1..n -> C]
      BY <3>1, <3>2
    <3> QED BY <2>3, <3>3, SeqDef
  <2>5. sessions \in Seq(S)
    <3>1. \A s \in 1..m : sessions[s] \in S
      BY <2>1, <2>2, <2>3 DEF CInv, SessionRows, SessionRow
    <3> HIDE DEF S
    <3>2. sessions \in [1..m -> SessionRow]
      BY <2>2, <2>3, LenProperties
    <3>3. sessions \in [1..m -> S]
      BY <3>1, <3>2
    <3> QED BY <2>3, <3>3, SeqDef
  <2>6. transfers \in [Keys -> [status : {"NONE", "PENDING_CONFIRMATION", "COMPLETED"},
                               old : 0..n, lapsed : BOOLEAN]]
    BY <2>1 DEF CInv, CardRows, TransferRow
  <2>7. rotation \in [Clients -> [at : {"idle", "read", "written"}, session : 0..m]]
    BY <2>2 DEF CInv, SessionRows, RotationRow
  <2> QED BY <2>1, <2>2, <2>3, <2>4, <2>5, <2>6, <2>7
          DEF CInv, CardRows, SessionRows, TypeOK
<1> QED BY <1>1, CustodyInvariant, PTL

(* All credentials but the newest were transferred to the next, one for     *)
(* each completed transfer, and the newest is active until the card is      *)
(* revoked.                                                                 *)
THEOREM CredentialsFormAChain == Spec => []CredentialChain
<1>1. CInv => CredentialChain
  BY DEF CInv, Counts, Chain, CredentialChain
<1> QED BY <1>1, CustodyInvariant, PTL

(* At most one transfer is pending, and it is one of the newest credential. *)
THEOREM TransferIsOfNewest == Spec => []PendingIsCurrent
<1>1. CInv => PendingIsCurrent
  BY DEF CInv
<1> QED BY <1>1, CustodyInvariant, PTL

(* However many requests rotate a session at once, one gets a successor,    *)
(* and no more sessions are live than enrollment and transfers opened.      *)
THEOREM OneSuccessor == Spec => []RotationsDoNotFork
<1>1. CInv => RotationsDoNotFork
  BY DEF CInv, Successions, Counts, RotationsDoNotFork
<1> QED BY <1>1, CustodyInvariant, PTL

(* Once staff revoked the card, or the merchant closed, no session is live, *)
(* not even one that a rotation under way would have created.               *)
THEOREM RevocationIsFinal == Spec => []RevokedStaysOut
<1>1. CInv => RevokedStaysOut
  BY DEF CInv
<1> QED BY <1>1, CustodyInvariant, PTL

=============================================================================
