-------------------------- MODULE StaffAccess_proofs --------------------------
(***************************************************************************)
(* Proofs about the access of staff devices, for any number of people,     *)
(* installations, locations, pairings and sessions.  Most steps only take  *)
(* away: they end sessions, cancel pairings, revoke or narrow devices.     *)
(* The four that give (a new pairing, a claim, a completion, a refresh)    *)
(* are proved one by one; what has to be carried along is that a claim     *)
(* names no device row of its own person, so a completion never finds one. *)
(***************************************************************************)
EXTENDS StaffAccess, FiniteSetTheorems, SequenceTheorems, TLAPS

-----------------------------------------------------------------------------
(* The inductive invariant.                                                *)

IsOpen(i) == pairings[i].status \in Open

\* A person holds at most one way in.
OneWayIn ==
  /\ \A i, j \in DOMAIN pairings :
       IsOpen(i) /\ IsOpen(j) /\ pairings[i].person = pairings[j].person => i = j
  /\ \A s, t \in DOMAIN sessions :
       sessions[s].live /\ sessions[t].live /\ sessions[s].person = sessions[t].person => s = t
  /\ \A i \in DOMAIN pairings, s \in DOMAIN sessions :
       IsOpen(i) /\ sessions[s].live => pairings[i].person # sessions[s].person

\* The installation a claim names has no device row of the person that claims:
\* it had none at the claim, and the person completed no other one since.
ClaimIsFresh ==
  \A i \in DOMAIN pairings : pairings[i].status = "CLAIMED" =>
    /\ pairings[i].device \in Devices
    /\ pairings[i].device \in DOMAIN devices =>
         devices[pairings[i].device].person # pairings[i].person

\* A live session has its device row, and all that let its person in.
Backed ==
  \A s \in DOMAIN sessions : sessions[s].live =>
    /\ sessions[s].device \in DOMAIN devices
    /\ devices[sessions[s].device].status = "ACTIVE"
    /\ devices[sessions[s].device].person = sessions[s].person
    /\ IsActive(sessions[s].person)
    /\ assignments[sessions[s].person][sessions[s].location].active
    /\ sessions[s].location \in DOMAIN devices[sessions[s].device].allowed

SInv == RowsOK /\ OneWayIn /\ ClaimIsFresh /\ Backed /\ DeviceWithinAssignment

-----------------------------------------------------------------------------
(* Steps that only take away.                                               *)

PairingsKept ==
  /\ pairings' \in Seq(Pairing) /\ Len(pairings') = Len(pairings)
  /\ DOMAIN pairings' = DOMAIN pairings
  /\ \A i \in DOMAIN pairings :
       /\ pairings'[i].person = pairings[i].person
       /\ pairings'[i].device = pairings[i].device
       /\ pairings'[i].status \in Open => pairings'[i].status = pairings[i].status

SessionsKept ==
  /\ sessions' \in Seq(Session) /\ Len(sessions') = Len(sessions)
  /\ DOMAIN sessions' = DOMAIN sessions
  /\ \A s \in DOMAIN sessions :
       /\ sessions'[s].person = sessions[s].person
       /\ sessions'[s].device = sessions[s].device
       /\ sessions'[s].location = sessions[s].location
       /\ sessions'[s].live => sessions[s].live

DevicesKept ==
  /\ DOMAIN devices' = DOMAIN devices
  /\ \A d \in DOMAIN devices :
       /\ devices'[d] \in Device
       /\ devices'[d].person = devices[d].person
       /\ devices'[d].status = "ACTIVE" => devices[d].status = "ACTIVE"

\* No device that is out of use comes back in this step.
StayOut ==
  \A d \in DOMAIN devices : devices[d].status # "ACTIVE" => devices'[d].status # "ACTIVE"

LEMMA KeptStep ==
  ASSUME SInv, PairingsKept, SessionsKept, DevicesKept,
         standing' \in [People -> Standing],
         assignments' \in [People -> [Locations -> Assignment]],
         Backed', DeviceWithinAssignment'
  PROVE  SInv' /\ StayOut
<1>1. RowsOK'
  BY DEF SInv, RowsOK, PairingsKept, SessionsKept, DevicesKept
<1>2. OneWayIn'
  <2>1. \A i \in DOMAIN pairings' :
          /\ i \in DOMAIN pairings
          /\ pairings'[i].person = pairings[i].person
          /\ pairings'[i].status \in Open => pairings[i].status \in Open
    BY DEF PairingsKept
  <2>2. \A s \in DOMAIN sessions' :
          /\ s \in DOMAIN sessions
          /\ sessions'[s].person = sessions[s].person
          /\ sessions'[s].live => sessions[s].live
    BY DEF SessionsKept
  <2>3. \A i, j \in DOMAIN pairings' :
          IsOpen(i)' /\ IsOpen(j)' /\ pairings'[i].person = pairings'[j].person => i = j
    BY <2>1 DEF SInv, OneWayIn, IsOpen
  <2>4. \A s, t \in DOMAIN sessions' :
          sessions'[s].live /\ sessions'[t].live /\ sessions'[s].person = sessions'[t].person
            => s = t
    BY <2>2 DEF SInv, OneWayIn
  <2>5. \A i \in DOMAIN pairings', s \in DOMAIN sessions' :
          IsOpen(i)' /\ sessions'[s].live => pairings'[i].person # sessions'[s].person
    BY <2>1, <2>2 DEF SInv, OneWayIn, IsOpen
  <2> QED BY <2>3, <2>4, <2>5 DEF OneWayIn
<1>3. ClaimIsFresh'
  BY DEF SInv, ClaimIsFresh, PairingsKept, DevicesKept, Open
<1>4. StayOut
  BY DEF DevicesKept, StayOut
<1> QED BY <1>1, <1>2, <1>3, <1>4 DEF SInv

-----------------------------------------------------------------------------
(* Facts about the rows.                                                    *)

LEMMA RowFacts ==
  ASSUME SInv
  PROVE  /\ Len(pairings) \in Nat /\ DOMAIN pairings = 1..Len(pairings)
         /\ \A i \in DOMAIN pairings : pairings[i] \in Pairing
         /\ Len(sessions) \in Nat /\ DOMAIN sessions = 1..Len(sessions)
         /\ \A s \in DOMAIN sessions : sessions[s] \in Session
         /\ \A d \in DOMAIN devices : devices[d] \in Device /\ d \in Devices
         /\ standing \in [People -> Standing]
         /\ assignments \in [People -> [Locations -> Assignment]]
<1> QED BY LenProperties, ElementOfSeq DEF SInv, RowsOK

(* Sequences that are written as functions on the domain of another one.    *)
LEMMA FunctionIsSeq ==
  ASSUME NEW S, NEW T, NEW s \in Seq(S), NEW f \in [DOMAIN s -> T]
  PROVE  f \in Seq(T) /\ Len(f) = Len(s) /\ DOMAIN f = DOMAIN s
<1>1. Len(s) \in Nat /\ DOMAIN s = 1..Len(s)
  BY LenProperties
<1>2. f \in [1..Len(s) -> T]
  BY <1>1
<1>3. f \in Seq(T)
  BY <1>1, <1>2, SeqDef
<1>4. Len(f) \in Nat /\ DOMAIN f = 1..Len(f)
  BY <1>3, LenProperties
<1> QED BY <1>1, <1>2, <1>3, <1>4

(* The sessions of a set end.                                               *)
LEMMA SessionsEnd ==
  ASSUME SInv, NEW E, EndsSessions(E)
  PROVE  /\ SessionsKept
         /\ \A s \in DOMAIN sessions : sessions'[s].live => s \notin E
<1> DEFINE Row(s) == IF s \in E THEN [sessions[s] EXCEPT !.live = FALSE] ELSE sessions[s]
<1>1. \A s \in DOMAIN sessions :
        /\ Row(s) \in Session
        /\ Row(s).person = sessions[s].person /\ Row(s).device = sessions[s].device
        /\ Row(s).location = sessions[s].location
        /\ Row(s).live => sessions[s].live /\ s \notin E
  BY RowFacts DEF Session
<1>2. sessions' = [s \in DOMAIN sessions |-> Row(s)]
  BY DEF EndsSessions
<1> HIDE DEF Row
<1>3. sessions' \in [DOMAIN sessions -> Session]
  BY <1>1, <1>2
<1>4. /\ sessions' \in Seq(Session) /\ Len(sessions') = Len(sessions)
      /\ DOMAIN sessions' = DOMAIN sessions
  BY <1>3, FunctionIsSeq DEF SInv, RowsOK
<1> QED BY <1>1, <1>2, <1>4 DEF SessionsKept

(* The open pairings of a person, or of everybody, are canceled.            *)
CanceledIn(P) ==
  [i \in DOMAIN pairings |->
     IF pairings[i].person \in P /\ pairings[i].status \in Open
     THEN [pairings[i] EXCEPT !.status = "CANCELED"] ELSE pairings[i]]

LEMMA CanceledRows ==
  ASSUME SInv, NEW P
  PROVE  /\ CanceledIn(P) \in Seq(Pairing) /\ Len(CanceledIn(P)) = Len(pairings)
         /\ DOMAIN CanceledIn(P) = DOMAIN pairings
         /\ \A i \in DOMAIN pairings :
              /\ CanceledIn(P)[i].person = pairings[i].person
              /\ CanceledIn(P)[i].device = pairings[i].device
              /\ CanceledIn(P)[i].status \in Open =>
                   CanceledIn(P)[i].status = pairings[i].status
              /\ CanceledIn(P)[i].status \in Open => pairings[i].person \notin P
<1> DEFINE Row(i) == IF pairings[i].person \in P /\ pairings[i].status \in Open
                     THEN [pairings[i] EXCEPT !.status = "CANCELED"] ELSE pairings[i]
<1>1. \A i \in DOMAIN pairings :
        /\ Row(i) \in Pairing
        /\ Row(i).person = pairings[i].person /\ Row(i).device = pairings[i].device
        /\ Row(i).status \in Open =>
             Row(i).status = pairings[i].status /\ pairings[i].person \notin P
  BY RowFacts DEF Pairing, Open
<1>2. CanceledIn(P) = [i \in DOMAIN pairings |-> Row(i)]
  BY DEF CanceledIn
<1> HIDE DEF Row
<1>3. CanceledIn(P) \in [DOMAIN pairings -> Pairing]
  BY <1>1, <1>2
<1>4. /\ CanceledIn(P) \in Seq(Pairing) /\ Len(CanceledIn(P)) = Len(pairings)
      /\ DOMAIN CanceledIn(P) = DOMAIN pairings
  BY <1>3, FunctionIsSeq DEF SInv, RowsOK
<1> QED BY <1>1, <1>2, <1>4

LEMMA PairingsCanceled ==
  ASSUME SInv, NEW P, pairings' = CanceledIn(P)
  PROVE  PairingsKept
<1> QED BY CanceledRows DEF PairingsKept

LEMMA CanceledOf ==
  ASSUME SInv, NEW p
  PROVE  /\ Canceled(p) \in Seq(Pairing) /\ Len(Canceled(p)) = Len(pairings)
         /\ DOMAIN Canceled(p) = DOMAIN pairings
         /\ \A i \in DOMAIN pairings :
              /\ Canceled(p)[i].person = pairings[i].person
              /\ Canceled(p)[i].device = pairings[i].device
              /\ Canceled(p)[i].status \in Open => Canceled(p)[i].status = pairings[i].status
              /\ Canceled(p)[i].status \in Open => pairings[i].person # p
         /\ pairings' = Canceled(p) => PairingsKept
<1>1. Canceled(p) = CanceledIn({p})
  BY DEF Canceled, CanceledIn
<1> QED BY <1>1, CanceledRows DEF PairingsKept

(* What is left alone is kept.                                              *)
LEMMA Unchanged ==
  ASSUME SInv
  PROVE  /\ UNCHANGED pairings => PairingsKept
         /\ UNCHANGED sessions => SessionsKept
         /\ UNCHANGED devices => DevicesKept
<1> QED BY RowFacts DEF SInv, RowsOK, PairingsKept, SessionsKept, DevicesKept

LEMMA InitSInv == Init => SInv
<1> SUFFICES ASSUME Init PROVE SInv
  OBVIOUS
<1> USE StaffAssumption DEF Init
<1>1. /\ pairings = <<>> /\ DOMAIN pairings = {} /\ pairings \in Seq(Pairing) /\ Len(pairings) = 0
      /\ sessions = <<>> /\ DOMAIN sessions = {} /\ sessions \in Seq(Session) /\ Len(sessions) = 0
      /\ DOMAIN devices = {}
  OBVIOUS
<1>2. RowsOK
  BY <1>1 DEF RowsOK, Standing, Assignment
<1> QED BY <1>1, <1>2 DEF SInv, OneWayIn, ClaimIsFresh, Backed, DeviceWithinAssignment

(* What a grant is.                                                         *)
LEMMA GrantIs ==
  \A g :
    /\ g \in Grant => DOMAIN g \subseteq Locations /\ g \in [DOMAIN g -> SUBSET Capabilities]
    /\ DOMAIN g \subseteq Locations /\ g \in [DOMAIN g -> SUBSET Capabilities] => g \in Grant
<1> QED BY DEF Grant

(* What managers ask for is a grant.                                        *)
LEMMA RequestIsGrant == Requests \subseteq Grant
<1> SUFFICES ASSUME NEW S \in SUBSET Locations, NEW g \in [S -> Allowances] PROVE g \in Grant
  BY DEF Requests
<1>1. DOMAIN g = S /\ g \in [S -> SUBSET Capabilities]
  BY ManagersAssumption
<1> QED BY <1>1, GrantIs

LEMMA GrantNarrowed ==
  ASSUME NEW g \in Grant, NEW l \in DOMAIN g, NEW c \in SUBSET Capabilities
  PROVE  /\ [g EXCEPT ![l] = c] \in Grant /\ DOMAIN [g EXCEPT ![l] = c] = DOMAIN g
         /\ \A m \in DOMAIN g : [g EXCEPT ![l] = c][m] = IF m = l THEN c ELSE g[m]
<1>1. DOMAIN g \subseteq Locations /\ g \in [DOMAIN g -> SUBSET Capabilities]
  BY GrantIs
<1>2. [g EXCEPT ![l] = c] \in [DOMAIN g -> SUBSET Capabilities] /\ DOMAIN [g EXCEPT ![l] = c] = DOMAIN g
  BY <1>1
<1> QED BY <1>1, <1>2, GrantIs

-----------------------------------------------------------------------------
(* The steps that only take away.                                           *)

(* Nothing changes but the status of sessions and pairings.                 *)
LEMMA BackedKept ==
  ASSUME SInv, SessionsKept, UNCHANGED devices, NEW A,
         \A s \in DOMAIN sessions : sessions'[s].live => s \notin A,
         \A p \in People : standing'[p] = standing[p] \/ \A s \in SessionsOf(p) : s \in A,
         assignments' \in [People -> [Locations -> Assignment]],
         \A p \in People, l \in Locations :
            /\ assignments[p][l].allowed \subseteq assignments'[p][l].allowed
            /\ \/ assignments'[p][l].active = assignments[p][l].active
               \/ \A s \in SessionsOf(p) : sessions[s].location = l => s \in A
  PROVE  Backed' /\ DeviceWithinAssignment'
<1>1. Backed'
  <2> SUFFICES ASSUME NEW s \in DOMAIN sessions', sessions'[s].live
               PROVE  /\ sessions'[s].device \in DOMAIN devices'
                      /\ devices'[sessions'[s].device].status = "ACTIVE"
                      /\ devices'[sessions'[s].device].person = sessions'[s].person
                      /\ standing'[sessions'[s].person] = "ACTIVE"
                      /\ assignments'[sessions'[s].person][sessions'[s].location].active
                      /\ sessions'[s].location \in DOMAIN devices'[sessions'[s].device].allowed
    BY DEF Backed, IsActive
  <2>1. /\ s \in DOMAIN sessions /\ sessions[s].live /\ s \notin A
        /\ sessions'[s].person = sessions[s].person /\ sessions'[s].device = sessions[s].device
        /\ sessions'[s].location = sessions[s].location
    BY DEF SessionsKept
  <2>2. /\ sessions[s].person \in People /\ sessions[s].location \in Locations
        /\ s \in SessionsOf(sessions[s].person)
    BY <2>1, RowFacts DEF Session, SessionsOf
  <2>3. standing'[sessions[s].person] = standing[sessions[s].person]
    BY <2>1, <2>2
  <2>4. assignments'[sessions[s].person][sessions[s].location].active
          = assignments[sessions[s].person][sessions[s].location].active
    BY <2>1, <2>2
  <2> QED BY <2>1, <2>3, <2>4 DEF SInv, Backed, IsActive
<1>2. DeviceWithinAssignment'
  <2> SUFFICES ASSUME NEW d \in DOMAIN devices, NEW l \in DOMAIN devices[d].allowed
               PROVE  devices[d].allowed[l] \subseteq assignments'[devices[d].person][l].allowed
    BY DEF DeviceWithinAssignment
  <2>1. devices[d].person \in People /\ l \in Locations
    <3>1. devices[d].person \in People /\ devices[d].allowed \in Grant
      BY RowFacts DEF Device
    <3> QED BY <3>1, GrantIs
  <2>2. devices[d].allowed[l] \subseteq assignments[devices[d].person][l].allowed
    BY DEF SInv, DeviceWithinAssignment
  <2> QED BY <2>1, <2>2
<1> QED BY <1>1, <1>2

(* Someone leaves: the sessions and open pairings of that person end.       *)
LEMMA LeavesStep ==
  ASSUME SInv, NEW p \in People, NEW st \in Standing, Leaves(p, st)
  PROVE  SInv' /\ StayOut
<1>1. /\ standing' = [standing EXCEPT ![p] = st] /\ pairings' = Canceled(p)
      /\ EndsSessions(SessionsOf(p)) /\ UNCHANGED <<assignments, devices>>
  BY DEF Leaves, RevokesAccess
<1>2. PairingsKept /\ SessionsKept /\ DevicesKept
  BY <1>1, CanceledOf, SessionsEnd, Unchanged
<1>3. \A s \in DOMAIN sessions : sessions'[s].live => s \notin SessionsOf(p)
  BY <1>1, SessionsEnd
<1>4. /\ standing' \in [People -> Standing]
      /\ \A q \in People : q # p => standing'[q] = standing[q]
  BY <1>1, RowFacts
<1>5. /\ assignments' \in [People -> [Locations -> Assignment]]
      /\ \A q \in People, l \in Locations : assignments'[q][l] = assignments[q][l]
  BY <1>1, RowFacts
<1>6. Backed' /\ DeviceWithinAssignment'
  BY <1>1, <1>2, <1>3, <1>4, <1>5, BackedKept
<1> QED BY <1>2, <1>4, <1>5, <1>6, KeptStep

LEMMA ReturnStep ==
  ASSUME SInv, NEW p \in People, Return(p)
  PROVE  SInv' /\ StayOut
<1>1. /\ standing' = [standing EXCEPT ![p] = "ACTIVE"] /\ standing[p] # "ACTIVE"
      /\ UNCHANGED <<assignments, devices, pairings, sessions>>
  BY DEF Return, accessVars
<1>2. PairingsKept /\ SessionsKept /\ DevicesKept
  BY <1>1, Unchanged
<1>3. /\ standing' \in [People -> Standing]
      /\ \A q \in People : standing[q] = "ACTIVE" => standing'[q] = "ACTIVE"
  BY <1>1, RowFacts DEF Standing
<1>4. \A s \in DOMAIN sessions : sessions[s].person \in People
  BY RowFacts DEF Session
<1>5. Backed' /\ DeviceWithinAssignment'
  BY <1>1, <1>3, <1>4 DEF SInv, Backed, IsActive, DeviceWithinAssignment
<1> QED BY <1>1, <1>2, <1>3, <1>5, RowFacts, KeptStep

LEMMA RevokeAssignmentStep ==
  ASSUME SInv, NEW p \in People, NEW l \in Locations, RevokeAssignment(p, l)
  PROVE  SInv' /\ StayOut
<1> DEFINE E == {s \in SessionsOf(p) : sessions[s].location = l}
<1>1. /\ assignments' = [assignments EXCEPT ![p][l].active = FALSE]
      /\ pairings' = Canceled(p) /\ EndsSessions(E) /\ UNCHANGED <<standing, devices>>
  BY DEF RevokeAssignment
<1>2. PairingsKept /\ SessionsKept /\ DevicesKept
  BY <1>1, CanceledOf, SessionsEnd, Unchanged
<1>3. \A s \in DOMAIN sessions : sessions'[s].live => s \notin E
  BY <1>1, SessionsEnd
<1>4. assignments \in [People -> [Locations -> Assignment]] /\ standing' \in [People -> Standing]
  BY <1>1, RowFacts
<1>5. assignments[p][l] \in Assignment
  BY <1>4
<1> DEFINE row == [assignments[p][l] EXCEPT !.active = FALSE]
<1>6. row \in Assignment /\ row.allowed = assignments[p][l].allowed
  BY <1>5 DEF Assignment
<1>7. assignments' = [assignments EXCEPT ![p] = [assignments[p] EXCEPT ![l] = row]]
  BY <1>1
<1> HIDE DEF row
<1>8. /\ assignments' \in [People -> [Locations -> Assignment]]
      /\ \A q \in People, m \in Locations :
           assignments'[q][m] = IF q = p /\ m = l THEN row ELSE assignments[q][m]
  BY <1>4, <1>6, <1>7
<1>9. \A q \in People, m \in Locations :
        /\ assignments[q][m].allowed \subseteq assignments'[q][m].allowed
        /\ \/ assignments'[q][m].active = assignments[q][m].active
           \/ \A s \in SessionsOf(q) : sessions[s].location = m => s \in E
  BY <1>6, <1>8
<1> HIDE DEF E
<1>10. Backed' /\ DeviceWithinAssignment'
  BY <1>1, <1>2, <1>3, <1>8, <1>9, BackedKept
<1> QED BY <1>2, <1>4, <1>8, <1>10, KeptStep

(* A pairing is canceled, lapses or expires.                                *)
LEMMA PairingEndStep ==
  ASSUME SInv, NEW i \in DOMAIN pairings,
         CancelPairing(i) \/ PairingLapses(i) \/ PairingExpires(i)
  PROVE  SInv' /\ StayOut
<1>1. UNCHANGED <<standing, assignments, devices, sessions>>
  BY DEF CancelPairing, PairingLapses, PairingExpires
<1>2. pairings[i] \in Pairing /\ pairings \in Seq(Pairing)
  BY RowFacts DEF SInv, RowsOK
<1>3. /\ \A st \in {"CANCELED", "EXPIRED"} :
            /\ [pairings[i] EXCEPT !.status = st] \in Pairing
            /\ [pairings[i] EXCEPT !.status = st].person = pairings[i].person
            /\ [pairings[i] EXCEPT !.status = st].device = pairings[i].device
            /\ [pairings[i] EXCEPT !.status = st].status \notin Open
      /\ [pairings[i] EXCEPT !.lapsed = TRUE] \in Pairing
      /\ [pairings[i] EXCEPT !.lapsed = TRUE].person = pairings[i].person
      /\ [pairings[i] EXCEPT !.lapsed = TRUE].device = pairings[i].device
      /\ [pairings[i] EXCEPT !.lapsed = TRUE].status = pairings[i].status
  BY <1>2 DEF Pairing, Open
<1>4. PICK row \in Pairing :
        /\ pairings' = [pairings EXCEPT ![i] = row]
        /\ row.person = pairings[i].person /\ row.device = pairings[i].device
        /\ row.status \in Open => row.status = pairings[i].status
  <2>1. \/ \E st \in {"CANCELED", "EXPIRED"} :
             pairings' = [pairings EXCEPT ![i] = [pairings[i] EXCEPT !.status = st]]
        \/ pairings' = [pairings EXCEPT ![i] = [pairings[i] EXCEPT !.lapsed = TRUE]]
    BY DEF CancelPairing, PairingLapses, PairingExpires
  <2> QED BY <1>3, <2>1
<1>5. PairingsKept
  BY <1>2, <1>4 DEF PairingsKept
<1>6. Backed' /\ DeviceWithinAssignment'
  BY <1>1 DEF SInv, Backed, IsActive, DeviceWithinAssignment
<1> QED BY <1>1, <1>5, <1>6, RowFacts, Unchanged, KeptStep

(* Device rows whose grants, persons and standing are left or cut down.     *)
LEMMA DevicesWritten ==
  ASSUME SInv, NEW D, DOMAIN devices' = DOMAIN devices,
         \A d \in DOMAIN devices :
            \/ devices'[d] = devices[d]
            \/ d \in D /\ \E st \in {"REVOKED", "COMPROMISED"} :
                 devices'[d] = [devices[d] EXCEPT !.status = st]
  PROVE  /\ DevicesKept
         /\ \A d \in DOMAIN devices :
              /\ devices'[d].allowed = devices[d].allowed
              /\ d \notin D => devices'[d] = devices[d]
<1>1. \A d \in DOMAIN devices, st \in {"REVOKED", "COMPROMISED"} :
        /\ [devices[d] EXCEPT !.status = st] \in Device
        /\ [devices[d] EXCEPT !.status = st].person = devices[d].person
        /\ [devices[d] EXCEPT !.status = st].allowed = devices[d].allowed
        /\ [devices[d] EXCEPT !.status = st].status # "ACTIVE"
  BY RowFacts DEF Device
<1>2. \A d \in DOMAIN devices :
        /\ devices'[d] \in Device /\ devices'[d].person = devices[d].person
        /\ devices'[d].allowed = devices[d].allowed
        /\ devices'[d].status = "ACTIVE" => devices[d].status = "ACTIVE"
        /\ d \notin D => devices'[d] = devices[d]
  BY <1>1, RowFacts, ZenonT(60)
<1> QED BY <1>2 DEF DevicesKept

(* What a device may do is left, and so are the assignments.                *)
LEMMA WithinKept ==
  ASSUME SInv, DevicesKept, UNCHANGED assignments,
         \A d \in DOMAIN devices : devices'[d].allowed = devices[d].allowed
  PROVE  DeviceWithinAssignment'
<1> QED BY DEF SInv, DevicesKept, DeviceWithinAssignment

LEMMA RevokeDeviceStep ==
  ASSUME SInv, NEW d \in DOMAIN devices, NEW st \in {"REVOKED", "COMPROMISED"},
         RevokeDevice(d, st)
  PROVE  SInv' /\ StayOut
<1> DEFINE E == {s \in DOMAIN sessions : sessions[s].device = d}
<1>1. /\ devices' = [devices EXCEPT ![d].status = st] /\ EndsSessions(E)
      /\ UNCHANGED <<standing, assignments, pairings>>
  BY DEF RevokeDevice
<1>2. /\ DevicesKept
      /\ \A e \in DOMAIN devices :
           /\ devices'[e].allowed = devices[e].allowed
           /\ e \notin {d} => devices'[e] = devices[e]
  <2>1. DOMAIN devices' = DOMAIN devices
    BY <1>1
  <2>2. \A e \in DOMAIN devices :
          \/ devices'[e] = devices[e]
          \/ e \in {d} /\ devices'[e] = [devices[e] EXCEPT !.status = st]
    BY <1>1
  <2> QED BY <2>1, <2>2, DevicesWritten
<1>3. /\ SessionsKept /\ PairingsKept
      /\ \A s \in DOMAIN sessions : sessions'[s].live => s \notin E
  BY <1>1, SessionsEnd, Unchanged
<1>4. Backed'
  BY <1>1, <1>2, <1>3 DEF SInv, Backed, IsActive, SessionsKept, DevicesKept
<1>5. DeviceWithinAssignment'
  BY <1>1, <1>2, WithinKept
<1> QED BY <1>1, <1>2, <1>3, <1>4, <1>5, RowFacts, KeptStep

LEMMA CloseStep == SInv /\ CloseOrganization => SInv' /\ StayOut
<1> SUFFICES ASSUME SInv, CloseOrganization PROVE SInv' /\ StayOut
  OBVIOUS
<1>1. /\ standing' = [p \in People |-> "CLOSED"] /\ UNCHANGED assignments
      /\ EndsSessions(DOMAIN sessions)
      /\ pairings' = [i \in DOMAIN pairings |->
                         IF pairings[i].status \in Open
                         THEN [pairings[i] EXCEPT !.status = "CANCELED"] ELSE pairings[i]]
      /\ devices' = [d \in DOMAIN devices |->
                        IF devices[d].status = "ACTIVE"
                        THEN [devices[d] EXCEPT !.status = "REVOKED"] ELSE devices[d]]
  BY DEF CloseOrganization
<1>2. \A i \in DOMAIN pairings : pairings[i].person \in People
  BY RowFacts DEF Pairing
<1>3. PairingsKept
  <2>1. pairings' = CanceledIn(People)
    BY <1>1, <1>2 DEF CanceledIn
  <2> QED BY <2>1, PairingsCanceled
<1>4. /\ DevicesKept
      /\ \A d \in DOMAIN devices : devices'[d].allowed = devices[d].allowed
  <2>1. DOMAIN devices' = DOMAIN devices
    BY <1>1
  <2>2. \A d \in DOMAIN devices :
          \/ devices'[d] = devices[d]
          \/ d \in DOMAIN devices /\ devices'[d] = [devices[d] EXCEPT !.status = "REVOKED"]
    BY <1>1
  <2> QED BY <2>1, <2>2, DevicesWritten
<1>5. SessionsKept /\ \A s \in DOMAIN sessions : ~ sessions'[s].live
  BY <1>1, SessionsEnd
<1>6. Backed'
  BY <1>5 DEF Backed, SessionsKept
<1>7. DeviceWithinAssignment'
  BY <1>1, <1>4, WithinKept
<1>8. standing' \in [People -> Standing] /\ assignments' \in [People -> [Locations -> Assignment]]
  BY <1>1, RowFacts DEF Standing
<1> QED BY <1>3, <1>4, <1>5, <1>6, <1>7, <1>8, KeptStep

LEMMA SessionEndsStep ==
  ASSUME SInv, NEW s \in DOMAIN sessions, SessionEnds(s)
  PROVE  SInv' /\ StayOut
<1>1. UNCHANGED <<standing, assignments, devices, pairings>> /\ EndsSessions({s})
  <2>1. /\ UNCHANGED <<standing, assignments, devices, pairings>>
        /\ sessions' = [sessions EXCEPT ![s] = [sessions[s] EXCEPT !.live = FALSE]]
    BY DEF SessionEnds
  <2>2. sessions' = [t \in DOMAIN sessions |->
                       IF t \in {s} THEN [sessions[t] EXCEPT !.live = FALSE] ELSE sessions[t]]
    BY <2>1
  <2> QED BY <2>1, <2>2 DEF EndsSessions
<1>2. PairingsKept /\ SessionsKept /\ DevicesKept
  BY <1>1, SessionsEnd, Unchanged
<1>3. Backed' /\ DeviceWithinAssignment'
  BY <1>1, <1>2 DEF SInv, Backed, IsActive, SessionsKept, DeviceWithinAssignment
<1> QED BY <1>1, <1>2, <1>3, RowFacts, KeptStep

(* An assignment is given: the device rows of the person are narrowed to it.*)
LEMMA NarrowedRows ==
  ASSUME SInv, NEW p, NEW l, NEW c \in SUBSET Capabilities, devices' = Narrowed(p, l, c)
  PROVE  /\ DOMAIN devices' = DOMAIN devices
         /\ \A d \in DOMAIN devices :
              /\ devices'[d] \in Device
              /\ devices'[d].person = devices[d].person /\ devices'[d].status = devices[d].status
              /\ DOMAIN devices'[d].allowed = DOMAIN devices[d].allowed
              /\ \A m \in DOMAIN devices[d].allowed :
                   /\ devices'[d].allowed[m] \subseteq devices[d].allowed[m]
                   /\ devices[d].person = p /\ m = l => devices'[d].allowed[m] \subseteq c
<1>1. /\ DOMAIN devices' = DOMAIN devices
      /\ \A d \in DOMAIN devices :
           devices'[d] = IF devices[d].person = p /\ l \in DOMAIN devices[d].allowed
                         THEN [devices[d] EXCEPT !.allowed =
                                 [devices[d].allowed EXCEPT ![l] = devices[d].allowed[l] \cap c]]
                         ELSE devices[d]
  BY DEF Narrowed
<1> SUFFICES ASSUME NEW d \in DOMAIN devices
             PROVE  /\ devices'[d] \in Device
                    /\ devices'[d].person = devices[d].person
                    /\ devices'[d].status = devices[d].status
                    /\ DOMAIN devices'[d].allowed = DOMAIN devices[d].allowed
                    /\ \A m \in DOMAIN devices[d].allowed :
                         /\ devices'[d].allowed[m] \subseteq devices[d].allowed[m]
                         /\ devices[d].person = p /\ m = l => devices'[d].allowed[m] \subseteq c
  BY <1>1
<1>2. devices[d] \in Device /\ devices[d].allowed \in Grant
  BY RowFacts DEF Device
<1>3. CASE devices[d].person = p /\ l \in DOMAIN devices[d].allowed
  <2>1. PICK g : g = devices[d].allowed
    OBVIOUS
  <2>2. PICK h : h = [g EXCEPT ![l] = g[l] \cap c]
    OBVIOUS
  <2>3. /\ h \in Grant /\ DOMAIN h = DOMAIN g
        /\ \A m \in DOMAIN g : h[m] = IF m = l THEN g[l] \cap c ELSE g[m]
    <3>1. g \in Grant /\ l \in DOMAIN g
      BY <1>2, <1>3, <2>1
    <3>2. g[l] \cap c \in SUBSET Capabilities
      OBVIOUS
    <3> QED BY <2>2, <3>1, <3>2, GrantNarrowed
  <2>4. devices'[d] = [devices[d] EXCEPT !.allowed = h]
    BY <1>1, <1>3, <2>1, <2>2
  <2>5. /\ devices'[d] \in Device /\ devices'[d].person = devices[d].person
        /\ devices'[d].status = devices[d].status /\ devices'[d].allowed = h
    BY <1>2, <2>3, <2>4 DEF Device
  <2> QED BY <2>1, <2>3, <2>5
<1>4. CASE ~ (devices[d].person = p /\ l \in DOMAIN devices[d].allowed)
  BY <1>1, <1>2, <1>4
<1> QED BY <1>3, <1>4

LEMMA PutAssignmentStep ==
  ASSUME SInv, NEW p \in People, NEW l \in Locations, NEW c \in SUBSET Capabilities,
         PutAssignment(p, l, c)
  PROVE  SInv' /\ StayOut
<1> DEFINE row == [active |-> TRUE, allowed |-> c]
<1>1. /\ assignments' = [assignments EXCEPT ![p] = [assignments[p] EXCEPT ![l] = row]]
      /\ devices' = Narrowed(p, l, c) /\ pairings' = Canceled(p)
      /\ UNCHANGED <<standing, sessions>>
  BY DEF PutAssignment
<1>2. row \in Assignment /\ row.active /\ row.allowed = c
  BY DEF Assignment
<1> HIDE DEF row
<1>3. /\ assignments' \in [People -> [Locations -> Assignment]]
      /\ \A q \in People, m \in Locations :
           assignments'[q][m] = IF q = p /\ m = l THEN row ELSE assignments[q][m]
  BY <1>1, <1>2, RowFacts
<1>4. /\ DOMAIN devices' = DOMAIN devices
      /\ \A d \in DOMAIN devices :
           /\ devices'[d] \in Device
           /\ devices'[d].person = devices[d].person /\ devices'[d].status = devices[d].status
           /\ DOMAIN devices'[d].allowed = DOMAIN devices[d].allowed
           /\ \A m \in DOMAIN devices[d].allowed :
                /\ devices'[d].allowed[m] \subseteq devices[d].allowed[m]
                /\ devices[d].person = p /\ m = l => devices'[d].allowed[m] \subseteq c
  BY <1>1, NarrowedRows
<1>5. PairingsKept /\ SessionsKept /\ DevicesKept
  BY <1>1, <1>4, CanceledOf, Unchanged DEF DevicesKept
<1>6. Backed'
  <2>1. \A s \in DOMAIN sessions : sessions[s].person \in People /\ sessions[s].location \in Locations
    BY RowFacts DEF Session
  <2> QED BY <1>1, <1>2, <1>3, <1>4, <2>1 DEF SInv, Backed, IsActive
<1>7. DeviceWithinAssignment'
  <2> SUFFICES ASSUME NEW d \in DOMAIN devices, NEW m \in DOMAIN devices[d].allowed
               PROVE  devices'[d].allowed[m] \subseteq assignments'[devices'[d].person][m].allowed
    BY <1>4 DEF DeviceWithinAssignment
  <2>1. devices[d].person \in People /\ m \in Locations
    <3>1. devices[d].person \in People /\ devices[d].allowed \in Grant
      BY RowFacts DEF Device
    <3> QED BY <3>1, GrantIs
  <2>2. devices[d].allowed[m] \subseteq assignments[devices[d].person][m].allowed
    BY DEF SInv, DeviceWithinAssignment
  <2>3. CASE devices[d].person = p /\ m = l
    BY <1>2, <1>3, <1>4, <2>1, <2>3
  <2>4. CASE ~ (devices[d].person = p /\ m = l)
    BY <1>3, <1>4, <2>1, <2>2, <2>4
  <2> QED BY <2>3, <2>4
<1> QED BY <1>1, <1>3, <1>5, <1>6, <1>7, RowFacts, KeptStep

-----------------------------------------------------------------------------
(* The steps that give.                                                     *)

(* A new pairing: every way in that its person had ends.                    *)
LEMMA CreatePairingStep ==
  ASSUME SInv, NEW p \in People, NEW g \in Grant, CreatePairing(p, g)
  PROVE  SInv' /\ StayOut
<1>1. PICK n : n = Len(pairings)
  OBVIOUS
<1> DEFINE new == [person |-> p, requested |-> g, device |-> None,
                   lapsed |-> FALSE, status |-> "PENDING"]
<1>2. /\ n < MaxPairings /\ pairings' = Append(Canceled(p), new)
      /\ EndsSessions(SessionsOf(p)) /\ UNCHANGED <<standing, assignments>>
      /\ devices' = [d \in DOMAIN devices |->
                        IF devices[d].person = p /\ devices[d].status = "ACTIVE"
                        THEN [devices[d] EXCEPT !.status = "REVOKED"] ELSE devices[d]]
  BY <1>1 DEF CreatePairing
<1>3. new \in Pairing /\ new.person = p /\ new.status = "PENDING"
  BY DEF Pairing
<1> HIDE DEF new
<1>4. n \in Nat /\ DOMAIN pairings = 1..n
  BY <1>1, RowFacts
<1>5. PICK old : old = Canceled(p)
  OBVIOUS
<1>6. /\ old \in Seq(Pairing) /\ Len(old) = n
      /\ \A i \in 1..n :
           /\ old[i].person = pairings[i].person
           /\ old[i].device = pairings[i].device
           /\ old[i].status \in Open => old[i].status = pairings[i].status
           /\ old[i].status \in Open => pairings[i].person # p
  BY <1>1, <1>4, <1>5, CanceledOf
<1>7. /\ pairings' \in Seq(Pairing) /\ Len(pairings') = n + 1 /\ DOMAIN pairings' = 1..(n + 1)
      /\ pairings'[n + 1] = new /\ \A i \in 1..n : pairings'[i] = old[i]
  <2>1. pairings' = Append(old, new)
    BY <1>2, <1>5
  <2> QED BY <1>3, <1>4, <1>6, <2>1
<1>8. \A i \in 1..(n + 1) :
        \/ i = n + 1
        \/ /\ i \in 1..n
           /\ pairings'[i].person = pairings[i].person
           /\ pairings'[i].device = pairings[i].device
           /\ pairings'[i].status \in Open =>
                pairings'[i].status = pairings[i].status /\ pairings[i].person # p
  BY <1>4, <1>6, <1>7
<1>9. /\ SessionsKept
      /\ \A s \in DOMAIN sessions : sessions'[s].live => sessions[s].person # p
  BY <1>2, SessionsEnd DEF SessionsOf
<1>10. /\ DevicesKept
       /\ \A d \in DOMAIN devices :
            /\ devices'[d].allowed = devices[d].allowed
            /\ devices[d].person # p => devices'[d] = devices[d]
  <2> DEFINE D == {d \in DOMAIN devices : devices[d].person = p}
  <2>1. /\ DOMAIN devices' = DOMAIN devices
        /\ \A d \in DOMAIN devices :
             \/ devices'[d] = devices[d]
             \/ d \in D /\ devices'[d] = [devices[d] EXCEPT !.status = "REVOKED"]
    BY <1>2
  <2>2. \A d \in DOMAIN devices :
          \/ devices'[d] = devices[d]
          \/ d \in D /\ \E st \in {"REVOKED", "COMPROMISED"} :
               devices'[d] = [devices[d] EXCEPT !.status = st]
    BY <2>1
  <2>3. /\ DevicesKept
        /\ \A d \in DOMAIN devices :
             /\ devices'[d].allowed = devices[d].allowed
             /\ d \notin D => devices'[d] = devices[d]
    BY <2>1, <2>2, DevicesWritten
  <2> QED BY <2>3
<1>11. RowsOK'
  BY <1>1, <1>2, <1>4, <1>7, <1>9, <1>10, StaffAssumption
     DEF SInv, RowsOK, SessionsKept, DevicesKept
<1>12. OneWayIn'
  <2>1. \A i, j \in 1..(n + 1) :
          /\ pairings'[i].status \in Open /\ pairings'[j].status \in Open
          /\ pairings'[i].person = pairings'[j].person
          => i = j
    BY <1>3, <1>4, <1>7, <1>8 DEF SInv, OneWayIn, IsOpen
  <2>2. \A s, t \in DOMAIN sessions :
          /\ sessions'[s].live /\ sessions'[t].live /\ sessions'[s].person = sessions'[t].person
          => s = t
    BY <1>9 DEF SInv, OneWayIn, SessionsKept
  <2>3. \A i \in 1..(n + 1), s \in DOMAIN sessions :
          /\ pairings'[i].status \in Open /\ sessions'[s].live
          => pairings'[i].person # sessions'[s].person
    <3> SUFFICES ASSUME NEW i \in 1..(n + 1), NEW s \in DOMAIN sessions,
                        pairings'[i].status \in Open, sessions'[s].live
                 PROVE  pairings'[i].person # sessions'[s].person
      OBVIOUS
    <3>1. /\ sessions'[s].person = sessions[s].person /\ sessions[s].live
          /\ sessions[s].person # p
      BY <1>9 DEF SessionsKept
    <3>2. CASE i = n + 1
      BY <1>3, <1>7, <3>1, <3>2
    <3>3. CASE i # n + 1
      <4>1. /\ i \in DOMAIN pairings /\ IsOpen(i)
            /\ pairings'[i].person = pairings[i].person
        BY <1>4, <1>8, <3>3 DEF IsOpen
      <4> QED BY <3>1, <4>1 DEF SInv, OneWayIn
    <3> QED BY <3>2, <3>3
  <2>4. DOMAIN sessions' = DOMAIN sessions
    BY <1>9 DEF SessionsKept
  <2> QED BY <1>7, <2>1, <2>2, <2>3, <2>4 DEF OneWayIn, IsOpen
<1>13. ClaimIsFresh'
  <2> SUFFICES ASSUME NEW i \in 1..(n + 1), pairings'[i].status = "CLAIMED"
               PROVE  /\ pairings'[i].device \in Devices
                      /\ pairings'[i].device \in DOMAIN devices' =>
                           devices'[pairings'[i].device].person # pairings'[i].person
    BY <1>7 DEF ClaimIsFresh
  <2>1. i # n + 1
    BY <1>3, <1>7
  <2>2. /\ i \in DOMAIN pairings /\ pairings[i].status = "CLAIMED"
        /\ pairings'[i].person = pairings[i].person /\ pairings'[i].device = pairings[i].device
    BY <1>4, <1>8, <2>1 DEF Open
  <2> QED BY <1>10, <2>2 DEF SInv, ClaimIsFresh, DevicesKept
<1>14. Backed'
  BY <1>2, <1>9, <1>10 DEF SInv, Backed, IsActive, SessionsKept, DevicesKept
<1>15. DeviceWithinAssignment'
  BY <1>2, <1>10, WithinKept
<1>16. StayOut
  BY <1>10 DEF DevicesKept, StayOut
<1> QED BY <1>11, <1>12, <1>13, <1>14, <1>15, <1>16 DEF SInv

(* A claim binds an installation that has no device row.                    *)
LEMMA ClaimStep ==
  ASSUME SInv, NEW i \in DOMAIN pairings, NEW d \in Devices, Claim(i, d)
  PROVE  SInv' /\ StayOut
<1>1. /\ pairings[i].status = "PENDING" /\ d \notin DOMAIN devices
      /\ pairings' = [pairings EXCEPT ![i] =
                         [pairings[i] EXCEPT !.status = "CLAIMED", !.device = d]]
      /\ UNCHANGED <<standing, assignments, devices, sessions>>
  BY DEF Claim
<1>2. pairings[i] \in Pairing /\ pairings \in Seq(Pairing)
  BY RowFacts DEF SInv, RowsOK
<1> DEFINE row == [pairings[i] EXCEPT !.status = "CLAIMED", !.device = d]
<1>3. /\ row \in Pairing /\ row.person = pairings[i].person
      /\ row.status = "CLAIMED" /\ row.device = d
  BY <1>2 DEF Pairing
<1> HIDE DEF row
<1>4. /\ pairings' \in Seq(Pairing) /\ Len(pairings') = Len(pairings)
      /\ DOMAIN pairings' = DOMAIN pairings
      /\ \A j \in DOMAIN pairings : pairings'[j] = IF j = i THEN row ELSE pairings[j]
  <2>1. pairings' = [pairings EXCEPT ![i] = row]
    BY <1>1 DEF row
  <2> QED BY <1>2, <1>3, <2>1
<1>5. RowsOK'
  BY <1>1, <1>4 DEF SInv, RowsOK
<1>6. OneWayIn'
  <2>1. \A j \in DOMAIN pairings :
          /\ pairings'[j].person = pairings[j].person
          /\ pairings'[j].status \in Open => pairings[j].status \in Open
    BY <1>1, <1>3, <1>4 DEF Open
  <2> QED BY <1>1, <1>4, <2>1 DEF SInv, OneWayIn, IsOpen
<1>7. ClaimIsFresh'
  BY <1>1, <1>3, <1>4 DEF SInv, ClaimIsFresh
<1>8. Backed' /\ DeviceWithinAssignment'
  BY <1>1 DEF SInv, Backed, IsActive, DeviceWithinAssignment
<1> QED BY <1>1, <1>5, <1>6, <1>7, <1>8 DEF SInv, StayOut

(* A completion uses the claim up, and makes a device row and a session.    *)
LEMMA CompleteStep ==
  ASSUME SInv, NEW i \in DOMAIN pairings, Complete(i)
  PROVE  SInv' /\ StayOut
<1>1. PICK p : p = pairings[i].person
  OBVIOUS
<1>2. PICK d : d = pairings[i].device
  OBVIOUS
<1>3. PICK granted : granted = Effective(p, pairings[i].requested)
  OBVIOUS
<1>4. PICK m : m = Len(sessions)
  OBVIOUS
<1>5. /\ m < MaxSessions /\ pairings[i].status = "CLAIMED" /\ IsActive(p)
      /\ d \in DOMAIN devices => devices[d].person = p
      /\ devices' = [e \in DOMAIN devices \cup {d} |->
                        IF e = d THEN [person |-> p, status |-> "ACTIVE", allowed |-> granted]
                        ELSE devices[e]]
      /\ pairings' = [pairings EXCEPT ![i] = [pairings[i] EXCEPT !.status = "COMPLETED"]]
      /\ UNCHANGED <<standing, assignments>>
  BY <1>1, <1>2, <1>3, <1>4 DEF Complete, Completable
<1>6. PICK l \in DOMAIN granted :
        sessions' = Append(sessions, [device |-> d, person |-> p, location |-> l, live |-> TRUE])
  BY <1>1, <1>2, <1>3 DEF Complete
<1>7. /\ pairings[i] \in Pairing /\ pairings \in Seq(Pairing) /\ p \in People
      /\ pairings[i].requested \in Grant
  BY <1>1, RowFacts DEF SInv, RowsOK, Pairing
<1>8. d \in Devices /\ d \notin DOMAIN devices
  BY <1>1, <1>2, <1>5 DEF SInv, ClaimIsFresh
<1>9. /\ DOMAIN granted \subseteq Locations
      /\ \A k \in DOMAIN granted :
           /\ assignments[p][k].active
           /\ granted[k] \subseteq assignments[p][k].allowed
           /\ granted[k] \subseteq Capabilities
      /\ granted \in Grant
  <2>1. PICK r : r = pairings[i].requested
    OBVIOUS
  <2>2. DOMAIN r \subseteq Locations /\ r \in [DOMAIN r -> SUBSET Capabilities]
    BY <1>7, <2>1, GrantIs
  <2>3. granted = [k \in {q \in DOMAIN r : assignments[p][q].active /\ q \in activeLocations} |->
                     r[k] \cap assignments[p][k].allowed]
    BY <1>3, <2>1 DEF Effective
  <2>4. /\ DOMAIN granted \subseteq DOMAIN r
        /\ \A k \in DOMAIN granted :
             /\ assignments[p][k].active
             /\ granted[k] = r[k] \cap assignments[p][k].allowed
             /\ granted[k] \subseteq Capabilities
    BY <2>2, <2>3
  <2>5. granted \in [DOMAIN granted -> SUBSET Capabilities]
    BY <2>3, <2>4
  <2> QED BY <2>2, <2>4, <2>5, GrantIs
<1> DEFINE device == [person |-> p, status |-> "ACTIVE", allowed |-> granted]
           new == [device |-> d, person |-> p, location |-> l, live |-> TRUE]
           row == [pairings[i] EXCEPT !.status = "COMPLETED"]
<1>10. /\ device \in Device /\ device.person = p /\ device.status = "ACTIVE"
       /\ device.allowed = granted
  BY <1>7, <1>9 DEF Device
<1>11. /\ new \in Session /\ new.device = d /\ new.person = p /\ new.location = l
       /\ new.live
  BY <1>6, <1>7, <1>8, <1>9 DEF Session
<1>12. row \in Pairing /\ row.person = p /\ row.status = "COMPLETED"
  BY <1>1, <1>7 DEF Pairing
<1>13. /\ devices' = [e \in DOMAIN devices \cup {d} |-> IF e = d THEN device ELSE devices[e]]
       /\ sessions' = Append(sessions, new) /\ pairings' = [pairings EXCEPT ![i] = row]
  BY <1>5, <1>6
<1> HIDE DEF device, new, row
<1>14. /\ DOMAIN devices' = DOMAIN devices \cup {d} /\ devices'[d] = device
       /\ \A e \in DOMAIN devices : e # d /\ devices'[e] = devices[e]
  BY <1>8, <1>13
<1>15. /\ pairings' \in Seq(Pairing) /\ Len(pairings') = Len(pairings)
       /\ DOMAIN pairings' = DOMAIN pairings
       /\ \A j \in DOMAIN pairings : pairings'[j] = IF j = i THEN row ELSE pairings[j]
  BY <1>7, <1>12, <1>13
<1>16. m \in Nat /\ DOMAIN sessions = 1..m /\ sessions \in Seq(Session)
  BY <1>4, RowFacts DEF SInv, RowsOK
<1>17. /\ sessions' \in Seq(Session) /\ Len(sessions') = m + 1 /\ DOMAIN sessions' = 1..(m + 1)
       /\ sessions'[m + 1] = new /\ \A s \in 1..m : sessions'[s] = sessions[s]
  BY <1>4, <1>11, <1>13, <1>16
<1>18. \A j \in DOMAIN pairings :
         /\ pairings'[j].person = pairings[j].person
         /\ pairings'[j].status \in Open => pairings'[j] = pairings[j] /\ j # i
  BY <1>1, <1>12, <1>15 DEF Open
<1>19. \A j \in DOMAIN pairings : IsOpen(j) /\ pairings[j].person = p => j = i
  BY <1>1, <1>5 DEF SInv, OneWayIn, IsOpen, Open
<1>20. \A s \in 1..m : sessions[s].live => sessions[s].person # p
  BY <1>1, <1>5, <1>16 DEF SInv, OneWayIn, IsOpen, Open
<1>21. RowsOK'
  <2>1. DOMAIN devices' \subseteq Devices /\ \A e \in DOMAIN devices' : devices'[e] \in Device
    BY <1>8, <1>10, <1>14, RowFacts
  <2>2. Len(sessions') <= MaxSessions
    BY <1>5, <1>16, <1>17, StaffAssumption
  <2> QED BY <1>5, <1>15, <1>17, <2>1, <2>2 DEF SInv, RowsOK
<1>22. OneWayIn'
  <2>1. \A j, k \in DOMAIN pairings :
          /\ pairings'[j].status \in Open /\ pairings'[k].status \in Open
          /\ pairings'[j].person = pairings'[k].person
          => j = k
    BY <1>18 DEF SInv, OneWayIn, IsOpen
  <2>2. \A s, t \in 1..(m + 1) :
          /\ sessions'[s].live /\ sessions'[t].live /\ sessions'[s].person = sessions'[t].person
          => s = t
    <3>1. \A s, t \in 1..m :
            sessions[s].live /\ sessions[t].live /\ sessions[s].person = sessions[t].person => s = t
      BY <1>16 DEF SInv, OneWayIn
    <3> QED BY <1>11, <1>16, <1>17, <1>20, <3>1
  <2>3. \A j \in DOMAIN pairings, s \in 1..(m + 1) :
          /\ pairings'[j].status \in Open /\ sessions'[s].live
          => pairings'[j].person # sessions'[s].person
    <3> SUFFICES ASSUME NEW j \in DOMAIN pairings, NEW s \in 1..(m + 1),
                        pairings'[j].status \in Open, sessions'[s].live
                 PROVE  pairings'[j].person # sessions'[s].person
      OBVIOUS
    <3>1. j # i /\ IsOpen(j) /\ pairings'[j].person = pairings[j].person
      BY <1>18 DEF IsOpen
    <3>2. CASE s = m + 1
      BY <1>11, <1>17, <1>19, <3>1, <3>2
    <3>3. CASE s \in 1..m
      BY <1>16, <1>17, <3>1, <3>3 DEF SInv, OneWayIn
    <3> QED BY <1>16, <3>2, <3>3
  <2> QED BY <1>15, <1>17, <2>1, <2>2, <2>3 DEF OneWayIn, IsOpen
<1>23. ClaimIsFresh'
  <2> SUFFICES ASSUME NEW j \in DOMAIN pairings, pairings'[j].status = "CLAIMED"
               PROVE  /\ pairings'[j].device \in Devices
                      /\ pairings'[j].device \in DOMAIN devices' =>
                           devices'[pairings'[j].device].person # pairings'[j].person
    BY <1>15 DEF ClaimIsFresh
  <2>1. pairings'[j] = pairings[j] /\ j # i /\ pairings[j].person # p
    BY <1>18, <1>19 DEF Open, IsOpen
  <2> QED BY <1>10, <1>14, <2>1 DEF SInv, ClaimIsFresh
<1>24. Backed'
  <2> SUFFICES ASSUME NEW s \in 1..(m + 1), sessions'[s].live
               PROVE  /\ sessions'[s].device \in DOMAIN devices'
                      /\ devices'[sessions'[s].device].status = "ACTIVE"
                      /\ devices'[sessions'[s].device].person = sessions'[s].person
                      /\ standing[sessions'[s].person] = "ACTIVE"
                      /\ assignments[sessions'[s].person][sessions'[s].location].active
                      /\ sessions'[s].location \in DOMAIN devices'[sessions'[s].device].allowed
    BY <1>5, <1>17 DEF Backed, IsActive
  <2>1. CASE s = m + 1
    BY <1>5, <1>6, <1>9, <1>10, <1>11, <1>14, <1>17, <2>1 DEF IsActive
  <2>2. CASE s \in 1..m
    BY <1>14, <1>16, <1>17, <2>2 DEF SInv, Backed, IsActive
  <2> QED BY <1>16, <2>1, <2>2
<1>25. DeviceWithinAssignment'
  BY <1>5, <1>9, <1>10, <1>14 DEF SInv, DeviceWithinAssignment
<1>26. StayOut
  BY <1>14 DEF StayOut
<1> QED BY <1>21, <1>22, <1>23, <1>24, <1>25, <1>26 DEF SInv

(* A refresh ends the session it replaces.                                  *)
LEMMA RefreshStep ==
  ASSUME SInv, NEW s \in DOMAIN sessions, RefreshSession(s)
  PROVE  SInv' /\ StayOut
<1>1. PICK m : m = Len(sessions)
  OBVIOUS
<1>2. PICK old : old = [sessions EXCEPT ![s] = [sessions[s] EXCEPT !.live = FALSE]]
  OBVIOUS
<1>3. /\ m < MaxSessions /\ sessions[s].live /\ sessions' = Append(old, sessions[s])
      /\ UNCHANGED <<standing, assignments, devices, pairings>>
  BY <1>1, <1>2 DEF RefreshSession, Refreshable
<1>4. /\ m \in Nat /\ DOMAIN sessions = 1..m /\ sessions \in Seq(Session)
      /\ sessions[s] \in Session
  BY <1>1, RowFacts DEF SInv, RowsOK
<1>5. PICK ended \in Session : ended = [sessions[s] EXCEPT !.live = FALSE] /\ ~ ended.live
  <2>1. /\ [sessions[s] EXCEPT !.live = FALSE] \in Session
        /\ ~ [sessions[s] EXCEPT !.live = FALSE].live
    BY <1>4 DEF Session
  <2> QED BY <2>1
<1>6. /\ old \in Seq(Session) /\ Len(old) = m
      /\ \A t \in 1..m : old[t] = IF t = s THEN ended ELSE sessions[t]
  <2>1. old = [sessions EXCEPT ![s] = ended]
    BY <1>2, <1>5
  <2> QED BY <1>1, <1>4, <2>1
<1>7. /\ sessions' \in Seq(Session) /\ Len(sessions') = m + 1 /\ DOMAIN sessions' = 1..(m + 1)
      /\ sessions'[m + 1] = sessions[s]
      /\ \A t \in 1..m : sessions'[t] = IF t = s THEN ended ELSE sessions[t]
  BY <1>3, <1>4, <1>6
<1>8. \A t \in 1..(m + 1) : sessions'[t].live =>
        \E u \in DOMAIN sessions :
          /\ sessions'[t] = sessions[u] /\ sessions[u].live
          /\ t = m + 1 <=> u = s
          /\ t # m + 1 => u = t
  <2> SUFFICES ASSUME NEW t \in 1..(m + 1), sessions'[t].live
               PROVE  \E u \in DOMAIN sessions :
                        /\ sessions'[t] = sessions[u] /\ sessions[u].live
                        /\ t = m + 1 <=> u = s
                        /\ t # m + 1 => u = t
    OBVIOUS
  <2>1. CASE t = m + 1
    BY <1>3, <1>7, <2>1
  <2>2. CASE t # m + 1
    <3>1. t \in 1..m
      BY <1>4, <2>2
    <3>2. t # s /\ sessions'[t] = sessions[t]
      BY <1>5, <1>7, <3>1
    <3> QED BY <1>4, <2>2, <3>1, <3>2
  <2> QED BY <2>1, <2>2
<1>9. RowsOK'
  BY <1>3, <1>4, <1>7, StaffAssumption DEF SInv, RowsOK
<1>10. OneWayIn'
  <2>1. \A t, u \in 1..(m + 1) :
          /\ sessions'[t].live /\ sessions'[u].live /\ sessions'[t].person = sessions'[u].person
          => t = u
    <3> SUFFICES ASSUME NEW t \in 1..(m + 1), NEW u \in 1..(m + 1),
                        sessions'[t].live, sessions'[u].live,
                        sessions'[t].person = sessions'[u].person
                 PROVE  t = u
      OBVIOUS
    <3>1. PICK v \in DOMAIN sessions :
            /\ sessions'[t] = sessions[v] /\ sessions[v].live
            /\ t = m + 1 <=> v = s
            /\ t # m + 1 => v = t
      BY <1>8
    <3>2. PICK w \in DOMAIN sessions :
            /\ sessions'[u] = sessions[w] /\ sessions[w].live
            /\ u = m + 1 <=> w = s
            /\ u # m + 1 => w = u
      BY <1>8
    <3>3. v = w
      BY <3>1, <3>2 DEF SInv, OneWayIn
    <3> QED BY <3>1, <3>2, <3>3
  <2>2. \A i \in DOMAIN pairings, t \in 1..(m + 1) :
          IsOpen(i) /\ sessions'[t].live => pairings[i].person # sessions'[t].person
    BY <1>3, <1>4, <1>8 DEF SInv, OneWayIn
  <2>3. \A i, j \in DOMAIN pairings :
          IsOpen(i) /\ IsOpen(j) /\ pairings[i].person = pairings[j].person => i = j
    BY DEF SInv, OneWayIn
  <2> QED BY <1>3, <1>7, <2>1, <2>2, <2>3 DEF OneWayIn, IsOpen
<1>11. Backed'
  <2> SUFFICES ASSUME NEW t \in 1..(m + 1), sessions'[t].live
               PROVE  /\ sessions'[t].device \in DOMAIN devices
                      /\ devices[sessions'[t].device].status = "ACTIVE"
                      /\ devices[sessions'[t].device].person = sessions'[t].person
                      /\ standing[sessions'[t].person] = "ACTIVE"
                      /\ assignments[sessions'[t].person][sessions'[t].location].active
                      /\ sessions'[t].location \in DOMAIN devices[sessions'[t].device].allowed
    BY <1>3, <1>7 DEF Backed, IsActive
  <2>1. PICK u \in DOMAIN sessions : sessions'[t] = sessions[u] /\ sessions[u].live
    BY <1>8
  <2> QED BY <2>1 DEF SInv, Backed, IsActive
<1>12. ClaimIsFresh' /\ DeviceWithinAssignment'
  BY <1>3 DEF SInv, ClaimIsFresh, DeviceWithinAssignment
<1> QED BY <1>3, <1>9, <1>10, <1>11, <1>12 DEF SInv, StayOut

-----------------------------------------------------------------------------
(* Every step.                                                              *)

LEMMA StepSInv == SInv /\ [Next]_vars => SInv' /\ [StayOut]_vars
<1> SUFFICES ASSUME SInv, [Next]_vars PROVE SInv' /\ [StayOut]_vars
  OBVIOUS
<1>1. ASSUME NEW p \in People, Suspend(p) \/ Remove(p) \/ Deactivate(p)
      PROVE  SInv' /\ StayOut
  <2>1. PICK st \in Standing : Leaves(p, st)
    BY <1>1 DEF Suspend, Remove, Deactivate, Standing
  <2> QED BY <2>1, LeavesStep
<1>2. ASSUME NEW p \in People, Return(p) PROVE SInv' /\ StayOut
  BY <1>2, ReturnStep
<1>3. ASSUME NEW p \in People, NEW l \in Posts[p],
             NEW c \in Allowances, PutAssignment(p, l, c)
      PROVE  SInv' /\ StayOut
  BY <1>3, PutAssignmentStep, ManagersAssumption
<1>4. ASSUME NEW p \in People, NEW l \in Posts[p], RevokeAssignment(p, l)
      PROVE  SInv' /\ StayOut
  BY <1>4, RevokeAssignmentStep, ManagersAssumption
<1>5. ASSUME NEW p \in People, NEW g \in Requests, CreatePairing(p, g)
      PROVE  SInv' /\ StayOut
  BY <1>5, CreatePairingStep, RequestIsGrant
<1>6. CASE CloseOrganization
  BY <1>6, CloseStep
<1>7. ASSUME NEW i \in DOMAIN pairings, CancelPairing(i) \/ PairingLapses(i) \/ PairingExpires(i)
      PROVE  SInv' /\ StayOut
  BY <1>7, PairingEndStep
<1>8. ASSUME NEW i \in DOMAIN pairings, NEW d \in Devices, Claim(i, d) PROVE SInv' /\ StayOut
  BY <1>8, ClaimStep
<1>9. ASSUME NEW i \in DOMAIN pairings, Complete(i) PROVE SInv' /\ StayOut
  BY <1>9, CompleteStep
<1>10. ASSUME NEW d \in DOMAIN devices, NEW st \in {"REVOKED", "COMPROMISED"}, RevokeDevice(d, st)
       PROVE  SInv' /\ StayOut
  BY <1>10, RevokeDeviceStep
<1>11. ASSUME NEW s \in DOMAIN sessions, RefreshSession(s) PROVE SInv' /\ StayOut
  BY <1>11, RefreshStep
<1>12. ASSUME NEW s \in DOMAIN sessions, SessionEnds(s) PROVE SInv' /\ StayOut
  BY <1>12, SessionEndsStep
<1>13. ASSUME UNCHANGED <<standing, accessVars>> PROVE SInv' /\ StayOut
  <2>1. UNCHANGED <<standing, assignments, devices, pairings, sessions>>
    BY <1>13 DEF accessVars
  <2>2. PairingsKept /\ SessionsKept /\ DevicesKept
    BY <2>1, Unchanged
  <2>3. Backed' /\ DeviceWithinAssignment'
    BY <2>1 DEF SInv, Backed, IsActive, DeviceWithinAssignment
  <2> QED BY <2>1, <2>2, <2>3, RowFacts, KeptStep
<1>14. ASSUME NEW s \in DOMAIN sessions, Admit(s) \/ RefreshRefused(s)
       PROVE  SInv' /\ StayOut
  BY <1>13, <1>14 DEF Admit, RefreshRefused
<1>15. ASSUME NEW l \in Locations, ArchiveLocation(l) \/ RestoreLocation(l)
       PROVE  SInv' /\ StayOut
  BY <1>13, <1>15 DEF ArchiveLocation, RestoreLocation
<1>16. CASE Next
  BY <1>1, <1>2, <1>3, <1>4, <1>5, <1>6, <1>7, <1>8, <1>9, <1>10, <1>11, <1>12, <1>14, <1>15,
     <1>16 DEF Next
<1>17. CASE UNCHANGED vars
  BY <1>13, <1>17 DEF vars
<1> QED BY <1>16, <1>17

(* The locations in use and the refreshes under way keep to their types: no *)
(* step removes a session row.                                              *)
Sites == activeLocations \subseteq Locations /\ admitted \subseteq DOMAIN sessions

LEMMA StepSites == SInv /\ Sites /\ [Next]_vars => Sites'
<1> SUFFICES ASSUME SInv, Sites, [Next]_vars PROVE Sites'
  OBVIOUS
<1>1. sessions \in Seq(Session)
  BY DEF SInv, RowsOK
<1>2. \A E : EndsSessions(E) => DOMAIN sessions' = DOMAIN sessions
  BY DEF EndsSessions
<1>3. \A s \in Session : sessions' = Append(sessions, s) => DOMAIN sessions \subseteq DOMAIN sessions'
  BY <1>1
<1>4. ASSUME NEW s \in DOMAIN sessions, RefreshSession(s)
      PROVE  DOMAIN sessions \subseteq DOMAIN sessions' /\ admitted' \subseteq admitted
  <2>1. PICK old : old = [sessions EXCEPT ![s].live = FALSE]
    OBVIOUS
  <2>2. sessions[s] \in Session
    BY RowFacts
  <2>3. old \in Seq(Session) /\ DOMAIN old = DOMAIN sessions
    <3>1. [sessions[s] EXCEPT !.live = FALSE] \in Session
      BY <2>2 DEF Session
    <3>2. old = [sessions EXCEPT ![s] = [sessions[s] EXCEPT !.live = FALSE]]
      BY <2>1
    <3> QED BY <1>1, <3>1, <3>2
  <2>4. sessions' = Append(old, sessions[s])
    BY <1>4, <2>1 DEF RefreshSession
  <2> QED BY <1>4, <2>2, <2>3, <2>4 DEF RefreshSession
<1>5. ASSUME NEW i \in DOMAIN pairings, Complete(i)
      PROVE  DOMAIN sessions \subseteq DOMAIN sessions'
  <2>1. PICK s : sessions' = Append(sessions, s)
    BY <1>5 DEF Complete
  <2>2. sessions' \in Seq(Session)
    BY <1>5, CompleteStep DEF SInv, RowsOK
  <2> QED BY <1>1, <2>1, <2>2
<1>6. CASE UNCHANGED <<sessions, siteVars>>
  BY <1>6 DEF Sites, siteVars
<1>7. CASE UNCHANGED siteVars /\ DOMAIN sessions \subseteq DOMAIN sessions'
  BY <1>7 DEF Sites, siteVars
<1>8. CASE \E p \in People :
             \/ Suspend(p) \/ Remove(p) \/ Deactivate(p) \/ Return(p)
             \/ \E l \in Posts[p] : \/ \E c \in Allowances : PutAssignment(p, l, c)
                                    \/ RevokeAssignment(p, l)
             \/ \E g \in Requests : CreatePairing(p, g)
  BY <1>2, <1>6, <1>7, <1>8 DEF Suspend, Remove, Deactivate, Leaves, RevokesAccess, Return,
     accessVars, PutAssignment, RevokeAssignment, CreatePairing
<1>9. CASE CloseOrganization
  BY <1>2, <1>7, <1>9 DEF CloseOrganization
<1>10. CASE \E i \in DOMAIN pairings :
              \/ CancelPairing(i) \/ PairingLapses(i) \/ PairingExpires(i)
              \/ \E d \in Devices : Claim(i, d)
  BY <1>6, <1>10 DEF CancelPairing, PairingLapses, PairingExpires, Claim
<1>11. CASE \E i \in DOMAIN pairings : Complete(i)
  BY <1>5, <1>7, <1>11 DEF Complete
<1>12. CASE \E d \in DOMAIN devices, st \in {"REVOKED", "COMPROMISED"} : RevokeDevice(d, st)
  BY <1>2, <1>7, <1>12 DEF RevokeDevice
<1>13. CASE \E s \in DOMAIN sessions : Admit(s) \/ RefreshRefused(s)
  BY <1>13 DEF Admit, RefreshRefused, Sites, accessVars
<1>14. CASE \E s \in DOMAIN sessions : RefreshSession(s)
  BY <1>4, <1>14 DEF Sites, RefreshSession
<1>15. CASE \E s \in DOMAIN sessions : SessionEnds(s)
  BY <1>7, <1>15 DEF SessionEnds
<1>16. CASE \E l \in Locations : ArchiveLocation(l) \/ RestoreLocation(l)
  BY <1>16 DEF ArchiveLocation, RestoreLocation, Sites, accessVars
<1>17. CASE UNCHANGED vars
  BY <1>6, <1>17 DEF vars, accessVars
<1>18. CASE Next
  BY <1>8, <1>9, <1>10, <1>11, <1>12, <1>13, <1>14, <1>15, <1>16, <1>18 DEF Next
<1> QED BY <1>17, <1>18

-----------------------------------------------------------------------------
(* The theorems.                                                            *)

(* The invariant holds in every reachable state.                            *)
THEOREM AccessInvariant == Spec => []SInv
<1>1. SInv /\ [Next]_vars => SInv'
  BY StepSInv
<1> QED BY InitSInv, <1>1, PTL DEF Spec

(* Every variable stays in its type: standings, assignments, device rows,   *)
(* pairing and session rows within their bounds, and the refreshes under    *)
(* way are of sessions that have a row.                                     *)
THEOREM AccessTypes == Spec => []TypeOK
<1>1. Init => SInv /\ Sites
  BY InitSInv DEF Init, Sites
<1>2. (SInv /\ Sites) /\ [Next]_vars => (SInv /\ Sites)'
  BY StepSInv, StepSites
<1>3. SInv /\ Sites => TypeOK
  BY DEF SInv, Sites, TypeOK
<1> QED BY <1>1, <1>2, <1>3, PTL DEF Spec

(* A set with no two members is empty or a singleton.                       *)
LEMMA AtMostOne ==
  ASSUME NEW S, \A x, y \in S : x = y
  PROVE  Cardinality(S) \in {0, 1} /\ (Cardinality(S) = 1 => S # {})
<1>1. CASE S = {}
  BY <1>1, FS_EmptySet
<1>2. CASE S # {}
  <2>1. PICK x : S = {x}
    BY <1>2
  <2>2. Cardinality({x}) = 1
    BY FS_Singleton
  <2> QED BY <1>2, <2>1, <2>2
<1> QED BY <1>1, <1>2

(* A person holds at most one open pairing or live session, however the     *)
(* pairings, refreshes, revocations and departures interleave.              *)
THEOREM OneWayInEach == Spec => []AccessIsSingle
<1>1. SInv => AccessIsSingle
  <2> SUFFICES ASSUME SInv, NEW p \in People
               PROVE  Cardinality(OpenPairings(p)) + Cardinality(LiveSessions(p)) <= 1
    BY DEF AccessIsSingle
  <2>1. \A i, j \in OpenPairings(p) : i = j
    BY DEF SInv, OneWayIn, OpenPairings, IsOpen
  <2>2. \A s, t \in LiveSessions(p) : s = t
    BY DEF SInv, OneWayIn, LiveSessions, SessionsOf
  <2>3. OpenPairings(p) = {} \/ LiveSessions(p) = {}
    BY DEF SInv, OneWayIn, OpenPairings, IsOpen, LiveSessions, SessionsOf
  <2>4. /\ Cardinality(OpenPairings(p)) \in {0, 1}
        /\ Cardinality(OpenPairings(p)) = 1 => OpenPairings(p) # {}
    BY <2>1, AtMostOne
  <2>5. /\ Cardinality(LiveSessions(p)) \in {0, 1}
        /\ Cardinality(LiveSessions(p)) = 1 => LiveSessions(p) # {}
    BY <2>2, AtMostOne
  <2> QED BY <2>3, <2>4, <2>5
<1> QED BY AccessInvariant, <1>1, PTL

(* While a session lives, its device, membership, account and assignment    *)
(* let its person in, whichever of them were ended and given again before:  *)
(* the guard turns away the requests of a live session exactly when its     *)
(* location is archived, which ends no session.                             *)
THEOREM SessionsAreBacked == Spec => []LiveSessionIsBacked
<1>1. SInv => LiveSessionIsBacked
  BY DEF SInv, Backed, LiveSessionIsBacked, Admissible
<1> QED BY AccessInvariant, <1>1, PTL

(* A device never may do more at a location than the assignment of its      *)
(* person there last allowed.                                               *)
THEOREM DevicesStayNarrow == Spec => []DeviceWithinAssignment
<1>1. SInv => DeviceWithinAssignment
  BY DEF SInv
<1> QED BY AccessInvariant, <1>1, PTL

(* A device that was revoked or compromised is never made active again: a   *)
(* completion never finds a device row, because the claim it uses up was    *)
(* made when the installation had none.                                     *)
THEOREM RevokedDevicesAreOut == Spec => RevokedDevicesStayOut
<1>1. SInv /\ [Next]_vars
        => [\A d \in DOMAIN devices :
              devices[d].status # "ACTIVE" => devices'[d].status # "ACTIVE"]_vars
  BY StepSInv DEF StayOut
<1> QED BY AccessInvariant, <1>1, PTL DEF Spec, RevokedDevicesStayOut

=============================================================================
