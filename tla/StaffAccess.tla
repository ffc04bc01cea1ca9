----------------------------- MODULE StaffAccess -----------------------------
(***************************************************************************)
(* The devices the staff of an organization work with.  A manager makes a  *)
(* pairing for a person, an app installation claims it and completes it:   *)
(* that makes the device and its first session, which the device then      *)
(* refreshes.  What a device may do at a location is what the pairing      *)
(* asked for and the person's assignment there still allows.  The guard of *)
(* signed requests reads all this again for each of them, and the status   *)
(* of the location, which archiving changes without touching a session.    *)
(*                                                                         *)
(* Every operation is a serializable transaction, hence one step.  Of the  *)
(* team (module Team) only the standing of each person is kept: its        *)
(* membership and its account, "DEACTIVATED" standing for any membership   *)
(* of a closed account.  Who may act is the concern of Team: the owner     *)
(* always may, until the organization is closed.                           *)
(***************************************************************************)
EXTENDS Naturals, Sequences, FiniteSets

CONSTANTS People,         \* staff of the organization
          Devices,        \* app installations, each with its own key
          Locations, Capabilities,
          LocationLimit,  \* active locations the plan allows
          Posts,          \* person -> the locations managers assign it to
          Allowances,     \* the sets of capabilities managers give and ask for
          MaxPairings, MaxSessions   \* bounds on the rows ever created

ASSUME StaffAssumption == MaxPairings \in Nat /\ MaxSessions \in Nat
ASSUME ManagersAssumption ==
  /\ Posts \in [People -> SUBSET Locations]
  /\ Allowances \subseteq SUBSET Capabilities
  /\ LocationLimit \in Nat

None == "none"

Grant == UNION {[S -> SUBSET Capabilities] : S \in SUBSET Locations}
Requests == UNION {[S -> Allowances] : S \in SUBSET Locations}

Assignment == [active : BOOLEAN, allowed : SUBSET Capabilities]

Device == [person : People, status : {"ACTIVE", "REVOKED", "COMPROMISED"}, allowed : Grant]

Pairing == [person : People, requested : Grant, device : Devices \cup {None}, lapsed : BOOLEAN,
            status : {"PENDING", "CLAIMED", "COMPLETED", "EXPIRED", "CANCELED"}]

Session == [device : Devices, person : People, location : Locations, live : BOOLEAN]

VARIABLES standing,      \* membership and account of each person
          assignments,   \* what each person may do at each location
          devices,       \* the device row of each installation that has one
          pairings,      \* the pairing rows, oldest first
          sessions,      \* the device session rows, oldest first
          activeLocations,   \* the locations that are not archived
          admitted       \* sessions with a refresh past the guard, not yet made

accessVars == <<assignments, devices, pairings, sessions>>
siteVars == <<activeLocations, admitted>>
vars == <<standing, accessVars, siteVars>>

Standing == {"ACTIVE", "SUSPENDED", "REMOVED", "DEACTIVATED", "CLOSED"}

Init ==
  /\ standing = [p \in People |-> "ACTIVE"]
  /\ assignments = [p \in People |-> [l \in Locations |-> [active |-> FALSE, allowed |-> {}]]]
  /\ devices = [d \in {} |-> None]
  /\ pairings = <<>>
  /\ sessions = <<>>
  /\ activeLocations = Locations
  /\ admitted = {}

(***************************************************************************)
(* Ends of access.                                                         *)
(***************************************************************************)
Open == {"PENDING", "CLAIMED"}

\* The pairings once those of p that are still open are canceled.
\* Mutant: a pairing that has been claimed is not.
CanceledPending(p) ==
  [i \in DOMAIN pairings |->
     IF pairings[i].person = p /\ pairings[i].status = "PENDING"
     THEN [pairings[i] EXCEPT !.status = "CANCELED"]
     ELSE pairings[i]]
Canceled(p) ==
  [i \in DOMAIN pairings |->
     IF pairings[i].person = p /\ pairings[i].status \in Open
     THEN [pairings[i] EXCEPT !.status = "CANCELED"]
     ELSE pairings[i]]

SessionsOf(p) == {s \in DOMAIN sessions : sessions[s].person = p}

EndsSessions(ended) ==
  sessions' = [s \in DOMAIN sessions |->
                 IF s \in ended THEN [sessions[s] EXCEPT !.live = FALSE]
                 ELSE sessions[s]]

RevokesAccess(p) ==
  /\ pairings' = Canceled(p)
  /\ EndsSessions(SessionsOf(p))
  /\ UNCHANGED <<assignments, devices>>

(***************************************************************************)
(* Assignments to locations.                                               *)
(***************************************************************************)
IsActive(p) == standing[p] = "ACTIVE"
Managed(p) == standing[p] # "CLOSED"

\* Mutant: only a device in use is narrowed.
NarrowedIfActive(p, l, allowed) ==
  [d \in DOMAIN devices |->
     IF devices[d].person = p /\ devices[d].status = "ACTIVE" /\ l \in DOMAIN devices[d].allowed
     THEN [devices[d] EXCEPT !.allowed[l] = @ \cap allowed]
     ELSE devices[d]]
Narrowed(p, l, allowed) ==
  [d \in DOMAIN devices |->
     IF devices[d].person = p /\ l \in DOMAIN devices[d].allowed
     THEN [devices[d] EXCEPT !.allowed[l] = @ \cap allowed]
     ELSE devices[d]]

PutAssignment(p, l, allowed) ==
  /\ IsActive(p)
  /\ l \in activeLocations
  /\ allowed # {}
  /\ assignments[p][l] # [active |-> TRUE, allowed |-> allowed]
  /\ assignments' = [assignments EXCEPT ![p][l] = [active |-> TRUE, allowed |-> allowed]]
  /\ devices' = Narrowed(p, l, allowed)
  /\ pairings' = Canceled(p)
  /\ UNCHANGED <<standing, sessions, siteVars>>

\* Mutant: the sessions at the location are left alone.
RevokeAssignmentOnly(p, l) ==
  /\ Managed(p)
  /\ assignments[p][l].active
  /\ assignments' = [assignments EXCEPT ![p][l].active = FALSE]
  /\ pairings' = Canceled(p)
  /\ UNCHANGED <<standing, devices, sessions, siteVars>>
RevokeAssignment(p, l) ==
  /\ Managed(p)
  /\ assignments[p][l].active
  /\ assignments' = [assignments EXCEPT ![p][l].active = FALSE]
  /\ pairings' = Canceled(p)
  /\ EndsSessions({s \in SessionsOf(p) : sessions[s].location = l})
  /\ UNCHANGED <<standing, devices, siteVars>>

(***************************************************************************)
(* Pairing.  A new one ends every access its person had: sessions, open    *)
(* pairings and devices.                                                   *)
(***************************************************************************)
Assigned(p, requested) ==
  \A l \in DOMAIN requested :
     /\ l \in activeLocations
     /\ assignments[p][l].active /\ requested[l] \subseteq assignments[p][l].allowed

CreatePairing(p, requested) ==
  /\ Len(pairings) < MaxPairings
  /\ IsActive(p)
  /\ DOMAIN requested # {} /\ Assigned(p, requested)
  /\ pairings' = Append(Canceled(p), [person |-> p, requested |-> requested, device |-> None,
                                      lapsed |-> FALSE, status |-> "PENDING"])
  /\ EndsSessions(SessionsOf(p))
  /\ devices' = [d \in DOMAIN devices |->
                   IF devices[d].person = p /\ devices[d].status = "ACTIVE"
                   THEN [devices[d] EXCEPT !.status = "REVOKED"]
                   ELSE devices[d]]
  /\ UNCHANGED <<standing, assignments, siteVars>>

CancelPairing(i) ==
  /\ pairings[i].status \in Open
  /\ pairings' = [pairings EXCEPT ![i].status = "CANCELED"]
  /\ UNCHANGED <<standing, assignments, devices, sessions, siteVars>>

\* The token or the two minutes of its challenge run out.
PairingLapses(i) ==
  /\ pairings[i].status \in Open /\ ~ pairings[i].lapsed
  /\ pairings' = [pairings EXCEPT ![i].lapsed = TRUE]
  /\ UNCHANGED <<standing, assignments, devices, sessions, siteVars>>

\* Asking for the challenge again finds that it ran out.
PairingExpires(i) ==
  /\ pairings[i].status = "CLAIMED" /\ pairings[i].lapsed
  /\ pairings' = [pairings EXCEPT ![i].status = "EXPIRED"]
  /\ UNCHANGED <<standing, assignments, devices, sessions, siteVars>>

\* An installation that ever had a device row cannot claim again.
Claim(i, d) ==
  LET pairing == pairings[i]
  IN /\ pairing.status = "PENDING" /\ ~ pairing.lapsed
     /\ IsActive(pairing.person) /\ Assigned(pairing.person, pairing.requested)
     /\ d \notin DOMAIN devices
     /\ pairings' = [pairings EXCEPT ![i].status = "CLAIMED", ![i].device = d]
     /\ UNCHANGED <<standing, assignments, devices, sessions, siteVars>>

\* What is still allowed of a request, at the locations still assigned and
\* still active.
Effective(p, requested) ==
  [l \in {m \in DOMAIN requested : assignments[p][m].active /\ m \in activeLocations} |->
     requested[l] \cap assignments[p][l].allowed]

Completable(pairing) ==
  /\ pairing.status = "CLAIMED" /\ ~ pairing.lapsed
  /\ IsActive(pairing.person)

\* The device row is made, or made active again if the installation has one
\* of this person; the session is for one of the locations.
Complete(i) ==
  LET pairing == pairings[i]
      p == pairing.person
      d == pairing.device
      granted == Effective(p, pairing.requested)
  IN /\ Len(sessions) < MaxSessions
     /\ Completable(pairing)
     /\ DOMAIN granted = DOMAIN pairing.requested
     /\ d \in DOMAIN devices => devices[d].person = p
     /\ devices' = [e \in DOMAIN devices \cup {d} |->
                      IF e = d THEN [person |-> p, status |-> "ACTIVE", allowed |-> granted]
                      ELSE devices[e]]
     /\ \E l \in DOMAIN granted :
           sessions' = Append(sessions, [device |-> d, person |-> p, location |-> l,
                                         live |-> TRUE])
     /\ pairings' = [pairings EXCEPT ![i].status = "COMPLETED"]
     /\ UNCHANGED <<standing, assignments, siteVars>>

(***************************************************************************)
(* Devices and their sessions.                                             *)
(***************************************************************************)
RevokeDevice(d, status) ==
  /\ Managed(devices[d].person)
  /\ devices' = [devices EXCEPT ![d].status = status]
  /\ EndsSessions({s \in DOMAIN sessions : sessions[s].device = d})
  /\ UNCHANGED <<standing, assignments, pairings, siteVars>>

\* StaffDeviceGuard: what lets a signed request of a session through.
Admissible(s) ==
  LET p == sessions[s].person
      l == sessions[s].location
      device == devices[sessions[s].device]
  IN /\ sessions[s].live
     /\ device.status = "ACTIVE"
     /\ IsActive(p)
     /\ l \in activeLocations
     /\ assignments[p][l].active
     /\ l \in DOMAIN device.allowed

\* The guard lets a refresh through; its transaction comes later.
Admit(s) ==
  /\ Admissible(s)
  /\ admitted' = admitted \cup {s}
  /\ UNCHANGED <<standing, accessVars, activeLocations>>

\* assertDeviceOperational: neither the account of the person nor the location
\* is looked at here.
Refreshable(s) ==
  /\ sessions[s].live
  /\ devices[sessions[s].device].status = "ACTIVE"
  /\ standing[sessions[s].person] \in {"ACTIVE", "DEACTIVATED"}

\* Mutant: the session it replaces is not ended.
RefreshKeeping(s) ==
  /\ Len(sessions) < MaxSessions
  /\ s \in admitted /\ Refreshable(s)
  /\ sessions' = Append(sessions, sessions[s])
  /\ admitted' = admitted \ {s}
  /\ UNCHANGED <<standing, assignments, devices, pairings, activeLocations>>
RefreshSession(s) ==
  /\ Len(sessions) < MaxSessions
  /\ s \in admitted /\ Refreshable(s)
  /\ sessions' = Append([sessions EXCEPT ![s].live = FALSE], sessions[s])
  /\ admitted' = admitted \ {s}
  /\ UNCHANGED <<standing, assignments, devices, pairings, activeLocations>>

RefreshRefused(s) ==
  /\ s \in admitted /\ ~ Refreshable(s)
  /\ admitted' = admitted \ {s}
  /\ UNCHANGED <<standing, accessVars, activeLocations>>

\* The device logs out, or the session reaches its expiry.
SessionEnds(s) ==
  /\ sessions[s].live
  /\ sessions' = [sessions EXCEPT ![s].live = FALSE]
  /\ UNCHANGED <<standing, assignments, devices, pairings, siteVars>>

(***************************************************************************)
(* The steps of the team, with what they take from the devices.            *)
(***************************************************************************)
Leaves(p, status) ==
  /\ standing[p] \in {"ACTIVE", "SUSPENDED"} /\ status # standing[p]
  /\ standing' = [standing EXCEPT ![p] = status]
  /\ RevokesAccess(p)
  /\ UNCHANGED siteVars

Suspend(p) == Leaves(p, "SUSPENDED")
Remove(p) == Leaves(p, "REMOVED")
Deactivate(p) == Leaves(p, "DEACTIVATED")

\* A suspended member is taken back; a removed one accepts a new invitation.
Return(p) ==
  /\ standing[p] \in {"SUSPENDED", "REMOVED"}
  /\ standing' = [standing EXCEPT ![p] = "ACTIVE"]
  /\ UNCHANGED <<accessVars, siteVars>>

CloseOrganization ==
  /\ \E p \in People : Managed(p)
  /\ standing' = [p \in People |-> "CLOSED"]
  /\ devices' = [d \in DOMAIN devices |->
                   IF devices[d].status = "ACTIVE"
                   THEN [devices[d] EXCEPT !.status = "REVOKED"] ELSE devices[d]]
  /\ EndsSessions(DOMAIN sessions)
  /\ pairings' = [i \in DOMAIN pairings |->
                    IF pairings[i].status \in Open
                    THEN [pairings[i] EXCEPT !.status = "CANCELED"] ELSE pairings[i]]
  /\ UNCHANGED <<assignments, siteVars>>

(***************************************************************************)
(* The locations.  Archiving one revokes nothing: assignments, devices,    *)
(* pairings and sessions keep naming it.                                   *)
(***************************************************************************)
ArchiveLocation(l) ==
  /\ \E p \in People : Managed(p)
  /\ l \in activeLocations /\ Cardinality(activeLocations) > 1
  /\ activeLocations' = activeLocations \ {l}
  /\ UNCHANGED <<standing, accessVars, admitted>>

RestoreLocation(l) ==
  /\ \E p \in People : Managed(p)
  /\ l \notin activeLocations /\ Cardinality(activeLocations) < LocationLimit
  /\ activeLocations' = activeLocations \cup {l}
  /\ UNCHANGED <<standing, accessVars, admitted>>

Next ==
  \/ \E p \in People :
        \/ Suspend(p) \/ Remove(p) \/ Deactivate(p) \/ Return(p)
        \/ \E l \in Posts[p] : \/ \E c \in Allowances : PutAssignment(p, l, c)
                               \/ RevokeAssignment(p, l)
        \/ \E g \in Requests : CreatePairing(p, g)
  \/ CloseOrganization
  \/ \E i \in DOMAIN pairings :
        \/ CancelPairing(i) \/ PairingLapses(i) \/ PairingExpires(i)
        \/ \E d \in Devices : Claim(i, d)
        \/ Complete(i)
  \/ \E d \in DOMAIN devices, st \in {"REVOKED", "COMPROMISED"} : RevokeDevice(d, st)
  \/ \E s \in DOMAIN sessions :
        Admit(s) \/ RefreshSession(s) \/ RefreshRefused(s) \/ SessionEnds(s)
  \/ \E l \in Locations : ArchiveLocation(l) \/ RestoreLocation(l)

Spec == Init /\ [][Next]_vars

(***************************************************************************)
(* Properties.                                                             *)
(***************************************************************************)
RowsOK ==
  /\ standing \in [People -> Standing]
  /\ assignments \in [People -> [Locations -> Assignment]]
  /\ DOMAIN devices \subseteq Devices
  /\ \A d \in DOMAIN devices : devices[d] \in Device
  /\ pairings \in Seq(Pairing) /\ Len(pairings) <= MaxPairings
  /\ sessions \in Seq(Session) /\ Len(sessions) <= MaxSessions

TypeOK ==
  /\ RowsOK
  /\ activeLocations \subseteq Locations
  /\ admitted \subseteq DOMAIN sessions

\* A person holds at most one way in: one open pairing or one live session,
\* never both or two of either.  createPairing ends what went before, complete
\* uses the pairing up, and refreshSession ends the session it replaces.
OpenPairings(p) == {i \in DOMAIN pairings : pairings[i].person = p /\ pairings[i].status \in Open}
LiveSessions(p) == {s \in SessionsOf(p) : sessions[s].live}

AccessIsSingle ==
  \A p \in People : Cardinality(OpenPairings(p)) + Cardinality(LiveSessions(p)) <= 1

\* Of all that let a person in, only the location may be missing while the
\* session lives: the guard turns away the request of a live session exactly
\* when its location is archived.  The device, the membership, the account and
\* the assignment end in other services, and each of them revokes the sessions
\* in the transaction that ends it; archiving a location revokes none, so there
\* the guard is the only check, and a refresh that passed it still goes through.
LiveSessionIsBacked ==
  \A s \in DOMAIN sessions : sessions[s].live =>
     /\ Admissible(s) <=> sessions[s].location \in activeLocations
     /\ devices[sessions[s].device].person = sessions[s].person

\* What a device may do at a location never exceeds what its person's
\* assignment there last allowed, through every narrowing, revocation and new
\* provisioning in between (putLocationAssignment narrows the device rows).
DeviceWithinAssignment ==
  \A d \in DOMAIN devices : \A l \in DOMAIN devices[d].allowed :
     devices[d].allowed[l] \subseteq assignments[devices[d].person][l].allowed

\* A device that was revoked never becomes active again, though complete sets
\* ACTIVE on the row it finds: no claim made before the revocation is left.
RevokedDevicesStayOut ==
  [][\A d \in DOMAIN devices :
        devices[d].status # "ACTIVE" => devices'[d].status # "ACTIVE"]_vars

=============================================================================
