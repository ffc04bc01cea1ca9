---------------------- MODULE WalletStateChange_proofs ----------------------
(***************************************************************************)
(* What the Apple lock and the pass locks of queueWalletPassStateChange    *)
(* give, for every set of passes, transactions, plans and devices.         *)
(***************************************************************************)
EXTENDS WalletStateChange, FiniteSetTheorems, TLAPS

(* Whoever locks an Apple pass holds the Apple lock, and so does whoever    *)
(* drew a sequence it has not committed; that sequence is above all that is *)
(* committed and all that a device was told.                                *)
SequenceInv ==
  /\ \A p \in ApplePasses : passLock[p] # None => appleLock = passLock[p]
  /\ \A p \in ApplePasses : rows[p].sequence <= sequence
  /\ \A d \in Devices : device[d].since <= sequence
  /\ \A t \in Transactions : \A u \in work[t] : u.pass \in ApplePasses =>
       /\ appleLock = t
       /\ u.sequence <= sequence
       /\ \A q \in ApplePasses : u.sequence > rows[q].sequence
       /\ \A d \in Devices : u.sequence > device[d].since

SInv == TypeOK /\ SequenceInv

(* The row that a commit leaves: the pass is not in the work, or one of its *)
(* updates became the row.                                                  *)
LEMMA CommittedRow ==
  ASSUME TypeOK, NEW t \in Transactions, Commit(t), NEW p \in Passes
  PROVE  \/ rows'[p] = rows[p] /\ \A u \in work[t] : u.pass # p
         \/ \E u \in work[t] :
              /\ u.pass = p
              /\ rows'[p] = [exists |-> TRUE, updateTag |-> u.updateTag,
                             sequence |-> u.sequence]
              /\ rows'[p].exists
              /\ rows'[p].updateTag = u.updateTag
              /\ rows'[p].sequence = u.sequence
<1> DEFINE Chosen == CHOOSE u \in work[t] : u.pass = p
<1>1. CASE \E u \in work[t] : u.pass = p
  <2>1. Chosen \in work[t] /\ Chosen.pass = p
    BY <1>1
  <2>2. rows'[p] = [exists |-> TRUE, updateTag |-> Chosen.updateTag,
                    sequence |-> Chosen.sequence]
    BY <1>1 DEF Commit
  <2>3. /\ rows'[p].exists
        /\ rows'[p].updateTag = Chosen.updateTag
        /\ rows'[p].sequence = Chosen.sequence
    BY <2>2
  <2> HIDE DEF Chosen
  <2> QED BY <2>1, <2>2, <2>3
<1>2. CASE ~ \E u \in work[t] : u.pass = p
  BY <1>2 DEF Commit
<1> QED BY <1>1, <1>2

(* What drawing a sequence does to the work of a transaction.               *)
LEMMA DrawnWork ==
  ASSUME TypeOK, NEW t \in Transactions, NEW tag \in Nat, Working(t), Draw(t, tag)
  PROVE  /\ Current(t) \in Passes
         /\ sequence' \in Nat /\ sequence' >= sequence
         /\ work' \in [Transactions -> SUBSET Update]
         /\ \E new \in Update :
              /\ work' = [work EXCEPT ![t] = @ \cup {new}]
              /\ new.pass = Current(t)
              /\ Current(t) \in ApplePasses =>
                   new.updateTag = tag /\ new.sequence = sequence + 1 /\ sequence' = sequence + 1
<1>1. Current(t) \in Passes
  BY PlanAssumption DEF Working, Current
<1>2. CASE Current(t) \in ApplePasses
  <2> DEFINE new == [pass |-> Current(t), updateTag |-> tag, sequence |-> sequence']
  <2>1. sequence' = sequence + 1 /\ work' = [work EXCEPT ![t] = @ \cup {new}]
    BY <1>2 DEF Draw
  <2>2. new \in Update
    BY <1>1, <2>1 DEF Update, TypeOK
  <2>3. sequence' \in Nat /\ sequence' >= sequence
    BY <2>1 DEF TypeOK
  <2>4. work' \in [Transactions -> SUBSET Update]
    BY <2>1, <2>2 DEF TypeOK
  <2> HIDE DEF new
  <2>5. new.pass = Current(t) /\ new.updateTag = tag /\ new.sequence = sequence'
    BY DEF new
  <2> QED BY <1>1, <1>2, <2>1, <2>2, <2>3, <2>4, <2>5
<1>3. CASE Current(t) \notin ApplePasses
  <2> DEFINE new == [pass |-> Current(t), updateTag |-> rows[Current(t)].updateTag,
                     sequence |-> 0]
  <2>1. sequence' = sequence /\ work' = [work EXCEPT ![t] = @ \cup {new}]
    BY <1>3 DEF Draw
  <2>2. new \in Update
    BY <1>1 DEF Update, TypeOK, Row
  <2>3. sequence' \in Nat /\ sequence' >= sequence
    BY <2>1 DEF TypeOK
  <2>4. work' \in [Transactions -> SUBSET Update]
    BY <2>1, <2>2 DEF TypeOK
  <2> HIDE DEF new
  <2>5. new.pass = Current(t)
    BY DEF new
  <2> QED BY <1>1, <1>3, <2>1, <2>2, <2>3, <2>4, <2>5
<1> QED BY <1>2, <1>3

(* A committed sequence is the row's old one, or the drawn one of an update *)
(* of the transaction.                                                      *)
LEMMA CommittedSequence ==
  ASSUME SInv, NEW t \in Transactions, Commit(t), NEW p \in ApplePasses
  PROVE  \/ rows'[p] = rows[p]
         \/ /\ \A q \in ApplePasses : rows'[p].sequence > rows[q].sequence
            /\ \A d \in Devices : rows'[p].sequence > device[d].since
<1>1. p \in Passes /\ TypeOK
  BY PassesAssumption DEF SInv
<1>2. CASE \E u \in work[t] : u.pass = p /\ rows'[p].sequence = u.sequence
  <2>1. PICK u \in work[t] : u.pass = p /\ rows'[p].sequence = u.sequence
    BY <1>2
  <2> QED BY <2>1 DEF SInv, SequenceInv
<1> QED BY <1>1, <1>2, CommittedRow, ZenonT(60)

(* What a device's own steps change: the pass at hand, and neither its      *)
(* sequence nor its listing.                                                *)
LEMMA DeviceStep ==
  ASSUME TypeOK, NEW d \in Devices, NEW q \in ApplePasses,
         Add(d, q) \/ Register(d, q) \/ Unregister(d, q) \/ Download(d, q)
  PROVE  /\ rows' = rows
         /\ \A e \in Devices : /\ device'[e].since = device[e].since
                               /\ device'[e].listed = device[e].listed
         /\ \A e \in Devices : \A p \in ApplePasses : e # d \/ p # q =>
              /\ p \in device'[e].registered <=> p \in device[e].registered
              /\ p \in device'[e].wanted <=> p \in device[e].wanted
              /\ device'[e].copy[p] = device[e].copy[p]
              /\ device'[e].base[p] = device[e].base[p]
         /\ q \in device'[d].registered =>
              \/ device'[d].base[q] = rows[q].sequence
              \/ device'[d].copy[q] = rows[q].sequence
<1>1. /\ \A e \in Devices : device[e] \in Wallet
      /\ \A p \in ApplePasses : p \in Passes
  BY PassesAssumption DEF TypeOK
<1>2. CASE Add(d, q)
  BY <1>1, <1>2 DEF Add, TypeOK, Wallet, database
<1>3. CASE Register(d, q)
  BY <1>1, <1>3 DEF Register, TypeOK, Wallet, database
<1>4. CASE Unregister(d, q)
  BY <1>1, <1>4 DEF Unregister, TypeOK, Wallet, database
<1>5. CASE Download(d, q)
  BY <1>1, <1>5 DEF Download, TypeOK, Wallet, database
<1> QED BY <1>2, <1>3, <1>4, <1>5

(* A transaction's progress keeps its type.                                 *)
LEMMA AdvanceType ==
  ASSUME TypeOK, NEW t \in Transactions, Advance(t)
  PROVE  txn' \in [Transactions -> Progress]
<1>1. txn[t] \in Progress
  BY DEF TypeOK
<1>2. [txn[t] EXCEPT !.position = @ + 1] \in Progress
  BY <1>1 DEF Progress
<1> QED BY <1>2 DEF Advance, TypeOK

LEMMA PlaceType ==
  ASSUME TypeOK, NEW t \in Transactions, NEW place \in {"idle", "open", "committed"},
         txn' = [txn EXCEPT ![t].place = place]
  PROVE  txn' \in [Transactions -> Progress]
<1>1. txn[t] \in Progress
  BY DEF TypeOK
<1>2. [txn[t] EXCEPT !.place = place] \in Progress
  BY <1>1 DEF Progress
<1> QED BY <1>2 DEF TypeOK

-----------------------------------------------------------------------------
LEMMA InitSInv == Init => SInv
<1> SUFFICES ASSUME Init PROVE SInv
  OBVIOUS
<1>1. sequence \in Nat
  BY PassesAssumption, FS_CardinalityType, FS_Subset DEF Init
<1>2. PICK number \in [ApplePasses \ Inserted -> 1..sequence] :
        rows = [p \in Passes |->
            [exists |-> p \notin Inserted,
             updateTag |-> FirstTag,
             sequence |-> IF p \in ApplePasses \ Inserted THEN number[p] ELSE 0]]
  BY DEF Init
<1>3. \A p \in Passes : rows[p] \in Row /\ rows[p].sequence <= sequence
  BY <1>1, <1>2 DEF Row, FirstTag
<1>4. rows \in [Passes -> Row]
  BY <1>2, <1>3
<1>5. TypeOK
  <2>1. \A t \in Transactions : txn[t] \in Progress
    BY DEF Init, Progress
  <2>2. txn \in [Transactions -> Progress]
    BY <2>1 DEF Init
  <2>3. \A d \in Devices : device[d] \in Wallet /\ device[d].listed = {}
    BY DEF Init, Wallet
  <2>4. device \in [Devices -> Wallet]
    BY <2>3 DEF Init
  <2> QED BY <1>1, <1>4, <2>2, <2>3, <2>4 DEF Init, TypeOK
<1>6. \A d \in Devices : device[d].since <= sequence
  <2>1. \A d \in Devices : device[d].since = 0
    BY DEF Init
  <2> QED BY <1>1, <2>1
<1>7. \A t \in Transactions : work[t] = {}
  BY DEF Init
<1>8. \A p \in ApplePasses : passLock[p] = None
  BY PassesAssumption DEF Init
<1>9. SequenceInv
  BY <1>3, <1>6, <1>7, <1>8, PassesAssumption DEF SequenceInv
<1> QED BY <1>5, <1>9 DEF SInv

(* Every step keeps the types.                                              *)
LEMMA StepTypeOK == TypeOK /\ [Next]_vars => TypeOK'
<1> SUFFICES ASSUME TypeOK, [Next]_vars PROVE TypeOK'
  OBVIOUS
<1> USE DEF database, locks
<1>1. CASE UNCHANGED vars
  BY <1>1 DEF vars, TypeOK
<1>2. ASSUME NEW t \in Transactions, Begin(t) PROVE TypeOK'
  BY <1>2 DEF Begin, TypeOK, Progress
<1>3. ASSUME NEW t \in Transactions, LockApple(t) PROVE TypeOK'
  BY <1>3 DEF LockApple, TypeOK
<1>4. ASSUME NEW t \in Transactions, LockPass(t) PROVE TypeOK'
  BY <1>4 DEF LockPass, TypeOK
<1>5. ASSUME NEW t \in Transactions, Replay(t) PROVE TypeOK'
  BY <1>5, AdvanceType DEF Replay, TypeOK
<1>6. ASSUME NEW t \in Transactions, Change(t) PROVE TypeOK'
  <2>1. Working(t) /\ Current(t) \in Passes
    BY <1>6, PlanAssumption DEF Change, Locked, Working, Current
  <2>2. rows[Current(t)].updateTag + 1 \in Nat
    BY <2>1 DEF TypeOK, Row
  <2>3. sequence' \in Nat /\ work' \in [Transactions -> SUBSET Update]
    BY <1>6, <2>1, <2>2, DrawnWork DEF Change
  <2>4. txn' \in [Transactions -> Progress]
    BY <1>6, AdvanceType DEF Change
  <2> QED BY <1>6, <2>3, <2>4 DEF Change, TypeOK
<1>7. ASSUME NEW t \in Transactions, Insert(t) PROVE TypeOK'
  <2>1. sequence' \in Nat /\ work' \in [Transactions -> SUBSET Update]
    BY <1>7, DrawnWork DEF Insert, FirstTag
  <2>2. txn' \in [Transactions -> Progress]
    BY <1>7, AdvanceType DEF Insert
  <2> QED BY <1>7, <2>1, <2>2 DEF Insert, TypeOK
<1>8. ASSUME NEW t \in Transactions, Commit(t) PROVE TypeOK'
  <2>1. ASSUME NEW p \in Passes PROVE rows'[p] \in Row
    <3>1. CASE rows'[p] = rows[p]
      BY <3>1 DEF TypeOK
    <3>2. CASE \E u \in work[t] : rows'[p] = [exists |-> TRUE, updateTag |-> u.updateTag,
                                             sequence |-> u.sequence]
      BY <3>2 DEF TypeOK, Row, Update
    <3> QED BY <1>8, <3>1, <3>2, CommittedRow
  <2>2. rows' \in [Passes -> Row]
    BY <1>8, <2>1 DEF Commit
  <2>3. Event[t] \in Events
    BY DEF Events
  <2>4. \A u \in work[t] : u.pass \in Passes
    BY DEF TypeOK, Update
  <2>5. commands' \subseteq Events \X Passes
    BY <1>8, <2>3, <2>4 DEF Commit, TypeOK
  <2>6. appleLock' \in Transactions \cup {None}
        /\ passLock' \in [Passes -> Transactions \cup {None}]
    BY <1>8 DEF Commit, Release, TypeOK
  <2>7. txn' \in [Transactions -> Progress]
    BY <1>8, PlaceType DEF Commit
  <2>8. work' \in [Transactions -> SUBSET Update]
    BY <1>8 DEF Commit, TypeOK
  <2> QED BY <1>8, <2>2, <2>5, <2>6, <2>7, <2>8 DEF Commit, TypeOK
<1>9. ASSUME NEW t \in Transactions, Abort(t) PROVE TypeOK'
  <2>1. txn' \in [Transactions -> Progress]
    BY <1>9, PlaceType DEF Abort
  <2> QED BY <1>9, <2>1 DEF Abort, Release, TypeOK
<1>10. ASSUME NEW d \in Devices, NEW new \in Wallet, device' = [device EXCEPT ![d] = new],
              new.listed # {} => new.last \in new.listed,
              UNCHANGED <<database, sequence, locks, txn, work>>
       PROVE  TypeOK'
  BY <1>10 DEF TypeOK
<1>11. \A d \in Devices : device[d] \in Wallet
  BY DEF TypeOK
<1>18. \A d \in Devices : device[d].listed # {} => device[d].last \in device[d].listed
  BY DEF TypeOK
<1>12. \A p \in ApplePasses : p \in Passes /\ rows[p].sequence \in Nat
  BY PassesAssumption DEF TypeOK, Row
<1>13. ASSUME NEW d \in Devices, NEW serials \in SUBSET ApplePasses, NEW last \in ApplePasses,
              Answer(d, serials, last), UNCHANGED <<database, sequence, locks, txn, work>>
       PROVE  TypeOK'
  <2> DEFINE new == [device[d] EXCEPT !.since = rows[last].sequence,
                                      !.wanted = @ \cup (serials \cap device[d].registered),
                                      !.listed = {}, !.last = None]
  <2>1. new \in Wallet /\ new.listed = {}
    BY <1>11, <1>12 DEF Wallet
  <2>2. device' = [device EXCEPT ![d] = new]
    BY <1>11, <1>13 DEF Answer, Wallet
  <2> QED BY <1>10, <1>13, <2>1, <2>2
<1>14. ASSUME NEW d \in Devices, Poll(d) PROVE TypeOK'
  <2>1. PICK last \in Newest(Updated(d)) : Answer(d, Updated(d), last)
    BY <1>14 DEF Poll
  <2>2. Updated(d) \subseteq ApplePasses /\ last \in ApplePasses
    BY <1>11, <2>1 DEF Newest, Updated, Wallet
  <2> QED BY <1>13, <1>14, <2>1, <2>2 DEF Poll
<1>15. ASSUME NEW d \in Devices, ListRegistrations(d) PROVE TypeOK'
  <2>1. PICK last \in Newest(Updated(d)) :
          device' = [device EXCEPT ![d].listed = Updated(d), ![d].last = last]
    BY <1>15 DEF ListRegistrations
  <2>2. Updated(d) \subseteq ApplePasses /\ last \in ApplePasses
    BY <1>11, <2>1 DEF Newest, Updated, Wallet
  <2> DEFINE new == [device[d] EXCEPT !.listed = Updated(d), !.last = last]
  <2>3. new \in Wallet
    BY <1>11, <2>2 DEF Wallet
  <2>5. new.last \in new.listed
    BY <1>11, <2>1 DEF Wallet, Newest
  <2>4. device' = [device EXCEPT ![d] = new]
    BY <2>1
  <2> QED BY <1>10, <1>15, <2>3, <2>4, <2>5 DEF ListRegistrations
<1>16. ASSUME NEW d \in Devices, ReadListed(d) PROVE TypeOK'
  BY <1>11, <1>13, <1>16, <1>18 DEF ReadListed, Wallet
<1>17. ASSUME NEW d \in Devices, NEW p \in ApplePasses,
              Add(d, p) \/ Register(d, p) \/ Unregister(d, p) \/ Download(d, p)
       PROVE  TypeOK'
  <2> DEFINE copied == [device[d] EXCEPT !.copy[p] = rows[p].sequence]
             enrolled == [device[d] EXCEPT !.registered = @ \cup {p},
                                           !.base[p] = rows[p].sequence]
             removed == [device[d] EXCEPT !.registered = @ \ {p}, !.wanted = @ \ {p},
                                          !.copy[p] = 0]
             fetched == [device[d] EXCEPT !.copy[p] = rows[p].sequence, !.wanted = @ \ {p}]
  <2>1. /\ copied \in Wallet /\ enrolled \in Wallet
        /\ removed \in Wallet /\ fetched \in Wallet
    BY <1>11, <1>12 DEF Wallet
  <2>6. \A new \in {copied, enrolled, removed, fetched} :
          new.listed # {} => new.last \in new.listed
    BY <1>11, <1>18 DEF Wallet
  <2>2. CASE Add(d, p)
    <3>1. device' = [device EXCEPT ![d] = copied]
      BY <2>2 DEF Add
    <3> QED BY <1>10, <2>1, <2>6, <2>2, <3>1 DEF Add
  <2>3. CASE Register(d, p)
    <3>1. device' = [device EXCEPT ![d] = enrolled]
      BY <2>3 DEF Register
    <3> QED BY <1>10, <2>1, <2>6, <2>3, <3>1 DEF Register
  <2>4. CASE Unregister(d, p)
    <3>1. device' = [device EXCEPT ![d] = removed]
      BY <2>4 DEF Unregister
    <3> QED BY <1>10, <2>1, <2>6, <2>4, <3>1 DEF Unregister
  <2>5. CASE Download(d, p)
    <3>1. device' = [device EXCEPT ![d] = fetched]
      BY <2>5 DEF Download
    <3> QED BY <1>10, <2>1, <2>6, <2>5, <3>1 DEF Download
  <2> QED BY <1>17, <2>2, <2>3, <2>4, <2>5
<1> QED
  BY <1>1, <1>2, <1>3, <1>4, <1>5, <1>6, <1>7, <1>8, <1>9, <1>14, <1>15, <1>16, <1>17 DEF Next

(* The Apple lock keeps the drawn sequences above what is committed, and    *)
(* what a listing tells a device is committed.                              *)
LEMMA StepSequenceInv == SInv /\ [Next]_vars => SequenceInv'
<1> SUFFICES ASSUME SInv, [Next]_vars PROVE SequenceInv'
  OBVIOUS
<1> USE DEF database, locks
<1>1. /\ TypeOK /\ TypeOK' /\ SequenceInv
      /\ \A p \in ApplePasses : p \in Passes
      /\ \A p \in Passes : rows[p].sequence \in Nat /\ rows'[p].sequence \in Nat
      /\ sequence \in Nat /\ sequence' \in Nat
      /\ \A d \in Devices : device[d].since \in Nat /\ device'[d].since \in Nat
      /\ \A t \in Transactions : \A u \in work[t] : u.sequence \in Nat
  BY StepTypeOK, PassesAssumption DEF SInv, TypeOK, Row, Update, Wallet
<1>2. ASSUME UNCHANGED <<rows, sequence, locks, work>>,
             \A d \in Devices : device'[d].since = device[d].since
      PROVE  SequenceInv'
  BY <1>1, <1>2 DEF SequenceInv
<1>3. CASE UNCHANGED vars
  BY <1>2, <1>3 DEF vars
<1>4. ASSUME NEW t \in Transactions, Begin(t) \/ Replay(t) PROVE SequenceInv'
  BY <1>2, <1>4 DEF Begin, Replay
<1>5. ASSUME NEW t \in Transactions, LockPass(t) PROVE SequenceInv'
  <2>1. \A p \in ApplePasses : passLock'[p] # None => appleLock' = passLock'[p]
    BY <1>1, <1>5 DEF LockPass, WantsPassLock, NeedsAppleLock, SequenceInv, TypeOK
  <2> QED BY <1>1, <1>5, <2>1 DEF LockPass, SequenceInv
<1>51. ASSUME NEW t \in Transactions, LockApple(t) PROVE SequenceInv'
  <2>1. \A s \in Transactions : s # None
    BY NoneAssumption
  <2>2. \A p \in ApplePasses : passLock[p] = None
    BY <1>1, <1>51, <2>1 DEF LockApple, SequenceInv, TypeOK
  <2>3. \A s \in Transactions : \A u \in work[s] : u.pass \notin ApplePasses
    BY <1>1, <1>51, <2>1 DEF LockApple, SequenceInv
  <2> QED BY <1>1, <1>51, <2>2, <2>3 DEF LockApple, SequenceInv
<1>6. ASSUME NEW t \in Transactions, NEW tag \in Nat, Working(t), Draw(t, tag),
             Current(t) \in ApplePasses => appleLock = t,
             UNCHANGED <<rows, locks, device>>
      PROVE  SequenceInv'
  <2>1. PICK new \in Update :
          /\ work' = [work EXCEPT ![t] = @ \cup {new}]
          /\ new.pass = Current(t)
          /\ Current(t) \in ApplePasses =>
               new.updateTag = tag /\ new.sequence = sequence + 1 /\ sequence' = sequence + 1
    BY <1>1, <1>6, DrawnWork
  <2>2. sequence' >= sequence
    BY <1>1, <1>6, DrawnWork
  <2>3. \A p \in ApplePasses : rows'[p].sequence <= sequence'
    BY <1>1, <1>6, <2>2 DEF SequenceInv
  <2>4. \A d \in Devices : device'[d].since <= sequence'
    BY <1>1, <1>6, <2>2 DEF SequenceInv
  <2>5. ASSUME NEW s \in Transactions, NEW u \in work'[s], u.pass \in ApplePasses
        PROVE  /\ appleLock' = s
               /\ u.sequence <= sequence'
               /\ \A q \in ApplePasses : u.sequence > rows'[q].sequence
               /\ \A d \in Devices : u.sequence > device'[d].since
    <3>1. CASE u \in work[s]
      BY <1>1, <1>6, <2>2, <2>5, <3>1 DEF SequenceInv
    <3>2. CASE u \notin work[s]
      <4>1. s = t /\ u = new
        BY <1>1, <2>1, <2>5, <3>2 DEF TypeOK
      <4>2. u.sequence = sequence + 1 /\ sequence' = sequence + 1 /\ appleLock = t
        BY <1>6, <2>1, <2>5, <4>1
      <4>3. (\A q \in ApplePasses : rows[q].sequence <= sequence)
            /\ \A d \in Devices : device[d].since <= sequence
        BY <1>1 DEF SequenceInv
      <4> QED BY <1>1, <1>6, <4>1, <4>2, <4>3
    <3> QED BY <3>1, <3>2
  <2> QED BY <1>1, <1>6, <2>3, <2>4, <2>5 DEF SequenceInv
<1>7. ASSUME NEW t \in Transactions, Change(t) PROVE SequenceInv'
  <2>1. Working(t) /\ Current(t) \in Passes /\ passLock[Current(t)] = t
    BY <1>7, PlanAssumption DEF Change, Locked, Working, Current
  <2>2. Current(t) \in ApplePasses => appleLock = t
    BY <1>1, <2>1, NoneAssumption DEF SequenceInv
  <2>3. rows[Current(t)].updateTag + 1 \in Nat
    BY <1>1, <2>1 DEF TypeOK, Row
  <2> QED BY <1>6, <1>7, <2>1, <2>2, <2>3 DEF Change
<1>8. ASSUME NEW t \in Transactions, Insert(t) PROVE SequenceInv'
  BY <1>6, <1>8 DEF Insert, NeedsAppleLock, FirstTag
<1>9. ASSUME NEW t \in Transactions, Release(t), work' = [work EXCEPT ![t] = {}],
             UNCHANGED <<sequence, device>>,
             \A p \in Passes :
               \/ rows'[p] = rows[p]
               \/ \E u \in work[t] : u.pass = p /\ rows'[p].sequence = u.sequence
      PROVE  SequenceInv'
  <2>1. \A s \in Transactions : s # None
    BY NoneAssumption
  <2>2. \A p \in ApplePasses : passLock'[p] # None => appleLock' = passLock'[p]
    BY <1>1, <1>9, <2>1 DEF Release, SequenceInv, TypeOK
  <2>3. \A p \in ApplePasses : rows'[p].sequence <= sequence'
    BY <1>1, <1>9 DEF SequenceInv
  <2>4. \A d \in Devices : device'[d].since <= sequence'
    BY <1>1, <1>9 DEF SequenceInv
  <2>5. ASSUME NEW s \in Transactions, NEW u \in work'[s], u.pass \in ApplePasses
        PROVE  /\ appleLock' = s
               /\ u.sequence <= sequence'
               /\ \A q \in ApplePasses : u.sequence > rows'[q].sequence
               /\ \A d \in Devices : u.sequence > device'[d].since
    <3>1. s # t /\ u \in work[s] /\ appleLock = s
      BY <1>1, <1>9, <2>5 DEF TypeOK, SequenceInv
    <3>2. \A q \in ApplePasses : rows'[q] = rows[q]
      BY <1>1, <1>9, <3>1 DEF SequenceInv
    <3> QED BY <1>1, <1>9, <2>5, <3>1, <3>2 DEF SequenceInv, Release
  <2> QED BY <2>2, <2>3, <2>4, <2>5 DEF SequenceInv
<1>10. ASSUME NEW t \in Transactions, Commit(t) PROVE SequenceInv'
  <2>1. \A p \in Passes :
          \/ rows'[p] = rows[p]
          \/ \E u \in work[t] : u.pass = p /\ rows'[p].sequence = u.sequence
    BY <1>1, <1>10, CommittedRow, ZenonT(60)
  <2> QED BY <1>9, <1>10, <2>1 DEF Commit
<1>11. ASSUME NEW t \in Transactions, Abort(t) PROVE SequenceInv'
  BY <1>9, <1>11 DEF Abort
<1>12. ASSUME NEW d \in Devices, NEW last \in ApplePasses, NEW serials, Answer(d, serials, last),
              UNCHANGED <<database, sequence, locks, txn, work>>
       PROVE  SequenceInv'
  <2>1. \A e \in Devices : \/ device'[e].since = device[e].since
                           \/ device'[e].since = rows[last].sequence
    BY <1>1, <1>12, ZenonT(60) DEF Answer, TypeOK, Wallet
  <2> QED BY <1>1, <1>12, <2>1 DEF SequenceInv
<1>13. ASSUME NEW d \in Devices, Poll(d) PROVE SequenceInv'
  BY <1>1, <1>12, <1>13 DEF Poll, Newest, Updated, TypeOK, Wallet
<1>14. ASSUME NEW d \in Devices, ReadListed(d) PROVE SequenceInv'
  BY <1>1, <1>12, <1>14 DEF ReadListed, TypeOK, Wallet
<1>15. ASSUME NEW d \in Devices, ListRegistrations(d) PROVE SequenceInv'
  <2>1. \A e \in Devices : device'[e].since = device[e].since
    BY <1>1, <1>15 DEF ListRegistrations, TypeOK, Wallet
  <2> QED BY <1>2, <1>15, <2>1 DEF ListRegistrations
<1>16. ASSUME NEW d \in Devices, NEW p \in ApplePasses,
              Add(d, p) \/ Register(d, p) \/ Unregister(d, p) \/ Download(d, p)
       PROVE  SequenceInv'
  <2>1. \A e \in Devices : device'[e].since = device[e].since
    BY <1>1, <1>16, DeviceStep
  <2> QED BY <1>2, <1>16, <2>1 DEF Add, Register, Unregister, Download
<1> QED
  BY <1>3, <1>4, <1>5, <1>51, <1>7, <1>8, <1>10, <1>11, <1>13, <1>14, <1>15, <1>16 DEF Next

LEMMA StepSInv == SInv /\ [Next]_vars => SInv'
  BY StepTypeOK, StepSequenceInv DEF SInv

-----------------------------------------------------------------------------
(* The rows, the locks, the transactions and the devices keep their types,  *)
(* and the sequence invariant holds in every reachable state.               *)
THEOREM SequenceInvariant == Spec => []SInv
<1>1. SInv /\ [Next]_vars => SInv'
  BY StepSInv
<1> QED BY InitSInv, <1>1, PTL DEF Spec

(* Type correctness of the wallet state changes.                            *)
THEOREM StateChangeTypeCorrect == Spec => []TypeOK
<1>1. SInv => TypeOK
  BY DEF SInv
<1> QED BY SequenceInvariant, <1>1, PTL

(* The order in which sequences are drawn is the order in which they are    *)
(* committed, as the comment on the Apple lock says.                        *)
THEOREM SequencesCommitInOrder == Spec => CommitOrder
<1> DEFINE Ordered == \A p, q \in ApplePasses :
             rows'[p].sequence # rows[p].sequence => rows'[p].sequence > rows[q].sequence
<1>1. SInv /\ [Next]_vars => [Ordered]_vars
  <2> SUFFICES ASSUME SInv, Next PROVE Ordered
    BY DEF Ordered
  <2>1. CASE rows' = rows
    BY <2>1
  <2>2. ASSUME NEW t \in Transactions, Commit(t) PROVE Ordered
    BY <2>2, CommittedSequence
  <2>3. rows' = rows \/ \E t \in Transactions : Commit(t)
    BY ZenonT(60) DEF Next, Begin, LockApple, LockPass, Replay, Change, Insert, Abort, Poll,
       ListRegistrations, ReadListed, Add, Register, Unregister, Download, database
  <2> QED BY <2>1, <2>2, <2>3
<1> QED BY SequenceInvariant, <1>1, PTL DEF Spec, CommitOrder

-----------------------------------------------------------------------------
(* An update is lost only between the two statements of a listing.          *)
LEMMA StepMissed ==
  ASSUME SInv, [Next]_vars, NEW d \in Devices, NEW p \in ApplePasses,
         ~Missed(d, p), Missed(d, p)'
  PROVE  /\ ReadListed(d)
         /\ p \in device[d].registered \ device[d].listed
         /\ device[d].since < rows[p].sequence
         /\ rows[p].sequence <= rows[device[d].last].sequence
<1> USE DEF database, locks
<1>1. /\ TypeOK /\ TypeOK' /\ p \in Passes
      /\ rows[p].sequence \in Nat /\ rows'[p].sequence \in Nat
      /\ \A e \in Devices : device[e] \in Wallet /\ device'[e] \in Wallet
      /\ device \in [Devices -> Wallet]
  BY StepTypeOK, PassesAssumption DEF SInv, TypeOK, Row
<1>2. device[d].since \in Nat /\ device'[d].since \in Nat
      /\ device[d].copy[p] \in Nat /\ device[d].base[p] \in Nat
  BY <1>1 DEF Wallet
<1>3. CASE UNCHANGED <<rows, device>>
  BY <1>3 DEF Missed
(* A commit numbers a pass above what any device was told.                  *)
<1>4. ASSUME NEW t \in Transactions, Commit(t) PROVE FALSE
  <2>1. rows'[p] = rows[p] \/ rows'[p].sequence > device[d].since
    BY <1>4, CommittedSequence
  <2>2. device' = device
    BY <1>4 DEF Commit
  <2> QED BY <1>1, <1>2, <2>1, <2>2 DEF Missed
<1>5. ASSUME NEW e \in Devices, e # d, NEW serials, NEW last, Answer(e, serials, last),
             rows' = rows
      PROVE  FALSE
  <2>1. device'[d] = device[d]
    BY <1>1, <1>5 DEF Answer
  <2> QED BY <1>5, <2>1 DEF Missed
(* An answer changes what a device was told and is to download.             *)
<1>6. ASSUME NEW serials, NEW last, Answer(d, serials, last), rows' = rows
      PROVE  /\ p \in device[d].registered
             /\ p \notin serials
             /\ device[d].since < rows[p].sequence
             /\ rows[p].sequence <= rows[last].sequence
  <2>1. /\ device'[d].registered = device[d].registered
        /\ device'[d].base = device[d].base
        /\ device'[d].copy = device[d].copy
        /\ device'[d].since = rows[last].sequence
        /\ device'[d].wanted = device[d].wanted \cup (serials \cap device[d].registered)
    BY <1>1, <1>6, ZenonT(60) DEF Answer, Wallet
  <2> QED BY <1>1, <1>2, <1>6, <2>1 DEF Missed
<1>7. ASSUME NEW e \in Devices, Poll(e) PROVE FALSE
  <2>1. PICK last \in Newest(Updated(e)) : Answer(e, Updated(e), last)
    BY <1>7 DEF Poll
  <2>2. rows' = rows
    BY <1>7 DEF Poll
  <2>3. e = d
    BY <1>5, <2>1, <2>2
  <2> QED BY <1>6, <2>1, <2>2, <2>3 DEF Updated
<1>8. ASSUME NEW e \in Devices, ListRegistrations(e) PROVE FALSE
  <2>1. /\ rows' = rows
        /\ device'[d].registered = device[d].registered
        /\ device'[d].wanted = device[d].wanted
        /\ device'[d].since = device[d].since
        /\ device'[d].copy = device[d].copy
        /\ device'[d].base = device[d].base
    BY <1>1, <1>8 DEF ListRegistrations, Wallet
  <2> QED BY <2>1 DEF Missed
<1>9. ASSUME NEW e \in Devices, NEW q \in ApplePasses,
             Add(e, q) \/ Register(e, q) \/ Unregister(e, q) \/ Download(e, q)
      PROVE  FALSE
  <2>1. rows' = rows /\ device'[d].since = device[d].since
    BY <1>1, <1>9, DeviceStep
  <2>2. CASE e # d \/ p # q
    <3>1. /\ p \in device'[d].registered <=> p \in device[d].registered
          /\ p \in device'[d].wanted <=> p \in device[d].wanted
          /\ device'[d].copy[p] = device[d].copy[p]
          /\ device'[d].base[p] = device[d].base[p]
      BY <1>1, <1>9, <2>2, DeviceStep
    <3> QED BY <2>1, <3>1 DEF Missed
  <2>3. CASE e = d /\ p = q
    <3>1. p \in device'[d].registered =>
            \/ device'[d].base[p] = rows[p].sequence
            \/ device'[d].copy[p] = rows[p].sequence
      BY <1>1, <1>9, <2>3, DeviceStep
    <3> QED BY <1>1, <2>1, <3>1 DEF Missed
  <2> QED BY <2>2, <2>3
<1>10. ASSUME NEW e \in Devices, ReadListed(e)
       PROVE  /\ ReadListed(d)
              /\ p \in device[d].registered \ device[d].listed
              /\ device[d].since < rows[p].sequence
              /\ rows[p].sequence <= rows[device[d].last].sequence
  <2>1. Answer(e, device[e].listed, device[e].last) /\ rows' = rows
    BY <1>10 DEF ReadListed
  <2>2. e = d
    BY <1>5, <2>1
  <2> QED BY <1>6, <1>10, <2>1, <2>2
<1>11. \/ UNCHANGED <<rows, device>>
       \/ \E t \in Transactions : Commit(t)
       \/ \E e \in Devices : Poll(e) \/ ListRegistrations(e) \/ ReadListed(e)
            \/ \E q \in ApplePasses : Add(e, q) \/ Register(e, q) \/ Unregister(e, q)
                                        \/ Download(e, q)
  BY DEF Next, vars, Begin, LockApple, LockPass, Replay, Change, Insert, Abort
<1> QED BY <1>3, <1>4, <1>7, <1>8, <1>9, <1>10, <1>11

(* Whatever the transactions, the passes and the devices, an update of a    *)
(* registered pass is lost only when the pass and a listed pass change, in  *)
(* this order, between the two statements of a listing.                     *)
THEOREM MissesOnlyBetweenStatements == Spec => MissedOnlyBetweenStatements
<1> DEFINE Step == \A d \in Devices, p \in ApplePasses :
             ~Missed(d, p) /\ Missed(d, p)' =>
               /\ ReadListed(d)
               /\ p \in device[d].registered \ device[d].listed
               /\ device[d].since < rows[p].sequence
               /\ rows[p].sequence <= rows[device[d].last].sequence
<1>1. SInv /\ [Next]_vars => [Step]_vars
  BY StepMissed
<1> QED BY SequenceInvariant, <1>1, PTL DEF Spec, MissedOnlyBetweenStatements

(* Without a listing of two statements none is ever unfinished.             *)
NoneUnfinished == \A d \in Devices : device[d].listed = {}

LEMMA StepNoneUnfinished ==
  ASSUME ~SplitListing, TypeOK, NoneUnfinished, [Next]_vars
  PROVE  NoneUnfinished'
<1>1. \A d \in Devices : device[d] \in Wallet
  BY DEF TypeOK
<1>2. CASE UNCHANGED device
  BY <1>2 DEF NoneUnfinished
<1>3. ASSUME NEW d \in Devices, NEW serials, NEW last, Answer(d, serials, last)
      PROVE  NoneUnfinished'
  BY <1>1, <1>3, ZenonT(60) DEF Answer, NoneUnfinished, TypeOK, Wallet
<1>4. ASSUME NEW d \in Devices, Poll(d) \/ ReadListed(d) PROVE NoneUnfinished'
  BY <1>3, <1>4 DEF Poll, ReadListed
<1>5. ASSUME NEW d \in Devices, NEW p \in ApplePasses,
             Add(d, p) \/ Register(d, p) \/ Unregister(d, p) \/ Download(d, p)
      PROVE  NoneUnfinished'
  BY <1>5, DeviceStep DEF NoneUnfinished
<1>6. \/ UNCHANGED device
      \/ \E d \in Devices :
           \/ Poll(d) \/ ReadListed(d)
           \/ \E p \in ApplePasses :
                Add(d, p) \/ Register(d, p) \/ Unregister(d, p) \/ Download(d, p)
  BY DEF Next, vars, Begin, LockApple, LockPass, Replay, Change, Insert, Commit, Abort,
         ListRegistrations
<1> QED BY <1>2, <1>4, <1>5, <1>6

(* Were the listing one statement, no device would miss an update.          *)
THEOREM NoListingMisses ==
  ASSUME ~SplitListing
  PROVE  Spec => []NoUpdateMissed
<1>1. Init => NoUpdateMissed /\ NoneUnfinished
  BY DEF Init, NoUpdateMissed, Missed, NoneUnfinished
<1>2. SInv /\ NoneUnfinished /\ [Next]_vars => NoneUnfinished'
  BY StepNoneUnfinished DEF SInv
<1>3. SInv /\ NoneUnfinished /\ NoUpdateMissed /\ [Next]_vars => NoUpdateMissed'
  BY StepMissed DEF NoUpdateMissed, NoneUnfinished, ReadListed
<1> QED BY SequenceInvariant, <1>1, <1>2, <1>3, PTL DEF Spec

-----------------------------------------------------------------------------
(* Tags and commands.                                                       *)

Counted(p) == {c \in commands : c[2] = p}

(* What a transaction wrote but did not commit: of a pass it planned, and   *)
(* under that pass's lock the tag after the committed one.                  *)
WorkIsLocked ==
  \A t \in Transactions : \A u \in work[t] :
    /\ txn[t].place = "open"
    /\ u.pass \in PlannedPasses(t)
    /\ u.pass \in ApplePasses \ Inserts[t] =>
         /\ passLock[u.pass] = t
         /\ u.updateTag = rows[u.pass].updateTag + 1
         /\ <<Event[t], u.pass>> \notin commands
    /\ u.pass \in ApplePasses \cap Inserts[t] => u.updateTag = FirstTag

(* A pass is changed, and has commands, once it exists; it exists once the  *)
(* transaction that inserts it has committed.                               *)
InsertedFirst ==
  /\ \A t \in Transactions : \A p \in Passes : passLock[p] = t => p \notin Inserts[t]
  /\ \A t \in Transactions : \A p \in PlannedPasses(t) \ Inserts[t] :
       txn[t].place = "open" => rows[p].exists
  /\ \A c \in commands : rows[c[2]].exists
  /\ \A t \in Transactions : \A p \in Inserts[t] :
       rows[p].exists => txn[t].place = "committed"

TInv ==
  /\ TagCountsCommands
  /\ \A p \in ApplePasses : IsFiniteSet(Counted(p))
  /\ WorkIsLocked
  /\ InsertedFirst

LEMMA PlannedArePasses ==
  ASSUME NEW t \in Transactions
  PROVE  PlannedPasses(t) \subseteq Passes /\ (Working(t) => Current(t) \in PlannedPasses(t))
  BY PlanAssumption DEF PlannedPasses, Working, Current

LEMMA InitTInv == Init => TInv
<1> SUFFICES ASSUME Init PROVE TInv
  OBVIOUS
<1>1. \A p \in Passes : rows[p].updateTag = FirstTag /\ (rows[p].exists <=> p \notin Inserted)
  <2>1. PICK number \in [ApplePasses \ Inserted -> 1..sequence] :
          rows = [p \in Passes |->
            [exists |-> p \notin Inserted,
             updateTag |-> FirstTag,
             sequence |-> IF p \in ApplePasses \ Inserted THEN number[p] ELSE 0]]
    BY DEF Init
  <2> QED BY <2>1
<1>2. commands = {} /\ \A p \in ApplePasses : Counted(p) = {}
  <2>1. commands = {}
    BY DEF Init
  <2> QED BY <2>1 DEF Counted
<1>3. TagCountsCommands
  BY <1>1, <1>2, PassesAssumption, FS_EmptySet DEF TagCountsCommands, Counted, FirstTag
<1>4. \A p \in ApplePasses : IsFiniteSet(Counted(p))
  BY <1>2, FS_EmptySet
<1>5. WorkIsLocked
  <2>1. \A t \in Transactions : work[t] = {}
    BY DEF Init
  <2> QED BY <2>1 DEF WorkIsLocked
<1>6. \A t \in Transactions : Inserts[t] \subseteq Passes /\ Inserts[t] \subseteq Inserted
  BY PlanAssumption DEF Inserted
<1>7. \A t \in Transactions : \A p \in Passes : passLock[p] = t => p \notin Inserts[t]
  BY NoneAssumption DEF Init
<1>8. \A t \in Transactions : txn[t].place = "idle"
  BY DEF Init
<1>9. InsertedFirst
  BY <1>1, <1>2, <1>6, <1>7, <1>8 DEF InsertedFirst
<1> QED BY <1>3, <1>4, <1>5, <1>9 DEF TInv

(* A step that commits nothing and writes nothing keeps the invariant, if   *)
(* it keeps the places of the transactions and the locks of the passes.     *)
LEMMA QuietStep ==
  ASSUME TypeOK, TInv, UNCHANGED <<rows, commands, work, passLock>>,
         \A t \in Transactions : txn'[t].place = txn[t].place
  PROVE  TInv'
<1>1. \A p : Counted(p)' = Counted(p)
  BY DEF Counted
<1>2. TagCountsCommands' /\ \A p \in ApplePasses : IsFiniteSet(Counted(p)')
  BY <1>1 DEF TInv, TagCountsCommands, Counted
<1>3. WorkIsLocked'
  BY DEF TInv, WorkIsLocked, PlannedPasses
<1>4. InsertedFirst'
  BY DEF TInv, InsertedFirst, PlannedPasses
<1> QED BY <1>2, <1>3, <1>4 DEF TInv

(* A step that writes an update of its current pass.                        *)
LEMMA WriteStep ==
  ASSUME TypeOK, TInv, NEW t \in Transactions, Working(t), NEW tag \in Nat, Draw(t, tag),
         Advance(t), UNCHANGED <<rows, commands, passLock>>,
         Current(t) \in ApplePasses \ Inserts[t] =>
           /\ passLock[Current(t)] = t
           /\ tag = rows[Current(t)].updateTag + 1
           /\ <<Event[t], Current(t)>> \notin commands,
         Current(t) \in ApplePasses \cap Inserts[t] => tag = FirstTag
  PROVE  TInv'
<1>1. \A p : Counted(p)' = Counted(p)
  BY DEF Counted
<1>2. TagCountsCommands' /\ \A p \in ApplePasses : IsFiniteSet(Counted(p)')
  BY <1>1 DEF TInv, TagCountsCommands, Counted
<1>3. \A s \in Transactions : txn'[s].place = txn[s].place
  BY DEF Advance, TypeOK, Progress
<1>4. PICK new \in Update :
        /\ work' = [work EXCEPT ![t] = @ \cup {new}]
        /\ new.pass = Current(t)
        /\ Current(t) \in ApplePasses =>
             new.updateTag = tag /\ new.sequence = sequence + 1 /\ sequence' = sequence + 1
  BY DrawnWork
<1>5. WorkIsLocked'
  <2> SUFFICES ASSUME NEW s \in Transactions, NEW u \in work'[s]
               PROVE  /\ txn'[s].place = "open"
                      /\ u.pass \in PlannedPasses(s)
                      /\ u.pass \in ApplePasses \ Inserts[s] =>
                           /\ passLock[u.pass] = s
                           /\ u.updateTag = rows[u.pass].updateTag + 1
                           /\ <<Event[s], u.pass>> \notin commands
                      /\ u.pass \in ApplePasses \cap Inserts[s] => u.updateTag = FirstTag
    BY DEF WorkIsLocked, PlannedPasses
  <2>1. CASE u \in work[s]
    BY <1>3, <2>1 DEF TInv, WorkIsLocked
  <2>2. CASE u \notin work[s]
    <3>1. s = t /\ u = new
      BY <1>4, <2>2 DEF TypeOK
    <3> QED BY <1>3, <1>4, <3>1, PlannedArePasses DEF Working
  <2> QED BY <2>1, <2>2
<1>6. InsertedFirst'
  BY <1>3 DEF TInv, InsertedFirst, PlannedPasses
<1> QED BY <1>2, <1>5, <1>6 DEF TInv

(* A commit: each Apple pass it changed gains a tag and a command.          *)
LEMMA CommitStep ==
  ASSUME TypeOK, TypeOK', TInv, NEW t \in Transactions, Commit(t)
  PROVE  TInv'
<1>1. /\ TagCountsCommands /\ WorkIsLocked /\ InsertedFirst
      /\ \A p \in ApplePasses : p \in Passes /\ IsFiniteSet(Counted(p))
      /\ txn[t].place = "open"
      /\ Inserts[t] \subseteq Passes
  BY PassesAssumption, PlanAssumption DEF TInv, Commit
<1>2. commands' = commands \cup
        {<<Event[t], u.pass>> : u \in {v \in work[t] : v.pass \notin Inserts[t]}}
  BY DEF Commit
<1>3. \A s \in Transactions : /\ s # t => txn'[s].place = txn[s].place
                              /\ txn'[t].place = "committed"
  BY DEF Commit, TypeOK, Progress
<1>4. \A p \in Passes : rows[p].exists => rows'[p].exists
  BY CommittedRow
<1>5. \A u \in work[t] : u.pass \in Passes /\ rows'[u.pass].exists
  BY CommittedRow DEF TypeOK, Update
<1>6. ASSUME NEW p \in Inserts[t] PROVE ~rows[p].exists
  BY <1>1 DEF InsertedFirst
<1>7. \A p \in Passes : /\ passLock'[p] # t
                        /\ passLock'[p] # None => passLock'[p] = passLock[p]
                        /\ passLock[p] # t => passLock'[p] = passLock[p]
  BY NoneAssumption DEF Commit, Release, TypeOK
<1>8. ASSUME NEW p \in ApplePasses
      PROVE  rows'[p].updateTag = FirstTag + Cardinality(Counted(p)') /\ IsFiniteSet(Counted(p)')
  <2>1. CASE \A u \in work[t] : u.pass # p
    <3>1. rows'[p] = rows[p]
      BY <1>1, <2>1, CommittedRow
    <3>2. Counted(p)' = Counted(p)
      BY <1>2, <2>1 DEF Counted
    <3> QED BY <1>1, <3>1, <3>2 DEF TagCountsCommands, Counted
  <2>2. ASSUME NEW u \in work[t], u.pass = p, rows'[p].updateTag = u.updateTag
        PROVE  rows'[p].updateTag = FirstTag + Cardinality(Counted(p)') /\ IsFiniteSet(Counted(p)')
    <3>1. CASE p \in Inserts[t]
      <4>1. u.updateTag = FirstTag
        BY <1>1, <2>2, <3>1 DEF WorkIsLocked
      <4>2. \A c \in commands : c[2] # p
        BY <1>1, <1>6, <3>1 DEF InsertedFirst
      <4>3. Counted(p)' = {}
        BY <1>2, <3>1, <4>2 DEF Counted
      <4> QED BY <2>2, <4>1, <4>3, FS_EmptySet DEF FirstTag
    <3>2. CASE p \notin Inserts[t]
      <4>1. u.updateTag = rows[p].updateTag + 1 /\ <<Event[t], p>> \notin commands
        BY <1>1, <2>2, <3>2 DEF WorkIsLocked
      <4>2. Counted(p)' = Counted(p) \cup {<<Event[t], p>>}
        BY <1>2, <2>2, <3>2 DEF Counted
      <4>3. <<Event[t], p>> \notin Counted(p)
        BY <4>1 DEF Counted
      <4>4. Cardinality(Counted(p)') = Cardinality(Counted(p)) + 1 /\ IsFiniteSet(Counted(p)')
        BY <1>1, <4>2, <4>3, FS_AddElement
      <4>5. rows[p].updateTag = FirstTag + Cardinality(Counted(p))
        BY <1>1 DEF TagCountsCommands, Counted
      <4>6. Cardinality(Counted(p)) \in Nat
        BY <1>1, FS_CardinalityType
      <4> QED BY <2>2, <4>1, <4>4, <4>5, <4>6 DEF FirstTag
    <3> QED BY <3>1, <3>2
  <2> QED BY <1>1, <2>1, <2>2, CommittedRow, ZenonT(60)
<1>9. TagCountsCommands'
  BY <1>8 DEF TagCountsCommands, Counted
<1>10. ASSUME NEW s \in Transactions, s # t, NEW u \in work[s],
              u.pass \in ApplePasses \ Inserts[s], NEW v \in work[t]
       PROVE  v.pass # u.pass
  <2>1. /\ txn[s].place = "open" /\ u.pass \in PlannedPasses(s) \ Inserts[s]
        /\ passLock[u.pass] = s
    BY <1>1, <1>10 DEF WorkIsLocked
  <2>2. rows[u.pass].exists
    BY <1>1, <2>1 DEF InsertedFirst
  <2>3. v.pass \in ApplePasses \ Inserts[t] => passLock[v.pass] = t
    BY <1>1 DEF WorkIsLocked
  <2> QED BY <1>6, <1>10, <2>1, <2>2, <2>3
<1>11. WorkIsLocked'
  <2> SUFFICES ASSUME NEW s \in Transactions, NEW u \in work'[s]
               PROVE  /\ txn'[s].place = "open"
                      /\ u.pass \in PlannedPasses(s)
                      /\ u.pass \in ApplePasses \ Inserts[s] =>
                           /\ passLock'[u.pass] = s
                           /\ u.updateTag = rows'[u.pass].updateTag + 1
                           /\ <<Event[s], u.pass>> \notin commands'
                      /\ u.pass \in ApplePasses \cap Inserts[s] => u.updateTag = FirstTag
    BY DEF WorkIsLocked, PlannedPasses
  <2>1. s # t /\ u \in work[s]
    BY DEF Commit, TypeOK
  <2>2. /\ txn'[s].place = "open" /\ u.pass \in PlannedPasses(s)
        /\ u.pass \in ApplePasses \cap Inserts[s] => u.updateTag = FirstTag
    BY <1>1, <1>3, <2>1 DEF WorkIsLocked
  <2>3. ASSUME u.pass \in ApplePasses \ Inserts[s]
        PROVE  /\ passLock'[u.pass] = s
               /\ u.updateTag = rows'[u.pass].updateTag + 1
               /\ <<Event[s], u.pass>> \notin commands'
    <3>1. /\ passLock[u.pass] = s
          /\ u.updateTag = rows[u.pass].updateTag + 1
          /\ <<Event[s], u.pass>> \notin commands
      BY <1>1, <2>1, <2>3 DEF WorkIsLocked
    <3>2. \A v \in work[t] : v.pass # u.pass
      BY <1>10, <2>1, <2>3
    <3>3. rows'[u.pass] = rows[u.pass]
      BY <1>1, <2>3, <3>2, CommittedRow, ZenonT(60)
    <3>4. <<Event[s], u.pass>> \notin commands'
      BY <1>2, <3>1, <3>2
    <3> QED BY <1>1, <1>7, <2>1, <2>3, <3>1, <3>3, <3>4
  <2> QED BY <2>2, <2>3
<1>12. InsertedFirst'
  <2>1. \A s \in Transactions : \A p \in Passes : passLock'[p] = s => p \notin Inserts[s]
    BY <1>1, <1>7, NoneAssumption DEF InsertedFirst
  <2>2. ASSUME NEW s \in Transactions, NEW p \in PlannedPasses(s) \ Inserts[s],
               txn'[s].place = "open"
        PROVE  rows'[p].exists
    BY <1>1, <1>3, <1>4, <2>2, PlannedArePasses DEF InsertedFirst
  <2>3. ASSUME NEW c \in commands' PROVE rows'[c[2]].exists
    <3>1. CASE c \in commands
      BY <1>1, <1>4, <3>1 DEF InsertedFirst, TypeOK
    <3>2. CASE c \notin commands
      BY <1>2, <1>5, <2>3, <3>2
    <3> QED BY <3>1, <3>2
  <2>4. ASSUME NEW s \in Transactions, NEW p \in Inserts[s], rows'[p].exists
        PROVE  txn'[s].place = "committed"
    <3>1. p \in Passes
      BY PlanAssumption
    <3>2. CASE rows[p].exists
      BY <1>1, <1>3, <3>2 DEF InsertedFirst
    <3>3. CASE ~rows[p].exists
      <4>1. PICK u \in work[t] : u.pass = p
        BY <2>4, <3>1, <3>3, CommittedRow, ZenonT(60)
      <4>2. p \in PlannedPasses(t)
        BY <1>1, <4>1 DEF WorkIsLocked
      <4>3. p \in Inserts[t]
        BY <1>1, <3>3, <4>2 DEF InsertedFirst
      <4>4. s = t
        BY <4>3, PlanAssumption
      <4> QED BY <1>3, <4>4
    <3> QED BY <3>2, <3>3
  <2> QED BY <2>1, <2>2, <2>3, <2>4 DEF InsertedFirst, PlannedPasses
<1> QED BY <1>8, <1>9, <1>11, <1>12 DEF TInv

LEMMA StepTInv ==
  ASSUME SInv, TInv, [Next]_vars
  PROVE  TInv'
<1> USE DEF database, locks
<1>1. TypeOK /\ TypeOK' /\ WorkIsLocked /\ InsertedFirst
  BY StepTypeOK DEF SInv, TInv
<1>2. ASSUME UNCHANGED <<rows, commands, work, passLock, txn>> PROVE TInv'
  BY <1>1, <1>2, QuietStep
<1>3. CASE UNCHANGED vars
  BY <1>2, <1>3 DEF vars
<1>4. ASSUME NEW t \in Transactions, Begin(t) PROVE TInv'
  <2>1. \A s \in Transactions : /\ s # t => txn'[s].place = txn[s].place
                                /\ txn'[t].place = "open"
    BY <1>1, <1>4 DEF Begin, TypeOK, Progress
  <2>2. UNCHANGED <<rows, commands, work, passLock>> /\ txn[t].place = "idle"
    BY <1>4 DEF Begin
  <2>3. TagCountsCommands' /\ \A p \in ApplePasses : IsFiniteSet(Counted(p))'
    BY <2>2 DEF TInv, TagCountsCommands, Counted
  <2>4. WorkIsLocked'
    BY <1>1, <2>1, <2>2 DEF WorkIsLocked, PlannedPasses
  <2>5. InsertedFirst'
    BY <1>1, <1>4, <2>1, <2>2 DEF Begin, InsertedFirst, PlannedPasses
  <2> QED BY <2>3, <2>4, <2>5 DEF TInv
<1>5. ASSUME NEW t \in Transactions, LockApple(t) PROVE TInv'
  BY <1>2, <1>5 DEF LockApple
<1>6. ASSUME NEW t \in Transactions, LockPass(t) PROVE TInv'
  <2>1. UNCHANGED <<rows, commands, work, txn>>
    BY <1>6 DEF LockPass
  <2>2. \A p \in Passes : \/ passLock'[p] = passLock[p]
                          \/ /\ passLock[p] = None
                             /\ passLock'[p] = t
                             /\ p \notin Inserts[t]
    BY <1>1, <1>6 DEF LockPass, WantsPassLock, TypeOK
  <2>3. TagCountsCommands' /\ \A p \in ApplePasses : IsFiniteSet(Counted(p))'
    BY <2>1 DEF TInv, TagCountsCommands, Counted
  <2>4. WorkIsLocked'
    BY <1>1, <2>1, <2>2, NoneAssumption, PassesAssumption DEF WorkIsLocked, PlannedPasses
  <2>5. InsertedFirst'
    BY <1>1, <2>1, <2>2 DEF InsertedFirst, PlannedPasses
  <2> QED BY <2>3, <2>4, <2>5 DEF TInv
<1>7. ASSUME NEW t \in Transactions, Replay(t) PROVE TInv'
  <2>1. \A s \in Transactions : txn'[s].place = txn[s].place
    BY <1>1, <1>7 DEF Replay, Advance, TypeOK, Progress
  <2> QED BY <1>1, <1>7, <2>1, QuietStep DEF Replay
<1>8. ASSUME NEW t \in Transactions, Change(t) PROVE TInv'
  <2>1. Working(t) /\ Current(t) \in Passes /\ passLock[Current(t)] = t
    BY <1>8, PlannedArePasses DEF Change, Locked
  <2>2. Current(t) \notin Inserts[t]
    BY <1>1, <2>1 DEF InsertedFirst
  <2>3. Event[t] \in Events
    BY DEF Events
  <2>4. <<Event[t], Current(t)>> \notin commands
    BY <1>8, <2>3 DEF Change, Stale
  <2>5. rows[Current(t)].updateTag + 1 \in Nat
    BY <1>1, <2>1 DEF TypeOK, Row
  <2> QED BY <1>1, <1>8, <2>1, <2>2, <2>4, <2>5, WriteStep DEF Change
<1>9. ASSUME NEW t \in Transactions, Insert(t) PROVE TInv'
  BY <1>1, <1>9, WriteStep DEF Insert, FirstTag
<1>10. ASSUME NEW t \in Transactions, Commit(t) PROVE TInv'
  BY <1>1, <1>10, CommitStep
<1>11. ASSUME NEW t \in Transactions, Abort(t) PROVE TInv'
  <2>1. \A s \in Transactions : /\ s # t => txn'[s].place = txn[s].place /\ work'[s] = work[s]
                                /\ txn'[t].place = "idle" /\ work'[t] = {}
    BY <1>1, <1>11 DEF Abort, TypeOK, Progress
  <2>2. UNCHANGED <<rows, commands>> /\ txn[t].place = "open"
    BY <1>11 DEF Abort
  <2>3. \A p \in Passes : passLock'[p] = IF passLock[p] = t THEN None ELSE passLock[p]
    BY <1>11 DEF Abort, Release
  <2>4. TagCountsCommands' /\ \A p \in ApplePasses : IsFiniteSet(Counted(p))'
    BY <2>2 DEF TInv, TagCountsCommands, Counted
  <2>5. WorkIsLocked'
    BY <1>1, <2>1, <2>2, <2>3, PassesAssumption DEF WorkIsLocked, PlannedPasses
  <2>6. InsertedFirst'
    BY <1>1, <2>1, <2>2, <2>3, NoneAssumption DEF InsertedFirst, PlannedPasses
  <2> QED BY <2>4, <2>5, <2>6 DEF TInv
<1>12. ASSUME NEW d \in Devices, \/ Poll(d) \/ ListRegistrations(d) \/ ReadListed(d)
                                 \/ \E p \in ApplePasses : Add(d, p) \/ Register(d, p)
                                      \/ Unregister(d, p) \/ Download(d, p)
       PROVE  TInv'
  BY <1>2, <1>12 DEF Poll, ListRegistrations, ReadListed, Add, Register, Unregister, Download
<1> QED
  BY <1>3, <1>4, <1>5, <1>6, <1>7, <1>8, <1>9, <1>10, <1>11, <1>12 DEF Next

(* The update tag of every Apple pass counts its commands: no transaction   *)
(* loses another's increment and no event is counted twice.                 *)
THEOREM TagsCount == Spec => []TagCountsCommands
<1>1. SInv /\ TInv /\ [Next]_vars => TInv'
  BY StepTInv
<1>2. TInv => TagCountsCommands
  BY DEF TInv
<1> QED BY InitTInv, SequenceInvariant, <1>1, <1>2, PTL DEF Spec
=============================================================================
