---------------------------- MODULE Merchant_proofs ----------------------------
(***************************************************************************)
(* Proofs about what a merchant runs: the publication of its program, for  *)
(* any number of publish keys, versions, edits and test sessions; the      *)
(* seats of its team, for any number of people, seats and invitations; and *)
(* the refunds of its invoices, for any number of requests, executions,    *)
(* deliveries and events.  The three parts share no state; each has its    *)
(* own invariant.                                                          *)
(*                                                                         *)
(* ProgramPublication.  A row that was published is never written again    *)
(* but for its supersession, so what publication checked of it stays true; *)
(* what has to be carried along is that the draft pointer names an         *)
(* editable row and the published pointer the one PUBLISHED row, whatever  *)
(* test sessions do to the status of old versions.                         *)
(*                                                                         *)
(* Team.  The seats are counted before each step that can take one, except *)
(* where the code sees no need to: when an invitation is accepted (its own *)
(* seat is passed on) and when an active member changes role.  The last is *)
(* right only because an owner, who takes no seat, cannot be made a        *)
(* manager: there is one owner, and it is the final one.  So the count of  *)
(* the seats and the remaining owner are proved together.                  *)
(*                                                                         *)
(* RefundExecution.  What an execution or a delivery was told is written   *)
(* later, when Stripe may say something else.  It stays true because a     *)
(* failed refund stays failed, because a request has one refund and none   *)
(* before it is claimed, and because an event is the newest of its refund  *)
(* only as long as Stripe has not moved on.  The money follows from that:  *)
(* an event can make a request whose refund failed look refunded again, so *)
(* what is bounded is the amount of the requests that still stand.         *)
(***************************************************************************)
EXTENDS ProgramPublication, Team, RefundExecution, FoldFacts, SequenceTheorems, TLAPS

-----------------------------------------------------------------------------
(* Programs.  Their inductive invariant.                                   *)

IsEditable(v) == versions[v].status \in Editable

\* The types, and where the two pointers of the program lead.
Shape ==
  /\ program \in Program
  /\ versions \in Seq(Version) /\ Len(versions) \in 1..MaxVersions
  /\ sessions \in Seq(Session) /\ Len(sessions) <= MaxSessions
  /\ opening \in Seq(Session) /\ Len(opening) <= 1
  /\ opening # <<>> => Len(sessions) < MaxSessions
  /\ commands \in [Keys -> 0..MaxVersions]
  /\ syncJobs \subseteq (1..MaxRevision) \X Actions
  /\ program.draft \in 0..Len(versions)
  /\ program.published \in 0..Len(versions)
  /\ HasDraft => Draft.status \in Editable

\* The index of the database: one version in an editable status.
OneEditable ==
  \A v, w \in DOMAIN versions : IsEditable(v) /\ IsEditable(w) => v = w

\* A session was opened on a version that exists.
SessionsHaveVersions ==
  /\ \A s \in DOMAIN sessions : sessions[s].version \in DOMAIN versions
  /\ \A s \in DOMAIN opening : opening[s].version \in DOMAIN versions

\* Exactly the versions that are or were published were named by a command,
\* each by one.
CommandsName(v) == {k \in Keys : commands[k] = v}
NamedOnce ==
  /\ \A k \in Keys : commands[k] \in 0..Len(versions)
  /\ \A v \in DOMAIN versions :
       IF versions[v].status \in Protected
       THEN \E k \in Keys : CommandsName(v) = {k}
       ELSE CommandsName(v) = {}

\* The revision in the key of a sync job was reached.
SyncedInPast == \A job \in syncJobs : job[1] <= program.revision

PInv ==
  /\ Shape /\ OneEditable /\ SessionsHaveVersions
  /\ PublishedPointer /\ PublishedWasValidated
  /\ NamedOnce /\ SyncedInPast

-----------------------------------------------------------------------------
(* Sequences that are written as functions on the domain of another one.    *)
LEMMA FunctionIsSeq ==
  ASSUME NEW S, NEW T, NEW s \in Seq(S), NEW f \in [DOMAIN s -> T]
  PROVE  f \in Seq(T) /\ Len(f) = Len(s) /\ DOMAIN f = DOMAIN s
<1>1. Len(s) \in Nat /\ DOMAIN s = 1..Len(s)
  BY LenProperties
<1>2. f \in [1..Len(s) -> T]
  BY <1>1
<1>3. f \in Seq(T)
  BY <1>1, <1>2, SeqDef
<1>4. Len(f) \in Nat /\ DOMAIN f = 1..Len(f)
  BY <1>3, LenProperties
<1> QED BY <1>1, <1>2, <1>3, <1>4

(* The bounds, one by one.                                                  *)
LEMMA Bounds ==
  /\ Goal \in Nat \ {0} /\ MaxVersions \in Nat \ {0} /\ MaxEdits \in Nat \ {0}
  /\ MaxRevision \in Nat \ {0} /\ MaxSessions \in Nat
<1> QED BY PublicationAssumption

(* The fields of a version row.                                             *)
LEMMA VersionFields ==
  ASSUME NEW row \in Version
  PROVE  /\ row.status \in Editable \cup Protected \cup {"ABANDONED"}
         /\ row.revision \in 1..MaxEdits /\ row.rendered \in 0..MaxEdits
         /\ row.validatedAt \in BOOLEAN /\ row.fingerprint \in 0..MaxEdits
         /\ row.run \in [revision : 0..MaxEdits, passed : BOOLEAN]
         /\ row = [status |-> row.status, revision |-> row.revision,
                   rendered |-> row.rendered, validatedAt |-> row.validatedAt,
                   fingerprint |-> row.fingerprint, run |-> row.run]
<1> QED BY DEF Version

(* The fields of a program row.                                             *)
LEMMA ProgramFields ==
  ASSUME NEW row \in Program
  PROVE  /\ row.status \in {"DRAFT", "VALIDATED", "TEST",
                            "PUBLISHED", "PAUSED", "ARCHIVED"}
         /\ row.draft \in 0..MaxVersions /\ row.published \in 0..MaxVersions
         /\ row.revision \in 1..MaxRevision
         /\ row = [status |-> row.status, draft |-> row.draft,
                   published |-> row.published, revision |-> row.revision]
<1> QED BY DEF Program

(* The version rows, one by one.                                            *)
LEMMA VersionRow ==
  ASSUME Shape, NEW v \in DOMAIN versions
  PROVE  /\ v \in 1..Len(versions) /\ Len(versions) \in Nat
         /\ DOMAIN versions = 1..Len(versions)
         /\ versions[v] \in Version
<1> QED BY LenProperties, ElementOfSeq DEF Shape

LEMMA InitPInv == Init => PInv
<1> SUFFICES ASSUME Init PROVE PInv
  OBVIOUS
<1> USE PublicationAssumption DEF Init
<1>1. FirstDraft \in Version
  BY DEF FirstDraft, Version, Editable
<1>2. /\ versions \in Seq(Version) /\ Len(versions) = 1 /\ DOMAIN versions = {1}
      /\ versions[1] = FirstDraft
  BY <1>1
<1>3. versions[1].status = "DRAFT"
  BY <1>2 DEF FirstDraft
<1>4. Shape
  BY <1>2, <1>3 DEF Shape, Program, HasDraft, Draft, Editable
<1>5. OneEditable /\ SessionsHaveVersions /\ SyncedInPast
  BY <1>2 DEF OneEditable, SessionsHaveVersions, SyncedInPast
<1>6. PublishedPointer /\ PublishedWasValidated
  BY <1>2, <1>3 DEF PublishedPointer, PublishedWasValidated, Protected
<1>7. NamedOnce
  BY <1>2, <1>3 DEF NamedOnce, CommandsName, Protected
<1> QED BY <1>4, <1>5, <1>6, <1>7 DEF PInv

-----------------------------------------------------------------------------
(* What the operations do to the version rows.                              *)

(* The draft's row is replaced by another editable one.                     *)
LEMMA DraftWritten ==
  ASSUME PInv, HasDraft, NEW row \in Version, row.status \in Editable,
         versions' = [versions EXCEPT ![program.draft] = row],
         program' \in Program, program'.draft = program.draft,
         program'.published = program.published,
         program'.published = 0 => program'.status \notin {"PUBLISHED", "PAUSED"},
         program'.published # 0 => program'.status = program.status,
         program'.revision >= program.revision,
         sessions' \in Seq(Session), Len(sessions') = Len(sessions),
         \A s \in DOMAIN sessions' : s \in DOMAIN sessions /\ sessions'[s].version = sessions[s].version,
         UNCHANGED <<opening, commands, syncJobs>>
  PROVE  PInv'
<1> DEFINE d == program.draft
<1>1. /\ d \in DOMAIN versions /\ DOMAIN versions = 1..Len(versions) /\ Len(versions) \in Nat
      /\ \A v \in DOMAIN versions : versions[v] \in Version
      /\ versions[d].status \in Editable
  BY VersionRow, LenProperties DEF PInv, Shape, HasDraft, Draft
<1>2. /\ versions' \in Seq(Version) /\ Len(versions') = Len(versions)
      /\ DOMAIN versions' = DOMAIN versions
      /\ \A v \in DOMAIN versions : versions'[v] = IF v = d THEN row ELSE versions[v]
  BY <1>1 DEF PInv, Shape
<1>3. program'.revision \in Nat /\ program.revision \in Nat
  BY DEF PInv, Shape, Program
<1>4. Shape'
  BY <1>1, <1>2 DEF PInv, Shape, HasDraft, Draft
<1>5. OneEditable' /\ SessionsHaveVersions'
  BY <1>1, <1>2 DEF PInv, OneEditable, SessionsHaveVersions, IsEditable
<1>6. PublishedPointer' /\ PublishedWasValidated'
  BY <1>1, <1>2 DEF PInv, PublishedPointer, PublishedWasValidated, Protected, Editable
<1>7. NamedOnce'
  BY <1>1, <1>2 DEF PInv, NamedOnce, CommandsName, Protected, Editable
<1>8. SyncedInPast'
  BY <1>3 DEF PInv, SyncedInPast, Shape
<1> QED BY <1>4, <1>5, <1>6, <1>7, <1>8 DEF PInv

LEMMA OnlyDraftWritten ==
  ASSUME PInv, HasDraft, NEW row \in Version, row.status \in Editable,
         versions' = [versions EXCEPT ![program.draft] = row],
         UNCHANGED <<program, sessions, opening, commands, syncJobs>>
  PROVE  PInv'
<1>1. /\ program' \in Program /\ program'.draft = program.draft
      /\ program'.published = program.published
  BY DEF PInv, Shape
<1>2. /\ program'.published = 0 => program'.status \notin {"PUBLISHED", "PAUSED"}
      /\ program'.published # 0 => program'.status = program.status
  BY DEF PInv, PublishedPointer
<1>3. program'.revision >= program.revision
  BY ProgramFields DEF PInv, Shape
<1>4. /\ sessions' \in Seq(Session) /\ Len(sessions') = Len(sessions)
      /\ \A s \in DOMAIN sessions' : s \in DOMAIN sessions /\ sessions'[s].version = sessions[s].version
      /\ UNCHANGED <<opening, commands, syncJobs>>
  BY DEF PInv, Shape
<1> QED BY <1>1, <1>2, <1>3, <1>4, DraftWritten

(* A test session sets the status of its version, and its own row.          *)
LEMMA StatusWritten ==
  ASSUME PInv, NEW v \in DOMAIN versions, NEW status \in Editable, MaySet(v, status),
         versions' = [versions EXCEPT ![v].status = status],
         sessions' \in Seq(Session), Len(sessions') = Len(sessions),
         \A s \in DOMAIN sessions' : s \in DOMAIN sessions /\ sessions'[s].version = sessions[s].version,
         UNCHANGED <<program, opening, commands, syncJobs>>
  PROVE  PInv'
<1>1. /\ DOMAIN versions = 1..Len(versions) /\ Len(versions) \in Nat
      /\ \A w \in DOMAIN versions : versions[w] \in Version
      /\ versions[v].status \notin Protected
      /\ \A w \in DOMAIN versions : IsEditable(w) => w = v
  BY VersionRow DEF PInv, MaySet, IsEditable
<1>2. [versions[v] EXCEPT !.status = status] \in Version
      /\ [versions[v] EXCEPT !.status = status].status = status
  BY <1>1 DEF Version
<1>3. PICK row \in Version : row = [versions[v] EXCEPT !.status = status] /\ row.status = status
  BY <1>2
<1>4. /\ versions' \in Seq(Version) /\ Len(versions') = Len(versions)
      /\ DOMAIN versions' = DOMAIN versions
      /\ \A w \in DOMAIN versions : versions'[w] = IF w = v THEN row ELSE versions[w]
  <2>1. versions \in Seq(Version)
    BY DEF PInv, Shape
  <2>2. versions' = [versions EXCEPT ![v] = row]
    BY <1>3
  <2> QED BY <2>1, <2>2
<1>5. Shape'
  BY <1>1, <1>2, <1>4 DEF PInv, Shape, HasDraft, Draft, IsEditable
<1>6. OneEditable' /\ SessionsHaveVersions'
  BY <1>1, <1>2, <1>4 DEF PInv, OneEditable, SessionsHaveVersions, IsEditable
<1>7. PublishedPointer' /\ PublishedWasValidated'
  BY <1>1, <1>2, <1>4 DEF PInv, PublishedPointer, PublishedWasValidated, Protected, Editable
<1>8. NamedOnce' /\ SyncedInPast'
  BY <1>1, <1>2, <1>4, SMTT(30) DEF PInv, NamedOnce, CommandsName, Protected, Editable, SyncedInPast
<1> QED BY <1>5, <1>6, <1>7, <1>8 DEF PInv

(* Steps that leave the version rows alone.                                 *)
LEMMA VersionsKept ==
  ASSUME PInv,
         UNCHANGED <<versions, commands>>,
         program' \in Program, program'.draft = program.draft,
         program'.published = program.published,
         program'.revision >= program.revision,
         program'.status \in {"PUBLISHED", "PAUSED"} => program.published # 0,
         program.published # 0 => program'.status \in {"PUBLISHED", "PAUSED", "ARCHIVED"},
         sessions' \in Seq(Session), Len(sessions') <= MaxSessions,
         opening' \in Seq(Session), Len(opening') <= 1,
         opening' # <<>> => Len(sessions') < MaxSessions,
         \A s \in DOMAIN sessions' : sessions'[s].version \in DOMAIN versions,
         \A s \in DOMAIN opening' : opening'[s].version \in DOMAIN versions,
         syncJobs' \subseteq (1..MaxRevision) \X Actions,
         \A job \in syncJobs' : job[1] <= program'.revision
  PROVE  PInv'
<1>1. Shape'
  BY DEF PInv, Shape, HasDraft, Draft
<1>2. OneEditable' /\ SessionsHaveVersions' /\ PublishedPointer' /\ PublishedWasValidated'
  BY DEF PInv, OneEditable, SessionsHaveVersions, PublishedPointer, PublishedWasValidated,
     IsEditable
<1>3. NamedOnce'
  BY DEF PInv, NamedOnce, CommandsName
<1>4. SyncedInPast'
  BY DEF SyncedInPast
<1> QED BY <1>1, <1>2, <1>3, <1>4 DEF PInv

-----------------------------------------------------------------------------
(* The steps that edit, show and validate the draft.                        *)

LEMMA DraftRow ==
  ASSUME PInv, HasDraft
  PROVE  /\ program.draft \in DOMAIN versions
         /\ Draft \in Version /\ Draft.status \in Editable
         /\ Draft.revision \in Nat
<1>1. program.draft \in DOMAIN versions
  BY LenProperties DEF PInv, Shape, HasDraft
<1>2. Draft \in Version
  BY <1>1, VersionRow DEF PInv, Draft
<1>3. Draft.status \in Editable /\ Draft.revision \in Nat
  BY <1>2 DEF PInv, Shape, Version
<1> QED BY <1>1, <1>2, <1>3

LEMMA EditedRow ==
  ASSUME NEW row \in Version, row.revision < MaxEdits
  PROVE  Edited(row) \in Version /\ Edited(row).status \in Editable
<1>1. row.revision + 1 \in 1..MaxEdits /\ 0 \in 0..MaxEdits
  BY VersionFields, Bounds
<1>2. Edited(row) \in Version
  BY <1>1 DEF Edited, Version, Editable
<1>3. Edited(row).status = "DRAFT"
  BY DEF Edited, Version
<1> QED BY <1>2, <1>3 DEF Editable

LEMMA UpdateStep == PInv /\ (Update \/ UpdatePolicy) => PInv'
<1> SUFFICES ASSUME PInv, Update \/ UpdatePolicy PROVE PInv'
  OBVIOUS
<1>1. HasDraft /\ Draft.revision < MaxEdits
  BY DEF Update, UpdatePolicy
<1>2. Edited(Draft) \in Version /\ Edited(Draft).status \in Editable
  BY <1>1, DraftRow, EditedRow
<1>3. versions' = [versions EXCEPT ![program.draft] = Edited(Draft)]
  BY DEF Update, UpdatePolicy, Draft
<1>4. program \in Program /\ sessions \in Seq(Session) /\ PublishedPointer
  BY DEF PInv, Shape
<1>5. CASE Update
  <2>1. /\ program' = [program EXCEPT !.revision = @ + 1, !.status = FollowsDraft("DRAFT")]
        /\ program.revision < MaxRevision
        /\ UNCHANGED <<opening, commands, syncJobs>>
    BY <1>5 DEF Update
  <2>2. /\ program' \in Program /\ program'.draft = program.draft
        /\ program'.published = program.published
        /\ program'.published = 0 => program'.status \notin {"PUBLISHED", "PAUSED"}
        /\ program'.published # 0 => program'.status = program.status
        /\ program'.revision >= program.revision
    <3>1. program.revision + 1 \in 1..MaxRevision /\ program.revision \in Nat
      BY <1>4, <2>1, ProgramFields, Bounds
    <3>2. FollowsDraft("DRAFT") \in {"DRAFT", "VALIDATED", "TEST", "PUBLISHED", "PAUSED", "ARCHIVED"}
      BY <1>4, ProgramFields DEF FollowsDraft
    <3>3. program' \in Program
      BY <1>4, <2>1, <3>1, <3>2 DEF Program
    <3>4. /\ program'.draft = program.draft /\ program'.published = program.published
          /\ program'.status = FollowsDraft("DRAFT") /\ program'.revision = program.revision + 1
      BY <1>4, <2>1 DEF Program
    <3> QED BY <3>1, <3>3, <3>4 DEF FollowsDraft
  <2> DEFINE Reset(s) == IF sessions[s].version = program.draft
                         THEN [sessions[s] EXCEPT !.unlocked = FALSE] ELSE sessions[s]
  <2>3. \A s \in DOMAIN sessions : sessions[s] \in Session
    BY <1>4, LenProperties, ElementOfSeq
  <2>4. \A s \in DOMAIN sessions : /\ Reset(s) \in Session
                                   /\ Reset(s).version = sessions[s].version
    BY <2>3 DEF Session
  <2>5. sessions' = [s \in DOMAIN sessions |-> Reset(s)]
    BY <1>5 DEF Update
  <2> HIDE DEF Reset
  <2>6. sessions' \in [DOMAIN sessions -> Session]
    BY <2>4, <2>5
  <2>7. sessions' \in Seq(Session) /\ Len(sessions') = Len(sessions)
        /\ DOMAIN sessions' = DOMAIN sessions
    BY <1>4, <2>6, FunctionIsSeq
  <2> QED BY <1>1, <1>2, <1>3, <2>1, <2>2, <2>4, <2>5, <2>7, DraftWritten
<1>6. CASE UpdatePolicy
  <2>1. UNCHANGED <<program, sessions, opening, commands, syncJobs>>
    BY <1>6 DEF UpdatePolicy
  <2> QED BY <1>1, <1>2, <1>3, <2>1, OnlyDraftWritten
<1> QED BY <1>5, <1>6

LEMMA PreviewStep == PInv /\ Preview => PInv'
<1> SUFFICES ASSUME PInv, Preview PROVE PInv'
  OBVIOUS
<1> DEFINE row == [Draft EXCEPT !.rendered = Draft.revision]
<1>1. HasDraft /\ UNCHANGED <<program, sessions, opening, commands, syncJobs>>
  BY DEF Preview
<1>2. row \in Version /\ row.status \in Editable
  BY <1>1, DraftRow DEF Version
<1>3. versions' = [versions EXCEPT ![program.draft] = row]
  BY DEF Preview, Draft
<1> HIDE DEF row
<1> QED BY <1>1, <1>2, <1>3, OnlyDraftWritten

LEMMA ValidateStep ==
  ASSUME PInv, NEW passed \in BOOLEAN, Validate(passed)
  PROVE  PInv'
<1> DEFINE row == [Draft EXCEPT !.status = IF passed THEN "VALIDATED" ELSE "DRAFT",
                                !.validatedAt = passed,
                                !.fingerprint = Draft.revision,
                                !.run = [revision |-> Draft.revision, passed |-> passed]]
<1>1. HasDraft /\ UNCHANGED <<sessions, opening, commands, syncJobs>>
  BY DEF Validate
<1>2. row \in Version /\ row.status \in Editable
  <2>1. Draft \in Version /\ Draft.revision \in 0..MaxEdits
    BY <1>1, DraftRow, VersionFields, Bounds
  <2>2. row \in Version
    BY <2>1 DEF Version, Editable
  <2>3. row.status = IF passed THEN "VALIDATED" ELSE "DRAFT"
    BY <2>1 DEF Version
  <2> QED BY <2>2, <2>3 DEF Editable
<1>3. versions' = [versions EXCEPT ![program.draft] = row]
  BY DEF Validate, Draft
<1>4. /\ program \in Program /\ sessions \in Seq(Session)
      /\ program.published = 0 => program.status \notin {"PUBLISHED", "PAUSED"}
      /\ program.published # 0 => program.status \in {"PUBLISHED", "PAUSED", "ARCHIVED"}
  BY DEF PInv, Shape, PublishedPointer
<1>5. /\ program' \in Program /\ program'.draft = program.draft
      /\ program'.published = program.published
      /\ program'.published = 0 => program'.status \notin {"PUBLISHED", "PAUSED"}
      /\ program'.published # 0 => program'.status = program.status
      /\ program'.revision >= program.revision
  BY <1>4 DEF Validate, Program
<1> HIDE DEF row
<1> QED BY <1>1, <1>2, <1>3, <1>4, <1>5, DraftWritten

-----------------------------------------------------------------------------
(* The steps that change which version is the draft or the published one.   *)

LEMMA FirstDraftRow ==
  /\ FirstDraft \in Version /\ FirstDraft.status = "DRAFT"
<1>1. 1 \in 1..MaxEdits /\ 0 \in 0..MaxEdits
  BY Bounds
<1> QED BY <1>1 DEF FirstDraft, Version, Editable

LEMMA CreateDraftStep == PInv /\ CreateDraft => PInv'
<1> SUFFICES ASSUME PInv, CreateDraft PROVE PInv'
  OBVIOUS
<1> PICK n : n = Len(versions) + 1
  OBVIOUS
<1>1. /\ program.draft = 0 /\ program.published # 0 /\ Len(versions) < MaxVersions
      /\ \A v \in DOMAIN versions : versions[v].status \notin Editable
      /\ versions' = Append(versions, FirstDraft)
      /\ program' = [program EXCEPT !.draft = n]
      /\ UNCHANGED <<sessions, opening, commands, syncJobs>>
  BY DEF CreateDraft, HasDraft
<1>2. /\ DOMAIN versions = 1..Len(versions) /\ Len(versions) \in Nat
      /\ versions \in Seq(Version) /\ program \in Program
  BY LenProperties DEF PInv, Shape
<1>3. /\ versions' \in Seq(Version) /\ Len(versions') = n /\ DOMAIN versions' = 1..n
      /\ versions'[n] = FirstDraft
      /\ \A v \in DOMAIN versions : v \in 1..n /\ v # n /\ versions'[v] = versions[v]
      /\ \A v \in 1..n : v = n \/ v \in DOMAIN versions
  BY <1>1, <1>2, FirstDraftRow
<1>4. n \in 1..MaxVersions
  BY <1>1, <1>2, Bounds
<1>5. /\ program' \in Program /\ program'.draft = n /\ program'.published = program.published
      /\ program'.status = program.status /\ program'.revision = program.revision
  BY <1>1, <1>2, <1>4, SMTT(30) DEF Program
<1>6. versions'[n].status = "DRAFT"
  BY <1>3, FirstDraftRow
<1>7. Shape'
  <2>1. program'.published \in 0..Len(versions')
    BY <1>2, <1>3, <1>5 DEF PInv, Shape
  <2>2. program'.draft \in 0..Len(versions') /\ Len(versions') \in 1..MaxVersions
    BY <1>3, <1>4, <1>5
  <2>3. Draft'.status \in Editable
    BY <1>5, <1>6 DEF Draft, Editable
  <2> QED BY <1>1, <1>3, <1>5, <2>1, <2>2, <2>3 DEF PInv, Shape
<1>8. OneEditable' /\ SessionsHaveVersions'
  BY <1>1, <1>3 DEF PInv, OneEditable, SessionsHaveVersions, IsEditable
<1>9. PublishedPointer' /\ PublishedWasValidated'
  <2>1. program.published \in DOMAIN versions
    BY <1>1, <1>2 DEF PInv, Shape
  <2> QED BY <1>1, <1>3, <1>5, <1>6, <2>1
          DEF PInv, PublishedPointer, PublishedWasValidated, Protected
<1>10. NamedOnce'
  <2>1. \A k \in Keys : commands[k] # n /\ commands[k] \in 0..n
    BY <1>2 DEF PInv, NamedOnce
  <2>2. CommandsName(n) = {}
    BY <2>1 DEF CommandsName
  <2>3. \A v : CommandsName(v)' = CommandsName(v)
    BY <1>1 DEF CommandsName
  <2>4. \A v \in DOMAIN versions' :
          IF versions'[v].status \in Protected
          THEN \E k \in Keys : CommandsName(v) = {k}
          ELSE CommandsName(v) = {}
    BY <1>3, <1>6, <2>2 DEF PInv, NamedOnce, Protected
  <2>5. \A k \in Keys : commands'[k] \in 0..Len(versions')
    BY <1>1, <1>3, <2>1
  <2> QED BY <2>3, <2>4, <2>5 DEF NamedOnce
<1>11. SyncedInPast'
  BY <1>1, <1>5 DEF PInv, SyncedInPast
<1> QED BY <1>7, <1>8, <1>9, <1>10, <1>11 DEF PInv

LEMMA AbandonDraftStep == PInv /\ AbandonDraft => PInv'
<1> SUFFICES ASSUME PInv, AbandonDraft PROVE PInv'
  OBVIOUS
<1>1. /\ HasDraft /\ program.published # 0
      /\ program' = [program EXCEPT !.draft = 0]
      /\ UNCHANGED <<sessions, opening, commands, syncJobs>>
  BY DEF AbandonDraft
<1>2. PICK d \in DOMAIN versions : d = program.draft
  BY <1>1, DraftRow
<1>3. versions[d] \in Version /\ versions[d].status \in Editable
  BY <1>1, <1>2, DraftRow DEF Draft
<1>4. /\ [versions[d] EXCEPT !.status = "ABANDONED"] \in Version
      /\ [versions[d] EXCEPT !.status = "ABANDONED"].status = "ABANDONED"
  BY <1>3 DEF Version
<1>5. PICK row \in Version :
        row = [versions[d] EXCEPT !.status = "ABANDONED"] /\ row.status = "ABANDONED"
  BY <1>4
<1>6. /\ versions' \in Seq(Version) /\ Len(versions') = Len(versions)
      /\ DOMAIN versions' = DOMAIN versions
      /\ \A w \in DOMAIN versions : versions'[w] = IF w = d THEN row ELSE versions[w]
  <2>1. versions \in Seq(Version)
    BY DEF PInv, Shape
  <2>2. versions' = [versions EXCEPT ![d] = row]
    BY <1>2, <1>5 DEF AbandonDraft
  <2> QED BY <2>1, <2>2
<1>7. /\ program' \in Program /\ program'.draft = 0 /\ program'.published = program.published
      /\ program'.status = program.status /\ program'.revision = program.revision
  <2>1. program \in Program /\ 0 \in 0..MaxVersions
    BY Bounds DEF PInv, Shape
  <2> QED BY <1>1, <2>1 DEF Program
<1>8. Shape'
  <2>1. Len(versions) \in Nat /\ program.published \in 0..Len(versions)
    BY DEF PInv, Shape
  <2> QED BY <1>1, <1>6, <1>7, <2>1 DEF PInv, Shape, HasDraft
<1>9. OneEditable' /\ SessionsHaveVersions'
  BY <1>1, <1>5, <1>6 DEF PInv, OneEditable, SessionsHaveVersions, IsEditable, Editable
<1>10. PublishedPointer' /\ PublishedWasValidated'
  <2>1. /\ versions[d].status \notin Protected /\ row.status \notin Protected
        /\ versions[d].status # "PUBLISHED" /\ row.status # "PUBLISHED"
    BY <1>3, <1>5 DEF Editable, Protected
  <2>2. PublishedPointer'
    BY <1>6, <1>7, <2>1 DEF PInv, PublishedPointer
  <2>3. PublishedWasValidated'
    BY <1>6, <2>1 DEF PInv, PublishedWasValidated
  <2> QED BY <2>2, <2>3
<1>11. NamedOnce' /\ SyncedInPast'
  <2>1. versions[d].status \notin Protected /\ row.status \notin Protected
    BY <1>3, <1>5 DEF Editable, Protected
  <2> QED BY <1>1, <1>6, <1>7, <2>1 DEF PInv, NamedOnce, CommandsName, SyncedInPast
<1> QED BY <1>8, <1>9, <1>10, <1>11 DEF PInv

LEMMA PublishStep ==
  ASSUME PInv, NEW key \in Keys, Publish(key)
  PROVE  PInv'
<1>1. /\ HasDraft /\ New(key) /\ PublicationAllowed /\ ValidatedAsItIs
      /\ program.revision < MaxRevision
      /\ versions' = Replaced
      /\ commands' = [commands EXCEPT ![key] = program.draft]
      /\ UNCHANGED <<sessions, opening, syncJobs>>
  BY DEF Publish
<1>2. PICK d \in DOMAIN versions : d = program.draft
  BY <1>1, DraftRow
<1>3. PICK p : p = program.published
  OBVIOUS
<1>4. versions[d] \in Version /\ versions[d].status \in Editable
  BY <1>1, <1>2, DraftRow DEF Draft
<1>5. /\ program' = [status |-> IF p = 0 THEN "PUBLISHED" ELSE program.status,
                    draft |-> 0, published |-> d, revision |-> program.revision + 1]
  BY <1>2, <1>3 DEF Publish
<1>6. /\ DOMAIN versions = 1..Len(versions) /\ Len(versions) \in Nat
      /\ \A v \in DOMAIN versions : versions[v] \in Version
      /\ versions \in Seq(Version) /\ program \in Program
      /\ Len(versions) \in 1..MaxVersions
  BY VersionRow DEF PInv, Shape
<1>7. p # d
  BY <1>2, <1>3, <1>4, <1>6 DEF PInv, PublishedPointer, Editable
<1> DEFINE Sold(v) == [versions[v] EXCEPT !.status = "PUBLISHED"]
           Old(v)  == [versions[v] EXCEPT !.status = "SUPERSEDED"]
<1>8. \A v \in DOMAIN versions : Sold(v) \in Version /\ Old(v) \in Version
  BY <1>6 DEF Version, Protected
<1>9. \A v \in DOMAIN versions :
        /\ Sold(v).status = "PUBLISHED" /\ Old(v).status = "SUPERSEDED"
        /\ \A r \in {Sold(v), Old(v)} :
              /\ r.validatedAt = versions[v].validatedAt /\ r.run = versions[v].run
              /\ r.fingerprint = versions[v].fingerprint
              /\ r.revision = versions[v].revision /\ r.rendered = versions[v].rendered
  BY <1>6 DEF Version
<1> HIDE DEF Sold, Old
<1>10. \A v \in DOMAIN versions :
         versions'[v] = CASE v = d -> Sold(v) [] v = p -> Old(v) [] OTHER -> versions[v]
  BY <1>1, <1>2, <1>3 DEF Replaced, Sold, Old
<1>11. /\ versions' \in Seq(Version) /\ Len(versions') = Len(versions)
       /\ DOMAIN versions' = DOMAIN versions
  <2>1. DOMAIN versions' = DOMAIN versions
    BY <1>1 DEF Replaced
  <2>2. \A v \in DOMAIN versions : versions'[v] \in Version
    BY <1>6, <1>8, <1>10
  <2>3. versions' \in [DOMAIN versions -> Version]
    BY <1>1, <2>1, <2>2 DEF Replaced
  <2> QED BY <1>6, <2>3, FunctionIsSeq
<1>12. \A v \in DOMAIN versions :
         versions'[v].status = CASE v = d -> "PUBLISHED" [] v = p -> "SUPERSEDED"
                                 [] OTHER -> versions[v].status
  BY <1>9, <1>10
<1>13. /\ program.revision \in Nat /\ program.revision + 1 \in 1..MaxRevision
       /\ program.status \in {"DRAFT", "VALIDATED", "TEST", "PUBLISHED", "PAUSED", "ARCHIVED"}
  BY <1>1, <1>6, ProgramFields, Bounds
<1>14. /\ program'.draft = 0 /\ program'.published = d
       /\ program'.revision = program.revision + 1
       /\ program'.status \in {"PUBLISHED", "PAUSED"}
  BY <1>1, <1>3, <1>5 DEF PublicationAllowed
<1>15. program' \in Program
  <2>1. d \in 0..MaxVersions /\ 0 \in 0..MaxVersions
    BY <1>6, Bounds
  <2> QED BY <1>5, <1>13, <2>1 DEF Program
<1>16. commands \in [Keys -> 0..MaxVersions] /\ d \in 0..MaxVersions
  BY <1>6, Bounds DEF PInv, Shape
<1>17. Shape'
  BY <1>1, <1>2, <1>6, <1>11, <1>14, <1>15, <1>16 DEF PInv, Shape, HasDraft
<1>18. OneEditable' /\ SessionsHaveVersions'
  BY <1>1, <1>11, <1>12 DEF PInv, OneEditable, SessionsHaveVersions, IsEditable, Editable
<1>19. PublishedPointer'
  BY <1>3, <1>6, <1>7, <1>11, <1>12, <1>14 DEF PInv, PublishedPointer
<1>20. PublishedWasValidated'
  <2> SUFFICES ASSUME NEW v \in DOMAIN versions, versions'[v].status \in Protected
               PROVE  /\ versions'[v].validatedAt
                      /\ versions'[v].fingerprint = versions'[v].revision
                      /\ versions'[v].run = [revision |-> versions'[v].revision, passed |-> TRUE]
                      /\ versions'[v].rendered = versions'[v].revision
    BY <1>11 DEF PublishedWasValidated
  <2>1. versions[v].status \in Protected \/ v = d
    BY <1>3, <1>12 DEF PInv, PublishedPointer, Protected
  <2>2. /\ versions[v].validatedAt /\ versions[v].fingerprint = versions[v].revision
        /\ versions[v].run = [revision |-> versions[v].revision, passed |-> TRUE]
        /\ versions[v].rendered = versions[v].revision
    BY <1>1, <1>2, <2>1 DEF PInv, PublishedWasValidated, ValidatedAsItIs, Draft
  <2>3. /\ versions'[v].validatedAt = versions[v].validatedAt
        /\ versions'[v].run = versions[v].run
        /\ versions'[v].fingerprint = versions[v].fingerprint
        /\ versions'[v].revision = versions[v].revision
        /\ versions'[v].rendered = versions[v].rendered
    BY <1>9, <1>10
  <2> QED BY <2>2, <2>3
<1>21. NamedOnce'
  <2>1. commands[key] = 0 /\ d # 0 /\ \A k \in Keys : commands[k] \in 0..Len(versions)
    BY <1>1, <1>6 DEF New, PInv, NamedOnce
  <2>2. \A k \in Keys : commands'[k] = IF k = key THEN d ELSE commands[k]
    BY <1>1, <1>2, <1>16
  <2>3. CommandsName(d) = {}
    BY <1>4 DEF PInv, NamedOnce, Editable, Protected
  <2>4. CommandsName(d)' = {key}
    BY <2>2, <2>3 DEF CommandsName
  <2>5. \A v \in DOMAIN versions : v # d => CommandsName(v)' = CommandsName(v)
    BY <1>6, <2>1, <2>2 DEF CommandsName
  <2>6. \A v \in DOMAIN versions :
          IF versions'[v].status \in Protected
          THEN \E k \in Keys : CommandsName(v)' = {k}
          ELSE CommandsName(v)' = {}
    <3> SUFFICES ASSUME NEW v \in DOMAIN versions
                 PROVE  IF versions'[v].status \in Protected
                        THEN \E k \in Keys : CommandsName(v)' = {k}
                        ELSE CommandsName(v)' = {}
      OBVIOUS
    <3>1. CASE v = d
      BY <1>12, <2>4, <3>1 DEF Protected
    <3>2. CASE v # d
      <4>1. versions'[v].status \in Protected <=> versions[v].status \in Protected
        BY <1>3, <1>12, <3>2 DEF PInv, PublishedPointer, Protected
      <4> QED BY <2>5, <3>2, <4>1 DEF PInv, NamedOnce
    <3> QED BY <3>1, <3>2
  <2>7. \A k \in Keys : commands'[k] \in 0..Len(versions')
    BY <1>6, <1>11, <2>1, <2>2
  <2> QED BY <1>11, <2>6, <2>7 DEF NamedOnce
<1>22. SyncedInPast'
  BY <1>1, <1>13, <1>14 DEF PInv, Shape, SyncedInPast
<1> QED BY <1>17, <1>18, <1>19, <1>20, <1>21, <1>22 DEF PInv

-----------------------------------------------------------------------------
(* The steps of Test Mode.                                                  *)

(* The fields of a session row.                                             *)
LEMMA SessionRow ==
  ASSUME PInv, NEW s \in DOMAIN sessions
  PROVE  /\ sessions[s] \in Session /\ sessions[s].stamps \in 0..Goal
         /\ sessions[s].unlocked \in BOOLEAN
         /\ sessions[s].version \in DOMAIN versions
         /\ sessions \in Seq(Session) /\ Len(sessions) \in Nat
         /\ DOMAIN sessions = 1..Len(sessions)
<1>1. sessions \in Seq(Session) /\ sessions[s].version \in DOMAIN versions
  BY DEF PInv, Shape, SessionsHaveVersions
<1>2. sessions[s] \in Session /\ Len(sessions) \in Nat /\ DOMAIN sessions = 1..Len(sessions)
  BY <1>1, LenProperties, ElementOfSeq
<1> QED BY <1>1, <1>2 DEF Session

(* One session row is replaced by one on the same version.                  *)
LEMMA SessionWritten ==
  ASSUME PInv, NEW s \in DOMAIN sessions, NEW row \in Session,
         row.version = sessions[s].version,
         sessions' = [sessions EXCEPT ![s] = row]
  PROVE  /\ sessions' \in Seq(Session) /\ Len(sessions') = Len(sessions)
         /\ DOMAIN sessions' = DOMAIN sessions
         /\ \A t \in DOMAIN sessions' : t \in DOMAIN sessions
                                       /\ sessions'[t].version = sessions[t].version
<1>1. sessions \in Seq(Session)
  BY DEF PInv, Shape
<1> QED BY <1>1

(* A session is written, and nothing else.                                  *)
LEMMA OnlySessionWritten ==
  ASSUME PInv, NEW s \in DOMAIN sessions, NEW row \in Session,
         row.version = sessions[s].version,
         sessions' = [sessions EXCEPT ![s] = row],
         UNCHANGED <<program, versions, opening, commands, syncJobs>>
  PROVE  PInv'
<1>1. /\ sessions' \in Seq(Session) /\ Len(sessions') = Len(sessions)
      /\ \A t \in DOMAIN sessions' : t \in DOMAIN sessions
                                    /\ sessions'[t].version = sessions[t].version
  BY SessionWritten
<1>2. Shape'
  BY <1>1 DEF PInv, Shape, HasDraft, Draft
<1>3. OneEditable' /\ SessionsHaveVersions' /\ PublishedPointer' /\ PublishedWasValidated'
  BY <1>1 DEF PInv, OneEditable, SessionsHaveVersions, PublishedPointer,
     PublishedWasValidated, IsEditable
<1>4. NamedOnce' /\ SyncedInPast'
  BY DEF PInv, NamedOnce, CommandsName, SyncedInPast
<1> QED BY <1>2, <1>3, <1>4 DEF PInv

LEMMA AddTestStampsStep ==
  ASSUME PInv, NEW s \in DOMAIN sessions, NEW n \in 1..Goal, AddTestStamps(s, n)
  PROVE  PInv'
<1> DEFINE row == [sessions[s] EXCEPT !.stamps = @ + n, !.status = "ACTIVE",
                     !.unlocked = @ \/ sessions[s].stamps + n = Goal]
<1>1. /\ sessions' = [sessions EXCEPT ![s] = row]
      /\ sessions[s].stamps + n <= Goal
      /\ UNCHANGED <<program, versions, opening, commands, syncJobs>>
  BY DEF AddTestStamps
<1>2. sessions[s].stamps + n \in 0..Goal
  BY <1>1, SessionRow, Bounds
<1>3. row \in Session /\ row.version = sessions[s].version
  BY <1>2, SessionRow DEF Session
<1> HIDE DEF row
<1> QED BY <1>1, <1>3, OnlySessionWritten

LEMMA RedeemTestRewardStep ==
  ASSUME PInv, NEW s \in DOMAIN sessions, RedeemTestReward(s)
  PROVE  PInv'
<1> DEFINE row == [sessions[s] EXCEPT !.stamps = 0, !.unlocked = FALSE,
                     !.status = IF Completes(s) THEN "COMPLETED" ELSE "ACTIVE"]
<1>1. /\ sessions' = [sessions EXCEPT ![s] = row]
      /\ UNCHANGED <<program, opening, commands, syncJobs>>
  BY DEF RedeemTestReward
<1>2. row \in Session /\ row.version = sessions[s].version
  <2>1. 0 \in 0..Goal
    BY Bounds
  <2> QED BY <2>1, SessionRow DEF Session
<1> HIDE DEF row
<1>3. CASE Completes(s)
  <2>1. PICK v \in DOMAIN versions : v = sessions[s].version
    BY SessionRow
  <2>2. /\ MaySet(v, "TEST_READY")
        /\ versions' = [versions EXCEPT ![v].status = "TEST_READY"]
    BY <1>3, <2>1 DEF RedeemTestReward
  <2>3. "TEST_READY" \in Editable
    BY DEF Editable
  <2> QED BY <1>1, <1>2, <2>2, <2>3, SessionWritten, StatusWritten
<1>4. CASE ~ Completes(s)
  <2>1. UNCHANGED versions
    BY <1>4 DEF RedeemTestReward
  <2> QED BY <1>1, <1>2, <2>1, OnlySessionWritten
<1> QED BY <1>3, <1>4

LEMMA BackStep ==
  ASSUME PInv, NEW s \in DOMAIN sessions, ReverseTestStamp(s) \/ ResetTestSession(s)
  PROVE  PInv'
<1>1. PICK v \in DOMAIN versions : v = sessions[s].version
  BY SessionRow
<1>2. /\ MaySet(v, "VALIDATED") /\ "VALIDATED" \in Editable
      /\ versions' = [versions EXCEPT ![v].status = "VALIDATED"]
      /\ UNCHANGED <<program, opening, commands, syncJobs>>
  BY <1>1 DEF ReverseTestStamp, ResetTestSession, BackToValidated, Editable
<1>3. PICK row \in Session : /\ row.version = sessions[s].version
                            /\ sessions' = [sessions EXCEPT ![s] = row]
  <2>1. CASE ReverseTestStamp(s)
    <3> DEFINE row == [sessions[s] EXCEPT !.stamps = @ - 1, !.unlocked = FALSE,
                                          !.status = "ACTIVE"]
    <3>1. sessions[s].stamps - 1 \in 0..Goal
      BY <2>1, SessionRow, Bounds DEF ReverseTestStamp
    <3>2. row \in Session /\ row.version = sessions[s].version
      BY <3>1, SessionRow DEF Session
    <3>3. sessions' = [sessions EXCEPT ![s] = row]
      BY <2>1 DEF ReverseTestStamp
    <3> HIDE DEF row
    <3> QED BY <3>2, <3>3
  <2>2. CASE ResetTestSession(s)
    <3> DEFINE row == [sessions[s] EXCEPT !.stamps = 0, !.unlocked = FALSE,
                                          !.status = "RESET"]
    <3>1. 0 \in 0..Goal
      BY Bounds
    <3>2. row \in Session /\ row.version = sessions[s].version
      BY <3>1, SessionRow DEF Session
    <3>3. sessions' = [sessions EXCEPT ![s] = row]
      BY <2>2 DEF ResetTestSession
    <3> HIDE DEF row
    <3> QED BY <3>2, <3>3
  <2> QED BY <2>1, <2>2
<1> QED BY <1>2, <1>3, SessionWritten, StatusWritten

LEMMA OpeningStep == PInv /\ (ReadDraftForTest \/ OpenSession) => PInv'
<1> SUFFICES ASSUME PInv, ReadDraftForTest \/ OpenSession PROVE PInv'
  OBVIOUS
<1>1. UNCHANGED <<program, versions, commands, syncJobs>>
  BY DEF ReadDraftForTest, OpenSession
<1>2. OneEditable' /\ PublishedPointer' /\ PublishedWasValidated'
  BY <1>1 DEF PInv, OneEditable, PublishedPointer, PublishedWasValidated, IsEditable
<1>3. NamedOnce' /\ SyncedInPast'
  BY <1>1 DEF PInv, NamedOnce, CommandsName, SyncedInPast
<1>4. sessions \in Seq(Session) /\ opening \in Seq(Session) /\ Len(opening) <= 1
  BY DEF PInv, Shape
<1>5. CASE ReadDraftForTest
  <2>1. /\ HasDraft /\ UNCHANGED sessions
        /\ opening' = << [version |-> program.draft, revision |-> Draft.revision,
                          fingerprint |-> Draft.fingerprint, stamps |-> 0,
                          unlocked |-> FALSE, status |-> "ACTIVE"] >>
    BY <1>5 DEF ReadDraftForTest
  <2> DEFINE row == [version |-> program.draft, revision |-> Draft.revision,
                     fingerprint |-> Draft.fingerprint, stamps |-> 0,
                     unlocked |-> FALSE, status |-> "ACTIVE"]
  <2>2. program.draft \in 1..MaxVersions
    BY <2>1, DraftRow, VersionRow, Bounds DEF PInv, Shape
  <2>3. 0 \in 0..Goal
    BY Bounds
  <2>4. row \in Session /\ row.version = program.draft
    BY <2>1, <2>2, <2>3, DraftRow, VersionFields DEF Session
  <2> HIDE DEF row
  <2>5. /\ opening' \in Seq(Session) /\ Len(opening') = 1
        /\ \A s \in DOMAIN opening' : opening'[s].version = program.draft
    BY <2>1, <2>4 DEF row
  <2>6. program.draft \in DOMAIN versions
    BY <2>1, DraftRow
  <2>7. Shape'
    BY <1>1, <1>5, <2>1, <2>5 DEF ReadDraftForTest, PInv, Shape, HasDraft, Draft
  <2>8. SessionsHaveVersions'
    BY <1>1, <2>1, <2>5, <2>6 DEF PInv, SessionsHaveVersions
  <2> QED BY <1>2, <1>3, <2>7, <2>8 DEF PInv
<1>6. CASE OpenSession
  <2>1. opening # <<>> /\ sessions' = sessions \o opening /\ opening' = <<>>
    BY <1>6 DEF OpenSession
  <2>2. /\ Len(sessions) \in Nat /\ DOMAIN sessions = 1..Len(sessions)
        /\ Len(opening) \in Nat /\ DOMAIN opening = 1..Len(opening)
        /\ Len(opening) = 1
    <3>1. Len(opening) # 0
      BY <1>4, <2>1, EmptySeq
    <3>2. /\ Len(sessions) \in Nat /\ DOMAIN sessions = 1..Len(sessions)
          /\ Len(opening) \in Nat /\ DOMAIN opening = 1..Len(opening)
      BY <1>4, LenProperties
    <3> QED BY <1>4, <3>1, <3>2
  <2>3. /\ sessions' \in Seq(Session) /\ Len(sessions') = Len(sessions) + 1
        /\ DOMAIN sessions' = 1..(Len(sessions) + 1)
        /\ \A s \in DOMAIN sessions : sessions'[s] = sessions[s]
        /\ sessions'[Len(sessions) + 1] = opening[1]
    <3>1. /\ sessions' \in Seq(Session) /\ Len(sessions') = Len(sessions) + 1
          /\ \A s \in 1..(Len(sessions) + 1) :
                sessions'[s] = IF s <= Len(sessions) THEN sessions[s]
                               ELSE opening[s - Len(sessions)]
      <4>1. /\ sessions \o opening \in Seq(Session)
            /\ Len(sessions \o opening) = Len(sessions) + Len(opening)
            /\ \A s \in 1..Len(sessions) + Len(opening) : (sessions \o opening)[s] =
                 IF s <= Len(sessions) THEN sessions[s] ELSE opening[s - Len(sessions)]
        BY <1>4, ConcatProperties
      <4> QED BY <2>1, <2>2, <4>1
    <3>2. DOMAIN sessions' = 1..(Len(sessions) + 1)
      BY <3>1, LenProperties
    <3> QED BY <2>2, <3>1, <3>2
  <2>4. /\ opening' \in Seq(Session) /\ Len(opening') = 0
        /\ DOMAIN opening' = {}
    BY <2>1
  <2>5. SessionsHaveVersions'
    BY <1>1, <2>2, <2>3, <2>4 DEF PInv, SessionsHaveVersions
  <2>6. Len(sessions') <= MaxSessions
    BY <2>1, <2>2, <2>3, Bounds DEF PInv, Shape
  <2>7. Shape'
    BY <1>1, <2>3, <2>4, <2>6 DEF PInv, Shape, HasDraft, Draft
  <2> QED BY <1>2, <1>3, <2>5, <2>7 DEF PInv
<1> QED BY <1>5, <1>6

-----------------------------------------------------------------------------
(* The steps that change the program row only.                              *)

LEMMA ProgramStep ==
  ASSUME PInv, ChangePublicSlug \/ \E action \in Actions : Transition(action)
  PROVE  PInv'
<1>1. /\ program \in Program /\ sessions \in Seq(Session) /\ Len(sessions) <= MaxSessions
      /\ opening \in Seq(Session) /\ Len(opening) <= 1
      /\ opening # <<>> => Len(sessions) < MaxSessions
      /\ syncJobs \subseteq (1..MaxRevision) \X Actions
  BY DEF PInv, Shape
<1>2. /\ \A s \in DOMAIN sessions : sessions[s].version \in DOMAIN versions
      /\ \A s \in DOMAIN opening : opening[s].version \in DOMAIN versions
      /\ \A job \in syncJobs : job[1] <= program.revision
      /\ program.status \in {"PUBLISHED", "PAUSED"} => program.published # 0
      /\ program.published # 0 => program.status \in {"PUBLISHED", "PAUSED", "ARCHIVED"}
  BY DEF PInv, SessionsHaveVersions, SyncedInPast, PublishedPointer
<1>3. /\ program.revision < MaxRevision /\ UNCHANGED <<versions, sessions, opening, commands>>
  BY DEF ChangePublicSlug, Transition
<1>4. program.revision \in Nat /\ program.revision + 1 \in 1..MaxRevision
  BY <1>1, <1>3, ProgramFields, Bounds
<1>5. CASE ChangePublicSlug
  <2>1. program' = [program EXCEPT !.revision = @ + 1] /\ UNCHANGED syncJobs
    BY <1>5 DEF ChangePublicSlug
  <2>2. /\ program' \in Program /\ program'.draft = program.draft
        /\ program'.published = program.published /\ program'.status = program.status
        /\ program'.revision = program.revision + 1
    BY <1>1, <1>4, <2>1 DEF Program
  <2>3. /\ syncJobs' \subseteq (1..MaxRevision) \X Actions
        /\ \A job \in syncJobs' : job[1] <= program'.revision
    BY <1>1, <1>2, <1>4, <2>1, <2>2
  <2> QED BY <1>1, <1>2, <1>3, <1>4, <2>1, <2>2, <2>3, VersionsKept
<1>6. CASE \E action \in Actions : Transition(action)
  <2>1. PICK action \in Actions : Transition(action)
    BY <1>6
  <2>2. /\ Permitted(action)
        /\ program' = [program EXCEPT !.status = After(action), !.revision = @ + 1]
        /\ syncJobs' = syncJobs \cup {<<program.revision + 1, action>>}
    BY <2>1 DEF Transition, SyncKey
  <2>3. /\ After(action) \in {"DRAFT", "VALIDATED", "TEST", "PUBLISHED", "PAUSED", "ARCHIVED"}
        /\ After(action) \in {"PUBLISHED", "PAUSED"} => program.published # 0
        /\ program.published # 0 => After(action) \in {"PUBLISHED", "PAUSED", "ARCHIVED"}
    <3>1. Restored \in {"DRAFT", "VALIDATED", "TEST", "PUBLISHED"}
          /\ (Restored = "PUBLISHED" <=> program.published # 0)
      BY DEF Restored, HasDraft
    <3>2. CASE action = "restore"
      BY <3>1, <3>2 DEF After
    <3>3. CASE action = "archive"
      BY <3>3 DEF After
    <3>4. CASE action \in {"pause", "resume"}
      BY <1>2, <2>2, <3>4 DEF After, Permitted
    <3> QED BY <3>2, <3>3, <3>4 DEF Actions
  <2>4. /\ program' \in Program /\ program'.draft = program.draft
        /\ program'.published = program.published /\ program'.status = After(action)
        /\ program'.revision = program.revision + 1
    BY <1>1, <1>4, <2>2, <2>3 DEF Program
  <2>5. /\ syncJobs' \subseteq (1..MaxRevision) \X Actions
        /\ \A job \in syncJobs' : job[1] <= program'.revision
    BY <1>1, <1>2, <1>4, <2>2, <2>4
  <2> QED BY <1>1, <1>2, <1>3, <1>4, <2>3, <2>4, <2>5, VersionsKept
<1> QED BY <1>5, <1>6

-----------------------------------------------------------------------------
(* The theorems.                                                            *)

LEMMA StepPInv == PInv /\ [Next]_vars => PInv'
<1> SUFFICES ASSUME PInv, [Next]_vars PROVE PInv'
  OBVIOUS
<1>1. ASSUME Update \/ UpdatePolicy PROVE PInv'
  BY <1>1, UpdateStep
<1>2. ASSUME ChangePublicSlug \/ \E action \in Actions : Transition(action) PROVE PInv'
  BY <1>2, ProgramStep
<1>3. ASSUME Preview PROVE PInv'
  BY <1>3, PreviewStep
<1>4. ASSUME NEW passed \in BOOLEAN, Validate(passed) PROVE PInv'
  BY <1>4, ValidateStep
<1>5. ASSUME CreateDraft PROVE PInv'
  BY <1>5, CreateDraftStep
<1>6. ASSUME AbandonDraft PROVE PInv'
  BY <1>6, AbandonDraftStep
<1>7. ASSUME ReadDraftForTest \/ OpenSession PROVE PInv'
  BY <1>7, OpeningStep
<1>8. ASSUME NEW s \in DOMAIN sessions, NEW n \in 1..Goal, AddTestStamps(s, n) PROVE PInv'
  BY <1>8, AddTestStampsStep
<1>9. ASSUME NEW s \in DOMAIN sessions, RedeemTestReward(s) PROVE PInv'
  BY <1>9, RedeemTestRewardStep
<1>10. ASSUME NEW s \in DOMAIN sessions, ReverseTestStamp(s) \/ ResetTestSession(s) PROVE PInv'
  BY <1>10, BackStep
<1>11. ASSUME NEW key \in Keys, Publish(key) PROVE PInv'
  BY <1>11, PublishStep
<1>12. ASSUME UNCHANGED vars PROVE PInv'
  <2> USE <1>12 DEF vars
  <2>1. Shape' /\ OneEditable' /\ SessionsHaveVersions'
    BY DEF PInv, Shape, HasDraft, Draft, OneEditable, IsEditable, SessionsHaveVersions
  <2>2. PublishedPointer' /\ PublishedWasValidated' /\ SyncedInPast'
    BY DEF PInv, PublishedPointer, PublishedWasValidated, SyncedInPast
  <2>3. NamedOnce'
    BY DEF PInv, NamedOnce, CommandsName
  <2> QED BY <2>1, <2>2, <2>3 DEF PInv
<1> QED BY <1>1, <1>2, <1>3, <1>4, <1>5, <1>6, <1>7, <1>8, <1>9, <1>10, <1>11, <1>12 DEF Next

(* In every reachable state the rows have their types, the draft pointer    *)
(* names an editable version and the published pointer the one PUBLISHED    *)
(* version, which was validated as it is and was published by one command.  *)
THEOREM PublicationInvariant == Spec => []PInv
<1> QED BY InitPInv, StepPInv, PTL DEF Spec

(* The rows of versions, sessions, commands and jobs keep their types, and  *)
(* the database's rule of one editable version holds.                       *)
THEOREM PublicationTypes == Spec => []TypeOK
<1>1. PInv => TypeOK
  <2> SUFFICES ASSUME PInv PROVE TypeOK
    OBVIOUS
  <2> DEFINE E == {v \in DOMAIN versions : versions[v].status \in Editable}
  <2>1. \A v, w \in E : v = w
    BY DEF PInv, OneEditable, IsEditable
  <2>2. E = {} \/ \E v : E = {v}
    BY <2>1
  <2>3. Cardinality(E) <= 1
    <3>1. CASE E = {}
      BY <3>1, FS_EmptySet
    <3>2. CASE \E v : E = {v}
      <4>1. PICK v : E = {v}
        BY <3>2
      <4>2. Cardinality({v}) = 1
        BY FS_Singleton
      <4> QED BY <4>1, <4>2
    <3> QED BY <2>2, <3>1, <3>2
  <2> QED BY <2>3 DEF PInv, Shape, TypeOK
<1> QED BY <1>1, PublicationInvariant, PTL

(* What is on sale or was replaced was validated as it is: no edit, test    *)
(* session, rewind or abandonment reaches a row once it is published.       *)
THEOREM OnlyValidatedIsPublished == Spec => []PublishedWasValidated
<1>1. PInv => PublishedWasValidated
  BY DEF PInv
<1> QED BY <1>1, PublicationInvariant, PTL

(* The published pointer of the program names the one PUBLISHED version,    *)
(* exactly while the program is on sale, paused or archived after it was.   *)
THEOREM PointerIsPublished == Spec => []PublishedPointer
<1>1. PInv => PublishedPointer
  BY DEF PInv
<1> QED BY <1>1, PublicationInvariant, PTL

(* Every version that was ever published was published by one command, and  *)
(* a version that was not by none.                                          *)
THEOREM OneCommandPublishes == Spec => []PublishedByOneCommand
<1>1. PInv => PublishedByOneCommand
  <2> SUFFICES ASSUME PInv, NEW v \in DOMAIN versions
               PROVE  Cardinality({k \in Keys : commands[k] = v})
                        = IF versions[v].status \in Protected THEN 1 ELSE 0
    BY DEF PublishedByOneCommand
  <2>1. IF versions[v].status \in Protected
        THEN \E k \in Keys : CommandsName(v) = {k} ELSE CommandsName(v) = {}
    BY DEF PInv, NamedOnce
  <2> QED BY <2>1, FS_EmptySet, FS_Singleton DEF CommandsName
<1> QED BY <1>1, PublicationInvariant, PTL

(* Each pause, resume, archive and restore of a live program queues a sync  *)
(* job that was not there: the revision in its key was never reached.       *)
THEOREM EveryTransitionIsSynced == Spec => TransitionsAreSynced
<1>1. PInv /\ [Next]_vars
        => [program.published # 0 /\ program'.status # program.status
              => syncJobs' # syncJobs]_vars
  <2> SUFFICES ASSUME PInv, Next, program.published # 0, program'.status # program.status
               PROVE  syncJobs' # syncJobs
    BY DEF vars
  <2>1. program \in Program /\ program.status \in {"PUBLISHED", "PAUSED", "ARCHIVED"}
    BY DEF PInv, Shape, PublishedPointer
  <2>2. \E action \in Actions : Transition(action)
    <3>1. ~ Update
      BY <2>1 DEF Update, FollowsDraft, Program
    <3>2. ~ UpdatePolicy /\ ~ Preview /\ ~ ReadDraftForTest /\ ~ OpenSession
      BY DEF UpdatePolicy, Preview, ReadDraftForTest, OpenSession
    <3>3. ~ ChangePublicSlug /\ ~ CreateDraft /\ ~ AbandonDraft
      BY <2>1 DEF ChangePublicSlug, CreateDraft, AbandonDraft, Program
    <3>4. \A passed \in BOOLEAN : ~ Validate(passed)
      BY <2>1 DEF Validate
    <3>5. \A s \in DOMAIN sessions :
            /\ \A n \in 1..Goal : ~ AddTestStamps(s, n)
            /\ ~ RedeemTestReward(s) /\ ~ ReverseTestStamp(s) /\ ~ ResetTestSession(s)
      BY DEF AddTestStamps, RedeemTestReward, ReverseTestStamp, ResetTestSession
    <3>6. \A key \in Keys : ~ Publish(key)
      BY DEF Publish
    <3> QED BY <3>1, <3>2, <3>3, <3>4, <3>5, <3>6 DEF Next
  <2>3. PICK action \in Actions : Transition(action)
    BY <2>2
  <2>4. <<program.revision + 1, action>> \in syncJobs'
    BY <2>3 DEF Transition, SyncKey
  <2>5. program.revision \in Nat
    BY <2>1, ProgramFields
  <2>6. <<program.revision + 1, action>> \notin syncJobs
    BY <2>5 DEF PInv, SyncedInPast
  <2> QED BY <2>4, <2>6
<1> QED BY <1>1, PublicationInvariant, PTL DEF Spec, TransitionsAreSynced

-----------------------------------------------------------------------------
(* The team.  Its inductive invariant.                                     *)

SeatedMembers == {p \in People : members[p].status = "ACTIVE" /\ members[p].role \in Seated}

OpenInvitations(invited) ==
  {i \in DOMAIN invited : invited[i].status = "PENDING" /\ ~ invited[i].lapsed}

\* Nobody but the creator is an owner, and nobody invites the creator: it is
\* active until the organization closes, and a closed one sends nothing.
OnlyTheOwner == \A p \in People : members[p].role = "OWNER" => p = Owner
OwnerNotInvited == \A i \in DOMAIN invitations : invitations[i].to # Owner

\* The organization has its owner, or nothing in it can move any more.
OpenOrClosed ==
  \/ members[Owner].role = "OWNER" /\ members[Owner].status = "ACTIVE"
  \/ /\ \A p \in People : members[p].status \in {"NONE", "REMOVED"}
     /\ \A i \in DOMAIN invitations : invitations[i].status # "PENDING"

SeatsCounted == IsFiniteSet(SeatedMembers) /\ SeatsWithinPlan

TInv == TeamTypeOK /\ OnlyTheOwner /\ OwnerNotInvited /\ OpenOrClosed /\ SeatsCounted

-----------------------------------------------------------------------------
(* Facts about the rows.                                                    *)

LEMMA TeamFacts ==
  ASSUME TInv
  PROVE  /\ members \in [People -> Member]
         /\ users \in [People -> {"ACTIVE", "DEACTIVATED"}]
         /\ invitations \in Seq(Invitation)
         /\ Len(invitations) \in Nat /\ DOMAIN invitations = 1..Len(invitations)
         /\ \A i \in DOMAIN invitations : invitations[i] \in Invitation
         /\ \A p \in People : members[p] \in Member
<1> QED BY LenProperties, ElementOfSeq DEF TInv, TeamTypeOK

(* The sweep only marks invitations that could not be accepted any more.    *)
LEMMA SweptRows ==
  ASSUME TInv
  PROVE  /\ Swept \in Seq(Invitation) /\ Len(Swept) = Len(invitations)
         /\ DOMAIN Swept = DOMAIN invitations
         /\ \A i \in DOMAIN invitations :
              /\ Swept[i] \in Invitation /\ Swept[i].to = invitations[i].to
              /\ Swept[i].status = "PENDING" =>
                   /\ invitations[i].status = "PENDING" /\ ~ invitations[i].lapsed
                   /\ ~ Swept[i].lapsed
              /\ invitations[i].status = "PENDING" /\ ~ invitations[i].lapsed =>
                   Swept[i].status = "PENDING"
<1> DEFINE Row(i) == IF invitations[i].status = "PENDING" /\ invitations[i].lapsed
                     THEN [invitations[i] EXCEPT !.status = "EXPIRED"] ELSE invitations[i]
<1>1. \A i \in DOMAIN invitations :
        /\ Row(i) \in Invitation /\ Row(i).to = invitations[i].to
        /\ Row(i).status = "PENDING" =>
             /\ invitations[i].status = "PENDING" /\ ~ invitations[i].lapsed
             /\ ~ Row(i).lapsed
        /\ invitations[i].status = "PENDING" /\ ~ invitations[i].lapsed =>
             Row(i).status = "PENDING"
  BY TeamFacts DEF Invitation
<1>2. Swept = [i \in DOMAIN invitations |-> Row(i)]
  BY DEF Swept
<1> HIDE DEF Row
<1>3. Swept \in [DOMAIN invitations -> Invitation]
  BY <1>1, <1>2
<1>4. /\ Swept \in Seq(Invitation) /\ Len(Swept) = Len(invitations)
      /\ DOMAIN Swept = DOMAIN invitations
  BY <1>3, TeamFacts, FunctionIsSeq
<1> QED BY <1>1, <1>2, <1>4

LEMMA SweepFreesNothing ==
  ASSUME TInv
  PROVE  OpenInvitations(Swept) = OpenInvitations(invitations)
<1> QED BY SweptRows DEF OpenInvitations

-----------------------------------------------------------------------------
(* Counting seats.                                                          *)

LEMMA SeatsAre ==
  \A invited : SeatsUsed(invited)
                 = Cardinality(SeatedMembers) + Cardinality(OpenInvitations(invited))
<1> QED BY DEF SeatsUsed, SeatedMembers, OpenInvitations

LEMMA OpenAreFinite ==
  ASSUME NEW s \in Seq(Invitation)
  PROVE  /\ IsFiniteSet(OpenInvitations(s))
         /\ Cardinality(OpenInvitations(s)) \in Nat
<1>1. Len(s) \in Nat /\ DOMAIN s = 1..Len(s)
  BY LenProperties
<1>2. IsFiniteSet(1..Len(s))
  BY <1>1, FS_Interval
<1>3. OpenInvitations(s) \subseteq 1..Len(s)
  BY <1>1 DEF OpenInvitations
<1> QED BY <1>2, <1>3, FS_Subset, FS_CardinalityType

LEMMA OneMore ==
  ASSUME NEW S, NEW T, NEW x, IsFiniteSet(S), T \subseteq S \cup {x}
  PROVE  IsFiniteSet(T) /\ Cardinality(T) \in Nat /\ Cardinality(T) <= Cardinality(S) + 1
<1>1. /\ IsFiniteSet(S \cup {x})
      /\ Cardinality(S \cup {x}) = Cardinality(S) \/ Cardinality(S \cup {x}) = Cardinality(S) + 1
  BY FS_AddElement
<1>2. Cardinality(S) \in Nat /\ Cardinality(S \cup {x}) \in Nat
  BY <1>1, FS_CardinalityType
<1>3. IsFiniteSet(T) /\ Cardinality(T) <= Cardinality(S \cup {x})
  BY <1>1, FS_Subset
<1>4. Cardinality(T) \in Nat
  BY <1>3, FS_CardinalityType
<1> QED BY <1>1, <1>2, <1>3, <1>4

LEMMA NoMore ==
  ASSUME NEW S, NEW T, IsFiniteSet(S), T \subseteq S
  PROVE  IsFiniteSet(T) /\ Cardinality(T) \in Nat /\ Cardinality(T) <= Cardinality(S)
<1> QED BY FS_Subset, FS_CardinalityType

(* What is known of the seats, and what a step has to show.                 *)
LEMMA SeatsNow ==
  ASSUME TInv
  PROVE  /\ IsFiniteSet(SeatedMembers) /\ Cardinality(SeatedMembers) \in Nat
         /\ IsFiniteSet(OpenInvitations(invitations))
         /\ Cardinality(OpenInvitations(invitations)) \in Nat
         /\ Cardinality(SeatedMembers) + Cardinality(OpenInvitations(invitations)) <= SeatLimit
<1>1. IsFiniteSet(SeatedMembers) /\ SeatsUsed(invitations) <= SeatLimit
  BY DEF TInv, SeatsCounted, SeatsWithinPlan
<1>2. /\ IsFiniteSet(OpenInvitations(invitations))
      /\ Cardinality(OpenInvitations(invitations)) \in Nat
  BY TeamFacts, OpenAreFinite
<1>3. SeatsUsed(invitations)
        = Cardinality(SeatedMembers) + Cardinality(OpenInvitations(invitations))
  BY SeatsAre
<1>4. Cardinality(SeatedMembers) \in Nat
  BY <1>1, FS_CardinalityType
<1> QED BY <1>1, <1>2, <1>3, <1>4

LEMMA SeatsCountedIs ==
  ASSUME IsFiniteSet(SeatedMembers'),
         Cardinality(SeatedMembers') + Cardinality(OpenInvitations(invitations')) <= SeatLimit
  PROVE  SeatsCounted'
<1>1. SeatsUsed(invitations)'
        = Cardinality(SeatedMembers') + Cardinality(OpenInvitations(invitations'))
  BY DEF SeatsUsed, SeatedMembers, OpenInvitations
<1> QED BY <1>1 DEF SeatsCounted, SeatsWithinPlan

(* No seat is taken.                                                        *)
LEMMA SeatsKept ==
  ASSUME TInv, SeatedMembers' \subseteq SeatedMembers,
         OpenInvitations(invitations') \subseteq OpenInvitations(invitations)
  PROVE  SeatsCounted'
<1>1. /\ IsFiniteSet(SeatedMembers') /\ Cardinality(SeatedMembers') \in Nat
      /\ Cardinality(SeatedMembers') <= Cardinality(SeatedMembers)
  BY SeatsNow, NoMore
<1>2. /\ Cardinality(OpenInvitations(invitations')) \in Nat
      /\ Cardinality(OpenInvitations(invitations')) <= Cardinality(OpenInvitations(invitations))
  BY SeatsNow, NoMore
<1>3. Cardinality(SeatedMembers') + Cardinality(OpenInvitations(invitations')) <= SeatLimit
  BY <1>1, <1>2, SeatsNow, TeamAssumption
<1> QED BY <1>1, <1>3, SeatsCountedIs

(* A seat is taken after the count found one free.                          *)
LEMMA SeatTaken ==
  ASSUME TInv, SeatFree(invitations), NEW x,
         \/ /\ SeatedMembers' \subseteq SeatedMembers \cup {x}
            /\ OpenInvitations(invitations') \subseteq OpenInvitations(invitations)
         \/ /\ SeatedMembers' \subseteq SeatedMembers
            /\ OpenInvitations(invitations') \subseteq OpenInvitations(invitations) \cup {x}
  PROVE  SeatsCounted'
<1>1. Cardinality(SeatedMembers) + Cardinality(OpenInvitations(invitations)) < SeatLimit
  BY SeatsAre DEF SeatFree
<1>2. CASE /\ SeatedMembers' \subseteq SeatedMembers \cup {x}
           /\ OpenInvitations(invitations') \subseteq OpenInvitations(invitations)
  <2>1. /\ IsFiniteSet(SeatedMembers') /\ Cardinality(SeatedMembers') \in Nat
        /\ Cardinality(SeatedMembers') <= Cardinality(SeatedMembers) + 1
    BY <1>2, SeatsNow, OneMore
  <2>2. /\ Cardinality(OpenInvitations(invitations')) \in Nat
        /\ Cardinality(OpenInvitations(invitations'))
             <= Cardinality(OpenInvitations(invitations))
    BY <1>2, SeatsNow, NoMore
  <2>3. Cardinality(SeatedMembers') + Cardinality(OpenInvitations(invitations')) <= SeatLimit
    BY <1>1, <2>1, <2>2, SeatsNow, TeamAssumption
  <2> QED BY <2>1, <2>3, SeatsCountedIs
<1>3. CASE /\ SeatedMembers' \subseteq SeatedMembers
           /\ OpenInvitations(invitations') \subseteq OpenInvitations(invitations) \cup {x}
  <2>1. /\ IsFiniteSet(SeatedMembers') /\ Cardinality(SeatedMembers') \in Nat
        /\ Cardinality(SeatedMembers') <= Cardinality(SeatedMembers)
    BY <1>3, SeatsNow, NoMore
  <2>2. /\ Cardinality(OpenInvitations(invitations')) \in Nat
        /\ Cardinality(OpenInvitations(invitations'))
             <= Cardinality(OpenInvitations(invitations)) + 1
    BY <1>3, SeatsNow, OneMore
  <2>3. Cardinality(SeatedMembers') + Cardinality(OpenInvitations(invitations')) <= SeatLimit
    BY <1>1, <2>1, <2>2, SeatsNow, TeamAssumption
  <2> QED BY <2>1, <2>3, SeatsCountedIs
<1> QED BY <1>2, <1>3

(* The seat of an open invitation is passed on to its addressee.            *)
LEMMA SeatPassedOn ==
  ASSUME TInv, NEW i \in OpenInvitations(invitations), NEW p,
         SeatedMembers' \subseteq SeatedMembers \cup {p},
         OpenInvitations(invitations') \subseteq OpenInvitations(invitations) \ {i}
  PROVE  SeatsCounted'
<1>1. /\ IsFiniteSet(SeatedMembers') /\ Cardinality(SeatedMembers') \in Nat
      /\ Cardinality(SeatedMembers') <= Cardinality(SeatedMembers) + 1
  BY SeatsNow, OneMore
<1>2. /\ IsFiniteSet(OpenInvitations(invitations) \ {i})
      /\ Cardinality(OpenInvitations(invitations) \ {i})
           = Cardinality(OpenInvitations(invitations)) - 1
  BY SeatsNow, FS_RemoveElement
<1>3. /\ Cardinality(OpenInvitations(invitations')) \in Nat
      /\ Cardinality(OpenInvitations(invitations'))
           <= Cardinality(OpenInvitations(invitations) \ {i})
  BY <1>2, NoMore
<1>4. Cardinality(SeatedMembers') + Cardinality(OpenInvitations(invitations')) <= SeatLimit
  BY <1>1, <1>2, <1>3, SeatsNow, TeamAssumption
<1> QED BY <1>1, <1>4, SeatsCountedIs

-----------------------------------------------------------------------------
(* What a step leaves of the invitations and of the members.                *)

InvitationsKept ==
  /\ invitations' \in Seq(Invitation) /\ Len(invitations') = Len(invitations)
  /\ DOMAIN invitations' = DOMAIN invitations
  /\ \A i \in DOMAIN invitations :
       /\ invitations'[i].to = invitations[i].to
       /\ invitations'[i].status = "PENDING" =>
            /\ invitations[i].status = "PENDING"
            /\ ~ invitations'[i].lapsed => ~ invitations[i].lapsed

\* The members, but for those of P, whose rows are of no owner.
MembersKept(P) ==
  /\ members' \in [People -> Member]
  /\ Owner \notin P
  /\ \A p \in People \ P : members'[p] = members[p]
  /\ \A p \in P : /\ members'[p].role # "OWNER"
                  /\ members'[p].local => members[p].local

LEMMA KeptOpen ==
  ASSUME TInv, InvitationsKept
  PROVE  OpenInvitations(invitations') \subseteq OpenInvitations(invitations)
<1> QED BY DEF InvitationsKept, OpenInvitations

(* The types, and the owner, through a step that only writes over them.     *)
LEMMA KeptStep ==
  ASSUME TInv, InvitationsKept, NEW P \in SUBSET People, MembersKept(P),
         users' \in [People -> {"ACTIVE", "DEACTIVATED"}],
         SeatsCounted',
         OpenOrClosed'
  PROVE  TInv'
<1>1. TeamTypeOK'
  <2>1. \A i, j \in DOMAIN invitations :
          /\ invitations'[i].status = "PENDING" /\ invitations'[j].status = "PENDING"
          /\ invitations'[i].to = invitations'[j].to
          => i = j
    BY DEF TInv, TeamTypeOK, InvitationsKept
  <2>2. \A p \in People : members'[p].local => members[p].local
    BY DEF MembersKept
  <2>3. \A p \in People : members'[p].local =>
          \A i \in DOMAIN invitations : invitations'[i].to # p
    BY <2>2 DEF TInv, TeamTypeOK, InvitationsKept
  <2>4. Len(invitations') <= MaxInvitations
    BY DEF TInv, TeamTypeOK, InvitationsKept
  <2> QED BY <2>1, <2>3, <2>4 DEF TeamTypeOK, InvitationsKept, MembersKept
<1>2. OnlyTheOwner'
  BY DEF TInv, OnlyTheOwner, MembersKept
<1>3. OwnerNotInvited'
  BY DEF TInv, OwnerNotInvited, InvitationsKept
<1> QED BY <1>1, <1>2, <1>3 DEF TInv

(* What is left alone is kept.                                              *)
LEMMA Unchanged ==
  ASSUME TInv
  PROVE  /\ UNCHANGED invitations => InvitationsKept
         /\ UNCHANGED members => MembersKept({}) /\ SeatedMembers' = SeatedMembers
<1> QED BY TeamFacts DEF InvitationsKept, MembersKept, SeatedMembers

(* An organization in which somebody can act is open.                       *)
LEMMA SomebodyActs ==
  ASSUME TInv, NEW a \in People, members[a].status = "ACTIVE"
  PROVE  members[Owner].role = "OWNER" /\ members[Owner].status = "ACTIVE"
<1> QED BY DEF TInv, OpenOrClosed

(* The owner is left where it is by the steps that touch others only.       *)
LEMMA StaysOpen ==
  ASSUME NEW P, MembersKept(P), members[Owner].role = "OWNER", members[Owner].status = "ACTIVE"
  PROVE  OpenOrClosed'
<1>1. members'[Owner] = members[Owner]
  BY TeamAssumption DEF MembersKept
<1> QED BY <1>1 DEF OpenOrClosed

LEMMA InitTInv == TeamInit => TInv
<1> SUFFICES ASSUME TeamInit PROVE TInv
  OBVIOUS
<1> USE TeamAssumption
<1>1. /\ invitations = <<>> /\ DOMAIN invitations = {}
      /\ invitations \in Seq(Invitation) /\ Len(invitations) = 0
  BY DEF TeamInit
<1>2. /\ members \in [People -> Member]
      /\ users \in [People -> {"ACTIVE", "DEACTIVATED"}]
  BY DEF TeamInit, Member
<1>3. \A p \in People :
        /\ ~ members[p].local
        /\ p # Owner => members[p].role = "STAFF" /\ members[p].status = "NONE"
        /\ p = Owner => members[p].role = "OWNER" /\ members[p].status = "ACTIVE"
  BY DEF TeamInit
<1>4. TeamTypeOK
  BY <1>1, <1>2, <1>3 DEF TeamTypeOK
<1>5. OnlyTheOwner /\ OwnerNotInvited /\ OpenOrClosed
  BY <1>1, <1>3 DEF OnlyTheOwner, OwnerNotInvited, OpenOrClosed
<1>6. SeatedMembers = {} /\ OpenInvitations(invitations) = {}
  BY <1>1, <1>3 DEF SeatedMembers, OpenInvitations, Seated
<1>7. SeatsCounted
  <2>1. SeatsUsed(invitations)
          = Cardinality(SeatedMembers) + Cardinality(OpenInvitations(invitations))
    BY SeatsAre
  <2>2. IsFiniteSet({}) /\ Cardinality({}) = 0
    BY FS_EmptySet
  <2>3. SeatsUsed(invitations) = 0
    BY <1>6, <2>1, <2>2
  <2> QED BY <1>6, <2>2, <2>3 DEF SeatsCounted, SeatsWithinPlan
<1> QED BY <1>4, <1>5, <1>7 DEF TInv

-----------------------------------------------------------------------------
(* The steps.                                                               *)

(* A member without an account of its own takes a seat that was free.       *)
LEMMA CreateLocalStaffStep ==
  ASSUME TInv, NEW a \in People, NEW p \in People, NEW r \in Seated, CreateLocalStaff(a, p, r)
  PROVE  TInv'
<1> DEFINE row == [role |-> r, status |-> "ACTIVE", local |-> TRUE]
<1>1. /\ members[a].status = "ACTIVE" /\ members[p].status = "NONE"
      /\ \A i \in DOMAIN invitations : invitations[i].to # p
      /\ SeatFree(invitations)
      /\ members' = [members EXCEPT ![p] = row] /\ UNCHANGED <<users, invitations>>
  BY DEF CreateLocalStaff, IsActive
<1>2. row \in Member /\ row.role = r /\ row.status = "ACTIVE"
  BY DEF Member, Seated
<1> HIDE DEF row
<1>3. /\ members' \in [People -> Member] /\ members'[p] = row
      /\ \A q \in People \ {p} : members'[q] = members[q]
  BY <1>1, <1>2, TeamFacts
<1>4. members[Owner].role = "OWNER" /\ members[Owner].status = "ACTIVE" /\ p # Owner
  BY <1>1, SomebodyActs
<1>5. members'[Owner] = members[Owner]
  BY <1>3, <1>4, TeamAssumption
<1>6. TeamTypeOK'
  BY <1>1, <1>3 DEF TInv, TeamTypeOK
<1>7. OnlyTheOwner' /\ OwnerNotInvited' /\ OpenOrClosed'
  BY <1>1, <1>2, <1>3, <1>4, <1>5
     DEF TInv, OnlyTheOwner, OwnerNotInvited, OpenOrClosed, Seated
<1>8. SeatsCounted'
  <2>1. SeatedMembers' \subseteq SeatedMembers \cup {p}
    BY <1>3 DEF SeatedMembers
  <2>2. OpenInvitations(invitations') \subseteq OpenInvitations(invitations)
    BY <1>1
  <2> QED BY <1>1, <2>1, <2>2, SeatTaken
<1> QED BY <1>6, <1>7, <1>8 DEF TInv

(* An invitation takes a seat that was free after the sweep.                *)
LEMMA InviteStep ==
  ASSUME TInv, NEW a \in People, NEW p \in People, NEW r \in Seated, Invite(a, p, r)
  PROVE  TInv'
<1>1. PICK n : n = Len(invitations)
  OBVIOUS
<1>2. PICK new : new = [to |-> p, role |-> r, by |-> a, status |-> "PENDING", lapsed |-> FALSE]
  OBVIOUS
<1>3. PICK old : old = Swept
  OBVIOUS
<1>4. /\ n < MaxInvitations /\ members[a].status = "ACTIVE"
      /\ members[p].status \in {"NONE", "REMOVED"} /\ ~ members[p].local
      /\ ~ PendingFor(old, p) /\ SeatFree(Swept)
      /\ invitations' = Append(old, new) /\ UNCHANGED <<members, users>>
  BY <1>1, <1>2, <1>3 DEF Invite, IsActive, Invitable
<1>5. new \in Invitation /\ new.to = p
  BY <1>2 DEF Invitation
<1>6. n \in Nat /\ DOMAIN invitations = 1..n
  BY <1>1, TeamFacts
<1>7. /\ old \in Seq(Invitation) /\ Len(old) = n /\ DOMAIN old = 1..n
      /\ \A i \in 1..n :
           /\ old[i].to = invitations[i].to
           /\ old[i].status = "PENDING" => invitations[i].status = "PENDING"
           /\ old[i].status = "PENDING" /\ ~ old[i].lapsed => ~ invitations[i].lapsed
  BY <1>1, <1>3, <1>6, SweptRows
<1>8. /\ invitations' \in Seq(Invitation) /\ Len(invitations') = n + 1
      /\ DOMAIN invitations' = 1..(n + 1)
      /\ invitations'[n + 1] = new /\ \A i \in 1..n : invitations'[i] = old[i]
  BY <1>4, <1>5, <1>6, <1>7
<1>9. members[Owner].role = "OWNER" /\ members[Owner].status = "ACTIVE" /\ p # Owner
  BY <1>4, SomebodyActs
<1>10. TeamTypeOK'
  <2>1. \A i, j \in 1..(n + 1) :
          /\ invitations'[i].status = "PENDING" /\ invitations'[j].status = "PENDING"
          /\ invitations'[i].to = invitations'[j].to
          => i = j
    <3>1. \A i, j \in 1..n :
            old[i].status = "PENDING" /\ old[j].status = "PENDING" /\ old[i].to = old[j].to
              => i = j
      BY <1>6, <1>7, SMTT(30) DEF TInv, TeamTypeOK
    <3>2. \A i \in 1..n : old[i].status = "PENDING" => old[i].to # p
      BY <1>4, <1>7 DEF PendingFor
    <3> QED BY <1>5, <1>6, <1>8, <3>1, <3>2
  <2>2. \A q \in People : members[q].local => \A i \in 1..(n + 1) : invitations'[i].to # q
    <3> SUFFICES ASSUME NEW q \in People, members[q].local, NEW i \in 1..(n + 1)
                 PROVE  invitations'[i].to # q
      OBVIOUS
    <3>1. CASE i = n + 1
      BY <1>4, <1>5, <1>8, <3>1
    <3>2. CASE i # n + 1
      <4>1. i \in 1..n
        BY <1>6, <3>2
      <4> QED BY <1>6, <1>7, <1>8, <4>1, SMTT(30) DEF TInv, TeamTypeOK
    <3> QED BY <3>1, <3>2
  <2>3. Len(invitations') <= MaxInvitations
    BY <1>4, <1>6, <1>8, TeamAssumption
  <2> QED BY <1>4, <1>8, <2>1, <2>2, <2>3 DEF TInv, TeamTypeOK
<1>11. OnlyTheOwner' /\ OpenOrClosed'
  BY <1>4, <1>9 DEF TInv, OnlyTheOwner, OpenOrClosed
<1>12. OwnerNotInvited'
  <2> SUFFICES ASSUME NEW i \in 1..(n + 1) PROVE invitations'[i].to # Owner
    BY <1>8 DEF OwnerNotInvited
  <2>1. CASE i = n + 1
    BY <1>5, <1>8, <1>9, <2>1
  <2>2. CASE i # n + 1
    <3>1. i \in 1..n
      BY <1>6, <2>2
    <3> QED BY <1>6, <1>7, <1>8, <3>1 DEF TInv, OwnerNotInvited
  <2> QED BY <2>1, <2>2
<1>13. SeatsCounted'
  <2>1. SeatFree(invitations)
    BY <1>4, SeatsAre, SweepFreesNothing DEF SeatFree
  <2>2. OpenInvitations(invitations') \subseteq OpenInvitations(invitations) \cup {n + 1}
    <3> SUFFICES ASSUME NEW i \in 1..(n + 1), i # n + 1,
                        invitations'[i].status = "PENDING", ~ invitations'[i].lapsed
                 PROVE  i \in OpenInvitations(invitations)
      BY <1>8 DEF OpenInvitations
    <3>1. i \in 1..n
      BY <1>6
    <3> QED BY <1>6, <1>7, <1>8, <3>1 DEF OpenInvitations
  <2>3. SeatedMembers' \subseteq SeatedMembers
    BY <1>4 DEF SeatedMembers
  <2> QED BY <2>1, <2>2, <2>3, SeatTaken
<1> QED BY <1>10, <1>11, <1>12, <1>13 DEF TInv

(* An invitation is sent again.                                             *)
LEMMA ResendStep ==
  ASSUME TInv, NEW a \in People, NEW i \in DOMAIN invitations, Resend(a, i)
  PROVE  TInv'
<1>1. PICK old : old = Swept
  OBVIOUS
<1>2. /\ old \in Seq(Invitation) /\ Len(old) = Len(invitations)
      /\ DOMAIN old = DOMAIN invitations
      /\ \A j \in DOMAIN invitations :
           /\ old[j] \in Invitation /\ old[j].to = invitations[j].to
           /\ old[j].status = "PENDING" =>
                invitations[j].status = "PENDING" /\ ~ invitations[j].lapsed
  BY <1>1, SweptRows
<1> DEFINE row == [old[i] EXCEPT !.status = "PENDING", !.lapsed = FALSE]
<1>3. row \in Invitation /\ row.to = invitations[i].to
  BY <1>2 DEF Invitation
<1>4. /\ members[a].status = "ACTIVE"
      /\ invitations' = [old EXCEPT ![i] = row] /\ UNCHANGED <<members, users>>
      /\ \/ old[i].status = "PENDING"
         \/ SeatFree(Swept) /\ ~ PendingFor(old, old[i].to)
  BY <1>1 DEF Resend, IsActive, Resendable
<1> HIDE DEF row
<1>5. /\ invitations' \in Seq(Invitation) /\ Len(invitations') = Len(invitations)
      /\ DOMAIN invitations' = DOMAIN invitations
      /\ \A j \in DOMAIN invitations : invitations'[j] = IF j = i THEN row ELSE old[j]
  BY <1>2, <1>3, <1>4
<1>6. \A j \in DOMAIN invitations :
        /\ invitations'[j].to = invitations[j].to
        /\ invitations'[j].status = "PENDING" /\ j # i => old[j].status = "PENDING"
  BY <1>2, <1>3, <1>5
<1>7. \A j \in DOMAIN invitations :
        j # i /\ old[j].status = "PENDING" => old[j].to # invitations[i].to
  <2>1. CASE old[i].status = "PENDING"
    BY <1>2, <2>1 DEF TInv, TeamTypeOK
  <2>2. CASE ~ PendingFor(old, old[i].to)
    BY <1>2, <2>2 DEF PendingFor
  <2> QED BY <1>4, <2>1, <2>2
<1>8. TeamTypeOK'
  <2>1. \A j, k \in DOMAIN invitations :
          /\ invitations'[j].status = "PENDING" /\ invitations'[k].status = "PENDING"
          /\ invitations'[j].to = invitations'[k].to
          => j = k
    <3>1. \A j, k \in DOMAIN invitations :
            /\ old[j].status = "PENDING" /\ old[k].status = "PENDING"
            /\ invitations[j].to = invitations[k].to
            => j = k
      BY <1>2 DEF TInv, TeamTypeOK
    <3> QED BY <1>2, <1>6, <1>7, <3>1
  <2>2. \A q \in People : members[q].local =>
          \A j \in DOMAIN invitations : invitations'[j].to # q
    BY <1>6 DEF TInv, TeamTypeOK
  <2> QED BY <1>4, <1>5, <2>1, <2>2 DEF TInv, TeamTypeOK
<1>9. OnlyTheOwner' /\ OwnerNotInvited' /\ OpenOrClosed'
  <2>1. members[Owner].role = "OWNER" /\ members[Owner].status = "ACTIVE"
    BY <1>4, SomebodyActs
  <2> QED BY <1>4, <1>5, <1>6, <2>1 DEF TInv, OnlyTheOwner, OwnerNotInvited, OpenOrClosed
<1>10. SeatsCounted'
  <2>1. SeatedMembers' \subseteq SeatedMembers
    BY <1>4 DEF SeatedMembers
  <2>2. OpenInvitations(invitations') \subseteq OpenInvitations(invitations) \cup {i}
    BY <1>2, <1>5, <1>6 DEF OpenInvitations
  <2>3. CASE old[i].status = "PENDING"
    <3>1. i \in OpenInvitations(invitations)
      BY <1>2, <2>3 DEF OpenInvitations
    <3>2. OpenInvitations(invitations') \subseteq OpenInvitations(invitations)
      BY <2>2, <3>1
    <3> QED BY <2>1, <3>2, SeatsKept
  <2>4. CASE SeatFree(Swept)
    <3>1. SeatFree(invitations)
      BY <2>4, SeatsAre, SweepFreesNothing DEF SeatFree
    <3> QED BY <2>1, <2>2, <3>1, SeatTaken
  <2> QED BY <1>4, <2>3, <2>4
<1> QED BY <1>8, <1>9, <1>10 DEF TInv

(* An invitation is canceled, after the sweep.                              *)
LEMMA CancelStep ==
  ASSUME TInv, NEW a \in People, NEW i \in DOMAIN invitations, CancelInvitation(a, i)
  PROVE  TInv'
<1>1. PICK old : old = Swept
  OBVIOUS
<1>2. /\ old \in Seq(Invitation) /\ Len(old) = Len(invitations)
      /\ DOMAIN old = DOMAIN invitations
      /\ \A j \in DOMAIN invitations :
           /\ old[j] \in Invitation /\ old[j].to = invitations[j].to
           /\ old[j].status = "PENDING" =>
                invitations[j].status = "PENDING" /\ ~ invitations[j].lapsed
  BY <1>1, SweptRows
<1> DEFINE row == [old[i] EXCEPT !.status = "CANCELED"]
<1>3. row \in Invitation /\ row.to = invitations[i].to /\ row.status = "CANCELED"
  BY <1>2 DEF Invitation
<1>4. /\ members[a].status = "ACTIVE"
      /\ invitations' = [old EXCEPT ![i] = row] /\ UNCHANGED <<members, users>>
  BY <1>1 DEF CancelInvitation, IsActive
<1> HIDE DEF row
<1>5. /\ invitations' \in Seq(Invitation) /\ Len(invitations') = Len(invitations)
      /\ DOMAIN invitations' = DOMAIN invitations
      /\ \A j \in DOMAIN invitations : invitations'[j] = IF j = i THEN row ELSE old[j]
  BY <1>2, <1>3, <1>4
<1>6. InvitationsKept
  BY <1>2, <1>3, <1>5 DEF InvitationsKept
<1>7. MembersKept({}) /\ SeatedMembers' = SeatedMembers
  BY <1>4, Unchanged
<1>8. SeatsCounted'
  BY <1>6, <1>7, KeptOpen, SeatsKept
<1>9. OpenOrClosed'
  BY <1>4, <1>7, SomebodyActs, StaysOpen
<1> QED BY <1>4, <1>6, <1>7, <1>8, <1>9, TeamFacts, KeptStep

(* An invitation runs out, or is found to have run out.                     *)
LEMMA RunsOutStep ==
  ASSUME TInv, NEW i \in DOMAIN invitations, InvitationLapses(i) \/ InvitationExpires(i)
  PROVE  TInv'
<1>1. UNCHANGED <<members, users>> /\ invitations[i].status = "PENDING"
  BY DEF InvitationLapses, InvitationExpires
<1>2. PICK row \in Invitation :
        /\ invitations' = [invitations EXCEPT ![i] = row]
        /\ row.to = invitations[i].to
        /\ row.status = "PENDING" => row.lapsed
  <2>1. /\ [invitations[i] EXCEPT !.lapsed = TRUE] \in Invitation
        /\ [invitations[i] EXCEPT !.lapsed = TRUE].to = invitations[i].to
        /\ [invitations[i] EXCEPT !.lapsed = TRUE].lapsed
        /\ [invitations[i] EXCEPT !.status = "EXPIRED"] \in Invitation
        /\ [invitations[i] EXCEPT !.status = "EXPIRED"].to = invitations[i].to
        /\ [invitations[i] EXCEPT !.status = "EXPIRED"].status = "EXPIRED"
    BY TeamFacts DEF Invitation
  <2>2. \/ invitations' = [invitations EXCEPT ![i] = [invitations[i] EXCEPT !.lapsed = TRUE]]
        \/ invitations' = [invitations EXCEPT ![i] = [invitations[i] EXCEPT !.status = "EXPIRED"]]
    BY DEF InvitationLapses, InvitationExpires
  <2> QED BY <2>1, <2>2
<1>3. InvitationsKept
  BY <1>1, <1>2, TeamFacts DEF InvitationsKept
<1>4. MembersKept({}) /\ SeatedMembers' = SeatedMembers
  BY <1>1, Unchanged
<1>5. SeatsCounted'
  BY <1>3, <1>4, KeptOpen, SeatsKept
<1>6. OpenOrClosed'
  <2>1. members[Owner].role = "OWNER" /\ members[Owner].status = "ACTIVE"
    BY <1>1 DEF TInv, OpenOrClosed
  <2> QED BY <1>4, <2>1, StaysOpen
<1> QED BY <1>1, <1>3, <1>4, <1>5, <1>6, TeamFacts, KeptStep

(* An invitation is accepted: its seat becomes the one of its addressee.    *)
LEMMA AcceptStep ==
  ASSUME TInv, NEW i \in DOMAIN invitations, Accept(i)
  PROVE  TInv'
<1>1. PICK p : p = invitations[i].to
  OBVIOUS
<1>2. PICK st \in {"ACCEPTED", "CANCELED"} :
        /\ invitations' = [invitations EXCEPT ![i] = [invitations[i] EXCEPT !.status = st]]
        /\ \/ members' = members
           \/ members' = [members EXCEPT ![p] =
                            [members[p] EXCEPT !.role = invitations[i].role, !.status = "ACTIVE"]]
  BY <1>1 DEF Accept
<1>3. /\ invitations[i].status = "PENDING" /\ ~ invitations[i].lapsed
      /\ UNCHANGED users
  BY DEF Accept
<1>4. /\ invitations[i] \in Invitation /\ p \in People /\ invitations[i].role \in Seated
      /\ p # Owner
  BY <1>1, TeamFacts DEF Invitation, TInv, OwnerNotInvited
<1> DEFINE row == [invitations[i] EXCEPT !.status = st]
           joined == [members[p] EXCEPT !.role = invitations[i].role, !.status = "ACTIVE"]
<1>5. row \in Invitation /\ row.to = p /\ row.status # "PENDING"
  BY <1>1, <1>4 DEF Invitation
<1>6. joined \in Member /\ joined.role # "OWNER" /\ joined.local = members[p].local
  BY <1>4, TeamFacts DEF Member, Seated
<1>7. /\ invitations' = [invitations EXCEPT ![i] = row]
      /\ members' = members \/ members' = [members EXCEPT ![p] = joined]
  BY <1>2
<1> HIDE DEF row, joined
<1>8. /\ invitations' \in Seq(Invitation) /\ Len(invitations') = Len(invitations)
      /\ DOMAIN invitations' = DOMAIN invitations
      /\ \A j \in DOMAIN invitations :
           invitations'[j] = IF j = i THEN row ELSE invitations[j]
  BY <1>5, <1>7, TeamFacts
<1>9. InvitationsKept
  BY <1>1, <1>5, <1>8 DEF InvitationsKept
<1>10. OpenOrClosed'
  <2>1. members[Owner].role = "OWNER" /\ members[Owner].status = "ACTIVE"
    BY <1>3 DEF TInv, OpenOrClosed
  <2>2. members'[Owner] = members[Owner]
    BY <1>4, <1>7, TeamFacts, TeamAssumption
  <2> QED BY <2>1, <2>2 DEF OpenOrClosed
<1>11. i \in OpenInvitations(invitations)
  BY <1>3 DEF OpenInvitations
<1>12. OpenInvitations(invitations') \subseteq OpenInvitations(invitations) \ {i}
  BY <1>5, <1>8 DEF OpenInvitations
<1>13. CASE members' = members
  <2>1. MembersKept({}) /\ SeatedMembers' = SeatedMembers
    BY <1>13, Unchanged
  <2>2. SeatsCounted'
    BY <1>12, <2>1, SeatsKept
  <2> QED BY <1>3, <1>9, <1>10, <2>1, <2>2, TeamFacts, KeptStep
<1>14. CASE members' = [members EXCEPT ![p] = joined]
  <2>1. /\ members' \in [People -> Member] /\ members'[p] = joined
        /\ \A q \in People \ {p} : members'[q] = members[q]
    BY <1>4, <1>6, <1>14, TeamFacts
  <2>2. MembersKept({p})
    BY <1>4, <1>6, <2>1 DEF MembersKept
  <2>3. SeatedMembers' \subseteq SeatedMembers \cup {p}
    BY <2>1 DEF SeatedMembers
  <2>4. SeatsCounted'
    BY <1>11, <1>12, <2>3, SeatPassedOn
  <2> QED BY <1>3, <1>4, <1>9, <1>10, <2>2, <2>4, TeamFacts, KeptStep
<1> QED BY <1>7, <1>13, <1>14

(* The final owner is the only one.                                         *)
LEMMA OwnerIsFinal ==
  ASSUME TInv, NEW p \in People, members[p].role = "OWNER", members[p].status = "ACTIVE"
  PROVE  FinalOwner(p)
<1> QED BY DEF TInv, OnlyTheOwner, FinalOwner

(* A change of role or status: only a member that was not active takes a    *)
(* seat, and the seat was counted.                                          *)
LEMMA UpdateMemberStep ==
  ASSUME TInv, NEW a \in People, NEW p \in People, NEW r \in Seated \cup {members[p].role},
         NEW st \in {"ACTIVE", "SUSPENDED"}, UpdateMember(a, p, r, st)
  PROVE  TInv'
<1> DEFINE row == [members[p] EXCEPT !.role = r, !.status = st]
<1>1. /\ members[a].status = "ACTIVE" /\ members[p].status \in {"ACTIVE", "SUSPENDED"}
      /\ FinalOwner(p) => r = "OWNER" /\ st = "ACTIVE"
      /\ Reactivates(p, r, st) => SeatFree(invitations)
      /\ members' = [members EXCEPT ![p] = row] /\ UNCHANGED <<users, invitations>>
  BY DEF UpdateMember, Changeable, IsActive
<1>2. /\ row \in Member /\ row.role = r /\ row.status = st /\ row.local = members[p].local
      /\ r \in {"OWNER", "MANAGER", "STAFF"}
  BY TeamFacts DEF Member, Seated
<1> HIDE DEF row
<1>3. /\ members' \in [People -> Member] /\ members'[p] = row
      /\ \A q \in People \ {p} : members'[q] = members[q]
  BY <1>1, <1>2, TeamFacts
<1>4. members[Owner].role = "OWNER" /\ members[Owner].status = "ACTIVE"
  BY <1>1, SomebodyActs
<1>5. InvitationsKept /\ OpenInvitations(invitations') = OpenInvitations(invitations)
  BY <1>1, Unchanged
<1>6. CASE p = Owner
  <2>1. r = "OWNER" /\ st = "ACTIVE"
    BY <1>1, <1>4, <1>6, OwnerIsFinal
  <2>2. members'[Owner].role = "OWNER" /\ members'[Owner].status = "ACTIVE"
    BY <1>2, <1>3, <1>6, <2>1
  <2>3. TeamTypeOK'
    BY <1>1, <1>2, <1>3 DEF TInv, TeamTypeOK
  <2>4. OnlyTheOwner' /\ OwnerNotInvited' /\ OpenOrClosed'
    BY <1>1, <1>3, <1>6, <2>2 DEF TInv, OnlyTheOwner, OwnerNotInvited, OpenOrClosed
  <2>5. SeatedMembers' \subseteq SeatedMembers
    BY <1>3, <1>6, <2>2 DEF SeatedMembers, Seated
  <2>6. SeatsCounted'
    BY <1>5, <2>5, SeatsKept
  <2> QED BY <2>3, <2>4, <2>6 DEF TInv
<1>7. CASE p # Owner
  <2>1. r # "OWNER" /\ members[p].role \in Seated
    <3>1. members[p].role # "OWNER"
      BY <1>7 DEF TInv, OnlyTheOwner
    <3>2. members[p].role \in Seated
      BY <3>1, TeamFacts DEF Member, Seated
    <3> QED BY <3>1, <3>2 DEF Seated
  <2>2. MembersKept({p})
    BY <1>2, <1>3, <1>7, <2>1 DEF MembersKept
  <2>3. OpenOrClosed'
    BY <1>4, <2>2, StaysOpen
  <2>4. SeatsCounted'
    <3>1. CASE Reactivates(p, r, st)
      <4>1. SeatedMembers' \subseteq SeatedMembers \cup {p}
        BY <1>3 DEF SeatedMembers
      <4> QED BY <1>1, <1>5, <3>1, <4>1, SeatTaken
    <3>2. CASE ~ Reactivates(p, r, st)
      <4>1. st = "ACTIVE" => members[p].status = "ACTIVE"
        BY <1>2, <2>1, <3>2 DEF Reactivates, Seated
      <4>2. SeatedMembers' \subseteq SeatedMembers
        BY <1>2, <1>3, <2>1, <4>1 DEF SeatedMembers
      <4> QED BY <1>5, <4>2, SeatsKept
    <3> QED BY <3>1, <3>2
  <2> QED BY <1>1, <1>5, <2>2, <2>3, <2>4, TeamFacts, KeptStep
<1> QED BY <1>6, <1>7

(* A member is removed.                                                     *)
LEMMA RemoveMemberStep ==
  ASSUME TInv, NEW a \in People, NEW p \in People, RemoveMember(a, p)
  PROVE  TInv'
<1> DEFINE row == [members[p] EXCEPT !.status = "REMOVED"]
<1>1. /\ members[a].status = "ACTIVE" /\ ~ FinalOwner(p)
      /\ members' = [members EXCEPT ![p] = row] /\ UNCHANGED <<users, invitations>>
  BY DEF RemoveMember, Changeable, IsActive
<1>2. /\ row \in Member /\ row.role = members[p].role /\ row.status = "REMOVED"
      /\ row.local = members[p].local
  BY TeamFacts DEF Member
<1> HIDE DEF row
<1>3. /\ members' \in [People -> Member] /\ members'[p] = row
      /\ \A q \in People \ {p} : members'[q] = members[q]
  BY <1>1, <1>2, TeamFacts
<1>4. members[Owner].role = "OWNER" /\ members[Owner].status = "ACTIVE"
  BY <1>1, SomebodyActs
<1>5. p # Owner /\ members[p].role # "OWNER"
  BY <1>1, <1>4, OwnerIsFinal DEF TInv, OnlyTheOwner
<1>6. MembersKept({p})
  BY <1>2, <1>3, <1>5 DEF MembersKept
<1>7. SeatedMembers' \subseteq SeatedMembers
  BY <1>2, <1>3 DEF SeatedMembers
<1>8. InvitationsKept /\ OpenInvitations(invitations') = OpenInvitations(invitations)
  BY <1>1, Unchanged
<1>9. SeatsCounted'
  BY <1>7, <1>8, SeatsKept
<1>10. OpenOrClosed'
  BY <1>4, <1>6, StaysOpen
<1> QED BY <1>1, <1>6, <1>8, <1>9, <1>10, TeamFacts, KeptStep

(* An account is closed; the membership stays.                              *)
LEMMA DeactivateAccountStep ==
  ASSUME TInv, NEW p \in People, DeactivateAccount(p)
  PROVE  TInv'
<1>1. users' = [users EXCEPT ![p] = "DEACTIVATED"] /\ UNCHANGED <<members, invitations>>
  BY DEF DeactivateAccount
<1>2. users' \in [People -> {"ACTIVE", "DEACTIVATED"}]
  BY <1>1, TeamFacts
<1>3. InvitationsKept /\ MembersKept({}) /\ SeatedMembers' = SeatedMembers
  BY <1>1, Unchanged
<1>4. SeatsCounted'
  BY <1>3, KeptOpen, SeatsKept
<1>5. OpenOrClosed'
  BY <1>1 DEF TInv, OpenOrClosed
<1> QED BY <1>2, <1>3, <1>4, <1>5, KeptStep

(* The organization closes: nobody is left, and nothing is pending.         *)
LEMMA CloseStep == TInv /\ CloseOrganization => TInv'
<1> SUFFICES ASSUME TInv, CloseOrganization PROVE TInv'
  OBVIOUS
<1> DEFINE Gone(p) == IF members[p].status = "NONE" THEN members[p]
                      ELSE [members[p] EXCEPT !.status = "REMOVED"]
           Void(i) == IF invitations[i].status = "PENDING"
                      THEN [invitations[i] EXCEPT !.status = "CANCELED"] ELSE invitations[i]
<1>1. /\ members' = [p \in People |-> Gone(p)]
      /\ invitations' = [i \in DOMAIN invitations |-> Void(i)] /\ UNCHANGED users
  BY DEF CloseOrganization
<1>2. \A p \in People :
        /\ Gone(p) \in Member /\ Gone(p).role = members[p].role
        /\ Gone(p).local = members[p].local /\ Gone(p).status \in {"NONE", "REMOVED"}
  BY TeamFacts DEF Member
<1>3. \A i \in DOMAIN invitations :
        Void(i) \in Invitation /\ Void(i).to = invitations[i].to /\ Void(i).status # "PENDING"
  BY TeamFacts DEF Invitation
<1> HIDE DEF Gone, Void
<1>4. invitations' \in [DOMAIN invitations -> Invitation]
  BY <1>1, <1>3
<1>5. /\ invitations' \in Seq(Invitation) /\ Len(invitations') = Len(invitations)
      /\ DOMAIN invitations' = DOMAIN invitations
  BY <1>4, TeamFacts, FunctionIsSeq
<1>6. \A i \in DOMAIN invitations :
        invitations'[i].to = invitations[i].to /\ invitations'[i].status # "PENDING"
  BY <1>1, <1>3
<1>7. /\ members' \in [People -> Member]
      /\ \A p \in People :
           /\ members'[p].role = members[p].role /\ members'[p].local = members[p].local
           /\ members'[p].status \in {"NONE", "REMOVED"}
  BY <1>1, <1>2
<1>8. TeamTypeOK'
  BY <1>1, <1>5, <1>6, <1>7 DEF TInv, TeamTypeOK
<1>9. OnlyTheOwner' /\ OwnerNotInvited' /\ OpenOrClosed'
  BY <1>5, <1>6, <1>7 DEF TInv, OnlyTheOwner, OwnerNotInvited, OpenOrClosed
<1>10. /\ SeatedMembers' \subseteq SeatedMembers
       /\ OpenInvitations(invitations') \subseteq OpenInvitations(invitations)
  BY <1>5, <1>6, <1>7 DEF SeatedMembers, OpenInvitations
<1>11. SeatsCounted'
  BY <1>10, SeatsKept
<1> QED BY <1>8, <1>9, <1>11 DEF TInv

LEMMA StepTInv == TInv /\ [TeamNext]_teamVars => TInv'
<1> SUFFICES ASSUME TInv, [TeamNext]_teamVars PROVE TInv'
  OBVIOUS
<1>1. ASSUME NEW a \in People, NEW p \in People, NEW r \in Seated, CreateLocalStaff(a, p, r)
      PROVE  TInv'
  BY <1>1, CreateLocalStaffStep
<1>2. ASSUME NEW a \in People, NEW p \in People, NEW r \in Seated, Invite(a, p, r) PROVE TInv'
  BY <1>2, InviteStep
<1>3. ASSUME NEW a \in People, NEW p \in People, NEW r \in Seated \cup {members[p].role},
             NEW st \in {"ACTIVE", "SUSPENDED"}, UpdateMember(a, p, r, st)
      PROVE  TInv'
  BY <1>3, UpdateMemberStep
<1>4. ASSUME NEW a \in People, NEW p \in People, RemoveMember(a, p) PROVE TInv'
  BY <1>4, RemoveMemberStep
<1>5. ASSUME NEW i \in DOMAIN invitations, NEW a \in People, Resend(a, i) PROVE TInv'
  BY <1>5, ResendStep
<1>6. ASSUME NEW i \in DOMAIN invitations, NEW a \in People, CancelInvitation(a, i) PROVE TInv'
  BY <1>6, CancelStep
<1>7. ASSUME NEW i \in DOMAIN invitations, InvitationLapses(i) \/ InvitationExpires(i)
      PROVE  TInv'
  BY <1>7, RunsOutStep
<1>8. ASSUME NEW i \in DOMAIN invitations, Accept(i) PROVE TInv'
  BY <1>8, AcceptStep
<1>9. ASSUME NEW p \in People, DeactivateAccount(p) PROVE TInv'
  BY <1>9, DeactivateAccountStep
<1>10. CASE CloseOrganization
  BY <1>10, CloseStep
<1>11. CASE UNCHANGED teamVars
  <2>1. UNCHANGED <<members, users, invitations>>
    BY <1>11 DEF teamVars
  <2>2. InvitationsKept /\ MembersKept({}) /\ SeatedMembers' = SeatedMembers
    BY <2>1, Unchanged
  <2>3. SeatsCounted' /\ OpenOrClosed'
    BY <2>1, <2>2, KeptOpen, SeatsKept DEF TInv, OpenOrClosed
  <2> QED BY <2>1, <2>2, <2>3, TeamFacts, KeptStep
<1>12. CASE TeamNext
  BY <1>1, <1>2, <1>3, <1>4, <1>5, <1>6, <1>7, <1>8, <1>9, <1>10, <1>12 DEF TeamNext
<1> QED BY <1>11, <1>12

-----------------------------------------------------------------------------
(* The theorems about the team.                                             *)

(* The invariant holds in every reachable state.                            *)
THEOREM TeamInvariant == TeamSpec => []TInv
<1>1. TInv /\ [TeamNext]_teamVars => TInv'
  BY StepTInv
<1> QED BY InitTInv, <1>1, PTL DEF TeamSpec

(* The rows stay in their types; an address has at most one pending         *)
(* invitation, and somebody who cannot sign in has none at all.             *)
THEOREM TeamTypes == TeamSpec => []TeamTypeOK
<1>1. TInv => TeamTypeOK
  BY DEF TInv
<1> QED BY TeamInvariant, <1>1, PTL

(* The seats in use never exceed the plan: whichever way a person comes in, *)
(* by an invitation sent once or again, by being taken back, by a change of *)
(* role or as a local member.                                               *)
THEOREM SeatsStayWithinPlan == TeamSpec => []SeatsWithinPlan
<1>1. TInv => SeatsWithinPlan
  BY DEF TInv, SeatsCounted
<1> QED BY TeamInvariant, <1>1, PTL

(* An organization that is not closed has an active owner.                  *)
THEOREM AnOwnerIsLeft == TeamSpec => []AnOwnerRemains
<1>1. TInv => AnOwnerRemains
  BY TeamAssumption DEF TInv, OpenOrClosed, AnOwnerRemains
<1> QED BY TeamInvariant, <1>1, PTL

-----------------------------------------------------------------------------
(* The refunds.  Their inductive invariant.                                *)

\* Statuses of a request that an execution has claimed.
Taken == {"PROCESSING", "SUCCEEDED", "FAILED"}

RequestOf(i) == requests[refunds[i].request]

Failed(r) == \A i \in RefundsOf(r) : refunds[i].status = "failed"

\* The newest event of its refund.
Last(e) == \A f \in DOMAIN events : f > e => events[f].refund # events[e].refund

OneRefundEach ==
  \A i, j \in DOMAIN refunds : refunds[i].request = refunds[j].request => i = j

RefundsAreOfTaken ==
  \A i \in DOMAIN refunds : RequestOf(i).status \in Taken /\ refunds[i].first # "failed"

ProcessingHasRefund ==
  \A r \in Requests :
    requests[r].status = "PROCESSING" => requests[r].lease # None \/ RefundsOf(r) # {}

EndedHaveRefunds ==
  \A r \in Requests :
    /\ requests[r].status \in {"SUCCEEDED", "FAILED"} => RefundsOf(r) # {}
    /\ requests[r].status = "FAILED" => Failed(r)

\* What an execution was told of a failure is still true when it records it.
CallKnows(c) ==
  calls[c].phase # "idle" =>
    /\ calls[c].request \in Requests
    /\ requests[calls[c].request].status \in Taken
    /\ calls[c].phase = "answered" =>
         /\ RefundsOf(calls[c].request) # {}
         /\ calls[c].answer = "failed" => Failed(calls[c].request)

EventsInOrder ==
  /\ \A e \in DOMAIN events :
       events[e].refund \in DOMAIN refunds /\ 1 <= events[e].at /\ events[e].at <= second
  /\ \A e, f \in DOMAIN events : e <= f => events[e].at <= events[f].at
  /\ \A i \in DOMAIN refunds : \E e \in DOMAIN events : events[e].refund = i /\ Last(e)

\* A delivery of the newest event has read what Stripe says now.
HandlerKnows(h) ==
  handlers[h].event # 0 =>
    /\ Last(handlers[h].event) =>
         handlers[h].seen = refunds[events[handlers[h].event].refund].status
    /\ handlers[h].seen = "failed" =>
         refunds[events[handlers[h].event].refund].status = "failed"

\* The last event of a request is above all that was handled; once there is
\* one, no execution holds the request any more.
AppliedInOrder ==
  /\ \A e \in DOMAIN events :
       /\ events[e].status = "PROCESSED" =>
            events[e].at <= RequestOf(events[e].refund).lastEvent
       /\ events[e].status = "IGNORED_STALE" =>
            events[e].at < RequestOf(events[e].refund).lastEvent
  /\ \A r \in Requests : requests[r].lastEvent # 0 =>
       /\ requests[r].lease = None
       /\ \E e \in DOMAIN events :
            refunds[events[e].refund].request = r /\ events[e].at = requests[r].lastEvent

\* No other event of its refund was made in the same second.
AloneInSecond(e) ==
  \A f \in DOMAIN events \ {e} :
    events[f].refund = events[e].refund => events[f].at # events[e].at

LastSaysAll ==
  \A e \in DOMAIN events :
    events[e].status = "PROCESSED" /\ Last(e) /\ AloneInSecond(e) =>
      RequestOf(events[e].refund).status
        = refundStatusFromStripe(refunds[events[e].refund].status)

BInv ==
  /\ RefundTypeOK /\ OneRefundEach /\ RefundsAreOfTaken /\ EndedHaveRefunds
  /\ \A c \in Calls : CallKnows(c)
  /\ ProcessingHasRefund /\ EventsInOrder
  /\ \A h \in Handlers : HandlerKnows(h)
  /\ AppliedInOrder /\ LastSaysAll

-----------------------------------------------------------------------------
(* Facts about the rows.                                                   *)

CallRow == [phase : {"idle", "claimed", "listed", "answered"},
            request : Requests \cup {None}, answer : ProviderStatus]

LEMMA RowFacts ==
  ASSUME BInv
  PROVE  /\ requests \in [Requests -> Request] /\ \A r \in Requests : requests[r] \in Request
         /\ \A r \in Requests : requests[r].lastEvent \in 0..MaxSeconds
         /\ refunds \in Seq(Refund) /\ Len(refunds) \in Nat /\ DOMAIN refunds = 1..Len(refunds)
         /\ \A i \in DOMAIN refunds : refunds[i] \in Refund /\ refunds[i].request \in Requests
         /\ events \in Seq(Event) /\ Len(events) \in Nat /\ DOMAIN events = 1..Len(events)
         /\ \A e \in DOMAIN events :
              /\ events[e] \in Event /\ events[e].at \in 0..MaxSeconds
              /\ events[e].refund \in DOMAIN refunds
         /\ calls \in [Calls -> CallRow] /\ \A c \in Calls : calls[c] \in CallRow
         /\ \A h \in Handlers :
              /\ handlers[h].event \in 0..Len(events)
              /\ handlers[h].event # 0 => handlers[h].event \in DOMAIN events
              /\ handlers[h].seen \in ProviderStatus
         /\ second \in 1..MaxSeconds /\ MaxSeconds \in Nat /\ faults \in 0..MaxFaults
<1>1. refunds \in Seq(Refund) /\ events \in Seq(Event)
  BY DEF BInv, RefundTypeOK
<1>2. /\ Len(refunds) \in Nat /\ DOMAIN refunds = 1..Len(refunds)
      /\ \A i \in DOMAIN refunds : refunds[i] \in Refund
      /\ Len(events) \in Nat /\ DOMAIN events = 1..Len(events)
      /\ \A e \in DOMAIN events : events[e] \in Event
  BY <1>1
<1>3. /\ \A i \in DOMAIN refunds : refunds[i].request \in Requests
      /\ \A e \in DOMAIN events : events[e].at \in 0..MaxSeconds
  BY <1>2 DEF Refund, Event
<1>4. \A e \in DOMAIN events : events[e].refund \in DOMAIN refunds
  BY DEF BInv, EventsInOrder
<1>5. requests \in [Requests -> Request]
  BY DEF BInv, RefundTypeOK
<1>6. /\ \A r \in Requests : requests[r] \in Request
      /\ \A r \in Requests : requests[r].lastEvent \in 0..MaxSeconds
  BY <1>5 DEF Request
<1>7. calls \in [Calls -> CallRow]
  BY DEF BInv, RefundTypeOK, CallRow
<1>8. \A h \in Handlers :
        handlers[h].event \in 0..Len(events) /\ handlers[h].seen \in ProviderStatus
  BY DEF BInv, RefundTypeOK
<1>9. second \in 1..MaxSeconds /\ MaxSeconds \in Nat /\ faults \in 0..MaxFaults
  BY RefundAssumption DEF BInv, RefundTypeOK
<1> QED BY <1>1, <1>2, <1>3, <1>4, <1>5, <1>6, <1>7, <1>8, <1>9

LEMMA InitBInv == RefundInit => BInv
<1> SUFFICES ASSUME RefundInit PROVE BInv
  OBVIOUS
<1> USE RefundAssumption
<1>1. /\ refunds = <<>> /\ events = <<>> /\ DOMAIN refunds = {} /\ DOMAIN events = {}
      /\ Len(events) = 0
  BY DEF RefundInit
<1>2. requests \in [Requests -> Request]
  BY DEF RefundInit, Request, Active
<1>3. \A r \in Requests :
        /\ requests[r].status = "NONE" /\ requests[r].lease = None
        /\ requests[r].lastEvent = 0
  BY DEF RefundInit
<1>4. /\ calls \in [Calls -> CallRow] /\ \A c \in Calls : calls[c].phase = "idle"
  BY DEF RefundInit, NoCall, CallRow, ProviderStatus
<1>5. /\ handlers \in [Handlers -> [event : 0..Len(events), seen : ProviderStatus]]
      /\ \A h \in Handlers : handlers[h].event = 0
  BY <1>1 DEF RefundInit, NoEvent, ProviderStatus
<1>6. second \in 1..MaxSeconds /\ faults \in 0..MaxFaults
  BY DEF RefundInit
<1>7. RefundTypeOK
  BY <1>1, <1>2, <1>3, <1>4, <1>5, <1>6 DEF RefundTypeOK, CallRow
<1>8. (\A c \in Calls : CallKnows(c)) /\ (\A h \in Handlers : HandlerKnows(h))
  BY <1>4, <1>5 DEF CallKnows, HandlerKnows
<1>9. OneRefundEach /\ RefundsAreOfTaken /\ EndedHaveRefunds /\ ProcessingHasRefund
  BY <1>1, <1>3 DEF OneRefundEach, RefundsAreOfTaken, EndedHaveRefunds, ProcessingHasRefund
<1>10. EventsInOrder /\ AppliedInOrder /\ LastSaysAll
  BY <1>1, <1>3 DEF EventsInOrder, AppliedInOrder, LastSaysAll
<1> QED BY <1>7, <1>8, <1>9, <1>10 DEF BInv

-----------------------------------------------------------------------------
(* Steps that write one request, and may move an execution.                *)

LEMMA RequestStep ==
  ASSUME BInv, NEW r \in Requests, NEW row \in Request, requests' = [requests EXCEPT ![r] = row],
         UNCHANGED <<refunds, events, handlers, second>>, faults' \in 0..MaxFaults,
         calls' \in [Calls -> CallRow],
         \A c \in Calls :
           \/ calls'[c] = calls[c]
           \/ calls'[c].phase = "idle"
           \/ calls'[c].phase = "claimed" /\ calls'[c].request = r /\ row.status \in Taken,
         row.lease # None => row.status = "PROCESSING",
         row.status = "PROCESSING" => row.lease # None \/ RefundsOf(r) # {},
         requests[r].status \in Taken => row.status \in Taken,
         row.status \in {"SUCCEEDED", "FAILED"} => RefundsOf(r) # {},
         row.status = "FAILED" => Failed(r),
         row.lastEvent = requests[r].lastEvent,
         row.lastEvent # 0 => row.lease = None /\ row.status = requests[r].status
  PROVE  BInv'
<1>1. /\ requests' \in [Requests -> Request] /\ requests'[r] = row
      /\ \A q \in Requests \ {r} : requests'[q] = requests[q]
  BY RowFacts
<1>2. \A q \in Requests :
        /\ requests'[q].lastEvent = requests[q].lastEvent
        /\ requests[q].status \in Taken => requests'[q].status \in Taken
        /\ requests[q].lastEvent # 0 => requests'[q].status = requests[q].status
                                         /\ (requests[q].lease = None => requests'[q].lease = None)
  BY <1>1
<1>3. /\ DOMAIN refunds' = DOMAIN refunds /\ DOMAIN events' = DOMAIN events
      /\ \A q \in Requests : RefundsOf(q)' = RefundsOf(q) /\ (Failed(q)' <=> Failed(q))
      /\ \A e \in DOMAIN events : Last(e)' = Last(e) /\ (AloneInSecond(e)' <=> AloneInSecond(e))
  BY DEF RefundsOf, Failed, Last, AloneInSecond
<1>4. RefundTypeOK'
  <2>1. \A q \in Requests : requests'[q].lease # None => requests'[q].status = "PROCESSING"
    BY <1>1 DEF BInv, RefundTypeOK
  <2> QED BY <1>1, <2>1 DEF BInv, RefundTypeOK, CallRow
<1>5. OneRefundEach' /\ RefundsAreOfTaken'
  BY <1>2, <1>3, RowFacts DEF BInv, OneRefundEach, RefundsAreOfTaken, RequestOf
<1>6. EndedHaveRefunds' /\ ProcessingHasRefund'
  BY <1>1, <1>3 DEF BInv, EndedHaveRefunds, ProcessingHasRefund
<1>7. \A c \in Calls : CallKnows(c)'
  <2> SUFFICES ASSUME NEW c \in Calls PROVE CallKnows(c)'
    OBVIOUS
  <2>1. CASE calls'[c] = calls[c]
    <3>1. CallKnows(c)
      BY DEF BInv
    <3> QED BY <1>2, <1>3, <2>1, <3>1 DEF CallKnows
  <2>2. CASE calls'[c].phase = "idle"
    BY <2>2 DEF CallKnows
  <2>3. CASE calls'[c].phase = "claimed" /\ calls'[c].request = r /\ row.status \in Taken
    BY <1>1, <2>3 DEF CallKnows
  <2> QED BY <2>1, <2>2, <2>3
<1>8. EventsInOrder'
  BY <1>3 DEF BInv, EventsInOrder
<1>9. \A h \in Handlers : HandlerKnows(h)'
  BY <1>3 DEF BInv, HandlerKnows, Last
<1>10. AppliedInOrder'
  BY <1>2, <1>3, RowFacts, SMTT(30) DEF BInv, AppliedInOrder, RequestOf
<1>11. LastSaysAll'
  <2> SUFFICES ASSUME NEW e \in DOMAIN events, events[e].status = "PROCESSED", Last(e),
                      AloneInSecond(e)
               PROVE  RequestOf(events[e].refund)'.status
                        = refundStatusFromStripe(refunds[events[e].refund].status)
    BY <1>3 DEF LastSaysAll, RequestOf
  <2>1. PICK q \in Requests : q = refunds[events[e].refund].request
    BY RowFacts
  <2>2. requests[q].lastEvent # 0
    <3>1. events[e].at <= requests[q].lastEvent
      BY <2>1 DEF BInv, AppliedInOrder, RequestOf
    <3>2. 1 <= events[e].at
      BY DEF BInv, EventsInOrder
    <3> QED BY <3>1, <3>2, RowFacts
  <2>3. requests'[q].status = requests[q].status
    BY <1>2, <2>2
  <2> QED BY <2>1, <2>3 DEF BInv, LastSaysAll, RequestOf
<1> QED BY <1>4, <1>5, <1>6, <1>7, <1>8, <1>9, <1>10, <1>11 DEF BInv

(* Request and review: the request was not claimed, so it has no refund, no *)
(* lease and no event.                                                      *)
LEMMA Unclaimed ==
  ASSUME BInv, NEW r \in Requests, requests[r].status \notin Taken
  PROVE  /\ requests[r].lease = None /\ requests[r].lastEvent = 0 /\ RefundsOf(r) = {}
         /\ requests[r] \in Request
<1>1. requests[r].lease = None
  BY DEF BInv, RefundTypeOK, Taken
<1>2. RefundsOf(r) = {}
  BY DEF BInv, RefundsAreOfTaken, RequestOf, RefundsOf
<1>3. requests[r].lastEvent = 0
  BY <1>2, RowFacts DEF BInv, AppliedInOrder, RefundsOf
<1> QED BY <1>1, <1>2, <1>3, RowFacts

LEMMA ReviewStep ==
  ASSUME BInv, NEW r \in Requests, NEW status \in Active \cup {"REJECTED"}, status # "PROCESSING",
         NEW amount \in 0..Paid, requests[r].status \notin Taken,
         requests' = [requests EXCEPT ![r] = [requests[r] EXCEPT !.status = status,
                                                                 !.amount = amount]],
         UNCHANGED <<refunds, events, calls, handlers, second, faults>>
  PROVE  BInv'
<1> DEFINE row == [requests[r] EXCEPT !.status = status, !.amount = amount]
<1>1. /\ row \in Request /\ row.status = status /\ row.lease = None
      /\ row.lastEvent = requests[r].lastEvent /\ row.lastEvent = 0
  BY Unclaimed DEF Request
<1>2. requests' = [requests EXCEPT ![r] = row]
  OBVIOUS
<1>3. row.status \notin {"PROCESSING", "SUCCEEDED", "FAILED"}
  BY <1>1 DEF Active
<1> HIDE DEF row
<1> QED BY <1>1, <1>2, <1>3, RowFacts, RequestStep

LEMMA RequestReviewSteps ==
  ASSUME BInv, NEW r \in Requests,
         \/ \E amount \in 1..Paid : RequestRefund(r, amount) \/ Approve(r, amount)
         \/ StartReview(r) \/ Reject(r)
  PROVE  BInv'
<1>1. /\ requests[r].amount \in 0..Paid /\ requests[r] \in Request
      /\ requests \in [Requests -> Request]
  BY RowFacts DEF Request
<1>2. ASSUME NEW amount \in 1..Paid, RequestRefund(r, amount) \/ Approve(r, amount)
      PROVE  BInv'
  <2>1. amount \in 0..Paid
    BY RefundAssumption
  <2>2. PICK status \in {"REQUESTED", "APPROVED"} :
          requests' = [requests EXCEPT ![r].status = status, ![r].amount = amount]
    BY <1>2 DEF RequestRefund, Approve
  <2>3. requests' = [requests EXCEPT ![r] = [requests[r] EXCEPT !.status = status,
                                                                !.amount = amount]]
    BY <1>1, <2>2
  <2>4. /\ requests[r].status \notin Taken
        /\ UNCHANGED <<refunds, events, calls, handlers, second, faults>>
    BY <1>2 DEF RequestRefund, Approve, Taken
  <2>5. status \in Active \cup {"REJECTED"} /\ status # "PROCESSING"
    BY DEF Active
  <2> QED BY <2>1, <2>3, <2>4, <2>5, ReviewStep
<1>3. CASE StartReview(r) \/ Reject(r)
  <2>1. PICK status \in {"UNDER_REVIEW", "REJECTED"} :
          requests' = [requests EXCEPT ![r].status = status]
    BY <1>3 DEF StartReview, Reject
  <2>2. [requests[r] EXCEPT !.status = status]
          = [requests[r] EXCEPT !.status = status, !.amount = requests[r].amount]
    BY <1>1 DEF Request
  <2>3. requests' = [requests EXCEPT ![r] = [requests[r] EXCEPT !.status = status,
                                                      !.amount = requests[r].amount]]
    BY <2>1, <2>2
  <2>4. /\ requests[r].status \notin Taken
        /\ UNCHANGED <<refunds, events, calls, handlers, second, faults>>
    BY <1>3 DEF StartReview, Reject, Rejectable, Taken
  <2>5. status \in Active \cup {"REJECTED"} /\ status # "PROCESSING"
    BY DEF Active
  <2> QED BY <1>1, <2>3, <2>4, <2>5, ReviewStep
<1> QED BY <1>2, <1>3

(* Execution: the claim, the record, the failure, the lease that runs out.  *)
LEMMA ExecuteClaimsStep ==
  ASSUME BInv, NEW c \in Calls, NEW r \in Requests, ExecuteClaims(c, r)
  PROVE  BInv'
<1> DEFINE row == [requests[r] EXCEPT !.status = "PROCESSING", !.lease = c, !.lapsed = FALSE]
           call == [NoCall EXCEPT !.phase = "claimed", !.request = r]
<1>1. /\ requests' = [requests EXCEPT ![r] = row] /\ calls' = [calls EXCEPT ![c] = call]
      /\ UNCHANGED <<refunds, events, handlers, second, faults>>
  BY RowFacts DEF ExecuteClaims
<1>2. /\ row \in Request /\ row.status = "PROCESSING" /\ row.lease = c
      /\ row.lastEvent = requests[r].lastEvent
  BY RowFacts, ZenonT(60) DEF Request, Active
<1>3. call \in CallRow /\ call.phase = "claimed" /\ call.request = r
  BY DEF CallRow, NoCall, ProviderStatus
<1>4. c # None
  BY RefundAssumption
<1>5. row.lastEvent = 0
  <2>1. CASE requests[r].status = "APPROVED"
    BY <1>2, <2>1, Unclaimed DEF Taken
  <2>2. CASE requests[r].lease # None
    BY <1>2, <2>2 DEF BInv, AppliedInOrder
  <2> QED BY <2>1, <2>2 DEF ExecuteClaims
<1> HIDE DEF row, call
<1>6. /\ calls' \in [Calls -> CallRow] /\ calls'[c] = call
      /\ \A d \in Calls \ {c} : calls'[d] = calls[d]
  BY <1>1, <1>3, RowFacts
<1> QED BY <1>1, <1>2, <1>3, <1>4, <1>5, <1>6, RowFacts, RequestStep, ZenonT(60) DEF Taken

LEMMA IdleCall ==
  ASSUME BInv, NEW c \in Calls, calls' = [calls EXCEPT ![c] = NoCall]
  PROVE  /\ calls' \in [Calls -> CallRow]
         /\ \A d \in Calls : calls'[d] = calls[d] \/ calls'[d].phase = "idle"
<1>1. NoCall \in CallRow /\ NoCall.phase = "idle"
  BY DEF NoCall, CallRow, ProviderStatus
<1> QED BY <1>1, RowFacts

LEMMA CallStays ==
  ASSUME BInv, NEW c \in Calls, UNCHANGED <<requests, refunds>>,
         calls'[c] = calls[c] \/ calls'[c].phase = "idle"
  PROVE  CallKnows(c)'
<1>1. CallKnows(c)
  BY DEF BInv
<1>2. \A r \in Requests : RefundsOf(r)' = RefundsOf(r) /\ (Failed(r)' <=> Failed(r))
  BY DEF RefundsOf, Failed
<1> QED BY <1>1, <1>2 DEF CallKnows

(* A step of an execution that does not touch the request.                  *)
LEMMA CallStep ==
  ASSUME BInv, UNCHANGED <<requests, refunds, events, handlers, second>>, faults' \in 0..MaxFaults,
         calls' \in [Calls -> CallRow], \A c \in Calls : CallKnows(c)'
  PROVE  BInv'
<1>1. RefundTypeOK'
  BY DEF BInv, RefundTypeOK, CallRow
<1>2. OneRefundEach' /\ RefundsAreOfTaken' /\ EndedHaveRefunds' /\ ProcessingHasRefund'
  BY DEF BInv, OneRefundEach, RefundsAreOfTaken, RequestOf, EndedHaveRefunds,
         ProcessingHasRefund, RefundsOf, Failed
<1>3. EventsInOrder' /\ AppliedInOrder' /\ LastSaysAll'
  BY DEF BInv, EventsInOrder, AppliedInOrder, LastSaysAll, Last, AloneInSecond, RequestOf
<1>4. \A h \in Handlers : HandlerKnows(h)'
  BY DEF BInv, HandlerKnows, Last
<1> QED BY <1>1, <1>2, <1>3, <1>4 DEF BInv

LEMMA ExecuteRecordsStep ==
  ASSUME BInv, NEW c \in Calls, ExecuteRecords(c)
  PROVE  BInv'
<1>1. PICK r \in Requests : r = calls[c].request
  BY DEF ExecuteRecords, BInv, CallKnows
<1>2. /\ calls[c].phase = "answered" /\ calls' = [calls EXCEPT ![c] = NoCall]
      /\ UNCHANGED <<refunds, events, handlers, second, faults>>
  BY DEF ExecuteRecords
<1>3. RefundsOf(r) # {} /\ (calls[c].answer = "failed" => Failed(r))
  BY <1>1, <1>2 DEF BInv, CallKnows
<1>4. CASE Owns(c)
  <2> DEFINE status == refundStatusFromStripe(calls[c].answer)
             row == [requests[r] EXCEPT !.status = status, !.lease = None, !.lapsed = FALSE]
  <2>1. requests' = [requests EXCEPT ![r] = row]
    BY <1>1, <1>4, RowFacts DEF ExecuteRecords
  <2>2. status \in Taken /\ (status = "FAILED" => calls[c].answer = "failed")
    BY RowFacts DEF refundStatusFromStripe, Taken, CallRow, ProviderStatus
  <2> HIDE DEF status
  <2>3. /\ row \in Request /\ row.status = status /\ row.lease = None
        /\ row.lastEvent = requests[r].lastEvent
    BY <2>2, RowFacts, ZenonT(60) DEF Request, Active, Taken
  <2>4. row.lastEvent = 0
    <3>1. requests[r].lease = c /\ c # None
      BY <1>1, <1>4, RefundAssumption DEF Owns
    <3> QED BY <2>3, <3>1 DEF BInv, AppliedInOrder
  <2> HIDE DEF row
  <2> QED BY <1>2, <1>3, <2>1, <2>2, <2>3, <2>4, IdleCall, RowFacts, RequestStep
<1>5. CASE ~Owns(c)
  <2>1. UNCHANGED requests
    BY <1>5 DEF ExecuteRecords
  <2>2. \A d \in Calls : CallKnows(d)'
    BY <1>2, <2>1, IdleCall, CallStays
  <2> QED BY <1>2, <2>1, <2>2, IdleCall, RowFacts, CallStep
<1> QED BY <1>4, <1>5

(* The lease is marked: who holds it, and what the request says, stays.     *)
LEMMA LapsedStep ==
  ASSUME BInv, NEW r \in Requests, NEW lapsed \in BOOLEAN,
         requests' = [requests EXCEPT ![r] = [requests[r] EXCEPT !.lapsed = lapsed]],
         UNCHANGED <<refunds, events, handlers, second>>, faults' \in 0..MaxFaults,
         calls' \in [Calls -> CallRow],
         \A c \in Calls : calls'[c] = calls[c] \/ calls'[c].phase = "idle"
  PROVE  BInv'
<1> DEFINE row == [requests[r] EXCEPT !.lapsed = lapsed]
<1>1. /\ row \in Request /\ row.status = requests[r].status /\ row.lease = requests[r].lease
      /\ row.lastEvent = requests[r].lastEvent
  BY RowFacts DEF Request
<1>2. /\ requests[r].lease # None => requests[r].status = "PROCESSING"
      /\ requests[r].status = "PROCESSING" => requests[r].lease # None \/ RefundsOf(r) # {}
      /\ requests[r].status \in {"SUCCEEDED", "FAILED"} => RefundsOf(r) # {}
      /\ requests[r].status = "FAILED" => Failed(r)
      /\ requests[r].lastEvent # 0 => requests[r].lease = None
  BY DEF BInv, RefundTypeOK, ProcessingHasRefund, EndedHaveRefunds, AppliedInOrder
<1>3. requests' = [requests EXCEPT ![r] = row]
  OBVIOUS
<1> HIDE DEF row
<1>4. /\ row.lease # None => row.status = "PROCESSING"
      /\ row.status = "PROCESSING" => row.lease # None \/ RefundsOf(r) # {}
      /\ requests[r].status \in Taken => row.status \in Taken
      /\ row.status \in {"SUCCEEDED", "FAILED"} => RefundsOf(r) # {}
      /\ row.status = "FAILED" => Failed(r)
      /\ row.lastEvent # 0 => row.lease = None /\ row.status = requests[r].status
  BY <1>1, <1>2
<1>5. \A c \in Calls :
        \/ calls'[c] = calls[c]
        \/ calls'[c].phase = "idle"
        \/ calls'[c].phase = "claimed" /\ calls'[c].request = r /\ row.status \in Taken
  OBVIOUS
<1> QED BY <1>1, <1>3, <1>4, <1>5, RequestStep

LEMMA FaultCounted ==
  ASSUME BInv, faults < MaxFaults, faults' = faults + 1
  PROVE  faults' \in 0..MaxFaults
<1> QED BY RowFacts, RefundAssumption

LEMMA LostCallSteps ==
  ASSUME BInv, NEW c \in Calls, ExecuteFails(c) \/ CallDies(c)
  PROVE  BInv'
<1>1. PICK r \in Requests : r = calls[c].request
  BY DEF ExecuteFails, CallDies, BInv, CallKnows
<1>2. /\ calls' = [calls EXCEPT ![c] = NoCall] /\ faults' \in 0..MaxFaults
      /\ UNCHANGED <<refunds, events, handlers, second>>
  BY FaultCounted DEF ExecuteFails, CallDies
<1>3. \/ UNCHANGED requests
      \/ requests' = [requests EXCEPT ![r] = [requests[r] EXCEPT !.lapsed = FALSE]]
  BY <1>1, RowFacts DEF ExecuteFails, CallDies, Held
<1>4. CASE UNCHANGED requests
  <2>1. \A d \in Calls : CallKnows(d)'
    BY <1>2, <1>4, IdleCall, CallStays
  <2> QED BY <1>2, <1>4, <2>1, IdleCall, CallStep
<1>5. CASE requests' = [requests EXCEPT ![r] = [requests[r] EXCEPT !.lapsed = FALSE]]
  BY <1>2, <1>5, IdleCall, LapsedStep
<1> QED BY <1>3, <1>4, <1>5

LEMMA LeaseLapsesStep ==
  ASSUME BInv, NEW r \in Requests, LeaseLapses(r)
  PROVE  BInv'
<1>1. /\ requests' = [requests EXCEPT ![r] = [requests[r] EXCEPT !.lapsed = TRUE]]
      /\ UNCHANGED <<refunds, events, calls, handlers, second>> /\ faults' \in 0..MaxFaults
  BY FaultCounted, RowFacts DEF LeaseLapses
<1> QED BY <1>1, RowFacts, LapsedStep

LEMMA ExecuteListsStep ==
  ASSUME BInv, NEW c \in Calls, ExecuteLists(c)
  PROVE  BInv'
<1>1. PICK r \in Requests : r = calls[c].request /\ requests[r].status \in Taken
  BY DEF ExecuteLists, BInv, CallKnows
<1>2. UNCHANGED <<requests, refunds, events, handlers, second, faults>>
  BY DEF ExecuteLists
<1>3. PICK row \in CallRow :
        /\ calls' = [calls EXCEPT ![c] = row] /\ row.request = r
        /\ row.phase = "answered" =>
              RefundsOf(r) # {} /\ (row.answer = "failed" => Failed(r))
  <2>1. CASE RefundsOf(r) = {} /\ calls' = [calls EXCEPT ![c].phase = "listed"]
    <3> DEFINE row == [calls[c] EXCEPT !.phase = "listed"]
    <3>1. row \in CallRow /\ row.request = r /\ row.phase = "listed"
      BY <1>1, RowFacts DEF CallRow
    <3>2. calls' = [calls EXCEPT ![c] = row]
      BY <2>1
    <3> QED BY <3>1, <3>2
  <2>2. ASSUME NEW i \in RefundsOf(r),
               calls' = [calls EXCEPT ![c].phase = "answered", ![c].answer = refunds[i].status]
        PROVE  \E row \in CallRow :
                 /\ calls' = [calls EXCEPT ![c] = row] /\ row.request = r
                 /\ row.phase = "answered" =>
                       RefundsOf(r) # {} /\ (row.answer = "failed" => Failed(r))
    <3> DEFINE row == [calls[c] EXCEPT !.phase = "answered", !.answer = refunds[i].status]
    <3>1. i \in DOMAIN refunds /\ refunds[i].request = r /\ refunds[i].status \in ProviderStatus
      BY RowFacts DEF RefundsOf, Refund
    <3>2. /\ row \in CallRow /\ row.request = r /\ row.phase = "answered"
          /\ row.answer = refunds[i].status
      BY <1>1, <3>1, RowFacts DEF CallRow
    <3>3. calls' = [calls EXCEPT ![c] = row]
      BY <2>2, RowFacts
    <3>4. refunds[i].status = "failed" => Failed(r)
      BY <3>1 DEF BInv, OneRefundEach, Failed, RefundsOf
    <3> HIDE DEF row
    <3> QED BY <3>2, <3>3, <3>4
  <2> QED BY <1>1, <2>1, <2>2 DEF ExecuteLists
<1>4. /\ calls' \in [Calls -> CallRow] /\ calls'[c] = row
      /\ \A d \in Calls \ {c} : calls'[d] = calls[d]
  BY <1>3, RowFacts
<1>5. \A d \in Calls : CallKnows(d)'
  BY <1>1, <1>2, <1>3, <1>4 DEF BInv, CallKnows, RefundsOf, Failed
<1> QED BY <1>2, <1>4, <1>5, RowFacts, CallStep

-----------------------------------------------------------------------------
(* Steps of Stripe, each with its event.                                   *)

LEMMA EventSent ==
  ASSUME BInv, NEW i \in Nat, events' = Append(events, Sent(i))
  PROVE  /\ events' \in Seq(Event) /\ Len(events') = Len(events) + 1
         /\ DOMAIN events' = DOMAIN events \cup {Len(events) + 1}
         /\ \A e \in DOMAIN events : events'[e] = events[e] /\ e < Len(events) + 1
         /\ events'[Len(events) + 1].refund = i /\ events'[Len(events) + 1].at = second
         /\ events'[Len(events) + 1].status = "NEW"
<1>1. Sent(i) \in Event
  BY RowFacts DEF Sent, Event
<1>2. Sent(i).refund = i /\ Sent(i).at = second /\ Sent(i).status = "NEW"
  BY DEF Sent
<1>3. events \in Seq(Event) /\ Len(events) \in Nat /\ DOMAIN events = 1..Len(events)
  BY RowFacts
<1>4. /\ events' \in Seq(Event) /\ Len(events') = Len(events) + 1
      /\ events'[Len(events) + 1] = Sent(i)
      /\ \A e \in 1..Len(events) : events'[e] = events[e]
  BY <1>1, <1>3
<1>5. DOMAIN events' = 1..Len(events) + 1
  BY <1>4
<1> QED BY <1>2, <1>3, <1>4, <1>5

LEMMA StripeStep ==
  ASSUME BInv, NEW i \in Nat, events' = Append(events, Sent(i)),
         refunds' \in Seq(Refund), DOMAIN refunds' = DOMAIN refunds \cup {i},
         \A j \in DOMAIN refunds :
           /\ refunds'[j].request = refunds[j].request
           /\ refunds[j].status = "failed" => refunds'[j].status = "failed"
           /\ j # i => refunds'[j] = refunds[j],
         UNCHANGED <<requests, handlers, second, faults>>, calls' \in [Calls -> CallRow],
         OneRefundEach', RefundsAreOfTaken', EndedHaveRefunds', ProcessingHasRefund',
         \A c \in Calls : CallKnows(c)'
  PROVE  BInv'
<1>1. PICK n : n = Len(events) + 1
  OBVIOUS
<1>2. /\ events' \in Seq(Event) /\ Len(events') = n /\ n \in Nat
      /\ DOMAIN events' = DOMAIN events \cup {n}
      /\ \A e \in DOMAIN events : events'[e] = events[e] /\ e < n /\ e \in Nat
      /\ events'[n].refund = i /\ events'[n].at = second /\ events'[n].status = "NEW"
  BY <1>1, EventSent, RowFacts
<1>3. \A e \in DOMAIN events :
        /\ Last(e)' => Last(e) /\ events[e].refund # i
        /\ Last(e) /\ events[e].refund # i => Last(e)'
        /\ AloneInSecond(e)' => AloneInSecond(e)
  BY <1>2, ZenonT(60) DEF Last, AloneInSecond
<1>4. \A e \in DOMAIN events :
        /\ events[e].refund \in DOMAIN refunds
        /\ RequestOf(events[e].refund)' = RequestOf(events[e].refund)
  BY RowFacts DEF RequestOf
<1>5. RefundTypeOK'
  <2>1. handlers' \in [Handlers -> [event : 0..Len(events'), seen : ProviderStatus]]
    <3>1. handlers \in [Handlers -> [event : 0..Len(events), seen : ProviderStatus]]
      BY DEF BInv, RefundTypeOK
    <3>2. 0..Len(events) \subseteq 0..Len(events')
      BY <1>1, <1>2, RowFacts
    <3> QED BY <3>1, <3>2
  <2> QED BY <1>2, <2>1 DEF BInv, RefundTypeOK, CallRow
<1>6. EventsInOrder'
  <2>1. \A e \in DOMAIN events' :
          events'[e].refund \in DOMAIN refunds' /\ 1 <= events'[e].at /\ events'[e].at <= second'
    <3>1. /\ i \in DOMAIN refunds' /\ DOMAIN refunds \subseteq DOMAIN refunds'
          /\ second \in Nat /\ 1 <= second /\ second' = second
      BY RowFacts
    <3>2. \A e \in DOMAIN events :
            events[e].refund \in DOMAIN refunds /\ 1 <= events[e].at /\ events[e].at <= second
      BY DEF BInv, EventsInOrder
    <3>3. \A e \in DOMAIN events :
            events'[e].refund \in DOMAIN refunds' /\ 1 <= events'[e].at /\ events'[e].at <= second'
      BY <1>2, <3>1, <3>2
    <3>4. events'[n].refund \in DOMAIN refunds' /\ 1 <= events'[n].at /\ events'[n].at <= second'
      BY <1>2, <3>1
    <3> QED BY <1>2, <3>3, <3>4
  <2>2. \A e, f \in DOMAIN events' : e <= f => events'[e].at <= events'[f].at
    <3> SUFFICES ASSUME NEW e \in DOMAIN events', NEW f \in DOMAIN events', e <= f
                 PROVE  events'[e].at <= events'[f].at
      OBVIOUS
    <3>1. CASE f = n
      BY <1>2, <2>1, <3>1, RowFacts
    <3>2. CASE f # n
      BY <1>2, <3>2 DEF BInv, EventsInOrder
    <3> QED BY <3>1, <3>2
  <2>3. ASSUME NEW j \in DOMAIN refunds'
        PROVE  \E e \in DOMAIN events' : events'[e].refund = j /\ Last(e)'
    <3>1. CASE j = i
      <4>1. Last(n)'
        BY <1>2 DEF Last
      <4> QED BY <1>2, <3>1, <4>1
    <3>2. CASE j # i
      <4>1. PICK e \in DOMAIN events : events[e].refund = j /\ Last(e)
        BY <3>2 DEF BInv, EventsInOrder
      <4> QED BY <1>2, <1>3, <3>2, <4>1
    <3> QED BY <3>1, <3>2
  <2> QED BY <2>1, <2>2, <2>3 DEF EventsInOrder
<1>7. ASSUME NEW h \in Handlers PROVE HandlerKnows(h)'
  <2>1. HandlerKnows(h)
    BY DEF BInv
  <2>2. PICK e : e = handlers[h].event
    OBVIOUS
  <2>3. CASE e # 0
    <3>1. e \in DOMAIN events /\ events'[e] = events[e] /\ events[e].refund \in DOMAIN refunds
      BY <1>2, <2>2, <2>3, RowFacts
    <3>2. Last(e)' => handlers[h].seen = refunds'[events'[e].refund].status
      BY <1>3, <2>1, <2>2, <2>3, <3>1 DEF HandlerKnows
    <3>3. handlers[h].seen = "failed" => refunds'[events'[e].refund].status = "failed"
      BY <2>1, <2>2, <2>3, <3>1 DEF HandlerKnows
    <3>4. (Last(handlers[h].event))' => Last(e)'
      BY <2>2 DEF Last
    <3> QED BY <2>2, <3>2, <3>3, <3>4 DEF HandlerKnows
  <2>4. CASE e = 0
    BY <2>2, <2>4 DEF HandlerKnows
  <2> QED BY <2>3, <2>4
<1>8. AppliedInOrder'
  <2>1. \A e \in DOMAIN events' :
          /\ events'[e].status = "PROCESSED" =>
               events'[e].at <= RequestOf(events[e].refund)'.lastEvent
          /\ events'[e].status = "IGNORED_STALE" =>
               events'[e].at < RequestOf(events[e].refund)'.lastEvent
    <3> SUFFICES ASSUME NEW e \in DOMAIN events', events'[e].status # "NEW"
                 PROVE  /\ events'[e].status = "PROCESSED" =>
                             events'[e].at <= RequestOf(events[e].refund)'.lastEvent
                        /\ events'[e].status = "IGNORED_STALE" =>
                             events'[e].at < RequestOf(events[e].refund)'.lastEvent
      OBVIOUS
    <3>1. /\ e \in DOMAIN events /\ events'[e] = events[e]
          /\ RequestOf(events[e].refund)' = RequestOf(events[e].refund)
      BY <1>2, <1>4
    <3> QED BY <3>1 DEF BInv, AppliedInOrder
  <2>2. ASSUME NEW r \in Requests, requests'[r].lastEvent # 0
        PROVE  /\ requests'[r].lease = None
               /\ \E e \in DOMAIN events' : /\ refunds'[events'[e].refund].request = r
                                            /\ events'[e].at = requests'[r].lastEvent
    <3>1. PICK e \in DOMAIN events :
            refunds[events[e].refund].request = r /\ events[e].at = requests[r].lastEvent
      BY <2>2 DEF BInv, AppliedInOrder
    <3>2. requests[r].lease = None
      BY <2>2 DEF BInv, AppliedInOrder
    <3> QED BY <1>2, <1>4, <3>1, <3>2
  <2> QED BY <2>1, <2>2 DEF AppliedInOrder, RequestOf
<1>9. LastSaysAll'
  <2> SUFFICES ASSUME NEW e \in DOMAIN events', events'[e].status = "PROCESSED", Last(e)',
                      AloneInSecond(e)'
               PROVE  RequestOf(events[e].refund)'.status
                        = refundStatusFromStripe(refunds'[events'[e].refund].status)
    BY DEF LastSaysAll, RequestOf
  <2>1. e \in DOMAIN events /\ events'[e] = events[e]
    BY <1>2
  <2>2. Last(e) /\ AloneInSecond(e) /\ events[e].refund # i
    BY <1>3, <2>1
  <2>3. refunds'[events[e].refund] = refunds[events[e].refund]
    BY <1>4, <2>1, <2>2
  <2>4. RequestOf(events[e].refund).status
          = refundStatusFromStripe(refunds[events[e].refund].status)
    BY <2>1, <2>2 DEF BInv, LastSaysAll
  <2> QED BY <1>4, <2>1, <2>3, <2>4
<1> QED BY <1>5, <1>6, <1>7, <1>8, <1>9 DEF BInv

LEMMA SettlesStep ==
  ASSUME BInv, NEW i \in DOMAIN refunds, NEW status \in ProviderStatus, Settles(i, status)
  PROVE  BInv'
<1> DEFINE row == [refunds[i] EXCEPT !.status = status]
<1>1. /\ events' = Append(events, Sent(i)) /\ refunds' = [refunds EXCEPT ![i] = row]
      /\ UNCHANGED <<requests, calls, handlers, second, faults>>
      /\ refunds[i].status # "failed"
  BY DEF Settles
<1>2. row \in Refund /\ row.request = refunds[i].request /\ row.first = refunds[i].first
  BY RowFacts DEF Refund
<1> HIDE DEF row
<1>3. /\ refunds' \in Seq(Refund) /\ DOMAIN refunds' = DOMAIN refunds /\ refunds'[i] = row
      /\ \A j \in DOMAIN refunds \ {i} : refunds'[j] = refunds[j]
  BY <1>1, <1>2, RowFacts
<1>4. \A j \in DOMAIN refunds :
        /\ refunds'[j].request = refunds[j].request /\ refunds'[j].first = refunds[j].first
        /\ refunds[j].status = "failed" => refunds'[j].status = "failed"
        /\ j # i => refunds'[j] = refunds[j]
  BY <1>1, <1>2, <1>3
<1>5. \A r \in Requests : RefundsOf(r)' = RefundsOf(r) /\ (Failed(r) => Failed(r)')
  BY <1>3, <1>4 DEF RefundsOf, Failed
<1>6. OneRefundEach' /\ RefundsAreOfTaken'
  BY <1>1, <1>3, <1>4 DEF BInv, OneRefundEach, RefundsAreOfTaken, RequestOf
<1>7. EndedHaveRefunds' /\ ProcessingHasRefund'
  BY <1>1, <1>5 DEF BInv, EndedHaveRefunds, ProcessingHasRefund
<1>8. \A c \in Calls : CallKnows(c)'
  BY <1>1, <1>5 DEF BInv, CallKnows
<1>9. i \in Nat /\ DOMAIN refunds' = DOMAIN refunds \cup {i}
  BY <1>3, RowFacts
<1> QED BY <1>1, <1>3, <1>4, <1>6, <1>7, <1>8, <1>9, RowFacts, StripeStep

(* An execution is told of the refund that is there, or creates it.         *)
LEMMA ExecuteCreatesStep ==
  ASSUME BInv, NEW c \in Calls, ExecuteCreates(c)
  PROVE  BInv'
<1>1. PICK r \in Requests : r = calls[c].request /\ requests[r].status \in Taken
  BY DEF ExecuteCreates, BInv, CallKnows
<1>2. UNCHANGED <<requests, handlers, second, faults>>
  BY DEF ExecuteCreates
<1>3. ASSUME NEW answer \in {"pending", "succeeded"},
             calls' = [calls EXCEPT ![c].phase = "answered", ![c].answer = answer]
      PROVE  /\ calls' \in [Calls -> CallRow]
             /\ calls'[c].request = r /\ calls'[c].answer # "failed"
             /\ \A d \in Calls \ {c} : calls'[d] = calls[d]
  <2> DEFINE row == [calls[c] EXCEPT !.phase = "answered", !.answer = answer]
  <2>1. row \in CallRow /\ row.request = r /\ row.answer = answer
    BY <1>1, RowFacts DEF CallRow, ProviderStatus
  <2>2. calls' = [calls EXCEPT ![c] = row]
    BY <1>3, RowFacts
  <2> HIDE DEF row
  <2> QED BY <2>1, <2>2, RowFacts
<1>4. ASSUME NEW i \in Known(r),
             calls' = [calls EXCEPT ![c].phase = "answered", ![c].answer = refunds[i].first],
             UNCHANGED <<refunds, events>>
      PROVE  BInv'
  <2>1. i \in RefundsOf(r) /\ refunds[i].first \in {"pending", "succeeded"}
    BY <1>4, RowFacts DEF Known, RefundsOf, BInv, RefundsAreOfTaken, Refund, ProviderStatus
  <2>2. /\ calls' \in [Calls -> CallRow]
        /\ calls'[c].request = r /\ calls'[c].answer # "failed"
        /\ \A d \in Calls \ {c} : calls'[d] = calls[d]
    BY <1>3, <1>4, <2>1
  <2>3. CallKnows(c)'
    BY <1>1, <1>2, <1>4, <2>1, <2>2 DEF CallKnows, RefundsOf
  <2>4. \A d \in Calls : CallKnows(d)'
    BY <1>2, <1>4, <2>2, <2>3, CallStays
  <2> QED BY <1>2, <1>4, <2>2, <2>4, RowFacts, CallStep
<1>5. ASSUME NEW answer \in {"pending", "succeeded"}, Known(r) = {},
             refunds' = Append(refunds, [request |-> r, amount |-> requests[r].amount,
                                         status |-> answer, first |-> answer]),
             calls' = [calls EXCEPT ![c].phase = "answered", ![c].answer = answer],
             events' = Append(events, Sent(Len(refunds) + 1))
      PROVE  BInv'
  <2> DEFINE row == [request |-> r, amount |-> requests[r].amount,
                     status |-> answer, first |-> answer]
  <2>1. row \in Refund /\ row.request = r /\ row.status = answer /\ row.first = answer
    BY RowFacts DEF Refund, Request, ProviderStatus
  <2>2. refunds' = Append(refunds, row)
    BY <1>5
  <2> HIDE DEF row
  <2>3. PICK n \in Nat : n = Len(refunds) + 1
    BY RowFacts
  <2>4. /\ refunds' \in Seq(Refund) /\ DOMAIN refunds' = DOMAIN refunds \cup {n}
        /\ refunds'[n] = row /\ n \notin DOMAIN refunds
        /\ \A j \in DOMAIN refunds : refunds'[j] = refunds[j]
    <3>1. refunds \in Seq(Refund) /\ Len(refunds) \in Nat /\ DOMAIN refunds = 1..Len(refunds)
      BY RowFacts
    <3>2. /\ refunds' \in Seq(Refund) /\ Len(refunds') = n /\ refunds'[n] = row
          /\ \A j \in 1..Len(refunds) : refunds'[j] = refunds[j]
      BY <2>1, <2>2, <2>3, <3>1
    <3>3. DOMAIN refunds' = 1..n
      BY <3>2
    <3> QED BY <2>3, <3>1, <3>2, <3>3
  <2>5. RefundsOf(r) = {} /\ n \in RefundsOf(r)'
    BY <1>5, <2>1, <2>4 DEF Known, RefundsOf
  <2>6. \A q \in Requests \ {r} : RefundsOf(q)' = RefundsOf(q) /\ (Failed(q)' <=> Failed(q))
    BY <2>1, <2>4 DEF RefundsOf, Failed
  <2>7. requests[r].status \notin {"SUCCEEDED", "FAILED"}
    BY <2>5 DEF BInv, EndedHaveRefunds
  <2>8. OneRefundEach'
    BY <2>1, <2>4, <2>5 DEF BInv, OneRefundEach, RefundsOf
  <2>9. RefundsAreOfTaken'
    BY <1>1, <1>2, <2>1, <2>4 DEF BInv, RefundsAreOfTaken, RequestOf
  <2>10. EndedHaveRefunds' /\ ProcessingHasRefund'
    BY <1>2, <2>5, <2>6, <2>7 DEF BInv, EndedHaveRefunds, ProcessingHasRefund
  <2>11. /\ calls' \in [Calls -> CallRow]
         /\ calls'[c].request = r /\ calls'[c].answer # "failed"
         /\ \A d \in Calls \ {c} : calls'[d] = calls[d]
    BY <1>3, <1>5
  <2>12. CallKnows(c)'
    BY <1>1, <1>2, <2>5, <2>11 DEF CallKnows
  <2>13. ASSUME NEW d \in Calls \ {c} PROVE CallKnows(d)'
    <3>1. CallKnows(d) /\ calls'[d] = calls[d]
      BY <2>11 DEF BInv
    <3>2. calls[d].phase = "answered" => calls[d].request # r
      BY <2>5, <3>1 DEF CallKnows
    <3> QED BY <1>2, <2>6, <3>1, <3>2 DEF CallKnows
  <2>14. \A j \in DOMAIN refunds :
           /\ refunds'[j].request = refunds[j].request
           /\ refunds[j].status = "failed" => refunds'[j].status = "failed"
           /\ j # n => refunds'[j] = refunds[j]
    BY <2>4
  <2>15. events' = Append(events, Sent(n))
    BY <1>5, <2>3
  <2>16. \A d \in Calls : CallKnows(d)'
    BY <2>12, <2>13
  <2> QED BY <1>2, <2>4, <2>8, <2>9, <2>10, <2>11, <2>14, <2>15, <2>16, StripeStep
<1> QED BY <1>1, <1>4, <1>5 DEF ExecuteCreates

-----------------------------------------------------------------------------
(* The clock and the deliveries.                                           *)

LEMMA TickStep == BInv /\ Tick => BInv'
<1> SUFFICES ASSUME BInv, Tick PROVE BInv'
  OBVIOUS
<1>1. /\ second' = second + 1 /\ second' \in 1..MaxSeconds
      /\ UNCHANGED <<requests, refunds, events, calls, handlers, faults>>
  BY RowFacts DEF Tick
<1>2. RefundTypeOK'
  BY <1>1 DEF BInv, RefundTypeOK
<1>3. EventsInOrder'
  BY <1>1, RowFacts, SMTT(30) DEF BInv, EventsInOrder, Last
<1>4. OneRefundEach' /\ RefundsAreOfTaken' /\ EndedHaveRefunds' /\ ProcessingHasRefund'
  BY <1>1 DEF BInv, OneRefundEach, RefundsAreOfTaken, RequestOf, EndedHaveRefunds,
              ProcessingHasRefund, RefundsOf, Failed
<1>5. AppliedInOrder' /\ LastSaysAll'
  BY <1>1 DEF BInv, AppliedInOrder, LastSaysAll, Last, AloneInSecond, RequestOf
<1>6. (\A c \in Calls : CallKnows(c)') /\ (\A h \in Handlers : HandlerKnows(h)')
  BY <1>1 DEF BInv, CallKnows, HandlerKnows, Last, RefundsOf, Failed
<1> QED BY <1>2, <1>3, <1>4, <1>5, <1>6 DEF BInv

(* The row of an event is written: the event stays the one it is, and what  *)
(* it says of being handled stays or is taken back.                         *)
Kept(e, row) ==
  /\ row \in Event /\ row.refund = events[e].refund /\ row.at = events[e].at

LEMMA EventKept ==
  ASSUME BInv, NEW e \in DOMAIN events, NEW row, Kept(e, row),
         events' = [events EXCEPT ![e] = row], UNCHANGED refunds
  PROVE  /\ events' \in Seq(Event) /\ Len(events') = Len(events)
         /\ DOMAIN events' = DOMAIN events /\ events'[e] = row
         /\ \A f \in DOMAIN events \ {e} : events'[f] = events[f]
         /\ \A f \in DOMAIN events :
              /\ events'[f].refund = events[f].refund /\ events'[f].at = events[f].at
              /\ Last(f)' <=> Last(f)
              /\ AloneInSecond(f)' <=> AloneInSecond(f)
<1>1. /\ events' \in Seq(Event) /\ Len(events') = Len(events)
      /\ DOMAIN events' = DOMAIN events /\ events'[e] = row
      /\ \A f \in DOMAIN events \ {e} : events'[f] = events[f]
  BY RowFacts DEF Kept
<1>2. \A f \in DOMAIN events :
        events'[f].refund = events[f].refund /\ events'[f].at = events[f].at
  BY <1>1 DEF Kept
<1> QED BY <1>1, <1>2 DEF Last, AloneInSecond

LEMMA OrderKept ==
  ASSUME BInv, NEW e \in DOMAIN events, NEW row, Kept(e, row),
         events' = [events EXCEPT ![e] = row], UNCHANGED <<refunds, second>>
  PROVE  EventsInOrder'
<1>1. /\ DOMAIN events' = DOMAIN events
      /\ \A f \in DOMAIN events :
           /\ events'[f].refund = events[f].refund /\ events'[f].at = events[f].at
           /\ Last(f)' <=> Last(f)
  BY EventKept
<1> QED BY <1>1 DEF BInv, EventsInOrder

LEMMA HandlerKept ==
  ASSUME BInv, NEW e \in DOMAIN events, NEW row, Kept(e, row),
         events' = [events EXCEPT ![e] = row], UNCHANGED refunds, NEW h \in Handlers,
         \/ handlers'[h] = handlers[h]
         \/ handlers'[h].event = 0
         \/ /\ handlers'[h].event \in DOMAIN events
            /\ handlers'[h].seen = refunds[events[handlers'[h].event].refund].status
  PROVE  HandlerKnows(h)'
<1>1. PICK f : f = handlers'[h].event
  OBVIOUS
<1>2. CASE f = 0
  BY <1>1, <1>2 DEF HandlerKnows
<1>3. CASE f # 0
  <2>1. f \in DOMAIN events
    BY <1>1, <1>3, RowFacts
  <2>2. (Last(handlers[h].event))' <=> Last(f)'
    BY <1>1 DEF Last
  <2>3. Last(f)' <=> Last(f)
    BY <2>1, EventKept
  <2>4. events'[f].refund = events[f].refund
    BY <2>1, EventKept
  <2>5. /\ Last(f) => handlers'[h].seen = refunds[events[f].refund].status
        /\ handlers'[h].seen = "failed" => refunds[events[f].refund].status = "failed"
    BY <1>1, <1>3 DEF BInv, HandlerKnows
  <2> QED BY <1>1, <2>2, <2>3, <2>4, <2>5 DEF HandlerKnows
<1> QED BY <1>2, <1>3

LEMMA EventStep ==
  ASSUME BInv, NEW e \in DOMAIN events, NEW row, Kept(e, row),
         row.status \notin {"PROCESSED", "IGNORED_STALE"} \/ row.status = events[e].status,
         events' = [events EXCEPT ![e] = row],
         UNCHANGED <<requests, refunds, calls, second>>, faults' \in 0..MaxFaults,
         handlers' \in [Handlers -> [event : 0..Len(events), seen : ProviderStatus]],
         \A h \in Handlers :
           \/ handlers'[h] = handlers[h]
           \/ handlers'[h].event = 0
           \/ /\ handlers'[h].event \in DOMAIN events
              /\ handlers'[h].seen = refunds[events[handlers'[h].event].refund].status
  PROVE  BInv'
<1>1. /\ events' \in Seq(Event) /\ Len(events') = Len(events)
      /\ DOMAIN events' = DOMAIN events /\ events'[e] = row
      /\ \A f \in DOMAIN events \ {e} : events'[f] = events[f]
  BY EventKept
<1>2. \A f \in DOMAIN events :
        /\ events'[f].refund = events[f].refund /\ events'[f].at = events[f].at
        /\ Last(f)' <=> Last(f)
        /\ AloneInSecond(f)' <=> AloneInSecond(f)
        /\ events'[f].status \in {"PROCESSED", "IGNORED_STALE"} =>
             events'[f].status = events[f].status
  BY <1>1, EventKept
<1>3. RefundTypeOK'
  BY <1>1 DEF BInv, RefundTypeOK
<1>4. OneRefundEach' /\ RefundsAreOfTaken' /\ EndedHaveRefunds' /\ ProcessingHasRefund'
  BY DEF BInv, OneRefundEach, RefundsAreOfTaken, RequestOf, EndedHaveRefunds,
         ProcessingHasRefund, RefundsOf, Failed
<1>5. \A c \in Calls : CallKnows(c)'
  BY CallStays
<1>6. EventsInOrder'
  BY OrderKept
<1>7. \A h \in Handlers : HandlerKnows(h)'
  BY HandlerKept
<1>8. AppliedInOrder'
  <2>1. \A f \in DOMAIN events : RequestOf(events[f].refund)' = RequestOf(events[f].refund)
    BY <1>2 DEF RequestOf
  <2>2. \A f \in DOMAIN events' :
          /\ events'[f].status = "PROCESSED" =>
               events'[f].at <= RequestOf(events[f].refund)'.lastEvent
          /\ events'[f].status = "IGNORED_STALE" =>
               events'[f].at < RequestOf(events[f].refund)'.lastEvent
    BY <1>1, <1>2, <2>1 DEF BInv, AppliedInOrder
  <2>3. \A r \in Requests : requests[r].lastEvent # 0 =>
          /\ requests[r].lease = None
          /\ \E f \in DOMAIN events' : /\ refunds[events'[f].refund].request = r
                                       /\ events'[f].at = requests[r].lastEvent
    BY <1>1, <1>2 DEF BInv, AppliedInOrder
  <2> QED BY <2>2, <2>3 DEF AppliedInOrder, RequestOf
<1>9. LastSaysAll'
  BY <1>1, <1>2 DEF BInv, LastSaysAll, RequestOf
<1> QED BY <1>3, <1>4, <1>5, <1>6, <1>7, <1>8, <1>9 DEF BInv

LEMMA DeliverStep ==
  ASSUME BInv, NEW h \in Handlers, NEW e \in DOMAIN events, Deliver(h, e)
  PROVE  BInv'
<1> DEFINE row == [events[e] EXCEPT !.status = "PROCESSING", !.owner = h, !.lapsed = FALSE]
           handling == [event |-> e, seen |-> refunds[events[e].refund].status]
<1>1. /\ events' = [events EXCEPT ![e] = row]
      /\ handlers' = [handlers EXCEPT ![h] = handling]
      /\ UNCHANGED <<requests, refunds, calls, second, faults>>
  BY RowFacts DEF Deliver
<1>2. Kept(e, row) /\ row.status = "PROCESSING"
  BY RowFacts DEF Kept, Event
<1>3. /\ handling \in [event : 0..Len(events), seen : ProviderStatus]
      /\ handling.event = e /\ handling.seen = refunds[events[e].refund].status
  <2>1. refunds[events[e].refund].status \in ProviderStatus /\ e \in 0..Len(events)
    BY RowFacts DEF Refund
  <2> QED BY <2>1
<1> HIDE DEF row, handling
<1>4. handlers \in [Handlers -> [event : 0..Len(events), seen : ProviderStatus]]
  BY DEF BInv, RefundTypeOK
<1>5. /\ handlers' \in [Handlers -> [event : 0..Len(events), seen : ProviderStatus]]
      /\ handlers'[h] = handling /\ \A g \in Handlers \ {h} : handlers'[g] = handlers[g]
  BY <1>1, <1>3, <1>4
<1>6. \A g \in Handlers :
        \/ handlers'[g] = handlers[g]
        \/ handlers'[g].event = 0
        \/ /\ handlers'[g].event \in DOMAIN events
           /\ handlers'[g].seen = refunds[events[handlers'[g].event].refund].status
  BY <1>3, <1>5
<1> QED BY <1>1, <1>2, <1>5, <1>6, RowFacts, EventStep

LEMMA IdleHandler ==
  ASSUME BInv, NEW h \in Handlers, handlers' = [handlers EXCEPT ![h] = NoEvent]
  PROVE  /\ handlers' \in [Handlers -> [event : 0..Len(events), seen : ProviderStatus]]
         /\ \A g \in Handlers : handlers'[g] = handlers[g] \/ handlers'[g].event = 0
<1>1. NoEvent \in [event : 0..Len(events), seen : ProviderStatus] /\ NoEvent.event = 0
  BY RowFacts DEF NoEvent, ProviderStatus
<1>2. handlers \in [Handlers -> [event : 0..Len(events), seen : ProviderStatus]]
  BY DEF BInv, RefundTypeOK
<1> QED BY <1>1, <1>2

(* A delivery ends without writing the event.                               *)
LEMMA HandlerStep ==
  ASSUME BInv, NEW h \in Handlers, handlers' = [handlers EXCEPT ![h] = NoEvent],
         UNCHANGED <<requests, refunds, events, calls, second>>, faults' \in 0..MaxFaults
  PROVE  BInv'
<1>1. RefundTypeOK'
  BY IdleHandler DEF BInv, RefundTypeOK
<1>2. OneRefundEach' /\ RefundsAreOfTaken' /\ EndedHaveRefunds' /\ ProcessingHasRefund'
  BY DEF BInv, OneRefundEach, RefundsAreOfTaken, RequestOf, EndedHaveRefunds,
         ProcessingHasRefund, RefundsOf, Failed
<1>3. EventsInOrder' /\ AppliedInOrder' /\ LastSaysAll'
  BY DEF BInv, EventsInOrder, AppliedInOrder, LastSaysAll, Last, AloneInSecond, RequestOf
<1>4. \A c \in Calls : CallKnows(c)'
  BY CallStays
<1>5. \A g \in Handlers : HandlerKnows(g)'
  BY IdleHandler, ZenonT(60) DEF BInv, HandlerKnows, Last
<1> QED BY <1>1, <1>2, <1>3, <1>4, <1>5 DEF BInv

LEMMA HandlerFailsStep ==
  ASSUME BInv, NEW h \in Handlers, HandlerFails(h)
  PROVE  BInv'
<1>1. /\ handlers' = [handlers EXCEPT ![h] = NoEvent]
      /\ UNCHANGED <<requests, refunds, calls, second>>
  BY DEF HandlerFails
<1>2. PICK e \in DOMAIN events : e = handlers[h].event
  BY RowFacts DEF HandlerFails
<1>3. faults' \in 0..MaxFaults
  BY RowFacts, FaultCounted DEF HandlerFails
<1>4. CASE OwnsEvent(h)
  <2> DEFINE row == [events[e] EXCEPT !.status = "FAILED", !.owner = None, !.lapsed = FALSE]
  <2>1. events' = [events EXCEPT ![e] = row]
    BY <1>2, <1>4, RowFacts DEF HandlerFails, Finished
  <2>2. Kept(e, row) /\ row.status = "FAILED"
    BY RowFacts DEF Kept, Event
  <2> HIDE DEF row
  <2> QED BY <1>1, <1>3, <2>1, <2>2, IdleHandler, EventStep
<1>5. CASE ~OwnsEvent(h)
  <2>1. UNCHANGED events
    BY <1>5 DEF HandlerFails
  <2> QED BY <1>1, <1>3, <2>1, HandlerStep
<1> QED BY <1>4, <1>5

LEMMA HandlerDiesStep ==
  ASSUME BInv, NEW h \in Handlers, HandlerDies(h)
  PROVE  BInv'
<1>1. /\ handlers' = [handlers EXCEPT ![h] = NoEvent] /\ faults' \in 0..MaxFaults
      /\ UNCHANGED <<requests, refunds, events, calls, second>>
  BY FaultCounted DEF HandlerDies
<1> QED BY <1>1, HandlerStep

LEMMA EventLeaseLapsesStep ==
  ASSUME BInv, NEW e \in DOMAIN events, EventLeaseLapses(e)
  PROVE  BInv'
<1> DEFINE row == [events[e] EXCEPT !.lapsed = TRUE]
<1>1. /\ events' = [events EXCEPT ![e] = row] /\ faults' \in 0..MaxFaults
      /\ UNCHANGED <<requests, refunds, calls, handlers, second>>
  BY FaultCounted DEF EventLeaseLapses
<1>2. Kept(e, row) /\ row.status = events[e].status
  BY RowFacts DEF Kept, Event
<1> HIDE DEF row
<1>3. handlers' \in [Handlers -> [event : 0..Len(events), seen : ProviderStatus]]
  BY <1>1 DEF BInv, RefundTypeOK
<1> QED BY <1>1, <1>2, <1>3, EventStep

(* The answer of Stripe is applied, unless a newer one was.                 *)
LEMMA HandlerAppliesStep ==
  ASSUME BInv, NEW h \in Handlers, HandlerApplies(h)
  PROVE  BInv'
<1>1. PICK e \in DOMAIN events : e = handlers[h].event
  BY RowFacts DEF HandlerApplies, OwnsEvent
<1>2. PICK r \in Requests : r = refunds[events[e].refund].request
  BY RowFacts
<1>3. /\ handlers' = [handlers EXCEPT ![h] = NoEvent]
      /\ UNCHANGED <<refunds, calls, second, faults>>
      /\ events[e].status = "PROCESSING"
  BY <1>1 DEF HandlerApplies, OwnsEvent
<1>4. \/ /\ events' = Finished(e, "IGNORED_STALE") /\ Stale(r, e) /\ UNCHANGED requests
      \/ /\ events' = Finished(e, "PROCESSED") /\ ~Stale(r, e)
         /\ requests' = [requests EXCEPT
              ![r] = [@ EXCEPT !.status = refundStatusFromStripe(handlers[h].seen),
                               !.lease = None, !.lapsed = FALSE, !.lastEvent = events[e].at]]
  BY <1>1, <1>2 DEF HandlerApplies
<1>5. Stale(r, e) <=> events[e].at < requests[r].lastEvent
  BY RowFacts DEF Stale
<1>6. ASSUME NEW status \in {"PROCESSED", "IGNORED_STALE"}, events' = Finished(e, status)
      PROVE  /\ events' \in Seq(Event) /\ Len(events') = Len(events)
             /\ DOMAIN events' = DOMAIN events /\ events'[e].status = status
             /\ \A f \in DOMAIN events \ {e} : events'[f] = events[f]
             /\ \A f \in DOMAIN events :
                  /\ events'[f].refund = events[f].refund /\ events'[f].at = events[f].at
                  /\ Last(f)' <=> Last(f)
                  /\ AloneInSecond(f)' <=> AloneInSecond(f)
             /\ EventsInOrder' /\ \A g \in Handlers : HandlerKnows(g)'
  <2> DEFINE row == [events[e] EXCEPT !.status = status, !.owner = None, !.lapsed = FALSE]
  <2>1. events' = [events EXCEPT ![e] = row]
    BY <1>6, RowFacts DEF Finished
  <2>2. Kept(e, row) /\ row.status = status
    BY RowFacts, ZenonT(60) DEF Kept, Event
  <2> HIDE DEF row
  <2>3. EventsInOrder' /\ \A g \in Handlers : HandlerKnows(g)'
    BY <1>3, <2>1, <2>2, IdleHandler, OrderKept, HandlerKept
  <2> QED BY <1>3, <2>1, <2>2, <2>3, EventKept
<1>7. CASE events' = Finished(e, "IGNORED_STALE") /\ Stale(r, e) /\ UNCHANGED requests
  <2>1. /\ events' \in Seq(Event) /\ Len(events') = Len(events)
        /\ DOMAIN events' = DOMAIN events /\ events'[e].status = "IGNORED_STALE"
        /\ \A f \in DOMAIN events \ {e} : events'[f] = events[f]
        /\ \A f \in DOMAIN events :
             /\ events'[f].refund = events[f].refund /\ events'[f].at = events[f].at
             /\ Last(f)' <=> Last(f)
             /\ AloneInSecond(f)' <=> AloneInSecond(f)
        /\ EventsInOrder' /\ \A g \in Handlers : HandlerKnows(g)'
    BY <1>6, <1>7
  <2>2. RefundTypeOK'
    BY <1>3, <1>7, <2>1, IdleHandler DEF BInv, RefundTypeOK
  <2>3. OneRefundEach' /\ RefundsAreOfTaken' /\ EndedHaveRefunds' /\ ProcessingHasRefund'
    BY <1>3, <1>7 DEF BInv, OneRefundEach, RefundsAreOfTaken, RequestOf, EndedHaveRefunds,
           ProcessingHasRefund, RefundsOf, Failed
  <2>4. \A c \in Calls : CallKnows(c)'
    BY <1>3, <1>7, CallStays
  <2>5. AppliedInOrder'
    <3>1. \A f \in DOMAIN events : RequestOf(events[f].refund)' = RequestOf(events[f].refund)
      BY <1>3, <1>7, <2>1 DEF RequestOf
    <3>2. events[e].at < RequestOf(events[e].refund).lastEvent
      BY <1>2, <1>5, <1>7 DEF RequestOf
    <3>3. \A f \in DOMAIN events' :
            /\ events'[f].status = "PROCESSED" =>
                 events'[f].at <= RequestOf(events[f].refund)'.lastEvent
            /\ events'[f].status = "IGNORED_STALE" =>
                 events'[f].at < RequestOf(events[f].refund)'.lastEvent
      BY <2>1, <3>1, <3>2 DEF BInv, AppliedInOrder
    <3>4. \A q \in Requests : requests[q].lastEvent # 0 =>
            /\ requests[q].lease = None
            /\ \E f \in DOMAIN events' : /\ refunds[events'[f].refund].request = q
                                         /\ events'[f].at = requests[q].lastEvent
      BY <2>1 DEF BInv, AppliedInOrder
    <3> QED BY <1>3, <1>7, <3>3, <3>4 DEF AppliedInOrder, RequestOf
  <2>6. LastSaysAll'
    BY <1>3, <1>7, <2>1 DEF BInv, LastSaysAll, RequestOf
  <2> QED BY <2>1, <2>2, <2>3, <2>4, <2>5, <2>6 DEF BInv
<1>8. CASE /\ events' = Finished(e, "PROCESSED") /\ ~Stale(r, e)
           /\ requests' = [requests EXCEPT
                ![r] = [@ EXCEPT !.status = refundStatusFromStripe(handlers[h].seen),
                                 !.lease = None, !.lapsed = FALSE, !.lastEvent = events[e].at]]
  <2>1. /\ events' \in Seq(Event) /\ Len(events') = Len(events)
        /\ DOMAIN events' = DOMAIN events /\ events'[e].status = "PROCESSED"
        /\ \A f \in DOMAIN events \ {e} : events'[f] = events[f]
        /\ \A f \in DOMAIN events :
             /\ events'[f].refund = events[f].refund /\ events'[f].at = events[f].at
             /\ Last(f)' <=> Last(f)
             /\ AloneInSecond(f)' <=> AloneInSecond(f)
        /\ EventsInOrder' /\ \A g \in Handlers : HandlerKnows(g)'
    BY <1>6, <1>8
  <2> DEFINE status == refundStatusFromStripe(handlers[h].seen)
             row == [requests[r] EXCEPT !.status = status, !.lease = None, !.lapsed = FALSE,
                                        !.lastEvent = events[e].at]
  <2>2. requests' = [requests EXCEPT ![r] = row]
    BY <1>8
  <2>3. status \in Taken /\ (status = "FAILED" => handlers[h].seen = "failed")
    BY RowFacts DEF refundStatusFromStripe, Taken, ProviderStatus
  <2>4. handlers[h].event # 0
    BY DEF HandlerApplies, OwnsEvent
  <2>5. /\ Last(e) => status = refundStatusFromStripe(refunds[events[e].refund].status)
        /\ status = "FAILED" => refunds[events[e].refund].status = "failed"
    BY <1>1, <2>3, <2>4 DEF BInv, HandlerKnows
  <2> HIDE DEF status
  <2>6. /\ row \in Request /\ row.status = status /\ row.lease = None
        /\ row.lastEvent = events[e].at
    BY <2>3, RowFacts, ZenonT(60) DEF Request, Active, Taken
  <2> HIDE DEF row
  <2>7. /\ requests' \in [Requests -> Request] /\ requests'[r] = row
        /\ \A q \in Requests \ {r} : requests'[q] = requests[q]
    BY <2>2, <2>6, RowFacts
  <2>8. PICK i \in DOMAIN refunds : i = events[e].refund /\ refunds[i].request = r
    BY <1>2, RowFacts
  <2>9. \A j \in DOMAIN refunds : refunds[j].request = r => j = i
    BY <2>8 DEF BInv, OneRefundEach
  <2>10. RefundsOf(r) # {} /\ (status = "FAILED" => Failed(r))
    BY <2>5, <2>8, <2>9 DEF RefundsOf, Failed
  <2>11. \A q \in Requests : RefundsOf(q)' = RefundsOf(q) /\ (Failed(q)' <=> Failed(q))
    BY <1>3 DEF RefundsOf, Failed
  <2>12. RefundTypeOK'
    <3>1. \A q \in Requests : requests'[q].lease # None => requests'[q].status = "PROCESSING"
      BY <2>6, <2>7 DEF BInv, RefundTypeOK
    <3> QED BY <1>3, <2>1, <2>7, <3>1, IdleHandler DEF BInv, RefundTypeOK
  <2>13. OneRefundEach' /\ RefundsAreOfTaken'
    BY <1>3, <2>3, <2>6, <2>7, RowFacts DEF BInv, OneRefundEach, RefundsAreOfTaken, RequestOf
  <2>14. EndedHaveRefunds' /\ ProcessingHasRefund'
    BY <2>6, <2>7, <2>10, <2>11 DEF BInv, EndedHaveRefunds, ProcessingHasRefund
  <2>15. ASSUME NEW c \in Calls PROVE CallKnows(c)'
    <3>1. CallKnows(c) /\ calls'[c] = calls[c]
      BY <1>3 DEF BInv
    <3> QED BY <2>3, <2>6, <2>7, <2>11, <3>1 DEF CallKnows
  \* The event that is applied becomes the last: it was not behind it before.
  <2>16. requests[r].lastEvent <= events[e].at
    BY <1>5, <1>8, RowFacts
  <2>17. AppliedInOrder'
    <3>1. ASSUME NEW f \in DOMAIN events, events[f].refund = i
          PROVE  /\ RequestOf(events[f].refund) = requests[r]
                 /\ RequestOf(events[f].refund)' = row
      BY <1>3, <2>1, <2>7, <2>8, <3>1 DEF RequestOf
    <3>2. ASSUME NEW f \in DOMAIN events, events[f].refund # i
          PROVE  /\ RequestOf(events[f].refund)' = RequestOf(events[f].refund)
                 /\ events'[f] = events[f]
      BY <1>3, <2>1, <2>7, <2>8, <2>9, <3>2, RowFacts DEF RequestOf
    <3>3. ASSUME NEW f \in DOMAIN events
          PROVE  /\ events'[f].status = "PROCESSED" =>
                      events'[f].at <= RequestOf(events[f].refund)'.lastEvent
                 /\ events'[f].status = "IGNORED_STALE" =>
                      events'[f].at < RequestOf(events[f].refund)'.lastEvent
      <4>1. /\ events[f].status = "PROCESSED" =>
                 events[f].at <= RequestOf(events[f].refund).lastEvent
            /\ events[f].status = "IGNORED_STALE" =>
                 events[f].at < RequestOf(events[f].refund).lastEvent
        BY DEF BInv, AppliedInOrder
      <4>2. CASE events[f].refund # i
        BY <3>2, <4>1, <4>2
      <4>3. CASE f = e
        BY <2>1, <2>6, <2>8, <3>1, <4>3, RowFacts
      <4>4. CASE f # e /\ events[f].refund = i
        BY <2>1, <2>6, <2>16, <3>1, <4>1, <4>4, RowFacts
      <4> QED BY <4>2, <4>3, <4>4
    <3>4. ASSUME NEW q \in Requests, requests'[q].lastEvent # 0
          PROVE  /\ requests'[q].lease = None
                 /\ \E f \in DOMAIN events' : /\ refunds'[events'[f].refund].request = q
                                              /\ events'[f].at = requests'[q].lastEvent
      <4>1. CASE q = r
        BY <1>2, <1>3, <2>1, <2>6, <2>7, <4>1
      <4>2. CASE q # r
        <5>1. /\ requests[q].lease = None
              /\ \E f \in DOMAIN events : /\ refunds[events[f].refund].request = q
                                          /\ events[f].at = requests[q].lastEvent
          BY <2>7, <3>4, <4>2 DEF BInv, AppliedInOrder
        <5> QED BY <1>3, <2>1, <2>7, <4>2, <5>1
      <4> QED BY <4>1, <4>2
    <3> QED BY <2>1, <3>3, <3>4 DEF AppliedInOrder, RequestOf
  <2>18. LastSaysAll'
    <3> SUFFICES ASSUME NEW f \in DOMAIN events, events'[f].status = "PROCESSED", Last(f),
                        AloneInSecond(f)
                 PROVE  RequestOf(events[f].refund)'.status
                          = refundStatusFromStripe(refunds[events[f].refund].status)
      BY <1>3, <2>1 DEF LastSaysAll, RequestOf
    <3>1. CASE f = e
      BY <1>3, <2>1, <2>5, <2>6, <2>7, <2>8, <3>1 DEF RequestOf
    \* An event that is not the newest is behind it, and so would be stale.
    <3>2. CASE f # e /\ events[f].refund = i
      <4>1. e \in Nat /\ f \in Nat /\ e <= f
        BY <2>8, <3>2, RowFacts DEF Last
      <4>2. events[e].at <= events[f].at /\ events[e].at # events[f].at
        BY <2>8, <3>2, <4>1 DEF BInv, EventsInOrder, AloneInSecond
      <4>3. events[f].at <= requests[r].lastEvent
        BY <2>1, <2>8, <3>2 DEF BInv, AppliedInOrder, RequestOf
      <4> QED BY <2>16, <4>2, <4>3, RowFacts
    <3>3. CASE events[f].refund # i
      <4>1. /\ events'[f] = events[f]
            /\ RequestOf(events[f].refund)' = RequestOf(events[f].refund)
        BY <1>3, <2>1, <2>7, <2>8, <2>9, <3>3, RowFacts DEF RequestOf
      <4> QED BY <4>1 DEF BInv, LastSaysAll
    <3> QED BY <3>1, <3>2, <3>3
  <2> QED BY <2>1, <2>12, <2>13, <2>14, <2>15, <2>17, <2>18 DEF BInv
<1> QED BY <1>4, <1>7, <1>8

LEMMA StepBInv == BInv /\ [RefundNext]_refundVars => BInv'
<1> SUFFICES ASSUME BInv, [RefundNext]_refundVars PROVE BInv'
  OBVIOUS
<1>1. ASSUME NEW r \in Requests,
             \/ \E amount \in 1..Paid : RequestRefund(r, amount) \/ Approve(r, amount)
             \/ StartReview(r) \/ Reject(r)
      PROVE  BInv'
  BY <1>1, RequestReviewSteps
<1>2. ASSUME NEW r \in Requests, LeaseLapses(r) PROVE BInv'
  BY <1>2, LeaseLapsesStep
<1>3. ASSUME NEW r \in Requests, NEW c \in Calls, ExecuteClaims(c, r) PROVE BInv'
  BY <1>3, ExecuteClaimsStep
<1>4. ASSUME NEW c \in Calls, ExecuteLists(c) \/ ExecuteCreates(c) \/ ExecuteRecords(c)
      PROVE  BInv'
  BY <1>4, ExecuteListsStep, ExecuteCreatesStep, ExecuteRecordsStep
<1>5. ASSUME NEW c \in Calls, ExecuteFails(c) \/ CallDies(c) PROVE BInv'
  BY <1>5, LostCallSteps
<1>6. ASSUME NEW i \in DOMAIN refunds, NEW status \in ProviderStatus, Settles(i, status)
      PROVE  BInv'
  BY <1>6, SettlesStep
<1>7. CASE Tick
  BY <1>7, TickStep
<1>8. ASSUME NEW e \in DOMAIN events, EventLeaseLapses(e) PROVE BInv'
  BY <1>8, EventLeaseLapsesStep
<1>9. ASSUME NEW e \in DOMAIN events, NEW h \in Handlers, Deliver(h, e) PROVE BInv'
  BY <1>9, DeliverStep
<1>10. ASSUME NEW h \in Handlers, HandlerApplies(h) \/ HandlerFails(h) \/ HandlerDies(h)
       PROVE  BInv'
  BY <1>10, HandlerAppliesStep, HandlerFailsStep, HandlerDiesStep
<1>11. CASE UNCHANGED refundVars
  <2>1. UNCHANGED <<requests, refunds, events, calls, handlers, second, faults>>
    BY <1>11 DEF refundVars
  <2> QED BY <2>1, RowFacts, CallStays, CallStep
<1>12. CASE RefundNext
  BY <1>1, <1>2, <1>3, <1>4, <1>5, <1>6, <1>7, <1>8, <1>9, <1>10, <1>12 DEF RefundNext
<1> QED BY <1>11, <1>12

-----------------------------------------------------------------------------
(* The theorems about the refunds.                                          *)

(* The invariant holds in every reachable state: what executions and        *)
(* deliveries hold of Stripe's answers stays good enough to be written.     *)
THEOREM RefundInvariant == RefundSpec => []BInv
<1>1. BInv /\ [RefundNext]_refundVars => BInv'
  BY StepBInv
<1> QED BY InitBInv, <1>1, PTL DEF RefundSpec

(* Requests, refunds, events, executions and deliveries keep their types,   *)
(* and a lease is held only while a request is processed.                   *)
THEOREM RefundTypes == RefundSpec => []RefundTypeOK
<1>1. BInv => RefundTypeOK
  BY DEF BInv
<1> QED BY RefundInvariant, <1>1, PTL

(* A rejected request, or one shown as failed, has no refund that stands at *)
(* Stripe, however executions overlap, die and are taken over.              *)
THEOREM RejectedMeansNotRefunded == RefundSpec => []RejectedIsNotRefunded
<1>1. ASSUME BInv PROVE RejectedIsNotRefunded
  <2>1. ASSUME NEW r \in Requests, requests[r].status = "REJECTED", NEW i \in RefundsOf(r)
        PROVE  FALSE
    BY <1>1, <2>1 DEF BInv, RefundsAreOfTaken, RequestOf, RefundsOf, Taken
  <2>2. ASSUME NEW r \in Requests, requests[r].status = "FAILED", NEW i \in RefundsOf(r)
        PROVE  refunds[i].status = "failed"
    BY <1>1, <2>2 DEF BInv, EndedHaveRefunds, Failed
  <2> QED BY <2>1, <2>2 DEF RejectedIsNotRefunded
<1> QED BY RefundInvariant, <1>1, PTL

(* The newest event of a refund, alone in its second, is the last one made. *)
LEMMA NewestIsLast ==
  ASSUME BInv, NEW e \in DOMAIN events, Newest(e)
  PROVE  Last(e) /\ AloneInSecond(e)
<1>1. \A f \in DOMAIN events : f \in Nat /\ events[f].at \in Nat
  BY RowFacts
<1>2. \A f \in DOMAIN events : e <= f => events[e].at <= events[f].at
  BY DEF BInv, EventsInOrder
<1>3. ASSUME NEW f \in DOMAIN events, f # e, events[f].refund = events[e].refund
      PROVE  events[f].at # events[e].at /\ ~ (f > e)
  <2>1. events[f].at < events[e].at
    BY <1>3 DEF Newest
  <2> QED BY <1>1, <1>2, <2>1
<1>4. \A f \in DOMAIN events : f > e => f # e
  BY <1>1
<1> QED BY <1>3, <1>4 DEF Last, AloneInSecond

(* The newest event is never stale: all that was applied is older.          *)
LEMMA NewestIsNotStale ==
  ASSUME BInv, NEW e \in DOMAIN events, Last(e)
  PROVE  events[e].status # "IGNORED_STALE"
<1> SUFFICES ASSUME events[e].status = "IGNORED_STALE" PROVE FALSE
  OBVIOUS
<1> DEFINE i == events[e].refund
<1>1. PICK r \in Requests : r = refunds[i].request
  BY RowFacts DEF BInv, EventsInOrder
<1>2. events[e].at < requests[r].lastEvent
  BY <1>1 DEF BInv, AppliedInOrder, RequestOf
<1>3. requests[r].lastEvent # 0
  BY <1>1, <1>2, RowFacts
<1>4. PICK f \in DOMAIN events :
        refunds[events[f].refund].request = r /\ events[f].at = requests[r].lastEvent
  BY <1>3 DEF BInv, AppliedInOrder
<1>5. events[f].refund = i
  <2>1. i \in DOMAIN refunds /\ events[f].refund \in DOMAIN refunds
    BY RowFacts
  <2> QED BY <1>1, <1>4, <2>1 DEF BInv, OneRefundEach
<1>6. e \in Nat /\ f \in Nat /\ f <= e
  BY <1>5, RowFacts DEF Last
<1>7. events[f].at <= events[e].at
  BY <1>6 DEF BInv, EventsInOrder
<1> QED BY <1>1, <1>2, <1>4, <1>7, RowFacts

(* Once the newest event of a refund is handled the request says what       *)
(* Stripe says, whatever older reads are still held by deliveries and       *)
(* executions.  An event that shares its second with another one of its     *)
(* refund is not the newest of them.                                        *)
THEOREM HandledMeansAgreed == RefundSpec => []SettledAgrees
<1>1. ASSUME BInv PROVE SettledAgrees
  <2> SUFFICES ASSUME NEW e \in DOMAIN events, Newest(e), Handled(e)
               PROVE  requests[refunds[events[e].refund].request].status
                        = refundStatusFromStripe(refunds[events[e].refund].status)
    BY DEF SettledAgrees
  <2>1. Last(e) /\ AloneInSecond(e)
    BY <1>1, NewestIsLast
  <2>2. events[e].status = "PROCESSED"
    BY <1>1, <2>1, NewestIsNotStale DEF Handled
  <2> QED BY <1>1, <2>1, <2>2 DEF BInv, LastSaysAll, RequestOf
<1> QED BY RefundInvariant, <1>1, PTL

(* A request in processing that no execution holds has a refund at Stripe,  *)
(* and unless Stripe made its newest events in one second, that refund is   *)
(* still pending there or its newest event is still to be handled.          *)
THEOREM ProcessingIsNeverStranded == RefundSpec => []ProcessingCanGoOn
<1>1. ASSUME BInv, SettledAgrees PROVE ProcessingCanGoOn
  <2> SUFFICES ASSUME NEW r \in Requests,
                      requests[r].status = "PROCESSING", requests[r].lease = None
               PROVE  /\ RefundsOf(r) # {}
                      /\ \A i \in RefundsOf(r), e \in DOMAIN events :
                           events[e].refund = i /\ Newest(e)
                             => refunds[i].status = "pending" \/ ~Handled(e)
    BY DEF ProcessingCanGoOn
  <2>1. RefundsOf(r) # {}
    BY <1>1 DEF BInv, ProcessingHasRefund
  <2>2. ASSUME NEW i \in RefundsOf(r), NEW e \in DOMAIN events,
               events[e].refund = i, Newest(e), Handled(e)
        PROVE  refunds[i].status = "pending"
    <3>1. i \in DOMAIN refunds /\ refunds[i].request = r
      BY <2>2 DEF RefundsOf
    <3>2. refundStatusFromStripe(refunds[i].status) = "PROCESSING"
      BY <1>1, <2>2, <3>1 DEF SettledAgrees
    <3>3. refunds[i].status \in ProviderStatus
      <4>1. refunds[i] \in Refund
        BY <1>1, <3>1, RowFacts
      <4> QED BY <4>1 DEF Refund
    <3> QED BY <3>2, <3>3 DEF refundStatusFromStripe, ProviderStatus
  <2> QED BY <2>1, <2>2
<1> QED BY RefundInvariant, HandledMeansAgreed, <1>1, PTL

-----------------------------------------------------------------------------
(* The money: sums over the rows of requests and of refunds.               *)

\* The sum of the amounts of some rows, of requests or of refunds.
AmountsOf(rows, S) == MapThenSumSet(LAMBDA i : rows[i].amount, S)

\* That sum is one of those of FoldFacts.
AmountsIter(it, rows, S) ==
  it = [s \in SUBSET S |-> IF s = {} THEN 0 ELSE rows[Pick(s)].amount + it[s \ {Pick(s)}]]

LEMMA AmountsAreSum ==
  ASSUME NEW rows, NEW S, IsFiniteSet(S)
  PROVE  AmountsOf(rows, S) = SumOver([i \in S |-> rows[i].amount], S)
<1> DEFINE F == [i \in S |-> rows[i].amount]
           g == CHOOSE it : AmountsIter(it, rows, S)
<1>1. AmountsOf(rows, S) = g[S]
  BY DEF AmountsOf, MapThenSumSet, MapThenFoldSet, AmountsIter, Pick
<1>2. ASSUME NEW it
      PROVE  AmountsIter(it, rows, S) <=> Adds(it, F, S)
  <2>1. \A s \in SUBSET S : s # {} => F[Pick(s)] = rows[Pick(s)].amount
    BY PickIsOne
  <2> HIDE DEF F
  <2>2. [s \in SUBSET S |-> IF s = {} THEN 0 ELSE rows[Pick(s)].amount + it[s \ {Pick(s)}]]
          = [s \in SUBSET S |-> IF s = {} THEN 0 ELSE F[Pick(s)] + it[s \ {Pick(s)}]]
    BY <2>1
  <2>3. QED
    BY <2>2 DEF AmountsIter, Adds
<1> HIDE DEF F
<1>3. AmountsIter(g, rows, S)
  <2>1. \E it : AmountsIter(it, rows, S)
    BY <1>2, SumExists
  <2>2. QED
    BY <2>1
<1> HIDE DEF g
<1>4. g[S] = SumOver(F, S)
  <2>1. Adds(g, F, S) /\ S \in SUBSET S
    BY <1>2, <1>3
  <2>2. QED
    BY <2>1, SumWithin
<1>5. QED
  BY <1>1, <1>4 DEF F

\* More rows, each with the same amount or none taken away, sum to no less.
LEMMA FewerAmounts ==
  ASSUME NEW S, IsFiniteSet(S), NEW T \in SUBSET S, NEW rows, NEW next,
         \A i \in S : rows[i].amount \in Nat, \A i \in T : next[i].amount = rows[i].amount
  PROVE  /\ AmountsOf(next, T) <= AmountsOf(rows, S)
         /\ AmountsOf(rows, S) \in Int /\ AmountsOf(next, T) \in Int
<1> DEFINE F == [i \in S |-> rows[i].amount]
           G == [i \in T |-> next[i].amount]
<1>1. IsFiniteSet(T)
  BY FS_Subset
<1>2. \A i \in S : F[i] \in Nat
  OBVIOUS
<1>3. AgreeOn(F, G, T)
  BY DEF AgreeOn
<1>4. AmountsOf(rows, S) = SumOver(F, S) /\ AmountsOf(next, T) = SumOver(G, T)
  BY <1>1, AmountsAreSum
<1> HIDE DEF F, G
<1>5. SumOver(F, T) = SumOver(G, T)
  BY <1>1, <1>3, SumOfSame
<1>6. QED
  BY <1>2, <1>4, <1>5, SumOfFewer

\* One row more.
LEMMA OneMoreAmount ==
  ASSUME NEW S, IsFiniteSet(S), NEW x, x \notin S, NEW rows,
         \A i \in S \cup {x} : rows[i].amount \in Nat
  PROVE  AmountsOf(rows, S \cup {x}) = AmountsOf(rows, S) + rows[x].amount
<1> DEFINE T == S \cup {x}
           F == [i \in T |-> rows[i].amount]
           G == [i \in S |-> rows[i].amount]
<1>1. IsFiniteSet(T)
  BY FS_AddElement
<1>2. (\A i \in S \cup {x} : F[i] \in Int) /\ F[x] = rows[x].amount
  OBVIOUS
<1>3. AgreeOn(F, G, S)
  BY DEF AgreeOn
<1>4. AmountsOf(rows, T) = SumOver(F, T) /\ AmountsOf(rows, S) = SumOver(G, S)
  BY <1>1, AmountsAreSum
<1> HIDE DEF F, G
<1>5. SumOver(F, S) = SumOver(G, S)
  BY <1>3, SumOfSame
<1>6. SumOver(F, S \cup {x}) = SumOver(F, S) + F[x]
  BY <1>2, SumOfMore
<1>7. QED
  BY <1>2, <1>4, <1>5, <1>6

-----------------------------------------------------------------------------
\* The requests that took money or still may: committed, and not one whose refund
\* has failed at Stripe, even if a late event shows it as refunded.
Standing == {r \in Requests : /\ requests[r].status \in Committed
                              /\ ~(RefundsOf(r) # {} /\ Failed(r))}

\* The requests that were made: finitely many, whatever the constants.
Made == {r \in Requests : requests[r].status # "NONE"}

\* An amount is not changed any more once a refund was created with it.
RefundedAsApproved == \A i \in DOMAIN refunds : refunds[i].amount = RequestOf(i).amount

StandingWithinPaid == AmountsOf(requests, Standing) <= Paid

MoneyInv == IsFiniteSet(Made) /\ RefundedAsApproved /\ StandingWithinPaid

\* What BInv says of the rows that the sums are over.
LEMMA MoneyFacts ==
  ASSUME BInv
  PROVE  /\ Paid \in Nat /\ \A r \in Requests : requests[r].amount \in Nat
         /\ Standing \subseteq Made
         /\ \A r \in Requests : RefundsOf(r) # {} => requests[r].status \in Taken
         /\ \A r \in Requests : RefundsOf(r) # {} /\ requests[r].status = "FAILED" => Failed(r)
<1>1. Paid \in Nat
  BY RefundAssumption
<1>2. \A r \in Requests : requests[r].amount \in Nat
  BY <1>1, RowFacts DEF Request
<1>3. Standing \subseteq Made
  BY DEF Standing, Made, Committed
<1>4. QED
  BY <1>1, <1>2, <1>3, RowFacts
     DEF BInv, RefundsAreOfTaken, EndedHaveRefunds, RequestOf, RefundsOf

\* A step that makes no request, changes no amount and lets no more of them stand.
LEMMA NoMoreStands ==
  ASSUME BInv, MoneyInv, IsFiniteSet(Made'), RefundedAsApproved',
         Standing' \subseteq Standing,
         \A r \in Standing' : requests'[r].amount = requests[r].amount
  PROVE  MoneyInv'
<1>1. IsFiniteSet(Made) /\ IsFiniteSet(Standing)
  BY MoneyFacts, FS_Subset DEF MoneyInv
<1>2. IsFiniteSet(Made')
  OBVIOUS
<1>3. /\ AmountsOf(requests', Standing') <= AmountsOf(requests, Standing)
      /\ AmountsOf(requests, Standing) \in Int /\ AmountsOf(requests', Standing') \in Int
  <2> DEFINE S == Standing
             T == Standing'
             next == requests'
  <2>1. T \in SUBSET S /\ IsFiniteSet(S) /\ (\A i \in S : requests[i].amount \in Nat)
    BY <1>1, MoneyFacts DEF Standing
  <2>2. \A i \in T : next[i].amount = requests[i].amount
    OBVIOUS
  <2> HIDE DEF S, T, next
  <2>3. /\ AmountsOf(next, T) <= AmountsOf(requests, S)
        /\ AmountsOf(requests, S) \in Int /\ AmountsOf(next, T) \in Int
    BY <2>1, <2>2, FewerAmounts
  <2>4. QED
    BY <2>3 DEF S, T, next
<1>4. AmountsOf(requests, Standing)' = AmountsOf(requests', Standing')
  OBVIOUS
<1>5. AmountsOf(requests', Standing') <= Paid
  BY <1>3, MoneyFacts DEF MoneyInv, StandingWithinPaid
<1>6. QED
  BY <1>2, <1>4, <1>5 DEF MoneyInv, StandingWithinPaid

\* A step that leaves the requests and the refunds as they are.
LEMMA NothingPaid ==
  ASSUME BInv, MoneyInv, UNCHANGED <<requests, refunds>>
  PROVE  MoneyInv'
<1>1. Made' = Made /\ Standing' = Standing /\ RefundedAsApproved'
  BY DEF Made, Standing, RefundsOf, Failed, MoneyInv, RefundedAsApproved, RequestOf
<1>2. IsFiniteSet(Made)
  BY DEF MoneyInv
<1>3. QED
  BY <1>1, <1>2, NoMoreStands

\* A step that writes one request: its amount only before it is taken, and it
\* stands only if it did, or if there was enough left.
LEMMA OneRequestWritten ==
  ASSUME BInv, MoneyInv, NEW r \in Requests, NEW row, UNCHANGED refunds,
         requests' = [requests EXCEPT ![r] = row],
         requests[r].status # "NONE" \/ row.status = "NONE",
         row.amount = requests[r].amount \/ RefundsOf(r) = {},
         \/ row.status \notin Committed
         \/ RefundsOf(r) # {} /\ Failed(r)
         \/ requests[r].status \in Committed /\ row.amount = requests[r].amount
  PROVE  MoneyInv'
<1>1. requests'[r] = row /\ \A q \in Requests \ {r} : requests'[q] = requests[q]
  BY RowFacts
<1>2. \A q \in Requests : RefundsOf(q)' = RefundsOf(q) /\ (Failed(q)' <=> Failed(q))
  BY DEF RefundsOf, Failed
<1>3. IsFiniteSet(Made')
  <2>1. Made' \subseteq Made
    BY <1>1 DEF Made
  <2>2. QED
    BY <2>1, FS_Subset DEF MoneyInv
<1>4. RefundedAsApproved'
  BY <1>1, RowFacts DEF MoneyInv, RefundedAsApproved, RequestOf, RefundsOf
<1>5. Standing' \subseteq Standing /\ \A q \in Standing' : requests'[q].amount = requests[q].amount
  BY <1>1, <1>2 DEF Standing
<1>6. QED
  BY <1>3, <1>4, <1>5, NoMoreStands

\* A request is made: it does not stand before it is approved.
LEMMA RequestRefundPays ==
  ASSUME BInv, MoneyInv, NEW r \in Requests, NEW amount \in 1..Paid, RequestRefund(r, amount)
  PROVE  MoneyInv'
<1> DEFINE row == [requests[r] EXCEPT !.status = "REQUESTED", !.amount = amount]
<1>1. requests' = [requests EXCEPT ![r] = row] /\ UNCHANGED refunds /\ requests[r].status = "NONE"
  BY RowFacts DEF RequestRefund
<1>2. row.status = "REQUESTED" /\ RefundsOf(r) = {}
  BY <1>1, Unclaimed, RowFacts, ZenonT(60) DEF Request, Taken
<1> HIDE DEF row
<1>3. requests'[r] = row /\ \A q \in Requests \ {r} : requests'[q] = requests[q]
  BY <1>1, RowFacts
<1>4. \A q \in Requests : RefundsOf(q)' = RefundsOf(q) /\ (Failed(q)' <=> Failed(q))
  BY <1>1 DEF RefundsOf, Failed
<1>5. Standing' \subseteq Standing /\ \A q \in Standing' : requests'[q].amount = requests[q].amount
  BY <1>2, <1>3, <1>4 DEF Standing, Committed
<1>6. RefundedAsApproved'
  BY <1>1, <1>2, <1>3, RowFacts DEF MoneyInv, RefundedAsApproved, RequestOf, RefundsOf
<1>7. IsFiniteSet(Made')
  <2>1. Made' \subseteq Made \cup {r}
    BY <1>3 DEF Made
  <2>2. IsFiniteSet(Made \cup {r})
    BY FS_AddElement DEF MoneyInv
  <2>3. QED
    BY <2>1, <2>2, FS_Subset
<1>8. QED
  BY <1>5, <1>6, <1>7, NoMoreStands

\* An approval counts the requests that are committed; those that stand are among
\* them, so the amount it adds fits.
LEMMA ApprovePays ==
  ASSUME BInv, MoneyInv, NEW r \in Requests, NEW amount \in 1..Paid, Approve(r, amount)
  PROVE  MoneyInv'
<1> DEFINE row == [requests[r] EXCEPT !.status = "APPROVED", !.amount = amount]
           others == {q \in Requests \ {r} : requests[q].status \in Committed}
           standing == Standing' \ {r}
           next == requests'
<1>1. /\ next = [requests EXCEPT ![r] = row] /\ UNCHANGED refunds
      /\ requests[r].status \in {"REQUESTED", "UNDER_REVIEW"}
      /\ amount + CommittedByOthers(r) <= Paid
  BY RowFacts DEF Approve
<1>2. row.status = "APPROVED" /\ row.amount = amount /\ RefundsOf(r) = {}
  BY <1>1, Unclaimed, RowFacts, ZenonT(60) DEF Request, Taken
<1> HIDE DEF row
<1>3. next[r] = row /\ \A q \in Requests \ {r} : next[q] = requests[q]
  BY <1>1, RowFacts
<1>4. \A q \in Requests : RefundsOf(q)' = RefundsOf(q) /\ (Failed(q)' <=> Failed(q))
  BY <1>1 DEF RefundsOf, Failed
<1>5. RefundedAsApproved'
  BY <1>1, <1>2, <1>3, RowFacts DEF MoneyInv, RefundedAsApproved, RequestOf, RefundsOf
<1>6. Made' = Made /\ others \subseteq Made /\ standing \subseteq others
  BY <1>1, <1>2, <1>3, <1>4 DEF Made, Standing, Committed
<1>7. Standing' = standing \cup {r}
  BY <1>2, <1>3, <1>4 DEF Standing, Committed
<1>8. IsFiniteSet(others) /\ IsFiniteSet(standing) /\ IsFiniteSet(Made')
  BY <1>6, FS_Subset DEF MoneyInv
<1>9. CommittedByOthers(r) = AmountsOf(requests, others)
  BY DEF CommittedByOthers, AmountsOf
<1>10. /\ \A q \in others : requests[q].amount \in Nat
       /\ \A q \in standing : next[q].amount = requests[q].amount
       /\ \A q \in standing \cup {r} : next[q].amount \in Nat
       /\ next[r].amount = amount /\ amount \in Nat /\ Paid \in Nat
  BY <1>2, <1>3, <1>6, MoneyFacts
<1>11. standing \in SUBSET others /\ r \notin standing
  BY <1>6
<1> HIDE DEF others, standing, next
<1>12. /\ AmountsOf(next, standing) <= AmountsOf(requests, others)
       /\ AmountsOf(requests, others) \in Int /\ AmountsOf(next, standing) \in Int
  BY <1>8, <1>10, <1>11, FewerAmounts
<1>13. AmountsOf(next, standing \cup {r}) = AmountsOf(next, standing) + next[r].amount
  BY <1>8, <1>10, <1>11, OneMoreAmount
<1>14. AmountsOf(next, standing \cup {r}) <= Paid
  BY <1>1, <1>9, <1>10, <1>12, <1>13
<1>15. StandingWithinPaid'
  BY <1>7, <1>14 DEF StandingWithinPaid, next
<1>16. QED
  BY <1>5, <1>8, <1>15 DEF MoneyInv

\* A review and a rejection, which frees what was approved.
LEMMA ReviewPays ==
  ASSUME BInv, MoneyInv, NEW r \in Requests, StartReview(r) \/ Reject(r)
  PROVE  MoneyInv'
<1>1. PICK status \in {"UNDER_REVIEW", "REJECTED"} :
        requests' = [requests EXCEPT ![r].status = status] /\ UNCHANGED refunds
  BY DEF StartReview, Reject
<1> DEFINE row == [requests[r] EXCEPT !.status = status]
<1>2. requests' = [requests EXCEPT ![r] = row]
  BY <1>1
<1>3. row.status \notin Committed /\ row.amount = requests[r].amount
  BY <1>1, RowFacts DEF Request, Committed
<1>4. requests[r].status # "NONE"
  BY DEF StartReview, Reject, Rejectable
<1> HIDE DEF row
<1>5. QED
  BY <1>1, <1>2, <1>3, <1>4, OneRequestWritten

\* An execution claims a request, and records what Stripe answered.
LEMMA ExecutionPays ==
  ASSUME BInv, MoneyInv, NEW c \in Calls,
         \/ \E r \in Requests : ExecuteClaims(c, r)
         \/ ExecuteRecords(c) \/ ExecuteFails(c)
  PROVE  MoneyInv'
<1>1. CASE UNCHANGED <<requests, refunds>>
  BY <1>1, NothingPaid
<1>2. ASSUME NEW r \in Requests, NEW row,
             requests' = [requests EXCEPT ![r] = row], UNCHANGED refunds,
             row.amount = requests[r].amount, requests[r].status \in Committed
      PROVE  MoneyInv'
  BY <1>2, OneRequestWritten DEF Committed
<1>3. \A r \in Requests : requests[r].status = "PROCESSING" => requests[r].status \in Committed
  BY DEF Committed
<1>4. ASSUME NEW r \in Requests, ExecuteClaims(c, r)
      PROVE  MoneyInv'
  <2> DEFINE row == [requests[r] EXCEPT !.status = "PROCESSING", !.lease = c, !.lapsed = FALSE]
  <2>1. requests' = [requests EXCEPT ![r] = row] /\ UNCHANGED refunds
    BY <1>4, RowFacts DEF ExecuteClaims
  <2>2. row.amount = requests[r].amount /\ requests[r].status \in Committed
    BY <1>4, RowFacts DEF ExecuteClaims, Request, Committed
  <2> HIDE DEF row
  <2>3. QED
    BY <1>2, <2>1, <2>2
<1>5. CASE ExecuteRecords(c)
  <2>1. PICK r : r = calls[c].request
    OBVIOUS
  <2>2. r \in Requests /\ UNCHANGED refunds
    BY <1>5, <2>1 DEF ExecuteRecords, BInv, CallKnows
  <2> DEFINE row == [requests[r] EXCEPT !.status = refundStatusFromStripe(calls[c].answer),
                                        !.lease = None, !.lapsed = FALSE]
  <2>3. CASE Owns(c)
    <3>1. requests' = [requests EXCEPT ![r] = row]
      BY <1>5, <2>1, <2>2, <2>3, RowFacts DEF ExecuteRecords
    <3>2. row.amount = requests[r].amount /\ requests[r].status \in Committed
      BY <1>3, <2>1, <2>2, <2>3, RowFacts DEF Owns, Request
    <3> HIDE DEF row
    <3>3. QED
      BY <1>2, <2>2, <3>1, <3>2
  <2>4. CASE ~Owns(c)
    BY <1>1, <1>5, <2>2, <2>4 DEF ExecuteRecords
  <2>5. QED
    BY <2>3, <2>4
<1>6. CASE ExecuteFails(c)
  <2>1. PICK r : r = calls[c].request
    OBVIOUS
  <2>2. r \in Requests /\ UNCHANGED refunds
    BY <1>6, <2>1 DEF ExecuteFails, BInv, CallKnows
  <2> DEFINE row == [requests[r] EXCEPT !.lapsed = FALSE]
  <2>3. CASE Owns(c)
    <3>1. requests' = [requests EXCEPT ![r] = row]
      BY <1>6, <2>1, <2>2, <2>3, RowFacts DEF ExecuteFails, Held
    <3>2. row.amount = requests[r].amount /\ requests[r].status \in Committed
      BY <1>3, <2>1, <2>2, <2>3, RowFacts DEF Owns, Request
    <3> HIDE DEF row
    <3>3. QED
      BY <1>2, <2>2, <3>1, <3>2
  <2>4. CASE ~Owns(c)
    BY <1>1, <1>6, <2>2, <2>4 DEF ExecuteFails
  <2>5. QED
    BY <2>3, <2>4
<1>7. QED
  BY <1>4, <1>5, <1>6

\* A lease that runs out says nothing of the money.
LEMMA LeasePays ==
  ASSUME BInv, MoneyInv, NEW r \in Requests, LeaseLapses(r)
  PROVE  MoneyInv'
<1> DEFINE row == [requests[r] EXCEPT !.lapsed = TRUE]
<1>1. requests' = [requests EXCEPT ![r] = row] /\ UNCHANGED refunds
  BY RowFacts DEF LeaseLapses
<1>2. row.amount = requests[r].amount /\ requests[r].status = "PROCESSING"
  BY RowFacts DEF LeaseLapses, Request, BInv, RefundTypeOK
<1> HIDE DEF row
<1>3. QED
  BY <1>1, <1>2, OneRequestWritten DEF Committed

\* A refund is created for a request that stood already, with what was approved.
LEMMA CreationPays ==
  ASSUME BInv, MoneyInv, NEW c \in Calls, ExecuteCreates(c)
  PROVE  MoneyInv'
<1>1. CASE UNCHANGED refunds
  BY <1>1, NothingPaid DEF ExecuteCreates
<1>2. CASE ~UNCHANGED refunds
  <2>1. PICK r : r = calls[c].request
    OBVIOUS
  <2>2. /\ r \in Requests /\ UNCHANGED requests /\ RefundsOf(r) = {}
        /\ requests[r].status \in Taken
        /\ \E answer \in {"pending", "succeeded"} :
             refunds' = Append(refunds, [request |-> r, amount |-> requests[r].amount,
                                         status |-> answer, first |-> answer])
    BY <1>2, <2>1 DEF ExecuteCreates, Known, BInv, CallKnows
  <2>3. PICK row : refunds' = Append(refunds, row) /\ row.request = r
                   /\ row.amount = requests[r].amount
    BY <2>2
  <2>4. /\ DOMAIN refunds' = DOMAIN refunds \cup {Len(refunds) + 1}
        /\ refunds'[Len(refunds) + 1] = row
        /\ \A i \in DOMAIN refunds : refunds'[i] = refunds[i]
    <3>1. /\ refunds \in Seq(Refund \cup {row}) /\ Len(refunds) \in Nat
          /\ DOMAIN refunds = 1..Len(refunds)
      BY RowFacts
    <3>2. QED
      BY <2>3, <3>1
  <2>5. \A q \in Requests \ {r} : RefundsOf(q)' = RefundsOf(q) /\ (Failed(q)' <=> Failed(q))
    BY <2>3, <2>4 DEF RefundsOf, Failed
  <2>6. RefundedAsApproved'
    BY <2>2, <2>3, <2>4 DEF MoneyInv, RefundedAsApproved, RequestOf
  <2>7. requests[r].status = "PROCESSING"
    BY <2>2 DEF BInv, EndedHaveRefunds, Taken
  <2>8. Made' = Made /\ Standing' \subseteq Standing
    BY <2>2, <2>5, <2>7 DEF Made, Standing, Committed
  <2>9. QED
    BY <2>2, <2>6, <2>8, NoMoreStands DEF MoneyInv, Standing
<1>3. QED
  BY <1>1, <1>2

\* A refund settles or fails; a failed one stands no more.
LEMMA SettlementPays ==
  ASSUME BInv, MoneyInv, NEW i \in DOMAIN refunds, NEW status \in ProviderStatus,
         Settles(i, status)
  PROVE  MoneyInv'
<1> DEFINE row == [refunds[i] EXCEPT !.status = status]
<1>1. refunds' = [refunds EXCEPT ![i] = row] /\ UNCHANGED requests /\ refunds[i].status # "failed"
  BY DEF Settles
<1>2. row.request = refunds[i].request /\ row.amount = refunds[i].amount
  BY RowFacts DEF Refund
<1> HIDE DEF row
<1>3. /\ DOMAIN refunds' = DOMAIN refunds /\ refunds'[i] = row
      /\ \A j \in DOMAIN refunds \ {i} : refunds'[j] = refunds[j]
  BY <1>1, RowFacts
<1>4. RefundedAsApproved'
  BY <1>1, <1>2, <1>3 DEF MoneyInv, RefundedAsApproved, RequestOf
<1>5. \A q \in Requests : RefundsOf(q)' = RefundsOf(q) /\ (Failed(q) => Failed(q)')
  BY <1>1, <1>2, <1>3 DEF RefundsOf, Failed
<1>6. Made' = Made /\ Standing' \subseteq Standing
  BY <1>1, <1>5 DEF Made, Standing
<1>7. QED
  BY <1>1, <1>4, <1>6, NoMoreStands DEF MoneyInv, Standing

\* What an event is applied to stood already, unless its refund has failed.
LEMMA ApplyingPays ==
  ASSUME BInv, MoneyInv, NEW h \in Handlers, HandlerApplies(h)
  PROVE  MoneyInv'
<1>1. CASE UNCHANGED requests
  BY <1>1, NothingPaid DEF HandlerApplies
<1>2. CASE ~UNCHANGED requests
  <2>1. PICK e, i, r : e = handlers[h].event /\ i = events[e].refund /\ r = refunds[i].request
    OBVIOUS
  <2>2. e \in DOMAIN events /\ i \in DOMAIN refunds /\ r \in Requests /\ RefundsOf(r) # {}
    BY <2>1, RowFacts DEF HandlerApplies, OwnsEvent, RefundsOf
  <2> DEFINE row == [requests[r] EXCEPT !.status = refundStatusFromStripe(handlers[h].seen),
                                        !.lease = None, !.lapsed = FALSE,
                                        !.lastEvent = events[e].at]
  <2>3. requests' = [requests EXCEPT ![r] = row] /\ UNCHANGED refunds
    BY <1>2, <2>1 DEF HandlerApplies
  <2>4. row.amount = requests[r].amount
    BY <2>2, RowFacts DEF Request
  <2>5. requests[r].status \in Taken /\ (requests[r].status = "FAILED" => Failed(r))
    BY <2>2, MoneyFacts
  <2> HIDE DEF row
  <2>6. QED
    BY <2>2, <2>3, <2>4, <2>5, OneRequestWritten DEF Taken, Committed
<1>3. QED
  BY <1>1, <1>2

\* Every step.
LEMMA StepMoney ==
  ASSUME BInv, MoneyInv, [RefundNext]_refundVars
  PROVE  MoneyInv'
<1>1. CASE UNCHANGED refundVars
  BY <1>1, NothingPaid DEF refundVars
<1>2. ASSUME NEW r \in Requests,
             \/ \E amount \in 1..Paid : RequestRefund(r, amount) \/ Approve(r, amount)
             \/ StartReview(r) \/ Reject(r)
      PROVE  MoneyInv'
  BY <1>2, RequestRefundPays, ApprovePays, ReviewPays
<1>3. ASSUME NEW r \in Requests, LeaseLapses(r) \/ \E c \in Calls : ExecuteClaims(c, r)
      PROVE  MoneyInv'
  <2>1. CASE LeaseLapses(r)
    BY <2>1, LeasePays
  <2>2. ASSUME NEW c \in Calls, ExecuteClaims(c, r)
        PROVE  MoneyInv'
    BY <2>2, ExecutionPays
  <2>3. QED
    BY <1>3, <2>1, <2>2
<1>4. ASSUME NEW c \in Calls,
             \/ ExecuteLists(c) \/ ExecuteCreates(c) \/ ExecuteRecords(c)
             \/ ExecuteFails(c) \/ CallDies(c)
      PROVE  MoneyInv'
  <2>1. CASE ExecuteLists(c) \/ CallDies(c)
    BY <2>1, NothingPaid DEF ExecuteLists, CallDies
  <2>2. QED
    BY <1>4, <2>1, CreationPays, ExecutionPays
<1>5. ASSUME NEW i \in DOMAIN refunds, NEW status \in ProviderStatus, Settles(i, status)
      PROVE  MoneyInv'
  BY <1>5, SettlementPays
<1>6. CASE Tick
  BY <1>6, NothingPaid DEF Tick
<1>7. ASSUME NEW e \in DOMAIN events,
             EventLeaseLapses(e) \/ \E h \in Handlers : Deliver(h, e)
      PROVE  MoneyInv'
  BY <1>7, NothingPaid DEF EventLeaseLapses, Deliver
<1>8. ASSUME NEW h \in Handlers, HandlerApplies(h) \/ HandlerFails(h) \/ HandlerDies(h)
      PROVE  MoneyInv'
  <2>1. CASE HandlerFails(h) \/ HandlerDies(h)
    BY <2>1, NothingPaid DEF HandlerFails, HandlerDies
  <2>2. QED
    BY <1>8, <2>1, ApplyingPays
<1>9. QED
  BY <1>1, <1>2, <1>3, <1>4, <1>5, <1>6, <1>7, <1>8 DEF RefundNext

\* Nothing was requested yet.
LEMMA InitMoney ==
  ASSUME RefundInit
  PROVE  MoneyInv
<1>1. Made = {} /\ Standing = {} /\ DOMAIN refunds = {}
  BY DEF RefundInit, Made, Standing, Committed
<1>2. IsFiniteSet({})
  BY FS_EmptySet
<1>3. AmountsOf(requests, {}) = 0
  BY <1>2, AmountsAreSum, SumSteps
<1>4. QED
  BY <1>1, <1>2, <1>3, RefundAssumption DEF MoneyInv, RefundedAsApproved, StandingWithinPaid

\* The refunds that have not failed are of requests that stand, one of each.
LEMMA MoneySuffices ==
  ASSUME BInv, MoneyInv
  PROVE  RefundsWithinPaid
<1> DEFINE S == {i \in DOMAIN refunds : refunds[i].status # "failed"}
           f == [i \in S |-> refunds[i].request]
           F == [i \in S |-> refunds[i].amount]
           G == [r \in Standing |-> requests[r].amount]
<1>1. IsFiniteSet(S) /\ IsFiniteSet(Standing)
  <2>1. IsFiniteSet(DOMAIN refunds)
    BY RowFacts, FS_Interval
  <2>2. QED
    BY <2>1, FS_Subset, MoneyFacts DEF MoneyInv
<1>2. \A i \in S : /\ i \in DOMAIN refunds /\ refunds[i].request \in Standing
                   /\ refunds[i].amount = requests[refunds[i].request].amount
                   /\ refunds[i].amount \in Nat
  <2>1. ASSUME NEW i \in S
        PROVE  refunds[i].request \in Standing /\ refunds[i].amount \in Nat
    <3>1. PICK r \in Requests : r = refunds[i].request /\ i \in RefundsOf(r)
      BY RowFacts DEF RefundsOf
    <3>2. ~Failed(r) /\ requests[r].status \in Committed
      BY <3>1, MoneyFacts DEF Failed, Taken, Committed
    <3>3. refunds[i].amount = requests[r].amount
      BY <3>1 DEF MoneyInv, RefundedAsApproved, RequestOf
    <3>4. QED
      BY <3>1, <3>2, <3>3, MoneyFacts DEF Standing
  <2>2. QED
    BY <2>1 DEF MoneyInv, RefundedAsApproved, RequestOf
<1>3. \A i, j \in S : f[i] = f[j] => i = j
  BY DEF BInv, OneRefundEach
<1>4. \A i \in S : F[i] \in Int /\ G[f[i]] = F[i]
  BY <1>2
<1>5. ImageOf(f, S) \in SUBSET Standing
  BY <1>2 DEF ImageOf
<1>6. \A r \in Standing : G[r] \in Nat
  BY MoneyFacts DEF Standing
<1>7. AmountsOf(refunds, S) = SumOver(F, S) /\ AmountsOf(requests, Standing) = SumOver(G, Standing)
  BY <1>1, AmountsAreSum
<1>8. RefundsWithinPaid <=> AmountsOf(refunds, S) <= Paid
  BY DEF RefundsWithinPaid, AmountsOf
<1> HIDE DEF S, f, F, G
<1>9. SumOver(F, S) = SumOver(G, ImageOf(f, S))
  BY <1>1, <1>3, <1>4, SumOfImage
<1>10. /\ SumOver(G, ImageOf(f, S)) <= SumOver(G, Standing)
       /\ SumOver(G, Standing) \in Int /\ SumOver(G, ImageOf(f, S)) \in Int
  BY <1>1, <1>5, <1>6, SumOfFewer
<1>11. SumOver(G, Standing) <= Paid /\ Paid \in Nat
  BY <1>7, MoneyFacts DEF MoneyInv, StandingWithinPaid
<1>12. QED
  BY <1>7, <1>8, <1>9, <1>10, <1>11

\* What stands at Stripe for a payment never exceeds what was paid: however many
\* requests, executions and deliveries there are, and although the amount is
\* checked at the approval and the refund created long after it (executeRefund).
THEOREM RefundsStayWithinPaid == RefundSpec => []RefundsWithinPaid
<1>1. RefundInit => MoneyInv
  BY InitMoney
<1>2. BInv /\ MoneyInv /\ [RefundNext]_refundVars => MoneyInv'
  BY StepMoney
<1>3. BInv /\ MoneyInv => RefundsWithinPaid
  BY MoneySuffices
<1>4. QED
  BY <1>1, <1>2, <1>3, RefundInvariant, PTL DEF RefundSpec

================================================================================
