-------------------------- MODULE ProgramPublication --------------------------
(***************************************************************************)
(* One loyalty program from its first draft on: drafts are edited, shown,  *)
(* validated, tried in Test Mode, published, replaced and abandoned, and   *)
(* the program is paused, resumed, archived and restored.  Each operation  *)
(* is one serializable transaction under an advisory lock, hence one step, *)
(* but for the opening of a test session, which reads and writes outside   *)
(* of any transaction.                                                     *)
(*                                                                         *)
(* Versions are numbered from 1; version 0 and revision 0 stand for NULL.  *)
(* Plan, billing, location and asset checks can only refuse an operation,  *)
(* and a refused operation changes nothing: they are left out.  The tested *)
(* program has one reward, the final one.                                  *)
(***************************************************************************)
EXTENDS Naturals, Sequences, FiniteSets

CONSTANTS Keys,         \* idempotency keys of publish requests
          Goal,         \* stamps that earn the reward in Test Mode
          MaxVersions,  \* bound on the versions of the program
          MaxEdits,     \* bound on the revision of one version
          MaxRevision,  \* bound on the revision of the program
          MaxSessions   \* bound on the test sessions ever opened

ASSUME PublicationAssumption ==
  /\ {Goal, MaxVersions, MaxEdits, MaxRevision} \subseteq Nat \ {0}
  /\ MaxSessions \in Nat

Editable  == {"DRAFT", "VALIDATED", "TEST_READY"}
Protected == {"PUBLISHED", "SUPERSEDED"}
Actions   == {"pause", "resume", "archive", "restore"}

Program == [status    : {"DRAFT", "VALIDATED", "TEST",
                         "PUBLISHED", "PAUSED", "ARCHIVED"},
            draft     : 0..MaxVersions,
            published : 0..MaxVersions,
            revision  : 1..MaxRevision]

Version == [status      : Editable \cup Protected \cup {"ABANDONED"},
            revision    : 1..MaxEdits,
            rendered    : 0..MaxEdits,    \* revision its previews show
            validatedAt : BOOLEAN,
            fingerprint : 0..MaxEdits,    \* digest of the validated revision
            run         : [revision : 0..MaxEdits, passed : BOOLEAN]]

Session == [version     : 1..MaxVersions,
            revision    : 1..MaxEdits,
            fingerprint : 0..MaxEdits,
            stamps      : 0..Goal,
            unlocked    : BOOLEAN,        \* a reward it can redeem exists
            status      : {"ACTIVE", "COMPLETED", "RESET"}]

VARIABLES program,    \* the program row
          versions,   \* its version rows, by version number
          sessions,   \* the test sessions, oldest first
          opening,    \* the session a createTestSession call is about to write
          commands,   \* the version each publish key has published
          syncJobs    \* the wallet sync jobs, by <<program revision, action>>

vars == <<program, versions, sessions, opening, commands, syncJobs>>

FirstDraft == [status |-> "DRAFT", revision |-> 1, rendered |-> 0,
               validatedAt |-> FALSE, fingerprint |-> 0,
               run |-> [revision |-> 0, passed |-> FALSE]]

Init ==
  /\ program = [status |-> "DRAFT", draft |-> 1, published |-> 0, revision |-> 1]
  /\ versions = <<FirstDraft>>
  /\ sessions = <<>> /\ opening = <<>>
  /\ commands = [k \in Keys |-> 0]
  /\ syncJobs = {}

(***************************************************************************)
(* What the database enforces: published and superseded rows are frozen    *)
(* (but for the supersession itself), and a program has one version in an  *)
(* editable status.  A write that breaks either rule fails its transaction.*)
(***************************************************************************)
MaySet(v, status) ==
  /\ versions[v].status \notin Protected
  /\ status \in Editable =>
       \A w \in DOMAIN versions \ {v} : versions[w].status \notin Editable

(***************************************************************************)
(* The current draft.                                                      *)
(***************************************************************************)
Draft == versions[program.draft]
HasDraft == program.draft # 0

Edited(version) ==
  [version EXCEPT !.revision = @ + 1, !.status = "DRAFT",
                  !.validatedAt = FALSE, !.fingerprint = 0]

\* A program that was never published follows its draft.
FollowsDraft(status) ==
  IF program.published = 0 THEN status ELSE program.status

\* The stale-revision check refuses an edit prepared on another revision.
\* The edit replaces the reward rows, so what a session unlocked is gone.
Update ==
  /\ HasDraft /\ program.status # "ARCHIVED"
  /\ Draft.revision < MaxEdits /\ program.revision < MaxRevision
  /\ versions' = [versions EXCEPT ![program.draft] = Edited(@)]
  /\ program' = [program EXCEPT !.revision = @ + 1,
                                !.status = FollowsDraft("DRAFT")]
  /\ sessions' = [s \in DOMAIN sessions |->
                    IF sessions[s].version = program.draft
                    THEN [sessions[s] EXCEPT !.unlocked = FALSE]
                    ELSE sessions[s]]
  /\ UNCHANGED <<opening, commands, syncJobs>>

\* The enrollment policy belongs to the draft; the program row is left alone.
UpdatePolicy ==
  /\ HasDraft /\ Draft.revision < MaxEdits
  /\ versions' = [versions EXCEPT ![program.draft] = Edited(@)]
  /\ UNCHANGED <<program, sessions, opening, commands, syncJobs>>

ChangePublicSlug ==
  /\ program.revision < MaxRevision
  /\ program' = [program EXCEPT !.revision = @ + 1]
  /\ UNCHANGED <<versions, sessions, opening, commands, syncJobs>>

\* All the required previews of the current revision, made or found cached.
Preview ==
  /\ HasDraft
  /\ versions' = [versions EXCEPT ![program.draft].rendered = Draft.revision]
  /\ UNCHANGED <<program, sessions, opening, commands, syncJobs>>

\* The checks beside the previews may pass or fail.
Validate(passed) ==
  /\ HasDraft
  /\ passed => Draft.rendered = Draft.revision
  /\ versions' = [versions EXCEPT ![program.draft] =
       [@ EXCEPT !.status = IF passed THEN "VALIDATED" ELSE "DRAFT",
                 !.validatedAt = passed,
                 !.fingerprint = Draft.revision,
                 !.run = [revision |-> Draft.revision, passed |-> passed]]]
  /\ program' = IF passed /\ program.status \notin {"PUBLISHED", "PAUSED", "ARCHIVED"}
                THEN [program EXCEPT !.status = "VALIDATED"] ELSE program
  /\ UNCHANGED <<sessions, opening, commands, syncJobs>>

CreateDraft ==
  /\ ~ HasDraft /\ program.published # 0
  /\ Len(versions) < MaxVersions
  /\ \A v \in DOMAIN versions : versions[v].status \notin Editable
  /\ versions' = Append(versions, FirstDraft)
  /\ program' = [program EXCEPT !.draft = Len(versions) + 1]
  /\ UNCHANGED <<sessions, opening, commands, syncJobs>>

AbandonDraft ==
  /\ HasDraft /\ program.published # 0
  /\ versions' = [versions EXCEPT ![program.draft].status = "ABANDONED"]
  /\ program' = [program EXCEPT !.draft = 0]
  /\ UNCHANGED <<sessions, opening, commands, syncJobs>>

(***************************************************************************)
(* Test Mode.  A session is opened by a read of the draft and, later, a    *)
(* write of what was read.                                                 *)
(***************************************************************************)
ReadDraftForTest ==
  /\ opening = <<>> /\ Len(sessions) < MaxSessions
  /\ HasDraft /\ Draft.status \in {"VALIDATED", "TEST_READY"}
  /\ opening' = << [version |-> program.draft, revision |-> Draft.revision,
                    fingerprint |-> Draft.fingerprint, stamps |-> 0,
                    unlocked |-> FALSE, status |-> "ACTIVE"] >>
  /\ UNCHANGED <<program, versions, sessions, commands, syncJobs>>

OpenSession ==
  /\ opening # <<>>
  /\ sessions' = sessions \o opening
  /\ opening' = <<>>
  /\ UNCHANGED <<program, versions, commands, syncJobs>>

Tested(s) == versions[sessions[s].version]

AddTestStamps(s, n) ==
  /\ Tested(s).revision = sessions[s].revision
  /\ sessions[s].stamps + n <= Goal
  /\ sessions' = [sessions EXCEPT
       ![s].stamps = @ + n, ![s].status = "ACTIVE",
       ![s].unlocked = @ \/ sessions[s].stamps + n = Goal]
  /\ UNCHANGED <<program, versions, opening, commands, syncJobs>>

\* The cycle was run on what was validated: the version is ready.
Completes(s) ==
  /\ Tested(s).revision = sessions[s].revision
  /\ Tested(s).fingerprint = sessions[s].fingerprint

RedeemTestReward(s) ==
  /\ sessions[s].unlocked
  /\ sessions' = [sessions EXCEPT ![s] =
       [@ EXCEPT !.stamps = 0, !.unlocked = FALSE,
                 !.status = IF Completes(s) THEN "COMPLETED" ELSE "ACTIVE"]]
  /\ IF Completes(s)
     THEN /\ MaySet(sessions[s].version, "TEST_READY")
          /\ versions' = [versions EXCEPT ![sessions[s].version].status = "TEST_READY"]
     ELSE UNCHANGED versions
  /\ UNCHANGED <<program, opening, commands, syncJobs>>

\* Both set the version back to VALIDATED, whatever it was.
BackToValidated(v) ==
  /\ MaySet(v, "VALIDATED")
  /\ versions' = [versions EXCEPT ![v].status = "VALIDATED"]

ReverseTestStamp(s) ==
  /\ sessions[s].stamps > 0
  /\ BackToValidated(sessions[s].version)
  /\ sessions' = [sessions EXCEPT
       ![s].stamps = @ - 1, ![s].unlocked = FALSE, ![s].status = "ACTIVE"]
  /\ UNCHANGED <<program, opening, commands, syncJobs>>

ResetTestSession(s) ==
  /\ BackToValidated(sessions[s].version)
  /\ sessions' = [sessions EXCEPT ![s] =
       [@ EXCEPT !.stamps = 0, !.unlocked = FALSE, !.status = "RESET"]]
  /\ UNCHANGED <<program, opening, commands, syncJobs>>

(***************************************************************************)
(* Publication.  A key that was used returns its command and changes       *)
(* nothing.                                                                *)
(***************************************************************************)
\* decideProgramPublicationState
PublicationAllowed ==
  IF program.published = 0
  THEN program.status \in {"DRAFT", "VALIDATED", "TEST"}
  ELSE program.status \in {"PUBLISHED", "PAUSED"}

\* Mutant: the status of the draft is trusted.
ValidatedInName == Draft.status \in {"VALIDATED", "TEST_READY"}
ValidatedAsItIs ==
  /\ Draft.status \in {"VALIDATED", "TEST_READY"} /\ Draft.validatedAt
  /\ Draft.fingerprint = Draft.revision
  /\ Draft.run = [revision |-> Draft.revision, passed |-> TRUE]
  /\ Draft.rendered = Draft.revision

\* Mutant: the version replaced keeps its status.
ReplacedInPlace == [versions EXCEPT ![program.draft].status = "PUBLISHED"]
Replaced ==
  [v \in DOMAIN versions |->
     CASE v = program.draft     -> [versions[v] EXCEPT !.status = "PUBLISHED"]
       [] v = program.published -> [versions[v] EXCEPT !.status = "SUPERSEDED"]
       [] OTHER                 -> versions[v]]

\* Mutant: the command is not looked up.
NewAlways(k) == TRUE
New(k) == commands[k] = 0

Publish(k) ==
  /\ New(k) /\ PublicationAllowed
  /\ HasDraft /\ ValidatedAsItIs
  /\ program.revision < MaxRevision
  /\ versions' = Replaced
  /\ program' = [status    |-> IF program.published = 0 THEN "PUBLISHED" ELSE program.status,
                 draft     |-> 0,
                 published |-> program.draft,
                 revision  |-> program.revision + 1]
  /\ commands' = [commands EXCEPT ![k] = program.draft]
  /\ UNCHANGED <<sessions, opening, syncJobs>>

(***************************************************************************)
(* Pause, resume, archive and restore.                                     *)
(***************************************************************************)
Permitted(action) ==
  CASE action = "pause"   -> program.status = "PUBLISHED"
    [] action = "resume"  -> program.status = "PAUSED"
    [] action = "archive" -> program.status # "ARCHIVED"
    [] action = "restore" -> program.status = "ARCHIVED"

Restored ==
  IF program.published # 0 THEN "PUBLISHED"
  ELSE CASE HasDraft /\ Draft.status = "VALIDATED"   -> "VALIDATED"
         [] HasDraft /\ Draft.status = "TEST_READY"  -> "TEST"
         [] OTHER                                    -> "DRAFT"

After(action) ==
  CASE action = "pause"   -> "PAUSED"
    [] action = "resume"  -> "PUBLISHED"
    [] action = "archive" -> "ARCHIVED"
    [] action = "restore" -> Restored

\* The wallet sync job is found again by this key, or created.
\* Mutant: the key names the action only.
SyncKeyOfAction(action) == <<1, action>>
SyncKey(action) == <<program.revision + 1, action>>

Transition(action) ==
  /\ Permitted(action)
  /\ program.revision < MaxRevision
  /\ program' = [program EXCEPT !.status = After(action), !.revision = @ + 1]
  /\ syncJobs' = syncJobs \cup {SyncKey(action)}
  /\ UNCHANGED <<versions, sessions, opening, commands>>

Next ==
  \/ Update \/ UpdatePolicy \/ ChangePublicSlug \/ Preview
  \/ \E passed \in BOOLEAN : Validate(passed)
  \/ CreateDraft \/ AbandonDraft
  \/ ReadDraftForTest \/ OpenSession
  \/ \E s \in DOMAIN sessions :
        \/ \E n \in 1..Goal : AddTestStamps(s, n)
        \/ RedeemTestReward(s) \/ ReverseTestStamp(s) \/ ResetTestSession(s)
  \/ \E k \in Keys : Publish(k)
  \/ \E action \in Actions : Transition(action)

Spec == Init /\ [][Next]_vars

(***************************************************************************)
(* Properties.                                                             *)
(***************************************************************************)

\* Every row has its shape; the draft pointer names a version that is not
\* protected or abandoned, and a program has at most one editable version.
TypeOK ==
  /\ program \in Program
  /\ versions \in Seq(Version) /\ Len(versions) \in 1..MaxVersions
  /\ sessions \in Seq(Session) /\ Len(sessions) <= MaxSessions
  /\ opening \in Seq(Session) /\ Len(opening) <= 1
  /\ commands \in [Keys -> 0..MaxVersions]
  /\ syncJobs \subseteq (1..MaxRevision) \X Actions
  /\ {program.draft, program.published} \subseteq 0..Len(versions)
  /\ HasDraft => Draft.status \in Editable
  /\ Cardinality({v \in DOMAIN versions : versions[v].status \in Editable}) <= 1

\* What customers are given was validated as it is: the last validation of a
\* published or superseded version passed, on its final revision and with the
\* previews of that revision, however often it was edited, tested, rewound or
\* abandoned on the way.
PublishedWasValidated ==
  \A v \in DOMAIN versions : versions[v].status \in Protected =>
    LET version == versions[v] IN
    /\ version.validatedAt /\ version.fingerprint = version.revision
    /\ version.run = [revision |-> version.revision, passed |-> TRUE]
    /\ version.rendered = version.revision

\* The program's published pointer and its versions agree: it names the one
\* PUBLISHED version, and exactly a program that has one is on sale, paused
\* or archived after it was.
PublishedPointer ==
  /\ \A v \in DOMAIN versions :
        versions[v].status = "PUBLISHED" <=> v = program.published
  /\ program.status \in {"PUBLISHED", "PAUSED"} => program.published # 0
  /\ program.published # 0 => program.status \in {"PUBLISHED", "PAUSED", "ARCHIVED"}

\* A publish key publishes once: every version that was ever published was
\* published by one command, and no two commands name the same version.
PublishedByOneCommand ==
  \A v \in DOMAIN versions :
    Cardinality({k \in Keys : commands[k] = v})
      = IF versions[v].status \in Protected THEN 1 ELSE 0

\* No transition of a live program is lost on its wallet cards: whenever its
\* status changes, a sync job that was not there before is queued, also the
\* second time the same transition happens.
TransitionsAreSynced ==
  [][program.published # 0 /\ program'.status # program.status
       => syncJobs' # syncJobs]_vars

\* An editable version is the program's current draft, so editing a published
\* program can always create the next version.  (Violated: the reset of a test
\* session brings an abandoned version back.)
EditableIsCurrent ==
  \A v \in DOMAIN versions : versions[v].status \in Editable => v = program.draft

=============================================================================
