# Waflo: a TLA+ model of the loyalty platform

Waflo is a multi-tenant loyalty platform: merchants publish stamp-card programs,
customers carry a card in Apple or Google Wallet, and staff devices issue stamps
and redeem rewards. The code is a TypeScript monorepo (NestJS API, two workers,
web front ends) over PostgreSQL. This directory models the parts of it that must
never be wrong: the loyalty operations on a membership, the way their result reaches
a customer's wallet, who holds the card, who may work with it, what program it follows
and how a payment is given back. It lists the rest.

## 1. Inventory

| Component | State it keeps | Operations | Interacts with | What makes it correct |
|---|---|---|---|---|
| Ledger reducer (`packages/loyalty-ledger`) | none (pure) | reduce, rebuild, crossed thresholds, reversal rules, hash chain | called by the operations service and the worker | a rebuild of the ledger is the projection |
| Stamp and reward policy (`packages/loyalty-policy`) | none (pure) | evaluate a stamp request, a redemption, the daily total | called by the operations service | caps hold under reversals and at day ends |
| Operations service (`apps/api/src/loyalty`) | ledger entries, progress projection, entitlements, redemptions, membership status, operation commands | issue, redeem, reverse, adjust, change status, verify and rebuild | locks, policy, reducer, approvals, wallet outbox, risk | the four kinds of rows always agree; one effect for one key |
| Ordered locks (`apps/api/src/common`) | advisory locks | locks taken in one order (organization, program, membership, operation, device) in a serializable transaction, with retries | every operation | no deadlock, no lost update |
| Manager approvals (`apps/api/src/operations`, operations service) | approval challenges | request, approve, reject, expire, consume | operation commands | one decision, one consumption |
| Operational worker (`apps/operational-worker`) | expiry commands, analytics checkpoints, exports, privacy jobs, repricing | scan, claim, execute, retry, dead letter, clean up | the same ledger and entitlements | lapsed rewards expire once, jobs are not lost |
| Wallet state changes (`packages/database/src/wallet-state-change.ts`) | pass rows with update tag and Apple sequence, state change commands, two kinds of advisory lock | queue a change inside the caller's transaction | operations, transfer, sync job, campaigns | no change lost or counted twice; sequences commit in order |
| Apple web service (`apps/api/src/wallet/apple-update.service.ts`) | device registrations | register, unregister, list updated passes, download | devices, pass rows | which updates a device may miss, and when |
| Wallet outbox and worker (`apps/wallet-worker`) | outbox commands, sync jobs, provider credentials | dispatch, claim, publish, push, retry, dead letter | Redis, providers, pass rows | no change lost, no command executed by two owners, a retired pass stays retired |
| Enrollment and customers (`apps/api/src/enrollment`, `customer`) | memberships, credentials, transfers, access sessions | enrol, transfer, rotate a session, erase | programs, wallet | one chain of credentials, no session outlives them |
| Staff devices (`apps/api/src/staff-devices`) | assignments, pairings, devices, sessions | assign, pair, claim, complete, refresh, revoke | teams, accounts, organizations | a live session is backed by all it was granted on |
| Programs (`apps/api/src/programs`) | programs, versions, test sessions, publish commands | edit, preview, validate, test, publish, pause | enrollment, wallet | what is published was validated as it is |
| Billing (`apps/api/src/billing`, `packages/billing`) | refund requests, webhook events, subscriptions, prices | refund, webhook, checkout, repricing | Stripe, operations | no more is given back than was paid; status follows the provider |
| Teams, tenancy, locations | members, invitations, locations | invite, resend, accept, change, remove, close | every API call | seats within the plan, an owner remains |
| Authentication | sessions, tokens | sign in, refresh, revoke | every API call | a token is used once |
| Front ends, artwork, translations, contracts | none of their own | rendering, schemas | the API | presentation only |

The behaviours that are hard here: an idempotent command crosses three
transactions, with a lease between them that can run out; two of the
transactions that touch a command row are not serializable; reversals undo
several rows of several tables at once; a worker changes the same rows as the
staff; unique indexes keep rows that the operations consider undone; transactions
of different isolation levels change the same wallet passes, and a database
sequence drawn in one order may commit in another while devices poll with the last
value they saw. Calls to Stripe and Google lie between two transactions, so their
answers are recorded after something else has happened; leases replace locks there.
Credentials, sessions, devices and pairings end in cascades that start in other
services. Test sessions and publish keys outlive the draft they were made for.
`PROJECT.json` lists each hazard at its line, with the properties that cover it.

## 2. Modules

| Module | Models | State, and the code it stands for |
|---|---|---|
| `LedgerReducer` | `reduceProjectionEvent`, `rebuildProjection` | pure operators on events and projections |
| `MembershipLedger` | one membership under the operations service and the expiry worker | `ledger` = `loyalty_ledger_entries`, `progress` = `membership_progress_projections`, `entitlements`, `redemptions`, `membership`, `expiry` = `reward_expiry_commands`, the clock `now` |
| `LoyaltyCard` | the abstract promise to the customer | stamps, completed cards, final rewards handed out |
| `MembershipLedgerInvariant` | the inductive invariant of `MembershipLedger` | no state of its own |
| `DurableCommand` | `claimDurableCommand`, `replayOrCreateCommand`, `loadClaimedCommand`, `persistCommandFailure` | `cmd` = the row of `loyalty_operation_commands`; place and answer of each request; `applied` = committed effects |
| `IdempotentEffect` | the abstract promise of an idempotency key | `applied`, `answer` |
| `RedeemApproval` | a redemption with a manager's approval, on top of `DurableCommand` | `approval` and `valid` = the challenge and its expiry; `manager`, `told` = the managers' calls; `eligible` = everything else the decision checks |
| `WalletStateChange` | `queueWalletPassStateChange` in concurrent transactions, the Apple web service, devices | `rows` = `wallet_pass_instances`, `commands` = the `STATE_CHANGE` rows of the outbox, `sequence` = `apple_pass_update_sequence`, `appleLock`, `passLock` = the advisory locks, `txn`, `work` = open transactions, `device` = registrations and what Wallet knows |
| `WalletOutbox` | the dispatcher and the slots of the wallet worker on the commands of one pass, Redis and the provider as external parts | `pass` = the `wallet_pass_instances` row with its credential, `commands` = the `wallet_commands` rows, `lost` = Redis keys without a queue entry, `slot` = what each consumer is at and the snapshot it holds, `object`, `published` = what Google and the devices were told |
| `CardCustody` | transfers, credential rotation, customer sessions, revocation, erasure | `card` = the membership, `credentials`, `transfers` = `membership_transfer_commands`, `sessions` = `membership_access_sessions`, `resending`, `rotation`, `erasing` = calls between two of their steps |
| `StaffAccess` | staff-device service with the cascades of `staff-device-lifecycle.ts` | `standing` = membership and account of each person, `assignments`, `devices`, `pairings`, `sessions`, `activeLocations` = the locations that are not archived, `admitted` = refreshes between the guard and their transaction |
| `Team` | team service: invitations, seats, roles, owners | `members`, `users`, `invitations` |
| `ProgramPublication` | programs service and enrollment settings of one program | `program`, `versions`, `sessions` (Test Mode), `opening`, `commands` = `program_publish_commands`, `syncJobs` |
| `RefundExecution` | refund requests, `executeRefund`, the refund webhooks; Stripe is external | `requests` = `billing_refund_requests`, `refunds` = Stripe's, `events` = `processed_webhook_events`, `calls`, `handlers` = executions and deliveries under way |
| `MembershipLedgerMC` and the other `...MC` modules | small instances for TLC | |
| `MembershipLedger_proofs` | proofs about `MembershipLedger` | |
| `RedeemApproval_proofs` | proofs about `DurableCommand`, and about `RedeemApproval` on top of them | |
| `WalletStateChange_proofs`, `WalletOutbox_proofs`, `CardCustody_proofs`, `StaffAccess_proofs` | proofs about the module each is named after | |
| `Merchant_proofs` | proofs about `ProgramPublication`, `Team` and `RefundExecution`, which share no state | |
| `FoldFacts` | what the folds of the community modules compute, for the proofs that sum or replay | |

**How actions correspond to code.** In `MembershipLedger` every operation is one
action, because the code runs it as one serializable transaction under the
ordered advisory locks of `withOrderedInvariantLocks`: `IssueStamps` is all that
`issueStamps` commits (the stamp entry, one unlock entry and entitlement for each
threshold crossed, the projection), `RedeemFinal` includes the cycle reset,
`ReverseRedemption` includes the reversal of that reset. Guards are the service's
checks; the reducer's own checks are conjuncts of the append (`Reducible`), so a
check that forgets a case shows as a disabled action, and `ChecksSuffice` says
that never happens. An operation refused by a rule changes nothing and is no
action. The two refusals that a unique index raises are actions, recorded in
`rejected`. A receipt is looked up by its digest, the location and the version of the
digest key (`References`), as in the code: the same receipt earns again at another location
and after a change of the key, which `ReceiptsEarnOnce` therefore does not exclude
(`docs/mobile/production-v1-backend-contract.md:239` states the same scope). The code
looks the receipt up over all cards of the program; the model has one card.

In `DurableCommand` the claim and the execution are one step each (serializable,
under the command's lock). The failure handler runs in a read-committed
transaction without the lock, so its read (`FailRead`) and its write by row id
(`FailWrite`) are two steps. A server can crash at any step, a commit can lose
its acknowledgement (`ExecuteUnacknowledged`), a lease can run out at any time
(`LeaseExpires`). The result of a command is abstracted to the request that
produced it. `RedeemApproval` reuses these actions and adds the preparation
transaction of `redeemReward`, the managers (a read and a conditional write), the
five-minute expiry, the bulk updates of the listing and of the clean-up worker.

`WalletStateChange` looks inside the transactions that the other modules take as one
step. A transaction walks the passes of its `Plan`: `LockApple` and `LockPass` are the
two advisory locks of `queueWalletPassStateChange`, `Replay` is the lookup of the
idempotency key that finds the command, `Change` draws the next Apple sequence and
writes the pass and its command, `Insert` is the trigger that numbers a new Apple pass.
The writes become visible at `Commit`; `Abort` drops them, but a drawn sequence is gone.
Locks are held to the end of the transaction. Loyalty operations, transfers and
enrollments are serializable: they look a command up in their snapshot (`seen`), and
an update of a row that changed since is refused (`Stale`). The sync job of the worker
is read-committed. Every other failure of a transaction (a write of another kind to
the same row, a deadlock victim, a rule of the caller) is `Abort`. The sync job and
the transfer take the Apple lock before their loop (`PreLocking`);
`queueWalletUpdates` does not.
A device adds a pass, registers it, asks for the passes updated since the last tag it
was given, downloads them, and may delete the pass.

`SplitListing` says how the listing reads. `updatedSerials` is one Prisma query that
includes the pass of each registration; without the relation-join preview feature,
which the schema does not enable, Prisma runs it as two SELECT statements outside a
transaction: `ListRegistrations`, then `ReadListed`. `Poll` is the same listing when
nothing commits in between; without `SplitListing` it is the only one, which is what the locks
and the sequence are right for. With it a device may miss an update for ever (observation (b)),
so the run checks how far that goes: `MissedOnlyBetweenStatements`, a device comes to miss an
update only when the second statement of a listing reads a tag that is newer than the first
statement's filter. `Installs` says which passes are on which device. This is
behaviour of the library, not of code in this repository.

`WalletOutbox` follows one pass through the worker. Its commands are written by every caller
of `queueWalletPassStateChange`, which differ in what they skip: a loyalty operation, a change
of the membership's status or the expiry of a reward skips the passes that are, or are about to
be, invalidated (`Operation`, `Revoke`); a sync job or an Apple campaign selects its passes before the transaction
that queues, and checks nothing again (`SyncJob`, with `INVALIDATE` for an archived program);
the erasure and the transfer take every pass (`Erase`, `Transfer`). Two repairs add a command
and leave the pass row alone (`Patch`). A slot pops a command, claims it by
a conditional update with a lease (`Claim`), reads the pass (`ReadPass`), calls the
provider (`CallProvider`, `Push`), writes what came of it (`Record`), leaves a push
command behind for Apple (`QueueApplePush`) and ends the row by its id (`Complete`,
`Fail`, `DeadLetter`). Each of these waits for the database or the network, so anything
may happen in between: a transfer, a revocation, another slot that took over after
`LeaseExpires`, an exception (`Throws`) or the death of the process (`Crash`).
`SignalLost` is a Redis key without its queue entry, `SignalExpires` its time to live.
Retry delays are nondeterministic. Building an Apple artifact changes nothing that others see
and is part of `ReadPass`. The issuer's answer to a push, the campaigns and the
operational kill switch are left out.

`CardCustody`: `Request`, `Confirm` and the staff operations are serializable API
transactions and one step each. `resend` reads a transfer and updates it by its id
without a transaction (`ResendReads`, `ResendWrites`); a rotation reads its session
before its transaction (`RotateReads`) and meets the read-committed erasure while it is
open (`RotateWrites`, `RotateCommits`; `EraseSees`, `EraseCommits`). The statuses
EXPIRED and FAILED that `confirm` writes are rolled back by the exception it then throws,
so they are no states of the model.

`StaffAccess` and `Team` split one story: `Team` has the members, their roles and the
seats; `StaffAccess` keeps of them the standing of each person and has every operation
that takes access away, whichever service it is in (`Leaves`, `Deactivate`,
`CloseOrganization`). A location can be archived and restored (`ArchiveLocation`,
`RestoreLocation`). The code checks that it is active when it is assigned, when a pairing is
created, claimed and completed, and in the guard of every signed request (`Admissible`);
archiving itself revokes no session, assignment or pairing. A live session at an archived
location is therefore a state of the model, as of the code: it is admitted to nothing, and is
in use again when the location is restored
(`docs/mobile/production-v1-e2e-checklist.md:64` expects the denial). A refresh passes the guard
(`Admit`) before its transaction, which looks neither at the location nor at the account again
(`RefreshSession`, `RefreshRefused`). Signatures and nonces are abstracted: a claim and a completion are
made by the installation that holds the key. An expiry that an operation notices and
writes before it throws is undone with its transaction and is no action.

`ProgramPublication`: every operation is one serializable transaction under the
organization's lock, but for `createTestSession`, which reads the draft and inserts the
session outside any transaction (`ReadDraftForTest`, `OpenSession`). The content of a
version is its revision number; a fingerprint is the revision it was computed from; the
database guards (`MaySet`) are the partial unique index of editable versions and the
trigger that freezes published rows.

`RefundExecution`: `requestRefund` and `reviewRefund` are one step each; `executeRefund`
is a conditional update (`ExecuteClaims`), the listing of the payment's refunds
(`ExecuteLists`), the creation under an idempotency key (`ExecuteCreates`) and a
conditional record (`ExecuteRecords`); `processWebhook` claims the event and reads the
refund back (`Deliver`) and applies it in a transaction (`HandlerApplies`,
`HandlerFails`). Of the provider the model assumes that an idempotency key creates one
refund and answers as the first time, that a refund settles, and that a success may
still turn into a failure. All events are kept deliverable until they are finished.

**Abstractions.** Identifiers are model values or natural keys: a command is the
position of its first entry, an entitlement its unique key `<<cycle, threshold>>`,
a redemption its entitlement and sequence. Time is in ticks; a day and the 24
hours of the receipt rule are the same number of ticks. Stamp-policy overrides by
staff are never permitted by the code (`permitted: false`), so they are not
modelled; minimum-purchase rules only refuse. Audit rows, risk signals, wallet
updates and hash values are written in the same transactions and read by none of
the guards, so `MembershipLedger` leaves them out; `WalletStateChange` has the wallet
updates, and takes from an operation only its event key and the passes it changes.
The ledger's append-only rule (database triggers) is the shape of `ledger`.

## 3. Runs

| Run | Question | Instance and bounds | Distinct states |
|---|---|---|---|
| `membership_ledger` | do ledger, projection, entitlements and redemptions always agree, do cap and receipt rule hold over two days, is the card implemented, does the worker expire what lapsed? | goal 3, a milestone at 2 that may be redeemed twice and lapses after one tick; amounts 1, 2 and 3, corrections -1 and +1; daily cap 3, one receipt at two locations, two ticks a day; 6 ledger entries, 2 cycles, 2 ticks; with fairness | 205,000 |
| `redeem_approval` | one decision, one consumption, rejections final; is the promise of the key kept? | 4 requests (2 carrying the challenge, 1 different), 2 managers | 221,000 |
| `wallet_state_change` | are changes counted once, do sequences commit in order, and when may a device miss an update? | 2 Apple passes and a Google pass; an operation, an enrollment that creates a pass, two workers on the same page of a job; one device with both Apple passes, a listing of two statements; 5 sequences | 1,180,000 |
| `wallet_outbox` | is no command executed by two owners, no retired pass shown again, no change lost, no command left? | an Apple or a Google pass, 2 slots, one change and 2 repairs, 2 attempts, one fault; with fairness | 982,000 |
| `card_custody` | one chain of credentials, one pending transfer, no forked session, nobody in after a revocation? | 2 transfer keys, 2 rotating clients, 3 credentials, 4 sessions | 259,000 |
| `staff_access` | is access single and backed, within the assignment, and revoked for good? | 2 people who work at one of 2 locations, which may be archived, 2 devices, 2 capabilities of which one is allowed at a time, 2 pairings, 2 sessions | 1,430,000 |
| `team` | are the seats within the plan, and does an owner remain? | 3 people, 2 seats, 3 invitations | 569,000 |
| `program_publication` | was what is published validated as it is, once per command, and is every transition synced? | 3 versions, 2 revisions each, 6 program revisions, 1 test session, 2 publish keys | 2,650,000 |
| `refund_execution` | is no more given back than was paid, and does the request say what the refund says once the newest event is handled? | 2 requests on an invoice of 2, 2 executions, 2 deliveries, 3 events in 2 seconds, 2 faults | 1,920,000 |
| `re_earn` | finding 1 | as the first, 6 entries | |
| `abandoned_draft` | finding 2 | as `program_publication`, 4 program revisions | |
| `stale_put` | finding 3 | a Google pass, 2 slots, 2 changes, no fault | |

**Supplementary instances.** These configurations ask questions of the same modules that the
listed runs do not; `tlc -config <file> <module>` runs each.

| Configuration | Module | Result |
|---|---|---|
| `InductiveInvariantMC.cfg` | `MembershipLedgerMC` | `TypeOK`, `IInv`, `ReadyExactlyAtGoal`, `ReversalsAreImmediate`, `RevocationCloses`, `EndedRewardsStayEnded` and the listed properties hold |
| `PolicyAndExpiryMC.cfg` | `MembershipLedgerMC` | cap, receipts and expiry hold with a cap of 2, two locations and two key versions in five entries |
| `TwoLocationsMC.cfg` | `StaffAccessMC` | the properties of `staff_access` hold for one person who works at two locations with any set of capabilities |
| `DurableCommandMC.cfg` | `DurableCommandMC` | the properties of the durable command without approvals hold (4 requests, 1 poll) |
| `RedeemAnswersMC.cfg` | `RedeemApprovalMC` | every request of a redemption is answered (`EveryRedeemAnswered`; one manager, with fairness) |
| `SinglePassListingMC.cfg` | `WalletStateChangeMC` | updates reach a device with a single pass (`UpdatesReachDevice`, with fairness) |
| `OneStatementListingMC.cfg` | `WalletStateChangeMC` | a device with two passes misses nothing if a listing is one statement |
| `CrossPassMissMC.cfg` | `WalletStateChangeMC` | violated: observation (b) |
| `AppleLockOrderMC.cfg` | `WalletStateChangeMC` | violated: observation (c) |
| `RedeemAgainMC.cfg` | `MembershipLedgerMC` | violated: observation (a) |
| `CompletedReplaysMC.cfg` | `DurableCommandMC` | violated: observation (d) |
| `ManagerRaceMC.cfg` | `RedeemApprovalMC` | violated: observation (e) |
| `ErasedSessionMC.cfg` | `CardCustodyMC` | violated: observation (f) |
| `SameSecondMC.cfg` | `RefundExecutionMC` | violated: observation (g) |

The bounds are enough for the interesting cases. Ledger: an operation may start with five entries, which is a
cycle with its unlocks, the redemption and its reset, so that the reversal of both and the next
cycle follow (an amount of 3 fills the card in one operation); two cycles are needed for a reset and its reversal. Commands:
three requests are an owner, one that reclaims and one that comes later. Wallet: two
transactions race for a lock, a third is one that overtakes them, and a fourth replays
the event of another; five sequences number the existing pass, the new one and both
updates, and one that is drawn and rolled back; the transfer, which creates a pass and
changes another, is a plan that the theorems cover and the instance leaves out. Outbox:
a change and the repairs are one command that is rendered and others that come meanwhile, of
an older and a newer version; `stale_put` has two changes, the theorems any number; a fault is a crash, an
error or a lease that runs out under its owner, and leases of the dead run out for
nothing; two attempts are one that may be retried and the last. Custody: three
credentials are a transfer of a transferred card, four sessions a rotation beside each.
Staff: two pairings and two sessions of two people on two devices let a device change
hands and a pairing be overtaken; the second location lets the first be archived, with a pairing
open, a session live or a refresh admitted (`Posts` says who works where, `Allowances` which sets
of capabilities are given). Team: three invitations fill the seats and leave one to
resend. Programs: three versions are one published, one abandoned and one after it; two
revisions each are a validated one and an edit. Refunds: two requests compete for the
invoice, two executions for a request, three events let two be delivered out of order.

`MaxLedger` bounds when people still start an operation, `MaxCycles` the redemption that
opens a new cycle, `MaxTime` the clock, `MaxPolls` stands for 200, `MaxSequence` bounds a
64-bit sequence; `MaxFaults`, `MaxChanges`, `MaxEdits`, `MaxRevision`, `MaxSessions`,
`MaxPairings`, `LocationLimit`, `MaxInvitations`, `MaxCredentials`, `MaxEvents` and `MaxSeconds` bound how
often things happen. Deadlock is checked in the wallet state changes only: with their
bounds reached, or every request answered, the other systems stop. Two wallet
transactions that wait for each other are no deadlock of the model either, because the
database ends one of them (`Abort`), which is why observation (c) is a property of its own.

**Fairness.** `WorkerFairness`: the worker polls in a loop (`main`), so for each reward a step of
its expiry (a scan, an execution or a closing) that can be made does not wait for ever. `ServerFairness` and
`RedeemFairness`: a server process that does not die carries its requests on. `Fairness` of
`WalletStateChange`: a device goes on polling and downloads what it was told of. `Fairness` of
`WalletOutbox`: the dispatcher and the consumers poll in loops, some Redis key expires while
there is one that lost its entry, and so does some lease that nobody works under. None is assumed of crashes, errors, staff,
managers, transactions, nor of a lease that runs out under somebody at work.

**Findings.** Three statements of the repository are contradicted by listed runs:

1. `re_earn`: a stamp reversal voids an entitlement, and the voided row keeps the
   unique key, so crossing the same threshold again in that cycle fails
   (`docs/w4/rewards.md:3-4`).
2. `abandoned_draft`: what a test session does to the status of its version is done to an
   abandoned version as well. It is editable again without being the current draft, and the
   index of editable versions refuses the next one (`docs/w2/program-versioning.md:3`,
   `docs/w2/concurrency.md:3`).
3. `stale_put`: an update that read the pass before a transfer overwrites the expired object of
   the old credential with an active one, and no command is left to expire it again
   (`docs/w3/google-wallet.md:7`).

More observations come from the supplementary instances. They differ from the findings only in
that no listed run is spent on them:

- (a) a reversed redemption keeps its sequence number, which the next redemption computes
  again from the count (`docs/w4/redemption.md:3-4`);
- (b) updates committed between the two statements of a listing move a device's tag past a
  pass the listing does not contain (`tests/concurrency/w3-customer-wallet.test.ts:460`,
  "without precision loss or cross-pass misses");
- (c) a loyalty operation asks for the Apple lock while it holds the lock of a Google pass,
  against the order the comment on the lock states
  (`packages/database/src/wallet-state-change.ts:32`);
- (d) the failure handler's blind write can turn a command that another request completed
  into FAILED (`docs/w4/ledger.md:7-8`); it needs a stall longer than the lease of 90 seconds;
- (e) a stale read by one manager fails the command another manager has just approved
  (`docs/w4/manager-approval.md:46-47`);
- (f) the erasure revokes the sessions its statement sees; a rotation that commits a new one
  meanwhile leaves it alive (`docs/w4/privacy-operations.md:6`);
- (g) two events of a refund made in the same second are not told apart
  (`billing.service.ts:4041` keeps the row only against a later one): a handler that read the
  refund while it was pending may write after the one that applied its success, and the
  request stays in PROCESSING without a lease, with every event handled; an earlier success
  may likewise replace a failure (`docs/production-v1-ux-billing-repair.md:163-166`, the
  events "reconcile canonical provider state", "failed refunds never render as complete").

One more was met while reading and is outside what the modules state: `confirm` replaces every
pass of the card, those of credentials transferred before included
(`transfer.service.ts:500`, `585`), by a pass of the new credential, and
`@@unique([membershipCredentialId, provider])` allows one for each provider. A card with a pass
that was transferred once cannot be transferred again; this is why `Transfer` of `WalletOutbox`
needs a pass whose credential is active.

Every property of a passing run has a mutant: an operator marked `Mutant` next to
the definition it replaces, under which TLC finds the property violated.

## 4. Proofs

Every invariant, action property and refinement that a passing run checks is proved here
for every value of the constants; what is left to TLC is liveness and what the last
paragraph of this section lists. The theorems use the assumptions that the modules state of
their constants, and no others:

- of `MembershipLedger`: `GoalAssumption`, `RewardsAssumption` (ascending thresholds, the
  last is the goal), `PolicyAssumption` (at least one redemption per reward; the final reward
  has no validity), `BoundsAssumption`;
- of the commands: `AttemptsAssumption`, `PollsAssumption`;
- of the wallet: `PassesAssumption`, `PlanAssumption` (a transaction changes a pass once),
  `InstallsAssumption`, `NoneAssumption`, `BoundAssumption`, and `OutboxAssumption` (at least
  one attempt, providers are Apple or Google);
- of the others: `CustodyAssumption`, `StaffAssumption`, `TeamAssumption` (the owner is a
  person), `PublicationAssumption`, `RefundAssumption`, which otherwise say that bounds and
  amounts are numbers.

TLC evaluates them on each run. The bounds are constants too, so the theorems hold for
ledgers, queues, clocks and sets of people or requests of any size. Only the passes of
`WalletStateChange` are assumed to be finitely many (the migration numbers them). Where a proof
counts or sums, its invariant says that what it counts is finite: only what was made is counted,
and each step makes one.

Each proof module starts with its inductive invariant and has one lemma for each operation.
`IInv` of the ledger has an instance of its own (`InductiveInvariantMC.cfg`); the others are
defined in their proof modules, where they are proved of the initial states and of every step.

### The ledger: `MembershipLedger_proofs`

**The present.** `TypeOK`, `ReadyExactlyAtGoal`, `EarnedMatchesProgress`,
`FinalRewardDrivesCycle`, `RedemptionsCounted`, `ChecksSuffice`, `EndedRewardsStayEnded`, and
that `MembershipLedger` implements `LoyaltyCard`. The card properties are not inductive alone:
a reversal takes back what the entries of the last command say, so the proof must know that
these entries agree with the card. The inductive invariant `IInv` (in
`MembershipLedgerInvariant`) adds

- `CommandsPast`: an entry belongs to a command at or before it, so appending a
  command makes every older one a command with dependent events, which no reversal
  accepts (`TailsAppended`);
- `StampTail`, `RedeemTail`: what a command with no dependent events looks like. Its
  stamps are on the card and its unlocked rewards unused; or its redemption stands
  and, if it reset the card, the card is empty and the reward is the final one of
  the cycle just completed;
- `FinalNeverLapses`, `SlotsWithinLimit`: an expiry never meets a final reward, and
  no redemption stands outside the slots of its reward, which is what makes the final
  rewards handed out equal to the completed cycles (`HandedOut`).

One lemma for each operation shows that it restores `IInv` and moves the card and
the rewards as allowed; `StepIInv` combines them by the disjuncts of `Next`.

**The rebuild.** `ProjectionMatchesLedger` says that replaying the whole ledger through the
reducer gives the projection, and that the reducer refuses no entry on the way. The replay is
a fold. `RebuildOfMore` says that a ledger with one entry more replays to the reduction of
that entry on what was before; from it follow `MatchesAfterOne`, `MatchesAfterTwo` (a
redemption with its reset) and `MatchesAfterStamps`, the one that needs an argument: the unlock
entries of an addition are accepted by the card the addition makes, however many there are
(`UnlocksAreOfCard`).

**The past.** What entries say of each other is `PastInv`. `NewEntry` lists what the guards of
the operations say of an entry when it is appended, `LedgerGrows` that old entries never change;
`StepGrows` proves both of every step. Then `ReceiptsEarnOnce`, `DailyCapRespected` (the sum
the policy compares is the sum over the ledger up to the new entry), `ReversalsAreImmediate`
and `RevocationCloses` follow of the new entry, and stay true of the old ones. Two facts are
added to make them inductive: a reversal names an older command (`ReversalsLookBack`), and a
ledger with a revocation belongs to a revoked membership (`RevokedForGood`).

### Commands and approvals: `RedeemApproval_proofs`

The first part proves of `DurableCommand`, for any set of requests, any fingerprints and any
number of polls, `AtMostOneEffect`, `SoleFailureChangedNothing`, `EffectIsRecorded`
and that it implements `IdempotentEffect`. Its invariant adds that the
row names an effect it carries (`RowTellsEffect`), that a request is unanswered until
it is done, and that a request about to mark a failure still owns the command unless
it was claimed a second time (`MarkersOwnOrLost`): this is what separates the late
failure mark of observation (d) from a failure that is the truth.

The second part proves of `RedeemApproval`, for any number of requests and managers,
`EffectConsumesApproval`, `OneDecision`, `RejectionIsFinal`, `ClosedStaysClosed`,
`AtMostOneEffect` and `KeepsPromise` of the composition. Its invariant `RInv` contains
the `IInv` of the durable command: an approval reserves a row nobody claimed and ends
one nobody claimed, and the lemmas `EndingKeepsCommand`, `TellingKeepsCommand` and
`MovingKeepsCommand` say that neither disturbs it; the claim and the execution are
steps of `DurableCommand` and keep it by its own proof. What it adds: the row and the
challenge exist together (`RowWithChallenge`), before an approval and after a rejection
no request is past its preparation (`ClaimsFollowApproval`), a claim follows a manager
who was told of the approval (`ApprovalWasTold`), and a pending challenge means that no
manager was told a decision (`ToldOnce`).

### The wallet: `WalletStateChange_proofs`, `WalletOutbox_proofs`

`WalletStateChange`, for any number of passes, transactions, plans and
devices: `TypeOK`, `TagCountsCommands`, `CommitOrder` and `MissedOnlyBetweenStatements`, the last
however many passes a device has and however the listing reads. Its consequence
for a listing in one statement, that nothing is missed, is `NoListingMisses`
(`OneStatementListingMC.cfg`; `CrossPassMissMC.cfg` shows a miss with two statements). `CommitOrder` rests on `SInv`: whoever has
drawn and not committed a sequence holds the Apple lock, its draws are above everything
committed and above everything a device was told.
This is why a device can only come to miss an update between the two statements: what commits
later is above the tag, and the one step that moves the tag past an update that is not listed
is `ReadListed` (`StepMissed`). `SInv` needs no
isolation level, so it holds for the read-committed job as for the operations.
`TagCountsCommands` does need one: its invariant `TInv` says that the work of a
transaction is under its pass locks, that the commands it inserts are not there yet, and
that each tag it wrote is the one after the committed tag (`WorkIsLocked`, `InsertedFirst`).

`WalletOutbox`, for any number of slots, attempts, changes and faults: `TypeOK`,
`OneExecution`, `NeverReactivated`, `ChangesPublished`. A slot acts on what it read some
steps ago and ends its command by the id alone. `OInv` therefore says what is known of a slot
at each of its places (`SlotOK`) and of a row in each of its statuses (`CommandOK`), in terms
that every step of the API and of the other slots preserves: versions and publications only
grow, a command is never absent again, and a row changes under its owner only when it is late.
The writers of commands need little: they create a command that was absent (`ApiStep`), whatever
state the pass is in.

### Cards and staff: `CardCustody_proofs`, `StaffAccess_proofs`

`CardCustody`, for any number of transfer keys, browsers, credentials and sessions: `TypeOK`,
`CredentialChain`, `PendingIsCurrent`, `RotationsDoNotFork`, `RevokedStaysOut`. That sessions
do not fork is a count: each transfer adds a credential and a session, a rotation exchanges
sessions (`Counts`, `Successions`). It needs that a rotation that has written its session
holds a live one, alone, until it commits or fails (`WritersHold`), which is what the
conditional update inside the rotation provides.

`StaffAccess`, for any number of people, devices, locations, pairings and sessions: `TypeOK`,
`AccessIsSingle`, `LiveSessionIsBacked`, `DeviceWithinAssignment` and the action property
`RevokedDevicesStayOut`. Most steps only take away, and one lemma for each kind of row covers
the cascades that start in other services. The four steps that give are proved one by one;
they need `Backed`, that a live session has its device, its person's
membership and its assignment, archived or not, and `ClaimIsFresh`: a claim names no device row of its own person, so the completion
that follows it, some steps later, never finds one.

### Programs, teams and refunds: `Merchant_proofs`

`ProgramPublication`, for any number of publish keys, versions, edits and test sessions:
`PublishedWasValidated`, `PublishedPointer`, `PublishedByOneCommand`, `TransitionsAreSynced`.
The trigger freezes a published row, so what publication checked of it stays true; `PInv` adds
that there is one editable version, where the two pointers lead, that each published version
is named by one command, and that the revision in a sync key was reached. The editable version
need not be the current draft (finding 2): the invariant says what still holds then.

`Team`, for any number of people, seats and invitations: `TeamTypeOK`, `SeatsWithinPlan`,
`AnOwnerRemains`. Neither is inductive without the other. A role change of an active member is
not counted against the plan, which is right only because an owner, who takes no seat, cannot
be made a manager: `TInv` says that there is one owner and nobody invites that person.

`RefundExecution`, for any number of requests, executions, deliveries and events:
`RejectedIsNotRefunded`, `SettledAgrees`, `ProcessingCanGoOn`, `RefundsWithinPaid`.
`SettledAgrees` and `ProcessingCanGoOn` speak of the newest event of a refund, when it is the
only one of its second (`Newest`): once it is handled, the row agrees with Stripe and stays so
whatever older reads are still to be applied, and a request in PROCESSING without a lease has a
refund that is pending at Stripe or a newest event that is not handled yet. Of two newest events in
one second they say nothing, and could not (observation (g)). `BInv`
says that a failed refund stays failed, that a request has one refund and none before it was
claimed, that the delivery of the newest event has read what Stripe says now, and that the last
event of a request is above all that were handled. The money needs more, because it is checked
when a refund is approved and created much later. The sum of the committed requests is no
invariant: two events made in one second, applied in the wrong order, show a failed refund as
succeeded again when another request was approved meanwhile. What is bounded is the sum of the
requests that *stand*, committed and not with a failed refund (`StandingWithinPaid`); the
approval counts more than these, every other step adds none, and the refunds at Stripe that
have not failed are those of standing requests, one each, with the amount approved
(`MoneySuffices`).

### Folds: `FoldFacts`

`FoldLeft` and `MapThenSumSet` choose a recursive function over all subsets of a set. That there
is one, and that two agree where their arguments do, is an induction, and the induction rules
take an operator as a parameter that the provers cannot instantiate. The lemmas take the
well-foundedness of strict inclusion instead (`SmallestSubset`): among the subsets for which a
statement fails there is a smallest one, and the step of the induction refutes it. `SumOver` is
the sum of a function; `SumTakesAny`, `SumOfMore`, `SumOfFewer`, `SumOfImage` and `SumOfSame`
are the facts used of it. `MaxIsLast` and `Climbing` (from one number to the next) are the
same argument.

**Only model-checked**: liveness under fairness (`LapsedRewardsExpire`, `EveryCommandEnds`,
`EveryRedeemAnswered`, `UpdatesReachDevice`), which these provers cannot do.

## 5. Not modelled, and the plan

The safety properties of the modelled parts are proved. What comes next:

1. a theorem that the plan of a loyalty operation in `WalletStateChange` is what
   `MembershipLedger` commits, so that the two views of one transaction are joined;
2. the parts of the list below that keep protocol state: campaigns, exports and repricing as
   leased jobs, subscriptions and checkout.

Not modelled, with the reason:

- the hash chain, projection verification and rebuild with drift: the reducer they share is
  modelled, the rest is a fold over stored rows;
- the leases, attempts and dead letters of the expiry worker, which are those of
  `WalletOutbox` around a transaction that `MembershipLedger` has as one step;
- the transaction model itself: that serializable transactions under advisory locks may be
  taken as one step is an assumption of every module but `WalletStateChange` and, for the
  erasure, `CardCustody`;
- wallet campaigns and promotional messages, repricing campaigns, exports and analytics:
  leased jobs of the same shape over read models;
- subscriptions, checkout, invoices and trials: the webhook that feeds them is modelled for
  refunds only;
- sign-in, tokens and external identities: cryptography and third parties hold most of the
  state;
- the archiving of programs when an organization is closed, which queues no sync job;
- front ends, artwork, translations, provider wire formats, and the read models of the
  dashboards, which hold no protocol state.
