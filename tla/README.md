# Verification of jongo-os

TLA+ models of the concurrent core of jongo-os (a Next.js application on
Postgres with a pg-boss worker, which deploys client sites on the Coolify hosting
platform, sells domains, bills through Stripe and runs a small CMS), TLC
configurations that check them on small instances, and TLAPS proofs of the
theorems that matter most. Paths below are relative to the repository root;
`lib/` is `apps/web/src/lib/`, `api/` is `apps/web/src/app/api/`.

## The system

| Component | State it keeps | Operations | How it interacts |
|---|---|---|---|
| Operations log (`lib/operations.ts`) | `Operation` rows: status, attempts, result, error | create or join, start, merge result, succeed, fail, cancel | written by request handlers and by the run route, read by the browser |
| Deploy operations (`lib/deploy-operation.ts`, `api/internal/operations/run`) | what a step records in `Operation.result`, `Deployment` rows | request, one step (start or follow), deploy on push | called by the worker, calls hosting, queues its own next step |
| Operation queue and worker (`lib/job-queue.ts`, `scripts/worker*.mjs`) | pg-boss jobs | singleton send, fetch, complete, fail and retry, expire | posts each job to the run route with a 4 minute timeout |
| Hosting client (`lib/coolify*.ts`) | none (caches, a call-rate gate) | trigger a deploy by a plan of four calls, read a deployment's state | remote calls that can time out after they were accepted |
| Deploy requests (`api/coolify/deploy`, `lib/github-deploys.ts`, Git webhooks, promote) | `Site.pendingCommitSha`, `lastDeployedSha` | Redeploy, Deploy now, promote, push | create or join an operation, queue its first run |
| Domain orders (`lib/domain-orders.ts`) | `Domain` and `DomainCharge` rows | checkout, record payment, fulfil, refund, hourly reconcile, admin retry and refund | Stripe webhooks (at least once), Namecheap (spends money, can time out), Cloudflare |
| CMS outbox (`lib/cms/outbox-dispatcher.ts`) | `CmsContentOutbox`, `CmsContentDelivery`: leases, attempts, receipts | claim, post to every target, record, finish | several workers at once; receivers see events at least once |
| CMS marketing publication (`lib/cms/marketing-publication.ts`) | a release sequence, the publication pointer | release, unpublish, roll back | compare-and-set on a revision inside serializable transactions; writes outbox rows |
| CMS media (`lib/cms/media*.ts`, `scripts/cms-media-cleanup.mjs`) | media states, cleanup jobs with leases; a private and a public bucket | stage, approve, revoke, clean up | object storage and a CDN; releases refer to media; an approval holds the dataset's lock |
| CMS drafts (`lib/cms/documents.ts`) | drafts, revisions, mutation receipts | save with a compare-and-set, idempotent by mutation key | serializable transactions, retried |
| Subscription events (`lib/billing/subscription-events.ts`) | a user's subscription fields, event receipts | apply a Stripe event | Stripe delivers duplicated and out of order |
| OIDC provider (`lib/oidc/`) | authorization codes, consent tokens, failure locks | authorize, consent, redeem | compare-and-set on `consumedAt` |
| Rate limits (`lib/auth-rate-limit.ts`, `lib/rate-gate.ts`, `lib/coolify-rate-limit.ts`) | windows, a next-slot time, an in-flight table | acquire, penalize, count | in front of sign-in, Namecheap and Coolify |
| Backups (`lib/site-backup-start.ts`, `lib/backup-deferral.ts`, `api/ops/backup-reconcile`, `api/ops/site-backup-record`, `scripts/site-backup.mjs`, `scripts/site-restore.mjs`) | `SiteBackup` rows with the outcome of a run and of its last restore; the restic repository | start, schedule, give up after 6 hours, defer, record, withdraw, restore | detached children work over ssh and report to the app at one address after another |
| Staging (`api/sites/[siteId]/staging`, `lib/staging-target-*.ts`, `lib/staging-cleanup-retry.ts`, `lib/coolify-staging-*.ts`) | `Site.stagingEnabled`, `Site.stagingTargetUuid`, the switches in the audit log, one `Operation` per change; the copies at hosting | turn on, turn off, hourly repair of the records, retry of removals | several hosting calls per change; the hourly pass posts to the switch of the app |
| Craft CMS server (`src/craft/src/server`, a standalone editor's server) | documents, revisions, mutation receipts | save, publish, unpublish, discard, restore | one transaction each, compare-and-set on a revision |
| GitHub installations, notifications, usage, invitations, access | their own tables | reads and single-row writes | mostly request and answer |

The hard behaviours are the same everywhere: handlers that interleave at every
`await`, outside calls whose answer is lost, processes that die between two
steps, retries of what may already have been done, and checks that are stale by
the time they are used. `PROJECT.json` lists each hazard at its line.

What makes each part correct: an app has one active deploy and an operation ends
once, truthfully; a paid domain is ordered once and settled; a CMS event is
delivered or given up and targets end with the live publication; a subscription
never comes back from the dead; an authorization code is redeemed once; what a backup
offers can be restored and a dead run blocks nothing; no app gets or removes another app's
staging copy; a rate gate never lets two calls through in one interval.

## Modules

| Module | What it is |
|---|---|
| `OperationLifecycle` | the promise of the operations log: status moves forward, one party finishes |
| `DeployOperation` | requests, operations log, queue, run route and hosting together |
| `DeployOperationProofs` | TLAPS proofs about it: types, locks, lifecycle |
| `DeployBuildProofs` | TLAPS proofs about the deployments operations start and what is said of them |
| `DomainOrders` | checkout, payment, fulfilment, refund, reconcile pass, admin remedies |
| `DomainOrdersProofs` | TLAPS proofs about it |
| `OutboxPromise` | what the CMS outbox promises whatever its workers do |
| `CmsOutbox` | the dispatcher: leases, posts, receipts, outcomes |
| `CmsOutboxProofs` | TLAPS proofs about it, with the refinement of `OutboxPromise` |
| `CmsPublication` | the publication pointer, releases, approved images |
| `CmsMedia` | the stored copies of images: approval, edge cache, leased cleanup |
| `CmsDelivery` | `CmsPublication`, `CmsMedia` and `OutboxPromise` composed, with what the targets show |
| `CmsDeliveryProofs` | TLAPS proofs about it |
| `SubscriptionEvents` | Stripe's subscriptions of one account and the events that tell of them |
| `SubscriptionEventsProofs` | TLAPS proofs about it |
| `SiteBackups` | the backup runs, reports, retention and restores of one site |
| `SiteBackupsProofs` | TLAPS proofs about it |
| `StagingCopies` | the staging copies of a project's apps, the switch, the hourly pass |
| `StagingCopiesProofs` | TLAPS proofs about it |
| `MC*` | small instances for TLC |

A definition marked "Fault:" in a module is not the code. It is a plausible mistake
in the definition after it; replacing the one by the other must make TLC find a
property violated (`PROJECT.json`, "mutants").

### Deploys

The state is the log (`status`, `attempts`, `recorded` = `Operation.result`, `told` =
the message the client reads), the advisory locks (`holder`), where every request
and every execution of the run route is (`request`, `run`), the jobs per operation
(`job`), a hosting call in progress (`call`) and what hosting accepted (`builds`). An
operation is named by the request that created it. One action is one `await`:

| Actions | Code |
|---|---|
| `Arrive` .. `EnqueueFails`, `DirectDeployAnswered` | the callers and `createOrJoinActiveOperation`; a push fails open to a direct deploy |
| `FetchJob`, `JobExpires`, `Respond`, `Answer` | the worker's job, its four minutes and its retries |
| `ReadOperation` .. `ReadSite` | the head of `runDeployOperationStep` |
| `HostingAccepts`, `HostingRefuses`, `AnswerLost` | one entry of the plan of `triggerCoolifyDeploy` each |
| `Triggered` .. `RecordStart` | recording the start, or the refusal |
| `FollowBuild`, `Succeed`, `MergeMessage`, `Fail`, `Requeue` | following a deployment |
| `CatchError`, `RunThrows`, `RunCrash`, `RequestCrash` | errors and crashes |

### Domain orders

`charge` and `domain` are the two tables; `checkout` and `refunded` are Stripe,
`placed`, `owned` and `transfer` the registrar and the registry. `proc` says where each
Webhook, the pass and each admin is; `pass` holds the pass's list, which is read once
and used while it goes stale. An order is `Claim`, `Prepare`, one of `OrderAccepted`,
`OrderRefused`, `OrderUnreachable` and `OrderAnswerLost`, then `Deliver`, `Mark` and `Dns`, or
`Ask` and what follows. A refund is `Refund`, or `RefundAnswerLost` when Stripe returned the money and did not answer, then
`RecordRefund`. The pass takes `Batch` items of each list in no order (the code 10, 5 and 10). Faults are kinds, each of which
happens at most once.

### CMS

`row`, `late`, `due` and `receipt` are the outbox tables (clocks are the flags `late`: the
lease is over, and `due`: the backoff is over); `worker` is where each replica's pass is:
its batch, the event it is on, the posts still to be answered and the answers still
to be recorded. The posts of one event run side by side, so any order of
`PostAccepted`, `PostFailed` and `Record` is allowed.

`CmsMedia` has the two buckets (`private`, `public`), what the CDN keeps (`edge`), where an
approving transaction is (`approval`; the dataset's lock keeps every other write of the dataset out,
`Unlocked`), copies a transaction asked for that outlive it (`overdue`), and the cleanup jobs with
the passes that work on them (`job`, `cleaner`).

| Actions | Code |
|---|---|
| `BeginApproval`, `Promote`, `CommitApproval` | `approveMedia`: the calls to storage are made inside the transaction |
| `ApprovalEnds`, `LateCopy` | the ten seconds of the transaction pass, or a call fails; the copy may still be made |
| `RevokeMedia` | `revokeMedia`: revocation and job in one transaction |
| `ClaimJob`, `RecordOutcome`, `LeaseEnds` | `claimMediaCleanupJobs`, `recordOutcome`: a lease and its token |
| `DeletePublic`, `DeletePrivate`, `Purge`, `CheckPurge`, `CallFails`, `CleanerCrash` | `deleteAllVersions`, `purgeCloudflareMedia`, one call each |
| `Visit` | a visitor's fetch, which an edge keeps |

`CmsDelivery` uses of the dispatcher only `OutboxPromise`, which `CmsOutbox` is shown to keep
(`KeepsPromise`), and names events by
publication revision: every move of the pointer emits the event of its new revision
in its transaction, and a target that accepts an event reads the pointer as it is
then (`readMarketingPublication`, never cached).

### Subscriptions

`stripe` and `created` are Stripe's own state, which goes on changing while events about it are handled; `sent` holds
the events Stripe delivers until they are acknowledged, and `receipts`, `account` and `ended` are the event ledger, the
account's subscription fields and the terminal flags of `StripeSubscriptionState`. `handler` is where each webhook
transaction is and what it has read. `Begin` takes the lock of the account's row (`LockFree`), `Retrieve`,
`RetrieveMissing` and `RetrieveOld` are the calls to Stripe inside it, `Commit` the writes and the receipt. A
failure anywhere rolls back (`Fail`) and Stripe delivers again.

### Backups

`row` and `restored` are `SiteBackup.status` and `restoreStatus`, `repo` the site's snapshots
in the restic repository (a snapshot is named by the run, a safety snapshot by the restore,
that took it), `job` the detached child of each run with the addresses it has tried and
what it has to report, `posts` the reports the app is handling, `pass` the hourly
pass with what it has read.

| Actions | Code |
|---|---|
| `FindRunning`, `StartRun`; `FindDue`, `StartScheduled` | `startSiteBackup` and the pass: the check and the insert are two statements |
| `ReadInFlight`, `Abandon` | the sweep: rows of six hours and more are read once and then marked failed; one whose row a deferral removed meanwhile ends the sweep (`Rest`) |
| `Defer`, `FailRun`, `Save`, `Forget`, `SessionCut`, `ChildDies` | `site-backup.mjs` and the shell it runs; retention follows the snapshot under the host's lock |
| `Send`, `NoAnswer` | `postToApp`: the next address after fifteen seconds, while the first may go on |
| `DecideDeferral`, `RemoveRun`, `RecordOutcome`, `Withdraw`, `RecordFails` | the record route, one statement each |
| `CheckRestorable` .. `RecordRestore`, `RestoreDies` | the restore route, `site-restore.mjs`, its record route |

### Staging

`enabled`, `pin`, `recorded` and `last` are what Jongo keeps of an app: the switch, the
recorded copy and what the audit log says of both. `copy` is hosting: each copy's state, its name and the app
it was made for, which the code cannot see and only the properties read. A name is abstracted to what matching makes of it: the
apps whose name it reduces to (`same`) and those it resembles or cannot be told from (`near`); two apps may share a name, as in
`staging-target-plan.test.ts:102`. `op` is the `Operation` that admits one
change per app, `handler` where each change is, `pass` the hourly pass with its old
listing. `Strict` and `Relaxed` are the two ways of `pickStagingTarget` (`PickTarget`, over `NamedFor` and `Resembling`), `Plan` is `planStagingPins`. Each action is one
call to hosting or one write; best-effort writes and reads of hosting may fail without
being noticed (`WritePin`, `Audit`, `Look`; a read of the records that fails makes every copy a candidate, `Answers`), and an answer
to a removal may be lost whether or not hosting accepted it (`Remove`).

| Actions | Code |
|---|---|
| `Click`, `Retake`, `Finish` | `toggleStagingOnce`: one change per app, taken over after half an hour |
| `ReadEvidence` .. `LookAgain`, `AuditOn` | turning on: the first look, the residue of the last removal (or what a failed first look takes for it), the switch, attach or create |
| `Disable` .. `AuditOff` | turning off: find strictly, remove, look relaxed, forget, audit |
| `ListCopies` .. `Apply` | `reconcileStagingTargets` |
| `ListCleanups` .. `EndPass` | `retryFailedStagingCleanups`: `Take` apps are listed in no order, `Limit` removals retried |

## Runs

| Run | Instance | What it shows |
|---|---|---|
| `deploy_core` | a Redeploy and a push for one app, one runner, no faults | one active operation per app, one deployment per operation, refusals are true, an answered push is built |
| `deploy_faults` | one operation on a service, two runners, any one fault of six kinds | the inductive invariant `IInv`, the refinement of `OperationLifecycle`, truthful outcomes, deployments bounded by 1 + faults |
| `deploy_settles` | one operation, one runner, one crash, error, lost answer or failed queueing | every active operation finishes |
| `deploy_crash` (violation) | one crash of the run route | "once, ever" does not hold: a crash between hosting's yes and the record deploys twice |
| `domain_orders` | a registration and a transfer, two webhook executions, the pass (one item of a list at a time), any one fault, lost answers of orders and refunds included | one handler orders at a time; what is completed was ordered and the customer has it; a charge's refund record agrees with Stripe, or says failed when the answer was lost; final charges stay final |
| `domain_settles` | one registration, one webhook, the pass, an admin, any two faults | a paid registration is settled in the end; an active domain is ours |
| `domain_renew_twice` (violation) | one renewal, one lost answer | a renewal that timed out is ordered again |
| `cms_outbox` | one event, two targets (one switched on and off), two replicas, two faults | a stale pass writes nothing; outcomes agree with receipts; every event settles; `OutboxPromise` is kept |
| `cms_delivery` | three pointer moves, one image, one target, two cleaners, any one fault | delivered means fresh; targets end with the live publication; revoked images stay away; a complete cleanup leaves no copy, whatever a late approval, a visitor or another cleaner still does |
| `subscriptions` | two subscriptions of one account, two webhook executions, any order of events, one failure | the account ends with what Stripe says, moves on only to a newer subscription, every event is acknowledged |
| `backups` | a requested and a scheduled run, a restore, reports at two addresses, any one fault | an offered row has its snapshot; retention and reports in any order leave the site protected; no run blocks the site for ever; no silence past the deadline |
| `staging` | two apps (one whose copies may have the other's name too, or resemble it), two changes, the hourly pass with one retry, three copies, any one fault | no app is given or removes a copy that was neither made for it nor has exactly its name; while names do not cross, one copy per app and a failed removal is made up for |

Bounds. Two is enough for the races: every claim, lock and lease is between the party
that holds it and one other. One operation with two runners covers a job that is
retried while its first handler lives; two requests cover create or join. A third
runner would repeat the second. Retry limits are the code's (3) in `deploy_core`, `deploy_settles` and `deploy_crash` and two in
`deploy_faults`, which keeps that run within its time (its invariants and the refinement are proved for every limit); the
outbox's eight attempts are two, so that an event can be retried
and given up. `MaxOrders` = 3 bounds the orders of a charge (one more than
the violation needs), `MaxRevision` the pointer moves, `MaxFaults` the faults. Three
pointer moves are the fewest with a roll back. `FailedBefore` starts a domain that failed
earlier, so that a checkout takes it again. `cms_delivery` takes the outbox by its promise, because stale and
broken passes are `cms_outbox`'s question; its faults are those of images. Two cleaners are the fewest that can
overtake each other; they are interchangeable, and the run has no liveness property, so it uses that symmetry. It
ends in states where nothing is left to publish, so it does not check for deadlock. Two subscriptions are the fewest with a replacement; with two
status changes each, an event can be about a status that came back. Customers stop in the end, so
`subscriptions` does not check for deadlock either. Two rows, one click and the hourly pass are the fewest runs of a
site that overlap, outlive or withdraw each other; a name of a row that was removed is used
again when nothing refers to it. Time passes in `backups` (the limit is reached) only while a row is left for each fault that can
still happen, so that there is always a run that can succeed. In `staging` copies of one app have its name, those of the other may
have both names or only resemble the first's, so strict and relaxed matches differ and can cross; three copies let an app that has two get
a third. "on" is left out of the clicks there (the run would exceed five minutes): it differs from "replace" only in that residue always
ends the change. The pass lists both apps and retries one.

Fairness. `DeployOperation`: handlers and the worker go on (Node's event loop, pg-boss
polling), hosting answers a call (or its timeout does), an hour passes. A crash
is a fault and never fair; neither is a build's progress: it is the give-up after an hour that
makes operations end. `DomainOrders`: handlers and the hourly pass go on; half an hour and a day
are strongly fair because each new update restarts them and time still passes. `CmsOutbox`: the
dispatcher loops, posts end (five second timeout), leases and backoffs run out. A target need
not accept anything: events are then given up. `CmsDelivery` assumes no fairness: `SiteConverges` says what holds once no event is
open, and `EventsSettle` of `CmsOutbox` that every event is settled in the end. `SubscriptionEvents`: webhook executions go on and
Stripe delivers an event until it is acknowledged; what the customer does is not fair. `SiteBackups`: the hourly passes, the
children and the record route go on; a run that stays in flight is found six hours old some
time, with all else that is in flight (strong fairness of `List(InFlight)`: every other run and pass interrupts it, and the hours still add up). Requests and
restores are not fair, so `RunsEnd` rests on the sweep alone for a restore that died. A list that a removed row cuts short is
possible at every pass but not at all of them (strong fairness of `Marks`): otherwise a site whose old runs are deferred in the moment between
read and update could keep a dead restore for ever. `StagingCopies`: a
change goes on, the pass comes every hour, hosting removes what it accepted to remove; clicks are
not fair.

## Proofs

`DeployOperationProofs` proves for every set of requests, runners and apps, every retry limit
and every number of faults, from `DeployAssumption` alone:

- `TypeCorrect`: `Spec => []TypeOK`;
- `OneActive`: `Spec => []OneActivePerApp`;
- `Inductive`: `Spec => []IInv`;
- `Refinement`: `Spec => KeepsLifecycle`, the log implements `OperationLifecycle`.

`IInv` = `TypeOK /\ LockInv /\ MessageInv`. `OneActivePerApp` is not inductive: from a state
where two requests are both about to insert, it breaks. `LockInv` excludes that state: a
request at its check or insert is alone in holding its app's lock, and at its insert nothing of its app is
active. `MessageInv` is for the refinement: a success is written in two updates, status
first and message second, so the abstract log must know that in between nothing was said
and only one runner is about to speak. The proof has one lemma per action, with a step
per conjunct that the action can disturb; actions that touch neither log nor locks are handled together.

`CmsDeliveryProofs` proves every property of the run `cms_delivery`, for every set of images, targets and cleaners and
every bound, from `DeliveryAssumption` (the bounds are numbers, "none" and "nobody" are no image and no cleaner):

- `TypeCorrect`: `Spec => []TypeOK`;
- `CleanupComplete`: `Spec => []CompleteIsGone`;
- `Fresh`: `Spec => []DeliveredIsFresh`;
- `Converges`: `Spec => []SiteConverges`;
- `RevokedAway`: `Spec => RevokedStaysAway`.

`CompleteIsGone` is not inductive: a cleaner that is about to record success must have looked. `MediaInv` says what a
cleaner has behind it at each step (`Behind`): from the purge on the private object is gone, so that a copy made late
finds nothing to copy and one made before is seen by the check; after the check nothing is left. Together with "an
image under approval is pending" this makes a gone image stay gone (`StaysGone`), which is why neither the order of the two
deletions nor the lease matters for it, but the order of deletion, purge and check does. `DeliveryInv` says that an event is announced
with its revision, that a target which accepted it has read the publication since, and that a target at the live revision shows
the live publication.

`DeployBuildProofs` goes on from there, to the deployments at hosting and to what is said of them:

- `Truthful`: `Spec => []TruthfulOutcome` and `PushesHold`: `Spec => []PushesCovered`, for all constants;
- `ExtraDeploys`: `Spec => []ExtraDeploysNeedFaults`, for all constants;
- `OnceEver`: `Spec => []DeployedOnce` and `RefusalsTrue`: `Spec => []TruthfulRefusal`, when `FaultKinds \subseteq Harmless`: a request
  that dies or whose first run cannot be queued starts nothing again. Every other fault does start a second deployment
  (run `deploy_crash` for a crash of the run route), so this is where the two properties end.

`SourceInv` says where every deployment, record and message comes from, since "the client was told the truth" depends on a handler having read
what it is about to say. `CountInv` counts for each operation the *claims*: the deployments it started and everybody who may still start one (a
handler before its call, a job that waits, a job's retry, a request before its enqueue). Each step keeps the claims, hands one on or, by a
harmful fault, adds one, so they are at most `Allowed` = 1 + faults. That nobody deploys twice is not inductive without the waiting ones: the state with
one deployment and one forgotten job is the bad one. `RefusedAlone` says that who refuses has no claim left.

`DomainOrdersProofs`:

- `TypeCorrect`: `Spec => []TypeOK` and `ActiveHolds`: `Spec => []ActiveIsOurs`, for all constants, admins included;
- `OrdersAlone`: `Spec => []OneOrdering` and `RefundsHold`: `Spec => []RefundsAgree`, under `NoAdmins`;
- `CompletedIsReal`: `Spec => []FulfilledIsReal` and `Final`: `Spec => FinalStays`, under `NoAdmins` and `OneChargeEach`.

`ActiveInv` adds to `ActiveIsOurs` what a handler that is about to write "active" is sure of. `SerialInv` says per charge that of the handlers on it
only one is past the claim, what the others and the pass's list can still do to it (they find it claimed), and that Stripe's side of
a refund fits the step of the one at work and what it will write (`Agrees`: money that went back is known to a handler, recorded, or, when Stripe's answer was lost,
recorded or about to be recorded as a failed refund, which nothing orders). `NoAdmins` is a hypothesis because an admin's retry takes a live claim away; the code
does not prevent it (a hazard in `PROJECT.json`). `RealInv` says what was ordered by the time a charge is marked. `OneChargeEach`
is a hypothesis because of two paid charges for one name the second finds the domain registered and is completed without an order of its own.

`CmsOutboxProofs`, from `OutboxAssumption`: `TypeCorrect`, `OutcomeHolds` (`OutcomeAgrees`) and `PromiseKept` (`KeepsPromise`: the dispatcher implements
`OutboxPromise`, every step a step of the promise or a stutter). An outcome is written from what a pass remembers, so `OutboxInv` says what of every pass's
memory may be relied on (`Honest`), its lease lost or not: the targets it heard accepted the event, "no bad answer" leaves no refusal to record, and
with only good answers and no refused write (`lost`) each target that was enabled all along has its receipt, an answer or a post to make.

`SubscriptionEventsProofs`, from the module's assumption: `TypeCorrect`, `StatusHolds` (`StatusAgrees`), `PaidServed` (`PaidIsServed`), `MovesOn`
(`BoundMovesOn`, an action property). `IInv` rests on the account's lock (`OneHandler`): what the handler inside has read of the account is
still so. The core is `NewsToCome`: as long as account and Stripe differ, an event that was not handled will tell of it.

`SiteBackupsProofs`, from the module's assumption:

- `TypeCorrect`, from `BaseInv`: which reports a child can have and which rows they are about;
- `Restorable`: `OfferedIsRestorable`, from `QuietInv`: as long as nothing failed and no two backups overlapped at most one report is under way,
  and each row that offers a snapshot that is gone is in that report's list;
- `Protected`: `StaysProtected`, from `OrderInv`: there is an order of the runs (by their snapshots) such that retention only removes what has a later one,
  and a row is only withdrawn by the report of a later run. The order is quantified, not a variable of the model.

`StagingCopiesProofs`, from `StagingAssumption`:

- `TypeCorrect`; `NeverAnothers`: `OwnCopies`; `NeverByAnother`: `RemovedByItsOwn` (an action property), from `IInv`: all that is recorded, read and planned about an
  app's copy, in records, changes and the pass's plan, was made for the app or has exactly its name, and a copy starts to go only in the step of a change
  that asked for a removal and had that copy in hand. Nothing is assumed of names: two apps may share one;
- `OnlyOne`: `OneCopy`, from `OneInv`: after one fault at most, without overrun or misreading, one change per app is at work (`Alone`), each copy
  that is there is recorded or about to be (`Known`), and what a change has seen still holds at the step that rests on it (`Sight`). It speaks of apps that share no name
  with a copy of another (`Apart`); before the fault what bears such an app's name is then its own (`Unmixed`). `OneCopy`
  alone is not inductive: a change about to create must have looked, and only one of its two looks can have failed.

All invariants were checked by TLC before they were proved: `SourceInv`, `CountInv` and `RefusedAlone` on `deploy_core` (856,557 states), on `deploy_faults` (2,009,068) and with two
harmless faults (889,547); `OutboxInv` (99,658); `IInv` of `SubscriptionEvents` (197,564); `BaseInv`, `QuietInv` and `OrderInv` (359,803); `IInv` and
`OneInv` of `StagingCopies` (414,359).

Only model-checked: liveness (`Settles`, `NeverLeftUndone`, `EventsSettle`, `EventsEnd`, `RunsEnd`, `SilenceEnds`, `CleanupEnds`), because the prover does not do
fairness and ENABLED. Every invariant and action property of a passing run is stated by a theorem. Under hypotheses that the runs also make or that exclude what the code does
wrong: `DeployedOnce`, `TruthfulRefusal` (harmless faults), `OneOrdering`, `RefundsAgree` (no admins), `FulfilledIsReal`, `FinalStays` (also one charge for a domain).
Sets, retry limits, `MaxFaults` and the other bounds are arbitrary in every theorem; the assumptions of the modules only say that bounds are
numbers, that the sets a counter runs over are finite and that "none" and "nobody" are not members.

## Known limits of the code seen on the way

Each is a hazard in `PROJECT.json`; those without a run have a note there.

- Deploys: an answer lost by hosting makes the next entry of the plan deploy again; when hosting refuses the repeat, the operation says that
  the deploy couldn't start, although the first attempt's is running. A crash in
  the final attempt leaves the operation running with no job. Deploy now and promote leave a queued operation
  without a job when queueing fails, which later requests join (Redeploy closes it).
- Domains: a refund whose answer is lost ends as failed with "Refund NOT issued", although the money went back; a crash between Stripe's refund and its record;
  the give-up after a day, whose claim has no condition (a second pass or an admin may have the charge); a refund or a retry by an admin beside an order in
  progress (a retry takes a live claim away); a database error after an accepted order (taken for a refusal); an order whose answer is lost followed by a
  failed question; two charges for one name. Renewals and transfers that stay in fulfilling can fill the pass's
  lists (10, 5 and 10 rows) each time while another order waits; `NeverLeftUndone` is checked with one charge. The properties name the faults they exclude for this reason.
- CMS: when all targets are switched off between a claim and the read of the targets, the event counts as
  delivered. An event whose every pass crashes is claimed for ever, since only a finished pass gives it up. Image approval copies to the public
  bucket inside a transaction that may time out: the image is then public and still pending, and only an approved image
  can be revoked. An edge fetch that is under way while the CDN is purged is not modelled; the check after the purge looks at one edge.
- Subscriptions: a customer who opens two checkouts before paying either ends with two live
  subscriptions, although the checkout says "One subscription per account"; the second one's checkout event is
  receipted as unrelated for good, so it is paid and never the account's. `PaidIsServed` excepts
  this customer (`doubled`).
- Backups: retention removes snapshots before the report that withdraws their rows; when that report is lost, or the
  session is cut, the rows go on offering a restore that cannot work, and no later run corrects them
  (`restic-forget.ts:18` says it would). `OfferedIsRestorable` is therefore checked without faults. The check for a
  running backup and the insert are two statements, so two can run; only the host's lock keeps
  them apart. The sweep writes "failed" over a success recorded since it read the row (`misjudged`), alerts
  nobody, and ends with an exception when a row on its list was removed since. Safety snapshots of a site are one retention group, so the second restore of a day can cost the first one's.
  A restore has no guard against a backup or another restore.
- Staging: the hourly pass writes records from a listing made earlier, over what a change recorded meanwhile (`misread`). A
  recorded copy that is being removed is attached again when staging is turned on. A create whose answer is lost leaves a
  copy nobody knows (`lost`). A read of hosting that fails looks like no copy: two faults may build a second
  copy or forget a survivor, and so may a change that takes longer than half an hour (`overran`). After one failed first look the second
  poll takes the app's own recorded copy for residue and refuses or removes it (`route.ts:1340` says otherwise). Apps whose names
  reduce to one may be given or remove each other's unrecorded copy, and two that look at once may record the same one. The retry of a failed removal acts on
  the switch it read: an app that was turned on since is turned off again. It lists fifty apps in no order and retries three, so copies
  that are kept on purpose can crowd out a failed removal.

## Not modelled

Prices, permissions, validation, rendering and audit rows; the hosting client's one-to-one
calls; what a backup or a staging copy contains (volumes, dumps, databases, content, addresses, servers) and promote's
copying of it; the nightly offsite copy; how the audit log finds an app's last switch; uploading and decoding images; drafts and authorization codes (one
compare-and-set each, which the database decides); rate limits; pages and components; GitHub tokens, notifications, usage and
the repositories (single-row reads and writes). External services are modelled by what the code can see of them:
they accept, refuse or do not answer, and may have accepted when they did not answer (deployments, orders, refunds, creating and removing copies).

## Plan

1. Proofs: which hypotheses can be weakened: `OneOrdering` beside an admin who only refunds; `DeployedOnce` with a late original, up to the
   number of faults that can start something again.
2. Authorization codes and the document life of the Craft server; the rate gate.
