# A formal model of looply-server

looply-server is a NestJS API. Organizations keep products, ask customers for
feedback through single-use review links, and pay through Clerk. This directory
holds TLA+ modules translated from that code, TLC configurations that check them
on small instances, and TLAPS proofs of the main properties for every value of
the constants. Paths below are relative to the repository's `src/`.

## Inventory

| Component | State it keeps | Operations | What makes it correct |
|---|---|---|---|
| Feedback requests and submissions (`feedback/feedback.service.ts`) | `feedback_requests`, `feedback_submissions` | create, public view, public submit, list, get, cancel, edit | one answer per link, none after a cancel, status never goes back, stamps agree with status, an acknowledged answer is stored |
| Public token guard (`feedback/guards`) | none; passes the row it read to the handler | resolve a token | an unknown token is a 404, the handler must cope with an old row |
| Invite mail (`mail/`) | none (SMTP is external) | send the invite | `emailStatus` tells the truth |
| Billing webhook (`billing/billing-webhook.controller.ts`) | the BullMQ queue | verify, enqueue under the svix-id | a redelivered event is harmless |
| Billing processor (`queue/processors/billing-webhook.processor.ts`) | `processed_webhook_events` | mark, dispatch, skip | at most one reconcile per event, no event lost |
| Billing service (`billing/billing.service.ts`) | billing columns of users and organizations, cache entries | reconcile, read-through, entitlement | row and cache come to show what Clerk has; paid access is granted until the period ends |
| Cache (`cache/cache.service.ts`) | Redis keys with a TTL | get, set, del, getOrSet | failures never reach a request; staleness is bounded |
| Redis connections (`redis/`, `queue/queue-config`) | the clients' status, attempts and queued commands | connect, close, retry, send, answer, shut down | no request waits for the cache for ever; no command of the queue is lost |
| Users (`users/`, `queue/processors/user-sync.processor.ts`) | `users`, the organization snapshot, its cache entry | syncFromClerk, snapshot | the snapshot is what the user's row named lately; the row changes only when the user syncs |
| Products (`products/products.service.ts`) | `products`, `organizations` | create, list, get, update, remove | tenancy; a product with feedback requests stays |
| Clerk client (`clerk/`) | none (Clerk is external) | user, organization, subscription, token checks | a failure is not mistaken for an answer |
| Request pipeline (`auth/`, `rate-limit/`, `billing/guards`, `common/filters`, `app.module.ts`) | `request.userId`, throttler counters | guards in order, what they throw | limits hold per user, the plan decides |
| Pagination (`feedback/pagination.util.ts`, `findAll`) | the cursor held by the client | next page | no row is skipped or repeated |

### Not modelled

- Bootstrap and configuration (`main.ts`, the getters of the `*-config` services), DTO
  validation and Swagger decorators, the transform interceptor, `PrismaService`: they keep
  no state and no order of their own. What a configuration value does is modelled where
  it is used (TTLs, limits, attempts, the options of the Redis connections).
- Operations of the Clerk client and `CacheService.del`, which nothing calls.
- The time between retries of a job or a connection: a retry comes eventually.
- A cache command that a reconnect sends again much later. The cache modules take a
  command to be done within a tick; `RedisConnection` has the resending, without the
  values. The hazard is listed.
- The `user-sync` processor calls `syncFromClerk` and nothing else, and nothing enqueues
  its jobs: `OrganizationSnapshot` covers it as one more caller.

### How the parts interact

- `POST /feedback-requests` inserts a row, mails a link with a token of which only
  the hash is stored, and records whether the mail went out. The customer's GET and
  POST carry the token; the guard turns it into a row and hands **that copy** to the
  handler. The owner's PATCH reads the row again (`findOne`) and then writes.
- Clerk posts subscription events through svix; the webhook controller only
  enqueues. A BullMQ worker writes the marker of the event and reconciles through
  `BillingService`, which reads Clerk and writes row and cache.
- `BillingGuard` and `GET /billing/status` read the same rows through
  `CacheService.getOrSet`; a row that was never synced is reconciled on that read.
  The organization comes from the user's snapshot.
- Products and feedback requests are scoped by the organization of the snapshot, which
  `syncFromClerk` copies from Clerk and `getOrganizationSnapshot` reads through the cache.
- The guards share the request object: `ClerkAuthGuard` sets `userId`, the limiter and
  `BillingGuard` read it. Their order is the order of the imports of `AppModule`.

### What is hard here

- **Read, await, write.** Nearly every handler decides on a row it read before an
  `await`. Only `submitPublic` and the first view repeat their condition in the
  `WHERE` clause of the write; cancel and edit do not.
- **Partial failure.** Mail and status, claim and answer, marker and reconcile,
  row and cache are pairs of effects of which the second may fail.
- **At-least-once delivery.** svix posts again, BullMQ retries, a stalled job is
  handed to a second worker while the first still runs.
- **Read-through caches** with swallowed failures, JSON values and a TTL.
- **Outages of Redis**, which the cache must survive by failing fast and the queue by
  waiting, over two connections with opposite options.
- **Pages over a moving table.** A cursor names a row that may change while the client
  holds it.
- **Errors as values.** The Clerk client turns failed requests into null, which
  callers store as "no subscription" and "no organization".

## Modules

| Module | Models | Composes |
|---|---|---|
| `SingleUseLink` | abstract: a link is issued, takes one answer at most, may be revoked | |
| `FeedbackRequests` | `feedback.service.ts`, its two controllers, the token guard, the invite mail | implements `SingleUseLink` |
| `BillingSync` | webhook controller, queue, processor, both reconciles, the read-through of `getUserBilling` and `getOrgBilling` | |
| `Entitlement` | `BillingGuard`, `isEntitled`, `getStatus`, the cached reads with TTL and JSON | takes from `BillingSync` that a reconcile is a row write, then a cache write |
| `RecentValue` | abstract: an answer is a value that was current within a window | |
| `OrganizationSnapshot` | `syncFromClerk`, `getOrganizationSnapshot` | implements `RecentValue` |
| `Catalogue` | products, organizations, and the scope of feedback requests | takes from `OrganizationSnapshot` that a snapshot names what the user's row named lately (`recent`) |
| `Listing` | pages of `findAll` and a client's walk over them | the life cycle of a request, as `FeedbackRequests` has it |
| `RequestPipeline` | the three global guards, the limiter's store, the exception filter | takes from `Entitlement` that the plan check answers or throws |
| `RedisConnection` | the cache's and the queue's ioredis connections | |
| `FeedbackRequests_proofs`, `BillingSync_proofs`, `Entitlement_proofs`, `OrganizationSnapshot_proofs`, `Catalogue_proofs`, `Listing_proofs`, `RequestPipeline_proofs`, `RedisConnection_proofs` | theorems | extend the module they are named after |
| `MCFeedbackRequests`, `MCBillingSync`, `MCEntitlement`, `MCOrganizationSnapshot`, `MCCatalogue`, `MCRequestPipeline` | values of the constants, symmetry | extend the module they are named after |

### FeedbackRequests

`rows` and `answers` are the two tables. Each HTTP call is an element of `Calls`;
`pc` says which statement it executes next, `seen` is the row the guard or `findOne`
returned. One action is one database statement or one mail; everything the handler
does between two `await`s belongs to the action before. `submitPublic`'s transaction
is two actions, `SubmitClaim` and `SubmitCommit`, joined by the row lock of its
UPDATE: `UpdateRow` is enabled only while the row is not locked, and reads see the
committed row. (PostgreSQL evaluates the WHERE clause again after such a wait, which
is what evaluating it at the time of the write does.)

| Code | Actions |
|---|---|
| `create` | `CreateInsert`, `SendInvite`, `RecordSent` or `RecordSentThrows`, `RecordFailed` |
| guard `canActivate` | `ResolveToken` |
| `getPublicView` | `ViewCheck`, `ViewWrite` |
| `submitPublic` | `SubmitCheck`, `SubmitClaim`, `SubmitCommit` |
| `update`, cancel | `CancelRead`, `CancelWrite` |
| `update`, edit | `EditRead`, `EditWrite` |
| 403 and 404 of either | `TurnAway` |
| a statement throws, the process dies | `Abort` (rolls an open transaction back) |

The data is abstracted to what the properties tell apart: customer fields and the
answer's text are gone, an answer is the call that gave it, a token is who was told
it (`TokenDisclosed`), a date is a natural number.

### BillingSync

A subscription is a version number: the n-th change of a payer at Clerk is version n.
`row` and `cache` hold the version last written, `NoPlan` for what a null
subscription writes, `Never` for a row with `billingSyncedAt` null. `Deliver` is the
webhook controller (`queue.add` with the svix-id as job id), `Mark` the insert into
`processed_webhook_events`, then `Fetch`, `Store` and `CacheState` are `reconcile*`.
A user's row must exist (`update`), an organization's is made (`upsert`): constants
`Users` and `Orgs`. `ReadCache`, `ReadRow` and `Fill` are `getOrSet` in an HTTP call,
which runs the same reconcile when the row was never synced. BullMQ is external:
`Take`, `Stall`, `Throw`, `Retire` say what the code relies on: an attempt counts when it
ends, a stall does not count as an attempt, and a job that stalls more than `MaxStalled`
times fails, whatever attempts it has left (the processor sets no `maxStalledCount`, and
BullMQ's default is 1). `Die` ends an attempt at any step of `FailAt`. `started` and
`missed` are history variables; `missed` has the payers whose last reconcile ended
without their version in the row, because it died, found no row or was told nothing.

### Entitlement

`row["solo"]` and `row["org"]` are the billing columns that concern one caller. An
entry of `cache` has a time of expiry and the JSON form of the state, in which
`periodEnd` is a text; `Throws` is `state.periodEnd.getTime()` on such a text. A call
goes through the plans it asks for, Solo first, each by hit, row and fill; the guard
stops at the first plan that entitles, the status call reads all. `past` is a history
variable: what each row held during the last `CacheTtl` ticks. The caller's
membership is fixed in a behaviour; how it changes is `OrganizationSnapshot`.

### OrganizationSnapshot

A profile is an email and an organization. `clerk` is what Clerk has, `rows` the users
table, `cache` the entries with their expiry; an entry `null` is a miss, as `getOrSet`
treats it. A call is a sync or a read and takes one step per request or statement:

| Code | Actions |
|---|---|
| `syncFromClerk` | `FetchUser`, `FetchOrg` (an error is "no organization"), `Upsert`, `CacheUser` |
| `getOrganizationSnapshot` | `ReadCache`, `ReadRow`, `Fill` |
| Clerk, time | `ClerkChanges`, `Tick` |

`past` is a history variable: the organizations a row named in the last `CacheTtl` ticks.
Under the mapping `value` = the row's organization and `window` = those in `past`, the
module implements `RecentValue`. A handler takes less than a tick, so an answer may be
older than the TTL by the time of one handler.

### Catalogue

`orgs`, `products` and `requests` are tables. `recent[u]` is what the row of `u` named
lately, so what a snapshot of `u` may name; each look at the snapshot picks one of them.
The row changes only when the user syncs (`Sync`), so it is not where the user is: who
left an organization keeps it until he syncs, and a sync whose request for the membership
failed stores none for who never left (`clerk.service.ts:108`). A call is `Begin`, `Snapshot`,
then what its operation does:

| Code | Actions |
|---|---|
| `ProductsService.create` | `Snapshot`, `Create` (one transaction: upsert of the organization, insert) |
| `ProductsService.findAll` | `Snapshot`, `FindOrg`, `Find`, or `SnapshotAgain` for the empty list or 403 |
| `syncFromClerk`; old cache entries expire | `Sync`; `Settle` |
| `findOne`, `update`, `remove` of a product | `FindOrg`, `Find`, then `Edit`, or `Count` and `Delete` |
| `FeedbackService.create`, `findOne`, cancel | `FindOrg`, `Find`, then `Ask` or `Cancel` |
| `reconcileOrgBilling`'s upsert | `ReconcileOrg` |

The foreign keys are guards of `Ask` and `Delete`; a violated one, like a row that is
gone, is a 500. Ids are not used again.

### Listing

`requests` is the organization's part of the table. `FirstPage` and `NextPage` are calls
of `findAll`: the rows of the WHERE clause in `(createdAt, id)` order from the cursor's
row on, less the first (`skip: 1`), `limit + 1` of them. What Prisma makes of `cursor`
and `skip` (a range by the cursor row's values, then an offset) is external. `steady` is a
history variable: the requests that have matched since the walk began. A row becomes
visible up to `Lag` after its `createdAt`.

### RequestPipeline

`Guards` is the order of imports in `app.module.ts`; `Authenticate`, `Throttle`,
`CheckPlan` are the guards, `Answer` is the exception filter, `Handle` the handler. The
store of `@nestjs/throttler` is external: one bucket per handler and tracker, a hit
counts for `ttl`, a bucket over its limit is blocked for `ttl`.

### RedisConnection

`client[k]` is the status of the client of connection `k` ("cache" or "queue"), `command`
what became of a request's command. The options in `redis-config.service.ts` and
`queue-config.service.ts` are `OfflineQueue`, `MaxRetries`, `AfterClose`. ioredis is
external: a broken connection is noticed, commands without a reply are sent again after a
reconnect, and every `maxRetriesPerRequest + 1` failed connections the waiting commands
are rejected.

## Runs

The configurations of `RedisConnection` leave TLC's check for deadlock on. The others set
`CHECK_DEADLOCK FALSE`: there are finitely many calls, events and ticks, and a behaviour
that has used them up stops.

| Run | Shows |
|---|---|
| `feedback` | all interleavings of three calls on one request: answers agree with the status, the acknowledged answer is the stored one, the row lock isolates the submit, stamps agree with the status, SENT is truthful, status never goes back, the first view is stamped once, the copy a handler works from is never ahead of the row, and the refinement of `SingleUseLink`; every call is answered, although writers wait for the lock and transactions abort |
| `feedback_cancel_race` (violation) | cancel checks COMPLETED on an old read: a submit that commits in between is overwritten, the request ends CANCELLED with a stored answer. The controller's documentation promises a 409 |
| `billing_once` | one event starts one reconcile at most, with redelivery, retired, retried and stalled jobs and failures at every step |
| `billing_convergence` | with one worker and rows synced before, but attempts that die before any step, requests to Clerk that fail, and jobs that stall: a change is lost only if the queue gives its event up before the marker (`Exhausted`) or a reconcile is lost behind it (`missed`); every other payer's row and cache come to show what Clerk has; the cache is never ahead of the row |
| `billing_retry` (violation) | one failed UPDATE and five attempts: the attempt that fails **after** the marker is never made up for, since the retry finds the marker and skips. `queue-defaults.ts:17` calls the queue "redelivery-tolerant by design", of a "transient-failure-tolerant profile" |
| `entitlement` | a grant, a denial and a shown status are each justified by what a row held within the life of a cache entry, whatever interleaves and however cache writes fail |
| `entitlement_grace` (violation) | a canceled subscription in its paid period makes the call fail on a cache hit: `periodEnd` is a string there |
| `listing` | a walk without a status filter returns every request that was there all the while, none twice, and its cursor only moves on, whatever is created or changes between the pages |
| `snapshot` | the refinement of `RecentValue`: whatever syncs, reads, failing requests to Clerk and lost cache writes do, a snapshot names an organization (or none) the row named within the life of an entry |
| `catalogue` | a request keeps its product and names the product's organization, although `remove` counts and deletes in two steps; no write reaches an organization its caller's row did not name lately, although writes go by id alone; who is turned away over a product that is there was told by his own look at the snapshot that he is elsewhere, never by a row made too late |
| `request_pipeline` | nobody passes the limiter more often than the limit, or is refused for another's hits, and at the billing guard the plan decides |
| `redis_connections` | commands of the cache are settled even in an outage without end, the cache is used again when Redis stays up, no command of the queue fails, and those that waited are answered |

### Further configurations

These state what a comment, a document or a message of the repository says and the code
does not do; TLC finds each one violated. They are kept as a record, and to be run again
when the code changes.

| Configuration | Property | What happens |
|---|---|---|
| `FeedbackEditRace.cfg` | `EditsOnlyWhilePending` | an edit that read PENDING changes message or expiry of a request that is open, answered or cancelled by then. `feedback.controller.ts:160` says both are "only editable while the request is still PENDING" |
| `FeedbackInviteStatus.cfg` | `FailedMeansUndelivered` | emailStatus FAILED for a delivered invite: the UPDATE to SENT is inside the `try` of the mail. `feedback.service.ts:87`: "emailStatus tracks delivery" |
| `FeedbackSubmitConflict.cfg` | `ConflictMeansSubmitted` | a submit that loses to a cancel is told that the request "was already submitted" (`feedback.service.ts:197`) |
| `BillingClerkFailure.cfg` | `FailureIsNotNoPlan` | a failed request to Clerk is stored as "no subscription", and the job completes |
| `ListingFilter.cfg` | `WalkComplete` | with a status filter, the row the cursor names leaves the filter between two pages; `skip: 1` then drops the row behind it. `pagination.util.ts:4` calls the id "a sufficient, unambiguous resume point" |
| `SnapshotStaleEntry.cfg` | `NoStaleEntry` | a read that holds an older row fills the cache after a sync's write-through. `users.service.ts:53`: "no stale-read window" |
| `SnapshotSyncOrder.cfg` | `SyncKeepsOrganization` | of two overlapping syncs, the one that asked Clerk first writes last. `users.service.ts:50`: "syncFromClerk always has the freshest value in hand" |
| `SnapshotClerkFailure.cfg` | `SyncKeepsOrganization` | the request for the memberships fails, and the sync stores that the user has no organization |
| `SnapshotEmailMoves.cfg` | `SyncUpserts` | an email moved at Clerk from a user not synced since: the unique column makes the new owner's sync a 500 |
| `CatalogueCancelFirst.cfg` | `CancelledRequestsDoNotBlock` | the 409 of `remove` says "Cancel them first." (`products.service.ts:130`), but cancelled requests count too |
| `CatalogueEmptyList.cfg` | `EmptyListMeansNoProducts` | the two looks of `findAll` at the snapshot differ: an empty list for an organization with products |
| `CatalogueDisplayData.cfg` | `ReconcileOwnsDisplayData` | a row made by `reconcileOrgBilling` has no name, slug or image, and `create` does not add them. `products.service.ts:47` says the reconcile "owns that" |
| `RedisQueueDisabled.cfg` | `DisabledIsIdle` | with `QUEUE_ENABLED=false` the queue's client connects, and commands wait for it, all the same |

`FeedbackFourCalls.cfg` passes: the safety properties of `feedback` with four calls instead
of three, symmetric, and no liveness.

### Bounds

- `feedback`: one request, since no handler touches two, new or made earlier (`Init` has
  both); three calls, two that race and one that came before; one message,
  `Expiries = {0, 3}`, the past and beyond the end of time; `LinkTtl = 1` and
  `MaxTime = 2`, so that the link expires by itself. Liveness is checked in the same
  run, so it uses no symmetry.
- `billing_once`: a user and an organization, an event of the user and one that names
  no payer, two workers (a stalled job runs twice), one reader, two attempts, two
  failures at any step. The marker is per event, so more events add nothing.
- `billing_convergence`: one worker, one reader, two events of one user, two attempts, one
  stall a job survives, two failures, which may be a death at any step, a failed request
  to Clerk, or a stall. Two events are the least for an old version to be able to win;
  two failures are the least to use up the attempts or the stalls of a job, and let one
  follow a lost reconcile. With two workers, or a first read that reconciles, an older
  fetch may be stored last; nothing in the repository promises otherwise, so the run stays
  within one worker and synced rows, and the hazard is listed.
- `billing_retry`: as `billing_convergence`, with five attempts, the code's number, and one
  failure, of the UPDATE.
- `entitlement`: one call at a time (calls share nothing but the cache, and a call
  already meets entries filled by earlier ones and by reconciles), two reconciles that
  may overlap, entries that live two ticks, three ticks in all; no subscription, a
  canceled Solo plan paid until the last tick, a running Org plan, each in either row,
  so that each row also meets the other's plan.
- `listing`: four requests, pages of two, so that there are two or three pages and rows
  before and behind a cursor; three times and a lag of one, so that rows tie and appear
  late.
- `snapshot`: one user (no step of the run relates two: emails are empty here, and the
  run on moved emails has two users), two calls that overlap, an organization or none,
  entries that live two of three ticks, two changes at Clerk and one failed request to it.
- `catalogue`: one user, two calls, two organizations, one product, one request, one
  sync. A user whose row changes has calls in two organizations, which is what a second
  user would add; one product that can be removed and asked about is enough for every
  race on it, and the theorems hold for any number.
- `request_pipeline`: three requests of two users from two addresses, on a route with a
  plan and a public one, with a limit of one hit per tick and three times: the limit is
  reached, blocks, and is lifted.
- `redis_connections`: two commands per connection (one that waits and one that comes
  later), an allowance of one retry, so that a closed connection may or may not flush.
  Outages are unbounded in number and length.

### Fairness

A handler or worker that runs takes its next step (Node's event loop; weak fairness of
`Proceed` and of `Process`). svix posts until answered (weak fairness of `Deliver`).
BullMQ hands out waiting jobs in order, so a job is not passed over for ever although
the worker is busy in between (strong fairness of `Take`). Entries run out (weak
fairness of `Expire`). Nothing is assumed of customers, Clerk's changes, failures,
stalls or the removal of finished jobs.

In `RedisConnection`, start-up runs `onModuleInit`, and the clients' timers and their
sockets' events come: weak fairness of connecting, closing, retrying and replying. Nothing
is assumed of outages, new commands and the shutdown; the properties say themselves for
which outages they hold (`<>[]up`, `<>[]~up`).

## Proofs

Checked by TLAPS for every value of the constants, from the named assumptions of the
modules (null is not a value of the data, workers and readers are distinct, ids of
products and requests are distinct, dates and bounds are natural numbers). Every
invariant and every action property of the passing runs has a theorem; what stays with
TLC is named at the end.

**FeedbackRequests.** `Inv` is the conjunction of the checked invariants and is
inductive as a whole, no part of it alone:

- `TransactionHoldsRow` makes `AnswerMatchesStatus` survive the commit: between claim
  and insert nobody else can move the row on or store an answer.
- `HandlerKnowledge`, an auxiliary conjunct that no run checks by itself, is what is known
  from where a handler is (the row it works on exists, an invite about to be recorded was
  delivered). It says nothing of what cancel and edit have read: that may be overtaken,
  which `feedback_cancel_race` and `FeedbackEditRace.cfg` show.
- `CopyNeverAhead` is what is true of every copy: it may be behind the row, never ahead of
  it (`CopiesLag`). `ViewWrite` takes its branch from such a copy; that a request seen
  opened is never PENDING again is what keeps `LifecycleStamps`.
- `AcknowledgedAnswerStored` rests on the same lock.

The lemma `RowsStep` says everything one step may do to the life cycle of an existing
row; the steps of the invariants, `NeverBack`, `FirstViewStays` and the refinement use
it and need not look at the actions again. `SingleUse` is the refinement: the initial
states agree, a claim that commits is `Answer`, a cancel is `Revoke`, an insert is
`Issue`, every other step stutters.

**BillingSync.** `MarkerInv` joins the types of the variables involved,
`AtMostOneReconcile` and `MarkerHasOneHolder`. The count alone is not inductive: one
needs that a worker past the marker is alone with its event and that nobody has
started what it is about to start, and that a marker stays for ever, which stalls,
retries and redelivery do not change. `TypeInv` adds the types of the rest; that
`attempts` never exceeds `MaxAttempts` needs that a job which waits has an attempt left
(`AttemptsLeft`) and that only a job at work has an owner, who is at it (`OwnersWork`),
and what an actor past `Fetch` holds depends on where it is (`KnowsWhat`).

`CacheFollowsRow` has a hypothesis, `OneReconciler`: one worker at most, and no reader that
reconciles (there are none, or all rows were synced before). It is what the run that
checks `CacheNotAheadOfRow` has, and it is not only technical: two reconciles may fetch in
one order and store in the other. Under it `OrderInv` orders the versions along their way:
what the worker is about to store is not older than row and cache, nor than what others
are about to cache, and that is not newer than the row (`Carries`); entry, row and Clerk
follow each other (`InLine`). A failed request is stored as no subscription, which is no
version, so the order of the versions goes through it: hence the second half of `Carries`.
The number of readers, events, attempts and deaths is not limited, nor where they die.

`NoChangeLost` is the safety half of `Convergence`, for any number of events, attempts,
stalls and deaths at any step, from `OneReconciler` alone. It says in which ways a change
is lost: a synced row shows what Clerk has, or an event of its payer is ahead, or a worker
is on its way from the marker to the row, or the queue gave an event of the payer up before
its marker (`Exhausted`), or his last reconcile was lost behind it (`missed`). The fourth
is what attempts and `maxStalledCount` admit; the fifth is the disagreement that
`billing_retry` and `BillingClerkFailure.cfg` show. That nothing else loses one, not
posts that repeat, retired jobs, or a marker that another attempt wrote, is what has to be
proved: a job that is over without marker used its attempts or stalls up (`JobStands`),
and what a worker stores may be old by then, but an event without marker makes up for it
(`StoresShown`), as long as no second worker writes that marker meanwhile, which is where
`OneReconciler` is used.

**Entitlement.** The argument is that of `OrganizationSnapshot`: of every entry, that it
holds what its row held at some time not more than `CacheTtl` before it expires
(`EntriesRecent`); of every call, that what it holds is a recent state of a plan it asks
for (`HoldsRecent`), and that it has read every plan it is past (`InOrder`). The second
decides grants, the third is needed besides for denials: a plan that was not read
entitles nobody and must not be counted as a denial. JSON changes the form of a state
and not what it grants (`JSONState`), so it does not matter for either which of row and
entry was read.

**OrganizationSnapshot.** `Recency` is the refinement of `RecentValue`. A cached
organization is recent because of when it was written, which the answer does not show;
so `Inv` says of every entry that for some `t` not more than `CacheTtl` before its expiry
the row named it at `t` (`EntryRecent`), and of every call past its read or upsert that
what it holds was named in this tick (`CallKnows`). A tick forgets what an entry that is
still alive cannot name. An upsert is `Write`, a tick `Forget`, a hit or a fill `Read`.

**Catalogue.** `Inv` adds to the types and to `RequestsFollowProducts` that the
organizations of products have rows, and what each call knows from its earlier reads
(`Knows`): the organization it is scoped by is a recent one of its user, and the row it
found, if it is still there, belongs to that organization. The last holds although others
edit and delete meanwhile, since no step changes the organization of a row and ids are
not used again (`TablesEvolve`, `OthersKnow`). `Tenancy` and `Refusals` follow from it
step by step. Both speak of what snapshots name, not of where a user is. In `Refusals`
the two looks of `findAll` may differ: what it says of an empty list or a 403 is that the
first look named another organization than the product's (which the second may then
name: `CatalogueEmptyList.cfg`).

**Listing.** Pages are defined by counting: a page is the rows with fewer than `limit`
rows before them. That a non-empty set of rows has a first and a last element is proved
without an induction, from the well-foundedness of strict inclusion on the subsets of a
finite set (`MinimalElement`). `Inv` says what a cursor means: what the walk was given
lies at the cursor or before it (`GivenBefore`), and, without a filter, what stayed and
was not given lies behind it (`RestBehind`). The first half keeps pages disjoint and
moves the cursor on, for any filter. The second is where a filter matters: the row of
the cursor leaves the filter, `skip: 1` drops another row, and `RestBehind` is lost. So
`UnfilteredWalkComplete` is stated for `Filter = None`, and `ListingFilter.cfg` shows
the violation. New rows do not break it, late ones included, since only requests visible
from the start of the walk are owed.

**RequestPipeline.** `LimitHolds` counts back from the hit of a request; the inductive
form counts back from any time, for every bucket of the limiter (`BucketsHold`). It rests
on who hits which bucket: a hit is stored under the route and the sender of its request
(`HitOfSender`), which it is because nothing reaches the limiter before authentication
(`InOrder`). A bucket is blocked only by more than `limit` hits within a `ttl`
(`BlocksEarned`), so `RefusedForOwnHits` may count two `ttl`: that of the hits and that of
the block. `PlanDecides` needs no more than that `userId` is the bearer when the
billing guard runs.

**RedisConnection.** `TypeOK` and `QueueWaits` are inductive together; the commands of a
connection only change with its own events (`ChangedEffect`), which keeps the queue's safe
from the cache's flushes.

**Only model-checked.** Liveness (`EveryCallAnswered`, `Convergence`, `CommandsSettle`,
`UsableAgain`, `QueueAnswers`), which the prover does not support, and the three
disagreements with the documentation, which are counterexamples.

## Plan

1. The grace period of `Entitlement` (`GraceServed`) with the hypothesis under which the
   code keeps it.
2. Convergence of billing with the row missing at first, should the code come to handle
   an event that precedes the user's first sync.
3. The values of cache commands in `RedisConnection`, so that a late resent SET can be
   followed into the staleness of `Entitlement` and `OrganizationSnapshot`.
