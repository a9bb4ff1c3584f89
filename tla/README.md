# Inlet in TLA+

Inlet is a self-hosted service for in-product feedback, crash reports, product
analytics and remote configuration. This directory holds TLA+ models of its
core logic, the TLC runs that check them and TLAPS proofs about them. Every
definition is translated from the sources; `PROJECT.json` maps each one to the
lines it stands for. Paths below are relative to the repository; `services/`
and `lib/` are `apps/api/src/services/` and `apps/api/src/lib/`.

## 1. Inventory

The API is one Node process (or several) over PostgreSQL at READ COMMITTED, an
S3 compatible object store, ClickHouse for analytics events, and Slack
webhooks. A handler is asynchronous code: between two `await`s anything may
happen. Locks exist where a transaction says `for update`; a statement outside
a transaction commits on its own.

| Component | State | Operations | Interacts with | Hard behaviours | What makes it correct |
|---|---|---|---|---|---|
| Submission intents (`services/intents.ts`) | `submission_intents`, `submissions` | create, finalize, replay | attachments (binds), store (retag), Slack queue (enqueue) | client retries, racing finalizations, rollback after the store was changed | one submission per intent; every retry gets the answer the first one earned |
| Attachments (`services/attachments.ts`, `lib/storage.ts`) | `attachments`, objects and their `inlet-state` tag | upload, discard, bind, lifecycle expiry | intents, store | two stores without a common transaction; stale reads | no live submission without its screenshots; no bytes without an owner |
| Deletions (`services/submissions.ts`, `services/projects.ts`) | the same rows | delete a submission, a database, a project | purge queue, Slack queue | cascades against running finalizations | the bytes follow the rows; deleted submissions are not announced |
| Purge queue (`services/purge.ts`) | `storage_purge_queue` | enqueue, claim, delete objects, record | store | leases, dead workers, partial failure | no object forgotten, every row settled |
| Slack deliveries (`services/notifications.ts`) | `notification_deliveries`, `slack_notifications` | enqueue, claim, render, send, mark | Slack | leases against real time, throttling, lost answers, death after a send | at most one message except for what cannot be known |
| Memberships, invitations (`services/memberships.ts`, `services/invitations.ts`) | membership tables, `invitations` | set role, remove, override, invite, revoke, redeem | access control reads them | check-then-write without a lock | the last Admin stays but for races and invitations; links used once; revocation holds |
| Access and credentials (`services/access.ts`, `credentials.ts`) | sessions, keys | look up, rotate, revoke | every route; cached by config delivery | stale caches | a revoked key stops working |
| Forms and hosted pages (`services/forms.ts`, `hosted-forms.ts`) | drafts, versions, logo, slug | autosave, publish, upload a logo | store | stale drafts, replaced objects | versions immutable, drafts not overwritten |
| Analytics ingest (`services/analytics-ingest.ts`, `analytics-catalog.ts`) | ClickHouse events, `inFlight`, installation locks, name catalogue | ingest a batch | ClickHouse, catalogue | duplicates in flight, inserts that fail and still land | an event is stored once |
| Analytics erasure and retention (`analytics-erasure.ts`, `analytics-retention.ts`) | pending erasures, removals | erase a person, drop old data | ClickHouse, ingest | ingest against erasure, outages | erased data does not come back |
| Analytics queries (`analytics-query.ts`, ..., `analytics-slots.ts`) | slots and waiters | query | ClickHouse | waiters, timeouts, aborts | never more slots than capacity, no waiter lost |
| Remote config, server (`config-publish.ts`, `config-draft.ts`, `config-delivery.ts`, `config-erasure.ts`) | drafts, versions, active version, caches | save, publish, roll back, unpublish, fetch | SDK config client | a load racing an invalidation | a fetch after a publish sees it |
| Crash ingest (`services/crashes.ts`, `routes/crash-reads.ts`, `erasure-deletes.ts`) | reports, groups, their users, releases, rollups | ingest, resolve, delete a group, evict, erase a user | Slack queue, erasure | statements of several transactions interleaved, eviction against erasure, a state read without a lock | affected users counted once, a regression announced once, a latest report for every group, the cap |
| Limits and caches (`lib/buckets.ts`, `address-ceiling.ts`, `lru.ts`) | counters | count, evict | routes | full tables | limits never undercount a live key |
| SDK event queue (`packages/sdk/src/analytics/`) | memory, store shared by tabs | track, persist, flush, unload | ingest | several tabs, failed writes, unload | an event is sent or reported dropped |
| SDK identity (`sdk/src/identity.ts`) | installation, session records | rotate, adopt | every SDK module | several tabs | one session at a time |
| SDK crash, config, feedback clients | queues, sentinel, active config | report, fetch, submit | the API | restarts, offline | nothing lost silently |
| Web application, MCP server, schemas, start-up | none that outlives a request | | the API | | not modelled: no protocol of their own |

## 2. Plan

Most important first. Each module has CONSTANTS with named assumptions, one
action per step between awaits, and no RECURSIVE operator where proofs follow.

1. **Feedback core** (done): `FeedbackIntents` with the abstract
   `IntentContract`; `PurgeQueue` and `SlackDeliveries` with the abstract
   `WorkQueue`; proofs of their invariants and of the three refinements.
2. **Memberships** (done, with proofs).
3. **Analytics** (done): `AnalyticsIngest` with the abstract `EventLog`, "each
   event once", with proofs; `AnalyticsErasure`, from the request to the last
   file, with proofs. Left: retention and the removal of a database.
4. **SDK event queue** (done): `EventQueue`, the tabs of an origin over their
   shared store, with proofs. Left: `EventPipeline`, which composes it with
   `AnalyticsIngest`: an event tracked is stored once or reported dropped.
5. **Remote config** (done): `ConfigLifecycle` (draft and versions) under
   `ConfigDelivery` (what a server process holds), with proofs; `ConfigClient`
   (the SDK's tabs), with proofs. Left: `ConfigEvaluate`, pure, against a
   reference.
6. **Crashes** (done): `CrashIngest` with eviction and erasure, with proofs.
   Left: the SDK's sentinel and report queue.
7. **Sessions, slots, buckets**: `SessionRotation`, `QuerySlots`, `RateBuckets`.
8. **Forms**: drafts, versions and logos; the SDK feedback controller against
   `IntentContract`.

## 3. The modules

### FeedbackIntents

One feedback database, its intents, screenshots and submissions, and up to
`Calls` requests in flight. `pc[c]` is where a request stands between two
awaits, `job[c]` its local variables.

| In the model | In the code |
|---|---|
| `intents` | `submission_intents`: status, `uploads` (`upload_count`), `payload` (`payload_hash`), `submission`, `deleted` (`submission_deleted_at`) |
| `attachments`, `submissions` | the rows of those tables |
| `objects` | the object of each screenshot and its tag: `pending` (the lifecycle rule removes it), `bound`, `gone` |
| `retags` | retags still under way at the store after their request ended |
| `purgeQueue`, `deliveries` | rows queued in the transaction that deletes, or stores, a submission |
| `answer` | what this step answered, for the refinement |
| `discarded` | history: screenshots a discard has deleted |
| `f_lock`, `f_bind`, `f_tag` | `finalizeIntent`: the row lock and checks, `bindAttachments`, the retags before the commit; `CommitFinalize` writes everything at once |
| `u_slot`, `u_put`, `u_row` | the upload: `reserveUploadSlot`, `putPending`, the insert |
| `d_find`, `d_row`, `d_object` | `discardPendingAttachment`, statement by statement |
| `r_commit` | `deleteSubmission`: the keys are read first, `deleteSubmissionRows` is one transaction |
| `x_lock`, `x_cascade` | `deleteFeedbackDatabase`: the keys, the lock of the database row, the cascade |

`IntentLocked`, `RowLocked` and `DatabaseLocked` are PostgreSQL's row locks; a
step that needs one held by another request is disabled. `BreakDeadlock` is the
deadlock detector aborting one party. `Die` is the process dying, or any
statement throwing. What a payload says is abstracted to the screenshots it
references (`Screenshots`), and validation to a refusal that may happen.

`IntentContract` states what the client of the submit route is promised;
`OutcomeOf` maps the rows to it.

### PurgeQueue, SlackDeliveries, WorkQueue

`WorkQueue` is what both background queues promise: a row is settled once, never
reopened, and one worker works on it at a time. `PurgeQueue` models
`runPurgeBatch`: the claim (`skip locked`, `attempts + 1`, the lease),
`DeleteMany`, the delete of the rows, the catch block row by row. Its constants
`LeaseCovers` (a batch ends before its lease) and `KeyErrors` (the store may
refuse single keys in a successful answer) are the two circumstances its
properties turn on. `SlackDeliveries` models `runNotificationBatch` and
`deliverOne` with discrete time (`Tick`): the lease, the time a send may take,
the pause between sends and the time of a statement (`QueryTime`) are constants
in units of which `Lease` is what the code's constants give: one batch exactly,
when the statements take none. A row has three of them: `Render`, `Mark`, and the
update of `slack_notifications` after it (`NextRow`).

### Memberships

One project, one of its databases (the four kinds share their code), people,
invitation links. Each SQL statement of `setProjectRole`,
`removeProjectMember`, `setDatabaseRole` and `revokeInvitation` is a step;
`redeemInvitation` is two, the lock of the invitation row and the rest of the
transaction. Requests come from a server key, which needs no membership, so the
caller's own role is not part of the model. Changes of roles overlap freely and
invitations offer any role. `overtaken` is history: the writes still to come whose
count of the Admins, or whose reading that their member was none, another request
has made untrue.

### AnalyticsIngest, EventLog

The batches one API process works on (`deriveAndInsert` of
`services/analytics-ingest.ts`), its tables in memory, and the event store.
`req[b].pc` is where a batch stands between two awaits; what runs between two
awaits is one action.

| In the model | In the code |
|---|---|
| `installs`, `inFlight`, `creating` | `installTimes`, `inFlight`, and the chain of promises of each installation's lock |
| `events`, `states` | the `events` table, and the aggregated states its views derive; a replayed row reaches the states only |
| `late` | inserts that failed for the client and may still be applied |
| `ReadInstalls`, `CacheInstalls`, `TakeLock`, `Recache` | the install times: from the cache, then under the locks of the installations a batch creates, taken in the order of their IDs |
| `CheckCopies`, `Resume` | the loop over copies in flight: refuse, wait, or hold the keys |
| `Lookup`, `Land`, `Acknowledge`, `InsertFails` | the duplicate lookup, the insert and its two ends |
| `Unblock`, `WarmUp` | the 10 s a failed key stays blocked, the 2 s after the store became ready |

An event stands for its sort key; a batch for a request whose events passed
validation and the catalogue. `EventLog` states what a client is promised: an
event is stored once under one received time, and only a stored event is
answered as accepted or duplicate. Two premises of the code are premises of the
model: a failed insert is applied or lost within the 10 s of the block, and
within the 2 s of the warm-up after a restart.

### AnalyticsErasure

An erasure of an installation or a user (`services/analytics-erasure.ts`): the
request (`Ask`, `Reach`, `Record`, `Answer`), the worker's passes (`Tick`, `Count`,
`ReplayRead`, `ReplayWrite`, `Commit`, `DropTargets`, and `PassFails` between any
two), and ingest cut down to the stamp, the lookup and the two view writes an
erasure can meet. The store deletes by mutations: submitted at once (`mutations`), applied
later (`Apply`), to the rows there were, which stay in a file until a merge
(`files`, `Merge`). The row writes of a pass are one PostgreSQL transaction:
`pass` carries the rows it claimed, the installations it found for a deferred
user and what it decided, and `Commit` writes them. What the event store was told
before a pass failed stays told: deletes, replays and `targets`. An event may have
no user (`Nobody`). `skip` is the cached list of erasures reads hide. `mistargeted`
is history: the erasures a pass resolved otherwise than their targets say.
Premise: an insert in flight when a pass ends is applied before the next one.

### EventQueue

The browser's analytics queue (`packages/sdk/src/analytics/`): tabs with their
`items`, `unsaved`, `unremoved` and chain of `writes` (`persistNow`), the IndexedDB
store they share, the flush lock (Web Locks), a flush from the lock to its
release, and the keepalive requests of a page that is hidden, in which several may
be in flight. Events are numbers in the order of their timestamps. `Launches` are
the `app_started` events, whose `crashReporting` is fixed at the first send
(`Resolve`): until then a copy in memory is `marked`, and once fixed it is written
again, by whichever tab held it. `awaits` counts the writes a flush waits for, of
a chain that may have grown meanwhile. A write or a read refused (`WriteRefused`,
`LoadFails`, `FlushReadFails`), a request failed or unanswered, 413 and the death of a
page are faults, of which there are `MaxFaults`.

`owed` and `delivered` record what `NothingLost` and `NoResend` compare with.
`delivered` are the events a flush had answered; one leaves it again where the code
itself takes it back, which are the exceptions `NoResend` names: its removal is
refused or dies with its page, a tab writes it to the store again and no flush is
about to remove it (`Leaving`), or a flush that could not read the store goes by a
memory where it still is. What a keepalive delivers is not in it: the page that
knows may be gone, and the code leaves the second send to the server.

### ConfigLifecycle, ConfigDelivery

`ConfigLifecycle` is one config database: draft, versions, the active one, the
activity. Every change runs in one transaction under the lock of the draft row
and is one action; what was read before it (`seen`, `copying`) may be stale in
it. A template is the set of its parts. `ConfigDelivery` EXTENDS it with one
server process: `cache` holds for each row (the credential, the database) the
promise of a load or what it gave; a change commits, then forgets (`Forget`),
then is answered (`acked`). A row's state is the number of its changes, so that
"current" is a comparison.

### ConfigClient

The SDK's configuration in the tabs of one origin (`packages/sdk/src/config/client.ts`):
`active` and `staged` answers, the record in localStorage, fetches with the user
and the etag they were sent with (`sent`), user changes, storage events and
launches. An active answer whose live values were replaced keeps its etag, as in the
code. `sent.left` and `crossed` are history: a user left during a fetch, and came
back to its "not modified". A configuration is two values,
one held until activation and one live. Which user gets which values is
`Group`; what the server resolves a fetch to is what was active at some moment
between its sending and its arrival.

### CrashIngest

One crash database. PostgreSQL's READ COMMITTED is what the module is about: a
statement sees what is committed when it starts, and its own transaction's
writes; a statement that needs a row another transaction has written waits.

| In the model | In the code |
|---|---|
| `group`, `users`, `reports`, `releases`, `cap` | `crash_groups` (state, regression flag, release it was resolved in, latest report, affected users), `crash_group_users`, `crash_reports`, `crash_releases`, `retention_cap` |
| `job[c]` | a request in `ingestCrashReport`: `Read` (the lock of the database row, the duplicate, the group row), `WriteGroup`, `AddUser`, `CountReports`, `ChooseEvicted` and `DeleteChosen` (`evictOverCap`), `Commit` |
| `pass` | `runCrashRetentionPass`: the same eviction, every statement its own transaction, without the lock |
| `erasure` | `eraseCrashReports`: `EraseReports`, `Repoint`, `EraseUsers`, `FinishErasure` |
| `ChangeState`, `DeleteGroup`, `ChangeRetention` | the routes |
| `Held`, `Repointed`, `victims`, `doomed`, `drops` | the rows each transaction has written, which others wait for |
| `cutoff` | the moment the maximum age reaches back to |
| `resolved`, `regressed`, `crossed` | history |

`Fail` and `AbortErasure` are a process dying, a statement throwing, or PostgreSQL
breaking a deadlock, which an ingest and an erasure can form. Simplifications:
what an ingest reads under the database lock is one step; the pass reads its cap
when it counts; deleting a group waits for all it needs at once; a statement that
waited is evaluated when it goes on. The two deletes of an eviction are not
simplified so: the statement chooses by its snapshot, then waits for the rows that
another transaction is deleting, and deletes those that are left, so either of an
ingest and the pass may come first (`PassChoose` and `PassDelete`, `ChooseEvicted` and
`DeleteChosen`).

## 4. The runs

Runs of kind *pass* finish with no error; the run of kind *violation* shows a
promise of the repository's comments that the code does not keep (`PROJECT.json`
quotes it under `findings`).

| Run | Shows | Distinct states |
|---|---|---|
| `FeedbackRetries` | one submission per intent, slots, announcements, and the refinement of `IntentContract`, under races of finalizations, uploads and deletions | 125,697 |
| `FeedbackScreenshots` | with failing retags, late retags, deaths, lifecycle and purge, a live submission loses a screenshot only to a discard, and bound bytes have an owner; every request ends, deadlocks included, and the bytes of deleted submissions go | 159,199 |
| `PurgeKept` | no object forgotten, the abstract queue, every row settled | 4,720 |
| `SlackLeased` | duplicates only where the worker could not know, failures only with cause, the abstract queue | 1,071,200 |
| `CrashKept` | affected users true, a regression announced once, every group's latest report kept, the cap, whatever transactions interleave, with the exceptions the properties name | 1,824,656 |
| `MembersKept` | a link gives its role once, and not after its revocation was recorded; the last Admin goes only by an overtaken change of roles or by an invitation | 380,136 |
| `AnalyticsIngest` | an event is stored once and answered only when stored (`EventLog`), with its state; install ages agree; every batch is answered | 299,106 |
| `ErasureKept` | an answered erasure is hidden from reads, what it does not cover survives, its record goes only when the files are clean, and it goes | 1,075,087 |
| `SdkQueue` | no event lost but in a refused write, none sent again after a flush delivered it unless a tab puts it back or cannot read the store, and every event ends | 490,119 |
| `ConfigTabs` | answers are the user's, and reads are stable, across tabs, switches and publishes | 2,223,839 |
| `ConfigServer` | fetches are current, a publish is of what was reviewed and once per revision; the inductive invariant of the proofs | 1,475,099 |
| `ConfigLaunch` (violation) | a launch with nobody signed in takes the last user's answer and merges live values of nobody into it, which that user then reads: `LiveIsTheUsers` fails | |

The other type invariants are proved and left out of the runs, because nothing in
them could surprise. The type invariant of
`SlackDeliveries` stays in: it bounds the attempts. `SlackDeliveries!Settles`, every
delivery is settled, holds under `FairSpec` with one row, two workers,
`BatchSize = 2`, `MaxAttempts = 2`, `Lease = 4`, the other times as in
`SlackLeased.cfg` and no symmetry.

**Circumstances.** `PurgeKept` has `LeaseCovers` and not `KeyErrors`;
`SlackLeased` takes `QueryTime = 0`. The other runs restrict nothing but their
bounds. `OnlyDiscardsLoseScreenshots` and `BoundBytesOwned` name what they leave out, and
so do `AdminsRemain` (a write in `overtaken`, a redemption), `LatestKept`
(`crossed`), `UnderCap` (reports taken before an ingest came to them),
`AffectedUsersTrue` (the erased user), `AgesFromInstall` (`failed`), `NothingLost`
(`refused`), `NoResend` (what leaves `delivered`), `AnswersAreTheUsers` (`crossed`),
and `ErasedHidden`, `KeptSurvive` and `GoneFromFiles` (`mistargeted`). What lies beyond
each is in the next list.

**Departures without a run.** Places where a comment or a document promises what
the code does not keep. Each is a behaviour of a model; the way to see it is to
change the cfg, or the property, as said.

Feedback, queues, memberships:

* `services/attachments.ts:125`: a discard reads, a finalization binds, the discard
  deletes. `services/intents.ts:349` says "never a submission with missing
  screenshots". Check `ScreenshotsKept` in `FeedbackScreenshots.cfg`.
* `services/attachments.ts:127`: "The object is still tagged pending, so the
  lifecycle rule will remove it". After a finalization that retagged it and
  rolled back it is tagged bound; when the delete fails, it stays. That is why
  `BoundBytesOwned` leaves discarded screenshots aside.
* `services/projects.ts:273`: the keys of a database are read before the deletion
  that cascades over them; bytes bound in between are never queued (the comment
  at 265-266). Check `DeletedDatabaseQueuesBytes` in `FeedbackScreenshots.cfg`.
* `lib/storage.ts:194`: per-key errors in the body of a successful `DeleteObjects`
  are not looked at, and the row of an object that stays is forgotten
  (`DECISIONS.md:319-321`). `BytesHaveARow` with `KeyErrors = TRUE`.
* `services/purge.ts:78`: a worker that outlives its lease writes `pending` over
  the `failed` of the worker after it. `ImplementsQueue` with `LeaseCovers = FALSE`.
* `services/notifications.ts:42`: a batch takes 59.9 s of a 60 s lease before its
  own statements, so two workers can hold a delivery (669-671, `DECISIONS.md:990`).
  `OneHolder` with `QueryTime = 1`.
* `services/notifications.ts:266` makes a 200 whose body was cut off a permanent
  failure (`SlackAcceptsUnread`); line 304 says the body is not worth failing over.
* `services/notifications.ts:330` says a worker killed mid-send "cannot spin", but
  the claim does not look at `attempts`: `attempts` is bounded by
  `MAX_ATTEMPTS` plus the deaths, of which the model bounds the number.
* `services/memberships.ts:87`: two demotions at once each count two Admins, and
  "a project always keeps at least one Admin" (line 25) does not hold.
  `AdminsRemain` without its first exception.
* `services/memberships.ts:430`: an override is written for somebody promoted to
  Admin after the check.
* `services/invitations.ts:309`: the last Admin who redeems an invitation for a
  lower role takes it (`AdminsRemain` without its second exception), and an Admin
  who redeems a database invitation gets the override that lines 93-95 rule out.
* `services/invitations.ts:180`: a revocation that crosses a redemption marks a
  redeemed invitation revoked and reports success.

Analytics:

* `services/analytics-erasure.ts:344-346`: reads stop skipping an erasure once the
  deletes hide "every earlier state"; an insert that lands a state after the replay
  was read shows it again. Check `ErasedStateGone` in `ErasureKept.cfg`.
* `services/analytics-erasure.ts:335-336`: "a kept installation the erased user
  shared is never without its record"; between the deletes being applied and the
  replay it is.
* `services/analytics-erasure.ts:240`: the targets of an erasure are written in the
  event store before the pass commits, and the next pass knows them again by their
  time alone. It resolves a deferred user again, to other installations when events
  landed in between: the row names one set, the deletes take another, though "a
  restart or an outage loses nothing" (line 43). Check `Kept` in
  `ErasureKept.cfg` with `MaxFaults = 2`: an event of somebody else goes, on an
  installation that is no longer the erased user's alone. Where an event has no
  user the reverse happens too, and it is shown once the erasure counts as deleted:
  check `AnsweredHidden` of every erasure with `MaxFaults = 2`, `Subjects = {u1}` and
  `Nobody` for the user of `e3`.
* A failed insert that lands late under an earlier received time moves the install
  time, "which never moves" (`0001_events.sql:60-61`); `AgesFromInstall` leaves
  installations with failed inserts out, and a cached install time stays behind
  (`analytics-ingest.ts:702-704`).
* `packages/sdk/src/analytics/`: "Every way an event can fail to be queued is an
  onDrop reason", but a write IndexedDB refuses is not reported. Check
  `EveryLossReported` in `SdkQueue.cfg`.
* `packages/sdk/src/analytics/transport.ts:209`: the removals are "Written before the
  lock is released, so the next tab to flush never resends what this one just
  delivered". A tab that loaded an `app_started` another tab then delivered still holds
  it; when its page is hidden, `resolve` (384, 241-249) fixes it and writes it to the
  store again (405), and the next flush of any tab sends it. A flush whose second read
  of the store fails (223-225) sends what its memory still holds. The server's
  deduplication absorbs both, as long as it remembers the event. `NoResend` with
  `delivered` unchanged in `WriteNext`, or in `FlushReadFails`.

Remote configuration:

* A tab takes over whatever answer another tab stored, an older one included
  (`ConfigClient.adopt`), until its next fetch.
* `packages/sdk/src/config/client.ts:712`: "an answer for a user who has since changed
  is dropped" (710), but the code compares the user a fetch was sent for with the
  user there is, and not what was held with what is held. A user who leaves and
  comes back while a fetch is in flight, in a tab that has meanwhile taken over the
  answer of the user in between, gets that answer under their own name from a "not
  modified" (719-720). Check `OwnAnswers` in `ConfigTabs.cfg` with `MaxSwitches = 2`.
* `copyVersionToDraft` reads the version before it takes the lock
  (`config-draft.ts:211`): an erasure that commits in between leaves the erased ID in
  the draft.

Crashes:

* `services/crashes.ts:213`: the group's state is read without a lock (180-185) and
  written back by the update (233). A resolve or an ignore committed in between is
  undone, without a regression: the comment says "a release-order comparison, never
  'seen again'", and lines 40-41 that the lock makes this logic plain reads. Check
  the action property `StateHolds` in `CrashKept.cfg`.
* `services/crashes.ts:456`: an eviction that crosses an erasure takes the erased
  report for the latest and deletes the one the erasure points the group to; the
  group then names no report (CR-080: "never a group's latest report"). This is
  what `LatestKept` leaves out as `crossed`.
* A report of the erased user stored between the erasure's statements stays, and
  its association goes: what `AffectedUsersTrue` leaves out for `Subject`.
* A group deleted between the read and the update of an ingest leaves it without
  a row, and it throws a `TypeError`: the single route answers 500, and so does the
  whole batch, whose route "Always answers 207 once the key and database are
  accepted" (`routes/crashes.ts:399`).
* A pass and an ingest may both count before either deletes, and together evict
  to below the cap. Both may also choose the same report: when the pass deletes it
  first, the ingest waits, finds it gone, and stores its own without having
  removed any, so that the reports grow above a cap that was lowered
  (`services/crashes.ts:447-460`, 506; CR-080 says "until under the cap").
  `UnderCap` without its last disjunct.
* A report evicted or erased is stored, and counted, again when its client retries
  it (CR-013 makes retries idempotent only while the report is retained).

**Bounds.** Two intents, two payloads and two or three requests in flight are
enough for every pairwise race of the handlers and for a third party that
observes or deletes what the two fight over; screenshots and submissions are as
many as those requests can use. Queues have two rows and two workers, so that a
batch can hold a row somebody else wants while another is free, and up to
`MaxDeaths` deaths per row (the only counter a run has to cap; attempts are
capped by the code itself, with `MaxAttempts` small). Memberships have two
people, one link and two requests: a race needs two, and a link concerns only
itself. `AnalyticsIngest`: two requests at a time out of three, so that a copy may be
in flight, stored or failed when another arrives, three events of two
installations, so that two batches can want two locks, and two faults, so that a
retry may fail too. `ErasureKept`: two installations, two users of whom one is on
both installations, one erasure among three stamps of the clock. `SdkQueue`: two
tabs, of which the one that may be hidden tracks a launch that the other can load and
deliver, a queue of one, so that each further event drops one, and one fault. Batches
of several and the halving of one too large need a queue of two (the safety
properties hold there as well, in 817,475 states) and are otherwise left to the
proofs, which hold for every size.
`ConfigTabs`: three published states, the middle one unpublished, so that a value
can go and come back. `ConfigServer`: one editor against stale reviews, two
fetches, so that one shares the other's load. `CrashKept`: three crashes of one
fingerprint and one of another, by the erased user, somebody else and nobody,
two releases, two requests, three arrivals (one a retry), caps of one and two,
an `EvictionBatch` of one, so that a cap that was lowered is reached in several
evictions, and one change by a person. Symmetry is used in safety runs only, over sets of
model values that Init and Next treat alike.

Deadlock checking is off where the system really may stop: when the bounded
requests, events, versions or rows are used up and everything is done.

**Fairness.** `FeedbackIntents!FairSpec`: a request's next statement is strongly
fair, because PostgreSQL queues the waiters of a row lock in order; the deadlock
detector, retags that reached the store and the purge worker are weakly fair.
Nothing obliges a client to send, or a process not to die. The purge there
stands for a worker and a store that reach each object in the end;
`PurgeQueue` has the retries that give up. `PurgeQueue!FairSpec`: the interval
timer (`startPurgeWorker`) runs batch after batch and clocks advance.
`SlackDeliveries!FairSpec`: the same, and Slack does not answer every send of a
message with 429 for ever, since a throttled row gives its attempt back and
retries without bound (strong fairness of the other outcomes; an assumption
about Slack). `AnalyticsIngest!FairSpec`: a batch's own steps, because the event
loop runs every callback and every read and insert is answered or times out.
`AnalyticsErasure!ErasureFairSpec`: the worker ticks and its pass goes on until it
commits or fails, an insert is applied, and ClickHouse finishes mutations and merges
(the worker makes it rewrite files at half the bound). `EventQueue!FairSpec`: timers and callbacks run in an open page, a page of
the application is opened again; the flush and the send are strongly fair,
because the timer of each tab asks for the lock again and again and no pause is
for ever.

## 5. Proofs

Every theorem is about the specification for every value of its constants. One
lemma per action shows that a step keeps the inductive invariant; a theorem then
combines them. TLC checked each inductive invariant on an instance before it was
proved; of those only `ConfigDelivery!IndInv` is in a run, the others add nothing to
the properties the runs hold. All are definitions of the modules, so a cfg can name
them.

`FeedbackIntents_proofs`:

* `Invariance` (`Spec => []IndInv`). `OneSubmissionPerIntent` alone is not
  inductive: a second finalization past the status check would break it. `IndInv` adds
  that an intent being finalized is still active and locked by one request
  (`LocksHeld`), that a stored submission and its intent name each other for
  good (`SubmissionsRecorded`), that requests carry the arguments of their step
  (`JobsFit`), and types. `TypeCorrect` and `AtMostOneSubmission` follow from it.
* `AnnouncementsLive`: the three transactions that write submissions keep the queue
  of announcements (`OthersKeepOutcomes` disposes of every other step).
* `RetryContractHolds`: the refinement of `IntentContract`. It rests on
  `OutcomesAgree`: what a replay reads of the intent and of its submission says the
  same, whichever deletion came between; without it "deleted" and "duplicate" could
  differ from the contract's outcome.
* `UploadsBounded`: with `SlotsCounted`, rows and uploads under way are finite, and
  each step moves at most one from one set to the other.
* `BytesInvariance`, and from it `OnlyDiscardsLose` and `BoundBytesHaveOwners`. The
  bytes are lost to whoever removes an object that is still needed, so `BytesInv`
  says who may: an attachment is put and inserted by one upload (`UploadsAlone`),
  whatever a row, a queue or a request names has been uploaded (`OnlyUploaded`) and,
  if it is to be removed, has no row any more (`RemovedHaveNoRow`); a deletion has
  read no fewer keys than it takes rows (`KeysOfSubmission`); a finalization past its
  checks holds unbound rows, retagged or waited for (`ScreenshotsHeld`); and a late
  retag can only bind what is owned (`BytesOwned`).

Two of the eight proof modules hold the proofs of two components each, one after the
other: names of `AnalyticsErasure` and `ConfigClient` carry a prefix where they would
meet those of `PurgeQueue` and `ConfigDelivery`, so that one module can extend both.

`DeferredDeletion_proofs`, on the purge queue: `NothingForgotten`, under `~KeyErrors`
alone. `BytesInv` adds to the types that what a worker is about to forget has no bytes;
no lease is needed for that, so it holds whatever batches outlive theirs. Under
`LeaseCovers`: `Invariance` (a row in a batch is pending, leased, in no other batch, and
its worker's count is the row's; a row that can be claimed has an attempt left), from
it `AttemptsCounted` and `Implementation`, the refinement of `WorkQueue`. `LeaseCovers`
is an assumption about the time a batch takes that nothing in `purge.ts` bounds.

`DeferredDeletion_proofs`, on erasures, for any batches, events, installations, users
and erasures, and any number of faults: `ErasureInvariance` (`ErasureSpec =>
[]ErasureIndInv`). `ErasureIndInv` has two halves.

* `Erasing` is about what must go. `ErasedHidden` alone is broken by an insert that
  lands after the deletes counted no row, `GoneFromFiles` by a delete still to be
  applied. `Erasing` adds what the targets, the row and the pass say of one another
  (`OnTarget`, `Claims`): every pending erasure with targets is claimed by the pass
  there is; that what was in flight when the state deletes were submitted is
  applied before the next pass (`Settled`, from the premise on inserts); that the pass
  which ends an erasure has seen no row of it left (`LastPass`); hence that after it no
  row, insert, or delete under way carries a row it covers (`DeletedEverywhere`).
  `ErasureTypeCorrect`, `ErasedStaysHidden` and `GoneLeavesNoFile` follow.
* `Keeping` is about what must stay, while no erasure is `mistargeted`. The state
  deletes take rows that have to be put back, so `KeptSurvive` says nothing until
  none is under way. `Keeping` says at each moment who owes them: a delete of states
  takes only what a pending erasure touches and will replay (`StateDeletesOwed`,
  `StatesKept`), an insert whose states landed before its event is met by a replay
  that comes after both (`HalvesKept`), and the last replay has what was owed
  (`Replayed`). `FreshRows`, a row not yet written shares its time with none, keeps
  the deletes under way from taking it. `WhatIsNotErasedSurvives` follows.

`SlackDeliveries_proofs`, under `LeaseOutlasts`: the longest a batch can last, pauses,
sends and statements, is less than a lease. Time is discrete in the model, and
`HeldAreLeased` bounds what a batch may still take (`TimeLeft`) by what is left of
each lease. With it no row is in two batches (`NoTwoHolders`), every message posted
again is explained by an answer a worker could not have (`SendsExplained`,
`DuplicatesAccounted`), every attempt by a failure or a lost batch
(`AttemptsExplained`, `GivenUpForCause`), and the queue implements `WorkQueue`
(`Implementation`). With the constants of the code, 59.9 s of sends and pauses in
a lease of 60 s, `LeaseOutlasts` holds only while the 29 statements of a batch of ten
(three for each row, of which the last one's third comes after its mark) take less
than about 3.4 ms each; `SlackLeased.cfg` satisfies it. The bound is tight: with `QueryTime = 1` and the other
times of that cfg `OneHolder` fails for `Lease = 8` and holds for `Lease = 9`, where
`LeaseOutlasts` becomes true.

`Memberships_proofs`: `Invariance` (the redemption that holds a row lock is alone,
and finds the row unredeemed and unrevoked until it commits), `TypeCorrect`,
`SingleUse`, and the action properties `RevocationHolds` and `LastAdminGuarded`
(`Spec => AdminsRemain`), for any number of changes at once and invitations to any
role. For the last, `AdminInv` adds that a role change between its count and its write
which nobody has overtaken, and which takes the role from an Admin, leaves another one
(`AnotherAdmin`): of whoever ceases to be an Admin meanwhile, the change counted may
have been the other one, and then it is `overtaken`.

`RemoteConfig_proofs`, on the server: `Invariant` (`Spec => []IndInv`).
`FetchesAreCurrent` is not inductive: a fetch may share a load begun by another before the change. `IndInv` adds
that whoever waits waits for a load in progress of its row (`Shared`), that what is
held, or loading and held, is no older than the last change answered
(`HeldIsCurrent`), that a load is no older than what its fetches may go by
(`LoadsAreCurrent`), and that a revision an editor reviewed is still the draft as
reviewed (`SeenMatches`). From it `TypeCorrect`, `FetchesStayCurrent` and the action
property `PublishesTheReviewed`. `RevisionsPublishOnce` rests on two more: the last
publish of the log is of the active version (`LogNamesVersions`), and in a row of
publishes revisions rise (`RevisionsRise`, stated for any two of the row, so that
no induction over the log is needed).

`RemoteConfig_proofs`, on the client, for any tabs, users and groups of users, with
any number of faults and changes of user: `ClientsConsistent`. `AnswersAreTheUsers` is
not inductive, because a "not modified" puts the user's name on whatever is held.
`ClientIndInv` therefore says whose every answer is, staged, active or in the record
(`OwnHeld`: what it holds was resolved for the user it names; `StagedForUser`,
`ActiveForUser`), and what a fetch in flight asks about: what is held is the user's,
or is still what the etag was taken from (`AskedAbout`), with `EtagOfHeld` to say that
an answer's values are those of its etag, or nothing while only its live values are
there. A fetch sent for a changed user is the one that ends the change
(`SwitchAnswered`), which is what makes `ReadsAreStable`, the action property, hold at
a "not modified" that activates. From it too `ClientsTypeCorrect` and
`AnswersBelongToTheirUsers`.

`AnalyticsIngest_proofs`, for any finite set of batches: `LogInvariance`. A key is
held by one batch from the lookup to the acknowledgement and blocked after a failure
(`KeysHeld`, `LateBlocked`), so the copy that waits or looks up finds what was stored
(`CopiesKnown`), and an event never reaches the store as two new rows (`StoredOnce`).
From it `TypeCorrect`, `AnsweredStored` and `LogImplementation`, the refinement of
`EventLog`. `AgesAgree` needs the locks of the installations: a batch either knows
an installation's record and carries a later time, or holds the lock and creates it
(`RecordsAgree`), copies carry the time they are stored with (`CopiesAgree`), and
times are past (`TimesPast`).

`EventQueue_proofs`, for any tabs, events, queue and batch sizes. `LossInvariance`: a
queue holds nothing owed that is not about to be written, stored or refused
(`KeptElsewhere`) and nothing on its way out of the store is owed (`RemovesUnowed`),
so a flush may replace the queue by the store it read; hence `QueueLosesNothing`.
`ResendInvariance`: one tab flushes, with its queue loaded (`OneFlushes`); what a tab has
not written yet is queued there (`Queued`) and, outside a flush, nowhere else
(`UnsavedHere`), so that a flush delivers nothing that another tab is about to write,
unless it writes it again as its page is hidden; what was delivered is gone from the
store or leaves it before the lock is released (`DeliveredLeave`); so what a flush read
after it had the lock was not delivered (`FlushesUndelivered`); hence
`DeliveredNotResent`. Which events a full queue drops is not looked at: the proofs
hold for whatever subset `Bounded` keeps.

`CrashIngest_proofs`: `CountInvariance` (one ingest is past the database lock and what
it has read of its group stays so, `JobsKnow`; a group without a row has nothing,
`RowsKnow`), hence `UsersCounted` and `TypeCorrect`; `RegressionAnnouncedOnce` (a group
resolved, or read as resolved by an ingest, has an announcement left, `ToAnnounce`);
`LatestReportsKept` (every delete takes reports past the age or latest of no group,
`IngestSpares`, `PassSpares`, `ErasureSpares`, and what an ingest has deleted is still
there for others until it commits, `DeletedStay`); and the action property `CapHolds`
(an ingest that counted more than the cap has chosen a report, unless every group is
down to one; if it deletes none, somebody took what it chose and fewer are left than
it counted: `Room`, `NoLatestNoReport`, `Singles`).

The proofs assume what the modules assume of their constants, and nothing else but
the circumstances named: `None` and its like are not elements of the other sets;
bounds, durations and sizes are natural numbers, positive where the code has them so;
events have an installation, a group, a user; the screenshots of a payload are
screenshots; `"admin"` is a role; the rules naming an ID are parts of a template. Sets
are finite where the code counts them: people, the rows of the Slack queue, the
batches in hand; the crash caps have a greatest one.

Only model-checked:

* Liveness: fairness is beyond the prover.
* What lies beyond the circumstances named: those are counterexamples TLC finds.
* What `EventQueue!Bounded` computes, a recursive function: that it keeps the newest
  events, at most as many as the queue takes (`SizesOK`), is an induction over data
  and beyond the prover too.

## 6. Not modelled, and why

Planned and not yet done: access control and credentials beyond the revocation
config delivery caches; forms and logos; the query slots; rate limits, ceilings
and caches; SDK sessions, crash and feedback clients.

Without a protocol to model: the web application (one request after another on
behalf of a person), the MCP server (a translation of tools to routes), shared
schemas and validation, start-up and migrations, and the SQL the analytics
queries build for ClickHouse, whose meaning is the database's. These, with the
tests, are most of the lines of the repository, which is why the mapped share of
it is small and would stay so.

Within the modelled parts:

* Feedback: the text of answers, messages and errors; image decoding; logos;
  listing and browsing; rate limits in front of the routes; `deleteProject`,
  which repeats `deleteFeedbackDatabase` over several databases; the wording Slack
  gets for crashes, incidents and configuration changes, whose queue rows behave
  as a submission's.
* Analytics: validation, the name catalogue and quotas (their verdict is which
  events a batch carries), derived dimensions, the live feed, retention, storage
  limits, incidents, the removal of a database, and the crash and feedback
  records an erasure also takes (the crash ones are in `CrashIngest`).
* SDK queue: `clear()` and the forgetting of an identity, sampling and consent,
  the Node and React Native stores.
* Remote configuration: the checks of a template, compiled versions and the bytes of
  answers built from them (a compiled version that outlives an erasure is harmless:
  the erasure removes IDs and keeps the conditions), rule evaluation, reach
  counters, rate limits; in the SDK's client activation `'immediate'` (`client.ts:527`:
  an answer is then active when it arrives, and `StableReads` promises nothing),
  server mode and attributes.
* Crashes: fingerprints (they are data), the counts, first and last seen, daily
  rollups and dropped counts, which are increments of the same statements, the
  Slack row (see `SlackDeliveries`), rate limits, deletion of the database, reads.
