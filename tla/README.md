# Servanda Office: a verification project in TLA+

Servanda Office is a multi-tenant system for contract drafting: lawyers maintain
clauses and templates (content), users answer an interview that fills a template
(contracts), and a worker renders documents (export). It is a TypeScript
monorepo: `apps/api` (Express, Prisma, PostgreSQL), `apps/export-worker`
(pg-boss, S3), `apps/web` (React) and `packages/shared`.

This directory holds specifications of its core, the TLC instances that check
them and proofs checked by TLAPS. `PROJECT.json` maps every definition that
models code to its source lines, lists the runs, the mutants that show that each
checked property can fail, the findings and the hazards.

## 1 Inventory

| Component | State | Operations | What is hard | What makes it correct |
|---|---|---|---|---|
| Editorial workflow (`modules/content`: routes, reviewer, changelog, publishing-gates) | clause, template and version rows, `currentPublishedVersionId`, `metadata` JSON | create, new version, status PATCH with gates, assign/approve/reject/request changes, changelog | every handler reads, checks and later writes by id under READ COMMITTED; three routers write the same columns | numbering, four eyes, earned publication, pointer and statuses agree, audit is true, required clauses resolve, no entry lost |
| Contracts (`modules/contract`) | `contract_instances` row | create with pinning, auto-save PATCH, validate, complete | content changes between the statements; saves race completion; the verdict is stored | pins were published, completed is final, verdict explains itself, no answer lost |
| Export API (`modules/export`: routes, batch, dlq) | `export_jobs` rows, lazily started pg-boss | request, batch, retry, archive | rows are committed before messages are sent | a queued job has a message |
| Export worker (`apps/export-worker`) | pg-boss jobs, S3 objects, result cache | `handleExportJob`, lookup/store | at-least-once delivery, expiry of slow handlers, crashes, un-awaited cache store | done implies a document, the document says what the contract said |
| Audit service (`services/audit.service.ts`) | `audit_events`, in-memory queue, timer | log, flushQueue | overlapping flushes, full queue, failures in a batch | nothing written twice or silently lost, order, boundedness |
| Event bus, audit consumer | handler sets, counters | publish, subscribe | nothing publishes outside tests | isolation of failing handlers |
| Template cache, pre-warming | LRU map with TTL and byte count | get, set, evict | limits, oversized entries, key without style | bound on entries and bytes |
| Auto-scaler | concurrency, last scaling time | poll, start, stop | overlapping polls, stop during a poll | concurrency in range, cooldown |
| Interview page | answers, debounce timer | change, auto-save, manual save, complete | timer against completion, saves out of order | what is shown is what is stored |
| Review page, conflict panel | view state, poll timer | complete, export, poll | polling against unmount | ends in ready or error |
| Notifications | list, timers | notify, dismiss, dismissAll | delayed removal | no notification lost early |
| Content import | one transaction | importContent | concurrent imports | no duplicate titles |
| Session hardening, rate limiter | in-memory maps | middlewares, logout, cleanup | order of middlewares | limits take effect (neither is mounted by `main.ts`) |
| Identity, SCIM, Keycloak client | users, token and key caches | create, patch, deactivate | two stores without a transaction | both agree in the end |
| Search | OpenSearch index | reindex, search, SQL fallback | nothing updates the index on writes | index follows the database |
| Branding, logo upload | style templates, S3 logo | upload, delete | delete-upload-update sequence | the row points at an object |
| Authentication, tenant context, RLS | session variable per transaction | | policies hide rows | (row visibility is modelled in contracts) |
| Reorder panel, history panel, notifications store, RUM metrics | order of clauses, fetched history, list, buffer and ring | drop, keys, fetch, flush, ingest | index arithmetic, answers out of order, bounded buffers | nothing is dropped or doubled by a move; what is shown belongs to what is open |
| Rendering, worker and health metrics, i18n, other views | | | | not modelled: pure conversion, counters, wording |

Interactions: contracts read the content tables (pins, rules); export reads the
contract and its pins; all handlers call the audit service after their
transaction; the web client drives contracts and export; the API and the worker
share PostgreSQL (rows and pg-boss) and S3, nothing else.

## 2 Modules

| Module | Models | Composition |
|---|---|---|
| `EditorialWorkflow` | what the content module promises: the atomic workflow of a version and its entity's pointer | abstract specification |
| `ContentLifecycle` | all writing handlers of `modules/content` | implements `EditorialWorkflow` when requests are serial |
| `ContractLifecycle` | all writing handlers of `modules/contract` | beside an instance of `EditorialWorkflow`, the publisher who goes on editing |
| `ExportPipeline` | export API, pg-boss, worker handler, result cache | one contract, edited meanwhile |
| `AuditService` | log, fallback queue, flushes | stand-alone |
| `TemplateCache`, `AutoScaler` | the worker's LRU cache with pre-warming; its concurrency | composed by `WorkerProcess` (one clock, one shutdown) |
| `UserProvisioning` | identity and SCIM requests, users and Keycloak accounts | composed by `ApiProcess` |
| `SessionHardening`, `RateLimiter` | session stores, middlewares, logouts, clean-up; the sliding window | composed by `ApiProcess` |
| `SearchIndex`, `LogoStore`, `ContentImport`, `DomainEvents` | full reindex; style templates and logo objects; the import transaction; event bus and audit consumer | composed by `ApiProcess` |
| `InterviewSession`, `ReviewPage`, `Notifications`, `ClauseReorder`, `RumPipeline` | the pages, hooks and panels of the web client that keep state over time | composed by `WebClient` |
| `Subsequences` | what is left of a list by positions (`filter`, deletions from a Map) | used by the limiter, toasts, interview and cache |
| `..._proofs` | theorems about a module (section 5) | EXTENDS the module and TLAPS |
| `MC...` | instances for TLC: concrete catalogues, initial states, symmetry sets, bounds | EXTENDS the module |

Conventions. A handler is one step per SQL statement or `await`; a record per
request (`req`, `caller`, `worker`, `call`, `upload`, `job`, `import`) holds what its
locals hold and `at` names the statement that comes next. A check that fails
answers 4xx and changes nothing, so it is a disabled step. `Fail` (content,
contract) ends a request anywhere before its commit: error, rollback or crash.
The data are abstracted: texts are left out, a version's rules are the set of
clauses they refer to, an answer is a value or absent. Definitions commented
`Mutant:` are plausible bugs that no behaviour uses; PROJECT.json puts each in
the place of the definition it varies, and the named property must then fail.
Properties called `...IsSound` and `...AreSound` are the conjunction of a
component's type invariant with its safety invariants, each stated by itself
before it; every part has a mutant of its own.

### ContentLifecycle

`row` holds the version rows, `current` the pointers, `entities` the entities,
`audit` what was handed to the audit service; `acked` is a history variable that
counts acknowledged metadata entries. `PATCH .../status` is `ReadForTransition`
followed by `WriteStatus`, or for a publication by `PassGates` and
`WritePublish`. The statements of the gates are one step: what they read of
other entities (exists, was published) is never revoked, so reading it earlier
or later in the same request makes no difference to the outcome. `WriteAudit`
is the call after the commit and may be lost by `Fail`. The unique index on
(entity, number) is the guard `NumberIsFree`. Requests of editors and admins of
one tenant only: the others are refused before any statement runs.

### ContractLifecycle

One contract row, because contracts share nothing but the content they read.
`ReadTemplate`, `ResolvePins` and `CreateContract` are the three statements of
POST, `ReadForSave`/`WriteAnswers` the auto-save, `ReadForComplete`/
`WriteComplete` completion, `ReadForValidate`/`ReadRules`/`WriteVerdict`
validation. `selectedSlots` is merged and written like `answers` and is left
out. `RowSecurity` switches the read policy of `clause_versions` on: whether it
binds the API depends on the database role; `contract_races` has it on. The
catalogue obeys `EditorialWorkflow`; the one way content is known to break it
(section 4, the undone publication) is therefore not in this model. `raced` is a
history variable: some requests overlapped; what holds only without that
(`NoAnswerLost`, `ValidatedVerdictHolds`, parts of `CompletedIsFinal`) says so.

### ExportPipeline

`status` is the column of `export_jobs`, `queue` the pg-boss table, `worker` the
handler slots, `stored` and `cache` the two kinds of S3 objects, `storing` the
cache stores that nobody awaits. The API sends the job's id as `jobId` and the
worker reads `exportJobId`: `SentKeys` are the keys a message may have. With
`{"jobId"}` the model is the system as it is (run `export_payload_key`); with
`"exportJobId"`, the key that the worker's `ExportJobData` declares, the rest of
the pipeline can be examined. `since` is a history variable: the states of the
contract since a job was requested. pg-boss is external and modelled by what
the code relies on: delivery at least once, `retryLimit`, `expireInSeconds`, a
result that counts only while the message is active. `MarkFailed` is an
operator: no code writes the status `failed` that retry and archive ask for.
That a handler still running sets an archived job `done` follows and is not a
run of its own.

### AuditService

`rows` counts the rows of an event, `pending` are log transactions in flight,
`queue` and `batch` the fallback queue and the batches taken out of it. The
interval timer does not wait for its flush, hence several `Flushes`. A
transaction may commit and still report an error (`doubtful`); `Unwritable` are
events no row can hold (SCIM logs the user id `scim-service` into a UUID
column). The history variables `gone` and `abandoned` say how an event was
lost: by overflow or a crash, or because it was behind another one in the batch
of a flush that failed.

### WorkerProcess: TemplateCache, AutoScaler

`entries` is the JavaScript Map in its insertion order, with the idle time, age
and size of every entry, `total` the byte counter, `warming` the pre-warming
that loads while jobs use the cache. `outdated` says since when a file was
replaced on disk. `poll` holds the polls of the scaler in flight (waiting for the
queue size, or for the concurrency to be applied), `overlapped` is the history
variable that two of them decided on one state. The two components share the
clock and the shutdown, so the bound `OneAtATime` looks at one while the other is
at rest.

### ApiProcess: what the API keeps beside content, contracts and exports

The seven parts share no state; the bound of `MCApiProcess` moves one while the
others are as at the start, so the run is the union of seven.

- `UserProvisioning`: `users` (rows), `accounts` (Keycloak, by email) and `call`
  (a handler and the Keycloak calls it still has to make, in order). Any call
  may fail, which the code logs and ignores; a handler may die between two.
  `disturbed` is the history that requests overlapped or a call failed, without
  which rows and accounts must agree.
- `SessionHardening`: `lastActive`, `userSessions`, `invalidated`, and time as a
  counter. The middlewares are taken in the order the module documents.
- `RateLimiter`: `store` as ages of time stamps; `lately` is the history of the
  requests that did pass.
- `SearchIndex`: `row` numbers what findMany returns of an entity, `document` what
  the index was made from. A page is any set of rows of the right size, because
  the query has no order. `alone` is the history that makes the promise of a full
  reindex one that can be kept.
- `LogoStore`: `style` (row), `objects` (bucket), `upload` (handlers in flight).
  `failing`, `untidy` and `raced` name the templates for which a promise is
  excused, and why.
- `ContentImport`: `import` holds the transaction's snapshot of titles and what
  it has created; only `Commit` shows it to others.
- `DomainEvents`: `publication` holds who was to hear of an event and who has
  ended or thrown.

### WebClient: the pages

`InterviewSession` is the page with its debounce timer, its requests (which may
be answered in any order, fail, or reach the API without an answer) and the
contract the API keeps. `ReviewPage` has the page that completes, exports and
polls, and the history panel with its fetches. `Notifications` is the list with
its timers, exits and the delayed removals. `ClauseReorder` translates the index
arithmetic of drop and keys. `RumPipeline` follows a metric from the buffer
through a request to the ring of the API. They share nothing; `MCWebClient` moves
one at a time.

## 3 Runs

All runs are exhaustive. "Deadlock off" is set where the bounded system can run
out of work: all versions deprecated and the one contract completed, all jobs
exported, all events logged.

| Run | Question | Instance | Result |
|---|---|---|---|
| `content_races` | numbering, pointer, four eyes, earned status, audit under races | 1 clause, 2 versions, 2 users, 2 requests, 1 metadata entry | holds |
| `content_serial` | required clauses resolve, no entry lost, refinement of `EditorialWorkflow` | clause and template with one version each, 1 request at a time, empty database | holds |
| `contract_races` | pins, verdict, completion under races; answers, verdict and completion when requests do not overlap | template with 2 slots, 3 clause versions, 2 requests, row security on | holds |
| `contract_late_save` | completed answers are frozen | 2 requests | violated |
| `export_documents` | document before done, right answers, queued means pending | 2 slots, 1 fault; 2 jobs and edits, or 1 job, 2 operators and 3 messages | holds |
| `export_settles` | messages end, sent means done | 2 jobs, 2 slots, both keys, failing sends, 1 fault, 1 retry | holds (fairness) |
| `export_payload_key` | queued jobs end | payload as sent | violated (fairness) |
| `audit_flushes` | written once, queue bounded, nothing lost unaccounted, recorded in the end | 4 events, queue 1, batch 2, 2 flushes, 1 unwritable event | holds (fairness) |
| `worker_process` | limits, size and eviction order of the cache, staleness; steps, bounds and convergence of the concurrency | 3 versions, capacity 2, one file above the memory limit; 2 overlapping polls, concurrency 1 to 3 | holds (fairness for convergence) |
| `api_process` | the seven parts of `ApiProcess` | 2 users, 2 emails, 2 requests, SCIM patches of email and status or role and status; 3 sessions of 2 people; 2 clients; 2 clauses on 2 pages, a template, 2 reindexes; 2 style templates, 2 keys, 2 uploads; 2 imports of 3 files; 2 types, 2 handlers, 2 events | holds |
| `web_client` | the five parts of `WebClient` | 2 questions, 2 requests; 3 toasts, 2 visible; sections of 3 and 2 clauses; 2 jobs, 2 entities, 2 fetches; 5 metrics | holds (fairness for toasts) |
| `history_mixup` | the panel shows the history of its entity | 2 entities, 2 fetches | violated |

The violated runs state what a document, comment or message of the repository
says; PROJECT.json `findings` quotes each with its line.

Why the bounds are enough to be of use. All races of the handlers are between
two requests over one row (or a row and the one it requires); a third request
can only repeat what one of the two did. Two versions are the least that make
numbering, pointer moves and repeated publication happen; two users the least
for four eyes. One fault and one retry exercise redelivery beside a slow
handler; a queue of 1, batches of 2, 4 events and 2 flushes overflow, refill and
take two events back, which is the longest the queue can get. A capacity of 2
under 3 versions evicts; a concurrency from 1 to 3 has an inner value; three
clauses are the least in which a drop can displace a third. A page of one row
over two clauses repeats and skips entries. The bounds are named: `MaxEntries`
(metadata entries), `MaxMessages`, `MaxFaults` (export), `MaxChange` (search),
`MaxMetrics` (RUM), `Exportable` (style templates that jobs name), and in
AuditService an event is inserted in spite of an error at most once. Constraints
of the MC modules: `EntriesOfOneVersion`, `OneVersionEach`, `CreatedFirst`
(content), `EditsOrOperators` (export: either edits or operators), `OneAtATime`.
That a published template's clauses stay resolvable under races is proved
(`RefsCorrect`), so its run is serial; the type invariant and two action
properties of `ContentLifecycle` are proved without a run. None of the proofs
depends on a constraint.

Fairness. Contracts, content and the API's other parts are checked for safety
only. ExportPipeline: an accepted request runs on, the worker polls and its
handlers run on, and pg-boss expires messages nobody works on; that is what the
event loop and the maintenance of pg-boss provide. Errors, crashes, edits and
requests are never forced. AuditService: transactions end, the interval fires,
and an event that is tried again and again is written in the end (strong
fairness: the database is not down for ever); calls of `log` and crashes are not
forced. AutoScaler: the interval fires, awaits end, time passes. Notifications:
timers that were set fire. Users are never forced to act.

## 4 Observed without a run

Reading and modelling also showed these; they follow from the code or the
models but have no run of their own.

Content and contracts

- `content/routes.ts:236`: a PATCH that read `approved` and sends the version
  back to draft overwrites a publication committed in between (`WriteStatus`
  writes by id what another request has changed since `ReadForTransition`).
- `content/routes.ts:212`: the status PATCH lets any editor, the author included,
  approve, and writes no review entry; the gate asks only that a reviewer other
  than the author is set. content-versioning-schema-v1.md:19 says "Publikation
  erfordert Reviewer-Freigabe (Autor ≠ Reviewer)".
- `content/routes.ts:233` records the publishing user as the reviewer, who may
  be the author; hence `FourEyesUntilPublished` stops at the publication.
- `content/routes.ts:242`: publishing version 2 leaves version 1 `published`.
- `content/publishing-gates.ts:100` finds a clause that requires itself, no longer
  cycle.
- `content/changelog.ts:69` and the review handlers: of two concurrent requests
  that append to `metadata` one entry is lost; `NoEntryLost` is checked serially.
- `content/import.ts:148`: titles repeated in one file are all created, and two
  imports that overlap create the same titles, although `:11` announces duplicate
  detection; `ImportedOnce` excuses exactly these.
- `contract/routes.ts:218`: without a call of validate a contract with a hard
  conflict is completed; `:61` pins a deprecated version if the pointer still
  names it; `:332` keeps old messages beside the verdict `valid`; with row
  security on, `:261` misses the rules of a foreign version once it is deprecated.

Export, audit, worker

- `export/routes.ts:85` and `export-worker/src/main.ts:63`: a send that fails and
  a message whose retries are used up leave the job `queued` for ever.
- `export/routes.ts:26`: `getBoss` sets its variable before `start` has finished;
  a concurrent request sends through an instance that is not started. The model
  has it as a failing send.
- `cache/cache-key.ts:37`: a cached document may show an older title, client
  reference, slot selection or order of lists; hence `AnswersAreAsRequested`
  speaks of answers only.
- `audit.service.ts:168`: a transaction that fails in a flush loses the rest of
  its batch, which audit-logging-e2e-v1.md:197 says is written later; the history
  `abandoned` excuses it. `:167`: `unshift` ignores the maximum; hence
  `QueueBounded`. `shutdown` is never called.
- `services/scim-provisioning.ts:283`: the user id `scim-service` does not fit the
  column, so no SCIM event is ever recorded, and each of them takes the rest of
  its batch along.
- Style templates: an export job may name one that does not exist or is being
  deleted (no foreign key). An upload deletes the old object before the new one
  is recorded; overlapping uploads leave objects that nobody refers to.
- `eventBus.publish` is called by nobody outside the tests.

Users, sessions, search

- `scim-provisioning.ts:555` reads `updatedAt`, which the users table lacks
  (schema 50-73): SCIM answers 500 after its effects. The id of the Keycloak
  account is never stored (`:264`), so later SCIM patches and deletions skip
  Keycloak.
- Session hardening in its documented order: the idle timeout looks at the time
  stamp the middleware before has just refreshed; the session limit asks for a
  session that registration has already added; neither ever refuses. Session ids
  with a colon are never cleaned up; requests without an id share
  `default-session`. Neither it nor the rate limiter is mounted by `main.ts`.
- Search: the pages of a full reindex have no order, so entries may be missed;
  it runs outside a tenant context, where what it sees depends on the database
  role. indexClause, removeClause, ensureIndices have no caller. The SQL fallback
  filters by the status of any version, OpenSearch by that of the latest.

Web client

- `InterviewPage`: PATCHes may arrive out of order; the timer is cleared neither on
  unmount nor on completion; any error replaces the page; a reload on the template
  route creates another contract.
- `ReviewPage`: posts to `/v1/export`, which the API does not have
  (`/api/v1/export-jobs`), and waits for `completed` where the API says `done`; a
  poll in flight at unmount schedules another.
- `useNotifications`: the delayed clearing of dismissAll also removes newer toasts.
- `ClauseReorderPanel`: clauses of required slots cannot be dragged but are displaced
  by their neighbours' moves, although line 9 calls them fixed. No page uses it.
- RUM: the browser buffer (200) exceeds the batch the API accepts (100); such a
  batch is refused as a whole.

## 5 What is proved

Every safety invariant and every action property of the passing runs, for all
values of the constants that satisfy the modules' named ASSUMEs, and without the
bounds of the MC modules: eight modules of theorems, one per specification that
is run (`Subsequences_proofs` has the lemmas two of them share). `PROJECT.json`
lists the theorems; the ones below are the results, each of the form
`Spec => []P`, or `Spec => A` for an action property.

| Module | Theorems |
|---|---|
| `ContentLifecycle_proofs` | `TypeCorrect`, `NumbersCorrect`, `PointerCorrect`, `FourEyesCorrect`, `EarnedCorrect`, `AuditCorrect`, `RefsCorrect`, `FirstPublishCorrect` and `PointerMovesCorrect` (actions), for any concurrent requests; `EntriesKept` and the refinement `WorkflowImplemented` for requests that come one after the other (`Requests = {r}`) |
| `ContractLifecycle_proofs` | `TypeCorrect`, `PinsCorrect`, `VerdictsExplained`, `AnswersKept`, `VerdictsHold`, `CompletionCorrect` (action) |
| `ExportPipeline_proofs` | `TypeCorrect`, `DocumentsExist`, `AnswersCorrect`; `QueuedJobsArePending` under `RetriesSuffice` |
| `AuditService_proofs` | `TypeCorrect` (with the bound of the queue), `EventsAccounted` |
| `WorkerProcess_proofs` | `CacheCorrect`, `EvictionCorrect` (action), `ScalingCorrect` (action) |
| `ApiProcess_proofs` | `UsersCorrect`, `SessionsCorrect`, `LimiterCorrect`, `EventsCorrect`, `LogosCorrect`, `ImportsCorrect`, `IndexCorrect` |
| `WebClient_proofs` | `InterviewCorrect`, `ToastsCorrect`, `PagesCorrect`, `MetricsCorrect`, `ReorderCorrect` (action) |

### Assumptions

The ASSUMEs say no more than what the code provides. Four kinds:

- NULL, "no entry" and the like are not values: `NoUserIsNull`, `NoVersionIsNull`,
  `UnsetIsUndefined`, `NoDocumentIsNone`, `UndefinedIsNoJob`, `NullIsNothing`,
  `UntrackedIsNoAge`, `NoEntryIsNoList`, `NeverIsNoAge`, `CurrentIsNoAge`,
  `AuditIsNoOther`, `HandIsNoImporter`, `LogosAreDistinct`.
- Limits are numbers, and positive where the configuration is: `MaxEntriesIsNat`,
  `LimitsAreNat`, `BoundsArePositive`, `BoundsAreNat`, `ConfiguredAreNat`,
  `CooldownIsPositive`, `CapacityIsPositive`, `SizesAreNat`, `TtlIsNat`,
  `LimiterLimits`, `TimesAreLimits`, `RumLimits`, `SearchLimits`, `SomeAreVisible`.
- Catalogues are well formed: `OwnerIsEntity`, `SlotsAreClauses`, `RulesAskQuestions`,
  `KeysAreDistinct`, `ConditionsLookBack` (a condition reads earlier questions),
  `ClausesAreDistinct`, `FilesAreImports`, `SessionsAreIds`, `PatchesAreChanges`,
  `UnwritableAreEvents`, `DisjointEntities`, `KeysAreStrings`, `SecurityIsSwitch`,
  `SwitchesAreBoolean`.
- Finitely many requests run, handlers subscribe, flushes overlap and entries are
  indexed: `RequestsAreFinite`, `BusIsFinite`, `FlushesAreFinite`,
  `CatalogueIsFinite`. Counting needs it.

`RetriesSuffice` is no ASSUME but the hypothesis of one theorem: the message
carries the id under the key that is read, sends do not fail, and there are no
more faults than retries. The code as it is violates its first part (run
`export_payload_key`), which is the point: with the key repaired a queued job is
never stranded, whatever else interleaves.

### The arguments

None of the properties is inductive. In most modules the reason is one and the
same: a handler writes what it decided some steps ago. The invariant therefore
says, for each place at which a handler may stand, which of the things it has read
are true still, and the proof shows that no step of another actor can undo them.

*Content.* `PendingOK` says what a request in flight may rely on (`RequestOK`): its
version exists; a pending status change is no publication, and a deprecation
finds the mark of one; past the gates there is a reviewer, and what the version
refers to exists and can be pinned (`GateHolds`); the number before a pending
insertion is taken; a pending reviewer is not the author. These survive the steps
of others because rows only grow in the respects they speak of (`Monotone`: rows
stay, entity, number, author and references never change, publication is never
unmarked). So each read establishes `RequestOK` for its request (`ReadOK`,
`PassGatesOK`), each write preserves the invariant from its own (`WritePublishOK`,
...), and `RequestOKIsStable` carries the others' over. Status and metadata are
not monotone, and two requests can lose each other's. For one request at a time
`SerialInv` adds `Fresh`: what it has read is what the row still holds. Then every
write is a step of `EditorialWorkflow` and appends to the current metadata
(`SerialNext`); reads, gates, assignments and audit calls are stutters.

*Contracts.* `PendingOK` keeps what no step revokes: a template or clause version
that was published stays published or deprecated, a contract is never removed.
`UnracedOK`, behind the history variable `raced`, keeps what only a request that
was alone may assume: the answers, stage and messages it read. A verdict in need
of an explanation is inductive with the messages because both are written in one
UPDATE, whatever order validations take.

*Export.* `HandlerOK` gives each await of a handler its fact: the contract it
loaded belongs to the time since its job was requested, a cached document shows
the same answers, the object is in the bucket before the row says so. `CacheOK`
(a document is filed under its own key) makes a hit as good as a rendering, and
`SinceOK` ties the history to the rows. `PInv` counts: an attempt that is over has
cost a fault (`AttemptsOK`), hence a message cannot run out of retries, and every
queued job has a request, a message or a handler ahead (`QueuedOK`).

*Audit.* The property counts where an event is; the invariant does without
counting. `Once` says that queue, batches and transactions are disjoint and free
of repetitions, `RowsOK` how many rows an event has that is still held, and
`NoneLost` where the others went. The queue may exceed its maximum because flushes
give back; `QueueOK` is the bound: every flush under way has taken something out,
`Len(queue) + |Busy| <= QueueMax + |Flushes|`.

*Worker.* Cache: `MapInv` adds to the property that only a file that was cached
before can have been replaced since (`ReplacedSince`), from which staleness
follows because age and time since the replacement grow together. The sum of sizes
is a recursive function; that it exists and what one more entry adds is proved by
induction over subsets of Nat (`SumsExist`, `SizesOfLonger`, `SizesOfPicked`).
`EvictIs` shows that the loops of evictIfNeeded come to an end with room, and
`Ranks` that who was used earlier ranks first, which is `EvictionCorrect`. Scaler:
`DecisionHolds` says that a decision, while polls do not overlap, finds the state
it was made in; bounds hold for any overlap because each decision is clamped.

*API.* One invariant per part. Users: `Covers` and `Followed` say that an account
either agrees with its user or will by the calls its only request still makes.
Sessions: both maps, ages and the time since the last clean-up together bound what
is kept. Limiter: the stored stamps younger than the window are the requests that
passed. Bus: the counters equal the cardinality of the pairs (publication, failed
handler). Logos: what each stage of an upload knows of keys and objects (`Erasing`,
`FreshKeys`, `Tidy`). Imports: `TransactionOK` relates a running transaction to the
snapshot it took and to those that overlap it. Index: `RunOK` accounts for every
entity as indexed, read, or still on an unread page.

*Web client.* Metrics: a partition of all captured numbers into buffer, wire, ring
and known losses (`Split`). Toasts: a toast on its way out has a removal ahead.
Pages: a poll or its answer is under way exactly while the page says processing.
Reorder: the focus and the dragged clause stay inside the section they were in.
Interview: the newest save carries what is shown (`SavesAreCurrent`), and because
conditions look back, an answer cannot hide its own question.

`Subsequences` defines what `filter` leaves of a list by positions, because nothing
can be proved about `SelectSeq`; its lemmas (`PickedSeq`, `PickedOrder`,
`PickedAppend`, ...) are what limiter, toasts, interview and cache rest on.

### Only model-checked

- Liveness, which needs ENABLED: `MessagesSettle` and `SentIsDone` (export),
  `RecordedOrGone` (audit), `ScalesWithTheQueue` (scaler), `ToastsGo` (toasts).
- The violated runs, which are counterexamples.

What the run of an invariant shows on a small instance, the theorem says of all;
the runs remain what shows that the properties can fail (the mutants) and that
the interesting states are reached.

## 6 Plan

Done: every component that keeps state of its own is modelled (sections 2 and 3)
and its safety properties are proved. Next: abstract specifications with
refinement proofs for more parts (an export job as queued, then done or failed; the
audit trail as a set that only grows; a contract as draft, then completed), so that
what a component promises can be read without its handlers; lemmas that several
proof modules repeat moved to one; what holds of overlapping requests where today
only serial ones are promised something (content metadata, user accounts).

Not modelled: rendering and conversion (libraries; the export model takes a
document to be what the loaded data says), JWT verification and tenant context
(stateless, row visibility is modelled in contracts), queries of search and the
list views (they only read), counters and wording, team membership and API keys,
the lazy start of pg-boss.
