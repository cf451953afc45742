# A TLA+ verification of Compendiq CE

Compendiq CE is a knowledge base beside Atlassian Confluence: a Fastify
backend (`src/backend`) over PostgreSQL with pgvector, Redis and BullMQ, a React
frontend, a small MCP server for documentation and a package of shared
contracts. The backend runs as one or more *pods* over one database and one
Redis. Everything modelled here is in the backend, because that is where
several processes, a remote wiki, a cache, a message bus and a job queue meet
state that must not be lost.

All TLA+ was written from the source. This file is the inventory of the system,
the account of the modules and of what the runs and proofs show, and the plan.
`PROJECT.json` lists the same by file and line.

To repeat a run: `tlc -workers 2 -config X.cfg M`. To repeat a proof: `tlapm M.tla`.

## 1. Inventory

Paths are relative to `src/backend/src/`.

### Components with state and concurrency

| Component | State | Operations | Interacts with | Hard part |
|---|---|---|---|---|
| **Page write admission** `core/services/page-write-admission.ts` | `page_write_intents`, `page_writer_runtimes`, `page_runtime_admissions`, lifecycle and content revisions; in memory: operations, tokens, the closed gate | reserve, run effect, mark, complete, cancel, advance, admit/release a room, quiesce, fence, reconcile | every route that writes a page, Confluence, attachment files, baselines, rooms | a process dies or a COMMIT answer is lost between any two steps; a timed-out request lands later; recovery by another process |
| **Baselines** `core/services/page-baseline-*.ts` | `baseline_id`, prepared baselines, an outbox | prepare, publish a freeze, thaw, retain, export | admission (a freeze needs an idle page) | inspect-then-freeze races |
| **Reconcilers** `domains/confluence/services/*-reconciler.ts` | none of their own | verify an abandoned intent against the wiki or the disk | admission | a verdict must stay true although the request may still be on the wire |
| **Collaborative rooms** `core/services/collab-room-service.ts`, `collab-persistence.ts`, `collab-guard.ts`, `routes/knowledge/pages-collab.ts` | a Y.Doc per pod and page, a `collab_room` admission, the BYTEA document and `body_html`, the Redis bus | join, edit, replicate, persist, leave, demote, Save (a round of state dumps, then a write of the body), reset, close | admission, Redis pub/sub, whole-body writes | awaits inside every handler; edits in flight while the last writer leaves; two first writers; a Save that writes the body of an older snapshot; crash of an owner |
| **Page cache** `core/services/redis-cache.ts`, `page-write-invalidation.ts` | Redis entries and generation counters, `page_cache_invalidation_queue` | get, fill, invalidate, flush the queue | every page write through a trigger | a fill computed before an invalidation and stored after it; the queue row removed while a writer changes the page again |
| **Webhook outbox** `core/services/webhook-outbox-poller.ts`, `webhook-delivery.ts` | `webhook_outbox`, `webhook_deliveries`, BullMQ jobs | claim, enqueue, sweep, deliver, record, reschedule | BullMQ, receivers | claim and enqueue are not atomic; reruns; sweep racing a re-claim |
| **LLM circuit breaker** `core/services/circuit-breaker.ts` | state, counters, the probe gate, per provider | execute, invalidate, get status | llm-queue and streaming calls | calls admitted in one state settle in another |
| **Cluster settings** `core/services/redis-cache-bus.ts`, `cached-setting.ts`, `domains/llm/services/llm-queue.ts` | a row; a cached copy and a limiter in every pod | save, publish, re-read, reconnect | Redis pub/sub | at-most-once messages, unawaited re-reads, boot window |
| **LLM queue** `domains/llm/services/llm-queue.ts` | p-limit, depth counter, timers | enqueue, time out, change the limits | breaker, settings | a timeout racing the answer; a limit changed under load |
| **Embedding, shadow migration** `domains/llm/services/embedding-service.ts`, `shadow-migration-service.ts` | `page_embeddings`, dirty flags, a second vector column, the migration's state row | embed a page, start, back-fill, swap, abort, revert, clean up | page writes, image analyses, DDL locks | vectors computed in one epoch and written in another; a flag lowered for a text nobody embedded |
| **Image analysis worker** | claims with retries, a dirty flag | claim, analyse, store | page writes | the page changes while it is analysed |
| **Confluence sync**, attachment sweep, rate limiter | sync locks, candidates, token bucket | pull, push, delete, quarantine | admission, Confluence | partial failure of a long pass |
| **Authentication** `core/plugins/auth.ts`, `core/services/admin-user-service.ts` | refresh-token families, roles and deactivations, row and advisory locks | log in, rotate, revoke, change role, deactivate, delete | cache-bus | a rotation in flight while its session is ended; two administrators removing each other |
| **SSE limiter, presence, bulk progress, export tickets** | Redis counters and keys with expiry | open/close, beat, step, redeem | routes | expiry racing the last decrement |
| **Notion import, relocation, summary/quality workers** | job rows, leases | run, checkpoint, retry | admission, queue | lease and checkpoint order |

Retrieval (ranking, fusion, MMR), content conversion, access control, notification
and retention queries, HTTP validation, the frontend, the MCP server and the
contracts keep no shared state that several actors change in steps; the reason
for leaving each out is in `PROJECT.json`.

### What makes each modelled component correct

* admission: a page has one owner; a verdict is never contradicted by a late
  request; a retired process does no I/O; a frozen page is what was approved;
* rooms: no accepted edit is lost; a Save has everything accepted before it, in its
  snapshot and in the body it writes; text never doubles;
* cache: nothing older than the last invalidation is served; a page that has
  left the queue is current; every change leaves it;
* outbox: one delivery at a time without faults; the sweep never takes a live
  job's row; given up only when exhausted; settled whatever single thing fails;
* breaker: one probe; counters agree with the state; it recovers;
* settings: a copy told of a save ends up with it;
* queue: no job is lost, doubled or left beside a free slot; the breaker behind
  it sees nothing but what its own specification allows;
* vectors: live vectors are the assigned model's; the extra column never mixes
  models or texts; a page that is not marked dirty is embedded as it is;
* sessions: a family never forks; what was ended stays ended; no session is
  carried across a change of privilege; an administrator is left.

## 2. Modules

| Module | Models | Kind |
|---|---|---|
| `PageOwnership` | what write admission is for: claims, references, rooms, freezes | abstract specification |
| `PageWriteAdmission` | reservation, effects, settlement, rooms, quiescence, fence, recovery | detailed, refines `PageOwnership` |
| `PageWriteAdmissionProofs` | proofs about them: the ownership rules, types, refinement, effects | proofs |
| `CollabRooms`, `CollabRoomsProofs` | rooms of one page on several pods, and a whole-body write beside them | detailed, proofs |
| `PageCache`, `PageCacheProofs` | generational cache, durable invalidation queue | detailed, proofs |
| `WebhookOutbox`, `WebhookOutboxProofs` | poller, sweep, delivery, BullMQ's part | detailed, proofs |
| `CircuitBreaker` | one provider's breaker | detailed |
| `LlmQueue`, `LlmQueueProofs` | the LLM queue, composed with one provider's breaker | composition, refines `CircuitBreaker`, proofs of both |
| `ClusterSettings`, `ClusterSettingsProofs` | a setting, its copies and the bus | detailed, proofs |
| `ShadowMigration`, `ShadowMigrationProofs` | `embedPage`, and the migration of the vectors to another model | detailed, proofs |
| `UserSessions`, `UserSessionsProofs` | accounts, refresh tokens and the locks between them | detailed, proofs |
| `MCPageWriteAdmission`, `MCCollabRooms`, `MCShadowMigration`, `MCUserSessions` | symmetry for TLC | model checking |

The modules meet where the components do. An intent or a room admission in
`PageWriteAdmission` is the same row that `CollabRooms` calls `held`: the first
shows that a whole-body write or a freeze and a writable room exclude each other,
the second takes that as the guard of `Author` and looks inside the room. The
queue of `PageCache` is filled by the trigger on the pages that both write.
`LlmQueue` extends `CircuitBreaker` and runs the breaker's own actions behind the
queue's; `ImplementsBreaker` says that the composition is a behaviour of the
breaker. `Edit` of `ShadowMigration` is one of those page writes again, seen from
the dirty flag it raises.

### PageWriteAdmission

*State.* `row` is `page_write_intents` (status, owner, mode, pages, durable
marks), `epoch` and `admitted` the two runtime tables, `frozen` and `prepared`
the baseline columns; `op`, `eff`, `accepting`, `recFailed`
and `localAdm` are the memory of a process; `wire`,
`upstream` and `disk` are the request in flight, the remote page and the files.
Revisions are compared for equality only, so `drift` and `stale` keep who is out
of date instead of numbers.

*Actions.* One per transaction or I/O step: `Reserve`, `ReserveInTransaction`
and `EndCallerTransaction` (the one transaction left open between two actions),
`RunEffect` → `MarkStarted` → `Dispatch`/`WriteFiles` → `Land`, `Respond` →
`MarkFinished`, `EffectFails`, `Complete`, `CompleteRereads`, `Advance`,
`CancelBeforeEffect`; `WritePage`, `WriteRoom`, `AdmitRuntime`,
`ReleaseRuntime`; `Freeze`, `Unfreeze`; `CloseGate`, `Acknowledge`,
`FenceAcknowledged`, `FenceUnacknowledged`, `Crash`; `Discover`, `Claim`,
`SettleRecovered`, `StartRepair`, `RecoveryFails`. A lost COMMIT answer is an
alternative of the reserve, mark, finish, complete, cancel, advance, claim,
settle, admit and release actions: the database changes, the caller sees an error.

*Abstractions.* Administrators' authorization is a step that may fail. Prepare
intents cover one page. The wait for drained operations and the acknowledgement
are one step; tokens discovered earlier are voided when a claim replaces the
owner; a process has one admission per page. A verifier of a terminal intent
whose remote result is recorded answers "applied". History and audit rows, the
`expectedRevisions` input, the hierarchy advisory lock and an unavailable
reconciler are left out. What a verifier can find (`Verdict`) depends on the
mode, the wire, the remote page and the disk; how it compares bodies and digests
is not modelled.

*PageOwnership* has five kinds of steps: take, change, settle and abandon a
claim, and change a page (open or close a room, edit, freeze, thaw). It is what a
reader should keep in mind: claims that are not references exclude each other and
rooms, frozen pages have no writer, and only a reference can be overtaken.
`ImplementsOwnership` says every behaviour of the detailed module is one of
these; the mapping is `HeldPages`, `References`, `admitted`, `Overtaken`.

### CollabRooms

*State.* `store` (the BYTEA document and the body), `held` (unreleased
admissions), for each pod its `room` (document, admission, whether it may
persist, whether a debounced write is armed, its connections) and `op`, the
operation at the head of the promise queue of `withRoomOwnership`; `asked`,
retirements queued behind it; `frame`, an edit waiting for the lifecycle lock
with the admission it captured; `bus`, replicated edits; `pending`, the Saves that
have taken their snapshot and not yet written the body. `owed`, `under`, `snap` and
`store.late` are history: what was accepted, under which admission, the last
snapshot, and what of the document the Save that wrote the body did not have to
include, because it was accepted after that Save had begun.

A document is the set of what it contains: edits, authored bodies, and *seeds*.
Every conversion of HTML to a Y.Doc is a fresh seed, and merging is union, so
two merged conversions, which would show the text twice, are two seeds.
Seed 0 is a read-only room's provisional conversion.

*Actions.* A join is `StartJoin`, then `Check` or `Admit`, `InitDoc` or
`InitFails`, then the round `Owners`, `ReplyDump`, `TakeDump`, `Settle` (or
`RoundFails`), then `Attach`. A Save is `StartCommit` and the same round; with its
snapshot it leaves the ownership queue (`Confirmed`), and its route writes the HTML
of that snapshot in a transaction of its own (`SaveBody`, `pages-collab.ts:576-609`)
or gives up (`SaveFails`). Edits:
`Receive`, `Apply` or `Drop`, `Merge` at the peers, `Persist`. Ends: `Leave` and
`Demote`, which take effect at once and ask for a retirement, `StartRetire`,
`StartDrop`, `StartClose`, `Flush`, `FlushFails`, `Release`, `ReleaseFails`;
`Crash`. `Author` and `Delete` are the two transactions of a whole-body write.

*Abstractions.* A connection joins once and makes one edit, and the load balancer
may send it to any pod. The request of a round is part of `ReplyDump`; a lost
transport is `RoundFails` and `Leave`; an undelivered message is one that `Merge`
never takes. An edit whose transaction fails after it was applied counts as not
accepted. Awareness, resets and tombstones, freezes (see `PageWriteAdmission`),
the Redis set of active rooms, which PostgreSQL overrides, and the client's state
vector of a Save are left out, and so are the page's title, version and flags. A Save
to Confluence (`commitConfluencePage`) writes the body through a write intent, whose
content and lifecycle revisions were read before the snapshot; here it is the same
late write, without those checks, or none. That a recovery may complete the intent
after the process has died belongs to `PageWriteAdmission`. The
request's admission keeps whole-body writes away from the snapshot to the end of the
write (`Author` waits for `pending`). After a crash, or when its release fails, it
stays in the database and keeps them away for longer; the model lets them go on.

*What `Survives` says.* Two things. What the next room loads has every accepted edit
whose admission is gone, and every authored body. The body that readers, search and
exports see has them too, but for `late`: `SaveBody` writes the text of a snapshot
that may be older than the stored document, because its `WHERE version = …` compares
with a version read in the same transaction and a flush does not raise the version.
An edit accepted, flushed and released after the Save began is then missing in the
body until the next flush or Save, and is safe in the document. The
property allows that, and nothing more: what was accepted before the Save began may
not be missing.

*Hazards.* Four orders are not protected by the code, and the constant `Hazards`
names those that may happen: `window` (a join or a Save between the two
transactions of a whole-body write), `linger` (a room kept open by a reader
across both), `retained` (the first writer's load and the release of its
admission both fail) and `unconfirmed` (a release that wrote, with its answer and
its confirming read lost). With any of the first three `Survives` fails, with the
last `OneSeed`. They are described under *Findings*; the run `collab` is about
everything else.

### PageCache

`content` counts the committed changes of each page; `touched` are the pages an
open transaction has changed, whose queue rows it locks through the trigger;
`queue` is `page_cache_invalidation_queue`; `generation` and `userGeneration` are
the two counters that `GET_WITH_GENERATION_SCRIPT` returns and
`SET_IF_CURRENT_SCRIPT` compares. `ReadPage` reads one page at a time, so a slow
reader sees several database states. A publisher is `TakeLock`, `Select` or
`SelectNone`, `BumpAll`, `ScanAll`, `Deliver`, with `Abort` after any of them
(Redis moved, PostgreSQL did not). `Invalidate` and `Remove` are a route's
invalidation for one user; `Forget` is a fill that was refused or lost. The `LIMIT` of a
batch is any non-empty set of free rows; row locks are taken at once; the intents'
own delivery flag and the search namespace, which follow the same pattern, the
stampede lock and a Redis that loses its generation keys are left out.

### WebhookOutbox

`status`, `jobOf`, `claims` and `ledger` are the rows; `toAdd` and `orphan` a
poller's memory; `job`, `holder` and `stalled` BullMQ's; `run` a worker's place in
`deliverOne`. `Claim`, `Enqueue`/`EnqueueFails`, `SweepFinds` and `SweepResets`
are the poller, `StartRun`, `Post`, `RecordDelivery`, `SettleRow`, `EndRun` the
delivery; `StallLive`, `StallDead` and `Crash` the environment. BullMQ is
external, modelled from how the code relies on it: a job has one lock holder, a
lost lock lets another worker run it, once. Back-off waits are left out (a
pending row is due), and the reads of the attempt count and subscription belong to
the start of a run.

### CircuitBreaker

The class's fields, and for each overlapping call whether it was admitted plainly
or as the probe. `ExecuteClosed`, `ExecuteProbe`, `OnSuccess`, `OnFailure`,
`GetStatus` (which cools OPEN down to HALF_OPEN), `Invalidate` and `SettleOrphan`
(a call of a dropped instance). `recordSuccess`, `recordFailure` and `reset` are
used by tests only and left out. The clock is the choice to cool. The module is
checked through `LlmQueue`.

### LlmQueue

Added to the breaker's state: p-limit's pending queue (`waiting`), a status per
`job`, the two limits and `unsettled`, the accepted jobs not yet counted as
processed or timed out. p-limit is external: a FIFO whose slots `Resume` hands
out. `Enqueue`, `Begin` (the timer starts, the breaker admits the call),
`Refuse` (the breaker answers at once), `Finish`, `Timeout` (the slot is given
away while the aborted call is still to settle), `SettleLate`, `SetConcurrency`,
`SetMaxQueueDepth`; `Stream` is a call that reaches the breaker past the queue.
`Others` are calls to other providers: they take slots and no part in this
breaker. The metrics' getters and the bodies of the calls are left out.

### ClusterSettings

A value is the number of the save that stored it. `Write` and `Publish` are the
two awaits of a save; `Dispatch` takes a message and starts the copies' queries;
`Execute` and `Return` (or `ReadFails`) are the two later moments of an unawaited
query; `Prime`, `Subscribed`, `Reconnect`, `Crash`, `Drop` a pod's life. Pods share
only the row and do not look at each other's copies, so one pod suffices. Parsing, clamping and the
single-process fallback are left out.

### ShadowMigration

*State.* Per page its text (`body`), its image-analysis revision (`images`),
`dirty` and its `rows`: the text and revision its chunks were made from, the
model of the live vectors and that of the extra column, and whether the extra
vectors are of another text. The schema: which extra `column` exists (`next`,
`prev` or none), whether it is `indexed`, the state row `mig`, the `assigned`
model, and who holds the DDL lock. Then the local state of each run of
`embedPage`, of the backfill job and of each administrator's request. A text
stands for title and body, a model for provider and model, a page for its chunks.

*Actions.* `Select` → `Settle` (too short), or `Snapshot` → `Generate` →
`DualWrite` → `Recheck` → `Publish`, `Discard` or `Requeue`, with `Fail` and
`AllSkipped` on the way, are `embedPage`; `StartProbe` → `StartCommit` →
`Enqueue` (or `GiveUp`), `Rerun`, `SwapGate` → `SwapLock` → `SwapSave`,
`Rollback` → `AbortFlip` or `AbortFollow` → `AbortDrop`, `Revert`,
`CleanupRead` → `Cleanup` the administrators; `Fill`, `FillPage`, `FillWrite`,
`FillFails`, `FillEnd`, `FillCrash` the job; `Edit` and `Analyse` everybody else.
Every request may stop between two of its steps.

*Abstractions.* What happens to a page between the two reads of `embedPage`
(text, then analyses) acts as if it came after both or before both. The loop over
batches, locks that do not exclude the page routes or other users' scans, the
destructive re-embed, `embedding_status`, similarity edges and averages are left
out. Two omissions narrow the properties. An administrator may point the embedding
use case at another model while no migration is in flight (`llm-usecases.ts:211-225`
refuses it during one): until the pages are embedded again their vectors are the
earlier model's, so `OneSpace` is about what migrations and `embedPage` do under an
assignment that only a swap or a revert changes. And a page of which some batches
exceed the model's context is stored without them and marked clean
(`embedding-service.ts:703-710`): here a run embeds all of a page or, with
`AllSkipped`, nothing of it, so `CleanIsCurrent` says of which text the rows are and
not that no part of it is missing.

*Hazards.* As in `CollabRooms`, orders the code leaves open are named: `settle`
(an edit before the settling of a short text), `overtake` (of two runs on one page
the one with older analyses commits last), `reuse` (a run outlives a whole
migration and finds the fingerprint of "no migration" again), `probe` (a backfill
job queued while a start probes its provider), `gate` (a swap waits for its lock
while another swap, a cleanup and a new start go by) and `flip` (an abort writes the
row it read over one that moved on). Each breaks a property when it is
allowed: `CleanIsCurrent` the first two, `OneSpace` `reuse` and `flip`, `ExtraSpace`
`probe` and `gate`. `settle` has a run of its own, the others are described under
*Findings*. `SchemaMatches` and the types hold with all of them.

### UserSessions

*State.* `account` (role and state of every user), `token` (the
`refresh_tokens` rows: the *n*-th of a family is `<<family, n>>`), `lock` (who
holds a users row), `guard` (the advisory lock of the last administrator) and the
local state of every `request`. `changes`, `begun` and `over` are history: the
changes of a user that committed, those a login had seen, the families whose end
has committed.

*Actions.* `Login` → `NewFamily`; `Present` → `RotateLock` → `RotateDeactivated`,
or `Claim` → `Rotate`, or `Reuse`; `Logout` → `RevokeLocked`, or past a missed
lock `RevokeBusy` → `RevokeUnlocked` or `UnlockedBusy`, then `RevokeLocked` again;
`RevokeToken`; `ChangeLock` →
`GuardAdmin` → `Change`; `Reactivate`; `GiveUp` is a refusal, error, deadline or
crash at any step: its transaction is rolled back. `RevokeBusy` may come at any
moment, since the deadline of the statement passes with the lock as well as before it;
it takes the snapshot on which the UPDATE of `RevokeUnlocked` acts when the rows it waits for are free.

*Abstractions.* OIDC, registration and set-up end in the same INSERT as a login.
Expiry, access tokens, the security cache and password changes are left out.

*Hazard.* `login`: the password is compared after the user is read and before the
token is inserted; a deactivation or change of role in between has already removed
the tokens. Without the hazard a login ends only if no change of its user
committed meanwhile; with it `CurrentPrivilege` fails.

## 3. Runs

"States" are the distinct states TLC finds.

| Run | Instance | Properties | States |
|---|---|---|---|
| `admission` | 3 runtimes, 1 intent, 1 page, modes local, conditional and terminal | `TypeOK`, `CancelledHadNoEffect`, `VerdictHolds`, `RetiredIsSilent`, `NoBlindReissue` | 1,311,113 |
| `admission_two` | 1 runtime, 2 intents, 2 pages, prepare and reference | `FrozenIsBaseline`, `RevisionsCurrent`, `ImplementsOwnership` | 197,905 |
| `collab` | 2 pods, 2 writers over any pods, 1 body author, 2 admissions, 2 attempts, 1 write, 1 fault | `TypeOK`, `Survives`, `CommitSeesAll`, `OneSeed` | 1,948,945 |
| `cache` | 1 user, 2 pages, 2 writers, 1 reader, 1 publisher, 2 changes a page, 1 route invalidation, 1 abort | `TypeOK`, `FenceHolds`, `PublishedIsFresh`, `EverythingDelivered` | 954,483 |
| `webhook` | 2 pods, 1 event, 2 attempts, 6 claims, 1 fault | `TypeOK`, `NoDoubleDelivery`, `SweepSparesLive`, `DeadIsExhausted`, `Settles` | 32,760 |
| `llm_calls` | 2 queued calls, 1 stream, 1 job of another provider, limits and depths 1 and 2, thresholds 3 and 2, 4 failures | `SingleProbe`, `CountersAgree`, `Accounted`, `ImplementsBreaker`, `Recovers`, `Drains` | 31,872 |
| `settings` | 1 pod, 2 saves, 3 faults of five kinds | `TypeOK`, `HeardIsSeen`, `GettersCatchUp` | 132,225 |
| `shadow` | 1 page, 2 texts (one too short), 2 models, 1 run of `embedPage`, the job, 2 administrators, 1 image analysis, 2 starts or swaps | `TypeOK`, `OneSpace`, `ExtraSpace`, `CleanIsCurrent`, `SchemaMatches` | 1,887,260 |
| `sessions` | 2 users, 3 requests, 1 family of 3 tokens, 1 change a user | `TypeOK`, `OneLive`, `EndedStaysEnded`, `CurrentPrivilege`, `LastAdmin` | 526,558 |
| `admission_thaw`, `collab_linger`, `embedding_settle` | | one statement each that the code breaks | see *Findings* |

### Why the bounds are enough

*Admission.* One intent is enough for the properties about an effect and its
verdict: intents interact through pages and epochs only, and two intents on two
pages are the smallest overlap (`admission_two`). Three runtimes are an original
writer, a recoverer, and one that claims from the recoverer in turn. `admission`
has the modes `local`, `conditional` and `terminal`, `admission_two` the other two:
`prepare` settles as `local` does with stricter completion, `reference` is `terminal`
without its earlier phases.
Symmetry over runtimes, intents and pages is sound because no module orders them.
There is no counter to cap: an intent id is used once.

*Collab.* Two pods and two writers put both writers on one pod or on two, as
first and second writer, owner and peer. Two admissions are one for each; the
second attempt of a round is the one that may be the last. One Save is enough for
its body to be overtaken by edits, flushes, releases, a new room and a crash. What
needs a Save and a whole-body write, a second Save or a reader was checked with one
writer, one reader, two writes and a fault (589,509 states), together with every part
of the inductive invariant: there `Survives` fails at once when `Author` does not wait
for `pending`. Two writers with two writes are too large to run to the end.

*Cache.* Two pages make the batch of the queue partial, two changes of a page let
a writer commit again behind the publisher, two writers hold different rows.

*Webhook.* Six claims are more than a behaviour with one fault and two attempts
needs, so the bound never stops one. One fault is one crash, lock loss or failed
call: with two in the worst places BullMQ's own limit on stalled jobs and the
sweep's one-hour horizon play against each other, and the code makes no promise.

*Calls.* Three calls of one provider reach the threshold of three, so the breaker
opens while late results are outstanding, and the fourth job competes for their
slots. The saved limits are 0 and 2: the setters make 1 of 0, so both limits rise
and fall. *Settings.* Three faults can hit the save, its message and the re-read
that repairs them.

*Shadow.* One page is enough because every statement about `page_embeddings` is
about one page's rows, the table's schema or the state row; two administrators put
any request between two steps of any other; two stamps are a start and its swap,
after which a revert or cleanup and (with the bound's last stamp) nothing new may
start. Two models make a migration there and, after a swap, a vector of the wrong
one. The instance has neither the third stamp for `reuse`, `probe` and `flip` nor the
fourth for `gate`, so it is run without hazards; without them one page, one text, two
models and three stamps (456,435 states) pass with every part of the inductive invariants
as well, and each hazard was seen to break its property at its number of stamps.
*Sessions.* Three requests are a rotation, what ends its session and a third
party; three tokens allow a rotation after a rotation; two users are two
administrators.

`CHECK_DEADLOCK FALSE` stands where the system may rightly stop: every intent
settled and every runtime retired, every connection gone, every event settled,
all saves made, all stamps and tokens used. The run of the queue and the breaker
checks for deadlock.

### Fairness and why the code justifies it

* `LlmQueue`: a job ends, by its answer or its timer; an aborted or streaming
  request settles (a stream's dispatch by undici's header timeout); time passes
  (`Cool`); p-limit's microtasks run; callers keep calling, so that a probe is
  eventually made. No fairness is assumed of an administrator's saves.
* `WebhookOutbox`: weak fairness of `Progress`, everything except faults: the poll
  timer re-arms itself, the sweep runs in every poll, BullMQ moves its jobs.
* `ClusterSettings`: a save's request goes on to publish, node-redis delivers and
  reconnects for ever, queries end.
* `PageCache`: the outbox worker polls in every pod (`Delivery`), and a writer's
  transaction ends (`Commit` or its rollback).

No liveness is claimed of admission: under an unanswerable COMMIT the code keeps
ownership on purpose ("Uncertainty must retain ownership") until an operator
stops the process. None is claimed of rooms: a round may fail any number of times.
None of `ShadowMigration` and `UserSessions`: a swap waits for an administrator, an
embedding for a provider that answers, and a refused request may simply end.

## 4. Findings

Each is a counterexample to something the repository itself states.

1. **A thaw can strand an acknowledged creation** (`admission_thaw`,
   `AcknowledgedIsRecoverable`). `unfreezePage` raises the lifecycle revision of a
   page while a child's creation that refers to it is pending, so that no
   completion and no recovery of that creation passes the revision check again.
2. **A lingering room overwrites an authored body** (`collab_linger`, `Survives`).
   A room without an admission, kept open by a reader, outlives a whole-body write;
   the next writer's join fails because the stored document is gone, and its
   cleanup flushes the old document over the new body.

3. **An edit can be marked clean without being embedded** (`embedding_settle`,
   `CleanIsCurrent`). `embedPage` lowers the dirty flag of a page it found too
   short under the image revision alone (`embedding-service.ts:583`); a longer body
   saved since the batch was selected loses its flag. The embed write itself
   compares the text as well.

Observed in the models, without a run of their own:

* A settled webhook row can move again after a fault: every marking names the row by
  its id alone (`webhook-delivery.ts:748`), and a rerun never looks at the status it
  finds; migration 067 describes `done` and `dead` as the ends of an event.
  `Settles` therefore asks that it comes to rest there in the end.
* The queue's limiter is not re-read after a reconnect (`llm-queue.ts:246` passes no
  `onReconnect`), although the bus's contract (`redis-cache-bus.ts:17-18`) says
  subscribers do; after a lost message it keeps the old limit until the next save.
* The deadline of a queued call starts before it is queued
  (`openai-compatible-client.ts:501-503`): time spent waiting behind other providers
  is recorded as a failure of this provider's breaker.
* A Save may publish a body older than the document (see *What `Survives` says*).
  docs/architecture/12-realtime-collaboration.md:171 says that the "BYTEA is valid
  only while it still corresponds to live `body_html`"; after such a Save it does not,
  until the next flush.
* `overtake`: two runs of `embedPage` on one page; the one with the older image
  analyses commits last and its guard leaves down the flag the other had cleared
  (`embedding-service.ts:888`).
* `reuse`: the fingerprint of "no migration" is the same before a start and after a
  cleanup (`shadow-migration-service.ts:170-177`), so a run of `embedPage` that
  outlives a whole migration stores vectors of the replaced model.
* `probe`: a start looks for an old backfill job before it probes the provider
  (`shadow-migration-service.ts:242-245`); a job queued in between goes on under the
  new migration.
* `gate`: a swap reads the assignment that a revert will restore before it waits for
  its lock (`shadow-migration-service.ts:683-691`). Retries make the wait long; if
  another swap, its cleanup, a start and a backfill are over when the lock is granted,
  the revert goes back to a model that no column holds any more. It came up while
  `ExtraSpace` was being proved.
* `flip`: the abort's compare-and-set asks for an active row and writes back the one it
  read (`shadow-migration-service.ts:846-850`). If the row went through a swap and a
  revert in between, its old stamps return, and with them the fingerprint of an earlier
  abort; a run of `embedPage` that took that fingerprint before the swap and its
  vectors after it passes its recheck. Found in the same proof.
* The backfill's average of a page takes rows of image analyses in, `embedPage`'s
  does not. Seen while reading, not modelled.
* `login`: a login that overlaps a deactivation inserts its token after the
  deactivation removed them (`routes/foundation/auth.ts:149`); it is refused while the
  account is deactivated and good again after a reactivation, of which
  `admin-user-service.ts:365-367` says the user still needs to log in again.
* `window`: a whole-body write deletes the BYTEA in a second transaction. A room
  opened in between loads the old one and later flushes it over the new body.
* `retained`: the first writer's load and its release both fail; the room keeps an
  admission but is not persistable, later writers are let in, and a clean release
  skips the flush.
* `unconfirmed`: a room that keeps a released token merges the next conversion
  beside its own when a reader or a Save refreshes it after a whole-body write.
* A result of a call admitted while the breaker was CLOSED moves it in HALF_OPEN
  too; the comment on the probe gate suggests only the probe does.
* Unawaited re-reads can leave the older value in a copy until the next message
  (`llm-queue.ts:252`), a save between a pod's cold load and its subscription is
  missed, and in single-process mode publication is a no-op, so the pod's own
  limiter never hears of a save.
* `getOrCompute` deletes its stampede lock without checking that it still owns it.

## 5. Proofs

Proved with TLAPS for every value of the constants:

| Theorem | Module | Says |
|---|---|---|
| `TypeCorrect` | `PageWriteAdmissionProofs` | the types of rows, memory and outside world |
| `OwnershipInv` | `PageWriteAdmissionProofs` | the abstract ownership rules are inductive |
| `Refines` | `PageWriteAdmissionProofs` | admission implements `PageOwnership` |
| `HoldsExclude`, `FreezeHolds`, `RevisionsHold` | `PageWriteAdmissionProofs` | no two intents hold a page; `FrozenIsBaseline`; `RevisionsCurrent` |
| `RetiredStaysSilent`, `CancelledIsClean`, `VerdictsHold`, `NeverBlindlyReissued` | `PageWriteAdmissionProofs` | `RetiredIsSilent`, `CancelledHadNoEffect`, `VerdictHolds`, `NoBlindReissue` |
| `TypeCorrect`, `FenceCorrect`, `PublishedCorrect` | `PageCacheProofs` | types, `FenceHolds`, `PublishedIsFresh` |
| `TypeCorrect`, `CountersCorrect`, `ProbeExclusive` | `LlmQueueProofs` | the breaker's types, `CountersAgree`, `SingleProbe` |
| `QueueImplementsBreaker`, `QueueKeepsProbe`, `QueueKeepsCounters` | `LlmQueueProofs` | `ImplementsBreaker`; the breaker's two properties behind the queue |
| `QueueTypeCorrect`, `NothingLost` | `LlmQueueProofs` | types, `Accounted` |
| `TypeCorrect`, `NoFork`, `EndIsFinal`, `AdminRemains`, `PrivilegeCurrent` | `UserSessionsProofs` | types, `OneLive`, `EndedStaysEnded`, `LastAdmin`, `CurrentPrivilege` |
| `OutboxTypes`, `DeliveredOnce`, `SweepSpares`, `GivenUpLate` | `WebhookOutboxProofs` | types, `NoDoubleDelivery`, `SweepSparesLive`, `DeadIsExhausted` |
| `SettingsTypeCorrect`, `HeardIsSeenHolds` | `ClusterSettingsProofs` | types, `HeardIsSeen` |
| `ShadowTypes`, `SchemaAgrees` | `ShadowMigrationProofs` | types, `SchemaMatches`, whatever the hazards |
| `CleanHolds` | `ShadowMigrationProofs` | `CleanIsCurrent` |
| `OneSpaceHolds`, `ExtraSpaceHolds` | `ShadowMigrationProofs` | `OneSpace`, `ExtraSpace` |
| `RoomTypes` | `CollabRoomsProofs` | types, whatever the hazards |
| `RoomsSurvive`, `SavesSeeAll`, `RoomsOneSeed` | `CollabRoomsProofs` | `Survives`, `CommitSeesAll`, `OneSeed`, all resting on `RoomInvHolds` |
| `OutboxInvHolds`, `SettingsInvHolds`, `SchemaInvHolds`, `SpaceInvHolds` | the modules of outbox, settings and shadow migration | the inductive invariants these rest on |

*Assumptions.* Only those named in the modules: `ModeAssumption` and
`OwnerAssumption` (admission), `CacheAssumption`, `QueueAssumption`,
`SessionsAssumption`, `BoundAssumption` and `NoJobAssumption` (outbox),
`SettingsAssumption`, `ShadowAssumption`, the breaker's thresholds being positive, and
of the rooms `BoundsAssumption`, `PodsAssumption` (finitely many processes) and
`NamesAssumption` (seeds, connections and authored bodies are different things). TLC
evaluates them in every run. Some theorems have a condition in their statement:
`PrivilegeCurrent` that no login overlaps a change of its user, `CleanHolds` that
`settle` and `overtake` do not happen, `OneSpaceHolds` and `ExtraSpaceHolds` that
`reuse`, `probe`, `gate` and `flip` do not, and `RoomInvHolds` with the three that rest
on it that none of the four hazards of `CollabRooms` does. With any of these hazards the
invariant is false, as TLC shows; of the rooms' three properties `window`, `linger` and
`retained` break `Survives`; `window`, `linger` and `unconfirmed` break `OneSeed`.

*Ownership.* The invariant `Inv == TypeOK /\ Exclusive /\ FrozenIdle /\
OvertakenAreReferences` is inductive in `PageOwnership` as it stands. The detailed
properties do not need an induction of their own: each is the image of a conjunct
of `Inv` under the mapping. The simulation needs two facts of the detailed module:
its type invariant, and `DriftSeen`, that only an intent that was pending once can
be out of date. Each action is one lemma (`ReserveRefines`,
`SettleRefines`, `AbandonRefines`, ...) or leaves the mapped state alone
(`WorldRefines`: the wire, the wiki and the disk own no page).

*Effects.* Intents meet in pages and epochs only, so `SafetyInv` is the type invariant
and, of each intent on its own, `IntentInv`: ten named parts about its row, the
processes' memory and the world. `Control` says who may act. `Owned`: I/O is done by
the owner, in its active epoch, behind the durable start marker; so neither a
cancellation (`NoStart`) nor an acknowledged drain can hit it. `ClaimedFirst`: only a
claimed intent is verified or repaired, and a claim that failed leaves its mark; so the
second way of `MayClaim` never takes an intent from a process other than the claimant.
`OneWriter`: whoever remembers an intent owns it, unclaimed unless it is local, or is
fenced. `World` says what the effect shows for it. `Announced`: nothing is on the wire
or on disk without its durable mark. `Remote`, `Files`: an answer, a durable result and
a phase remembered as successful are true of the remote page and of the files, and
stay so. `Answered`: while the outcome of a request is unknown, everybody who could
send another has failed in a remote phase, is waiting for the answer, or is fenced.
`VerdictOf` is `VerdictHolds` of one intent. One lemma per action keeps them, and
actions of one intent leave the others' parts alone by `SameKeeps`.

*Cache.* `FenceHolds` speaks of what a reader is served, and is not inductive: it
is broken by a fill whose reading began before the fence moved. `IInv` adds three
parts. `Locks`: writers and the publisher never share a queue row, and one
publisher is at work. `Fences`: a fence is never ahead of the database, and equals
it for a page off the queue or in a delivery that has moved the generation.
`Fills`: an entry or a reading holds a generation that was really issued, and if
that is still the current one, what it has read is at least what the fence
promised. One lemma per action keeps all three.

*Breaker.* `CountersAgree` is inductive with the types. `SingleProbe` needs that
the gate is up exactly while some call holds the probe, which is its first conjunct.

*Queue.* Every action of `LlmQueue` either is an action of `CircuitBreaker` or leaves
its variables alone; so the breaker's theorems hold behind the queue without a second
induction. `NothingLost` needs one: `QueueInv` says that queue and status belong
together (`Proper`), that the counters are their sizes and that no slot is idle
beside a waiting job. Its heart is `ResumeKeeps`, about p-limit's step alone: k jobs
leave a queue without repetitions, so exactly k slots are taken (`PrefixCount`), and
if any is left the limit is reached. Every action is one such step or touches no slot.

*Sessions.* The promises are not inductive alone: what makes a rotation safe is the
row lock it holds. `IInv` adds `Held` (whoever rotates or changes holds the users
row), `Owned` (a presented token belongs to that user), `ClaimedLive` (so a claimed
token is still live when its successor is inserted, whatever tried to revoke it:
`RevokeLocked` waits for the row, `RevokeUnlocked` and `RevokeToken` for the claim),
`Unborn` (a family that has not begun has no token and no end), `Bounded`, and
`Guarded` (a decided removal of an administrator holds the advisory lock, and the
other administrator it saw is still one). A successor then joins a family that has a
live token: one that has not ended, whose user has not changed, and whose only live
token is the one consumed. One lemma per conjunct, one step per action.

*Outbox.* `OutboxInv` has three layers. `QueueInv` says where a job can be: nobody
knows a job id before its claim (`KnownIsMinted`), it waits for its enqueue in one pod
and BullMQ has not seen it (`AddedOnce`), only active jobs are held, and a job that a
sweep found missing or finished does not come back (`OrphanStaysGone`): its minting pod
no longer has it to add. So a sweep that acts on what it read resets only a row whose
job is gone, however late it acts. `AttemptsCounted`: the number a run took is at most
one ahead of the attempts on record, and not ahead once its own is recorded; so a row
is given up only with its attempts used or a permanent answer, through any crashes
and reruns. `Calm` is about behaviours without a fault so far: a row is dispatched exactly
while the one job it names is undone, and only a job's holder runs it. The bounds on
claims, attempts and faults are constants of the theorem.

*Settings.* A copy may hold any older value while queries of it are under way, because
their answers are applied in the order of arrival. `CopiesAhead` says what is
inductive: of the queries a copy has under way the last was read after everything it
was told of, and if there is none, its value is. It needs that a limiter whose
module was not loaded has neither heard nor asked anything (`UnprimedIsNew`), and
that a spoiled copy (an answer failed or was overtaken) is left out, as `HeardIsSeen` does.

*Shadow: the schema.* `SchemaInv` adds to the types and to `SchemaMatches` what the two
rest on. `MigShape`: the row names the models its status speaks of. `ReadActive`: what a
request will write back was read as active. `LockHeld`: the lock is held between two
steps by exactly the swap that renames, and no run is between its recheck and its
COMMIT meanwhile. `AllCovered`: so no straggler appears there. This is the reason that
the swap, which reads the row once under the lock and overwrites an abort that flipped
it since, loses no column: the abort's drops wait for the lock and read the row again.

*Shadow: clean pages.* `CleanIsCurrent` is inductive with `RunsBehind`: no run
holds analyses that its page does not have yet. The guard of `Publish` on the flag is
then enough, because rows that the flag vouched for cannot be older than the run's.

*Shadow: one space.* `SpaceInv` says of every run, row, job and waiting swap, on its own,
that it agrees with the state row, the assignment and the stamps handed out. The heart
is `LiveCurrent`: a run *that would pass its recheck now* has vectors of the assigned
model; others may hold anything. It survives a start, a swap and a revert because their
stamp is new (`RunNewStamp`), an abort because no run can have that abort's
fingerprint (`EpochPast`, `RunFlip`), and the end of a migration, whose fingerprint is
not new, because the migration was not swapped or no such run is left (`RunDrop`). For
the rows the swap needs `AllReady`, and the previous assignment it saves must be the
current one (`SwapOK`). The attempt to prove these steps is what showed the races
`gate` and `flip`: without the guards that keep them out `SwapOK` and `EpochPast` are not
preserved, and TLC then found the counterexamples.

*Rooms.* `RoomInv` has six layers above the types, each needing those before it.
- The types need two facts of their own: a conversion uses up one of the admissions issued
  for it (`SeedBudget`), so seeds never run out, and an operation that is to read the
  owners has an attempt left (`TriesLeft`).
- `AdmInv`: a room that has an admission has one that is held, may persist and is not
  provisional; what each operation may be doing in that state (`OpShape`); and no two
  pods have, or are acquiring, the same admission (`Exclusive`). The
  admission of a pod that died stays held and no room has it.
- `Quiet`: while an authored body waits for its BYTEA to be deleted no admission is held,
  no operation runs and nobody is connected. So the two transactions are one to the rest.
- `DocsInv`: every document has one identity. It is the stored document's in a room that
  is in use, unless that room is a reader's provisional one, and in every dump. So
  adopting or merging never puts two identities together (`RealAdopts`). An empty room
  without an admission may hold anything old, because it is rebuilt on the next join.
- `EditsInv`: an accepted edit is in the room of the admission it was accepted under
  (`RoomEdits`), and in the stored document by the time that admission is being
  released, because `Apply` needs a writer and a release only follows a flush of a room
  without writers. So it is under a held admission or in what the next room loads
  (`Stays`), which only grows until an authored body replaces it (`CurrentGrows`) and
  which a Save does not touch.
- `SavesInv`: what a round has not merged of the edits it must include is `Coming`: under
  an admission it still has to hear from, whose dump, if it is in, has the edit, or
  under an admission that has been given back since. In the second case the owners have
  changed, for ever because admissions are never reissued, and the round cannot end.
- `SavedInv`: the body a Save is going to write has all the Save had to include; while
  one is waiting there is a stored document, for the next room to load instead; and the
  body has the text of the document but for `late`. With `Stays` this is `Survives`.

Most steps only close a room or let its document grow; `Calm` and `Grows` say so once,
one lemma per action shows it, and the layers use that instead of the action. What is
left are the steps that take an admission, store, or move a round on.

### Only model-checked

All liveness. Liveness under fairness and ENABLED, induction over data through the
library's second-order theorems, and recursive operators are out of the prover's
reach; none of the modules proved about uses recursion. What each hazard breaks is
shown by TLC's counterexamples; that the rooms are safe with one hazard but for the
property it breaks is not proved.

## 6. Plan

Done, in this order of importance: admission and its abstract specification, cache,
rooms, outbox, breaker, settings; then the queue around the breaker, the shadow
migration with `embedPage`, and the sessions.

Next, proved: which of the rooms' properties survive each single hazard, with the
weaker layer `AdmInv` has then.

Next, modelled, where an existing instance can take it in: `CollabRooms` with resets
and tombstones (`resetFromHtml` races a peer's persist); the user-security cache
beside `UserSessions`; the expiry and clean-up of refresh tokens.

### Not modelled, and why

The instances above are chosen to be checked together in reasonable time. Components
with state that are left out are either instances of a pattern that is modelled
(image analysis, summary and quality workers: a claim, a computation, a conditional
write, as in `embedPage`; the baseline outbox: `WebhookOutbox` with a claim that
expires; the cached access rights: `PageCache`'s generations), or a single counter,
lease or key in Redis whose argument is Redis' own atomicity (SSE limiter, presence,
export tickets, the rate limiter, the import lock), or long passes of I/O whose page
writes all go through write admission (sync, relocation, import, attachment sweep).

Pure data (conversion, ranking, manifests, diff and merge of HTML): no
interleaving, and nothing small to compare with. Pure I/O (PDF, mail, object
storage, uploads): the failure of a call is modelled where a caller reacts to it.
Single-statement services (audit, retention, roles, notifications): PostgreSQL's
atomicity is the whole argument. The frontend: the server re-checks all it sends.
