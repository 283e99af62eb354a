# SocialPilotAI: a TLA+ verification of the execution core and the components on it

SocialPilotAI turns a product into marketing strategies, copies, video projects,
rendered videos and publications. Everything that costs money or leaves the
machine (paid generations, renders, uploads) runs as a *job* of a persistent
queue in SQLite, executed by a separate worker process. The promise the
documentation makes again and again (`docs/architecture.md`,
`docs/live-mainline.md`: "SUBMIT_UNKNOWN is a stop condition") is about that
core: something that may have been submitted to a provider is never submitted
again by itself, and nobody takes it for a failure. This project models the core,
the components whose handlers run on it, and the state around them (accounts,
versions, snapshots, the migration of the database), with their real concurrency,
checks them with TLC and proves what matters most with TLAPS.

Contents

1. Inventory of the system
2. The modules and how they correspond to the code
3. What is checked: runs, bounds, results
4. Fairness
5. What is proved
6. Findings
7. Abstractions, and what is not modelled
8. Plan

## 1. Inventory of the system

The backend is a FastAPI application and a command line worker over one SQLite
file. Components talk through rows; the only threads are the two of a worker and
those of the HTTP server. "Session" below is an SQLAlchemy session
(`autoflush=False`, commits at the end of an operation). Paths are under
`src/backend/app/`.

| Component | State | Operations | Interacts with | Hard behaviour | What makes it correct |
|---|---|---|---|---|---|
| Execution queue (`services/execution_queue_service.py`, `repositories/execution.py`) | `execution_jobs`, `execution_attempts` | create, pause, resume, cancel, retry, claim, heartbeat, complete, fail, mark unknown, recovery of expired leases | routes (users), workers | every operation reads outside a write transaction and flushes later; leases run out | attempts numbered within the budget, one job per key and one running job per slot, doubt is final |
| Execution worker (`execution/worker.py`, `contracts.py`, `cli/execution_worker.py`) | two threads, the context of one job, a stop event | run_once, before_provider_call, heartbeat loop, finalize, stop | queue, handlers | lock, join, stop and death at any point; a lease that runs out in a provider call | boundary persisted before the call, bounded submissions, an accepted submission is never forgotten, stop ends |
| Wanx render task and its artifact (`services/video_render_*`) | `video_render_tasks`, `video_render_artifacts`, files | create, submit, refresh, persist artifact | provider, files, queue | conditional claims with no way back after a crash; file and row in two steps | one submission per task, an artifact iff SUCCEEDED |
| Publications (Instagram, TikTok, YouTube: services and `execution/handlers/`) | `publish_tasks` | preflight, create, submit, refresh, finalize | accounts, queue, platforms | several provider calls in one job, several jobs per task | nothing uploaded twice; FAILED only for certain failures |
| Accounts and OAuth (`services/social_service.py`, `*_account_service.py`, token refreshes) | `oauth_sessions`, `social_accounts` | connect, callback, refresh, disconnect | platforms, publications | state consumed by read, check, write; refresh races with disconnect; rotation of tokens | a state is consumed once, only a consent connects |
| Strategy, copy and project generation (`services/*generation*`, `marketing_strategy_service.py`, ...) | `marketing_strategies`, `copy_matrices`, `video_projects` | by request, by job, second versions from figures | queue, Qwen, product edits | the source changes between preflight, comparison, prompt and insertion | what is paid for was confirmed; reports are true |
| Qwen scripts and script versions (`services/qwen_video_script_*`, `video_script_version_service.py`) | reserved calls of a batch, versions of a variant | check, reserve and create, generate, save by hand, activate | queue, Qwen, batch | reservation and job, counters and unique keys under contention | reserved calls never exceed the quota, a history without gap or double |
| Batch video (`services/batch_video_job_service.py`) | batches, variants, their jobs | create, pause, resume, cancel, prepare | queue | acts on the jobs it loaded, in one flush | a running job is left alone, ends are kept |
| Brand kits (`services/brand_kit_service.py`) | versions, bindings | save, bind, unbind | products | a number read as the greatest plus one | numbers without doubles, bounded retries |
| Composition and enhancement (`services/video_composition*`) | rows, artifacts, files | compose, store, persist, enhance | FFmpeg, files, queue | file and row in two steps, a second attempt next to a late first | what is listed can be played |
| Presentation snapshots (`services/presentation_snapshot_service.py`) | snapshots, copies of videos | create | files | copy, insertion, reuse and removal of the copy when something fails | a snapshot keeps its video |
| Database migrations (`services/database_migration_service.py`) | the file, its backups, a lock file | upgrade, restore, status | the application | DDL that commits by itself, death at every statement | data is recoverable, a failure changes nothing |
| Growth, dashboard, products, campaigns, readiness, live configuration | plain rows | single-request reads and writes | | none beyond foreign keys | |
| Routes, provider adapters, frontend, scripts | | | | start-up, parsing, HTTP | |

`PROJECT.json` lists the same parts with their files and, under *hazards*, the
places where the code is hard to test, each with the property that watches it.

## 2. The modules

| Module | What it is |
|---|---|
| `ExecutionQueue` | the queue: rows, units of work, every operation |
| `JobLifecycle` | what the queue promises about a job, without leases, sessions or rows |
| `ExecutionWorker` | workers with their two threads and contexts, users, deaths, on top of `ExecutionQueue` |
| `VideoRender` | the render tasks of one video project, and the jobs and requests that work on them |
| `Publications` | the publish task of one video on one platform, its requests, jobs and handlers |
| `SocialAccounts` | the account of a product on one platform: OAuth sessions, tokens, their refresh |
| `ContentChain` | strategies, copies and projects of one product, by request and by job |
| `VideoScripts` | the scripts of one variant: quota, jobs, versions |
| `BatchVideo` | one batch, its variants and jobs, and the controls |
| `BrandKits` | the versions of one kit and the products bound to them |
| `Compositions` | one composition with two attempts, and its enhancement |
| `PresentationSnapshots` | the snapshots of one product and the store of their videos |
| `DatabaseMigration` | upgrade, restore and start over one file |
| `MCExecutionQueue`, `MCExecutionWorker`, `MCVideoRender`, `MCPublications` | requests, faults, symmetry and model values for TLC |
| `MCApplication` | the components from `SocialAccounts` on, each as one *focus* of one bounded instance |
| `ExecutionQueueProofs`, `ExecutionWorkerProofs`, `VideoRenderProofs`, `PublicationsProofs`, `SocialAccountsProofs`, `PresentationSnapshotsProofs`, `DatabaseMigrationProofs` | the theorems about the module of that name |
| `ApplicationProofs` | the theorems about `ContentChain`, `VideoScripts`, `BatchVideo`, `BrandKits` and `Compositions`, and about `MCApplication`'s specification, which has all components |

The queue is taken apart once, in `ExecutionQueue`. The modules of the components
use it as `ExecutionQueue` and `ExecutionWorker` show it to behave when its
operations do not overlap: a job is claimed in one step, an announcement persists
the boundary or is refused because the lease is gone, a run that ends writes its
outcome only if it has its lease, and an expired lease ends the job in doubt if the
boundary was persisted and as failed (or queued again, when attempts are left) if it
was not. What they add is the component's own rows and the order in which it writes
them. What two components share (a variant that is ready, an account that is
connected, a stored video) is written before either starts; the one exception, the
account that changes under a publication, is a step of `Publications` (`Change`).
That is why `MCApplication` lets a behaviour take the steps of one component only.

### ExecutionQueue

`jobs` and `attempts` are the two tables, `clock` is `utc_now()`, and `uow[s]` is
the unit of work of an open session `s`.

An operation of `ExecutionQueueService` loads rows, checks, assigns attributes
and commits. The loads happen outside a write transaction (the Python SQLite
driver opens one at the first write), and the flush emits
`UPDATE ... WHERE id = ?` with the columns whose value changed since the load; no
version and no status is compared. So every operation is **two steps**:

* the first (`Create`, `Pause`, `Resume`, `Cancel`, `Retry`, `Recover`, `Claim`,
  `Heartbeat`, `Complete`, `Fail`, `MarkSubmitUnknown`) has the guards and early
  returns of the method and leaves its assignments, with the rows as loaded, in
  `uow[s]`;
* the second, `Commit` (`CommitInsert` for `create`), writes the net changes
  (`Net`, `FlushJob`, `FlushAttempt`) over whatever the rows hold *by then*. It is
  enabled only if the CHECK and UNIQUE constraints of the tables hold afterwards
  (`Consistent`); `Rollback` is the other outcome (a constraint, or a death).

`claim_next` alone is one UPDATE statement with a subquery: `Commit` of a session
with a `claimer` picks the candidate from the table as it is then. It does not see
the recoveries pending in its own session, and its `synchronize_session` refresh
drops what was pending on the row it matched (`FlushedJobs` gives the claim
precedence). That the statement is atomic makes the three-fold retry loop around
it (`execution_queue_service.py:158-186`) unreachable.

With one session the two steps are never interleaved with another operation, and
the same module is the serial queue.

### JobLifecycle

A job waits, may be held, is worked on at most so many times, may come into
`doubt`, and ends. In doubt it either gets its outcome from the work in progress
or ends as `unknown`: never back to `waiting`. `ImplementsLifecycle` is the
refinement (phase from the status, remaining from `max_attempts - attempt_count`,
doubt from an attempt with `external_submission_possible` and no certain provider
state).

### ExecutionWorker

`main[w]` is where the thread in `run_once` is, `beat[w]` where the heartbeat
thread is, `ctx[w]` the `ExecutionContext` with the pending `HandlerResult`,
`stop[w]` the stop event. `accepted[j]` is a history variable: the attempts whose
submissions the provider accepted.

`_heartbeat_lock` allows one of the two threads to have a session open, and after
the join there is one thread only; so sessions are named after their worker and
the lock is `w \notin DOMAIN uow` (`MayOpen`).

| Action | Code |
|---|---|
| `RunOnce`, `Claimed` | `run_once`, up to the start of the heartbeat thread |
| `Announce`, `PersistBoundary`, `BoundaryPersisted` | `before_provider_call`: checkpoint and counters; the heartbeat; the last checkpoint |
| `AnnouncePersist` | `before_irreversible_local_persist` |
| `Call` | the provider, which answers, refuses or stays silent, having accepted or not |
| `Return`, `Join` | the handler returns or raises; `heartbeat_stop`, `join` |
| `Finalize`, `Marked`, `Finalized` | `_finalize`, with the heartbeat that announces an unknown outcome first |
| `BeatWakes`, `Beats`, `BeatEnds`, `BeatStops` | `_heartbeat_loop`: the provider state is read *before* the lock |
| `RecoveryEnds`, `Aborts` | the recovery before a refusal; an exception that leaves `run_once` |
| `RequestStop`, `Dies`, `UserActs`, `Elapse` | signals and the stop file, a killed process, the routes, time |

The handler is **any** handler that follows `contracts.py`: it announces its calls,
submits once per attempt unless it was refused, and reports what it knows
(`HandlerResults`). That the concrete handlers do is not assumed silently: it is
what `SubmitReportsAreTrue`, `FailureMeansNothingSent` and `ReportsAreTrue` say of
the modules below.

### VideoRender

A video project has two render tasks at most, one by the idempotency key of the
workspace and one by that of the live demo (`Keys`). `tasks` is their table,
`artifacts` and `files` say which of them has a row and a file for its video, and
`remote`, `asks` and `told` are the provider: the render it holds, how often it was
sent a submission, what it last said. `queue` holds the jobs no worker has taken;
`inputs` is the version of the product data that both digests freeze.

A caller `p` is one run of a handler or of a route; `at[p]` is the statement it is
before and `run[p]` its local variables. Between two of its steps anything may
happen. In particular the model does *not* assume that the queue runs the jobs of
a project one after the other: a lease may run out under a handler that goes on.

| Action | Code |
|---|---|
| `EditProduct`, `EnqueueSubmit`, `EnqueueRefresh` | `ProductRepository.update`; `VideoRenderJobService` |
| `StartSubmit`, `StartRefresh` | the handlers up to the frozen digest, which fails the job if it changed |
| `StartLive`, `StartCreate` | the live route (`LiveVideoRenderService.execute`), the route that only creates |
| `Lookup`, `Insert` | `create_render_task_with_reuse`: the read, then the insertion, which the unique key refuses to all but one |
| `ClaimSubmission`, `ClaimRefresh` | the conditional UPDATE and its commit, or the 409 |
| `Announce`, `AnnounceInterrupted` | `before_provider_call` inside `_ContextVisualProvider`; the lease lost there |
| `AskSubmit`, `AskFetch` | the provider, whose silence or error says nothing about what it accepted |
| `RecordSubmission`, `RecordRefresh` | every outcome of `submit` and `refresh`, each with its write, and what the handler makes of it |
| `Download`, `Finalize`, `FinalizeFails`, `Abandon` | `_persist_succeeded_video`: file, one commit, and the way back when the commit fails |
| `WriteFails`, `Crash` | a commit that raises, a process that dies; the claim stays |

`ContinueAllowed`, `RefreshAllowed` and `ArtifactAvailable` are what the recovery
endpoint says of a task (`build_recovery_decision`).

### Publications

`request[r]` is how far a request to publish has come, `task` the row of
`publish_tasks`, `jobs[j]` the job of request `j` (submit) or a later one (refresh,
finalize), `run[j]` the handler at work on it. `remote` is what has become of the
video at the platform and `sent` counts the calls of each kind that it accepted:
`open` (container or session), `upload`, `publish`. A job's key is made of its input,
so a second request for the same input finds the job of the first.

| Action | Code |
|---|---|
| `CheckInstagram/TikTok/YouTube` | the preflight and the digest a user confirms |
| `PrepareInstagram`, `PrepareYouTube`, `CreateTikTok`, `CreateJob` | the task (TikTok: in the transaction of the job), then the job, reused by its key |
| `RefreshInstagram/TikTok/YouTube`, `FinalizeInstagram` | the requests for the other two kinds of job |
| `Claim`, `LeaseEnds`, `Finalize`, `Crash` | the worker around the handler |
| `InstagramBegins`, `InstagramAnnounces` (and TikTok, YouTube), `CreateContainer`, `InitializePost`, `InitiateUpload`, `StoreSession`, `UploadReel`, `UploadMedia`, `UploadChunk` | the submit handlers: comparison with the frozen input, each boundary, each call, what is committed between calls |
| `FinishSubmit`, `EndInDoubt`, `EndRefused` | the handler's last write and its report; its `except` clauses |
| `InstagramRefreshes`, `FetchStatus`, `ApplyInstagram` (and TikTok, YouTube) | the refresh handlers |
| `BeginFinalize`, `PublishReel`, `CloseFinalize` | the finalize handler of Instagram |

### SocialAccounts

`oauth[s]` are the rows of `oauth_sessions` and `account` the row of
`social_accounts`. A token is the number of the grant that issued it; `valid` are the
refresh tokens the platform still takes, `lost` says that it granted or revoked
something the row has not recorded, `crossed` that a flush met another row than its
run had loaded. A run writes only the columns whose value differs from the loaded
one (`Flush`), which is what decides the races. Callbacks and YouTube's disconnect
are coroutines, so `CallbackTikTok`, `ExchangeTikTok`, `Consume`, `LookUp`, `StoreTikTok` (and their
like) are cut where they await; the other disconnects run in threads and the refreshes in workers, so
every load and flush of theirs is a step. The platforms differ in when the state is
consumed, whether they hand out refresh tokens and whether a refresh rotates them,
so most steps are one action for each.

### ContentChain

`strategies`, `copies`, `projects` are the rows by id; `product` and `figures` what a
prompt is made of. A row says whether its prompt was what the client confirmed
(`exact`). `GenerateText`, `CheckAgain`, `ReadAgain`, `StoreInRequest` and the two
`StudioReads...` are the synchronous routes; `EnqueueText`, `ClaimText`, `CheckText`,
`FindInitialProject`, `AnnounceText`, `CallQwen`, `StoreText`, `SucceedText` the jobs.
When each kind of text reads its source (before the digest is compared, after it, or
both) decides `exact`.

### VideoScripts, BatchVideo

`CheckRequest` and `ReserveAndCreate` are `qwen_video_script_job_service`: the
reservation is a conditional UPDATE in the transaction of the job's insertion. The
handler's steps are `LoadReservation` to `SucceedScript`; `ReadWriterKey`,
`WriteVersion` and `StoreScript` take the number with an UPDATE of the sequence and
rely on the unique keys.

A control of `BatchVideo` (`LoadBatch`, or `LoadJob` for one job) loads statuses,
decides, and `FlushControl` writes what it decided by id; `RollBackControl` is the
CHECK constraint it violated. `LoadVariant`, `PrepareVariant` and `ReportPrepared` are
the handler. `VariantStatus` and `AggregateStatus` are what the routes show.

### BrandKits, Compositions

An editor reads the versions, appends the next number or runs into a unique
constraint (`AppendVersion`), and reads again (`ResolveConflict`) `MaxRetries` times.

`render[r]` is attempt `r` of the composition's job: `LoadComposition`, `ResolveShots`,
`Compose`, `StoreComposition` (a file named by its content, so that the second
attempt may find the file of the first), `PersistComposition`, and on failure
`RecoverComposition` and `UndoComposition`, which removes the file it created. The
enhancement announces that it begins to store, then stores subtitle and video.

### PresentationSnapshots

`EnterCreation` takes the lock of the process, `CaptureSources` reads rows and video
and finds a snapshot of that payload or goes on, `CopyArtifact` copies and compares,
`InsertSnapshot` commits; `InsertFails` is every failure up to and after the commit,
with `CleanUpCopy` removing a copy no row refers to.

### DatabaseMigration

`db` is the file: the revision its tables have, whether the tables are *whole*, the
stamp, the number of commits of the application. `operation[p]` is a run of the
migration command, `lock` the lock file ("kept" when nobody may remove it),
`backups` the manifests with their copies, `services` the application, and `beside`
records that an operation began while services were up. SQLite commits each DDL
statement until the first row is written, so a revision is `BeginRevision`, whose
statements are durable one by one, `EndRevision` when it writes no row, and
`CommitUpgrade` for the transaction from the first row on. `Acquire`, `TokenUnwritten`,
`Release`, `OperationDies`, `RemoveKeptLock` are the lock; `BeginBackup` and
`CreateBackup` the two hashes around the copy; `Classify` recognises or refuses;
`UpgradeFails`, `Restore`, `RestoreFails` the way back.

## 3. What is checked

Passing runs:

| Run | Instance | States | Properties |
|---|---|---|---|
| `queue_serial` | 2 jobs on one slot, 2 workers, 1 session, priced and filtered requests, lease 1, clock to 2 | 0.2 M | `AttemptsNumbered`, `AttemptsTellTheirJob`, `ImplementsLifecycle`, `ExpiredLeaseIsRecovered` |
| `worker_races` | 1 job, 1 attempt, 2 workers, 1 user, loads and flushes interleave | 1.7 M | `BoundaryFirst`, `SubmissionsAreBounded`, `UnknownIsExplained`, `SubmitUnknownIsFinal` |
| `worker_serial` | 1 job, 2 attempts, 2 workers, 1 user, operations of the queue one at a time | 3.4 M | `AcceptedIsNotForgotten`, `OneSubmitter` |
| `worker_stops` | 1 worker with up to 2 provider calls, 1 user | 0.2 M | `QueueSpec`, `StoppedWorkerEnds` |
| `render_faults` | 2 callers, 1 edit, 1 refresh job, every fault | 3.3 M | `SubmittedOnce`, `ClaimsAreExclusive`, `AdviceIsSafe`, `ArtifactsAreWhole`, `SubmitReportsAreTrue`, `DeclaredUnlessCanceled` |
| `render_refreshes` | 2 callers, 2 refresh jobs, failed writes and lost leases | 2.3 M | `TasksMirrorTheProvider`, `NoFileIsOrphaned` |
| `publish` | 2 requests, 3 follow-up jobs, 1 run that outlives its lease, an edited account, every fault, on each platform | 2.5 M | `PTypeOK`, `UploadedOnce`, `FailureMeansNothingSent`, `RepublishedInDoubtOnly` |
| `application` | each of nine focuses with 2 actors of each kind (3 editors) | 2.0 M | `ApplicationTypeOK`, `ReportsAreTrue`, `PromptsAreConfirmed`, `FirstProjectOnce`, `CallsAreReserved`, `ScriptHistoryIsWhole`, `VersionsAreAHistory`, `FinishedVideosExist`, `StateUsedOnce`, `TokensFollowTheStatus`, `SnapshotsKeepTheirVideo`, `DataIsRecoverable`, `OnlyConsentConnects`, `RunningJobIsLeftAlone`, `EndsAreKept`, `FailedUpgradeChangesNothing` |

Runs that find a violation (section 6): `queue_owner_race`, `worker_forgets`,
`worker_stale_beat`, `application_stale_prompt`.

The properties in words. Of the queue and the workers:

* **`AttemptsNumbered`**: attempts are 1..`attempt_count` without a gap and never
  more than `max_attempts`.
* **`AttemptsTellTheirJob`**: of the serial queue, the latest attempt runs exactly when
  the job does, no other runs, and one that may have been submitted with no certain
  outcome leaves its job in doubt.
* **`SubmitUnknownIsFinal`**: no interleaving of loads and flushes takes a job out of
  doubt.
* **`UnknownIsExplained`**: a job in doubt has `submitted_at` and an attempt that says
  why.
* **`ExpiredLeaseIsRecovered`**: a vanished worker does not keep its lease, and its
  slot, for ever.
* **`BoundaryFirst`**: when a worker may be submitting, the rows say so, whoever wrote
  them since.
* **`SubmissionsAreBounded`**: the provider accepts no more submissions of a job than
  it has attempts, however workers die, stop, lose leases and flush stale rows.
* **`AcceptedIsNotForgotten`**, **`OneSubmitter`**: while the operations of the queue
  do not overlap, an accepted submission is on record as answered or belongs to the
  last attempt of a running or doubtful job; two workers never submit one job at once.
* **`QueueSpec`**: the composition implements the queue.
* **`StoppedWorkerEnds`**: a worker that is asked to stop does.

Of the render and the publications:

* **`SubmittedOnce`**: the provider is sent a render task once at most, whichever jobs
  and requests meet on it and wherever they die.
* **`ClaimsAreExclusive`**: one run holds a task, and the status is its claim. The
  writes after a provider call compare nothing; this is why they are right.
* **`TasksMirrorTheProvider`**: a task that waits for a refresh shows what the provider
  said last. A failed refresh restores the status it found, and the claim (which
  compares *that* status, not any status that can be refreshed) makes sure that
  nothing newer is overwritten.
* **`AdviceIsSafe`**: the recovery endpoint invites a user to continue a submission only
  if none was sent, and to refresh only a render the provider holds.
* **`ArtifactsAreWhole`**, **`NoFileIsOrphaned`**: SUCCEEDED, the row and the file come
  together; while no process dies, no file is left without a row.
* **`SubmitReportsAreTrue`**: a submit job that reports a failure submitted nothing, and
  one that submitted and succeeded left the provider's id.
* **`DeclaredUnlessCanceled`**: statuses change as `RENDER_TASK_TRANSITIONS` declares,
  but for CANCELED (section 6).
* **`UploadedOnce`**: a video is opened and uploaded once, however many requests ask for
  it and wherever they and the handler die.
* **`FailureMeansNothingSent`**: FAILED, of the task or of its submit job, means that the
  platform got nothing or said that the video failed; a task that looks untouched
  although the platform got something has a job that runs or is in doubt.
* **`RepublishedInDoubtOnly`**: a Reel is made public once more only after a publication
  that ended in doubt, or after the write of a run that had lost its lease.

Of the other components:

* **`ReportsAreTrue`**: what jobs and routes report is so. A text or script job that failed
  or waits called nobody, one that succeeded has its text (`TextReportsAreTrue`,
  `ScriptReportsAreTrue`); a failed enhancement stored nothing, a composition in doubt
  has no artifact (`LocalReportsAreTrue`); a batch shown ready is ready
  (`ShownReadyIsReady`); an editor is told "contested" only if another overtook it each
  time, and "saved" only if it is (`ContestedGivesUp`).
* **`PromptsAreConfirmed`**: a strategy or copy that was paid for says what was confirmed,
  whatever is edited while its job waits or runs.
* **`FirstProjectOnce`**: the first project of a chain is generated twice only when a run
  outlived its lease.
* **`CallsAreReserved`**: the counter of reserved calls is the number of jobs that hold one,
  within the quota, and no more calls are made than reserved.
* **`ScriptHistoryIsWhole`**, **`VersionsAreAHistory`**: numbers without gap or double, one
  version per key or content, and what is active or bound exists.
* **`RunningJobIsLeftAlone`**, **`EndsAreKept`**: no late control requeues, pauses or cancels
  a job a worker runs; an ended job is brought back only by a control that loaded it
  before it ended, a SUCCEEDED one by nothing.
* **`FinishedVideosExist`**: a SUCCEEDED composition or enhancement can be served.
* **`StateUsedOnce`**: a state leads to one exchange of a code at most.
* **`OnlyConsentConnects`**, **`TokensFollowTheStatus`**: a disconnected account is connected
  by a new consent, not by a refresh that was under way, and holds no token; the
  refresh token of a connected one is one the platform takes. Both name the crossings
  under which the code does not keep them.
* **`SnapshotsKeepTheirVideo`**: one snapshot per payload, and its video is in the store.
* **`DataIsRecoverable`**, **`FailedUpgradeChangesNothing`**: with the services stopped, data in
  a file that is neither at a revision nor recognisable is in a backup, with every
  commit; and an operation that reports a failure left every byte as it was.

Bounds, and why they are enough:

* *One or two jobs.* Operations touch one job, but for the recovery and the claim,
  which meet other jobs only through the slot and the order; two jobs on one slot show
  both.
* *Two sessions, workers, callers, runs or requests.* Every race here is between a load
  and another actor's write; a third would meet the same row. Three editors of a kit
  are the least that can exhaust one retry (`MaxRetries` is 2 in the code, 1 here).
* *Two attempts* are the most any service of the repository asks for, and let a
  replacement owner meet the one it replaced. The worker races use one attempt
  (the state space with two is beyond 14 million states); what they leave out is
  proved for any number (`WorkersKeepTheBudget`, `WorkersRespectDoubt`).
* *A lease of one tick and a clock to 2 or 3* let a lease be renewed, run out, be
  recovered and run out again. `MaxTime` bounds only the clock. Above the queue a
  lease may run out at any time.
* *`MaxCalls`* is 0 where no property depends on the number of calls, 1 for the
  two-worker instances and 2 where a handler must be able to submit again after it
  was refused.
* *One edit* separates a frozen digest from the present one; *two refresh jobs*, *three
  follow-up jobs of a publication* (two that finalize and one that refreshes) are the
  least that can meet in every order.
* *Two variants, a quota of at most two, two versions, two keys, two grants* let a limit be
  reached and passed over, and a number be contested. The key of a version written by
  hand is the key of one of the jobs (`WriterKeys`), so that the two may meet.
* *Four revisions*, of which one is not recognised and one recognised only with a
  stamp, two backups and two commits: an upgrade that fails half-way, a second one on
  what it left, and a restore of the older backup.

`CHECK_DEADLOCK FALSE` is set where the model really stops: the clock of the queue is
bounded and a system whose jobs have ended rests; `MaxRequests`, `MaxTexts` and the
other bounds let a component come to rest. The render runs check deadlock: a
request can always be made.

## 4. Fairness

* `ExpiredLeaseIsRecovered` assumes that time passes, that claims are begun again
  and again (the loop `cli/execution_worker.py:129-135` polls until it is stopped),
  that every open session is closed in the end (`with self._session_factory()`), and
  that a session which keeps claiming commits now and then: a process may die inside
  a claim, but not inside every one. There is no fairness on users.
* `StoppedWorkerEnds` assumes that the threads of a live process go on (weak
  fairness of `MainStep` and `BeatStep`; a handler returns and providers have
  timeouts) and that a thread waiting for the lock gets it in the end (strong
  fairness of `PersistBoundary`): the heartbeat thread sleeps for
  `heartbeat_interval_seconds` each time it released it. No fairness makes a worker
  die or a user act.
* Nothing else assumes fairness: no component gives back by itself what a dead run
  held (that is the meaning of SUBMIT_UNKNOWN), so their properties are safety.

## 5. What is proved

For every value of the constants, so for any number of jobs, sessions, workers,
callers, requests, revisions, attempts, rows and retries, under the assumptions named
in the modules (positive ids and limits, `None` is no worker, a worker has a session,
claims of any type are possible; the known revisions lie in the chain and its head is
known; "none" is the content of no video). Every safety property that a passing run
checks has its theorem:

| Module | Invariant | Theorems |
|---|---|---|
| `ExecutionQueueProofs` | `IInv` | `TypeCorrect`, `AttemptsAreNumbered`, `IdempotencyKeysAreUnique`, `DoubtIsFinal` |
| | `DInv` | `DoubtIsExplained` |
| | `QInv` (one session) | `SerialAttemptsTell`, `SerialQueueImplementsLifecycle` |
| `ExecutionWorkerProofs` | `IWInv` | `WorkerTypeCorrect`, `WorkersUseTheQueue` and through it `WorkersKeepTheBudget`, `WorkersRespectDoubt`, `WorkersExplainDoubt` |
| | `WInv` | `BoundaryComesFirst`, `SubmissionsStayBounded`, `SingleAttemptsSubmitAlone` |
| | `WSerialInv` (`Serializable`) | `AcceptedAreNotForgotten`, `SubmittersAreAlone`, `SerialWorkersImplementLifecycle` |
| `VideoRenderProofs` | `RInv` | `RenderTypeCorrect`, `TasksAreSubmittedOnce`, `RenderClaimsAreExclusive`, `RenderArtifactsAreWhole`, `RenderAdviceIsSafe`, `EndedTasksStayEnded`, `ClaimsAreGivenBack`, `ChangesAreDeclared`, `OnlyDeathsOrphanFiles` (no `"crash"` among the faults) |
| | `SInv`, `MInv` | `SubmitReportsStayTrue`, `TasksStayMirrored` |
| `PublicationsProofs` | `UploadInv`, `PInv` | `PublicationTypes`, `VideoIsUploadedOnce`, `FailuresAreReal`, `PublishedOncePerDoubt` |
| `SocialAccountsProofs` | `AInv` | `StatesAreUsedOnce`, `TokensAreTrue`, `ConsentConnects` |
| `PresentationSnapshotsProofs` | `SInv` | `SnapshotsAreWhole` |
| `DatabaseMigrationProofs` | `MInv` | `DataCanBeRecovered`, `FailuresChangeNothing` |
| `ApplicationProofs` | `ChainInv` | `PromptsStayConfirmed`, `FirstProjectsAreSole`, `TextReportsHold` |
| | `ScriptInv` | `CallsStayReserved`, `ScriptsKeepAHistory`, `ScriptReportsHold` |
| | `BatchInv` | `ControlsLeaveRunningJobs`, `ControlsKeepEnds`, `ReadyIsShownWhenReady` |
| | `KInv` | `KitsKeepAHistory`, `OnlyContestedGiveUp` |
| | `CInv` | `FinishedAreThere`, `LocalReportsHold` |
| | all of them | `ComponentsRun`, `ApplicationTypes`, `ReportsStayTrue` |

Each invariant has its `...Invariance` theorem. Some theorems state what no run
repeats: `IdempotencyKeysAreUnique` (competing creations leave one job),
`EndedTasksStayEnded` (an ended render task never changes), `ClaimsAreGivenBack` (a run
that reports an outcome has given its task back, on every error path), the type
invariants, and the five parts of `ReportsAreTrue`, each of its component alone.

**The queue.** The types are not inductive by themselves: what a flush writes
depends on rows loaded earlier. `IInv` adds the constraints of the table
(`Consistent`) and `PendingWritesAreSound`: every pending write loaded a row that
was *not* in doubt and assigns `uncertain` together with the status. That is what
makes doubt final without any version check: a stale flush over a row in doubt may
change `status`, but its `uncertain` did not change since the load, so the column
keeps TRUE and `ck_execution_jobs_outcome_uncertain_status` refuses the statement
(`FlushKeepsDoubt`). `AttemptsNumbered` is inductive because only the claim
statement writes `attempt_count`, in the database and not from a loaded value, and
inserts the attempt it numbered in the same transaction.

`DInv` says what a pending write may *tell*: it puts job and attempt in doubt together,
and then says that the attempt may have submitted; the columns that say so
(`submitted_at`, `external_submission_possible`) are only ever set (`NetGrows`,
`NetSets`). The one place where job and attempt part is the claim, which drops what its
session had pending on the row it matched; what is left of the attempt must then need
nothing of the job (`TellsAlone`).

**The serial queue.** With one session (`OneSession`) no table is written between the
loads of an operation and its commit, so a unit of work knows the rows as they are
(`Current`), and `PendingMoves` lists what it may do: a `RowMove` of a user, or a
`PairMove` of an owner or a recovery, which writes the job and its latest attempt. From
that follows `AttemptsTellTheirJob`, and with it the refinement: every commit is one
step of `JobLifecycle` for each job it writes, or a stutter. The code does not run its
operations one at a time; what the theorem says is that the operations are right and
only their overlap can go wrong, and section 6 shows where it does.

**The composition.** `IWInv` adds that a worker at work has a job of the table and
that a lease is renewed only until the join (`ThreadsMatch`). Then every step of a
thread is an operation of the queue with arguments in range, a close, or leaves the
tables alone (`StepIsQueueStep`).

`WInv` is about the boundary, with sessions that interleave freely. A thread that waits
for the end of a transaction has one of its own (`Held`); the attempt of a worker
exists and is the latest while the row names the worker as owner (`Attempting`); the
boundary is in the unit of work of the heartbeat, and then in the row (`Bounding`); no two
workers have one attempt (`OneWorkerPerAttempt`), and a worker submits again only if it
knows it was refused (`SubmitsOnce`). So accepted submissions belong to different
attempts (`AcceptedOnce`), which makes `accepted[j]` an injection into
1..`max_attempts`: `SubmissionsAreBounded`. Where `max_attempts` is 1, as for
renders, publications and scripts, two workers never submit one job at once, also when
sessions interleave (`SingleAttemptsSubmitAlone`).

`WSerialInv` holds when operations do not overlap. It joins the invariants above and
adds `PendingWritesFit`: a write that says with certainty what became of a submission
comes from the attempt's own worker after its call, or the attempt has not come to its
boundary. This is exactly what the run `worker_forgets` refutes of interleaved sessions:
there, a recovery that loaded the attempt before its boundary is flushed after it. From it follow
`AcceptedIsKept` (no accepted submission is recorded as refused or not made) and, since
an attempt without a certain outcome is the last of its job (`UnresolvedIsLatest`), the
theorems.

**The render.** `ClaimsAreExclusive` carries the proof, but is not inductive: a run
that writes at the end of its claim must be known to write no status that can be
claimed again (`RunsFit`: what a refresh puts back is refreshable, which holds because
the digest of its job froze such a status, `JobsFit`), and a claim must find a status
that is no claim. `SubmittedOnce` needs that whatever is CREATED was never sent
(`Unsubmitted`) and that the run before its provider call is the first (`FirstToAsk`).
The steps fall into a few kinds with a lemma each: a run ends and writes nothing
(`EndOnlyKeepsRInv`: refusals, failed writes, deaths), claims (`ClaimKeepsRInv`), goes
on with its claim (`HoldKeepsRInv`), or writes and gives it back
(`ReleaseKeepsRInv`). `SInv` adds that a submit job has announced what it asked;
`MInv` that a refresh that holds a task would put back what was said last, until it has
heard something newer (`RunMirrors`).

**The publications.** A video has one submit job and this job one run, so every call is
made once (`CallsAreFirst`). No other job of the task exists before that run has
reported (`TaskFollows`), and what it announced stays in the row of its attempt
(`OnRecord`), which decides how the job ends whatever becomes of the worker. A finalize
job publishes once at most (`PublishedOnceEach`), and after one that is certain no run that
holds its lease gets as far as another (`SettledStays`, `OneCertain`).

**The accounts.** A state is fresh until a callback consumed it, before its first await
after the check, so no two callbacks hold one state (`CodesOnce`). A grant is known only to the
run it was issued to until that run has flushed it (`GrantsAreFresh`), so no other run
can use up or revoke the token a row is about to hold. Runs that do not cross leave a
row as they would alone (`ClearedRows`, `RefreshIsGood`).

**The texts, scripts, batches, kits and compositions.** *Texts:* a run that told the queue
is the last one of its job (`RunFits`), so a run that owns its job and found no first
project of its chain is the only one that may still write one without doubt (`Sole`).
*Scripts:* a batch counts its jobs (`CallsCounted`), a counter numbers the versions
(`Numbered`), a job says how far its run came (`JobIsTrue`). *Batches:* the CHECK constraints
hold and no control loads an ended job to act on. *Kits:* the numbers of the versions
are 1 to their count, and an editor was overtaken once for each retry it made
(`IsTrueOf`). *Compositions:* an attempt that has its lease names what is stored
(`CompositionWhole`); the enhancement stores in order and after its announcement, which
keeps its job from being FAILED (`EnhancementWhole`). `ComponentsRun` shows that a
behaviour of `MCApplication` is a behaviour of each component, so that these theorems
hold of the specification the run `application` checks.

**The snapshots.** `SInv` adds that the threads at work are those in the lock, one at
most (`OnePresenter`), and that who is about to insert a row with a video has its copy in
the store (`CopiedFirst`). So nobody removes a copy that a row refers to: the removal
looks for a row first, and no other request can insert one before it is done.

**The migration.** `MInv` says that whoever is at work holds the lock (`LockHeld`) and,
unless an operation was started beside running services, that services run beside no
operation and only on a migrated file (`ServedAtHead`), that an operation knows what
the file is (`KnowsItsFile`: until the upgrade begins it is the file it found, from then
on there is a backup of that file or there was none), and that every file, the backups
included, can be brought back (`Recoverable`). The last must hold of the backups too, as
an upgrade may begin on what a dead one left and a restore may bring back any of
them. A revision that commits keeps it (`RevisionKeepsMInv`) because the file it began
with was recognised, so consistent (`RecognisedIsConsistent`), and is a backup.

Only model-checked: the two liveness properties, `ExpiredLeaseIsRecovered` and
`StoppedWorkerEnds` (fairness and ENABLED are out of the prover's reach), and what the
four runs of section 6 refute. `AttemptsTellTheirJob`, `ImplementsLifecycle`,
`AcceptedIsNotForgotten` and `OneSubmitter` are proved, and checked, of operations that do
not overlap; `NoFileIsOrphaned` where no process dies. Without its hypothesis
`AcceptedIsNotForgotten` is false (`worker_forgets`); of the others no more is claimed.

## 6. Findings

Four runs show that the code does not do what its tests say, each with a short trace:

* `queue_owner_race`: `complete` is checked while the lease is live, the lease runs
  out, the job is recovered and claimed by another worker, the completion is flushed:
  it releases and overwrites the job of the replacement owner.
* `worker_forgets`: the recovery loads an attempt before its (late, living) owner
  flushes the submission boundary, and requeues the job after the provider
  accepted. `BoundaryFirst` still holds, as the boundary itself is on record, and the
  budget of attempts still bounds the damage (`SubmissionsAreBounded`). That it needs the
  overlap is proved (`AcceptedAreNotForgotten`).
* `worker_stale_beat`: the heartbeat thread reads the call count before the lock; the
  handler persists a call in between; the older count is refused with 409 and a live
  lease is taken for lost.
* `application_stale_prompt`: the handler of an initial project compares the frozen
  source, then `generate_frozen` reads product, strategy and copy again
  (`initial_video_project_generation_service.py:130-145`) and builds the prompt from
  them; an edit in between is sent although `test_qwen_video_project_handler.py:214`
  is named `test_changed_frozen_source_fails_before_provider` (and
  `docs/v2-plan.md:149` asks for the same). The script handler reads its snapshot a
  second time in the same way (`qwen_video_script_preflight.py:225-295`), and the second
  versions compare only the context of the figures; `PromptsAreConfirmed` is stated of
  strategies and copies, which do not.

The first two need two sessions within the few milliseconds between a load and its
commit; the third needs only one worker. `cancel` flushes over a row that was claimed
or finished since its load in the same way, although its message says "Running or
terminal jobs cannot be cancelled" (`execution_queue_service.py:131`).

Behaviour met while modelling that no text of the repository contradicts, or that a
property names as its exception, and that has no run of its own:

* *Render.* A render the provider canceled goes from REFRESHING or SUBMITTING to CANCELED,
  which `RENDER_TASK_TRANSITIONS` does not declare: the services write the status
  without asking it. The live route creates and submits a task of its own for a
  project whose workspace task is SUBMIT_UNKNOWN, while `docs/live-mainline.md:78` calls
  that a stop condition no replacement may bypass; `SubmittedOnce` is a property of a
  task, not of a project. After its commit `finalize_succeeded` reads both rows again
  (`video_render_artifact_repository.py:62`): a read that fails there is taken for a
  failed commit and the file of a committed artifact is deleted. The model has no
  failing reads.
* *Publications.* A YouTube task prepared under another preflight than the job that
  was created stays CREATED. A finalize job that dies leaves READY_TO_PUBLISH behind,
  so that another may publish again (`RepublishedInDoubtOnly`). A refresh or finalize that
  outlived its lease may overwrite a task that has ended.
* *Scripts.* The key of a version written by hand is any string of eight characters or
  more (`schemas/video_script_version.py:38`), that of a generated one is made of its
  job (`video_script_version_service.py:241`), and both are under one UNIQUE
  constraint: a version saved by hand under the key of a job makes the paid answer of
  this job be refused.
* *Texts.* A job's key is the digest of its input: an unchanged input returns the old
  job, FAILED and SUBMIT_UNKNOWN included. Two requests that race may make two second
  versions from one recommendation. The content studio reads the latest strategy and
  the latest copy one after the other (`content_studio_service.py:38-44`), so they may
  belong to different chains.
* *Accounts.* A refresh of YouTube that loaded an EXPIRED row makes a row CONNECTED that
  was disconnected meanwhile; a lost answer or a crossing refresh of TikTok leaves a
  token in the row that is void.
* *Batches.* Two controls that cross may bring a CANCELLED or FAILED job back to life
  (`EndsAreKept` names them); a cancelled batch leaves the script jobs of its variants.
* *Compositions.* A composition that is FAILED, PERSIST_UNKNOWN or left COMPOSING by a
  death is never run again, as a resubmission returns the same job. An attempt that
  outlived its lease may delete the file its replacement found and names. The files of
  compositions are kept under the names of render tasks (`render-task-{id}`).
* *Snapshots.* A copy that is refused because the bytes changed leaves its file behind.
* *Migration.* An upgrade that was started beside running services (against "Stop every
  process", `src/backend/alembic/README.md:22`) and fails restores a backup that lacks
  what was committed meanwhile; the properties are stated for services that were
  stopped, and `beside` marks the others. The command reports `"safe": true` also when
  the restore failed. An unversioned file of revision 0009 is refused although the
  status command knows the revision.

## 7. Abstractions, and what is not modelled

* The reads of one operation happen at one instant, where the code has no other
  access in between. (The methods of the queue read the job, then its latest attempt.)
* `provider_operation_id` is only written together with `submitted_at`, and tested
  next to it: one Boolean, `submitted`, stands for both. Error codes and texts,
  digests of the input, and timestamps nothing tests are left out; the order of
  creation is the order of ids.
* Every lease asks for `LeaseTicks`. A worker that died comes back under a new
  identity (`cli/execution_worker.py:90-92`), so that an identity never returns.
* `Serializable = TRUE` selects the executions in which no two operations of the
  queue overlap; the code does not enforce it, and section 6 shows what happens
  otherwise. The modules of the components take the queue in this form.
* A follow-up call of one submission (the chunks of an upload) counts as a call that
  does not submit: the boundary is on record since the first.
* `VideoRender`: jobs come from `ExecutionQueue` as a set, taken once, because
  `max_attempts` is 1 for both types; cancelled jobs are jobs never taken. The wiring of
  the provider and the storage is taken for granted, so the branch "Artifact storage is
  not configured" is out of reach (`wanx_video_render.py` always passes one), and so are
  the early returns of `refresh`, since the frozen digest contains a status that can be
  refreshed. Errors are told apart as far as the digest sees them; a lost
  acknowledgement stands for the timeout and the connection error, `invalid` for the
  three answers that `_restore_after_invalid_refresh` rejects. The download is one step
  with two outcomes.
* `Publications`: the probe of a video, the URL it is fetched from and the validity of the
  platform's answers are outcomes. `YouTubePublishingService.publish` and `.refresh`, the
  coroutines with an asyncio lock per task, are called by no route and left out.
* Prompts, answers and the checks on them, FFmpeg, and the contents of scripts, kits
  and snapshots are abstracted to the distinctions the properties make: exact or not,
  equal or not, whole or spoilt.
* Locks of a process (the first project of a chain, the creation of a snapshot) exclude
  the threads of one process; a second process meets none of them. Snapshots are made
  by the one server; jobs run in several workers.
* `DatabaseMigration`: revisions are numbers; those mapped for `EndRevision` and
  `CommitUpgrade` (0002, 0013) stand for all. The identity check of the lock file, the
  read of its token and its removal are one step. A journal that a dead upgrade left is
  rolled back by the next reader and not seen. `os.replace` of a file somebody has open
  fails on Windows: that is `RestoreFails`.
* Not modelled at all (the `note` of each component in `PROJECT.json` has the reason):
  growth feedback and analysis, products, campaigns, marketing tasks, dashboard and
  demo (rows that one request reads or writes); readiness and live configuration (they
  only read); the HTTP detail of the provider adapters, whose outcomes the modules take
  as choices; routes as far as they parse and map errors; the frontend; the scripts.

## 8. Plan

Every safety and action property of the passing runs, and the refinement of
`JobLifecycle`, is proved. What is left, in this order:

1. An abstract `PaidSubmission` (not made, made once, or in doubt; never made again by
   itself) that `VideoRender`, `Publications` and `VideoScripts` implement, each with its
   step refinement, so that the promise of the documentation is one formula.
2. The refinement of the steps that `VideoRender` and `Publications` take of a job (claim,
   announce, lose the lease, end) by those of `ExecutionWorker`; so far it is the
   argument of section 2.
3. The growth analyses, which compare a frozen digest with rows that are edited, if they
   gain a step that is paid for.
