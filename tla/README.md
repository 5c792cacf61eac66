# Kleinkram in TLA+

Kleinkram stores robotics datasets and runs *actions*, docker containers, on them. This
directory is its formal model: TLA+ modules translated from the source, TLC
configurations that check them on small instances, and proofs, checked by TLAPS, of what
must hold on every instance. Paths below are relative to the repository; `Q/` stands for
`queueConsumer/src/actions/`, `BC/` for `packages/backend-common/src/`.

Contents: 1 inventory, 2 what is modelled and how, 3 what is checked, 4 what is proved,
5 what the checks found, 6 what is not modelled, 7 plan.

## 1. Inventory

The system is a set of processes around a Postgres database, a Redis server (Bull queues
and a publish/subscribe channel) and an S3 bucket:

| component | process | state it keeps | operations | talks to |
|---|---|---|---|---|
| action dispatcher (`BC/modules/action-dispatcher`, `BC/scheduling-logic.ts`) | api-server | `actionQueues` (a Bull queue per worker) | `dispatch`, `stopAction`, `healthCheck` (cron) | tables `action`, `worker`; Bull; channel `action-cancellation` |
| action service, diagnostics (`backend/src/services/action*.ts`) | api-server | none | cancel, delete, list, record a diagnostic | table `action`, dispatcher |
| action job runner (`Q/action-queue-processor.provider.ts`, `Q/services/action-manager.service.ts`, `action-cancellation.service.ts`, `artifact.service.ts`, `Q/helper/disposable-api-key.ts`) | queue consumer, one per worker host | in memory: active actions, cancelled actions, active containers | `processAction`, its lifecycle hooks, `handleActionCancellation`, registration, heartbeat | Bull, channel, `action`, `api_key`, docker |
| container janitor (`Q/services/container-lifecycle.service.ts`) | queue consumer, every 30 s | none between passes | `performReconciliation` | docker, `action`, `action_runner` |
| file requests (`backend/src/services/file-lifecycle.service.ts`, `queue.service.ts`) | api-server | rows `file_entity`, `ingestion_job` | get credentials, confirm, cancel, edit, move, delete, import from Google Drive, delete / cancel / stop a job | database, bucket, `file-queue` |
| file ingestion (`queueConsumer/src/file-processor`) | queue consumer | rows, temporary files | expand a folder, download, convert, upload, extract topics | `file-queue`, bucket, database |
| file cleanup (`queueConsumer/src/fileCleanup`) | queue consumer, cron | none | fail overdue uploads, purge cancelled ones, fill in missing hashes | database, bucket |
| access control (`backend/src/services/access*.ts`, `BC/services/affiliation-group.service.ts`, `BC/modules/access-control`) | api-server | groups, memberships, project rights | create, join, leave, permit, grant, revoke, replace; reconciliation at start-up; expiry cron | database |
| projects, missions, metadata (`backend/src/services/project.service.ts`, `mission.service.ts`, `metadata.service.ts`) | api-server | relational rows | create, move, delete, require, annotate | database |
| templates and triggers (`backend/src/services/template*.ts`, `trigger*.ts`, `queueConsumer/src/trigger-processor`) | api-server, queue consumer | tables, `trigger-queue` | create, version, archive; cron checks, file events, webhooks dispatch runs | Bull, dispatcher |
| command line client (`cli/kleinkram/api/file_transfer.py`, `routes.py`, `core.py`) | a process per command, threads | progress of each file, local files, broken or lost calls | `upload_files`, `upload_file` (credentials, put, confirm, cancel, retries), `download_file` | api-server, bucket |
| browser client (`frontend/src/services/file-service.ts`) | a tab | the batch, progress of each file | `_createFileAction`, `uploadFileMultipart` | api-server, bucket |

`PROJECT.json` lists every component with its sources and its status, and the hazards of
each at their lines.

### What makes each part correct

* **Dispatcher.** A dispatched run has a job in exactly one queue, or is marked
  UNPROCESSABLE. A dead worker's jobs move to a live one, once, and are not lost between
  `job.remove()` and `queue.add()`.
* **Runner.** A run starts at most one container, ends in one final state, disposes of its
  API key and forgets what it kept in memory on *every* path: normal, cancelled, thrown
  before or inside the `try`, crash.
* **Cancellation.** It takes effect whether it arrives before, during or after the start
  of the container.
* **Janitor.** It ends every container that outlives its time limit or its runner, and
  leaves healthy runs alone, although each decision is made with data read earlier.
* **Hooks.** They run after the job is settled, beside the worker's next job, and must
  not leave an action half finished.
* **Files.** A file that is OK has its object; a confirmed upload is not cancelled and a
  cancelled one not confirmed; a deleted file stays deleted; every ingestion job ends with a
  verdict and no upload hangs for ever.
* **Access control.** A project keeps an owner, a group an editor; rights are given only by those
  who have them; what has expired gives nothing; a restart brings the groups in line
  with the deployment's configuration.
* **Catalog.** What is live is in something live; a mission has one value per metadata type and
  the types its project requires.
* **Triggers.** Each occasion (a date, an event, a call) starts one run, none is missed.
* **Clients.** What they tell their user is true: a file called uploaded is there with its own
  content, one called "already uploaded" is not merely the leftover of its own failed attempt, a
  download is whole, and a download nobody asked to overwrite with leaves the user's files alone.

### What is hard

No code takes a lock across an `await` (but for a few transactions), so every handler
works with what it read earlier, and TypeORM's `save` writes whole entities back. In the
action subsystem three parties (dispatcher, runner, janitor) write the same row; in the file
subsystem requests, ingestion and the crons do. Consumers crash with state in memory, a
registered key and a running container; Bull retries a stalled job once, from the start, and
gives up the second time; hooks, crons and redis messages arrive at any point. A count is
taken in one statement and acted upon in another. A client whose call gets no answer makes it
again, although the server may have processed the first one, or may yet. `PROJECT.json` lists
these hazards.

## 2. The model

One action per step between two awaits; the guard of an endpoint and its first read are one
step. Names, texts and everything that decides nothing are left out.

| module | models | state |
|---|---|---|
| `ActionStates` | the pure functions of `packages/shared/src/common-utils/action-*.ts`: final and cancellable states, severity order, exit code to outcome, which verdict wins | none |
| `ActionStore` | what the processes share: table `action`, Bull jobs, channel, API keys, docker daemons, consumers that are alive | `row`, `job`, `msgs`, `liveKeys`, `cont`, `up`, `epoch`, `reachable` |
| `ActionDispatcher` | dispatch, scheduling, health check, cancel, diagnostics, delete | `queues`, `disp`, `req`, `hc`, `dead`, history `lostJobs` |
| `ActionRunner` | `processAction`, its hooks, the cancellation service, crash and registration | `pc`, `cur`, `loaded`, `verdict`, the three in-memory sets, `hook`, history `lostHooks` |
| `ContainerJanitor` | `performReconciliation` | `inactive`, `janPc`, `janList`, `janSeen`, `janActive`, `janAt` |
| `ActionSystem` | the composition, crashes and restarts, all properties, fairness | (the union) |
| `JobCustody` | the abstract promise about an action's job: a worker keeps it until it lets go or dies, and it alone starts the container, once | `place`, `doing`, `started` |
| `FileStore` | tables `file_entity` and `ingestion_job`, the bucket, credentials handed out, `file-queue` | `file`, `object`, `credentials`, `job`, `waiting` |
| `FileRequests` | `FileLifecycleService` and `QueueService`: every request that changes a file or a job | `req`, `served`, history `abandoned` |
| `FileIngestion` | the processors of `file-queue`, folder expansion, the handlers, conversion, crashes | `slot`, `stalled`, `stalls`, history `dropped` |
| `FileCleanup` | `cleanupFailedUploads`, `fixFileHashes` | `cleaner`, `repair`, history `purged` |
| `FileSystem` | the composition with clients and time, properties, fairness | history `stale` |
| `AccessStore` | `access_group`, `group_membership`, `project_access`; the two ways the code reads them | `group`, `member`, `access` |
| `AccessRequests` | `access-modification.service.ts` behind its guards, sign-in | `req`, `served`, histories `raced`, `relinquished` |
| `AffiliationSync` | `syncAccessGroups` at the start of the api-server | `boot`, `boots` |
| `AccessSystem` | the composition with the expiry cron, properties | (the union) |
| `CatalogStore` | projects, missions, metadata, files, versions of a template, triggers, runs they started | `project`, `mission`, `metadata`, `file`, `template`, `trigger`, `runs` |
| `CatalogRequests` | requests on projects, missions, metadata and on files as far as missions notice | `req`, `served`, `events`, history `clashed` |
| `TriggerRequests` | requests on templates and triggers, webhooks | (as above) |
| `TriggerQueue` | cron checks, file events, their processing, crashes of a consumer | `clock`, `job` |
| `CatalogSystem` | the composition, properties | (the union) |
| `TransferServer` | the server as clients that transfer files see it: rows of one mission, contents of objects, calls and uploads under way that were given up | `row`, `object`, `owner`, `late`, `flying`, histories `crossed`, `belated` |
| `CliUploads` | `upload_files` and `upload_file`: threads, retries, cancellation, interruption | `up`, `lost`, `kills`, history `cutOff` |
| `WebUploads` | the upload of a batch in the browser | `batch` |
| `CliDownloads` | `download_file`: skip, resume, retry, check of the hash | `local`, `dl`, `commands` |
| `TransferSystem` | the composition of both clients with the server, properties | `wanted` |
| `MCFileSystem`, `MCAccessSystem`, `MCCatalogSystem`, `MCTransferSystem` | instances for TLC | |

`ActionSystemProofs`, `ActionSafetyProofs`, `ActionRefinementProofs`, `FileSystemProofs`,
`AccessProofs`, `CatalogProofs`, `TriggerProofs` and `TransferProofs` hold the proofs.

### Correspondence: actions

* A *worker* is a host with one queue consumer (job concurrency 1) and one docker daemon.
  A *runner* `<<w, epoch>>` is one incarnation of the consumer, the `ActionRunnerEntity`
  that labels containers.
* `row[a]` keeps the columns decisions depend on: state, severity, failure origin,
  artifact state, whether `executionEndedAt` is set, and the worker. `ABSENT` is "no row".
  `Update` is TypeORM's `update` (the named columns, no effect on a missing row);
  `SaveEntity` is `save` of an entity read earlier: every loaded column, stale or not. The
  relation `worker` is written only where the code loaded it (`stopAction`).
* `job[a]` is the action's Bull job: `waiting`, `active` (the consumer holds its lock),
  `delayed` (an attempt is left), `failed`, or `abandoned`: still in the active list after
  its consumer died, so that the lock has expired. With Bull's `maxStalledCount` of 1 a
  stalled job is retried once and fails the second time, whatever attempts it has left.
  `Settle` moves the job before the hook runs, as Bull does.
* `pc[w]` names the await at which `executeProcessAction` is suspended, from `fetched`
  (Bull handed over the job) through `loaded`, `registered`, `starting`, `keyed`,
  `processing`, `launched`, `attached`, `waiting`, `exited`, `stopping`, `judged`, `ended`,
  `uploading` to `disposing` and `succeeded`; `caught`, `disposingFailed` and `failed` are
  the catch block and what follows. `loaded[w]` is `action.state` as read with the job, which is what
  the PENDING check tests.
* `disp[a].pc` walks through `dispatch()`: `choose`, `add`, then (first attempt failed)
  `refresh`, `choose2`, `add2`, and `queued` or `failed`, `rejected`. `dead[w][a]` is where the health
  check stands with one job of a dead worker, with the entity it read.
* `req[a]` is a cancel request: state checked, entity read, entity saved, published.
* `JobCustody` is seen through `Place`: a job is *held* while it is in Bull's active list with
  its lock, *queued* in any other list, *nowhere* without a job; `doing` is `cur`, and
  `started` the containers that are not in state `none`.
* The janitor's variables are the local variables of one pass: containers listed, snapshot
  of PROCESSING actions, container at hand. A kill and the database write that explains it
  are two steps, in the code's order (reversed for zombies, as in the code).

### Correspondence: files

* A file uuid is also the key of its object. `file[f]` keeps presence, name, state, hash
  (null, the empty string, an md5) and whether its `updatedAt` is long ago (`old`). `job[j]` is the row
  of an ingestion job with the numbers of `QueueState`, which the code compares with `<`.
  `waiting[j]` counts Bull jobs: several may exist for one row.
* A member of `Requests` is one HTTP request; `req[r].seen` is the entity it read and will
  save. `RequestsMayFail` lets it stop at any await (the api-server crashes, the
  database or redis refuses).
* `save` writes the loaded columns that differ. `deletedAt` is `select: false`, so a
  save never revives a soft-deleted row, but it inserts a removed one again.
* A slot is a job in the consumer's hands. Its `pc` names the await of `processS3File`,
  `processDriveFile` or the handler; `mcap` is the row of the converted file. A crash empties
  every slot; Bull hands a job out again once.
* A name is a base and a type: BAG is converted, MCAP stands for types whose handler
  extracts only, YAML for those without a handler.

### Correspondence: access

* `member[g][u]` keeps presence (live, soft-deleted, removed), `canEditGroup` and the
  expiration date (none, future, past). `Listed` is what `find` and joins see: not
  soft-deleted, dates ignored. `Counted` is what the view `project_access_view` sees: dates
  respected, soft deletion ignored. The difference is the source of finding 2.
* `access[g]` is the one project's `project_access` row of a group. `had` are the rights the
  checks of a request found; the transaction of `updateProjectAccess` (READ COMMITTED) shows its
  writes in its last step, and `old` is what its DELETE saw.
  The comparison skips groups whose rights do not change: `kept` notes which, `lapsed` that a check was
  passed by virtue of an expired membership.
* `boot` walks through `syncAccessGroups`; no request is served meanwhile, but the queue
  consumer's cron purges memberships.

### Correspondence: catalog and triggers

* `metadata[m][t]` is the set of rows with a value of type `t`: no index makes it one.
* A request has a `kind`, what it works `on`, and what it `seen`. `clashed` notes which
  kinds of requests were in progress on the same thing: properties that the code can only
  keep without such a clash say so, and name it.
* `runs` records what started each run (`of`: date, event, call; `at`: which), and which
  processing of which job it was: FiresOnce is about that.
* `clock` counts ticks, `TPM` to the minute; a check's job id is its minute. A consumer's
  crash leaves the job active until it is stalled and processed again, once.

### Correspondence: clients

* A request is one step of `TransferServer`; the steps inside it are those of `FileSystem`. What
  `FileSystem` leaves out is there instead: an object has a *content*, and a local file is its own
  content, so that `object[n] = u` says whose upload the bucket has under the name `n`.
* `late` holds the calls a client has given up (`httpx.TransportError`, a closed tab) and the server
  may still process, at any later time or never; `flying` the uploads to the bucket that may
  still arrive. `owner[n]` is who reserved the name last, `crossed` the names that somebody else has
  written to, `belated` those that a late call has changed.
* `up[u].pc` names the call at which an upload stands: `credentials`, `put`, `cancel`, `confirm`,
  in the browser also `check` and `abort`. `attempt` is the loop over `MAX_UPLOAD_RETRIES`, `try`
  that of a single call.
* The browser reserves a batch with one call and pairs the i-th answer with the i-th file; the server
  answers once per name. `KeyOf` is the name a file is uploaded under in consequence.
* A local file is a sequence of chunks of contents; `Parts` chunks are a whole file, of whatever
  content, so that the sizes of two files can be the same. `Own` is the content of a file that the user
  had before. The connection of a download sends the object as it was when it began.

### Assumptions and abstractions

* Actions: the api-server does not crash in the middle of a step, and database statements do not
  fail. Docker errors (`DockerMayFail`) and a failing `queue.add` (`RequeueMayFail`, and
  `AddJobFails` at any time) are modelled.
* A live consumer keeps its heartbeat and its Bull locks: no partitions, no long pauses.
  The expiry of a crashed consumer's lock is merged with the crash; `StopPublish` may
  still fail to remove such a job, as it would before the expiry.
* One cancel request is handled at a time per action; `MaxCancels` bounds their number.
  Delivering a cancellation (remember it, kill the container) is one step.
* At most one pending lifecycle hook per worker and action.
* The cron does not wait for its previous pass, so health checks of different workers
  overlap. The health check inside `dispatch` waits until dead workers are noted; its
  handling of them is the same actions as the cron's.
* Time is abstract: `RuntimeExpires`, `RunnerGoesInactive` and `MembershipExpires` may
  happen at any moment from which the code would see them; half a day passes for a file (`FileAges`)
  only while no request or slot works on it. The janitor evaluates its two when it visits a
  container, which is sound since neither is ever undone.
* Docker serves a removal some time after it was requested, or never.
* A cron holds its redis lock: one run of each at a time.
* `addUserToProject` is left out: it sets the relation `accessGroup` to a membership
  (`backend/src/services/access-modification.service.ts`, lines 89-182) and the database refuses the foreign key, always.
  Creating a user is one step: its partial failures are not modelled.
* `CatalogAssumption` says of the initial contents what foreign keys guarantee, e.g. that a trigger refers
  to a version of a template that exists.
* A trigger whose mission is soft-deleted can be edited only together with a new mission. Patterns of
  file names are left out; jobs of `trigger-queue` are taken in any order.
* `MayDispatch` has both ways to a mission: the creator of a trigger in `Direct` is an administrator or
  has rights on missions themselves, the creator of another has rights by way of the project. Who
  creates a trigger does not change; that he loses his rights is left out.
* A client works on a file for less than the half day after which the server gives the upload up
  (`TimeOut` asks for `WorkingOn(n) = {}`). All files have the same size. The browser's limit of five
  uploads at a time and its dialog for other names are left out, as are names the command line
  client maps before it uploads.
* Left out: `handleHardwareDependencyError` (nothing throws the error it handles),
  containers without labels, runners missing from the database, and
  the audit log (section 6).

## 3. What is checked

`CHECK_DEADLOCK FALSE` throughout: a system where everything is settled, with no user request
to come, has stopped and may.

| run | instance | distinct states | what it asks |
|---|---|---|---|
| `lifecycle` | 1 action, 1 worker, 1 crash, exit code 0, docker errors, kills, a WARNING diagnostic, time limit | 592 k | every invariant of a run without cancellation |
| `handover` | 1 action, 2 workers, one of which crashes and returns; re-queueing may fail | 751 k | who processes the action; implements `JobCustody` |
| `stalled` | 1 worker, 2 crashes | 479 k | the job stalls once (retried), then twice (failed by Bull) |
| `cancel` | 1 worker, 1 cancel request, docker errors, deletion | 124 k | a cancellation at every point of a run, safety and liveness |
| `crash_live` | 1 crash, containers never exit | 59 k | liveness with crashes |
| `uploads` | 2 uuids of one name, 1 ingestion job, 2 requests at a time and 4 in all of nine kinds, any of which may stop half way; cleanup; time | 996 k | what requests, ingestion and cleanup do to each other |
| `ingestion` | 2 uuids, 2 jobs, a Drive file or folder, conversion, 2 crashes, cleanup and repair | 171 k | every handler on every path; liveness |
| `access` | an administrator, a user, two affiliations with DELETE and WRITE rights, a custom and the public group; 2 requests at a time, 3 in all; 1 restart under 2 configurations; expiry and purge | 168 k | who keeps which rights |
| `catalog` | 2 projects, 2 missions, 1 file, 2 triggers, one of an administrator, 2 template versions, 2 requests at a time, 3 in all; 2 minutes of 3 ticks; 1 crash | 226 k | hierarchy, metadata, triggers |
| `transfers` | 2 names, 6 files: a command with two, a command by a user who may not cancel, a browser with three; 2 attempts, 1 lost call, 1 kill; files of 2 chunks, 2 downloads | 597 k | what clients tell their users |

Two more runs, `terminal` and `lapsed`, each refute a sentence of the repository (section 5).

### Properties: actions

* `AtMostOneStart`: nobody starts an action twice, over crashes, stalled jobs, re-queueing and
  restarts. That nobody processes one twice, `SingleProcessor`, is checked as part of
  `ImplementsCustody` and proved by itself.
* `ImplementsCustody` (refinement): `ActionSystem` implements `JobCustody`. The
  dispatcher, the health check, the hooks, cancellation and Bull move only jobs nobody has
  in hand. A taken job leaves its worker only when the worker is done, has failed or has
  died; a container is started by the worker that has the job, and by no other ever after.
* `KeyAttended`: an API key is live only while the runner that made it is between
  creating and disposing of it for that action, or after that runner died.
* `NoOrphanedAction`: a row that is not final has somebody behind it: dispatcher, job,
  hook, runner or health check. Exceptions, in `Lost`, are the three places where the code
  drops a job and nothing repeats it: a crash inside `handleUnexpectedError` (after
  `job.remove()`, before the save, or before anything for a job that has stalled twice),
  a health check whose `queue.add` failed, and a cancellation that removes the job of a run whose
  consumer had written STARTING or PROCESSING over CANCELLED and crashed.
* `StrayIsReclaimable`: a running container that its live runner has let go of belongs to
  an action the janitor's conditional update will match.
* `CancelledNeverRuns`, `MemoryForgotten`: cancellation takes effect, and nothing in
  memory outlives a run.
* `SettledArtifacts`: artifacts shown as UPLOADING have somebody behind them, or belong to a run that was
  `BrokenOff`: given up after a crash, when it is FAILED or UNPROCESSABLE; or cancelled, with a save that puts
  back a row read during the upload, or with the job of a consumer that crashed in the upload removed.
* `HealthyRunSpared` (action property): no step kills a healthy run or fails its row,
  whatever snapshot or stale entity it acts on. Two kinds of steps are exempt because they do harm:
  crash detection that looked too early, or was misled by an old worker column (`Condemned`,
  section 5), and the failed hook of a job that stalled twice, when it is late and the health check
  has queued the run anew (`GivenUp`).
* `EventuallyFinal`, `ContainersReclaimed` (liveness).

### Properties: files

* `OkIsBacked`: a file that is OK has its object. Its exceptions are the windows of the code,
  one by one: a deletion (`deleteFile`, `deleteMultiple`, or the queue's `delete`) that has
  removed the object and not yet the row, or has stopped there; the converted file that
  `finishExtraction` declares OK ahead of its upload (for good, if the consumer dies in between); an
  object purged in a race; and a save of an outdated entity.
* `NoOrphanedJob`: an ingestion job that waits or is processed has somebody to process it.
* `DeletedStaysDeleted`, `ConfirmedKept`, `CanceledKept` (action properties): no stale save
  revives a deleted file, whose row is at most removed altogether, with its ingestion job; a
  confirmed upload is cancelled, and a cancelled one confirmed, only by a save
  of an entity read before.
* `CompletedIsSettled`: a job that is about to complete has given its file a verdict.
* `JobsSettle`, `UploadsSettle` (liveness): every job ends although the consumer
  dies twice; no upload stays UPLOADING.

### Properties: access

* `GroupKeepsEditor`, `ProjectKeepsOwner`: counted in one statement, changed in another; two
  requests count each other. The exceptions name the requests that raced.
* `PurgedGrantsNothing`: who has rights through a group is listed among its members,
  although the view and the lists disagree about soft deletion.
* `BootBlockedByPurge`: the only thing that keeps the api-server from starting is a purged
  membership that the configuration wants back.
* `GrantsWithinRights` (action property): a request gives only rights its user had when they were
  checked. Two exceptions: a replacement writes back what a group had when the list was compared,
  although somebody has taken it away since; and a membership that has expired still counts.
* `SyncReconciles`: a start that succeeds has brought memberships in line.

### Properties: catalog and triggers

* `HierarchyIntact`: what is live is in something live, unless the parent was deleted while
  something was put into it.
* `RequiredKept`: a mission that has the metadata its project requires keeps it, but for requests that
  overlap.
* `FiresOnce`: an occasion starts one run of a trigger per processing of its one job.
* `DueDatesFire`: a check that is done has fired every trigger that was due, whatever crashes it went
  through.

### Properties: clients

* `UploadedIsStored`: a file called uploaded is in the mission under its name, with its own content and
  hash. Exceptions: an upload or a call that was given up arrives late, and a browser's batch
  with a repeated name (section 5).
* `SkippedIsUploaded` (action property): "already uploaded" is said only of a name whose file is there,
  is being uploaded by somebody else, or was left reserved by an upload that was cut off or by a
  user who may not cancel. An attempt that failed and is repeated does not meet its own reservation.
* `LocalFilesKept` (action property): without `--overwrite`, a file of the user is not touched if the
  server knows the hash of its own.
* `DownloadIsWhole`: a download that succeeds has every chunk once, in order, of one content, that of
  the hash if there is one, however often it was interrupted and whatever was there before.

`PROJECT.json` pairs every property of these runs with a mutant of the code that breaks it, e.g. a
`cleanup` that keeps the cancelled set, a `job.remove()` that ignores the lock, a start without the
PENDING check, a time-out that leaves the state.

### Bounds, and why they are enough

Actions interact only through a worker (its consumer runs one job at a time), its queue and
a janitor pass. One action per run exercises every interleaving of the three writers of
its row. Two workers suffice for a handover, since each move of a job involves a
source and a target; a crash of the target is symmetrical to that of the source, and the
proofs of `SingleProcessor` and `AtMostOneStart` cover every number of both. Two crashes reach the
second stall, after which Bull gives the job up. One cancel request covers the race with
each step of the run.

Two files of one name are a file and its converted sibling, or two attempts at an upload; two requests at a
time show every race of two handlers, four in all let a name be reserved, cancelled, reserved
and confirmed. One slot suffices: jobs meet at rows, and a crash frees the slot with the
row half done.

For access and the catalog three requests, two of them at a time, are a preparation and a race; what a
behaviour contains is drawn from an *agenda*, a set of kinds of requests that can affect each
other (four for access, fourteen on seven initial catalogs), since all kinds at once
are too many. `MaxClock` 6 and a date at tick 3 give checks before, at and after the date, in
its minute and in the next.

What users do in a behaviour of `transfers` is one of six *plans*: two commands with one file each, of the
same name; one command with two files, whose threads are fewer; a command beside a browser; the other
command beside a browser with two names; a browser with a name twice; an upload beside two downloads
of the name. Clients meet only at a name, so two of them are a race; the second attempt is the one that
meets what the first left; a file of two chunks can be empty, half there and whole. The search is
24 steps deep.

### Fairness

`FairSpec` (actions) assumes weak fairness of exactly what the processes keep doing by themselves:

* the pipeline of a live consumer, its hooks, and Bull's moves of delayed and stalled jobs;
* delivery of a published cancellation to a live subscriber;
* a dispatch and a stop request that have begun;
* the health check and the janitor, which are crons;
* passing time (`RuntimeExpires`, `RunnerGoesInactive`);
* the restart of a dead consumer. This is an assumption about the deployment: the compose
  file gives the queue consumer no restart policy, and with a host that never returns
  nothing reclaims its containers.

No fairness of: container exits, docker removals, users' requests and diagnostics.
A container that never ends is ended by its time limit alone.

`FileFairSpec` assumes weak fairness of requests that have begun, of each slot (a consumer takes
jobs and works on them), of passing time, and of the nightly cleanup. Nobody has to
upload, confirm or cancel anything.

## 4. What is proved

For every set of actions, workers, files, requests, users, groups, missions, triggers, clients, and all
values of the bounds:

| theorem | module | says |
|---|---|---|
| `TypeCorrect` | `ActionSystemProofs` | `Spec => []TypeOK` |
| `MemoryIsForgotten` | `ActionSafetyProofs` | `Spec => []MemoryForgotten` |
| `OneProcessor` | `ActionSafetyProofs` | `Spec => []SingleProcessor` |
| `OneStart` | `ActionSafetyProofs` | `Spec => []AtMostOneStart` |
| `KeysAreAttended` | `ActionSafetyProofs` | `Spec => []KeyAttended` |
| `CancellationKills` | `ActionSafetyProofs` | `Spec => []CancelledNeverRuns` |
| `StraysAreReclaimable` | `ActionSafetyProofs` | `Spec => []StrayIsReclaimable` |
| `NobodyIsOrphaned` | `ActionSafetyProofs` | `Spec => []NoOrphanedAction` |
| `HealthIsSpared` | `ActionSafetyProofs` | `Spec => HealthyRunSpared` |
| `ArtifactsSettle` | `ActionSafetyProofs` | `Spec => []SettledArtifacts` |
| `FinalReopenedByItsRun` | `ActionSafetyProofs` | `Spec => ReopenedByItsRun` |
| `CustodyKept` | `ActionRefinementProofs` | `Spec => ImplementsCustody` |
| `FileTypeCorrect` | `FileSystemProofs` | `FileSpec => []FileTypeOK` |
| `DeletedForGood` | `FileSystemProofs` | `FileSpec => DeletedStaysDeleted` |
| `ConfirmationKept` | `FileSystemProofs` | `FileSpec => ConfirmedKept` |
| `CancellationKept` | `FileSystemProofs` | `FileSpec => CanceledKept` |
| `NobodyOrphansJobs` | `FileSystemProofs` | `FileSpec => []NoOrphanedJob` |
| `OkFilesAreBacked` | `FileSystemProofs` | `FileSpec => []OkIsBacked` |
| `CompletionSettles` | `FileSystemProofs` | `FileSpec => []CompletedIsSettled` |
| `AccessTypeCorrect` | `AccessProofs` | `AccessSpec => []AccessTypeOK` |
| `OwnerKept` | `AccessProofs` | `AccessSpec => []ProjectKeepsOwner` |
| `EditorKept` | `AccessProofs` | `AccessSpec => []GroupKeepsEditor` |
| `PurgedCountForNothing` | `AccessProofs` | `AccessSpec => []PurgedGrantsNothing` |
| `BootFailsByPurgeAlone` | `AccessProofs` | `AccessSpec => []BootBlockedByPurge` |
| `GrantedWithinRights` | `AccessProofs` | `AccessSpec => GrantsWithinRights` |
| `StartReconciles` | `AccessProofs` | `AccessSpec => SyncReconciles` |
| `CatalogTypeCorrect` | `CatalogProofs` | `CatalogSpec => []CatalogTypeOK` |
| `NothingLeftBehind` | `CatalogProofs` | `CatalogSpec => []HierarchyIntact` |
| `RequiredStays` | `CatalogProofs` | `CatalogSpec => RequiredKept` |
| `FiresOncePerOccasion` | `TriggerProofs` | `CatalogSpec => []FiresOnce` |
| `DatesFire` | `TriggerProofs` | `CatalogSpec => []DueDatesFire` |
| `TransferTypeCorrect` | `TransferProofs` | `TransferSpec => []TransferTypeOK` |
| `UploadedIsThere` | `TransferProofs` | `TransferSpec => []UploadedIsStored` |
| `SkippedIsThere` | `TransferProofs` | `TransferSpec => SkippedIsUploaded` |
| `LocalFilesAreKept` | `TransferProofs` | `TransferSpec => LocalFilesKept` |
| `DownloadsAreWhole` | `TransferProofs` | `TransferSpec => []DownloadIsWhole` |

Assumptions used: the named ASSUMEs of the modules (bounds are natural numbers,
`NoWorker` and the like are not elements, sets that are counted are finite); TLC evaluates them in every run.

**Type correctness** of the actions is not inductive alone: that `liveKeys` and `cont` stay within their
types needs the action at hand to be one, and a restart needs an epoch left.
`TypeInv == TypeOK /\ BusyHasAction /\ DownCanRestart` is. One lemma per process proves its half of
the step; `RowHelpers`, `ContainerHelpers` and the like state once what the record updates
return.

**MemoryForgotten** is inductive relative to `TypeInv`: a cancellation is
remembered only for an *active* action, and every exit from the pipeline passes through `cleanup`.

**SingleProcessor** follows from `HandoverInv`, which says where an action's job is:

* `WorkerHoldsJob`: a busy consumer holds the lock of its job in its own queue, so two
  busy consumers would need one job in two queues;
* `QueuedByDispatch`, `JobHasQueue`: there is no job before the dispatcher has added it;
* `MovedFromDead`, `OneMover`: at most one health check has taken an action's job out of
  a queue, and while it has, there is no job. This is why adding it again cannot make a
  second one.

Bull's refusal to remove a locked job is the fact the proof rests on: the mutant
`LockedNever` breaks both the run and the proof.

**AtMostOneStart** is by `StartInv`: nothing was started for a row that is PENDING or not dispatched
(`PendingNotStarted`); a worker that read PENDING, or has passed the check, works on an
action nobody has started (`MayStartOnce`, `StartingOnce`). No step writes PENDING over
another state (`PendingKept`), which has to be shown for every stale `save`: the hooks' and
`stopAction`'s entities get a final state. That nobody else starts the action between the read and the
check is `OneProcessor`.

**KeyAttended** is inductive once no key names a runner still to come (`KeysOfRunners`): a
new incarnation of the consumer has made none.

**CancelledNeverRuns** needs that a consumer which knows its container has put it into
`activeContainers` (`AttachedKnown`), so that a message delivered from then on finds it; one
delivered before is found by the check after the start.

**StrayIsReclaimable** follows from `LetGoIsOver`: a live runner that has let go of a container has
a row that says neither STARTING nor PROCESSING. This is stronger than the property and
has to be shown against every writer of the row: saves of stale entities put a final state, and
nobody else starts the action (`StartInv`, `HandoverInv`).

**HealthyRunSpared** is a property of steps; `HealthInv` says what is known of the snapshots they act on:

* the pipeline is past PENDING where it says so (`EndsOver`), and nobody starts an action that has
  begun: so an ended run stays ended while its hook waits (`HookOver`). A hook of a job that was given
  up is the exception, and `Rounds` counts the crashes that takes;
* what the janitor listed was started, and what it is about to kill or to report has lost its row or is
  dead (`JanitorKnows`, with `StartInv`); a runner it takes for inactive is gone (`InactiveDead`);
* a row names the worker that runs the action unless a cancellation put an older one back, and then
  no cancellation is about to undo that (`Named`); so what crash detection condemns on
  another worker is a run whose row names the wrong one (`DetectSeen`).

**NoOrphanedAction** is not inductive: its `Responsible` counts the consumer at work, who may die.
`OrphanInv` leaves the consumer out: an unfinished action that is not lost has a dispatch, a job, a
health check moving the job, or a hook that will fail the row (`AllCared`), and this survives a crash
because Bull keeps the job of a consumer that dies. `CareEnds` lists the steps by which the last of these lets
go of an action (`Dropped`); after each, the row is final or the action is in `Lost` (`DroppedIsOver`). A job
is removed on success, so a run past its verdict must have a final row (`VerdictWritten`).

**SettledArtifacts** follows the word UPLOADING through the five places a row is kept: the database, and the
entities that a stop request, a hook, and a health check have read. `UploadInv`:

* before its run has come to the upload, nothing that may be saved for an action shows one (`NoEarlyTrace`);
* a row that says so and is not CANCELLED, FAILED or UNPROCESSABLE belongs to a worker who uploads, or somebody
  has crashed (`UploadInHand`);
* what a run leaves behind when it resolves, and what its `completed` hook has read and will save, shows no
  upload unless the run was broken off (`EndsNeat`); that hook finds nobody executing the action
  (`CompletedOver`, by `HookOver`), so that it saves no upload of another run;
* an action nobody cares for has such a row (`LeftNeat`): shown for the steps of `CareEnds` one by one, and for
  every stale save that may come after.

`Records` adds that a health check moves jobs only after a crash, and that a cancellation in progress was
requested.

**ReopenedByItsRun** says what is left of the refuted sentence on final states (section 5): a final row may
get another final state, but is shown as running again only by the run that found it PENDING, over CANCELLED
or over FAILED, and never over DONE or UNPROCESSABLE. `ReopenInv`: while a worker that found its
action PENDING is about to start it, nobody but a cancellation or the hook of a job that was given up
makes the row final (`StartStates`), and crash detection has not listed it (`DetectStarted`). The
other writers are kept out by `StartInv` (nothing was started, so the janitor has no container of it) and
`HookOver`. The property is stated beside its proof in `ActionSafetyProofs`, and no run checks it. Both ways
do happen: TLC, asked to refute the second with two workers and two crashes, finds it in 22 steps.

**ImplementsCustody** maps each step to one of `JobCustody` or to a stutter. A step that
moves a job is a `Move` because that job is not active: by `QueuedByDispatch` for a
dispatch, by `MovedFromDead` for a health check, by Bull's lock for a cancellation or a hook. A
start is a `Start` by `StartingOnce`. Two more facts are needed (`CustodyInv`): an active job has somebody
working on it, and an idle worker has no action. Without the first, a crash of an idle worker could
free a job that `JobCustody` believes held.

**Files.** `FileInv` adds to the types what each `pc` promises about the locals: a request past its
first await works on files that have a row, a slot past `load` has a job and a file, the
crons' lists name rows (`StoreInv`, `RequestsOK`, `IngestionOK`). `DeletedForGood` follows because no
helper that saves touches presence unless the row is gone, and the only other statement that meets a
soft-deleted row is the physical removal by the queue's `delete`. The other two are proved step by step: only
`CancelFiles`, a failed reservation and stale saves write CANCELED, and each either re-reads the
state or is recorded in `stale`.

`NobodyOrphansJobs` is by `CustodyInv`: an idle slot has no job, and a slot knows a child only while it queues
it. Every step either keeps the custodian of a job, hands it over, or moves the job's row
past `COMPLETED`; a save of an entity that was read before notes what it takes back.

`OkFilesAreBacked` and `CompletionSettles` share `GroundInv`, which follows a file from the bucket to its verdict:
a slot that works on a file has fetched it, so that the object is there (`GroundedSlot`); the converted file
is uploaded before the bag is promoted, and a failed conversion takes back what was declared
(`GroundedMcap`), which needs that no two slots share a converted file (`OneMcap`); a confirmation has seen
the object (`GroundedRequest`). `Safe` collects what may take the object or the ground away: the
deletions between object and row (`Deleting`), and what is noted in `purged` and `stale`. `UnhashedInv` keeps the repair cron's entity from bringing back a hash.

**Access.** `AccessInv` has two parts beyond types. `Owned` is the property; `Raising` says that a
pending grant writes more than the row it read, so a save that lowers DELETE must have met a row
that was raised since, which is noted. A replacement of the access list keeps DELETE because it
is checked before the transaction, and its transaction deletes what it saw and upserts its own.

`GroupsInv` adds who is in which group, and what requests and the server know of it. `MembersInv`: a
soft-deleted membership has expired unless a save raced with the purge; a custom group keeps an
editor, one whose membership was purged, or is in `raced`. `KnowledgeInv`: a request that removes or demotes
somebody has counted another editor; what it will write is among the rights it found (`had`), or was
the group's when it compared (`kept`), or it came in by an expired membership (`lapsed`). Without
`kept` the property is false, as two affiliations show (section 5). `BootInv`: no request runs while the server starts; a membership that the configuration
wants is listed, expired, or still to be added, and one it does not want is still to be removed
(`BootMember`); a group that is not configured is on its way out with all its members (`BootGroups`).

**Catalog.** `HierarchyInv` is inductive relative to the types: `Awaited` says that what a request
has found when it began (a live parent, no children) still holds, or that a request of the other kind
was in progress with it; `ClashNoted` says that two requests in progress on the same thing
are in `clashed`. A step that puts something into a parent thus meets a deletion under
way only where the property allows it.

`KeptInv` carries `RequiredKept`: what a request is about to replace has been compared with what the project
required when it was read, and it required no more since, or a request that changed this is noted in
`clashed` (`Compared`). It needs that a mission which a request inserts was not there before (`Unborn`), and that the
project of a mission exists, or did (`Housed`).

**Triggers.** `FiredInv`: requests in progress have numbers of their own, which no run bears yet (`Numbered`,
`Called`); the timestamp of a check lies in the minute of its id (`JobsTimed`); a job has no trigger
left to look at that it has started in this processing (`RunsSpent`, by `Spent`): what it still has to do
tells which runs it has started. A date is due in one minute only (`DueInItsMinute`), so only one job fires it.

`DatesInv` carries `DueDatesFire`: in a behaviour of requests that leave triggers alone (`Calm`), what a
trigger refers to is there (`Reachable`), and of each date before a check in its minute, the trigger
is still to be looked at, as it was read, or has been started for this date, by this check or by
another one of the minute (`Checked`). A crash makes the job begin again with everything to do.

**Clients.** What a step of either client does to the server is one of six events: `Withdraw` (nothing, or a
cancellation), `Reserve`, `ReserveInVain`, `StoreFile`, `GiveBack`, `Confirm`. The invariants are shown
for these and for the steps of the server, and one lemma per action says which event it is.

* `UploadInv` carries `UploadedIsStored`. `Owned`: whoever holds credentials for a name owns it, and
  while it does the row is UPLOADING, unless a late call changed it. Hence nobody else can reserve the name
  in between, and what is `Written` by the holder is what is there when it is confirmed, and
  stays (`Landed`). `Unconfirmed`: a file that is not there has no ingestion
  job, so that its confirmation is not taken for a repeated one.
* `BlameInv` carries `SkippedIsUploaded`: a reserved name has a holder at work, or somebody to blame
  (`Leaves`). A cancellation that is answered gives the name back before the next attempt asks for it.
* For the browser both need that each name of a batch goes to exactly one file, whichever it is:
  `KeyOnce` and `EveryNameAnswered`, by counting first occurrences (`HolderOf`).
* `DownloadIsWhole` needs, where a hash tells, only that the check compares it; where none does, that
  nobody can write over the file while it is read. `Imported` says so: a row that is OK without a
  hash cannot be reserved, and stays with its object. `Resumable` says that what a download appends to is a
  beginning of that same content.
* `LocalFilesKept` is by `Takeable`: a download past the decision to take the file has found no whole
  file of the user, or may overwrite it.

**Only model-checked**: the liveness properties (`EventuallyFinal`, `ContainersReclaimed`, `JobsSettle`,
`UploadsSettle`): liveness under fairness is out of the prover's reach, as are ENABLED and inductions over
data. Every safety and every action property of the passing runs is proved.

## 5. What the checks found

Each of these is a violation run; `PROJECT.json` quotes the sentence and the line.

1. `TerminalIsFinal`. The janitor's conditional update matches every state but PROCESSING and STARTING.
   A DONE action whose container is not yet removed is marked FAILED. `ReopenedByItsRun` (section 4) bounds
   the damage.
2. `LapsedGivesNothing`. The rights that are checked before a grant ignore expiration dates: until
   the cron purges the row, an expired membership can be used to give rights away.

Observed while modelling, and allowed for by the properties. Actions:

* The key of a run is disposed of by the process that created it; after a crash it stays valid
  although the action is final.
* With exit code 75 the runner writes the maximum of WARNING and a severity it read before; an
  ERROR diagnostic recorded in between is lowered.
* A dispatch that found no worker saves UNPROCESSABLE and retries; the retry queues a job that
  the runner rejects.
* Crash detection compares actions with containers that were listed earlier: a run that
  started in between is condemned.
* `stopAction` reads a row that names worker v, the job is moved to w, and the save puts v back. Once w has
  written PROCESSING over CANCELLED, the crash detection of v finds the action without a container and fails
  the run on w. If v has no queue any more no cancellation is published either, and w goes on. This came up
  in the proof of `HealthyRunSpared`: it takes two workers, two actions and a cancellation, which no run has
  at once.
* A job stalls twice and its failed hook is pending; a slow health check of the dead worker queues it
  anew; the hook then fails the new, healthy run. If that has not started yet, it writes STARTING
  over the FAILED.
* A stale `stopAction` save turns a DONE run into CANCELLED with its old artifact state: the row may say
  UPLOADING for ever. So does that of a consumer that crashes in its upload when a cancellation then removes its
  job, and this row may even say DONE. The second case came up in the proof of `SettledArtifacts`, which
  excepts both.
* A run that was cancelled between the read of its row and its first update writes STARTING over CANCELLED; if
  its consumer then crashes, the cancellation removes the job and the row stays unfinished.
* A health check whose `queue.add` fails has already removed the job; `addActionQueue`
  swallows the error and nobody looks at its result.
* `handleUnexpectedError` removes the job before it saves the row.
* After a time-out the janitor records USER; the runner, whose `inspect` fails on the
  removed container, may overwrite it with SYSTEM in its catch block.
* The removal of an ended container is not awaited before it is inspected, so a run that exited
  with 0 can end as FAILED.
* An UNPROCESSABLE row gets failure origin SYSTEM, although `action.entity.ts` says that
  the column is null unless the state is FAILED.

Files:

* An upload that timed out (ERROR), was confirmed, queued, cancelled and reserved again may be declared
  OK, with an empty hash, by the job of its first life; or that job completes and leaves it
  UPLOADING. Confirming a reused upload whose job has COMPLETED changes nothing, so it
  times out.
* A YAML upload that timed out and was confirmed stays ERROR although its job is COMPLETED.
* A cancelled bag or MCAP whose job still runs is declared OK by its extraction.
* The cleanup purges a cancelled upload while its queued job ingests it.
* Two reservations may both reuse one CANCELED row.
* Deleting an ingestion job deletes its file in three awaits: look-up, object, row
  (`backend/src/services/queue.service.ts`, lines 381-387). A stop before the last leaves a file without
  its object, listed as OK if it was. A failing removal of the object is only logged, and the row goes
  all the same. The row is removed and not soft-deleted, even if somebody soft-deleted it meanwhile.
  The MCAP of a bag is looked up by the uuid of the bag, whose row is gone by then: it stays.
* Deleting a Drive job removes the row and then fails: its identifier is not a uuid.
  `importFromDrive` swallows a failing `queue.add`. `deleteFile` leaves the ingestion job.

Access:

* `setExpireDate` saves a membership that the cron purged meanwhile: it stays soft-deleted, its
  rights count again, and a restart's reconciliation does not see it.
* A replacement of the access list compares only the groups whose rights it changes, with what it read
  before. Rights of the others that somebody revokes in between are given back by one who may not
  give them.
* A purged member cannot be added again: the unique constraint counts soft-deleted rows.
* `addUserToProject` always fails (section 2).

Catalog and triggers:

* Metadata that a project requires is never demanded when a mission is created: the filter
  (`backend/src/services/mission.service.ts`, line 133) looks for values that are undefined, empty and null
  at once.
* Two annotations at the same time leave two values of one type.
* `addMetadataType` and `removeMetadataType` always throw: they use a relation they have not loaded.
* `TriggerEvent.DELETE` is never emitted. An UPLOAD event processed after a move fires the
  triggers of the target mission. A confirmation repeated before its processing produces a second UPLOAD
  event.
* A cron check whose timestamp is exactly the date misses it.
* Dispatch ignores `isArchived`; a version created after an archive leaves archived and active
  versions of one name. The deletion of a template that triggers use fails with a foreign
  key error.
* A trigger deleted while it is edited, and a metadata row deleted while it is updated, are
  inserted again.
* A live mission of a soft-deleted project makes the guards throw.
* A mission that is soft-deleted after a check or a webhook has read its trigger gets a run all the
  same if the creator is an administrator or has rights on the mission itself: neither way looks at
  the mission again (`BC/modules/access-control/access-control.service.ts`, lines 25-40).

Clients:

* If the answer to a request for credentials is lost, the call is made again, meets its own reservation
  (409), and the file is reported as "already uploaded" although nothing was. The same is said
  while somebody else is still uploading the name, and of a name whose upload ended as ERROR.
* A user with CREATE rights can upload but not cancel; the cancellation is answered as if it had
  worked. The second attempt of such an upload meets its own reservation and is "already uploaded".
* No failure of a confirmation cancels the upload: half a day later it becomes ERROR, and its name stays
  taken.
* A late cancellation cancels a later attempt at the same row; two attempts can hold credentials for
  one uuid, and the later object wins.
* The server stores the md5 that the confirmation claims and compares nothing with the object.
* The browser pairs answers with files by position. With a repeated name the contents of one file are
  stored under the name of another, and the last files are ignored. Its check whether an upload was
  cancelled tests an object that is always truthy.
* A download without `--overwrite` of a file whose hash the server does not know deletes a local file of
  the same size: `_url_download` throws because the file is complete, and the handler removes it as
  a partial download.
* A download that was killed is not resumed by the next command: the sizes differ, so that it counts
  as a file of the user and is skipped.

## 6. What is not modelled

* `writeAuditLog` (`backend/src/services/action.service.ts`), one more reader and writer of a whole
  action while it runs, of the kind of `StopSave`; the cap on diagnostics
  (`action-diagnostic.service.ts`), a counter that decides only whether a diagnostic is kept.
* Maintenance of files: `recalculateHashes`, `extractHashFromS3`, repair of topics, backfills and
  re-extraction. They write a hash or topics of files that are at rest.
* The rest of the command line client: listing, verification, creation of missions, the text it prints,
  the mapping of names before an upload. Its check for two local files of one name
  (`get_filename_map`) never fires, since the files are a dictionary by name before it looks.
* The rest of the browser: pages, tables, previews, the parallel parts of an upload, which are visible only
  when it is complete.
* Statistics, log ingestion, error hints, the resource monitor: they decide nothing the model reads.
* Renaming, categories, topics, tags, users: single transactions without a protocol.
* Authentication, query building, serialisation, validation, routing: libraries and stateless
  plumbing. Migrations, seeds and examples have no run-time behaviour.
* The artifact uploader's script: the runner sees only whether it succeeded.

## 7. Plan

In this order, the most important behaviour first. Done: 1 to 10.

1. `ActionStates`, `ActionStore`: vocabulary and shared state.
2. `ActionDispatcher`, `ActionRunner`, `ContainerJanitor`, `ActionSystem`: the processes
   and their composition.
3. `ActionSystemProofs`, `ActionSafetyProofs`: type correctness, one processor, one start.
4. `JobCustody`, `ActionRefinementProofs`: the abstract promise about an action's job,
   implemented by `ActionSystem`, checked and proved.
5. `FileStore`, `FileRequests`, `FileIngestion`, `FileCleanup`, `FileSystem`, with proofs.
6. `AccessStore`, `AccessRequests`, `AffiliationSync`, `AccessSystem`, with proofs.
7. `CatalogStore`, `CatalogRequests`, `TriggerRequests`, `TriggerQueue`, `CatalogSystem`, with proofs.
8. Liveness: of runs, cancellations, ingestion jobs and uploads.
9. `TransferServer`, `CliUploads`, `WebUploads`, `CliDownloads`, `TransferSystem`, with proofs.
10. Proofs of the safety properties the runs check.
11. The audit log as one more writer of the action's row.

## Running

    tlc -workers 2 -config ActionLifecycle.cfg ActionSystem
    tlc -workers 2 -config FileUploads.cfg MCFileSystem
    tlc -workers 2 -config Transfers.cfg MCTransferSystem
    tlapm ActionRefinementProofs.tla
