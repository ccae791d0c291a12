# RIP-Server: specification, model checking and proofs

RIP-Server (Rust) turns submitted documents into printer rasters and, when asked, sends them to printers.
A REST server, an IPP front end, an MCP service and a handful of worker processes share **one SQLite
database and one data directory**; nothing else connects them.  What is hard about it is therefore not a
protocol but the table rows: every process reads a row, works for seconds or minutes (rendering, printer
traffic), and writes the row back, while others do the same, crash, are suspended, or are started twice.

This directory holds TLA+ modules translated from the code (`crates/`, `services/` of the repository),
TLC configurations that check them on small instances, and TLAPS proofs for every value of the constants.
Paths below are relative to the repository.

## 1. Inventory

| Component | State it keeps | Operations | Interacts with |
|---|---|---|---|
| Job state machine (`rip-core`) | – | `JobState::transition`, `terminal` | everything that moves a job |
| Job queue (`rip-storage/lib.rs`, `progress.rs`, `source_validation.rs`) | tables `jobs`, `worker_leases`, `print_receipts`, `print_result_receipts`, `source_validations`, `job_event_details`, `job_artifacts` | insert, transition (compare-and-set on the revision), `claim_queued`, `renew_lease`, `clear_lease`, `recover_expired_leases`, `complete_with_artifacts`, delete | called by all processes below |
| Worker (`jrip-worker`) | one job, its raster directory | claim, heartbeat, render, re-read, verify, evidence, rename, SPOOLING, COMPLETED or FAILED | database, file system |
| Dispatcher (`jrip-dispatcher`, `dispatch.rs`) | one child process | recover leases, pick next, spawn, wait, reconcile the exit | database, workers |
| Front ends (`jrip-server`, `jrip-ipp`) | requests in flight | submit, hold, release, cancel, delete | database |
| Order of the queue (`next_queued_at`) | – | effective priority with aging, FIFO | dispatcher |
| Printer delivery (`rip-storage/delivery.rs`, `delivery_receipt.rs`, `jrip-server/delivery.rs`, `jrip-delivery-worker`) | tables `deliveries`, `delivery_result_receipts` | enqueue, claim, finish, cancel, poll, reconcile, recover | printers over IPP |
| Pipelines (`rip-storage/pipeline.rs`, `jrip-server/pipeline.rs`, `jrip-pipeline-worker`) | tables `print_pipelines`, `pipeline_events`; the file lock `pipeline-worker.lock` | create, pass of a worker (`tick`, `advance`), resume, cancel | job queue, color attempts, delivery, approvals |
| Admission (`preflight.rs`, `pipeline_preflight.rs`, `retry.rs`, `print.rs`, `jrip-ipp`, `rip-jobs`) | tables `print_preflights`, `print_commits`, `ipp_jobs`; the directories `jobs/<id>` and their locks | issue and expire a preflight, commit, retry, upload, submit with a pipeline, sweep | job queue, pipelines, printer capabilities |
| Color attempts (`rip-storage/color.rs`, `jrip-server/color.rs`, `color/sandbox.rs`, `jrip-color-worker`) | tables `color_attempts`, `color_cleanup`; staging directories, containers, published outputs; `color-worker.lock` | create, claim, convert page by page, publish, cancel, recover, clean up | job artifacts, containers, retention |
| Retention (`rip-storage/retention.rs`, `maintenance.rs`, `jrip-maintenance`) | holds, tombstones, `maintenance.lock` | extend a hold, claim a purge, trash, remove, finish; sweep stages and uploads | job directories, color worker, deliveries, pipelines |
| Inspection (`rip-storage/inspection.rs`, `jrip-server/inspection.rs`, `jrip-inspection-worker`) | tables `inspection_requests`, `document_inspections`; `inspection-queue`, containers | submit, cancel, run, clean up, reclaim orphans | file system, containers |
| Snapshots and budgets (`artifacts.rs`, `budget.rs`, `budget_client.rs`) | permits, slot locks, `snapshot_reservations`, snapshot files | reserve, copy, serve, release, sweep, reconcile | a coordinator over HTTP |
| Operation approvals (`operation_approvals.rs`, `authorization.rs`) | table `operation_approvals`, credentials | review, issue, consume, revoke | retention, job deletion, key revocation |
| Audit evidence (`audit*.rs`, `kms.rs`, `jrip-audit`) | chained records, archives, acknowledgements of copies, removal records | begin and finish a record, archive, copy, prune, reconcile | every API call; vault directory, object store, key service |
| Printer observation (`printer_observation.rs`, `printer_observer.rs`) | schedule rows with leases, numbered queries, latest report, bounded history | claim, query, record, back off; the loop over all printers | printers, console, MCP |
| Events (`unified.rs`, `event_stream.rs`) | the numbered log, cursors of clients | append, page, stream, reconnect | everything that writes an event |
| MCP service (`jrip-mcp`) | sessions, subscriptions with cursors, streams, token buckets | initialize, subscribe, listen, poll, hint, terminate; admit | REST server |
| Page selection (`rip-core/pages.rs`, `page_stream.rs`) | ranges, source pages of artifacts | check, clip, map, deliver | interpreter, worker, delivery |
| Color policies | immutable rows addressed by digest | – | color attempts |
| Raster, color, interpreter, ACX, digest, IPP codec | – | pure data transformations | workers |

Behaviours that are hard to test and what they threaten:

* **stale copies** – a whole row is written back from an old read: a late worker, a client that cancels, an
  administrator who reconciles.  Correct if an outcome is never overwritten and no copy that could still be
  written differs from the row.
* **two of everything** – a dispatcher's child and a manual worker, two delivery workers, two requests.
  Correct if one works on a job, and a document is sent, and cancelled, once.
* **crashes and leases** – a process dies, or is only slow, between any two steps.  Correct if no row is
  stranded, none ends twice, and every claimed row ends.
* **partial success** – evidence, rename, state and receipt are several steps.  Correct if a COMPLETED job is
  published and every receipt tells its row's outcome.
* **an unreliable printer** – answers are lost or late, jobs are forgotten.  Correct if the row never says of
  the printer what is not so.
* **order and limits** – aging, ties, a clock that goes back, lists cut at a limit, rounding.  Correct if nothing
  waits for ever, and no caller gets more than its rate.
* **looked at, then used** – an approval, a key, a lock, a registration is looked at in one step and relied on in
  a later one.  Correct if what was looked at still holds, or the later step checks it again.
* **files beside rows** – directories, containers and copies are removed by sweeps that look at rows another
  process is changing.  Correct if nothing in use goes, and everything else goes in the end.
* **messages of other services** – a coordinator's answer, an object store's, a stream of hints is late, repeated or
  lost.  Correct if the books on both sides still agree.

`PROJECT.json` lists every hazard at its line with the properties that watch it, and every component with its
status.

## 2. Modules

| Module | What it is |
|---|---|
| `JobStates` | the states of a job and the moves `JobState::transition` allows |
| `JobQueue` | the queue with all its processes: front-end requests, dispatcher, its children, manual workers, leases, files |
| `JobLifecycle` | abstract: what a submitter is promised (waits, runs at most once, ends at most once, receipt with the outcome) |
| `QueueAging` | the order in which queued jobs are served |
| `Delivery` | the deliveries table, delivery workers, cancel, reconciliation, network and printer |
| `DeliveryPromise` | abstract: handed over at most once, begun at most once, settled once with a verdict that fits |
| `Pipeline` | follow-on pipelines: the row, its workers and requests, the file lock, and what they see of job, color attempt, delivery and approvals |
| `PipelinePromise` | abstract: delivered at most once and only while open, ended once, with a verdict that fits the delivery |
| `Admission` | how preflights, commits, retries and uploads become jobs, one per request |
| `ColorAttempt` | the color attempts, their worker, containers, stages and outputs |
| `ColorPromise` | abstract: an attempt begins and ends once, publishes at most once and before it is COMPLETED, and is read until its family is purged |
| `Retention` | extends `ColorAttempt`: holds, dependents and the process that purges and sweeps |
| `Inspection` | uploads, the worker and the reclaim of document inspections |
| `ChildStates` | the transitions of color attempts and deliveries, for `Pipeline` and for the modules of both |
| `Snapshots` | verified copies, their slots, permits and reservations |
| `OperationApprovals` | two-person approvals of changes |
| `AuditEvidence` | the audit log, its archives, and the copies in two vaults |
| `PrinterObservation`, `ObserverLoop` | what is known of one printer; the walk round all printers |
| `EventFeeds` | the numbered log and the streams that follow it |
| `McpSessions`, `RateLimit` | sessions and subscriptions of the MCP endpoint; the request bucket |
| `PageSelection` | which pages are rendered and delivered |
| `MCJobQueue`, `MCDelivery`, `MCPipeline` | instances for TLC (constants, symmetry) |
| `MCServices`, `MCSchedules`, `MCQueueServices` | sums of modules that share no state, for TLC |
| `JobQueueProofs`, `DeliveryProofs`, `PipelineProofs`, `AuditEvidenceProofs` | theorems about one module and their proofs |
| `RetentionProofs` | proofs about `ColorAttempt`, `Retention` and `Inspection`: what is left behind |
| `LimitsProofs` | proofs about `QueueAging`, `RateLimit` and `Snapshots`: what is shared out |
| `OrderProofs` | proofs about `PrinterObservation`, `EventFeeds` and `PageSelection`: what comes in order |
| `FrontEndProofs` | proofs about `OperationApprovals`, `McpSessions` and `Admission`: what clients ask for |

Every definition that is marked `Variant of X` is X with a plausible mistake.  No specification uses it; the property
named with it in `PROJECT.json` ("mutants") is violated once it stands in the place of X, which shows what each
property would catch.

### JobQueue

An action is one SQLite transaction or one file-system step of one process.  What a process keeps from one
action to the next is its last read of the row, `seen[a]`, which may be stale; `RevisionMatches` is the
`WHERE id=? AND revision=?` of `transition_recorded`, and `Move` writes the row **from the snapshot**, as the
code does.  The worker walks through `pc`: `starting` (spawned) → `loaded` (row read) → `rendering` (claimed,
lease written) → `verifying` (row re-read, cancel seen) → `validated` → `analysed` → `published` (raster
renamed) → `spooling` → gone; failure branches are `spoolFailed`, `renderFailed`, `renderFailing`, and
`clearing` drops the lease after the last write.  `beat` are the runs whose heartbeat task still renews.  The dispatcher
walks `recover` → `pick` → `wait` → `check`/`fail`/`clear`.  Recovery is one transaction over several jobs, as
in `recover_expired_leases`, and ends the processed jobs among those whose lease has run out (`Lost`).
Time is abstract: a lease may run out at any moment, also under a live worker (a suspended host), so nothing
that is checked rests on timing.  A uuid is fresh (`Fresh`): a run id nobody remembers.

Data left out: document bytes, page geometry, digests, event wording, and the tables only read back as
reports.  Progress is a count of pages against `Pages[j]`.

### QueueAging

`Score` is the SQL expression of `next_queued_at`; `earlier` stands for comparing `(created_at, id)`.  Ages
above `MaxAge` are not told apart, which is exact: the expression cuts them at `PriorityMax * Aging`, and
`MaxAge` leaves room for every further step back of the clock.

### Delivery

Every storage function of a delivery reads the row and compares-and-sets on `state` and `revision`
(`update_delivery`), so read and write are one action (`Update`, guarded by `Matches` where the caller brings
a row it read before).  What may be stale is what a process holds across network traffic: a worker's list
`todo[w]` (up to 100 rows of `accepted_deliveries`), its `answer[w]`, and an administrator's `inquiry[a]`.  One
`tick` is: expired sends → UNKNOWN, at most one claim and Print-Job, then every listed ACCEPTED row is
cancelled if wanted and polled.  `wire[d]` is where the last Print-Job is: it may arrive after its sender gave
up.  `run` records which worker claimed (a fresh uuid in the code; a row is claimed at most once).

The printer is external: it accepts or refuses, moves a job along, ends it for reasons of its own, and may
forget it.  It gives ids that are never used twice; the code polls by id alone and so relies on it.  The
source job of a delivery is COMPLETED (`enqueue_contract_delivery` checks it).  A missing or changed file is
`PrepareFails`, a missing registration `Unregistered`.  Counters and reasons of a device sample are one value
per device state.  A crash between the durable cancel claim and Cancel-Job means it is never sent; the
documentation says so, and no property claims otherwise.

### Pipeline

A pipeline's id is also the id of its color attempt and of its delivery, which is how a worker that died after
creating a child finds it again.  Workers and cancel requests hold the file lock for a whole pass or request;
a resume request, the job's processes, the color worker, the delivery workers and the administrator do not.
A pass walks `idle` → `passing` (ids listed) → `reading` (row read) → `checking` (no delivery seen: job,
printer and color attempt looked at) → `preparing` (approval checked, document being converted) → `writing`
(what `advance` returned) → `passing`.  Each step between these reads or writes the database once; the steps
that end `advance` are the actions over `Returns`, one for each way out, with the row's next state and reason as
`tick` maps them: 403 `approval_required` → WAITING_APPROVAL, other 403 and 500 → BLOCKED, anything else →
FAILED.  `Enqueue` is the transaction of `enqueue_contract_delivery`, which checks job, color attempt and
approval a second time.  `Write` is `update_pipeline` under the revision read at `reading`.  A cancel request walks
`closing` (row and delivery looked at) → `writing` (color attempt closed) → `answered`.

Abstractions: a pipeline has a source job of its own; job, color attempt and delivery are the one state their row
shows (`ColorMoves`, `DeliveryMoves` in `ChildStates`: the moves `update_color` and the delivery transitions allow; `JobQueue`,
`ColorAttempt` and `Delivery` model how they come about, and theorems say that no other moves do); nobody creates a child under a pipeline's id by hand; a client names a
revision it has read, so the look at the row and the compare-and-set of `resume` are one step; each cancel
request is made once; the reasons of a conversion that cannot succeed are one (`invalid`); tickets, ids and
events carry no further state.  An approval is granted for one pipeline and lapses by its clock or by
revocation, at any moment.

### Admission

A job enters by five doors: the commit of a settings preflight, of a pipeline preflight, a retry under a request id
of the client, a pipeline submitted with its document, and uploads without a request id (REST, IPP).  Each takes
the same path `upload[u].pc`: directory and lock, document staged and sealed, what the door checks again
(`ValidateAgain`, `CheckAgain`), and one transaction (`Insert`) whose guard `MayInsert` is what
`insert_with_pipeline` compares; then the answer, or, for the loser, the answer that names the winner's job.
`SweepUpload` is the maintenance sweep of directories left behind, `Orphaned` its test.  Clients repeat themselves
and go away (`Abandon`), preflights expire and are pruned, accepted jobs are deleted.  What makes a document, an
intent or a capability invalid is one nondeterministic refusal.

### ColorAttempt and Retention

`ColorAttempt` has the row (`MayUpdate`, `Updated`: the checked moves of `update_color`), and the one process that
holds `color-worker.lock`: it cleans what `color_cleanup` lists, then the expired rows, claims the next, and walks
through its pages.  `Fault` is a container that cannot be removed, a failed write or a crash, `MaxFaults` of them.
`Retention` adds who else touches the family of a job: uploads, deletion of rows, holds, deliveries and
pipelines, and the process under `maintenance.lock`.  `Candidate` is the SQL of `retention_candidates`, `Guard` the
clause of `retention::guard`, asked when the candidates are listed and again when each is claimed; a claimed purge goes on through trash, spool and
record, after a crash as well.  `Abandoned` is the sweep of staging directories.  Time is a count of days.  For `ColorPromise`, that pipelines and
readers rely on, pages are published while their family's directory is not in the trash (`Readable`), and a family is purged
by the rename into it (`Purged`).

### Inspection

A submission writes its directory under a lock of its own, publishes it by a rename, registers it and frees the
lock, each a step; the worker (`inspector`) cleans up what was interrupted, takes the oldest row, runs a container,
settles row and report together, removes container and source, and reclaims what no row names.  The rows a pass read are a
set, each with its place in the table, and the one of the least place is taken next.

### Snapshots

A reader passes three gates: permits of its process (taken together), shared slots, locked one after the other,
and a reservation of the coordinator.  Requests and answers are a set of messages that may be lost or arrive late;
`reserve` uses fresh ids, so a lost answer leaves a reservation nobody uses until it is reconciled.  The file is dropped
before the permits and slots, except where the answer has no body (a refused range): then they are free while the
file is still there, and only the coordinator's reservation pays for it.  Files outlive
their readers when a process dies; the sweep removes those whose lock is free.

### OperationApprovals

The guard reads the state the operation would change and binds it with the request (`Review`), consumes an approval of
exactly that binding (`Consume`, one UPDATE), and the handler runs later in a transaction of its own (`Execute`).
What each handler compares itself is kept apart (`ExtendRetention`, `DeleteTheJob`, `RevokeReceiptKey`), because it is
the second half of the argument.

### AuditEvidence

Records are opened before a call and finished after it; an archive takes the longest finished run after the last one
(`Prefix`).  With the key service the signature takes a step of its own, so a revocation may come in between
(`StillTrusted` is the second look).  `jrip-audit` commands are processes that may die at any step; requests to the
object store stay on the wire after their sender is gone.  The object store and the vault directory are external: they
compare ETags, may keep versions, and others may write to them (`MaxForeign`).  Hash chains, signatures and
encodings are not there: a record is its position and whether it is finished.

### PrinterObservation and ObserverLoop

`issued` numbers each query when it begins, `applied` is the last one recorded; `Late` is the comparison that refuses an
older one.  `schedule` carries lease, due time and failures; times count down.  The history keeps `Window` events,
`pruned` tells readers what is gone, `contents` are the bodies still stored.  `ObserverLoop` is `run_until`: a cursor,
what was scanned since the last tick, and at most `Concurrency` in flight.

### EventFeeds, McpSessions, RateLimit

`feed` is the log; a number is an event of the follower's subject or of another.  A stream reads a page after its
cursor, sends it, and may end or break at any point; the client comes back with the last id it received.
`McpSessions` has one session with its subscriptions and at most one stream: a request waits for the session's lock
(`Handles`), a poll reads a page per resource (`PagesAfter`), moves its cursor and hints at what changed, was pruned or
is back in the configuration, and hints not yet sent are lost with the stream;
`Rewound` is what a new stream does about that.  `RateLimit` counts credit in ticks times requests per minute, so
that only the answer to a refused caller divides (`DivCeil`).

### PageSelection

Selections are sequences of ranges, checked and joined as the code does (`WellFormed`, `Canonical`), and `Indices`,
`SourcePages`, `DeliveryIndices` are its functions.  The reference is a set: `Named(ranges)`.  The interpreter may announce
any total and send any frame.  That the last position IPP may name (2^31 - 1) is beyond the last page of a document (100) is
part of `PageAssumption`: "all pages" and "every page there can be" are not told apart otherwise.

## 3. Runs

| Run | Instance | Shows |
|---|---|---|
| `queue_race` | 1 job, 3 runs (1 manual), 2 requests, 1 crash; beside it `AuditEvidence` and `Snapshots`, see below | one worker per job, COMPLETED means published, no stranded job, truthful WORKER_EXIT; closed archives, removals that leave a copy; no snapshot without its reservation |
| `queue_liveness` | 1 job, 2 runs, 1 request, 2 crashes, fairness | queued jobs are served, leases go away, the full `JobLifecycle` with its fairness (a claimed job ends) |
| `queue_cancel` | 1 job, 1 run, 1 request | **violation**: a comment's claim on cancelled output |
| `delivery_race` | 1 delivery, 2 workers, 2 administrators, a stranger's job, 1 crash | cancelled once and on request, true outcomes, receipts, `DeliveryPromise` (handed over once, settled once) |
| `delivery_liveness` | 1 delivery, 1 worker, 1 administrator, 2 failures, 2 crashes, fairness | sends end, cancels are tried, ended jobs settle |
| `delivery_starved` | 2 deliveries, list of 1, fairness | **violation**: an accepted cancellation that is never tried |
| `pipeline_race` | 1 colored pipeline, 2 workers, 2 cancel requests, 2 approvals, 1 failing read, 1 crash | a cancel leaves nothing running, the source is kept, deliveries only under a valid approval, `PipelinePromise` |
| `pipeline_settles` | 2 pipelines (one colored), 1 worker, 1 cancel request that contends for the lock, fairness | a ready pipeline gets its delivery and follows it to its end |
| `pipeline_lapsed` | 1 pipeline, 1 worker, 1 approval | **violation**: an approval that lapses late fails the pipeline |
| `services` | eight modules, see below | the safety of everything else that shares no state with the three above |
| `schedules` | four loops, see below, fairness | aged jobs go first and none starves; printers behind a slow one are observed; inspections and color attempts end and leave nothing behind |
| `inspection_reclaimed` | 2 inspections, 2 submissions, no failure | **violation**: an accepted document that is reclaimed |

**The sums.**  `MCServices`, `MCSchedules` and `MCQueueServices` put modules that have no variable in common into one
state.  The first state chooses one (`service`, `schedules`, `part`) and only that one takes steps, so the run visits
exactly the states of each alone.  A property of one is true of the others because their states never leave the
initial one.  There are three so that each run ends within minutes.  In `MCSchedules`
fairness is stated for a choice among the fair actions of the four; as only one of them moves, it is the fairness of
that one (for the color worker and its leases, a weaker one than `ColorFairSpec`).

| In | Module | Instance | Properties |
|---|---|---|---|
| `queue_race` | `AuditEvidence` | 2 records, 1 archive, 2 operators, 1 key, 2 foreign changes | `ArchiveIsClosed`, `PruneKeepsACopy`, `RevokedNeverSigns` |
| `services` | `PrinterObservation` | 2 observers, 1 client, 2 reports, 3 queries, window of 2 | `ObservationIsTrue` |
| `queue_race` | `Snapshots` | 2 readers, 2 reservations, 2 slots, 3 units | `DiskIsPaidFor` |
| `services` | `OperationApprovals` | 2 callers, 2 identities, 2 approvals | `EffectIsApproved` |
| `services` | `Admission` | 2 uploads, 3 preflights (1 pipelined, 1 retry), 1 request | `OneJobPerRequest`, `AcceptedIsWhole` |
| `services` | `EventFeeds` | 2 followers, 5 events, pages of 2, 1 permit | `EachEventOnce` |
| `services` | `RateLimit` | 4 per minute, burst of 2, 14 ticks | `RateIsKept` |
| `services` | `McpSessions` | 1 session, 2 resources of 2 events and 1 restart, 2 requests, pages of 1 | `NothingIsSkipped` |
| `services` | `Retention` (with `ColorAttempt`) | 1 job, 1 attempt, 1 dependent, 1 fault | `PurgeIsSafe`, `ColorKeepsPromise` (`ColorPromise`) |
| `services` | `PageSelection` | 4 pages, positions to 5, 2 ranges | `PagesAsAsked` |

| In `schedules` | Instance | Properties |
|---|---|---|
| `QueueAging` | 3 jobs that return for ever, 2 points, interval 2, clock back by 1 | `NoOvertakingOfAged`, `QueuedIsServed` |
| `ObserverLoop` | 3 printers, 2 at a time, 1 that may never answer | `PrintersObserved` |
| `Inspection` | 2 inspections, 2 submissions, 1 mishap | `FinishedIsClean`, `InspectionSettles` |
| `ColorAttempt` | 2 attempts of 1 job, 1 page, 1 fault | `ColorEnds` |

**Bounds.**  `MaxRevision` stops hold and release at a revision (they could alternate for ever); the moves of a
running job are not bounded by it.  `MaxCrashes` bounds process deaths: one is enough for every single-crash
window of the races, two let the restarted process die as well.  `Runs` bounds how many processes a job ever
sees: three give a winner, a loser and a latecomer.  `Pages` is 0 or 1: the code handles pages one by one and
only compares the count with the total.  `MaxFailures` bounds transient query failures in `Delivery`,
`PollLimit` is the LIMIT of 100; `MaxMisreads`
bounds reads of an existing delivery that fail in `Pipeline`, whose `MaxRevision` stops resume requests and whose
`PassLimit` is the LIMIT of 100.  `MaxRollback` bounds how far the clock goes back.  `PriorityMax` and `Aging`
are small in the run; the proofs hold for any.  The theorems hold without the bounds being small, which is why
the instances only need to contain each interesting interleaving once.

In the other modules: `MaxRecords`, `MaxQueries`, `MaxEvents`, `MaxHistory`, `MaxRestarts`, `MaxTicks` and `MaxWait` bound histories
that would grow for ever; each is large enough that a page, a window or a burst is passed once (5 events for pages of
2, 3 queries for a window of 2, 2 records of which the older may finish last, nearly a minute of ticks for a burst of
2).  `MaxForeign`, `MaxFaults`, `MaxInspectionFaults` and `MaxCapability` bound what outsiders and accidents do: one or two are
enough to come between any two steps.  `MaxHolds`, `MaxHold` and `MaxDay` bound revisions and days: one day separates "old
enough" from "recent".  `MaxUnits`, `Permits` and `Capacity` are such that two readers cannot both have what they ask for.  `Slow`
leaves one of the two concurrent observations free, as an operator must configure it (`LoopAssumption`).

**Fairness.**  In `JobQueue` each worker process and the dispatcher take their next step (the operating system
runs them and a supervisor restarts the dispatcher, as the deployment documentation expects), and a lease
nobody renews runs out (the clock).  A dispatcher may end at every cleanup that fails; that a restarted one gets past the
cleanup of its start again and again assumes that the container runtime does not stay away for ever.
`LeaseGoesAway` speaks of jobs that exist: under a row that was deleted only the worker itself may still remove
its lease, for recovery never joins it.  Heartbeats, clients, operators and manual workers owe nothing.  In
`Delivery` the workers keep ticking (every network call has a timeout, `main` loops over failed ticks) and
leases run out; the printer, the network, clients and administrators owe nothing.  In `Pipeline` a worker keeps making
passes (`main` loops, also over failed passes) and a cancel request that has the lock is answered or dropped;
resume, approvals, color worker and delivery owe nothing.  In `QueueAging` the
dispatcher keeps serving and the clock keeps ticking.  In `ObserverLoop` the interval ticks and an observation of a
printer that is not slow ends (its query has a timeout).  In `Inspection` and `ColorAttempt` the worker's process is
restarted and ticks every second, and a lease of ten minutes passes; clients, uploads and the sandbox owe nothing
beyond `MaxInspectionFaults` and `MaxFaults` failures.  Fairness is weak throughout, per process.

Deadlock is checked in the runs of the queue, the deliveries and the pipelines, where somebody always has
something to do.  `services`, `schedules` and `inspection_reclaimed` switch it off: a bounded log, history or set
of fresh ids ends there, and so does the behaviour.

## 4. Findings

1. `queue_cancel`.  `jrip-worker.rs:59` says a concurrent cancel wins and the output is discarded.  A cancel
   committed between the worker's re-read (line 58) and its move to SPOOLING (line 142) wins the row, but the
   raster directory is already renamed into place and stays under the CANCELLED job; the lease stays until
   recovery removes it.
2. `delivery_starved`.  `docs/DELIVERY.md:20` promises that the worker claims one Cancel-Job attempt for an
   accepted cancellation and polls until the device job ends.  `accepted_deliveries` lists only the 100 oldest
   ACCEPTED rows; rows whose job the printer forgot stay ACCEPTED for ever, so a hundred of them hide every
   later delivery from polling and cancellation.
3. `pipeline_lapsed`.  `docs/PIPELINE.md:19` says a pipeline waits again when its approval has expired or was
   revoked.  That is so when `check_delivery` sees it; if the approval lapses between that check and
   `enqueue_contract_delivery` (a conversion lies between them), the conflict becomes 409 and the pipeline is FAILED
   for good.  Nothing is printed unapproved (`PrintedWithApproval`); only the wait is lost.

4. `inspection_reclaimed`.  `docs/PIPELINE.md:150` says orphaned directories are reclaimed only without an active
   upload lock.  `reclaim_orphans` asks for the registration (`inspection.rs:318`) and tries the lock afterwards
   (321).  A submission that is registered and frees its lock between the two is no orphan, but loses its document
   (323); the client was told 202 and the inspection can only fail.  Asking once more under the lock would close it.

The cut at 100 rows that the second finding is about exists for pipelines as well (`active_pipelines`, `PassLimit`
here): `OutcomeFollows` and `ReadyIsDelivered` hold while no more rows are active than one pass lists, and no run
exercises that limit for pipelines.

## 5. Proofs

All theorems are proved by TLAPS for every value of the constants that satisfies the named assumptions
(`JobQueueAssumption`, `NoReceiptAssumption`, `AgingAssumption`, `DeliveryAssumption`, `ApprovalAssumption`,
`EvidenceAssumption`, `AdmissionAssumption`, `ColorAssumption`, …): any number of jobs, workers, clients,
pages, crashes.

**`JobQueueProofs`.**  None of the safety properties is inductive alone.  The argument has layers, each an
invariant that uses the ones before it:

1. `TypeCorrect` – types, and `Assigned`: a process at work knows its job.
2. `SnapshotsStayExact` – `SnapshotsBehind` (a snapshot is never ahead of its row) and `SnapshotsExact` (one
   at the row's revision *is* the row).  Every write adds one to the revision, so equal revisions mean equal
   rows.  This is why a compare-and-set on a number protects a whole row.
3. `OutcomesAreFinal` – from exact snapshots: who could write an ended row would have read it ended, and no
   allowed move leaves an ended state.
4. `OutcomeInvariant`, `ReceiptsTellOutcome` – with `OwnedOnceClaimed` and `ArtifactsOfCompleted`.
5. `OneWorkerAtMost` – only the claim writes the owner, and it needs QUEUED.
6. `CompletedMeansPublished` – with `EvidenceInOrder`, the evidence left behind by each stage.
7. `LeaseInvariant`, `NoJobStranded`, `WorkerExitIsTold` – with `ClearsOnlyEnded` and `ReconcilesTheDead`: while
   the dispatcher reconciles, its child is gone, so nobody but a writer that *ends* the job can move it.
8. `QueueKeepsLifecycle` – every step of the queue is a step of `JobLifecycle` or a stutter; recovery maps to
   one `End` of several jobs.

The conjunction of all of these is `IInv`.

**`LimitsProofs`, the queue.**  `QueueTypeCorrect`, and `AgedNotOvertaken` from it: a job that waited for the points it
lacks has the maximum score (`AgedHasMaximum`, from `WholeIntervals` about integer division), so a job served
before it ties it and is older.

**`LimitsProofs`, the rate.**  What a bucket remembers is one number and one time, and what is promised is about every
stretch of the past.  `RateInv` relates the two: for each request admitted so far, what the rate gave since then pays for
it, for all that came after it, and for the credit that is left.  Admitting one more takes a `Minute` of credit and
appends one request, so the inequality for the new credit gives the promise for every stretch that ends now.
`WaitSuffices` is the other half: `DivCeil` is the least wait after which the credit reaches a request (`DivCeilBounds`,
`CreditFormula`).  The products are of variables, so sums of products are lemmas of their own (`ProductOfSum`).

**`LimitsProofs`, the budget.**  That a file is paid for is a fact about its row, which others may release.  So
`OwnersHold`: a reader that has an id is alone with it, no release of it is on its way, and its row is HELD from the
answer until the file is gone; `MessagesHold`: a release is on its way only when the file is gone; `FilesHold`: the rows
of all files, also those of dead processes, are HELD.  The capacity needs the count of the slots of all HELD rows, which
`HeldSlots` takes of the set of their single slots: `OneMoreHeld` adds a row's slots to it (`FS_Product`, `FS_Union`),
`FewerHeld` says that every other step leaves a part of it.  `ReservationsOnlyEnd` is why a request that comes late
or twice takes nothing: the row is looked for whatever its state.

**`DeliveryProofs`.**  What makes the table right is a relation between three places that no transaction
spans: the row, what a process remembers, and the printer.

1. `AlwaysBound` – `TypeOK` and `Bindings` (an ACCEPTED row, and whoever polls it, names the job its own
   document became), which need each other; `TypeCorrect` is its first half.
2. What a step does, once and for all: `DeviceSteps` (to the printer and the network) and `RowSteps` (to a row:
   it stays, begins, or moves by one revision in a listed way).  The later layers use these two instead of the
   actions wherever they can.
3. `Wired` (the network agrees with the counts), `SendersOwn` (between claim and finish a worker holds one row
   and nothing has been sent of it before Print-Job), `RowsHold`, `AnswersHold`, `InquiriesHold` (a verdict
   about the printer is right).  The key is `VerdictsStay`: a verdict that holds goes on to hold, because ended
   printer jobs stay ended and nothing is sent of a delivery on which there is a verdict.  That is why a late
   answer may still be written although it was heard long before.
4. `SnapshotsExact` and `CancelsClaimed` – a listed row at the revision of its delivery has that row's reason,
   so of two workers that saw the same request only one dispatches it.
5. `ReceiptMatchesDelivery` with each settling update.

Their conjunction is `IInv` (`DeliveryInvariant`), from which `NeverSentTwice`, `CancelledOnce`,
`OutcomesAreTrue` and `ReceiptsMatch` follow at once, `NoDeliveryGoesBack` by `RowSteps`, and
`DeliveryKeepsPromise` with the mapping `Begun`, `Outcome`: Print-Job is `Hand`, its arrival `Begin`, a settling
update `Settle`, and everything else a stutter.

**`PipelineProofs`.**  The lock alone proves nothing, since resume and the children change without it.  What
makes it enough is that resume touches only paused rows and workers only active ones:

1. `TypeCorrect`, by `AdvanceReturns`: whichever way `advance` returns, it has done at most one of its two
   effects (`StartsColor`, `StartsDelivery`), and a verdict COMPLETED or CANCELLED was the delivery's.
2. `LockHeld` (who is at work holds the lock) and `ReadingsHold` (the row a worker read is still the row, so its
   compare-and-set never fails).
3. `VerdictsHold` – an ended delivery stays ended, so a verdict is still right when it is written; `ClosingsHold` –
   under a cancel request no child appears and the row stays open, even if a resume makes the request fail.
4. `ColorComesFirst`, `SourceKept`, and from all of them `CancelledIsQuiet` and `CompletedIsPrinted`.

Their conjunction is `IInv` (`PipelineInvariant`).  `OnlyActiveHaveChildren`, `NothingPrintsUnapproved` and
`PipelineKeepsPromise` follow with `AdvanceReturns`: only `Enqueue` is `Deliver`, `DeliveryGoes` is `ChildEnds` or a
stutter, and `Write` and `WriteCancelled` are `End` or a stutter.

**`FrontEndProofs`, approvals.**  An approval is consumed in one transaction and used in a later one, so the proof is about
what may happen in between.  `ReviewsHold`: what a reviewer saw is how things are, or they have changed in a way the
handler's own comparison notices (a revision, a source that is gone, a key that is revoked).  `AdmittedOnce`: an admitted
request owns the approval it consumed and nothing was done under it.  With `CountsHold` (each approval's effects are
counted) and `TwoPeople` they make `HandlerIsApproved`, and from it `EffectsAreApproved`.

**`FrontEndProofs`, sessions.**  `NothingIsSkipped` is inductive together with the types, the limits, and `CursorsHold`: no
cursor is ahead of its resource, so the page read after it leaves no event out.  It compares cursor, hint and what the
client saw for each resource (`Seen`), and every action replaces the entry of one session and perhaps its stream, so
`EntryKeeps` does the common part once.  `SessionsActForTheirTokens` is proved from `CredentialsHold`: a request that
waits for the lock of a session was let in with the token of that session, and a session keeps its token, so the second
look at the token under the lock is about the right one.

**`AuditEvidenceProofs`.**  `OpStep` and `ArchiveStep` say once what any step does to the commands and to the archives;
everything later uses these two.  `Signed` (an archive that waits for its signature is a closed run) gives
`ArchivesAreClosed`, because records only ever get finished (`LogGrows`), and `ArchiveStep` gives
`RevokedKeysNeverSign`.  `PrunesKeepACopy` needs `Locks` (no two remote commands on one archive, although the lock is
looked at only when a command begins), `Holders` (what a lock holder may rely on about the record of the removal),
`Recorded` (no DELETE before its record) and `Kept` (the local snapshot stays while the remote one is in doubt, and goes
only while the vault directory has a copy).

**`FrontEndProofs`, admission.**  `Owners`: an accepted upload is sealed and owns its commit and its pipeline; `Ledger`: commits and
pipelines name nobody else.  `Insert` keeps both since its transaction asks for the commit and the pipeline to be free,
and nothing else writes them.  `Stages` says which uploads may still be removed, and `Answered` that every success
names an owner.

**`RetentionProofs`.**  Two kinds of steps meet here.  `ColorSteps` shows that every step of the color subsystem has a
`ColorEffect`: an attempt starts only for a job that is complete, one that is over stays over, and only one that runs
publishes.  `ColorKeeps` needs no more than that, and for every step of the others `ColorStays` says that the rows and
disks of color attempts are as they were.  The family of a job is described by `Directories` (where its directory is,
given its row and its tombstone), `Families` (an attempt or dependent has a job that was inserted) and `Sweeping` (how
far the purge is).  `ActiveIsKept` joins the two: an active attempt has a job without a tombstone and a directory that is
here, so the `create_dir_all` of a publication never brings a purged directory back, and a purge never takes an output
that a worker is about to record.

`ColorAttemptsKeepPromise` joins all three processes to `ColorPromise`.  It needs one more invariant, `Leased`: the worker lists
the attempts whose lease ran out and fails them one by one, each after a cleanup that may take long, and they still run
when their turn comes, because a lease belongs to an attempt that runs and nobody but this worker ends one.
`ColorMovesOn` says what the worker does to a row, `PurgeMovesOn` that the rename to the trash takes a whole family, none of
which is active, and that the removal afterwards takes nothing that could still be read.  `AttemptsAsPipelinesSee` follows: every change of state is a step of the promise, and so a pair of `ColorMoves`.

**What a pipeline assumes of its children.**  `Pipeline` lets a color attempt and a delivery move on their own by
the pairs of `ChildStates`, at any time.  `AttemptsAsPipelinesSee` and `DeliveriesAsPipelinesSee` (from `RowSteps`) say of the
modules that have the workers, the leases, the administrators and the purge that these pairs, and the insertion of
the row, are all that ever happens to the state.  With them the theorems of `PipelineProofs` hold of pipelines with the real
children, whose other steps the pipeline does not see.

**`RetentionProofs`, inspections.**  What the worker knows when it removes something it read some steps ago, or had from
a worker that died, so `StageHolds` says what is true at each of its stages: the row at hand is still there and, once it
had ended, still so; no report is brought while its container is left; where the source goes the container has gone, and where the
flag goes both have.  Meanwhile clients may cancel rows and upload new ones.  `MovedKeeps` says what a change of one row
leaves alone (an ended row stays ended), `FewerKeeps` what a removal does, and `HandedOver`, that a row's directory belongs to no
upload any more, is why a document that was removed does not come back.  `FinishedIsClean` is a conjunct of `InspectionInv` and inductive with the rest.
That a document is there until its inspection ends is no theorem, it is false (`inspection_reclaimed`).

**`OrderProofs`, observations.**  `SerialsHold`: the queries in hand have numbers of their own, not above `issued`, and
none of them has ended; so the answer that is recorded is not one that was.  With the comparison in `Late` it gives the first half
of `ObservationIsTrue`.  The history is a set of numbered events, and that it is the last `Window` of them is a matter of
counting: `AsManyAsNumbers` (distinct numbers are as many as the events) and `WindowMoves` (one comes, the first go, and
`pruned` counts them).  `RecordsMoveOn`, that a reader never sees a record go back, is a step property of the same
invariant.  Delays are powers of two, which no prover here knows, so the theorems say nothing of the due time; the type
invariant that does is `ObservationTypeOK`.

**`OrderProofs`, events.**  A page is the beginning of the ascending list of the numbers behind a cursor.  That there is such
a list (`CanBeListed`) and that it leaves none out (`ListsAll`) is shown without an induction schema, by a least
counterexample (`LeastNumber`) and by counting an injection.  Then `Follows`: what a client has, what is on its way, and what
was read for it follow each other in the log, ascend, and leave nothing out; `CursorHolds`: the cursor of an open stream
stands between what was sent and what was read.  A page joins what `Follows` (`PageFollows`), a broken stream cuts off its
end (`Cuts`), an event recorded meanwhile is larger than everything (`LogGrows`), and the id a client comes back
with is the largest it has (`LastIsLargest`), which is why it may take the place of the cursor.

**`OrderProofs`, pages.**  The functions of `pages.rs` are loops over the ranges, here recursive functions local to a definition.
`ValuesInTurn` shows by a least counterexample that such a function exists, so that `CanonicalInTurn` and `FlattenedInTurn` may unfold
the loops, and `EachTurnKeeps` is the invariant of a loop.  With them: joining neighbours neither loses nor wins a page
(`JoinedKeeps`, `CanonicalKeeps`), the positions of well-formed ranges ascend and are exactly what the ranges name of the document
(`ClippedIs`, `JoinedElements`, `IndicesAre`), and a set has one ascending list (`OneListing`, `AscendingIs`), which is what the reference
`Ascending(Named(ranges))` is.  The invariant then says how far a job has come: `Accepted` (the selection fits the inspected
document), `Ended` (the frames were as many as the inspection and the announcement say, so no number of the interpreter is left
unchecked) and `Recorded`; `OutcomeIs` gives the mapping of a completed job, `DispatchIs` what a delivery sends and when it is refused.

**Theorems without a run.**  What a theorem states for every instance need not be run on one:
`SnapshotsExact`, `KeepsLifecycle`, `PagesAreKept`, `TerminalIsFinal`, `ReceiptMatchesOutcome`, `SentAtMostOnce`, `NoWayBack`, `DeliveriesMoveAsSeen`, `AttemptsMoveAsSeen`, `CompletedIsPrinted`,
`ChildrenOfActive`, `RowsOnlyEnd`, `RecordMovesOn`, `ActsForItsToken`, the inductive invariants (`IInv` of the first three machines, `ApprovalInv`,
`EvidenceInv`, `AdmissionInv`, `RetentionInv`, `RateInv`, `SnapInv`, `SessionInv`, `InspectionInv`, `ObservationInv`, `FeedInv`, `PageInv`) and the type invariants of the proved modules are stated by theorems and are no
longer among the properties of the runs; their consequences (`ImplementsLifecycle`, `KeepsPromise`, …) are.

**Only model-checked.**  Liveness under fairness and everything with ENABLED (`QueuedJobIsServed`, `LeaseGoesAway`,
`ImplementsLifecycle`, `QueuedIsServed`, `SendEnds`, `CancelIsTried`, `AcceptedSettles`, `OutcomeFollows`,
`ReadyIsDelivered`, `PrintersObserved`, `InspectionSettles`, `ColorEnds`) is out of the prover's reach.  Every safety
property of a passing run is stated by a theorem.
No module declares a RECURSIVE operator.  Each module has a type invariant as well (`PageTypeOK` and so on), which a
configuration may name as INVARIANT.

## 6. Not modelled, and why

The IPP codec, raster, color, interpreter, ACX and digest crates transform large data without shared state:
TLC has nothing to interleave there; where they fail or stop, the models of their callers have a step for it.
Color policies are immutable rows addressed by the digest of their content.  Signatures, hash chains and the encoding of
requests to S3 and to the key service are cryptography and formats; that a receipt, an archive or a copy exists, when
and of what, *is* modelled.  Descriptor, preview and console endpoints only read.  The tools of the MCP service
forward one request each.  Scope tables of the authorization are stateless.  An IPP submission whose registration fails
answers an error although its job was accepted; IPP requests carry no id that would relate the repetition to it, so
there is nothing to state.

## 7. Plan

1. `Pipeline` with resume in two steps (a client that names a revision it has not read), and several pipelines
   over one job.
2. Deliveries requested by hand with their own approvals (`approvals.rs` beyond pipelines).
