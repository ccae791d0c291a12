------------------------------ MODULE JobQueue ------------------------------
(***************************************************************************)
(* The job queue of RIP-Server: the REST and IPP frontends, the            *)
(* dispatcher, the workers it starts and the workers an operator starts by *)
(* hand share one SQLite database and one directory per job.  Each action  *)
(* is one transaction or one file-system step of one process; everything a *)
(* process keeps between two actions is a snapshot that may be stale.      *)
(*                                                                         *)
(* Time is abstract: a lease may run out at any moment (a suspended host), *)
(* and it is only CERTAIN to run out once nobody renews it.                *)
(***************************************************************************)
EXTENDS JobStates, Integers

CONSTANTS
  Jobs,        \* job ids
  Runs,        \* worker run ids (a process and its JRIP_WORKER_RUN_ID)
  ManualRuns,  \* the runs an operator may start by hand, among Runs
  Clients,     \* requests in flight at the REST and IPP frontends
  Dispatcher,  \* the holder of dispatcher.lock, one at a time
  Pages,       \* Pages[j]: how many pages of j are selected for rendering
  NoRun,       \* "no run id"
  NoJob,       \* "no job id"
  NoReceipt,   \* "no result receipt"
  MaxRevision, \* bound: no hold or release of a job at this revision
  MaxCrashes   \* bound: process crashes explored

Actors == Runs \cup Clients \cup {Dispatcher}

ASSUME JobQueueAssumption ==
  /\ ManualRuns \subseteq Runs
  /\ NoRun \notin Runs
  /\ NoJob \notin Jobs
  /\ Runs \cap Clients = {}
  /\ Dispatcher \notin Runs \cup Clients
  /\ Pages \in [Jobs -> Nat]
  /\ MaxRevision \in Nat
  /\ MaxCrashes \in Nat

Receipts == [state : JobStates, revision : Nat, artifacts : BOOLEAN]

ASSUME NoReceiptAssumption == NoReceipt \notin Receipts

VARIABLES
  \* table jobs: state of the row ("ABSENT" before it is inserted, "DELETED"
  \* after), its revision, worker_run_id and error_code
  state, revision, owner, error,
  \* tables print_receipts, print_result_receipts, job_artifacts
  accepted, receipt, artifacts,
  \* tables source_validations (its runId, and whether the colour profile
  \* analysis is in it) and the two progress phases of job_event_details
  validation, analysed, rendered, verified,
  \* table worker_leases (its run_id), and the leases past expires_at
  lease, expired,
  \* the directories raster-*.part (by run) and raster (by job)
  staging, raster,
  \* worker processes: where each is, and whether its heartbeat task runs
  pc, beat,
  \* the dispatcher: where it is, and the run of the child it waits for
  dpc, child,
  \* frontend requests between their read and their write
  pending,
  \* what each process last read of the job it works on
  seen,
  crashes

jobVars  == <<state, revision, owner, error>>
rowVars  == <<accepted, receipt, artifacts, validation, analysed, rendered, verified>>
leaseVars == <<lease, expired>>
fileVars == <<staging, raster>>
workerVars == <<pc, beat>>
dispatcherVars == <<dpc, child>>
vars == <<state, revision, owner, error, accepted, receipt, artifacts,
          validation, analysed, rendered, verified, lease, expired, staging,
          raster, pc, beat, dpc, child, pending, seen, crashes>>

-----------------------------------------------------------------------------
RowStates == JobStates \cup {"ABSENT", "DELETED"}
Errors == {"NONE", "LEASE_EXPIRED", "WORKER_EXIT", "SPOOL_ERROR", "RENDER_ERROR"}
Operations == {"NONE", "hold", "release", "cancel", "delete"}
WorkerPcs ==
  { "gone", "starting", "loaded", "rendering", "rendered", "renderFailed",
    "verifying", "validated", "analysed", "published", "spooling",
    "spoolFailed", "renderFailing", "clearing" }
DispatcherPcs == {"down", "recover", "pick", "wait", "check", "fail", "clear"}
Nothing(j) == [job |-> j, state |-> "ABSENT", revision |-> 0, owner |-> NoRun]
Snapshots ==
  [job : Jobs, state : RowStates, revision : Nat, owner : Runs \cup {NoRun}]
    \cup {Nothing(NoJob)}

TypeOK ==
  /\ state \in [Jobs -> RowStates]
  /\ revision \in [Jobs -> Nat]
  /\ owner \in [Jobs -> Runs \cup {NoRun}]
  /\ error \in [Jobs -> Errors]
  /\ accepted \subseteq Jobs
  /\ receipt \in [Jobs -> Receipts \cup {NoReceipt}]
  /\ artifacts \subseteq Jobs
  /\ validation \in [Jobs -> Runs \cup {NoRun}]
  /\ analysed \subseteq Jobs
  /\ rendered \in [Jobs -> Nat]
  /\ verified \in [Jobs -> Nat]
  /\ \A j \in Jobs : rendered[j] <= Pages[j] /\ verified[j] <= Pages[j]
  /\ lease \in [Jobs -> Runs \cup {NoRun}]
  /\ expired \subseteq Jobs
  /\ staging \subseteq Runs
  /\ raster \subseteq Jobs
  /\ pc \in [Runs -> WorkerPcs]
  /\ beat \subseteq Runs
  /\ dpc \in DispatcherPcs
  /\ child \in Runs \cup {NoRun}
  /\ pending \in [Clients -> Operations]
  /\ seen \in [Actors -> Snapshots]
  /\ crashes \in 0..MaxCrashes

-----------------------------------------------------------------------------
(* Snapshots and the compare-and-set every writer of `jobs` goes through.  *)

Exists(j) == state[j] \in JobStates

Read(j) == [job |-> j, state |-> state[j], revision |-> revision[j], owner |-> owner[j]]

JobOf(a) == seen[a].job

(* Variant of RevisionMatches, the revision not compared. *)
RevisionIgnored(a) == Exists(JobOf(a))

(* UPDATE jobs ... WHERE id = ? AND revision = ? changes exactly one row. *)
RevisionMatches(a) ==
  /\ Exists(JobOf(a))
  /\ revision[JobOf(a)] = seen[a].revision

(* transition_recorded succeeds: the table allows the move from the state  *)
(* that was READ, and the row has not moved since.                          *)
MayMove(a, next) == Allowed(seen[a].state, next) /\ RevisionMatches(a)

(* Variant of ReceiptsAfter, only COMPLETED gets one. *)
ReceiptsOfCompleted(ended, next, arts) ==
  [j \in Jobs |-> IF j \in ended \cap accepted /\ next = "COMPLETED"
                  THEN [state |-> next, revision |-> revision[j] + 1, artifacts |-> j \in arts]
                  ELSE receipt[j]]

(* The result receipt of a job that ends now, if it was accepted with one. *)
ReceiptsAfter(ended, next, arts) ==
  [j \in Jobs |-> IF j \in ended \cap accepted /\ next \in Terminal
                  THEN [state |-> next, revision |-> revision[j] + 1, artifacts |-> j \in arts]
                  ELSE receipt[j]]

(* The row is rewritten from the snapshot, with the receipt, in one        *)
(* transaction (the event appended with it carries no further state).       *)
Move(a, next, err, arts) ==
  LET j == JobOf(a) IN
  /\ state'     = [state EXCEPT ![j] = next]
  /\ revision'  = [revision EXCEPT ![j] = seen[a].revision + 1]
  /\ owner'     = [owner EXCEPT ![j] = seen[a].owner]
  /\ error'     = [error EXCEPT ![j] = err]
  /\ receipt'   = ReceiptsAfter({j}, next, arts)
  /\ artifacts' = arts

(* A worker may record evidence only while its own lease is alive and the  *)
(* job is still the one it is ripping.                                      *)
Holds(r, j) ==
  /\ state[j] = "RIPPING"
  /\ owner[j] = r
  /\ lease[j] = r
  /\ j \notin expired

(* completed <= total in record_measured_page_progress, one page at a time. *)
PagesLeft(done, j) == done[j] < Pages[j]

(* A run id nobody remembers: the uuid of a process yet to be started. *)
Fresh(r) ==
  /\ pc[r] = "gone"
  /\ child # r
  /\ r \notin staging
  /\ \A j \in Jobs : r \notin {owner[j], lease[j], validation[j]}
  /\ \A a \in Actors : seen[a].owner # r

-----------------------------------------------------------------------------
(* The frontends (REST: upload, action, delete; IPP: cancel, hold, release) *)

Submit(j) ==
  /\ state[j] = "ABSENT"
  /\ state' = [state EXCEPT ![j] = "QUEUED"]
  /\ accepted' \in {accepted, accepted \cup {j}}
  /\ UNCHANGED <<revision, owner, error, receipt, artifacts, validation, analysed,
                 rendered, verified, lease, expired, staging, raster, pc, beat, dpc,
                 child, pending, seen, crashes>>

NextState(op) ==
  CASE op = "hold" -> "HELD" [] op = "release" -> "QUEUED" [] OTHER -> "CANCELLED"

(* A request reads the job; one the code refuses on the spot changes       *)
(* nothing and is not a step.                                               *)
Request(c, op, j) ==
  /\ pending[c] = "NONE"
  /\ Exists(j)
  /\ op \in {"hold", "release"} => revision[j] < MaxRevision
  /\ op = "release" => state[j] = "HELD"
  /\ IF op = "delete" THEN state[j] \in Terminal ELSE Allowed(state[j], NextState(op))
  /\ pending' = [pending EXCEPT ![c] = op]
  /\ seen' = [seen EXCEPT ![c] = Read(j)]
  /\ UNCHANGED <<jobVars, rowVars, leaseVars, fileVars, workerVars, dispatcherVars, crashes>>

EndRequest(c) ==
  /\ pending' = [pending EXCEPT ![c] = "NONE"]
  /\ seen' = [seen EXCEPT ![c] = Nothing(NoJob)]
  /\ UNCHANGED <<accepted, validation, analysed, rendered, verified, leaseVars,
                 fileVars, workerVars, dispatcherVars, crashes>>

Control(c) ==
  /\ pending[c] \in {"hold", "release", "cancel"}
  /\ MayMove(c, NextState(pending[c]))
  /\ Move(c, NextState(pending[c]), "NONE", artifacts)
  /\ EndRequest(c)

(* Only the row of `jobs` goes: receipts, artifacts, leases and files stay. *)
Delete(c) ==
  /\ pending[c] = "delete"
  /\ seen[c].state \in Terminal
  /\ RevisionMatches(c)
  /\ state' = [state EXCEPT ![JobOf(c)] = "DELETED"]
  /\ UNCHANGED <<revision, owner, error, receipt, artifacts>>
  /\ EndRequest(c)

(* A conflict: the row moved, or (delete) a pipeline or a colour attempt   *)
(* still depends on the job.  Those tables are modelled elsewhere.          *)
Refuse(c) ==
  /\ \/ pending[c] = "delete"
     \/ pending[c] # "NONE" /\ ~RevisionMatches(c)
  /\ UNCHANGED <<state, revision, owner, error, receipt, artifacts>>
  /\ EndRequest(c)

-----------------------------------------------------------------------------
(* jrip-worker: one process, one job                                        *)

WorkerAt(r, from) == pc[r] = from
GoTo(r, to) == pc' = [pc EXCEPT ![r] = to]

(* The process ends: its memory and its heartbeat task go with it. *)
Exit(r) ==
  /\ GoTo(r, "gone")
  /\ beat' = beat \ {r}
  /\ seen' = [seen EXCEPT ![r] = Nothing(NoJob)]

Launch(r, j) ==
  /\ Fresh(r)
  /\ GoTo(r, "starting")
  /\ beat' = beat

StartManually(r, j) ==
  /\ r \in ManualRuns
  /\ Launch(r, j)
  /\ seen' = [seen EXCEPT ![r] = Nothing(j)]
  /\ UNCHANGED <<jobVars, rowVars, leaseVars, fileVars, dispatcherVars, pending, crashes>>

Load(r) ==
  /\ WorkerAt(r, "starting")
  /\ UNCHANGED <<jobVars, rowVars, leaseVars, fileVars, dispatcherVars, pending, crashes>>
  /\ \/ /\ state[JobOf(r)] = "QUEUED"
        /\ seen' = [seen EXCEPT ![r] = Read(JobOf(r))]
        /\ GoTo(r, "loaded")
        /\ beat' = beat
     \/ /\ state[JobOf(r)] # "QUEUED"
        /\ Exit(r)

(* claim_queued: the job, its owner and the lease in one transaction. *)
Claim(r) ==
  LET j == JobOf(r) IN
  /\ WorkerAt(r, "loaded")
  /\ MayMove(r, "RIPPING")
  /\ lease[j] = NoRun
  /\ state' = [state EXCEPT ![j] = "RIPPING"]
  /\ revision' = [revision EXCEPT ![j] = seen[r].revision + 1]
  /\ owner' = [owner EXCEPT ![j] = r]
  /\ error' = [error EXCEPT ![j] = "NONE"]
  /\ lease' = [lease EXCEPT ![j] = r]
  /\ expired' = expired \ {j}
  /\ staging' = staging \cup {r}
  /\ beat' = beat \cup {r}
  /\ GoTo(r, "rendering")
  /\ UNCHANGED <<rowVars, raster, dispatcherVars, pending, seen, crashes>>

ClaimConflict(r) ==
  /\ WorkerAt(r, "loaded")
  /\ ~MayMove(r, "RIPPING") \/ lease[JobOf(r)] # NoRun
  /\ Exit(r)
  /\ UNCHANGED <<jobVars, rowVars, leaseVars, fileVars, dispatcherVars, pending, crashes>>

(* record_render_progress of the next page succeeds. *)
RenderPage(r) ==
  LET j == JobOf(r) IN
  /\ WorkerAt(r, "rendering")
  /\ Holds(r, j)
  /\ PagesLeft(rendered, j)
  /\ rendered' = [rendered EXCEPT ![j] = @ + 1]
  /\ UNCHANGED <<jobVars, accepted, receipt, artifacts, validation, analysed, verified,
                 leaseVars, fileVars, workerVars, dispatcherVars, pending, seen, crashes>>

(* The interpreter returns: with every page, or with an error (its own, or *)
(* the refusal of a progress record).                                       *)
RenderEnds(r) ==
  /\ WorkerAt(r, "rendering")
  /\ \/ rendered[JobOf(r)] = Pages[JobOf(r)] /\ GoTo(r, "rendered")
     \/ GoTo(r, "renderFailed")
  /\ UNCHANGED <<jobVars, rowVars, leaseVars, fileVars, beat, dispatcherVars, pending, seen, crashes>>

(* The re-read after rendering: a cancelled job's output is discarded, a   *)
(* deleted one ends the process, and otherwise this snapshot is the one    *)
(* every later write of this worker is checked against.                     *)
Reread(r) ==
  LET j == JobOf(r) IN
  /\ pc[r] \in {"rendered", "renderFailed"}
  /\ UNCHANGED <<jobVars, rowVars, leaseVars, raster, dispatcherVars, pending, crashes>>
  /\ \/ /\ ~Exists(j)
        /\ Exit(r)
        /\ staging' = staging
     \/ /\ state[j] = "CANCELLED"
        /\ GoTo(r, "clearing")
        /\ staging' = staging \ {r}
        /\ UNCHANGED <<beat, seen>>
     \/ /\ Exists(j)
        /\ state[j] # "CANCELLED"
        /\ seen' = [seen EXCEPT ![r] = Read(j)]
        /\ beat' = beat
        /\ IF pc[r] = "rendered"
           THEN GoTo(r, "verifying") /\ staging' = staging
           ELSE GoTo(r, "renderFailing") /\ staging' = staging \ {r}

(* record_page_progress of the next hashed page succeeds. *)
VerifyPage(r) ==
  LET j == JobOf(r) IN
  /\ WorkerAt(r, "verifying")
  /\ Holds(r, j)
  /\ PagesLeft(verified, j)
  /\ verified' = [verified EXCEPT ![j] = @ + 1]
  /\ UNCHANGED <<jobVars, accepted, receipt, artifacts, validation, analysed, rendered,
                 leaseVars, fileVars, workerVars, dispatcherVars, pending, seen, crashes>>

RecordValidation(r) ==
  LET j == JobOf(r) IN
  /\ WorkerAt(r, "verifying")
  /\ verified[j] = Pages[j]
  /\ Holds(r, j)
  /\ validation[j] = NoRun
  /\ validation' = [validation EXCEPT ![j] = r]
  /\ GoTo(r, "validated")
  /\ UNCHANGED <<jobVars, accepted, receipt, artifacts, analysed, rendered, verified,
                 leaseVars, fileVars, beat, dispatcherVars, pending, seen, crashes>>

RecordAnalysis(r) ==
  LET j == JobOf(r) IN
  /\ WorkerAt(r, "validated")
  /\ state[j] = "RIPPING"
  /\ lease[j] = r
  /\ j \notin expired
  /\ validation[j] = r
  /\ j \notin analysed
  /\ analysed' = analysed \cup {j}
  /\ GoTo(r, "analysed")
  /\ UNCHANGED <<jobVars, accepted, receipt, artifacts, validation, rendered, verified,
                 leaseVars, fileVars, beat, dispatcherVars, pending, seen, crashes>>

(* rename(staging, raster): no transaction, no lease check. *)
Publish(r) ==
  /\ WorkerAt(r, "analysed")
  /\ JobOf(r) \notin raster
  /\ raster' = raster \cup {JobOf(r)}
  /\ staging' = staging \ {r}
  /\ GoTo(r, "published")
  /\ UNCHANGED <<jobVars, rowVars, leaseVars, beat, dispatcherVars, pending, seen, crashes>>

(* Variant of SpoolFails, the failed pages published. *)
SpoolErrorIgnored(r) ==
  /\ pc[r] \in {"verifying", "validated", "analysed"}
  /\ GoTo(r, "published")
  /\ UNCHANGED <<jobVars, rowVars, leaseVars, fileVars, beat, dispatcherVars, pending, seen, crashes>>

(* Hashing, a refused record or the rename fails. *)
SpoolFails(r) ==
  /\ pc[r] \in {"verifying", "validated", "analysed"}
  /\ GoTo(r, "spoolFailed")
  /\ UNCHANGED <<jobVars, rowVars, leaseVars, fileVars, beat, dispatcherVars, pending, seen, crashes>>

ToSpooling(r) ==
  /\ WorkerAt(r, "published")
  /\ MayMove(r, "SPOOLING")
  /\ Move(r, "SPOOLING", "NONE", artifacts)
  /\ seen' = [seen EXCEPT ![r].state = "SPOOLING", ![r].revision = @ + 1]
  /\ GoTo(r, "spooling")
  /\ UNCHANGED <<accepted, validation, analysed, rendered, verified, leaseVars, fileVars,
                 beat, dispatcherVars, pending, crashes>>

(* complete_with_artifacts: an empty selection is accepted only with the   *)
(* validation report that proves it empty.                                  *)
CanComplete(r) ==
  /\ Pages[JobOf(r)] = 0 => validation[JobOf(r)] # NoRun
  /\ MayMove(r, "COMPLETED")

Complete(r) ==
  /\ WorkerAt(r, "spooling")
  /\ CanComplete(r)
  /\ Move(r, "COMPLETED", "NONE", artifacts \cup {JobOf(r)})
  /\ GoTo(r, "clearing")
  /\ UNCHANGED <<accepted, validation, analysed, rendered, verified, leaseVars, fileVars,
                 beat, dispatcherVars, pending, seen, crashes>>

FailureOf(r) == IF pc[r] = "spoolFailed" THEN "SPOOL_ERROR" ELSE "RENDER_ERROR"

Fail(r) ==
  /\ pc[r] \in {"spoolFailed", "renderFailing"}
  /\ MayMove(r, "FAILED")
  /\ Move(r, "FAILED", FailureOf(r), artifacts)
  /\ GoTo(r, "clearing")
  /\ UNCHANGED <<accepted, validation, analysed, rendered, verified, leaseVars, fileVars,
                 beat, dispatcherVars, pending, seen, crashes>>

(* Any of the three last writes meets a conflict: `?` ends the process     *)
(* without clearing the lease.                                              *)
WriteConflict(r) ==
  /\ \/ WorkerAt(r, "published") /\ ~MayMove(r, "SPOOLING")
     \/ WorkerAt(r, "spooling") /\ ~CanComplete(r)
     \/ pc[r] \in {"spoolFailed", "renderFailing"} /\ ~MayMove(r, "FAILED")
  /\ Exit(r)
  /\ UNCHANGED <<jobVars, rowVars, leaseVars, fileVars, dispatcherVars, pending, crashes>>

ClearLease(r, j) ==
  /\ lease' = [lease EXCEPT ![j] = IF @ = r THEN NoRun ELSE @]
  /\ expired' = IF lease[j] = r THEN expired \ {j} ELSE expired

Clear(r) ==
  /\ WorkerAt(r, "clearing")
  /\ ClearLease(r, JobOf(r))
  /\ Exit(r)
  /\ UNCHANGED <<jobVars, rowVars, fileVars, dispatcherVars, pending, crashes>>

WorkerStep(r) ==
  \/ Load(r) \/ Claim(r) \/ ClaimConflict(r)
  \/ RenderPage(r) \/ RenderEnds(r) \/ Reread(r)
  \/ VerifyPage(r) \/ RecordValidation(r) \/ RecordAnalysis(r)
  \/ Publish(r) \/ SpoolFails(r) \/ ToSpooling(r) \/ Complete(r)
  \/ Fail(r) \/ WriteConflict(r) \/ Clear(r)

(* The heartbeat task: renews its row whatever its expiry, stops for good  *)
(* at the first error (no row, or the database).                            *)
Renew(r) ==
  /\ r \in beat
  /\ lease[JobOf(r)] = r
  /\ JobOf(r) \in expired
  /\ expired' = expired \ {JobOf(r)}
  /\ UNCHANGED <<jobVars, rowVars, lease, fileVars, workerVars, dispatcherVars, pending, seen, crashes>>

HeartbeatStops(r) ==
  /\ r \in beat
  /\ beat' = beat \ {r}
  /\ UNCHANGED <<jobVars, rowVars, leaseVars, fileVars, pc, dispatcherVars, pending, seen, crashes>>

(* Process death at any point, an unexpected database error included. *)
WorkerCrash(r) ==
  /\ pc[r] # "gone"
  /\ crashes < MaxCrashes
  /\ crashes' = crashes + 1
  /\ Exit(r)
  /\ UNCHANGED <<jobVars, rowVars, leaseVars, fileVars, dispatcherVars, pending>>

(* expires_at passes. *)
Expire(j) ==
  /\ lease[j] # NoRun
  /\ j \notin expired
  /\ expired' = expired \cup {j}
  /\ UNCHANGED <<jobVars, rowVars, lease, fileVars, workerVars, dispatcherVars, pending, seen, crashes>>

-----------------------------------------------------------------------------
(* jrip-dispatcher                                                          *)

DispatcherAt(from) == dpc = from
DispatcherGoes(to) == dpc' = to

(* The process ends (its child, if any, lives on) or begins a new round. *)
DispatcherForgets ==
  /\ child' = NoRun
  /\ seen' = [seen EXCEPT ![Dispatcher] = Nothing(NoJob)]

(* Sources of failed jobs are cleaned up first; a start that cannot do so   *)
(* ends at once, and the process is still down.                            *)
StartDispatcher ==
  /\ DispatcherAt("down")
  /\ DispatcherGoes("recover")
  /\ UNCHANGED <<jobVars, rowVars, leaseVars, fileVars, workerVars, child, pending, seen, crashes>>

(* Variant of ExpiredLeases, ended jobs left out. *)
ExpiredLeasesOfLiveJobs ==
  {j \in Jobs : lease[j] # NoRun /\ j \in expired /\ Exists(j) /\ state[j] \notin Terminal}

(* Leases past the cutoff, joined with the jobs that still have a row. *)
ExpiredLeases == {j \in Jobs : lease[j] # NoRun /\ j \in expired /\ Exists(j)}

(* Variant of Lost, SPOOLING forgotten. *)
LostWhileRipping(j) == owner[j] = lease[j] /\ state[j] = "RIPPING"

(* The job is still the lease holder's, and has not ended. *)
Lost(j) == owner[j] = lease[j] /\ state[j] \notin Terminal

RevisionsAfter(moved) ==
  [j \in Jobs |-> IF j \in moved THEN revision[j] + 1 ELSE revision[j]]

(* recover_expired_leases: every lost job fails, every expired lease goes. *)
(* If a lost job's source cannot be cleaned up then, the dispatcher ends.  *)
RecoverExpired ==
  LET lost == {j \in ExpiredLeases : Lost(j)} IN
  /\ DispatcherAt("recover")
  /\ state' = [j \in Jobs |-> IF j \in lost THEN "FAILED" ELSE state[j]]
  /\ revision' = RevisionsAfter(lost)
  /\ error' = [j \in Jobs |-> IF j \in lost THEN "LEASE_EXPIRED" ELSE error[j]]
  /\ receipt' = ReceiptsAfter(lost, "FAILED", artifacts)
  /\ lease' = [j \in Jobs |-> IF j \in ExpiredLeases THEN NoRun ELSE lease[j]]
  /\ expired' = expired \ ExpiredLeases
  /\ dpc' \in {"pick"} \cup (IF lost = {} THEN {} ELSE {"down"})
  /\ UNCHANGED <<owner, accepted, artifacts, validation, analysed, rendered, verified,
                 fileVars, workerVars, child, pending, seen, crashes>>

(* The order among queued jobs is the subject of module QueueAging. *)
PickAndSpawn(r, j) ==
  /\ DispatcherAt("pick")
  /\ state[j] = "QUEUED"
  /\ r \notin ManualRuns
  /\ Launch(r, j)
  /\ child' = r
  /\ seen' = [seen EXCEPT ![Dispatcher] = Nothing(j), ![r] = Nothing(j)]
  /\ DispatcherGoes("wait")
  /\ UNCHANGED <<jobVars, rowVars, leaseVars, fileVars, pending, crashes>>

(* Nothing queued: sleep and start over, or end (--once, ctrl-c). *)
PickNothing ==
  /\ DispatcherAt("pick")
  /\ \A j \in Jobs : state[j] # "QUEUED"
  /\ dpc' \in {"recover", "down"}
  /\ UNCHANGED <<jobVars, rowVars, leaseVars, fileVars, workerVars, child, pending, seen, crashes>>

(* Variant of ChildGone, a child that died early not noticed. *)
ChildClaimed == pc[child] = "gone" /\ state[JobOf(Dispatcher)] # "QUEUED"

ChildGone == pc[child] = "gone"

ChildExited ==
  /\ DispatcherAt("wait")
  /\ ChildGone
  /\ DispatcherGoes("check")
  /\ UNCHANGED <<jobVars, rowVars, leaseVars, fileVars, workerVars, child, pending, seen, crashes>>

(* Variant of ChildOwns, whoever owns the job. *)
AnyOwner(j) == owner[j] # NoRun

ChildOwns(j) == owner[j] = child

(* The end of a round: the next one, or the end of the process (--once,    *)
(* ctrl-c, a failed cleanup).  A job still QUEUED ends the dispatcher.     *)
EndRound(lastState) ==
  /\ dpc' \in (IF lastState = "QUEUED" THEN {"down"} ELSE {"recover", "down"})
  /\ DispatcherForgets

(* reconcile_worker_exit reads the job.  A deleted job ends the dispatcher *)
(* (NotFound propagates); another owner's job is left alone.                *)
CheckChild ==
  LET j == JobOf(Dispatcher) IN
  /\ DispatcherAt("check")
  /\ UNCHANGED <<jobVars, rowVars, leaseVars, fileVars, workerVars, pending, crashes>>
  /\ \/ /\ ~Exists(j)
        /\ DispatcherGoes("down")
        /\ DispatcherForgets
     \/ /\ Exists(j)
        /\ ~ChildOwns(j)
        /\ EndRound(state[j])
     \/ /\ Exists(j)
        /\ ChildOwns(j)
        /\ DispatcherGoes(IF state[j] \in Processing THEN "fail" ELSE "clear")
        /\ seen' = [seen EXCEPT ![Dispatcher] = Read(j)]
        /\ child' = child

FailChild ==
  /\ DispatcherAt("fail")
  /\ MayMove(Dispatcher, "FAILED")
  /\ Move(Dispatcher, "FAILED", "WORKER_EXIT", artifacts)
  /\ seen' = [seen EXCEPT ![Dispatcher].state = "FAILED", ![Dispatcher].revision = @ + 1]
  /\ DispatcherGoes("clear")
  /\ UNCHANGED <<accepted, validation, analysed, rendered, verified, leaseVars, fileVars,
                 workerVars, child, pending, crashes>>

(* A conflict: the job is read again and kept as it is. *)
FailChildConflict ==
  LET j == JobOf(Dispatcher) IN
  /\ DispatcherAt("fail")
  /\ ~MayMove(Dispatcher, "FAILED")
  /\ UNCHANGED <<jobVars, rowVars, leaseVars, fileVars, workerVars, pending, crashes>>
  /\ IF Exists(j)
     THEN /\ seen' = [seen EXCEPT ![Dispatcher] = Read(j)]
          /\ child' = child
          /\ DispatcherGoes("clear")
     ELSE DispatcherGoes("down") /\ DispatcherForgets

ClearChild ==
  /\ DispatcherAt("clear")
  /\ ClearLease(child, JobOf(Dispatcher))
  /\ EndRound(seen[Dispatcher].state)
  /\ UNCHANGED <<jobVars, rowVars, fileVars, workerVars, pending, crashes>>

DispatcherStep ==
  \/ StartDispatcher \/ RecoverExpired \/ PickNothing \/ ChildExited \/ CheckChild
  \/ FailChild \/ FailChildConflict \/ ClearChild
  \/ \E r \in Runs, j \in Jobs : PickAndSpawn(r, j)

DispatcherCrash ==
  /\ ~DispatcherAt("down")
  /\ crashes < MaxCrashes
  /\ crashes' = crashes + 1
  /\ DispatcherGoes("down")
  /\ DispatcherForgets
  /\ UNCHANGED <<jobVars, rowVars, leaseVars, fileVars, workerVars, pending>>

-----------------------------------------------------------------------------
Init ==
  /\ state = [j \in Jobs |-> "ABSENT"]
  /\ revision = [j \in Jobs |-> 0]
  /\ owner = [j \in Jobs |-> NoRun]
  /\ error = [j \in Jobs |-> "NONE"]
  /\ accepted = {}
  /\ receipt = [j \in Jobs |-> NoReceipt]
  /\ artifacts = {}
  /\ validation = [j \in Jobs |-> NoRun]
  /\ analysed = {}
  /\ rendered = [j \in Jobs |-> 0]
  /\ verified = [j \in Jobs |-> 0]
  /\ lease = [j \in Jobs |-> NoRun]
  /\ expired = {}
  /\ staging = {}
  /\ raster = {}
  /\ pc = [r \in Runs |-> "gone"]
  /\ beat = {}
  /\ dpc = "down"
  /\ child = NoRun
  /\ pending = [c \in Clients |-> "NONE"]
  /\ seen = [a \in Actors |-> Nothing(NoJob)]
  /\ crashes = 0

ClientStep(c) ==
  \/ \E op \in Operations \ {"NONE"}, j \in Jobs : Request(c, op, j)
  \/ Control(c) \/ Delete(c) \/ Refuse(c)

Environment ==
  \/ \E j \in Jobs : Submit(j) \/ Expire(j)
  \/ \E r \in Runs : Renew(r) \/ HeartbeatStops(r) \/ WorkerCrash(r)
  \/ \E r \in Runs, j \in Jobs : StartManually(r, j)
  \/ DispatcherCrash

Next ==
  \/ Environment
  \/ \E c \in Clients : ClientStep(c)
  \/ \E r \in Runs : WorkerStep(r)
  \/ DispatcherStep

Spec == Init /\ [][Next]_vars

(* A lease nobody renews runs out: the heartbeat has stopped or the        *)
(* process is gone.                                                         *)
RunsOut(j) == lease[j] \notin beat /\ Expire(j)

(* Processes take their next step, the operating system restarts the       *)
(* dispatcher, and the clock moves on.  Heartbeats and clients owe nothing. *)
Fairness ==
  /\ \A r \in Runs : WF_vars(WorkerStep(r))
  /\ WF_vars(DispatcherStep)
  /\ \A j \in Jobs : WF_vars(RunsOut(j))

FairSpec == Spec /\ Fairness

-----------------------------------------------------------------------------
(* Properties                                                               *)

(* The compare-and-set on the revision is enough: whenever a process could *)
(* still write the row, what it read is what the row says, owner included. *)
SnapshotsExact ==
  \A a \in Actors :
    seen[a].state # "ABSENT" /\ RevisionMatches(a) => seen[a] = Read(JobOf(a))

(* A worker that has claimed its job and not yet finished with it. *)
Working(r) == pc[r] \notin {"gone", "starting", "loaded"}

(* However many dispatchers' children and manual workers race for a job,   *)
(* one process at most ever renders or spools it, and it is the run the    *)
(* row names (claim_queued, once per job).                                  *)
OneWorkerPerJob ==
  \A r \in Runs : Working(r) => owner[JobOf(r)] = r

(* COMPLETED is said only of a job whose pages are all hashed, whose source*)
(* was validated by the run that owns the row, whose artifacts are recorded*)
(* and whose raster directory is in place (worker order: evidence, rename,  *)
(* SPOOLING, COMPLETED), whatever crashed or expired in between.            *)
CompletedIsPublished ==
  \A j \in Jobs :
    state[j] = "COMPLETED" =>
      /\ j \in raster
      /\ j \in artifacts
      /\ j \in analysed
      /\ owner[j] # NoRun
      /\ validation[j] = owner[j]
      /\ verified[j] = Pages[j]

(* An accepted job has a result receipt exactly when it has ended, and the *)
(* receipt tells the outcome the row tells, at the row's last revision, on *)
(* every path that ends a job (worker, dispatcher, recovery, client).       *)
ReceiptMatchesOutcome ==
  \A j \in Jobs :
    /\ (receipt[j] # NoReceipt) <=> (j \in accepted /\ state[j] \in Terminal \cup {"DELETED"})
    /\ receipt[j] # NoReceipt =>
         /\ receipt[j].revision = revision[j]
         /\ state[j] # "DELETED" => receipt[j].state = state[j]
         /\ receipt[j].artifacts = (receipt[j].state = "COMPLETED")

(* No job is left in RIPPING or SPOOLING without the lease by which a      *)
(* restarted dispatcher will find it: nobody clears the lease first.        *)
NoStrandedJob ==
  \A j \in Jobs : state[j] \in Processing => owner[j] # NoRun /\ lease[j] = owner[j]

(* WORKER_EXIT is said only of a job whose own worker is gone: the child   *)
(* of a dispatcher, never the manual worker or the other run that won it.   *)
WorkerExitIsTrue ==
  \A j \in Jobs : error[j] = "WORKER_EXIT" => owner[j] # NoRun /\ pc[owner[j]] = "gone"

(* A job that has ended stays as it ended, whoever still holds a snapshot  *)
(* of it; all that may happen to it is that its row is deleted.             *)
TerminalIsFinal ==
  [][\A j \in Jobs :
       state[j] \in Terminal =>
         /\ state'[j] \in {state[j], "DELETED"}
         /\ <<revision'[j], owner'[j], error'[j], receipt'[j]>>
              = <<revision[j], owner[j], error[j], receipt[j]>>]_vars

(* A queued job does not stay queued for ever behind a worker that died    *)
(* before its claim or a dispatcher that stopped on it.                     *)
QueuedJobIsServed ==
  \A j \in Jobs : state[j] = "QUEUED" ~> state[j] # "QUEUED"

(* The lease of a job that has ended goes away, unless the row was deleted *)
(* under it (recovery joins leases with jobs).                              *)
LeaseGoesAway ==
  \A j \in Jobs : state[j] \in Terminal /\ lease[j] # NoRun
                    ~> lease[j] = NoRun \/ state[j] = "DELETED"

(* What jrip-worker says of a cancelled job: "A concurrent cancel wins.    *)
(* The bounded interpreter finishes before its output is discarded."  Once *)
(* the worker of a cancelled job is gone there is no published raster.      *)
CancelledOutputDiscarded ==
  \A j \in Jobs :
    state[j] = "CANCELLED" /\ owner[j] # NoRun /\ pc[owner[j]] = "gone" => j \notin raster

-----------------------------------------------------------------------------
(* The inductive invariant: what holds the properties above up.             *)

(* A process at work knows its job. *)
Assigned ==
  /\ \A r \in Runs : pc[r] # "gone" => JobOf(r) \in Jobs
  /\ \A c \in Clients : pending[c] # "NONE" => JobOf(c) \in Jobs
  /\ dpc \in {"wait", "check", "fail", "clear"} => JobOf(Dispatcher) \in Jobs /\ child \in Runs

(* Revisions only grow, so a snapshot is never ahead of its row. *)
SnapshotsBehind ==
  \A a \in Actors :
    seen[a].state # "ABSENT" =>
      state[JobOf(a)] # "ABSENT" /\ seen[a].revision <= revision[JobOf(a)]

(* A run id is on the row only from the claim on. *)
OwnedOnceClaimed ==
  \A j \in Jobs : owner[j] # NoRun => state[j] \in Processing \cup Terminal \cup {"DELETED"}

ArtifactsOfCompleted == \A j \in artifacts : state[j] \in {"COMPLETED", "DELETED"}

(* The evidence a worker has left behind by each stage. *)
EvidenceInOrder ==
  \A r \in Runs :
    LET j == JobOf(r) IN
    /\ pc[r] \in {"validated", "analysed", "published", "spooling"} =>
         validation[j] = r /\ verified[j] = Pages[j]
    /\ pc[r] \in {"analysed", "published", "spooling"} => j \in analysed
    /\ pc[r] \in {"published", "spooling"} => j \in raster

(* Nobody clears the lease of a job that is still being processed. *)
ClearsOnlyEnded ==
  /\ \A r \in Runs : pc[r] = "clearing" => state[JobOf(r)] \in Terminal \cup {"DELETED"}
  /\ dpc = "clear" => state[JobOf(Dispatcher)] \in Terminal \cup {"DELETED"}

(* While the dispatcher reconciles, its child is gone, so the only process *)
(* that could advance the job without ending it is gone too.                *)
ReconcilesTheDead ==
  LET j == JobOf(Dispatcher) IN
  /\ dpc \in {"check", "fail"} => pc[child] = "gone"
  /\ dpc = "fail" =>
       /\ seen[Dispatcher].state \in Processing
       /\ owner[j] = child
       /\ state[j] \in Processing => revision[j] = seen[Dispatcher].revision

IInv ==
  /\ TypeOK /\ Assigned
  /\ SnapshotsBehind /\ SnapshotsExact
  /\ OwnedOnceClaimed /\ OneWorkerPerJob
  /\ ArtifactsOfCompleted /\ ReceiptMatchesOutcome
  /\ EvidenceInOrder /\ CompletedIsPublished
  /\ ClearsOnlyEnded /\ ReconcilesTheDead
  /\ NoStrandedJob /\ WorkerExitIsTrue

-----------------------------------------------------------------------------
(* Refinement: what of all this a submitter sees.                           *)

PhaseOf(s) ==
  CASE s = "ABSENT" -> "absent"
    [] s = "DELETED" -> "removed"
    [] s \in Processing -> "running"
    [] s \in Terminal -> s
    [] OTHER -> "waiting"

Phase == [j \in Jobs |-> PhaseOf(state[j])]
Recorded == [j \in Jobs |-> IF receipt[j] = NoReceipt THEN "none" ELSE receipt[j].state]

Lifecycle == INSTANCE JobLifecycle WITH
  phase <- Phase, promised <- accepted, recorded <- Recorded

(* What a submitter sees of the queue with all its processes is what       *)
(* JobLifecycle promises: every job runs at most once and ends at most      *)
(* once, with its receipt in the same step, even when one recovery ends     *)
(* several jobs at a time.                                                  *)
KeepsLifecycle == Lifecycle!Safety

(* With the fairness of the processes a job that runs also ends, as the    *)
(* same promise says.                                                       *)
ImplementsLifecycle == Lifecycle!Spec
=============================================================================
