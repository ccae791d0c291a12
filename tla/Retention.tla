------------------------------ MODULE Retention ------------------------------
(***************************************************************************)
(* Artifact families and their retention: the uploads that make a job's    *)
(* directory, the deletion of job rows, minimum-retention holds, and one   *)
(* jrip-maintenance process (maintenance.lock admits no second) that purges *)
(* what is old: source, rasters, color outputs and delivery spool of a job *)
(* together.  Color attempts are those of ColorAttempt.  A pipeline or a   *)
(* delivery of a job is a dependent with a state and a last activity.      *)
(***************************************************************************)
EXTENDS ColorAttempt

CONSTANTS Dependents,     \* deliveries and pipelines
          MaxHold         \* bound on the days a hold reaches ahead

ASSUME RetentionAssumption == MaxHold \in Nat

VARIABLES
  uploading,    \* jobs whose upload-writer.lock is held by an upload
  madeAt,       \* SourceJobs -> day the directory was last written
  dependent,    \* Dependents -> row: sort, job, state, day of the last event
  spool,        \* deliveries with files in the spool
  hold,         \* SourceJobs -> retain_until, 0 where there is no hold
  tombstone,    \* SourceJobs -> row of retention_tombstones
  sweeper       \* the process that holds maintenance.lock

familyVars == <<uploading, madeAt, dependent, spool, hold, tombstone, sweeper>>
retentionVars == <<day, job, dir, attempt, cleanup, containers, stages, outputs, colorist, faults,
          uploading, madeAt, dependent, spool, hold, tombstone, sweeper>>

----------------------------------------------------------------------------
NoDependent == [sort |-> "none", job |-> NoAttempt, state |-> "none", at |-> 0]
NoSweep == [pc |-> "idle", cutoff |-> 0, todo |-> {}, j |-> NoAttempt]

RetentionTypeOK ==
  /\ ColorTypeOK
  /\ uploading \subseteq SourceJobs
  /\ madeAt \in [SourceJobs -> 0..MaxDay]
  /\ \A d \in Dependents : dependent[d] = NoDependent \/
       dependent[d] \in [sort : {"delivery", "pipeline"}, job : SourceJobs, state : {"active", "ended"}, at : 0..MaxDay]
  /\ \A d \in spool : dependent[d].sort = "delivery"
  /\ hold \in [SourceJobs -> 0..MaxDay + MaxHold]
  /\ tombstone \in [SourceJobs -> {"none", "open", "finished"}]
  /\ sweeper.cutoff \in 0..MaxDay /\ sweeper.todo \subseteq SourceJobs

RetentionInit ==
  /\ day = 0
  /\ job = [j \in SourceJobs |-> [row |-> "none", at |-> 0, leased |-> FALSE]]
  /\ dir = [j \in SourceJobs |-> "none"]
  /\ ColorInit
  /\ uploading = {} /\ spool = {}
  /\ madeAt = [j \in SourceJobs |-> 0]
  /\ dependent = [d \in Dependents |-> NoDependent]
  /\ hold = [j \in SourceJobs |-> 0]
  /\ tombstone = [j \in SourceJobs |-> "none"]
  /\ sweeper = NoSweep

----------------------------------------------------------------------------
(* What the rows of a job's family say: artifact_retention_dependencies.   *)
Ended(d) == dependent[d].state = "ended"
AttemptsOf(j) == {a \in Attempts : attempt[a] # Absent /\ attempt[a].job = j}
DependentsOf(j) == {d \in Dependents : dependent[d] # NoDependent /\ dependent[d].job = j}

Quiet(j) ==                       \* no stage of the family is active
  /\ \A a \in AttemptsOf(j) : ~Active(a)
  /\ \A d \in DependentsOf(j) : Ended(d)

Untouched(j, cutoff) ==           \* and none was active after the cutoff
  /\ \A a \in AttemptsOf(j) : attempt[a].at <= cutoff
  /\ \A d \in DependentsOf(j) : dependent[d].at <= cutoff

(* Variant of Guard, active stages not asked for. *)
GuardOfActivity(j, cutoff) == Untouched(j, cutoff) /\ hold[j] <= day

Guard(j, cutoff) == Quiet(j) /\ Untouched(j, cutoff) /\ hold[j] <= day

(* A terminal job row, or what the events of a deleted one leave. *)
Row(j, cutoff) == job[j].row = "ended" /\ job[j].at <= cutoff /\ ~job[j].leased
Orphan(j, cutoff) == /\ job[j].row = "deleted" /\ job[j].at <= cutoff
                     /\ tombstone[j] = "none" /\ ~job[j].leased
Candidate(j, cutoff) == (Row(j, cutoff) \/ Orphan(j, cutoff)) /\ Guard(j, cutoff)

----------------------------------------------------------------------------
(* An upload: its directory and lock, then its row; a refused one removes  *)
(* the directory, one whose process dies leaves it.                        *)
NotSweeping == UNCHANGED <<tombstone, sweeper>>
OnlyUploads == /\ UNCHANGED <<day, rowVars, diskVars, colorist, spool, hold>>
               /\ NotSweeping

BeginUpload(j) ==
  /\ dir[j] = "none" /\ tombstone[j] = "none"
  /\ dir' = [dir EXCEPT ![j] = "here"]
  /\ uploading' = uploading \cup {j}
  /\ madeAt' = [madeAt EXCEPT ![j] = day]
  /\ UNCHANGED <<job, faults, dependent>> /\ OnlyUploads

(* The row, in one transaction with that of the pipeline it was asked for. *)
Starts(sort, j) == [sort |-> sort, job |-> j, state |-> "active", at |-> day]

RegisterUpload(j) ==
  /\ j \in uploading
  /\ job' = [job EXCEPT ![j] = [row |-> "running", at |-> day, leased |-> TRUE]]
  /\ \/ UNCHANGED dependent
     \/ \E d \in Dependents :
          /\ dependent[d] = NoDependent
          /\ dependent' = [dependent EXCEPT ![d] = Starts("pipeline", j)]
  /\ uploading' = uploading \ {j}
  /\ UNCHANGED <<dir, madeAt, faults>> /\ OnlyUploads

RefuseUpload(j) ==
  /\ j \in uploading
  /\ dir' = [dir EXCEPT ![j] = "gone"]
  /\ uploading' = uploading \ {j}
  /\ UNCHANGED <<job, madeAt, faults, dependent>> /\ OnlyUploads

UploadCrash(j) ==
  /\ j \in uploading
  /\ Fault
  /\ uploading' = uploading \ {j}
  /\ UNCHANGED <<job, dir, madeAt, dependent>> /\ OnlyUploads

----------------------------------------------------------------------------
(* The job's worker completes it, and then gives its lease back. *)
JobEnds(j) ==
  /\ job[j].row = "running"
  /\ job' = [job EXCEPT ![j].row = "ended", ![j].at = day]
  /\ madeAt' = [madeAt EXCEPT ![j] = day]
  /\ UNCHANGED <<day, dir, colorVars, uploading, dependent, spool, hold>>
  /\ NotSweeping

ReleaseJob(j) ==
  /\ job[j].row \in {"ended", "deleted"} /\ job[j].leased
  /\ job' = [job EXCEPT ![j].leased = FALSE]
  /\ UNCHANGED <<day, dir, colorVars, familyVars>>

(* delete asks nothing of deliveries. *)
DeleteJob(j) ==
  /\ job[j].row = "ended"
  /\ \A d \in DependentsOf(j) : dependent[d].sort = "pipeline" => Ended(d)
  /\ \A a \in AttemptsOf(j) : ~Active(a)
  /\ job' = [job EXCEPT ![j].row = "deleted"]
  /\ UNCHANGED <<day, dir, colorVars, familyVars>>

(* enqueue_contract_delivery, behind files that are in the spool by then. *)
StartDelivery(d, j) ==
  /\ dependent[d] = NoDependent
  /\ job[j].row = "ended"
  /\ dependent' = [dependent EXCEPT ![d] = Starts("delivery", j)]
  /\ spool' = spool \cup {d}
  /\ UNCHANGED <<day, job, dir, colorVars, uploading, madeAt, hold>>
  /\ NotSweeping

EndDependent(d) ==
  /\ dependent[d].state = "active"
  /\ dependent' = [dependent EXCEPT ![d].state = "ended", ![d].at = day]
  /\ UNCHANGED <<day, job, dir, colorVars, uploading, madeAt, spool, hold>>
  /\ NotSweeping

(* extend_artifact_retention: of a known job that is not being purged, and  *)
(* to a later day only.  A caller whose revision is stale is refused.       *)
ExtendHold(j, until) ==
  /\ until > day /\ until > hold[j]
  /\ job[j].row # "none" /\ tombstone[j] = "none"
  /\ hold' = [hold EXCEPT ![j] = until]
  /\ UNCHANGED <<day, job, dir, colorVars, uploading, madeAt, dependent, spool>>
  /\ NotSweeping

NextDay ==
  /\ day < MaxDay
  /\ day' = day + 1
  /\ UNCHANGED <<job, dir, colorVars, familyVars>>

----------------------------------------------------------------------------
(* jrip-maintenance --apply: the candidates are listed before the sweeps   *)
(* and looked at again, one by one, when they are claimed.                 *)
SweeperAt(pc) == sweeper.pc = pc
OnlySweep == UNCHANGED <<day, colorist, faults, uploading, madeAt, dependent, hold>>

BeginSweep ==
  /\ SweeperAt("idle") /\ day > 0
  /\ sweeper' = [NoSweep EXCEPT !.pc = "stages", !.cutoff = day - 1,
                                !.todo = {j \in SourceJobs : Candidate(j, day - 1)}]
  /\ UNCHANGED <<job, dir, rowVars, diskVars, spool, tombstone>> /\ OnlySweep

(* Variant of Abandoned, locks not tried. *)
StagesOnDisk == stages

(* Staging directories older than an hour whose writer.lock is free. *)
Abandoned == {a \in stages : colorist.a # a}

SweepStages ==
  /\ SweeperAt("stages")
  /\ \E swept \in SUBSET Abandoned : stages' = stages \ swept
  /\ sweeper' = [sweeper EXCEPT !.pc = "uploads"]
  /\ UNCHANGED <<job, dir, rowVars, containers, outputs, spool, tombstone>> /\ OnlySweep

(* An old directory whose upload lock is free and whose id nothing knows.  *)
Unregistered(j) ==
  /\ dir[j] = "here" /\ j \notin uploading /\ madeAt[j] <= sweeper.cutoff
  /\ job[j].row = "none" /\ tombstone[j] = "none" /\ hold[j] = 0
SweepUploads ==
  /\ SweeperAt("uploads")
  /\ tombstone' = [j \in SourceJobs |-> IF Unregistered(j) THEN "open" ELSE tombstone[j]]
  /\ sweeper' = [sweeper EXCEPT !.pc = "claim"]
  /\ UNCHANGED <<job, dir, rowVars, diskVars, spool>> /\ OnlySweep

ClaimRetention ==
  /\ SweeperAt("claim")
  /\ \E j \in sweeper.todo :
       /\ sweeper' = [sweeper EXCEPT !.todo = @ \ {j}]
       /\ IF Candidate(j, sweeper.cutoff)
          THEN /\ job' = [job EXCEPT ![j].row = "deleted"]
               /\ tombstone' = [tombstone EXCEPT ![j] = "open"]
          ELSE UNCHANGED <<job, tombstone>>
  /\ UNCHANGED <<dir, rowVars, diskVars, spool>> /\ OnlySweep

ListPending ==
  /\ SweeperAt("claim") /\ sweeper.todo = {}
  /\ sweeper' = [sweeper EXCEPT !.pc = "purge",
                                !.todo = {j \in SourceJobs : tombstone[j] = "open"}]
  /\ UNCHANGED <<job, dir, rowVars, diskVars, spool, tombstone>> /\ OnlySweep

(* Each purge: rename to the trash, remove it, remove the spool of the     *)
(* job's terminal deliveries, and only then finish.                        *)
MoveToTrash ==
  /\ SweeperAt("purge")
  /\ \E j \in sweeper.todo :
       /\ dir' = [dir EXCEPT ![j] = IF @ = "here" THEN "trash" ELSE @]
       /\ sweeper' = [sweeper EXCEPT !.pc = "remove", !.j = j, !.todo = @ \ {j}]
  /\ UNCHANGED <<job, rowVars, diskVars, spool, tombstone>> /\ OnlySweep

RemoveTrash ==
  LET j == sweeper.j IN
  /\ SweeperAt("remove")
  /\ dir' = [dir EXCEPT ![j] = IF @ = "trash" THEN "gone" ELSE @]
  /\ outputs' = IF dir[j] = "trash" THEN outputs \ AttemptsOf(j) ELSE outputs
  /\ sweeper' = [sweeper EXCEPT !.pc = "spool"]
  /\ UNCHANGED <<job, rowVars, stages, containers, spool, tombstone>> /\ OnlySweep

RemoveSpool ==
  /\ SweeperAt("spool")
  /\ spool' = spool \ {d \in DependentsOf(sweeper.j) : Ended(d)}
  /\ sweeper' = [sweeper EXCEPT !.pc = "finish"]
  /\ UNCHANGED <<job, dir, rowVars, diskVars, tombstone>> /\ OnlySweep

FinishRetention ==
  /\ SweeperAt("finish")
  /\ tombstone' = [tombstone EXCEPT ![sweeper.j] = "finished"]
  /\ sweeper' = [sweeper EXCEPT !.pc = "purge"]
  /\ UNCHANGED <<job, dir, rowVars, diskVars, spool>> /\ OnlySweep

EndSweep ==
  /\ SweeperAt("purge") /\ sweeper.todo = {}
  /\ sweeper' = NoSweep
  /\ UNCHANGED <<job, dir, rowVars, diskVars, spool, tombstone>> /\ OnlySweep

(* An error or the death of the process ends the pass where it is. *)
SweepFails ==
  /\ ~SweeperAt("idle")
  /\ Fault
  /\ sweeper' = NoSweep
  /\ UNCHANGED <<day, job, dir, rowVars, diskVars, colorist, uploading, madeAt, dependent, spool, hold, tombstone>>

Sweep ==
  \/ BeginSweep \/ SweepStages \/ SweepUploads \/ ClaimRetention \/ ListPending
  \/ MoveToTrash \/ RemoveTrash \/ RemoveSpool \/ FinishRetention \/ EndSweep

RetentionNext ==
  \/ ColorNext /\ UNCHANGED familyVars
  \/ \E j \in SourceJobs :
       \/ BeginUpload(j) \/ RegisterUpload(j) \/ RefuseUpload(j)
       \/ UploadCrash(j) \/ JobEnds(j) \/ ReleaseJob(j) \/ DeleteJob(j)
       \/ \E d \in Dependents : StartDelivery(d, j)
       \/ \E until \in 1..day + MaxHold : ExtendHold(j, until)
  \/ \E d \in Dependents : EndDependent(d)
  \/ NextDay
  \/ Sweep \/ SweepFails

RetentionSpec == RetentionInit /\ [][RetentionNext]_retentionVars

----------------------------------------------------------------------------
(* retention.rs guard and maintenance.rs claim_retention: from the claim   *)
(* on, no color attempt, cleanup, delivery or pipeline of the job is       *)
(* active, and none starts; its row is deleted, or was never written and   *)
(* never will be; and no hold that was accepted still lasts.               *)
ClaimedIsQuiet ==
  \A j \in SourceJobs : tombstone[j] # "none" =>
    /\ Quiet(j) /\ hold[j] <= day
    /\ job[j].row = "deleted" \/ (job[j].row = "none" /\ j \notin uploading)

(* maintenance.rs run: a purge that is finished left nothing on disk, and  *)
(* nobody wrote the directory or the spool again.                          *)
FinishedIsGone ==
  \A j \in SourceJobs : tombstone[j] = "finished" =>
    /\ dir[j] = "gone"
    /\ \A a \in AttemptsOf(j) : a \notin outputs
    /\ DependentsOf(j) \cap spool = {}

(* maintenance.rs sweep_color_stages never takes the directory that a live *)
(* worker writes its pages to.                                             *)
StageIsLeft == colorist.pc \in {"page", "convert", "record"} => colorist.a \in stages

(* retention.rs and maintenance.rs: neither a purge nor a sweep takes what *)
(* is in use or held, and a purge that was finished, perhaps after crashes, *)
(* was complete.                                                           *)
PurgeIsSafe == ClaimedIsQuiet /\ FinishedIsGone /\ StageIsLeft
=============================================================================
