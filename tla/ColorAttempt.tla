---------------------------- MODULE ColorAttempt ----------------------------
(***************************************************************************)
(* Color attempts: the rows of color_attempts and color_cleanup, the       *)
(* worker that holds color-worker.lock, its sandbox containers and its     *)
(* staging directories, and the published output below the job directory.  *)
(* The ticket of an attempt is its source job and its number of pages, the *)
(* same for all.  Time is a count of days; the ten minutes of a lease are  *)
(* the values "live" and "lapsed" of a row.                                *)
(***************************************************************************)
EXTENDS Naturals, FiniteSets, ChildStates

CONSTANTS SourceJobs, Attempts, NoAttempt,
          Total,             \* pages of every ticket
          MaxDay,            \* bound on the clock
          MaxFaults          \* bound on failed removals, crashes and errors

ASSUME ColorAssumption ==
  /\ NoAttempt \notin Attempts
  /\ Total \in Nat \ {0}
  /\ {MaxDay, MaxFaults} \subseteq Nat

VARIABLES
  day,          \* the clock
  job,          \* SourceJobs -> the job's row, the day of its last event, its lease
  dir,          \* SourceJobs -> where the job's directory is
  attempt,      \* Attempts -> row of color_attempts
  cleanup,      \* rows of color_cleanup
  containers,   \* attempts a sandbox container carries the label of
  stages,       \* attempts with a color-stage-* directory
  outputs,      \* attempts whose output is published in the job's directory
  colorist,     \* the process that holds color-worker.lock
  faults        \* failed removals of a container, crashes and errors so far

storeVars == <<day, job, dir>>
rowVars == <<attempt, cleanup>>
diskVars == <<stages, outputs, containers>>
colorVars == <<attempt, cleanup, containers, stages, outputs, colorist, faults>>

----------------------------------------------------------------------------
Terminal == {"COMPLETED", "FAILED", "CANCELLED"}
Absent == [job |-> NoAttempt, state |-> "ABSENT", revision |-> 0, pages |-> 0,
           lease |-> "none", at |-> 0]

(* The error of a page or of the publication, as the row records it. *)
PageErrors == {"COLOR_TRANSFORM_FAILED", "COLOR_WORKER_TIMEOUT"}
SourceErrors == {"SOURCE_ARTIFACT_INTEGRITY_MISMATCH", "COLOR_TRANSFORM_FAILED",
                 "COLOR_ARTIFACT_FAILED"}
PublishErrors == {"COLOR_TRANSFORM_FAILED", "COLOR_ARTIFACT_FAILED"}

Idle == [pc |-> "idle", a |-> NoAttempt, todo |-> {}, outcome |-> "none"]

JobRows == [row : {"none", "running", "ended", "deleted"}, at : Nat, leased : BOOLEAN]

ColorTypeOK ==
  /\ day \in 0..MaxDay
  /\ job \in [SourceJobs -> JobRows]
  /\ dir \in [SourceJobs -> {"none", "here", "trash", "gone"}]
  /\ \A a \in Attempts :
       \/ attempt[a] = Absent
       \/ attempt[a] \in [job : SourceJobs, state : {"QUEUED", "RUNNING"} \cup Terminal,
                          revision : Nat, pages : 0..Total,
                          lease : {"none", "live", "lapsed"}, at : 0..MaxDay]
  /\ {cleanup, containers, stages, outputs} \subseteq SUBSET Attempts
  /\ colorist.a \in Attempts \cup {NoAttempt} /\ colorist.todo \subseteq Attempts
  /\ faults \in 0..MaxFaults

ColorInit ==
  /\ attempt = [a \in Attempts |-> Absent]
  /\ cleanup = {} /\ containers = {} /\ stages = {} /\ outputs = {}
  /\ colorist = Idle
  /\ faults = 0

----------------------------------------------------------------------------
(* update_color: the transitions it takes, the pages and the lease it asks for. *)
MayUpdate(a, revision, next, pages) ==
  LET row == attempt[a] IN
  /\ row.revision = revision
  /\ <<row.state, next>> \in ColorMoves \cup {<<"RUNNING", "RUNNING">>}
  /\ pages \in row.pages..Total
  /\ row.state = "QUEUED" => pages = 0
  /\ (row.state = "RUNNING" /\ next = "RUNNING") => pages <= row.pages + 1
  /\ next = "FAILED" => pages = row.pages
  /\ next = "COMPLETED" => pages = Total /\ row.pages = Total
  /\ (row.state = "RUNNING" /\ next # "FAILED") => row.lease = "live"

Updated(a, next, pages) ==
  [attempt EXCEPT ![a].state = next, ![a].pages = pages, ![a].at = day,
                  ![a].revision = @ + 1,
                  ![a].lease = IF next = "RUNNING" THEN "live" ELSE "none"]

(* Variant of CleanupAfter, a failed removal forgotten. *)
NoCleanupAfter(a, reason) == cleanup

CleanupAfter(a, reason) ==
  IF reason = "COLOR_CLEANUP_FAILED" THEN cleanup \cup {a} ELSE cleanup

(* create_color: an id that is known, or a job that is not COMPLETED, adds nothing. *)
CreateColor(a, j) ==
  /\ attempt[a] = Absent
  /\ job[j].row = "ended"
  /\ attempt' = [attempt EXCEPT ![a] = [Absent EXCEPT !.job = j, !.state = "QUEUED", !.at = day]]
  /\ UNCHANGED <<storeVars, cleanup, diskVars, colorist, faults>>

CancelColor(a) ==
  /\ MayUpdate(a, 0, "CANCELLED", 0)
  /\ attempt' = Updated(a, "CANCELLED", 0)
  /\ UNCHANGED <<storeVars, cleanup, diskVars, colorist, faults>>

(* Ten minutes pass without a page. *)
LeaseLapses(a) ==
  /\ attempt[a].lease = "live"
  /\ attempt' = [attempt EXCEPT ![a].lease = "lapsed"]
  /\ UNCHANGED <<storeVars, cleanup, diskVars, colorist, faults>>

----------------------------------------------------------------------------
(* One pass of the worker: tick. *)
At(pc) == colorist.pc = pc
Goes(pc) == colorist' = [colorist EXCEPT !.pc = pc]
Ends == colorist' = Idle
Fault == faults < MaxFaults /\ faults' = faults + 1

BeginTick ==
  /\ At("idle")
  /\ colorist' = [Idle EXCEPT !.pc = "cleaning", !.todo = cleanup]
  /\ UNCHANGED <<storeVars, rowVars, diskVars, faults>>

(* cleanup_attempt removes the containers of an attempt; its failure ends the pass. *)
RemoveContainers(a, nextPc) ==
  /\ containers' = containers \ {a}
  /\ colorist' = [colorist EXCEPT !.pc = nextPc, !.a = a, !.todo = @ \ {a}]
  /\ UNCHANGED faults

CleanPending ==
  /\ At("cleaning")
  /\ \E a \in colorist.todo : \/ RemoveContainers(a, "forget")
                              \/ Fault /\ Ends /\ UNCHANGED containers
  /\ UNCHANGED <<storeVars, rowVars, stages, outputs>>

ForgetCleanup ==
  /\ At("forget")
  /\ cleanup' = cleanup \ {colorist.a}
  /\ Goes("cleaning")
  /\ UNCHANGED <<storeVars, attempt, diskVars, faults>>

ListExpired ==
  /\ At("cleaning") /\ colorist.todo = {}
  /\ colorist' = [colorist EXCEPT !.pc = "expiring",
                                  !.todo = {a \in Attempts : attempt[a].lease = "lapsed"}]
  /\ UNCHANGED <<storeVars, rowVars, diskVars, faults>>

CleanExpired ==
  /\ At("expiring")
  /\ \E a \in colorist.todo : \/ RemoveContainers(a, "expire")
                              \/ Fault /\ Ends /\ UNCHANGED containers
  /\ UNCHANGED <<storeVars, rowVars, stages, outputs>>

FailExpired ==
  LET a == colorist.a IN
  /\ At("expire")
  /\ attempt' = Updated(a, "FAILED", attempt[a].pages)
  /\ Goes("expiring")
  /\ UNCHANGED <<storeVars, cleanup, diskVars, faults>>

(* next_color: the oldest in line; ids break ties, in no order the model knows. *)
Waiting == {a \in Attempts : attempt[a].state = "QUEUED"}
NextInLine == {a \in Waiting : \A b \in Waiting : attempt[a].at <= attempt[b].at}

PickColor ==
  /\ At("expiring") /\ colorist.todo = {}
  /\ \/ \E a \in NextInLine : colorist' = [colorist EXCEPT !.pc = "claim", !.a = a]
     \/ Waiting = {} /\ Ends
  /\ UNCHANGED <<storeVars, rowVars, diskVars, faults>>

ClaimColor ==
  LET a == colorist.a IN
  /\ At("claim")
  /\ IF MayUpdate(a, 0, "RUNNING", 0)
     THEN attempt' = Updated(a, "RUNNING", 0) /\ Goes("stage")
     ELSE Ends /\ UNCHANGED attempt
  /\ UNCHANGED <<storeVars, cleanup, diskVars, faults>>

----------------------------------------------------------------------------
(* process: the pages, then the publication.  Whatever ends it drops the   *)
(* staging directory and leaves an outcome for tick to record.             *)
Outcome(code) == colorist' = [colorist EXCEPT !.pc = "settle", !.outcome = code]
Abandons(code) == Outcome(code) /\ stages' = stages \ {colorist.a}

MakeStage ==
  /\ At("stage")
  /\ \/ stages' = stages \cup {colorist.a} /\ Goes("page")
     \/ Outcome("COLOR_ARTIFACT_FAILED") /\ UNCHANGED stages
  /\ UNCHANGED <<storeVars, rowVars, containers, outputs, faults>>

(* The next page: its verified snapshot, then the sandbox of convert. *)
StartPage ==
  /\ At("page") /\ attempt[colorist.a].pages < Total
  /\ \/ \E code \in SourceErrors : Abandons(code) /\ UNCHANGED containers
     \/ /\ dir[attempt[colorist.a].job] = "here"
        /\ containers' = containers \cup {colorist.a}
        /\ Goes("convert")
        /\ UNCHANGED stages
  /\ UNCHANGED <<storeVars, rowVars, outputs, faults>>

(* The container ended or was killed; a removal that fails hides how it ended. *)
EndPage ==
  /\ At("convert")
  /\ \/ /\ containers' = containers \ {colorist.a}
        /\ \/ Goes("record") /\ UNCHANGED stages
           \/ \E code \in PageErrors : Abandons(code)
        /\ UNCHANGED faults
     \/ Fault /\ Abandons("COLOR_CLEANUP_FAILED") /\ UNCHANGED containers
  /\ UNCHANGED <<storeVars, rowVars, outputs>>

RecordPage ==
  LET a == colorist.a
      done == attempt[a].pages + 1 IN
  /\ At("record")
  /\ IF MayUpdate(a, attempt[a].revision, "RUNNING", done)
     THEN attempt' = Updated(a, "RUNNING", done) /\ Goes("page") /\ UNCHANGED stages
     ELSE Abandons("COLOR_ARTIFACT_FAILED") /\ UNCHANGED attempt
  /\ UNCHANGED <<storeVars, cleanup, containers, outputs, faults>>

(* Variant of PublishColor, an error of the rename overlooked. *)
RenameOverlooked ==
  LET a == colorist.a IN
  /\ At("page") /\ attempt[a].pages = Total
  /\ \/ outputs' = outputs \cup {a} /\ dir' = [dir EXCEPT ![attempt[a].job] = "here"]
     \/ UNCHANGED <<outputs, dir>>
  /\ Abandons("ok")
  /\ UNCHANGED <<day, job, rowVars, containers, faults>>

(* The staged pages are renamed to jobs/<source>/color/<id>, whose parents are made. *)
PublishColor ==
  LET a == colorist.a
      j == attempt[a].job IN
  /\ At("page") /\ attempt[a].pages = Total
  /\ \/ /\ a \notin outputs
        /\ outputs' = outputs \cup {a}
        /\ dir' = [dir EXCEPT ![j] = "here"]
        /\ Abandons("ok")
     \/ /\ \E code \in PublishErrors : Abandons(code)
        /\ UNCHANGED <<outputs, dir>>
  /\ UNCHANGED <<day, job, rowVars, containers, faults>>

(* The end of tick.  A COMPLETED that comes after the lease is refused and *)
(* leaves the row for a later pass to fail.                                *)
SettleColor ==
  LET a == colorist.a
      next == IF colorist.outcome = "ok" THEN "COMPLETED" ELSE "FAILED" IN
  /\ At("settle")
  /\ IF MayUpdate(a, attempt[a].revision, next, attempt[a].pages)
     THEN /\ attempt' = Updated(a, next, attempt[a].pages)
          /\ cleanup' = CleanupAfter(a, colorist.outcome)
     ELSE UNCHANGED rowVars
  /\ Ends
  /\ UNCHANGED <<storeVars, diskVars, faults>>

(* The process dies: its lock is free, its containers and its staging stay. *)
ColorCrash ==
  /\ ~At("idle")
  /\ Fault
  /\ Ends
  /\ UNCHANGED <<storeVars, rowVars, diskVars>>

ColorWorker ==
  \/ BeginTick \/ CleanPending \/ ForgetCleanup \/ ListExpired \/ CleanExpired
  \/ FailExpired \/ PickColor \/ ClaimColor \/ MakeStage \/ StartPage \/ EndPage
  \/ RecordPage \/ PublishColor \/ SettleColor

ColorNext ==
  \/ \E a \in Attempts : \/ \E j \in SourceJobs : CreateColor(a, j)
                         \/ CancelColor(a) \/ LeaseLapses(a)
  \/ ColorWorker \/ ColorCrash

(* Color attempts of jobs that are complete and that nobody removes. *)
DayPasses == day < MaxDay /\ day' = day + 1 /\ UNCHANGED <<job, dir, colorVars>>

ColorAloneInit ==
  /\ ColorInit
  /\ day = 0
  /\ job = [j \in SourceJobs |-> [row |-> "ended", at |-> 0, leased |-> FALSE]]
  /\ dir = [j \in SourceJobs |-> "here"]

ColorAloneNext == ColorNext \/ DayPasses

(* The worker ticks every second, and ten minutes pass. *)
ColorFairSpec ==
  /\ ColorAloneInit /\ [][ColorAloneNext]_<<storeVars, colorVars>>
  /\ WF_<<storeVars, colorVars>>(ColorWorker)
  /\ \A a \in Attempts : WF_<<storeVars, colorVars>>(LeaseLapses(a))

----------------------------------------------------------------------------
Active(a) == attempt[a].state \in {"QUEUED", "RUNNING"} \/ a \in cleanup

(* color.rs tick, sandbox.rs convert and cleanup_attempt: an attempt that  *)
(* was made ends, and leaves no container, whatever crashes, failed        *)
(* removals and lapsed leases happen on the way.                           *)
ColorEnds ==
  \A a \in Attempts : attempt[a].state = "QUEUED" ~>
    attempt[a].state \in Terminal /\ a \notin cleanup \cup containers

(* Refinement: what those see who asked for an attempt or read its pages.  *)
StateOf == [a \in Attempts |-> attempt[a].state]
Purged == {a \in Attempts : attempt[a] # Absent /\ dir[attempt[a].job] \in {"trash", "gone"}}
Readable == outputs \ Purged

Promised == INSTANCE ColorPromise WITH state <- StateOf, published <- Readable, purged <- Purged

(* The worker, its recovery and the maintenance process together implement  *)
(* what an attempt promises: it begins once, publishes at most once, is     *)
(* COMPLETED only with its pages published, and loses them only to a purge  *)
(* of its whole family, which does not come while it may still run and is   *)
(* not undone by the directory the worker makes (color.rs, maintenance.rs). *)
ColorKeepsPromise == Promised!Spec

(* A pipeline that reads the state of its color attempt sees no other moves  *)
(* than it was written for, and no attempt that disappears (pipeline.rs      *)
(* advance and close, against color.rs).                                     *)
AttemptsMoveAsSeen ==
  [][\A a \in Attempts : attempt'[a].state # attempt[a].state =>
       <<attempt[a].state, attempt'[a].state>> \in ColorMoves \cup {<<"ABSENT", "QUEUED">>}]_colorVars

(* color.rs verified_page serves the pages of a COMPLETED attempt: all of  *)
(* them are published and stay as long as the job's directory does.        *)
PagesAreKept ==
  \A a \in Attempts : attempt[a].state = "COMPLETED" =>
    attempt[a].pages = Total /\ (dir[attempt[a].job] = "here" => a \in outputs)
=============================================================================
