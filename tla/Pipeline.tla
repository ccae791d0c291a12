------------------------------ MODULE Pipeline ------------------------------
(***************************************************************************)
(* Follow-on pipelines: one row orchestrates a RIP job, a color attempt    *)
(* and a delivery that carry its id.  Pipeline workers (any number) and    *)
(* cancel requests exclude each other by a file lock; resume requests, the *)
(* job's own processes, the color worker and the delivery workers do not   *)
(* take it.                                                                *)
(*                                                                         *)
(* The job, the color attempt and the delivery appear here only with the   *)
(* state their own row shows to the pipeline.  JobQueue and Delivery say   *)
(* how they come about.  An uuid names one pipeline and its two children,  *)
(* and nobody creates a child under a pipeline's id by hand.               *)
(***************************************************************************)
EXTENDS Integers, FiniteSets, ChildStates

CONSTANTS
  Pipelines,       \* request ids, numbered in the order of (created_at, id)
  Colored,         \* those with a color stage
  Workers,         \* jrip-pipeline-worker processes
  Cancels,         \* cancel requests in flight
  Approvals,       \* execution approvals an administrator may grant
  RequireApproval, \* JRIP_REQUIRE_PRINT_APPROVAL
  NoApproval,      \* "no approval id"
  NoValue,         \* "no row read"
  NoHolder,        \* "the lock is free"
  PassLimit,       \* the LIMIT of active_pipelines (100 in the code)
  MaxRevision,     \* bound: no resume at or above this revision
  MaxMisreads,     \* bound: failing reads of a delivery explored
  MaxCrashes       \* bound: crashes of workers and requests explored

ASSUME PipelineAssumption ==
  /\ Pipelines \subseteq Nat
  /\ Colored \subseteq Pipelines
  /\ Workers \cap Cancels = {}
  /\ NoHolder \notin Workers \cup Cancels
  /\ NoApproval \notin Approvals
  /\ RequireApproval \in BOOLEAN
  /\ PassLimit \in Nat \ {0}
  /\ MaxRevision \in Nat
  /\ MaxMisreads \in Nat
  /\ MaxCrashes \in Nat

VARIABLES
  row,      \* table print_pipelines: state, reason, revision, approvalId
  job,      \* the source job's state: OPEN while it is not terminal
  color,    \* the state of the color attempt of that id
  delivery, \* the state of the delivery of that id
  grant,    \* grant[a]: the pipeline approval a was granted for, or NoValue
  lapsed,   \* approvals that have expired or been revoked
  lock,     \* pipeline-worker.lock
  pc,       \* where each worker is in its pass
  todo,     \* the ids its pass still has to advance
  result,   \* what advance returned
  stage,    \* where each cancel request is
  value,    \* the row a worker or a cancel request has read
  misreads, crashes

childVars == <<job, color, delivery>>
approvalVars == <<grant, lapsed>>
agentVars == <<pc, todo, result, stage, value>>
vars ==
  <<row, job, color, delivery, grant, lapsed, lock, pc, todo, result, stage, value, misreads, crashes>>

-----------------------------------------------------------------------------
Terminal == {"COMPLETED", "FAILED", "CANCELLED"}
Paused == {"WAITING_APPROVAL", "BLOCKED"}
Active == {"QUEUED", "RIP", "COLOR", "DELIVERY", "UNKNOWN"}
States == Terminal \cup Paused \cup Active
Reasons ==
  {"NONE", "approval_required", "refused", "invalid", "state_conflict",
   "pipeline_rip_ended", "pipeline_color_failed", "CANCELLED_BEFORE_DELIVERY"}

JobOutcomes == {"COMPLETED", "FAILED", "CANCELLED"}
ColorPending == {"QUEUED", "RUNNING"}
ColorStates == {"NONE", "COMPLETED", "FAILED", "CANCELLED"} \cup ColorPending
DeliveryEnds == {"COMPLETED", "CANCELLED", "ABORTED", "REJECTED"}
DeliveryStates == {"NONE", "QUEUED", "SENDING", "ACCEPTED", "UNKNOWN"} \cup DeliveryEnds

Agents == Workers \cup Cancels
Rows ==
  [state : States \cup {"ABSENT"}, reason : Reasons, revision : Nat,
   approval : Approvals \cup {NoApproval}]
Values ==
  [id : Pipelines, state : States \cup {"ABSENT"}, reason : Reasons, revision : Nat,
   approval : Approvals \cup {NoApproval}]
WorkerPcs == {"idle", "passing", "reading", "checking", "preparing", "writing"}
CancelStages == {"new", "closing", "writing", "answered"}

ASSUME NoValueAssumption == NoValue \notin Values \cup Pipelines

TypeOK ==
  /\ row \in [Pipelines -> Rows]
  /\ job \in [Pipelines -> JobOutcomes \cup {"OPEN", "DELETED"}]
  /\ color \in [Pipelines -> ColorStates]
  /\ delivery \in [Pipelines -> DeliveryStates]
  /\ grant \in [Approvals -> Pipelines \cup {NoValue}]
  /\ lapsed \subseteq Approvals
  /\ lock \in Agents \cup {NoHolder}
  /\ pc \in [Workers -> WorkerPcs]
  /\ todo \in [Workers -> SUBSET Pipelines]
  /\ value \in [Agents -> Values \cup {NoValue}]
  /\ stage \in [Cancels -> CancelStages]
  /\ result \in [Workers -> [state : States, reason : Reasons]]
  /\ misreads \in 0..MaxMisreads
  /\ crashes \in 0..MaxCrashes

-----------------------------------------------------------------------------
(* The table                                                                *)

Read(p) ==
  [id |-> p, state |-> row[p].state, reason |-> row[p].reason,
   revision |-> row[p].revision, approval |-> row[p].approval]

\* WHERE id = ? AND revision = ?
Matches(v) == row[v.id].revision = v.revision

Update(v, next, why, approval) ==
  row' = [row EXCEPT ![v.id] =
    [state |-> next, reason |-> why, revision |-> v.revision + 1, approval |-> approval]]

(* Variant of LockFree, everybody proceeds. *)
LockIgnored == TRUE

(* Nobody else holds the file lock: the process ends, the lock is free. *)
LockFree == lock = NoHolder

-----------------------------------------------------------------------------
(* REST: create, resume                                                     *)

(* At a job that has not failed, or together with the job. *)
Create(p) ==
  /\ row[p].state = "ABSENT"
  /\ \A q \in Pipelines : q < p => row[q].state # "ABSENT"
  /\ job[p] \in {"OPEN", "COMPLETED"}
  /\ row' = [row EXCEPT ![p].state = "QUEUED"]
  /\ UNCHANGED <<childVars, approvalVars, lock, agentVars, misreads, crashes>>

(* The creator continues a paused pipeline, naming an approval or none.    *)
(* It is no approval of the pipeline's worker, which checks it.             *)
Resume(p, a) ==
  /\ row[p].state \in Paused
  /\ row[p].revision < MaxRevision
  /\ Update(Read(p), "QUEUED", "NONE", a)
  /\ UNCHANGED <<childVars, approvalVars, lock, agentVars, misreads, crashes>>

-----------------------------------------------------------------------------
(* One pass of a worker: `tick`                                             *)

GoTo(w, from, to) == pc[w] = from /\ pc' = [pc EXCEPT ![w] = to]

(* Variant of ActivePipelines, a state left out. *)
UnknownLeftOut == {p \in Pipelines : row[p].state \in Active \ {"UNKNOWN"}}

ActivePipelines == {p \in Pipelines : row[p].state \in Active}

Listed ==
  {p \in ActivePipelines : Cardinality({q \in ActivePipelines : q < p}) < PassLimit}

StartPass(w) ==
  /\ LockFree
  /\ GoTo(w, "idle", "passing")
  /\ lock' = w
  /\ todo' = [todo EXCEPT ![w] = Listed]
  /\ UNCHANGED <<row, childVars, approvalVars, result, stage, value, misreads, crashes>>

ReadRow(w) ==
  /\ GoTo(w, "passing", "reading")
  /\ \E p \in todo[w] :
       /\ \A q \in todo[w] : p <= q
       /\ value' = [value EXCEPT ![w] = Read(p)]
       /\ todo' = [todo EXCEPT ![w] = @ \ {p}]
  /\ UNCHANGED <<row, childVars, approvalVars, lock, result, stage, misreads, crashes>>

EndPass(w) ==
  /\ todo[w] = {}
  /\ GoTo(w, "passing", "idle")
  /\ lock' = NoHolder
  /\ UNCHANGED <<row, childVars, approvalVars, todo, result, stage, value, misreads, crashes>>

(* What advance returns, from the places it may return at. *)
Returns(w, from, next, why) ==
  /\ GoTo(w, from, "writing")
  /\ result' = [result EXCEPT ![w] = [state |-> next, reason |-> why]]
  /\ UNCHANGED <<row, job, approvalVars, lock, todo, stage, value, crashes>>

(* The creator's credential is gone, the printer's settings have changed,  *)
(* or the storage fails: FORBIDDEN or INTERNAL_SERVER_ERROR.                *)
Refused(w) ==
  /\ \E from \in {"reading", "checking", "preparing"} : Returns(w, from, "BLOCKED", "refused")
  /\ UNCHANGED <<color, delivery, misreads>>

(* The pipeline's state for the state of its delivery. *)
Followed(s) ==
  CASE s \in {"COMPLETED", "UNKNOWN", "CANCELLED"} -> s
    [] s \in {"ABORTED", "REJECTED"} -> "FAILED"
    [] OTHER -> "DELIVERY"

Follow(w) ==
  /\ pc[w] = "reading"
  /\ delivery[value[w].id] # "NONE"
  /\ Returns(w, "reading", Followed(delivery[value[w].id]), "NONE")
  /\ UNCHANGED <<color, delivery, misreads>>

(* A delivery that cannot be read counts as none (if let Ok). *)
SeesNoDelivery(p) ==
  IF delivery[p] = "NONE" THEN misreads' = misreads
  ELSE misreads < MaxMisreads /\ misreads' = misreads + 1

SeeNoDelivery(w) ==
  /\ GoTo(w, "reading", "checking")
  /\ SeesNoDelivery(value[w].id)
  /\ UNCHANGED <<row, childVars, approvalVars, lock, todo, result, stage, value, crashes>>

WaitForRip(w) ==
  /\ pc[w] = "checking"
  /\ job[value[w].id] = "OPEN"
  /\ Returns(w, "checking", "RIP", "NONE")
  /\ UNCHANGED <<color, delivery, misreads>>

RipEnded(w) ==
  /\ pc[w] = "checking"
  /\ job[value[w].id] \in {"FAILED", "CANCELLED", "DELETED"}
  /\ Returns(w, "checking", "FAILED", "pipeline_rip_ended")
  /\ UNCHANGED <<color, delivery, misreads>>

(* The job is done, but the printer is no longer configured, or does not   *)
(* take what the ticket asks for: BAD_REQUEST.                              *)
Invalid(w) ==
  /\ pc[w] \in {"checking", "preparing"}
  /\ job[value[w].id] = "COMPLETED"
  /\ Returns(w, pc[w], "FAILED", "invalid")
  /\ UNCHANGED <<color, delivery, misreads>>

StartColor(w) ==
  LET p == value[w].id IN
  /\ pc[w] = "checking"
  /\ job[p] = "COMPLETED" /\ p \in Colored /\ color[p] = "NONE"
  /\ color' = [color EXCEPT ![p] = "QUEUED"]
  /\ Returns(w, "checking", "COLOR", "NONE")
  /\ UNCHANGED <<delivery, misreads>>

WaitForColor(w) ==
  LET p == value[w].id IN
  /\ pc[w] = "checking"
  /\ job[p] = "COMPLETED" /\ p \in Colored /\ color[p] \in ColorPending
  /\ Returns(w, "checking", "COLOR", "NONE")
  /\ UNCHANGED <<color, delivery, misreads>>

ColorFailed(w) ==
  LET p == value[w].id IN
  /\ pc[w] = "checking"
  /\ job[p] = "COMPLETED" /\ p \in Colored /\ color[p] \in {"FAILED", "CANCELLED"}
  /\ Returns(w, "checking", "FAILED", "pipeline_color_failed")
  /\ UNCHANGED <<color, delivery, misreads>>

ReadyToPrint(p) == job[p] = "COMPLETED" /\ (p \in Colored => color[p] = "COMPLETED")

(* delivery::prepare.  A delivery of that id is returned as it is. *)
FindDelivery(w) ==
  /\ pc[w] = "checking"
  /\ ReadyToPrint(value[w].id)
  /\ delivery[value[w].id] # "NONE"
  /\ Returns(w, "checking", "DELIVERY", "NONE")
  /\ UNCHANGED <<color, delivery, misreads>>

(* Variant of Approved, a lapsed approval still counts. *)
ApprovedIfGranted(v) ==
  RequireApproval => v.approval \in Approvals /\ grant[v.approval] = v.id

(* check_delivery: the approval named in the row is granted and not over. *)
Approved(v) ==
  RequireApproval => v.approval \in Approvals \ lapsed /\ grant[v.approval] = v.id

WaitForApproval(w) ==
  /\ pc[w] = "checking"
  /\ ReadyToPrint(value[w].id)
  /\ SeesNoDelivery(value[w].id)
  /\ ~Approved(value[w])
  /\ Returns(w, "checking", "WAITING_APPROVAL", "approval_required")
  /\ UNCHANGED <<color, delivery>>

(* From here on the document is converted, which may take long. *)
Prepare(w) ==
  /\ GoTo(w, "checking", "preparing")
  /\ ReadyToPrint(value[w].id)
  /\ SeesNoDelivery(value[w].id)
  /\ Approved(value[w])
  /\ UNCHANGED <<row, childVars, approvalVars, lock, todo, result, stage, value, crashes>>

(* enqueue_contract_delivery checks job, color and approval once more. *)
Enqueue(w) ==
  LET p == value[w].id IN
  /\ pc[w] = "preparing"
  /\ \/ /\ ReadyToPrint(p) /\ Approved(value[w])
        /\ delivery' = [delivery EXCEPT ![p] = IF @ = "NONE" THEN "QUEUED" ELSE @]
        /\ Returns(w, "preparing", "DELIVERY", "NONE")
     \/ /\ ~(ReadyToPrint(p) /\ Approved(value[w]))
        /\ Returns(w, "preparing", "FAILED", "state_conflict")
        /\ delivery' = delivery
  /\ UNCHANGED <<color, misreads>>

(* Nothing is written when nothing has changed, or when the revision did. *)
Write(w) ==
  LET v == value[w] IN
  /\ GoTo(w, "writing", "passing")
  /\ IF <<v.state, v.reason>> # <<result[w].state, result[w].reason>> /\ Matches(v)
     THEN Update(v, result[w].state, result[w].reason, v.approval)
     ELSE row' = row
  /\ value' = [value EXCEPT ![w] = NoValue]
  /\ UNCHANGED <<childVars, approvalVars, lock, todo, result, stage, misreads, crashes>>

WorkerStep(w) ==
  \/ StartPass(w) \/ ReadRow(w) \/ EndPass(w)
  \/ Refused(w) \/ Follow(w) \/ SeeNoDelivery(w)
  \/ WaitForRip(w) \/ RipEnded(w) \/ Invalid(w)
  \/ StartColor(w) \/ WaitForColor(w) \/ ColorFailed(w)
  \/ FindDelivery(w) \/ WaitForApproval(w) \/ Prepare(w) \/ Enqueue(w)
  \/ Write(w)

(* A worker dies, or a storage error ends its pass. *)
WorkerCrash(w) ==
  /\ pc[w] # "idle"
  /\ crashes < MaxCrashes
  /\ crashes' = crashes + 1
  /\ pc' = [pc EXCEPT ![w] = "idle"]
  /\ todo' = [todo EXCEPT ![w] = {}]
  /\ value' = [value EXCEPT ![w] = NoValue]
  /\ lock' = NoHolder
  /\ UNCHANGED <<row, childVars, approvalVars, result, stage, misreads>>

-----------------------------------------------------------------------------
(* REST: cancel, under the same lock                                        *)

(* Variant of Cancellable, an ended row too. *)
CancellableIfFailed(s) == s \notin {"ABSENT", "COMPLETED", "CANCELLED"}

Cancellable(s) == s \notin Terminal \cup {"ABSENT"}

BeginCancel(c, p) ==
  /\ stage[c] = "new"
  /\ LockFree
  /\ Cancellable(row[p].state)
  /\ delivery[p] = "NONE"
  /\ lock' = c
  /\ value' = [value EXCEPT ![c] = Read(p)]
  /\ stage' = [stage EXCEPT ![c] = "closing"]
  /\ UNCHANGED <<row, childVars, approvalVars, pc, todo, result, misreads, crashes>>

(* A waiting color attempt is cancelled with its pipeline.                  *)
CloseColor(c) ==
  LET p == value[c].id IN
  /\ stage[c] = "closing"
  /\ color[p] # "RUNNING"
  /\ color' = [color EXCEPT ![p] = IF @ = "QUEUED" THEN "CANCELLED" ELSE @]
  /\ stage' = [stage EXCEPT ![c] = "writing"]
  /\ UNCHANGED <<row, job, delivery, approvalVars, lock, pc, todo, result, value, misreads, crashes>>

(* Variant of Answered, the lock kept. *)
AnsweredWithLock(c) ==
  /\ stage' = [stage EXCEPT ![c] = "answered"]
  /\ value' = [value EXCEPT ![c] = NoValue]
  /\ lock' = lock

Answered(c) ==
  /\ stage' = [stage EXCEPT ![c] = "answered"]
  /\ value' = [value EXCEPT ![c] = NoValue]
  /\ lock' = NoHolder

WriteCancelled(c) ==
  /\ stage[c] = "writing"
  /\ IF Matches(value[c])
     THEN Update(value[c], "CANCELLED", "CANCELLED_BEFORE_DELIVERY", NoApproval)
     ELSE row' = row
  /\ Answered(c)
  /\ UNCHANGED <<childVars, approvalVars, pc, todo, result, misreads, crashes>>

(* The color attempt runs already or is claimed right now, the storage     *)
(* fails, or the client hangs up.                                           *)
GiveUpCancel(c) ==
  /\ stage[c] \in {"closing", "writing"}
  /\ Answered(c)
  /\ UNCHANGED <<row, childVars, approvalVars, pc, todo, result, misreads, crashes>>

CancelStep(c) == CloseColor(c) \/ WriteCancelled(c) \/ GiveUpCancel(c)

-----------------------------------------------------------------------------
(* The job, the color worker, the delivery workers, the administrator       *)

JobEnds(p) ==
  /\ job[p] = "OPEN"
  /\ \E end \in JobOutcomes : job' = [job EXCEPT ![p] = end]
  /\ UNCHANGED <<row, color, delivery, approvalVars, lock, agentVars, misreads, crashes>>

(* Variant of Deletable, paused pipelines forgotten. *)
DeletableUnlessActive(p) == row[p].state \notin Active

Deletable(p) == row[p].state \in Terminal \cup {"ABSENT"}

DeleteJob(p) ==
  /\ job[p] \in JobOutcomes
  /\ Deletable(p)
  /\ color[p] \notin ColorPending
  /\ job' = [job EXCEPT ![p] = "DELETED"]
  /\ UNCHANGED <<row, color, delivery, approvalVars, lock, agentVars, misreads, crashes>>

ColorGoes(p) ==
  /\ \E next \in ColorStates :
       /\ <<color[p], next>> \in ColorMoves
       /\ color' = [color EXCEPT ![p] = next]
  /\ UNCHANGED <<row, job, delivery, approvalVars, lock, agentVars, misreads, crashes>>

DeliveryGoes(p) ==
  /\ \E next \in DeliveryStates :
       /\ <<delivery[p], next>> \in DeliveryMoves
       /\ delivery' = [delivery EXCEPT ![p] = next]
  /\ UNCHANGED <<row, job, color, approvalVars, lock, agentVars, misreads, crashes>>

Grant(a, p) ==
  /\ grant[a] = NoValue
  /\ ReadyToPrint(p)
  /\ grant' = [grant EXCEPT ![a] = p]
  /\ UNCHANGED <<row, childVars, lapsed, lock, agentVars, misreads, crashes>>

(* After five minutes, or when an administrator revokes it. *)
Lapse(a) ==
  /\ grant[a] # NoValue
  /\ a \notin lapsed
  /\ lapsed' = lapsed \cup {a}
  /\ UNCHANGED <<row, childVars, grant, lock, agentVars, misreads, crashes>>

-----------------------------------------------------------------------------
Init ==
  /\ row = [p \in Pipelines |->
       [state |-> "ABSENT", reason |-> "NONE", revision |-> 0, approval |-> NoApproval]]
  /\ job = [p \in Pipelines |-> "OPEN"]
  /\ color = [p \in Pipelines |-> "NONE"]
  /\ delivery = [p \in Pipelines |-> "NONE"]
  /\ grant = [a \in Approvals |-> NoValue]
  /\ lapsed = {}
  /\ lock = NoHolder
  /\ pc = [w \in Workers |-> "idle"]
  /\ todo = [w \in Workers |-> {}]
  /\ result = [w \in Workers |-> [state |-> "QUEUED", reason |-> "NONE"]]
  /\ stage = [c \in Cancels |-> "new"]
  /\ value = [x \in Agents |-> NoValue]
  /\ misreads = 0
  /\ crashes = 0

Next ==
  \/ \E p \in Pipelines :
       \/ Create(p) \/ JobEnds(p) \/ DeleteJob(p) \/ ColorGoes(p) \/ DeliveryGoes(p)
       \/ \E a \in Approvals : Grant(a, p)
       \/ \E a \in Approvals \cup {NoApproval} : Resume(p, a)
       \/ \E c \in Cancels : BeginCancel(c, p)
  \/ \E a \in Approvals : Lapse(a)
  \/ \E w \in Workers : WorkerStep(w) \/ WorkerCrash(w)
  \/ \E c \in Cancels : CancelStep(c)

Spec == Init /\ [][Next]_vars

(* A worker that runs makes its passes; a cancel request that has the lock *)
(* is answered.  Nobody is bound to resume, grant, render or print.        *)
FairSpec ==
  /\ Spec
  /\ \A w \in Workers : WF_vars(WorkerStep(w))
  /\ \A c \in Cancels : WF_vars(CancelStep(c))

-----------------------------------------------------------------------------
(* Safety                                                                   *)

Open(p) == row[p].state \in Paused \cup Active
Advancing(w) == pc[w] \notin {"idle", "passing"}
Closing(c) == stage[c] \in {"closing", "writing"}

\* A cancelled pipeline has nothing left that could still run: no color
\* attempt waits or runs, and nothing of it reaches or has reached paper.
\* The cancel request and the worker that creates the children are kept
\* apart only by the file lock, and a resume request takes no lock.
CancelledIsQuiet ==
  \A p \in Pipelines : row[p].state = "CANCELLED" =>
    color[p] \notin ColorPending /\ delivery[p] \in {"NONE", "CANCELLED"}

\* A pipeline says COMPLETED only of a document the printer has reported
\* printed, made from the color attempt it asked for.
CompletedIsPrinted ==
  \A p \in Pipelines : row[p].state = "COMPLETED" =>
    delivery[p] = "COMPLETED" /\ (p \in Colored => color[p] = "COMPLETED")

\* The source job is not deleted while its pipeline may still go on, a color
\* attempt reads its pages, or a worker that read the row earlier is still
\* preparing a delivery from it.
SourceKept ==
  /\ \A p \in Pipelines : Open(p) \/ color[p] \in ColorPending => job[p] # "DELETED"
  /\ \A w \in Workers : Advancing(w) => job[value[w].id] # "DELETED"

\* Color attempts and deliveries are created only for a pipeline whose row is
\* active at that moment, however old the row is that the worker read.
ChildrenOfActive ==
  [][\A p \in Pipelines :
       (color[p] = "NONE" /\ color'[p] # "NONE") \/ (delivery[p] = "NONE" /\ delivery'[p] # "NONE")
         => row[p].state \in Active]_vars

\* With approval required, every delivery is created under an approval that
\* was granted for this pipeline and is not over at that moment, although the
\* worker checks it before a conversion of any length.
PrintedWithApproval ==
  [][\A p \in Pipelines : RequireApproval /\ delivery[p] = "NONE" /\ delivery'[p] # "NONE" =>
       \E a \in Approvals \ lapsed : grant[a] = p /\ row[p].approval = a]_vars

-----------------------------------------------------------------------------
(* The inductive invariant                                                  *)

LockHeld ==
  /\ \A w \in Workers : pc[w] # "idle" <=> lock = w
  /\ \A c \in Cancels : Closing(c) <=> lock = c

(* What a worker has read is still so: only resume changes rows without the *)
(* lock, and it changes paused rows only.                                   *)
ReadingsHold ==
  \A w \in Workers :
    /\ pc[w] # "idle" => \A p \in todo[w] : row[p].state \in Active
    /\ Advancing(w) =>
         /\ value[w] \in Values
         /\ value[w] = Read(value[w].id)
         /\ value[w].state \in Active
         /\ value[w].id \notin todo[w]

VerdictsHold ==
  \A w \in Workers : pc[w] = "writing" =>
    /\ result[w].state = "COMPLETED" => delivery[value[w].id] = "COMPLETED"
    /\ result[w].state = "CANCELLED" => delivery[value[w].id] = "CANCELLED"

(* A resume request may have changed the row under a cancel request.        *)
ClosingsHold ==
  \A c \in Cancels : Closing(c) =>
    /\ value[c] \in Values
    /\ Open(value[c].id)
    /\ delivery[value[c].id] = "NONE"
    /\ stage[c] = "writing" => color[value[c].id] \notin ColorPending

ColorComesFirst ==
  \A p \in Pipelines :
    IF p \in Colored THEN delivery[p] # "NONE" => color[p] = "COMPLETED" ELSE color[p] = "NONE"

IInv ==
  /\ TypeOK
  /\ LockHeld
  /\ ReadingsHold
  /\ VerdictsHold
  /\ ClosingsHold
  /\ ColorComesFirst
  /\ CancelledIsQuiet
  /\ CompletedIsPrinted
  /\ SourceKept

-----------------------------------------------------------------------------
\* The workers, the cancel requests and the lock implement the promise.
child ==
  [p \in Pipelines |->
    CASE delivery[p] = "NONE" -> "none"
      [] delivery[p] = "COMPLETED" -> "printed"
      [] delivery[p] = "CANCELLED" -> "withdrawn"
      [] delivery[p] \in {"ABORTED", "REJECTED"} -> "failed"
      [] OTHER -> "running"]

ended == [p \in Pipelines |-> IF row[p].state \in Terminal THEN row[p].state ELSE "open"]

Promise == INSTANCE PipelinePromise
KeepsPromise == Promise!Spec

-----------------------------------------------------------------------------
(* Liveness                                                                 *)

\* An active pipeline follows its delivery to its end: once the delivery has
\* an outcome, later passes write it into the row (or the row blocks).
OutcomeFollows ==
  \A p \in Pipelines :
    delivery[p] \in DeliveryEnds /\ row[p].state \in Active ~> row[p].state \notin Active

\* An active pipeline whose raster is ready, with its color attempt if it has
\* one, gets its delivery or stops being active with a reason.
ReadyIsDelivered ==
  \A p \in Pipelines :
    ReadyToPrint(p) /\ row[p].state \in Active ~> delivery[p] # "NONE" \/ row[p].state \notin Active

-----------------------------------------------------------------------------
(* What docs/PIPELINE.md says and the code does not do                      *)

\* An approval that expires or is revoked makes the pipeline wait again: it
\* does not fail for that (docs/PIPELINE.md:19).
LapsedApprovalWaits ==
  \A p \in Pipelines :
    row[p].state = "FAILED" /\ row[p].reason = "state_conflict" => ~ReadyToPrint(p)
=============================================================================
