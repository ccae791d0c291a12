----------------------------- MODULE Inspection -----------------------------
(***************************************************************************)
(* Asynchronous inspections of a PDF: requests that upload a document into *)
(* inspection-queue, the row that registers it, one worker (the lock of    *)
(* inspection-worker.lock) that runs a container per request, cleans up    *)
(* behind it, and reclaims directories no row names.                       *)
(***************************************************************************)
EXTENDS Naturals, Sequences, FiniteSets

CONSTANTS Inspections,    \* ids, chosen by the clients
          Submissions,    \* uploads, each with a directory of a fresh id
          NoSubmission,
          QueueLimit,     \* rows with cleanup pending that are admitted
          MaxInspectionFaults

ASSUME InspectionAssumption ==
  NoSubmission \notin Submissions /\ QueueLimit \in Nat \ {0} /\ MaxInspectionFaults \in Nat

VARIABLES
  inspection,    \* Inspections -> row of inspection_requests
  order,         \* ids in the order of their rowid
  reports,       \* ids with a row in document_inspections
  submission,    \* Submissions -> control state of the upload, and its id
  queueDir,      \* Submissions -> where its directory is
  sandboxes,     \* inspections with a container
  inspector,     \* the process that holds inspection-worker.lock
  mishaps        \* failed calls and crashes so far

inspectionVars == <<inspection, order, reports, submission, queueDir, sandboxes, inspector, mishaps>>

----------------------------------------------------------------------------
InspectionEnds == {"COMPLETED", "FAILED", "CANCELLED"}
NoInspection == [state |-> "none", revision |-> 0, dir |-> NoSubmission, cleanup |-> FALSE]
NotSubmitted == [pc |-> "idle", id |-> "none"]
Uploading == {"staging", "published"}
NoRow == [id |-> "none", state |-> "none", revision |-> 0, place |-> 0]
Resting == [pc |-> "idle", todo |-> {}, here |-> NoRow, report |-> FALSE,
            dirs |-> {}, dir |-> [s |-> NoSubmission, at |-> "none"]]

InspectionTypeOK ==
  /\ \A i \in Inspections : inspection[i] = NoInspection \/
       inspection[i] \in [state : {"QUEUED", "RUNNING"} \cup InspectionEnds, revision : 0..2,
                          dir : Submissions, cleanup : BOOLEAN]
  /\ reports \subseteq Inspections /\ sandboxes \subseteq Inspections
  /\ \A s \in Submissions : submission[s].pc \in {"idle", "over"} \cup Uploading
  /\ queueDir \in [Submissions -> {"none", "staging", "published", "gone"}]
  /\ mishaps \in 0..MaxInspectionFaults

InspectionInit ==
  /\ inspection = [i \in Inspections |-> NoInspection]
  /\ order = <<>> /\ reports = {} /\ sandboxes = {}
  /\ submission = [s \in Submissions |-> NotSubmitted]
  /\ queueDir = [s \in Submissions |-> "none"]
  /\ inspector = Resting /\ mishaps = 0

rowsSame == UNCHANGED <<inspection, order, reports>>
Mishap == mishaps < MaxInspectionFaults /\ mishaps' = mishaps + 1
LockHeld(s) == submission[s].pc \in Uploading

----------------------------------------------------------------------------
(* submit: stage under a locked directory, publish it by its rename, then  *)
(* register it.                                                            *)
BeginSubmission(s, i) ==
  /\ submission[s] = NotSubmitted
  /\ submission' = [submission EXCEPT ![s] = [pc |-> "staging", id |-> i]]
  /\ queueDir' = [queueDir EXCEPT ![s] = "staging"]
  /\ UNCHANGED <<sandboxes, inspector, mishaps>> /\ rowsSame

PublishSubmission(s) ==
  /\ submission[s].pc = "staging"
  /\ queueDir' = [queueDir EXCEPT ![s] = "published"]
  /\ submission' = [submission EXCEPT ![s].pc = "published"]
  /\ UNCHANGED <<sandboxes, inspector, mishaps>> /\ rowsSame

(* enqueue_inspection, and the end of submit.  An id that is known, or a   *)
(* full queue, registers nothing and the directory is removed.             *)
ToClean == {n \in DOMAIN order : inspection[order[n]].cleanup}

Admitted(i) ==
  /\ inspection[i] = NoInspection /\ i \notin reports
  /\ Cardinality(ToClean) < QueueLimit

RegisterSubmission(s) ==
  LET i == submission[s].id IN
  /\ submission[s].pc = "published"
  /\ IF Admitted(i)
     THEN /\ inspection' = [inspection EXCEPT ![i] = [state |-> "QUEUED", revision |-> 0,
                                                      dir |-> s, cleanup |-> TRUE]]
          /\ order' = Append(order, i)
          /\ UNCHANGED queueDir
     ELSE /\ queueDir' = [queueDir EXCEPT ![s] = "gone"]
          /\ UNCHANGED <<inspection, order>>
  /\ submission' = [submission EXCEPT ![s].pc = "over"]
  /\ UNCHANGED <<reports, sandboxes, inspector, mishaps>>

(* The client goes away, or the server dies. *)
AbandonSubmission(s) ==
  /\ LockHeld(s) /\ Mishap
  /\ submission' = [submission EXCEPT ![s].pc = "over"]
  /\ UNCHANGED <<queueDir, sandboxes, inspector>> /\ rowsSame

(* set_inspection_state: the row at the revision its caller read. *)
InspectionMoves == {<<"QUEUED", "RUNNING">>, <<"QUEUED", "FAILED">>, <<"QUEUED", "CANCELLED">>,
                    <<"RUNNING", "COMPLETED">>, <<"RUNNING", "FAILED">>}

MaySet(i, revision, next) ==
  /\ inspection[i].revision = revision /\ <<inspection[i].state, next>> \in InspectionMoves
  /\ next = "COMPLETED" => i \notin reports

Sets(i, next) ==
  /\ inspection' = [inspection EXCEPT ![i].state = next, ![i].revision = @ + 1]
  /\ reports' = IF next = "COMPLETED" THEN reports \cup {i} ELSE reports
  /\ UNCHANGED order

CancelInspection(i) ==
  /\ MaySet(i, 0, "CANCELLED") /\ Sets(i, "CANCELLED")
  /\ UNCHANGED <<submission, queueDir, sandboxes, inspector, mishaps>>

----------------------------------------------------------------------------
(* tick.  An error anywhere ends the pass; the next one starts over.       *)
InspectorAt(pc) == inspector.pc = pc
Here == inspector.here
Proceeds(pc) == inspector' = [inspector EXCEPT !.pc = pc]
PassEnds == inspector' = Resting

(* inspection_work: the rows to clean up, as they are now. *)
BeginPass ==
  /\ InspectorAt("idle")
  /\ inspector' = [Resting EXCEPT !.pc = "next",
       !.todo = {[id |-> order[n], state |-> inspection[order[n]].state,
                  revision |-> inspection[order[n]].revision, place |-> n] : n \in ToClean}]
  /\ UNCHANGED <<submission, queueDir, sandboxes, mishaps>> /\ rowsSame

(* The rows in the order of their rowid. *)
TakeRow ==
  /\ InspectorAt("next")
  /\ \E row \in inspector.todo :
       /\ \A other \in inspector.todo : row.place <= other.place
       /\ inspector' = [inspector EXCEPT !.todo = @ \ {row}, !.here = row,
            !.pc = CASE row.state = "RUNNING" -> "interrupted"
                     [] row.state = "QUEUED" -> "start"
                     [] OTHER -> "clean"]
  /\ UNCHANGED <<submission, queueDir, sandboxes, mishaps>> /\ rowsSame

(* Variant of RemoveSandbox, its failure ignored. *)
RemovalIgnored(i, pc) == sandboxes' \in {sandboxes, sandboxes \ {i}} /\ Proceeds(pc) /\ UNCHANGED mishaps

(* cleanup_inspection removes the containers of an inspection, or fails. *)
RemoveSandbox(i, pc) ==
  \/ sandboxes' = sandboxes \ {i} /\ Proceeds(pc) /\ UNCHANGED mishaps
  \/ Mishap /\ PassEnds /\ UNCHANGED sandboxes

(* Nobody else has the worker's lock: what runs was left by a dead worker. *)
CleanInterrupted ==
  /\ InspectorAt("interrupted")
  /\ RemoveSandbox(Here.id, "fail")
  /\ UNCHANGED <<submission, queueDir>> /\ rowsSame

FailInterrupted ==
  /\ InspectorAt("fail")
  /\ IF MaySet(Here.id, Here.revision, "FAILED")
     THEN Sets(Here.id, "FAILED") /\ Proceeds("clean")
     ELSE PassEnds /\ rowsSame
  /\ UNCHANGED <<submission, queueDir, sandboxes, mishaps>>

StartInspection ==
  /\ InspectorAt("start")
  /\ IF MaySet(Here.id, Here.revision, "RUNNING")
     THEN Sets(Here.id, "RUNNING") /\ Proceeds("inspect")
     ELSE PassEnds /\ rowsSame
  /\ UNCHANGED <<submission, queueDir, sandboxes, mishaps>>

(* The snapshot and the container; without the document there is none.     *)
Inspect ==
  /\ InspectorAt("inspect")
  /\ \/ /\ queueDir[inspection[Here.id].dir] = "published"
        /\ sandboxes' = sandboxes \cup {Here.id} /\ Proceeds("running")
     \/ Proceeds("settle") /\ UNCHANGED sandboxes
  /\ UNCHANGED <<submission, queueDir, mishaps>> /\ rowsSame

(* Variant of EndSandbox, the report kept although the container is. *)
ReportKept ==
  /\ InspectorAt("running")
  /\ \E report \in BOOLEAN : inspector' = [inspector EXCEPT !.pc = "settle", !.report = report]
  /\ \/ sandboxes' = sandboxes \ {Here.id} /\ UNCHANGED mishaps
     \/ Mishap /\ UNCHANGED sandboxes
  /\ UNCHANGED <<submission, queueDir>> /\ rowsSame

EndSandbox ==
  /\ InspectorAt("running")
  /\ \/ /\ sandboxes' = sandboxes \ {Here.id} /\ UNCHANGED mishaps
        /\ \E report \in BOOLEAN :
             inspector' = [inspector EXCEPT !.pc = "settle", !.report = report]
     \/ Mishap /\ Proceeds("settle") /\ UNCHANGED sandboxes     \* container_cleanup_failed
  /\ UNCHANGED <<submission, queueDir>> /\ rowsSame

SettleInspection ==
  LET next == IF inspector.report THEN "COMPLETED" ELSE "FAILED" IN
  /\ InspectorAt("settle")
  /\ IF MaySet(Here.id, Here.revision + 1, next)
     THEN Sets(Here.id, next) /\ Proceeds("clean")
     ELSE PassEnds /\ rowsSame
  /\ UNCHANGED <<submission, queueDir, sandboxes, mishaps>>

(* State and report first; then the container, the directory and the flag. *)
CleanSandbox ==
  /\ InspectorAt("clean")
  /\ RemoveSandbox(Here.id, "remove")
  /\ UNCHANGED <<submission, queueDir>> /\ rowsSame

RemoveSource ==
  /\ InspectorAt("remove")
  /\ \/ /\ queueDir' = [queueDir EXCEPT ![inspection[Here.id].dir] = "gone"]
        /\ Proceeds("finish") /\ UNCHANGED mishaps
     \/ Mishap /\ PassEnds /\ UNCHANGED queueDir
  /\ UNCHANGED <<submission, sandboxes>> /\ rowsSame

FinishCleanup ==
  LET i == Here.id IN
  /\ InspectorAt("finish")
  /\ inspection' = IF inspection[i].state \in InspectionEnds
                   THEN [inspection EXCEPT ![i].cleanup = FALSE] ELSE inspection
  /\ inspector' = [Resting EXCEPT !.pc = "next",
                     !.todo = IF Here.state = "QUEUED" THEN {} ELSE inspector.todo]
  /\ UNCHANGED <<order, reports, submission, queueDir, sandboxes, mishaps>>

(* reclaim_orphans: each directory in turn, under the name it was listed   *)
(* with.  First the rows are asked who owns it, then its lock is tried; a  *)
(* name that is gone by then ends the pass.                                *)
OnDisk == [s : Submissions, at : {"staging", "published"}]

ListDirectories ==
  /\ InspectorAt("next") /\ inspector.todo = {}
  /\ inspector' = [Resting EXCEPT !.pc = "orphans", !.dirs = {d \in OnDisk : queueDir[d.s] = d.at}]
  /\ UNCHANGED <<submission, queueDir, sandboxes, mishaps>> /\ rowsSame

Registered(s) == \E i \in Inspections : inspection[i].dir = s

AskRegistered ==
  /\ InspectorAt("orphans")
  /\ \E d \in inspector.dirs :
       inspector' = [inspector EXCEPT !.dirs = @ \ {d}, !.dir = d,
                       !.pc = IF Registered(d.s) THEN "orphans" ELSE "reclaim"]
  /\ UNCHANGED <<submission, queueDir, sandboxes, mishaps>> /\ rowsSame

Reclaim ==
  LET d == inspector.dir IN
  /\ InspectorAt("reclaim")
  /\ IF queueDir[d.s] = d.at
     THEN /\ queueDir' = IF LockHeld(d.s) THEN queueDir ELSE [queueDir EXCEPT ![d.s] = "gone"]
          /\ Proceeds("orphans")
     ELSE PassEnds /\ UNCHANGED queueDir
  /\ UNCHANGED <<submission, sandboxes, mishaps>> /\ rowsSame

EndPass ==
  /\ InspectorAt("orphans") /\ inspector.dirs = {}
  /\ PassEnds
  /\ UNCHANGED <<submission, queueDir, sandboxes, mishaps>> /\ rowsSame

InspectorDies ==
  /\ ~InspectorAt("idle") /\ Mishap
  /\ PassEnds
  /\ UNCHANGED <<submission, queueDir, sandboxes>> /\ rowsSame

Inspector ==
  \/ BeginPass \/ TakeRow \/ CleanInterrupted \/ FailInterrupted \/ StartInspection
  \/ Inspect \/ EndSandbox \/ SettleInspection \/ CleanSandbox \/ RemoveSource
  \/ FinishCleanup \/ ListDirectories \/ AskRegistered \/ Reclaim \/ EndPass

InspectionNext ==
  \/ \E s \in Submissions : \/ \E i \in Inspections : BeginSubmission(s, i)
                            \/ PublishSubmission(s) \/ RegisterSubmission(s)
                            \/ AbandonSubmission(s)
  \/ \E i \in Inspections : CancelInspection(i)
  \/ Inspector \/ InspectorDies

InspectionSpec == InspectionInit /\ [][InspectionNext]_inspectionVars

(* The worker's process is restarted, and ticks every second. *)
InspectionFairSpec == InspectionSpec /\ WF_inspectionVars(Inspector)

----------------------------------------------------------------------------
(* inspection.rs tick and finish_inspection_cleanup: a request that was    *)
(* accepted ends, behind others that were interrupted, cancelled or failed *)
(* to clean up; it leaves no container and no document behind, and a       *)
(* report exactly if it completed.                                         *)
InspectionSettles ==
  \A i \in Inspections : inspection[i].state = "QUEUED" ~>
    /\ inspection[i].state \in InspectionEnds /\ ~inspection[i].cleanup
    /\ i \notin sandboxes /\ queueDir[inspection[i].dir] = "gone"
    /\ i \in reports <=> inspection[i].state = "COMPLETED"

(* tick, inspect_script and cleanup_inspection, through every failure and  *)
(* crash of the worker and every submission and cancel meanwhile: there is *)
(* a container only for an inspection that runs or failed and is still to  *)
(* be cleaned up, so none under a report or for a cancelled request; and   *)
(* the flag is taken from a row only when it has ended and container and   *)
(* document are gone.                                                      *)
FinishedIsClean ==
  \A i \in Inspections :
    /\ i \in sandboxes => inspection[i].cleanup /\ inspection[i].state \in {"RUNNING", "FAILED"}
    /\ inspection[i].dir # NoSubmission /\ ~inspection[i].cleanup =>
         inspection[i].state \in InspectionEnds /\ queueDir[inspection[i].dir] = "gone"

(* docs/PIPELINE.md:150, "Orphan published directories and uploads older   *)
(* than one hour are reclaimed only without an active upload lock": the    *)
(* directory of a request that was accepted is no orphan.                  *)
AcceptedKeepsSource ==
  \A i \in Inspections : inspection[i].state = "QUEUED" => queueDir[inspection[i].dir] = "published"
=============================================================================
