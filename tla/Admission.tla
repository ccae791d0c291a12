------------------------------ MODULE Admission ------------------------------
(***************************************************************************)
(* How requests become jobs: the commit of a settings preflight, the       *)
(* commit of a pipeline preflight, the retry of a failed job under a       *)
(* request id of the client, a pipeline submitted with its document, and   *)
(* documents uploaded or printed by IPP, which carry no request id.  Each  *)
(* makes a directory under a fresh id and a lock of its own, stages and    *)
(* seals the document there and inserts the job in one transaction.        *)
(* Clients repeat requests at will and go away; preflights lapse and are   *)
(* pruned; what a printer can do changes while a document is staged.       *)
(***************************************************************************)
EXTENDS Naturals, Sequences

CONSTANTS Preflights,      \* ids of print_preflights
          Pipelined,       \* those of pipeline preflights
          Retries,         \* those that are request ids of a retry
          Requests,        \* pipeline request ids
          NoRequest,
          RequestOf(_),    \* the request a pipeline preflight was made for
          Uploads,         \* fresh job ids, each of one request
          NoUpload, NoPreflight,
          MaxCapability    \* bound on the changes of the capability revision

ASSUME AdmissionAssumption ==
  /\ Pipelined \cup Retries \subseteq Preflights /\ Pipelined \cap Retries = {}
  /\ \A p \in Pipelined : RequestOf(p) \in Requests
  /\ NoRequest \notin Requests /\ NoUpload \notin Uploads /\ NoPreflight \notin Preflights
  /\ MaxCapability \in Nat

VARIABLES
  preflight,     \* Preflights -> row of print_preflights
  failedJob,     \* retries whose source job still exists
  capability,    \* the capability revision of the printer
  upload,        \* Uploads -> the request that runs under this id
  sourceDir,     \* Uploads -> jobs/<id>
  accepted,      \* uploads whose job was inserted
  present,       \* those whose row was not deleted since
  commits,       \* print_commits
  workflows,     \* print_pipelines: request -> source job
  numbered,      \* ipp_jobs: the jobs that got the numbers 1, 2, ...
  replies        \* the successes answered: what was asked and the job named

admissionVars == <<preflight, failedJob, capability, upload, sourceDir, accepted, present,
                   commits, workflows, numbered, replies>>
storeSame == UNCHANGED <<preflight, failedJob, capability, accepted, present, commits, workflows, numbered>>

----------------------------------------------------------------------------
Unused == [pc |-> "idle", p |-> NoPreflight, request |-> NoRequest, ipp |-> FALSE, conflict |-> FALSE]
Running == {"staging", "sealed", "validated", "ready", "inserted", "failed"}

AdmissionTypeOK ==
  /\ preflight \in [Preflights -> [state : {"none", "issued", "expired", "pruned"},
                                   capability : 0..MaxCapability]]
  /\ failedJob \subseteq Retries /\ capability \in 0..MaxCapability
  /\ upload \in [Uploads -> [pc : {"idle", "over"} \cup Running, conflict : BOOLEAN, ipp : BOOLEAN,
                  p : Preflights \cup {NoPreflight}, request : Requests \cup {NoRequest}]]
  /\ sourceDir \in [Uploads -> {"none", "part", "sealed", "gone"}]
  /\ present \subseteq accepted /\ accepted \subseteq Uploads
  /\ commits \in [Preflights -> Uploads \cup {NoUpload}]
  /\ workflows \in [Requests -> Uploads \cup {NoUpload}]
  /\ numbered \in Seq(accepted)

AdmissionInit ==
  /\ preflight = [p \in Preflights |-> [state |-> "none", capability |-> 0]]
  /\ failedJob = Retries /\ capability = 0
  /\ upload = [u \in Uploads |-> Unused]
  /\ sourceDir = [u \in Uploads |-> "none"]
  /\ accepted = {} /\ present = {} /\ numbered = <<>> /\ replies = {}
  /\ commits = [p \in Preflights |-> NoUpload]
  /\ workflows = [q \in Requests |-> NoUpload]

Reaches(u, pc) == upload' = [upload EXCEPT ![u].pc = pc]
Fails(u, conflict) == upload' = [upload EXCEPT ![u].pc = "failed", ![u].conflict = conflict]
Leaves(u) ==   \* what it was is of no more use unless it was accepted
  upload' = [upload EXCEPT ![u] = [(IF u \in accepted THEN @ ELSE Unused) EXCEPT !.pc = "over"]]
Replies(asked, job) == replies' = replies \cup {[asked |-> asked, job |-> job]}

----------------------------------------------------------------------------
(* create, of preflight.rs. *)
IssuePreflight(p) ==
  /\ p \notin Retries \cup Pipelined /\ preflight[p].state = "none"
  /\ preflight' = [preflight EXCEPT ![p].state = "issued"]
  /\ UNCHANGED <<failedJob, capability, upload, sourceDir, accepted, present, commits, workflows, numbered, replies>>

(* create, of pipeline_preflight.rs: what it settles was possible when it  *)
(* asked the printer, which may be no longer so when the row is written.   *)
SettledAgainst == 0..capability

IssuePipelinePreflight(p) ==
  /\ p \in Pipelined /\ preflight[p].state = "none"
  /\ \E asked \in SettledAgainst :
       preflight' = [preflight EXCEPT ![p] = [state |-> "issued", capability |-> asked]]
  /\ UNCHANGED <<failedJob, capability, upload, sourceDir, accepted, present, commits, workflows, numbered, replies>>

(* Minutes later; a retry's row is good for ever. *)
Expire(p) ==
  /\ p \notin Retries /\ preflight[p].state = "issued"
  /\ preflight' = [preflight EXCEPT ![p].state = "expired"]
  /\ UNCHANGED <<failedJob, capability, upload, sourceDir, accepted, present, commits, workflows, numbered, replies>>

PrunePreflight(p) ==
  /\ preflight[p].state = "expired" /\ commits[p] = NoUpload
  /\ preflight' = [preflight EXCEPT ![p].state = "pruned"]
  /\ UNCHANGED <<failedJob, capability, upload, sourceDir, accepted, present, commits, workflows, numbered, replies>>

CapabilityChanges ==
  /\ capability < MaxCapability /\ capability' = capability + 1
  /\ UNCHANGED <<preflight, failedJob, upload, sourceDir, accepted, present, commits, workflows, numbered, replies>>

(* The client deletes a job, or the one it wants to try again. *)
DeleteAccepted(u) ==
  /\ u \in present /\ present' = present \ {u}
  /\ UNCHANGED <<preflight, failedJob, capability, upload, sourceDir, accepted, commits, workflows, numbered, replies>>
DeleteFailed(p) ==
  /\ p \in failedJob /\ failedJob' = failedJob \ {p}
  /\ UNCHANGED <<preflight, capability, upload, sourceDir, accepted, present, commits, workflows, numbered, replies>>

----------------------------------------------------------------------------
(* A job that was committed is answered with; a plain one must still exist. *)
Committed(p) == commits[p] # NoUpload /\ (p \in Pipelined \/ commits[p] \in present)

Replay(p) ==
  /\ preflight[p].state \in {"issued", "expired"} /\ Committed(p)
  /\ p \in Retries => p \in failedJob
  /\ Replies(p, commits[p])
  /\ UNCHANGED <<upload, sourceDir>> /\ storeSame

Begins(u, p, request) ==
  /\ upload[u] = Unused
  /\ upload' = [upload EXCEPT ![u] = [Unused EXCEPT !.pc = "staging", !.p = p, !.request = request]]
  /\ sourceDir' = [sourceDir EXCEPT ![u] = "part"]
  /\ UNCHANGED <<failedJob, capability, accepted, present, commits, workflows, numbered, replies>>

MayCommit(p) ==
  /\ preflight[p].state = "issued"
  /\ p \in Pipelined => preflight[p].capability = capability

(* commit: what is not committed yet and still good gets a directory. *)
BeginCommit(u, p) ==
  /\ p \notin Retries /\ commits[p] = NoUpload /\ MayCommit(p)
  /\ Begins(u, p, IF p \in Pipelined THEN RequestOf(p) ELSE NoRequest)
  /\ UNCHANGED preflight

(* retry: the row of the request id is inserted if the source is as asked. *)
BeginRetry(u, p) ==
  /\ p \in failedJob /\ commits[p] = NoUpload
  /\ preflight' = [preflight EXCEPT ![p].state = "issued"]
  /\ Begins(u, p, NoRequest)

SubmitPipeline(u, request) == Begins(u, NoPreflight, request) /\ UNCHANGED preflight
SubmitPlain(u) == Begins(u, NoPreflight, NoRequest) /\ UNCHANGED preflight

(* Print-Job, well formed and addressed to this printer. *)
PrintJob(u) ==
  /\ upload[u] = Unused
  /\ upload' = [upload EXCEPT ![u] = [Unused EXCEPT !.pc = "staging", !.ipp = TRUE]]
  /\ sourceDir' = [sourceDir EXCEPT ![u] = "part"]
  /\ UNCHANGED replies /\ storeSame

(* stage_document and prepare_staged: the document is sealed, or is not    *)
(* what was announced, or could not be written.                            *)
StageDocument(u) ==
  /\ upload[u].pc = "staging"
  /\ \/ /\ sourceDir' = [sourceDir EXCEPT ![u] = "sealed"]
        /\ Reaches(u, IF upload[u].p \in Pipelined THEN "sealed" ELSE "ready")
     \/ UNCHANGED sourceDir /\ Fails(u, FALSE)
  /\ UNCHANGED replies /\ storeSame

(* A pipeline preflight is compared again with what holds now: the ticket, *)
(* the report of its inspection and the profiles of its policy,            *)
ValidateAgain(u) ==
  /\ upload[u].pc = "sealed"
  /\ \/ Reaches(u, "validated")
     \/ Fails(u, TRUE)
  /\ UNCHANGED <<sourceDir, replies>> /\ storeSame

(* then the printer is asked once more and the clock read. *)
CheckAgain(u) ==
  /\ upload[u].pc = "validated"
  /\ IF MayCommit(upload[u].p) THEN Reaches(u, "ready") ELSE Fails(u, TRUE)
  /\ UNCHANGED <<sourceDir, replies>> /\ storeSame

(* Variant of MayInsert, commits and pipelines not looked at. *)
StillIssued(u) == upload[u].p # NoPreflight => preflight[upload[u].p].state = "issued"

(* insert_with_pipeline: the commit of the preflight, the job, its ticket, *)
(* event and receipt and the pipeline, in one transaction.                 *)
MayInsert(u) ==
  LET it == upload[u] IN
  /\ it.p # NoPreflight => preflight[it.p].state = "issued" /\ commits[it.p] = NoUpload
  /\ it.request # NoRequest => workflows[it.request] = NoUpload

Insert(u) ==
  LET it == upload[u] IN
  /\ it.pc = "ready"
  /\ \/ /\ MayInsert(u)
        /\ accepted' = accepted \cup {u} /\ present' = present \cup {u}
        /\ commits' = [p \in Preflights |-> IF p = it.p THEN u ELSE commits[p]]
        /\ workflows' = [q \in Requests |-> IF q = it.request THEN u ELSE workflows[q]]
        /\ Reaches(u, "inserted")
     \/ /\ \/ ~MayInsert(u) /\ Fails(u, TRUE)
           \/ Fails(u, FALSE)                              \* the database is busy
        /\ UNCHANGED <<accepted, present, commits, workflows>>
  /\ UNCHANGED <<preflight, failedJob, capability, sourceDir, numbered, replies>>

Asked(u) == IF upload[u].p # NoPreflight THEN upload[u].p ELSE upload[u].request

Accept(u) ==
  /\ upload[u].pc = "inserted" /\ ~upload[u].ipp
  /\ Replies(Asked(u), u)
  /\ Leaves(u)
  /\ UNCHANGED sourceDir /\ storeSame

(* register_ipp_job, in a transaction of its own.  If it fails the client  *)
(* hears of an error, but the job stays.                                   *)
RegisterIpp(u) ==
  /\ upload[u].pc = "inserted" /\ upload[u].ipp
  /\ \/ numbered' = Append(numbered, u) /\ Replies(Len(numbered'), u)
     \/ UNCHANGED <<numbered, replies>>
  /\ Leaves(u)
  /\ UNCHANGED <<sourceDir, preflight, failedJob, capability, accepted, present, commits, workflows>>

(* The error path: the directory is removed as far as that works, and the  *)
(* job that won the race is answered with.  The plain commit and the retry *)
(* look for it after a conflict only; submit_pipeline finds the pipeline   *)
(* and answers with it if its ticket is the same.                          *)
Winner(u) ==
  LET it == upload[u] IN
  IF it.p = NoPreflight THEN IF it.request = NoRequest THEN NoUpload ELSE workflows[it.request]
  ELSE IF Committed(it.p) /\ (it.p \in Pipelined \/ it.conflict) THEN commits[it.p]
  ELSE NoUpload

Refuse(u) ==
  /\ upload[u].pc = "failed"
  /\ sourceDir' \in {sourceDir, [sourceDir EXCEPT ![u] = "gone"]}
  /\ \/ Winner(u) # NoUpload /\ Replies(Asked(u), Winner(u))
     \/ (Winner(u) = NoUpload \/ upload[u].p = NoPreflight) /\ UNCHANGED replies
  /\ Leaves(u)
  /\ storeSame

(* The client went away or the process died: nothing is cleaned up. *)
Abandon(u) ==
  /\ upload[u].pc \in Running
  /\ Leaves(u)
  /\ UNCHANGED <<sourceDir, replies>> /\ storeSame

(* Variant of Orphaned, jobs not looked at. *)
Unlocked(u) == upload[u].pc \notin Running

(* sweep_uploads, for a directory whose lock is free and whose id no job,  *)
(* event or tombstone of a job has.                                        *)
Orphaned(u) == upload[u].pc \notin Running /\ u \notin accepted

SweepUpload(u) ==
  /\ sourceDir[u] \in {"part", "sealed"} /\ Orphaned(u)
  /\ sourceDir' = [sourceDir EXCEPT ![u] = "gone"]
  /\ UNCHANGED <<upload, replies>> /\ storeSame

AdmissionNext ==
  \/ \E p \in Preflights : \/ IssuePreflight(p) \/ IssuePipelinePreflight(p) \/ Expire(p) \/ PrunePreflight(p)
                           \/ Replay(p) \/ DeleteFailed(p)
                           \/ \E u \in Uploads : BeginCommit(u, p) \/ BeginRetry(u, p)
  \/ \E u \in Uploads : \/ \E q \in Requests : SubmitPipeline(u, q)
                        \/ SubmitPlain(u) \/ PrintJob(u) \/ StageDocument(u)
                        \/ ValidateAgain(u) \/ CheckAgain(u) \/ Insert(u)
                        \/ Accept(u) \/ RegisterIpp(u)
                        \/ Refuse(u) \/ Abandon(u) \/ SweepUpload(u) \/ DeleteAccepted(u)
  \/ CapabilityChanges

AdmissionSpec == AdmissionInit /\ [][AdmissionNext]_admissionVars

----------------------------------------------------------------------------
(* insert_with_pipeline, commit, retry and submit_pipeline: however often  *)
(* and by how many clients at a time a request is made, one job comes of   *)
(* it, also after that job was deleted, and every success names that job;  *)
(* the number IPP was answered stays with its job.                         *)
OneJobPerRequest ==
  /\ \A u, w \in accepted :
       \/ u = w
       \/ /\ upload[u].p = NoPreflight \/ upload[u].p # upload[w].p
          /\ upload[u].request = NoRequest \/ upload[u].request # upload[w].request
  /\ \A r \in replies : r.job \in accepted /\ r.asked \in
       {upload[r.job].p, upload[r.job].request} \cup {n \in DOMAIN numbered : numbered[n] = r.job}

(* A job that was accepted has its sealed source, and its pipeline if it   *)
(* was asked for one: no error path, late loser or sweep of directories    *)
(* that were left behind takes it away.                                    *)
AcceptedIsWhole ==
  \A u \in accepted :
    /\ sourceDir[u] = "sealed"
    /\ upload[u].request # NoRequest => workflows[upload[u].request] = u
=============================================================================
