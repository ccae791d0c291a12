------------------------------ MODULE Delivery ------------------------------
(***************************************************************************)
(* Explicit delivery of a finished job to a printer: the deliveries table, *)
(* the delivery workers (any number of them, with no lock among them), the *)
(* REST cancellation and the administrator's reconciliation, against a     *)
(* printer reached over a network that loses and delays.                    *)
(*                                                                         *)
(* Every writer of the table goes through update_delivery, a compare-and-  *)
(* set on the state and the revision of a row just read.  As the state and *)
(* the revision that match were read together with the rest of the row,    *)
(* the read and the write are one action here; what remains of a read is   *)
(* what a process keeps across network traffic: the rows on its list.       *)
(***************************************************************************)
EXTENDS Integers, FiniteSets, ChildStates

CONSTANTS
  Deliveries,  \* request ids, numbered in the order of (created_at, id)
  ForeignJobs, \* jobs of other users on the printer
  Workers,     \* jrip-delivery-worker processes
  Admins,      \* reconciliation requests in flight
  NoWorker,    \* "no run id"
  NoJob,       \* "no device job id"
  NoReceipt,   \* "no delivery result receipt"
  NoInquiry,   \* "nothing asked"
  PollLimit,   \* the LIMIT of accepted_deliveries (100 in the code)
  MaxFailures, \* bound: transient failures of a status query explored
  MaxCrashes   \* bound: worker crashes explored

\* The printer's job ids: the job made of d's Print-Job is called d.
DeviceJobs == Deliveries \cup ForeignJobs

ASSUME DeliveryAssumption ==
  /\ Deliveries \subseteq Nat
  /\ Deliveries \cap ForeignJobs = {}
  /\ NoJob \notin DeviceJobs
  /\ NoWorker \notin Workers
  /\ PollLimit \in Nat \ {0}
  /\ MaxFailures \in Nat
  /\ MaxCrashes \in Nat

VARIABLES
  \* table deliveries: state ("ABSENT" before the row), revision, reason,
  \* runId, deviceJobId, the last deviceObservation and deviceQuery, and the
  \* rows in SENDING whose lease_until has passed
  dstate, revision, reason, run, bound, sample, query, expired,
  \* table delivery_result_receipts
  receipt,
  \* Print-Job and Cancel-Job requests issued so far, and where the (last)
  \* Print-Job of a delivery is
  sent, cancels, wire,
  \* the printer: the state of each job, and the ids it no longer knows
  job, forgotten,
  \* workers: where each is in its pass, the rows it goes by, the last answer
  pc, todo, answer,
  \* administrators between the device query and the write
  inquiry,
  failures, crashes

tableVars == <<dstate, revision, reason, run, bound, sample, query, expired, receipt>>
deviceVars == <<sent, cancels, wire, job, forgotten>>
workerVars == <<pc, todo, answer>>
vars == <<dstate, revision, reason, run, bound, sample, query, expired, receipt,
          sent, cancels, wire, job, forgotten, pc, todo, answer, inquiry,
          failures, crashes>>

-----------------------------------------------------------------------------
DeliveryStates ==
  {"QUEUED", "SENDING", "ACCEPTED", "COMPLETED", "CANCELLED", "ABORTED", "REJECTED", "UNKNOWN"}
Settled == {"COMPLETED", "CANCELLED", "ABORTED", "REJECTED"}
CancelReasons == {"CANCEL_REQUESTED", "CANCEL_DISPATCHING"}
Reasons ==
  {"NONE", "CANCELLED_BEFORE_SEND", "OUTCOME_UNKNOWN", "SENDER_LEASE_EXPIRED",
   "REMOTE_JOB_RECONCILED", "ERROR"} \cup CancelReasons
QueryFailures ==
  {"UNAVAILABLE", "INVALID_RESPONSE", "JOB_NOT_FOUND", "REGISTRATION_UNAVAILABLE"}

\* The job states of IPP, the two waiting and the two working ones taken together.
JobEnds == {"completed", "cancelled", "aborted"}
DeviceStates == {"pending", "processing"} \cup JobEnds
WirePlaces == {"idle", "inflight", "accepted", "refused"}
WorkerPcs ==
  {"idle", "recovering", "claiming", "preparing", "sent", "finishing",
   "listing", "polling", "cancelling", "asking", "answered"}
Answers == {"NONE", "ACCEPTED", "REJECTED", "UNKNOWN"} \cup DeviceStates \cup QueryFailures

Rows == [id : Deliveries, revision : Nat, reason : Reasons, job : DeviceJobs \cup {NoJob}]
Inquiries ==
  [id : Deliveries, revision : Nat, job : DeviceJobs, next : DeliveryStates]
Receipts == [state : Settled, revision : Nat, job : DeviceJobs \cup {NoJob}]

ASSUME NoReceiptAssumption == NoReceipt \notin Receipts
ASSUME NoInquiryAssumption == NoInquiry \notin Inquiries

TypeOK ==
  /\ dstate \in [Deliveries -> DeliveryStates \cup {"ABSENT"}]
  /\ revision \in [Deliveries -> Nat]
  /\ reason \in [Deliveries -> Reasons]
  /\ run \in [Deliveries -> Workers \cup {NoWorker}]
  /\ bound \in [Deliveries -> DeviceJobs \cup {NoJob}]
  /\ sample \in [Deliveries -> DeviceStates \cup {"none"}]
  /\ query \in [Deliveries -> QueryFailures \cup {"never", "ok"}]
  /\ expired \subseteq Deliveries
  /\ receipt \in [Deliveries -> Receipts \cup {NoReceipt}]
  /\ sent \in [Deliveries -> Nat]
  /\ cancels \in [DeviceJobs -> Nat]
  /\ wire \in [Deliveries -> WirePlaces]
  /\ job \in [DeviceJobs -> DeviceStates \cup {"none"}]
  /\ forgotten \subseteq Deliveries
  /\ pc \in [Workers -> WorkerPcs]
  /\ todo \in [Workers -> SUBSET Rows]
  /\ answer \in [Workers -> Answers]
  /\ inquiry \in [Admins -> Inquiries \cup {NoInquiry}]
  /\ failures \in 0..MaxFailures
  /\ crashes \in 0..MaxCrashes

-----------------------------------------------------------------------------
(* The table                                                                *)

Row(d) == [id |-> d, revision |-> revision[d], reason |-> reason[d], job |-> bound[d]]

In(s) == {d \in Deliveries : dstate[d] = s}

RevisionIgnored(row, from) == dstate[row.id] = from

(* WHERE id = ? AND state = ? AND revision = ?, for a row read earlier. *)
Matches(row, from) == dstate[row.id] = from /\ revision[row.id] = row.revision

(* update_delivery, with the receipt of a settled delivery in the same     *)
(* transaction.  Nothing but Observe and NoteFailure touches the last two.  *)
Update(d, next, why, device) ==
  /\ dstate' = [dstate EXCEPT ![d] = next]
  /\ revision' = [revision EXCEPT ![d] = @ + 1]
  /\ reason' = [reason EXCEPT ![d] = why]
  /\ bound' = [bound EXCEPT ![d] = device]
  /\ expired' = expired \ {d}
  /\ receipt' = [receipt EXCEPT ![d] =
                   IF next \in Settled
                   THEN [state |-> next, revision |-> revision[d] + 1, job |-> device]
                   ELSE @]

(* Variant of Verdict, failures forgotten. *)
VerdictOfTheLucky(s) ==
  CASE s = "completed" -> "COMPLETED"
    [] s = "cancelled" -> "CANCELLED"
    [] OTHER -> "ACCEPTED"

(* What a state of the device's job makes of an accepted delivery. *)
Verdict(s) ==
  CASE s = "completed" -> "COMPLETED"
    [] s = "cancelled" -> "CANCELLED"
    [] s = "aborted" -> "ABORTED"
    [] OTHER -> "ACCEPTED"

-----------------------------------------------------------------------------
(* REST: enqueue (of a completed job, once per request id) and cancel       *)

Enqueue(d) ==
  /\ dstate[d] = "ABSENT"
  /\ dstate' = [dstate EXCEPT ![d] = "QUEUED"]
  /\ UNCHANGED <<revision, reason, run, bound, sample, query, expired, receipt, deviceVars,
                 workerVars, inquiry, failures, crashes>>

RequestCancel(d) ==
  /\ \/ /\ dstate[d] = "QUEUED"
        /\ Update(d, "CANCELLED", "CANCELLED_BEFORE_SEND", bound[d])
     \/ /\ dstate[d] = "ACCEPTED"
        /\ reason[d] \notin CancelReasons
        /\ Update(d, "ACCEPTED", "CANCEL_REQUESTED", bound[d])
  /\ UNCHANGED <<run, sample, query, deviceVars, workerVars, inquiry, failures, crashes>>

-----------------------------------------------------------------------------
(* The administrator names a device job for an UNKNOWN delivery: the       *)
(* printer is asked about it first, the row is written afterwards.          *)

(* Variant of NamedAfter, any job the administrator names. *)
AnyName(j, d) == TRUE

(* The job's name on the printer is "J-RIP <d>". *)
NamedAfter(j, d) == j = d

Inquire(a, d, j) ==
  /\ inquiry[a] = NoInquiry
  /\ dstate[d] = "UNKNOWN"
  /\ job[j] # "none" /\ j \notin forgotten
  /\ NamedAfter(j, d)
  /\ inquiry' = [inquiry EXCEPT ![a] =
       [id |-> d, revision |-> revision[d], job |-> j, next |-> Verdict(job[j])]]
  /\ UNCHANGED <<tableVars, deviceVars, workerVars, failures, crashes>>

Reconcile(a) ==
  LET i == inquiry[a] IN
  /\ i # NoInquiry
  /\ \/ /\ Matches(i, "UNKNOWN")
        /\ Update(i.id, i.next, "REMOTE_JOB_RECONCILED", i.job)
     \/ /\ ~Matches(i, "UNKNOWN")
        /\ UNCHANGED <<dstate, revision, reason, bound, expired, receipt>>
  /\ inquiry' = [inquiry EXCEPT ![a] = NoInquiry]
  /\ UNCHANGED <<run, sample, query, deviceVars, workerVars, failures, crashes>>

-----------------------------------------------------------------------------
(* One pass of a worker: `tick`.  First the sends whose lease has passed.   *)

GoTo(w, from, to) == pc[w] = from /\ pc' = [pc EXCEPT ![w] = to]
Keep(w, rows) == todo' = [todo EXCEPT ![w] = rows]
Drop(w, row) == Keep(w, todo[w] \ {row})

(* Variant of Overdue, only sends that went out. *)
OverdueAndSent == {d \in In("SENDING") \cap expired : sent[d] > 0}

Overdue == In("SENDING") \cap expired

ListExpired(w) ==
  /\ GoTo(w, "idle", "recovering")
  /\ Keep(w, {Row(d) : d \in Overdue})
  /\ UNCHANGED <<tableVars, deviceVars, answer, inquiry, failures, crashes>>

(* What becomes of a send nobody answers for: never QUEUED. *)
Recovered == "UNKNOWN"

Recover(w, row) ==
  /\ pc[w] = "recovering"
  /\ row \in todo[w]
  /\ \/ /\ Matches(row, "SENDING")
        /\ Update(row.id, Recovered, "SENDER_LEASE_EXPIRED", bound[row.id])
     \/ /\ ~Matches(row, "SENDING")
        /\ UNCHANGED <<dstate, revision, reason, bound, expired, receipt>>
  /\ Drop(w, row)
  /\ UNCHANGED <<run, sample, query, deviceVars, pc, answer, inquiry, failures, crashes>>

Queued == In("QUEUED")

(* Then at most one send, of the oldest. *)
TakeNext(w) ==
  /\ todo[w] = {}
  /\ \/ /\ GoTo(w, "recovering", "claiming")
        /\ \E d \in Queued : (\A e \in Queued : d <= e) /\ Keep(w, {Row(d)})
     \/ /\ GoTo(w, "recovering", "listing")
        /\ Queued = {}
        /\ todo' = todo
  /\ UNCHANGED <<tableVars, deviceVars, answer, inquiry, failures, crashes>>

Claim(w, row) ==
  /\ row \in todo[w]
  /\ \/ /\ Matches(row, "QUEUED")
        /\ GoTo(w, "claiming", "preparing")
        /\ Update(row.id, "SENDING", reason[row.id], bound[row.id])
        /\ run' = [run EXCEPT ![row.id] = w]
        /\ todo' = todo
     \/ /\ ~Matches(row, "QUEUED")
        /\ GoTo(w, "claiming", "listing")
        /\ Drop(w, row)
        /\ UNCHANGED <<dstate, revision, reason, run, bound, expired, receipt>>
  /\ UNCHANGED <<sample, query, deviceVars, answer, inquiry, failures, crashes>>

(* The registration, the file or the printer's capabilities no longer fit. *)
PrepareFails(w) ==
  /\ GoTo(w, "preparing", "finishing")
  /\ answer' = [answer EXCEPT ![w] = "REJECTED"]
  /\ UNCHANGED <<tableVars, deviceVars, todo, inquiry, failures, crashes>>

Send(w, row) ==
  /\ row \in todo[w]
  /\ GoTo(w, "preparing", "sent")
  /\ sent' = [sent EXCEPT ![row.id] = @ + 1]
  /\ wire' = [wire EXCEPT ![row.id] = "inflight"]
  /\ UNCHANGED <<tableVars, cancels, job, forgotten, todo, answer, inquiry, failures, crashes>>

(* Variant of Uncertain, silence taken for a refusal. *)
TakenForRefusal == "REJECTED"

(* No answer in time, or one that does not say whether there is a job. *)
Uncertain == "UNKNOWN"

Replied(w, row) ==
  /\ row \in todo[w]
  /\ GoTo(w, "sent", "finishing")
  /\ \/ wire[row.id] = "accepted" /\ answer' = [answer EXCEPT ![w] = "ACCEPTED"]
     \/ wire[row.id] = "refused" /\ answer' = [answer EXCEPT ![w] = "REJECTED"]
     \/ answer' = [answer EXCEPT ![w] = Uncertain]
  /\ UNCHANGED <<tableVars, deviceVars, todo, inquiry, failures, crashes>>

ReasonOf(outcome) ==
  CASE outcome = "ACCEPTED" -> "NONE"
    [] outcome = "UNKNOWN" -> "OUTCOME_UNKNOWN"
    [] OTHER -> "ERROR"

(* Only the live sender records the outcome. *)
StillSending(w, d) ==
  /\ dstate[d] = "SENDING"
  /\ run[d] = w
  /\ d \notin expired

(* A refused outcome ends the pass. *)
Finish(w, row) ==
  /\ row \in todo[w]
  /\ \/ /\ StillSending(w, row.id)
        /\ GoTo(w, "finishing", "listing")
        /\ Update(row.id, answer[w], ReasonOf(answer[w]),
                  IF answer[w] = "ACCEPTED" THEN row.id ELSE NoJob)
     \/ /\ ~StillSending(w, row.id)
        /\ GoTo(w, "finishing", "idle")
        /\ UNCHANGED <<dstate, revision, reason, bound, expired, receipt>>
  /\ Keep(w, {})
  /\ answer' = [answer EXCEPT ![w] = "NONE"]
  /\ UNCHANGED <<run, sample, query, deviceVars, inquiry, failures, crashes>>

-----------------------------------------------------------------------------
(* Then every accepted delivery on the list is polled.                      *)

Listed == {d \in In("ACCEPTED") : Cardinality({e \in In("ACCEPTED") : e < d}) < PollLimit}

ListAccepted(w) ==
  /\ GoTo(w, "listing", "polling")
  /\ Keep(w, {Row(d) : d \in Listed})
  /\ UNCHANGED <<tableVars, deviceVars, answer, inquiry, failures, crashes>>

First(w, row) == row \in todo[w] /\ \A other \in todo[w] : row.id <= other.id

EndPass(w) ==
  /\ todo[w] = {}
  /\ GoTo(w, "polling", "idle")
  /\ UNCHANGED <<tableVars, deviceVars, todo, answer, inquiry, failures, crashes>>

(* fail_delivery_device_query: recorded when it differs from the last one. *)
NoteFailure(row, failure) ==
  /\ UNCHANGED <<run, sample>>
  /\ \/ /\ Matches(row, "ACCEPTED")
        /\ query[row.id] # failure
        /\ query' = [query EXCEPT ![row.id] = failure]
        /\ Update(row.id, "ACCEPTED", reason[row.id], bound[row.id])
     \/ /\ ~(Matches(row, "ACCEPTED") /\ query[row.id] # failure)
        /\ UNCHANGED <<dstate, revision, reason, bound, query, expired, receipt>>

Unregistered(w, row) ==
  /\ pc[w] = "polling"
  /\ First(w, row)
  /\ failures < MaxFailures
  /\ failures' = failures + 1
  /\ NoteFailure(row, "REGISTRATION_UNAVAILABLE")
  /\ Drop(w, row)
  /\ UNCHANGED <<deviceVars, pc, answer, inquiry, crashes>>

(* Variant of Dispatched, the claim of the cancel not recorded. *)
Undecided == "CANCEL_REQUESTED"

(* Variant of CancelWanted, only of jobs that were polled. *)
CancelWantedOfSeen(row) == row.reason = "CANCEL_REQUESTED" /\ query[row.id] = "ok"

CancelWanted(row) == row.reason = "CANCEL_REQUESTED"

(* The durable claim that lets one worker, once, send a Cancel-Job. *)
Dispatched == "CANCEL_DISPATCHING"

(* The row as claim_delivery_cancel returns it. *)
Claimed(row) == [id |-> row.id, revision |-> row.revision + 1, reason |-> Dispatched, job |-> row.job]

ClaimCancel(w, row) ==
  /\ First(w, row)
  /\ CancelWanted(row)
  /\ \/ /\ Matches(row, "ACCEPTED")
        /\ GoTo(w, "polling", "cancelling")
        /\ Update(row.id, "ACCEPTED", Dispatched, bound[row.id])
        /\ Keep(w, (todo[w] \ {row}) \cup {Claimed(row)})
     \/ /\ ~Matches(row, "ACCEPTED")
        /\ pc[w] = "polling"
        /\ Drop(w, row)
        /\ UNCHANGED <<dstate, revision, reason, bound, expired, receipt, pc>>
  /\ UNCHANGED <<run, sample, query, deviceVars, answer, inquiry, failures, crashes>>

(* Cancel-Job; what the printer makes of it is the printer's business. *)
SendCancel(w, row) ==
  /\ First(w, row)
  /\ GoTo(w, "cancelling", "asking")
  /\ cancels' = [cancels EXCEPT ![row.job] = @ + 1]
  /\ UNCHANGED <<tableVars, sent, wire, job, forgotten, todo, answer, inquiry, failures, crashes>>

Known(j) == job[j] # "none" /\ j \notin forgotten

(* Get-Job-Attributes of the device job on the row. *)
Query(w, row) ==
  /\ First(w, row)
  /\ \/ GoTo(w, "asking", "answered")
     \/ ~CancelWanted(row) /\ GoTo(w, "polling", "answered")
  /\ \/ /\ answer' = [answer EXCEPT ![w] = IF Known(row.job) THEN job[row.job] ELSE "JOB_NOT_FOUND"]
        /\ failures' = failures
     \/ /\ failures < MaxFailures
        /\ failures' = failures + 1
        /\ \E f \in {"UNAVAILABLE", "INVALID_RESPONSE"} : answer' = [answer EXCEPT ![w] = f]
  /\ UNCHANGED <<tableVars, deviceVars, todo, inquiry, crashes>>

(* observe_delivery_device_progress; an unchanged sample writes nothing. *)
Observe(w, row) ==
  /\ First(w, row)
  /\ GoTo(w, "answered", "polling")
  /\ Drop(w, row)
  /\ answer' = [answer EXCEPT ![w] = "NONE"]
  /\ \/ /\ answer[w] \in QueryFailures
        /\ NoteFailure(row, answer[w])
     \/ /\ answer[w] \in DeviceStates
        /\ Matches(row, "ACCEPTED")
        /\ ~(query[row.id] = "ok" /\ sample[row.id] = answer[w])
        /\ sample' = [sample EXCEPT ![row.id] = answer[w]]
        /\ query' = [query EXCEPT ![row.id] = "ok"]
        /\ Update(row.id, Verdict(answer[w]), reason[row.id], bound[row.id])
        /\ run' = run
     \/ /\ answer[w] \in DeviceStates
        /\ ~Matches(row, "ACCEPTED") \/ (query[row.id] = "ok" /\ sample[row.id] = answer[w])
        /\ UNCHANGED tableVars
  /\ UNCHANGED <<deviceVars, inquiry, failures, crashes>>

RowStep(w, row) ==
  \/ Recover(w, row) \/ Claim(w, row) \/ Send(w, row) \/ Replied(w, row) \/ Finish(w, row)
  \/ Unregistered(w, row) \/ ClaimCancel(w, row) \/ SendCancel(w, row)
  \/ Query(w, row) \/ Observe(w, row)

WorkerStep(w) ==
  \/ ListExpired(w) \/ TakeNext(w) \/ PrepareFails(w) \/ ListAccepted(w) \/ EndPass(w)
  \/ \E row \in todo[w] : RowStep(w, row)

(* The process dies, or ctrl-c drops the pass at one of its awaits. *)
WorkerCrash(w) ==
  /\ pc[w] # "idle"
  /\ crashes < MaxCrashes
  /\ crashes' = crashes + 1
  /\ pc' = [pc EXCEPT ![w] = "idle"]
  /\ Keep(w, {})
  /\ answer' = [answer EXCEPT ![w] = "NONE"]
  /\ UNCHANGED <<tableVars, deviceVars, inquiry, failures>>

(* lease_until passes: 60 s after the claim, nobody renews it. *)
Expire(d) ==
  /\ dstate[d] = "SENDING"
  /\ d \notin expired
  /\ expired' = expired \cup {d}
  /\ UNCHANGED <<dstate, revision, reason, run, bound, sample, query, receipt, deviceVars,
                 workerVars, inquiry, failures, crashes>>

-----------------------------------------------------------------------------
(* The printer and the network                                              *)

(* The Print-Job arrives, whether or not its sender still waits for it. *)
Arrive(d) ==
  /\ wire[d] = "inflight"
  /\ \/ /\ wire' = [wire EXCEPT ![d] = "accepted"]
        /\ job' = [job EXCEPT ![d] = "pending"]
     \/ /\ wire' = [wire EXCEPT ![d] = "refused"]
        /\ job' = job
  /\ UNCHANGED <<tableVars, sent, cancels, forgotten, workerVars, inquiry, failures, crashes>>

(* A job moves on; a cancel may come from us or from the printer's panel. *)
PrintOn(d) ==
  /\ \/ job[d] = "pending" /\ \E s \in {"processing", "cancelled", "aborted"} : job' = [job EXCEPT ![d] = s]
     \/ job[d] = "processing" /\ \E s \in JobEnds : job' = [job EXCEPT ![d] = s]
  /\ UNCHANGED <<tableVars, sent, cancels, wire, forgotten, workerVars, inquiry, failures, crashes>>

(* The printer drops a job from its history. *)
Forget(d) ==
  /\ Known(d)
  /\ forgotten' = forgotten \cup {d}
  /\ UNCHANGED <<tableVars, sent, cancels, wire, job, workerVars, inquiry, failures, crashes>>

-----------------------------------------------------------------------------
Init ==
  /\ dstate = [d \in Deliveries |-> "ABSENT"]
  /\ revision = [d \in Deliveries |-> 0]
  /\ reason = [d \in Deliveries |-> "NONE"]
  /\ run = [d \in Deliveries |-> NoWorker]
  /\ bound = [d \in Deliveries |-> NoJob]
  /\ sample = [d \in Deliveries |-> "none"]
  /\ query = [d \in Deliveries |-> "never"]
  /\ expired = {}
  /\ receipt = [d \in Deliveries |-> NoReceipt]
  /\ sent = [d \in Deliveries |-> 0]
  /\ cancels = [j \in DeviceJobs |-> 0]
  /\ wire = [d \in Deliveries |-> "idle"]
  /\ job = [j \in DeviceJobs |-> IF j \in Deliveries THEN "none" ELSE "completed"]
  /\ forgotten = {}
  /\ pc = [w \in Workers |-> "idle"]
  /\ todo = [w \in Workers |-> {}]
  /\ answer = [w \in Workers |-> "NONE"]
  /\ inquiry = [a \in Admins |-> NoInquiry]
  /\ failures = 0
  /\ crashes = 0

Clients ==
  \/ \E d \in Deliveries : Enqueue(d) \/ RequestCancel(d)
  \/ \E a \in Admins : Reconcile(a) \/ \E d \in Deliveries, j \in DeviceJobs : Inquire(a, d, j)

Printer ==
  \E d \in Deliveries : Arrive(d) \/ PrintOn(d) \/ Forget(d)

Next ==
  \/ Clients \/ Printer
  \/ \E w \in Workers : WorkerStep(w) \/ WorkerCrash(w)
  \/ \E d \in Deliveries : Expire(d)

Spec == Init /\ [][Next]_vars

(* Workers are restarted and keep going (every network call has a timeout) *)
(* and the clock moves on.  Printer, clients and administrators owe nothing.*)
Fairness ==
  /\ \A w \in Workers : WF_vars(WorkerStep(w))
  /\ \A d \in Deliveries : WF_vars(Expire(d))

FairSpec == Spec /\ Fairness

-----------------------------------------------------------------------------
(* Properties                                                               *)

(* Whatever worker dies, hangs or races, and however late an answer comes, *)
(* a document is sent to the printer at most once ("Never send again on    *)
(* UNKNOWN", finish_delivery).                                              *)
SentAtMostOnce == \A d \in Deliveries : sent[d] <= 1

(* Cancel-Job is sent at most once per delivery, only after a client asked *)
(* for it, and never for somebody else's job (claim_delivery_cancel: "A     *)
(* durable claim prevents duplicate Cancel-Job calls across workers and     *)
(* restarts").                                                              *)
CancelledOnceAndAsked ==
  /\ \A d \in Deliveries : cancels[d] > 0 => cancels[d] = 1 /\ reason[d] = "CANCEL_DISPATCHING"
  /\ \A j \in ForeignJobs : cancels[j] = 0

(* The row never says of the printer what is not so: an end that was seen  *)
(* on the delivery's own job, a rejection or an early cancellation only if  *)
(* there is no such job and none can still arrive.                          *)
OutcomeIsTrue ==
  \A d \in Deliveries :
    /\ dstate[d] = "COMPLETED" => job[d] = "completed"
    /\ dstate[d] = "ABORTED" => job[d] = "aborted"
    /\ dstate[d] = "CANCELLED" => job[d] = "cancelled" \/ sent[d] = 0
    /\ dstate[d] = "ACCEPTED" => job[d] # "none"
    /\ dstate[d] = "REJECTED" => job[d] = "none" /\ wire[d] # "inflight"

(* The device job on a row is the one made of this delivery, also when an  *)
(* administrator named it, and every settled delivery, and no other, has    *)
(* its receipt, of the row's last revision and of that job.                 *)
ReceiptMatchesDelivery ==
  \A d \in Deliveries :
    /\ bound[d] \in {NoJob, d}
    /\ IF dstate[d] \in Settled
       THEN receipt[d] = [state |-> dstate[d], revision |-> revision[d], job |-> bound[d]]
       ELSE receipt[d] = NoReceipt

(* A delivery that was claimed never becomes sendable again, and one that  *)
(* is settled never changes, whoever still holds an old row or answer.      *)
NoWayBack ==
  [][\A d \in Deliveries :
       /\ dstate[d] \notin {"ABSENT", "QUEUED"} => dstate'[d] \notin {"ABSENT", "QUEUED"}
       /\ dstate[d] \in Settled =>
            <<dstate'[d], revision'[d], reason'[d], bound'[d], receipt'[d]>>
              = <<dstate[d], revision[d], reason[d], bound[d], receipt[d]>>]_vars

(* A pipeline that reads the state of its delivery sees no other moves than  *)
(* it was written for, and no delivery that disappears (pipeline.rs advance  *)
(* and close, against delivery.rs).                                          *)
DeliveriesMoveAsSeen ==
  [][\A d \in Deliveries : dstate'[d] # dstate[d] =>
       <<dstate[d], dstate'[d]>> \in DeliveryMoves \cup {<<"ABSENT", "QUEUED">>}]_vars

(* A queued delivery is taken, and does not stay in SENDING, whatever      *)
(* became of its sender.                                                   *)
SendEnds ==
  \A d \in Deliveries : dstate[d] \in {"QUEUED", "SENDING"} ~> dstate[d] \notin {"QUEUED", "SENDING"}

(* The intent to cancel is acted upon or overtaken by the end of the job   *)
(* (docs/DELIVERY.md: "the worker claims one Cancel-Job attempt and polls   *)
(* until a terminal device state").                                         *)
CancelIsTried ==
  \A d \in Deliveries :
    dstate[d] = "ACCEPTED" /\ reason[d] = "CANCEL_REQUESTED" ~> reason[d] # "CANCEL_REQUESTED" \/ dstate[d] \in Settled

(* An accepted delivery is settled once its job has ended, unless the      *)
(* printer forgets the job first.                                           *)
AcceptedSettles ==
  \A d \in Deliveries :
    dstate[d] = "ACCEPTED" /\ job[d] \in JobEnds ~> dstate[d] \in Settled \/ d \in forgotten

-----------------------------------------------------------------------------
(* The inductive invariant: what holds the properties above up.             *)

Polling == {"polling", "cancelling", "asking", "answered"}

(* What a process knows of its delivery: a polled one is bound to the job  *)
(* made of it, and only outcomes are recorded as outcomes.                  *)
Bindings ==
  /\ \A d \in Deliveries : bound[d] \in {NoJob, d} /\ (dstate[d] = "ACCEPTED" => bound[d] = d)
  /\ \A w \in Workers :
       /\ pc[w] \in Polling => \A row \in todo[w] : row.job = row.id
       /\ pc[w] = "finishing" => answer[w] \in {"ACCEPTED", "REJECTED", "UNKNOWN"}
       /\ pc[w] = "answered" => answer[w] \in DeviceStates \cup QueryFailures
  /\ \A a \in Admins :
       inquiry[a] # NoInquiry =>
         /\ inquiry[a].job = inquiry[a].id
         /\ inquiry[a].next \in {"COMPLETED", "CANCELLED", "ABORTED", "ACCEPTED"}

(* A Print-Job is on its way at most once, and made the job if there is one. *)
Wired ==
  \A d \in Deliveries :
    /\ sent[d] <= 1
    /\ sent[d] = 0 <=> wire[d] = "idle"
    /\ job[d] # "none" <=> wire[d] = "accepted"

(* What a verdict in the row says of the printer. *)
VerdictHolds(d, verdict) ==
  /\ verdict = "ACCEPTED" => wire[d] = "accepted"
  /\ verdict = "COMPLETED" => job[d] = "completed"
  /\ verdict = "ABORTED" => job[d] = "aborted"
  /\ verdict = "CANCELLED" => job[d] = "cancelled" \/ wire[d] = "idle"
  /\ verdict = "REJECTED" => wire[d] \in {"idle", "refused"}
  /\ verdict \in {"ABSENT", "QUEUED"} => wire[d] = "idle"

RowsHold == \A d \in Deliveries : VerdictHolds(d, dstate[d])

(* Only the run that claimed a delivery sends it, and before it does       *)
(* nobody can have settled it.                                              *)
SendersOwn ==
  \A w \in Workers : \A row \in todo[w] :
    /\ pc[w] \in {"claiming", "preparing", "sent", "finishing"} => todo[w] = {row}
    /\ pc[w] \in {"preparing", "sent", "finishing"} =>
         run[row.id] = w /\ dstate[row.id] \notin {"ABSENT", "QUEUED"}
    /\ pc[w] = "preparing" => wire[row.id] = "idle" /\ dstate[row.id] \in {"SENDING", "UNKNOWN"}
    /\ pc[w] = "finishing" => VerdictHolds(row.id, answer[w])

(* An end of the job that was seen is still its end when it is recorded. *)
AnswersHold ==
  \A w \in Workers : \A row \in todo[w] :
    pc[w] = "answered" /\ First(w, row) /\ answer[w] \in JobEnds => job[row.id] = answer[w]

InquiriesHold ==
  \A a \in Admins :
    inquiry[a] # NoInquiry =>
      wire[inquiry[a].id] = "accepted" /\ VerdictHolds(inquiry[a].id, inquiry[a].next)

(* A row on a list is never ahead of the table, and one of the table's     *)
(* revision is the table's row.                                             *)
SnapshotsExact ==
  \A w \in Workers : \A row \in todo[w] :
    /\ row.revision <= revision[row.id]
    /\ row.revision = revision[row.id] => row.reason = reason[row.id]

(* The claim of a cancel is in the row before, and one worker's alone. *)
CancelsClaimed ==
  /\ \A d \in Deliveries :
       reason[d] \in CancelReasons => dstate[d] \in {"ACCEPTED", "COMPLETED", "CANCELLED", "ABORTED"}
  /\ \A w \in Workers : \A row \in todo[w] :
       pc[w] = "cancelling" /\ First(w, row) =>
         /\ reason[row.id] = "CANCEL_DISPATCHING"
         /\ cancels[row.id] = 0
         /\ \A v \in Workers \ {w} : \A other \in todo[v] :
              pc[v] = "cancelling" /\ First(v, other) => other.id # row.id

IInv ==
  /\ TypeOK /\ Bindings
  /\ Wired /\ RowsHold /\ SendersOwn /\ AnswersHold /\ InquiriesHold
  /\ SnapshotsExact /\ CancelsClaimed /\ CancelledOnceAndAsked
  /\ ReceiptMatchesDelivery

-----------------------------------------------------------------------------
(* Refinement                                                               *)

Begun == {d \in Deliveries : job[d] # "none"}
Outcome == [d \in Deliveries |-> IF dstate[d] \in Settled THEN dstate[d] ELSE "open"]

Promise == INSTANCE DeliveryPromise WITH
  handed <- sent, begun <- Begun, verdict <- Outcome

(* The workers, the table and the unreliable network keep the promise:     *)
(* nothing is handed to or begun by the printer after the verdict, and the  *)
(* verdict fits what was handed over and begun.                             *)
KeepsPromise == Promise!Spec
=============================================================================
