--------------------------- MODULE DeliveryProofs ---------------------------
(* Proofs about printer delivery, for any number of deliveries, workers,    *)
(* administrators, crashes and failures, and any length of the poll list.   *)
EXTENDS Delivery, TLAPS

-----------------------------------------------------------------------------
(* Types                                                                    *)

(* Counting one more keeps a counter natural. *)
LEMMA Bump ==
  ASSUME NEW S, NEW f \in [S -> Nat], NEW x \in S
  PROVE  [f EXCEPT ![x] = @ + 1] \in [S -> Nat]
OBVIOUS

(* The empty table and the idle printer are well typed. *)
LEMMA InitType == Init => TypeOK
BY DeliveryAssumption DEF Init, TypeOK, DeviceJobs, DeliveryStates, Reasons, Answers, WorkerPcs, WirePlaces, DeviceStates, JobEnds

(* What a process reads of a delivery is a row. *)
LEMMA RowType == ASSUME TypeOK, NEW d \in Deliveries PROVE Row(d) \in Rows
BY DEF TypeOK, Row, Rows

(* update_delivery keeps the types of what it writes. *)
LEMMA UpdateType ==
  ASSUME TypeOK, NEW d \in Deliveries, NEW next \in DeliveryStates, NEW why \in Reasons,
         NEW device \in DeviceJobs \cup {NoJob}, Update(d, next, why, device)
  PROVE  /\ dstate' \in [Deliveries -> DeliveryStates \cup {"ABSENT"}]
         /\ revision' \in [Deliveries -> Nat]
         /\ reason' \in [Deliveries -> Reasons]
         /\ bound' \in [Deliveries -> DeviceJobs \cup {NoJob}]
         /\ expired' \subseteq Deliveries
         /\ receipt' \in [Deliveries -> Receipts \cup {NoReceipt}]
<1>1. next \in Settled => [state |-> next, revision |-> revision[d] + 1, job |-> device] \in Receipts
  BY DEF TypeOK, Receipts
<1> QED BY <1>1 DEF TypeOK, Update

(* Each action keeps the types; the bindings say which job a worker asks about. *)
LEMMA TypeStep == TypeOK /\ Bindings /\ [Next]_vars => TypeOK'
<1> SUFFICES ASSUME TypeOK, Bindings, [Next]_vars PROVE TypeOK'
  OBVIOUS
<1> USE DeliveryAssumption
<1>a. \A s : Verdict(s) \in {"COMPLETED", "CANCELLED", "ABORTED", "ACCEPTED"}
  BY DEF Verdict
<1>b. ASSUME NEW w \in Workers, NEW row \in todo[w] PROVE row \in Rows /\ row.id \in Deliveries
  BY <1>b DEF TypeOK, Rows
<1>1. ASSUME NEW d \in Deliveries, Enqueue(d) PROVE TypeOK'
  BY <1>1 DEF Enqueue, TypeOK, DeliveryStates, deviceVars, workerVars
<1>2. ASSUME NEW d \in Deliveries, RequestCancel(d) PROVE TypeOK'
  <2>1. CASE Update(d, "CANCELLED", "CANCELLED_BEFORE_SEND", bound[d])
    BY <1>2, <2>1, UpdateType DEF RequestCancel, TypeOK, DeliveryStates, Reasons, deviceVars, workerVars
  <2>2. CASE Update(d, "ACCEPTED", "CANCEL_REQUESTED", bound[d])
    BY <1>2, <2>2, UpdateType DEF RequestCancel, TypeOK, DeliveryStates, Reasons, CancelReasons, deviceVars, workerVars
  <2> QED BY <1>2, <2>1, <2>2 DEF RequestCancel
<1>3. ASSUME NEW a \in Admins, NEW d \in Deliveries, NEW j \in DeviceJobs, Inquire(a, d, j) PROVE TypeOK'
  <2>1. [id |-> d, revision |-> revision[d], job |-> j, next |-> Verdict(job[j])] \in Inquiries
    BY <1>a DEF TypeOK, Inquiries, DeliveryStates
  <2> QED BY <1>3, <2>1 DEF Inquire, TypeOK, tableVars, deviceVars, workerVars
<1>4. ASSUME NEW a \in Admins, Reconcile(a) PROVE TypeOK'
  <2>1. inquiry[a] \in Inquiries
    BY <1>4 DEF Reconcile, TypeOK
  <2>2. CASE Update(inquiry[a].id, inquiry[a].next, "REMOTE_JOB_RECONCILED", inquiry[a].job)
    BY <1>4, <2>1, <2>2, UpdateType DEF Reconcile, TypeOK, Inquiries, Reasons, deviceVars, workerVars
  <2>3. CASE UNCHANGED <<dstate, revision, reason, bound, expired, receipt>>
    BY <1>4, <2>3 DEF Reconcile, TypeOK, deviceVars, workerVars
  <2> QED BY <1>4, <2>2, <2>3 DEF Reconcile
<1>5. ASSUME NEW w \in Workers, ListExpired(w) PROVE TypeOK'
  BY <1>5, RowType DEF ListExpired, GoTo, Keep, Overdue, In, TypeOK, WorkerPcs, tableVars, deviceVars
<1>6. ASSUME NEW w \in Workers, TakeNext(w) PROVE TypeOK'
  BY <1>6, RowType DEF TakeNext, GoTo, Keep, Queued, In, TypeOK, WorkerPcs, tableVars, deviceVars
<1>7. ASSUME NEW w \in Workers, PrepareFails(w) PROVE TypeOK'
  BY <1>7 DEF PrepareFails, GoTo, TypeOK, WorkerPcs, Answers, tableVars, deviceVars
<1>8. ASSUME NEW w \in Workers, ListAccepted(w) PROVE TypeOK'
  <2>1. Listed \subseteq Deliveries
    BY DEF Listed, In
  <2>2. {Row(d) : d \in Listed} \in SUBSET Rows
    BY <2>1, RowType
  <2> QED BY <1>8, <2>2 DEF ListAccepted, GoTo, Keep, TypeOK, WorkerPcs, tableVars, deviceVars
<1>9. ASSUME NEW w \in Workers, EndPass(w) PROVE TypeOK'
  BY <1>9 DEF EndPass, GoTo, TypeOK, WorkerPcs, tableVars, deviceVars
<1>10. ASSUME NEW w \in Workers, NEW row \in todo[w], Recover(w, row) PROVE TypeOK'
  <2>1. CASE Update(row.id, Recovered, "SENDER_LEASE_EXPIRED", bound[row.id])
    BY <1>10, <1>b, <2>1, UpdateType DEF Recover, Recovered, Drop, Keep, TypeOK, DeliveryStates, Reasons, deviceVars
  <2>2. CASE UNCHANGED <<dstate, revision, reason, bound, expired, receipt>>
    BY <1>10, <2>2 DEF Recover, Drop, Keep, TypeOK, deviceVars
  <2> QED BY <1>10, <2>1, <2>2 DEF Recover
<1>11. ASSUME NEW w \in Workers, NEW row \in todo[w], Claim(w, row) PROVE TypeOK'
  <2>1. CASE Update(row.id, "SENDING", reason[row.id], bound[row.id]) /\ run' = [run EXCEPT ![row.id] = w] /\ todo' = todo
    BY <1>11, <1>b, <2>1, UpdateType DEF Claim, GoTo, TypeOK, DeliveryStates, WorkerPcs, deviceVars
  <2>2. CASE UNCHANGED <<dstate, revision, reason, run, bound, expired, receipt>> /\ Drop(w, row)
    BY <1>11, <2>2 DEF Claim, GoTo, Drop, Keep, TypeOK, WorkerPcs, deviceVars
  <2> QED BY <1>11, <2>1, <2>2 DEF Claim
<1>12. ASSUME NEW w \in Workers, NEW row \in todo[w], Send(w, row) PROVE TypeOK'
  <2>1. row.id \in Deliveries
    BY <1>b
  <2>2. sent' \in [Deliveries -> Nat]
    BY <1>12, <2>1, Bump DEF Send, TypeOK
  <2>3. wire' \in [Deliveries -> WirePlaces]
    BY <1>12, <2>1 DEF Send, TypeOK, WirePlaces
  <2> QED BY <1>12, <2>2, <2>3 DEF Send, GoTo, TypeOK, WorkerPcs, tableVars
<1>13. ASSUME NEW w \in Workers, NEW row \in todo[w], Replied(w, row) PROVE TypeOK'
  BY <1>13 DEF Replied, Uncertain, GoTo, TypeOK, WorkerPcs, Answers, tableVars, deviceVars
<1>14. ASSUME NEW w \in Workers, NEW row \in todo[w], Unregistered(w, row) PROVE TypeOK'
  <2>1. CASE query' = [query EXCEPT ![row.id] = "REGISTRATION_UNAVAILABLE"] /\ Update(row.id, "ACCEPTED", reason[row.id], bound[row.id])
    <3>1. row.id \in Deliveries /\ reason[row.id] \in Reasons /\ bound[row.id] \in DeviceJobs \cup {NoJob}
      BY <1>b DEF TypeOK
    <3>2. query' \in [Deliveries -> QueryFailures \cup {"never", "ok"}]
      BY <2>1, <3>1 DEF TypeOK, QueryFailures
    <3>3. failures' \in 0..MaxFailures
      BY <1>14 DEF Unregistered, TypeOK
    <3> QED BY <1>14, <2>1, <3>1, <3>2, <3>3, UpdateType
            DEF Unregistered, NoteFailure, Drop, Keep, TypeOK, DeliveryStates, deviceVars
  <2>2. CASE UNCHANGED <<dstate, revision, reason, bound, query, expired, receipt>>
    BY <1>14, <2>2 DEF Unregistered, NoteFailure, Drop, Keep, TypeOK, deviceVars
  <2> QED BY <1>14, <2>1, <2>2 DEF Unregistered, NoteFailure
<1>15. ASSUME NEW w \in Workers, NEW row \in todo[w], ClaimCancel(w, row) PROVE TypeOK'
  <2>1. CASE Update(row.id, "ACCEPTED", Dispatched, bound[row.id])
    <3>1. Claimed(row) \in Rows
      BY <1>b DEF Claimed, Rows, Dispatched, Reasons, CancelReasons
    <3>2. /\ row.id \in Deliveries /\ reason[row.id] \in Reasons /\ bound[row.id] \in DeviceJobs \cup {NoJob}
          /\ Dispatched \in Reasons /\ "ACCEPTED" \in DeliveryStates
      BY <1>b DEF TypeOK, Reasons, CancelReasons, Dispatched, DeliveryStates
    <3>3. pc' \in [Workers -> WorkerPcs]
      BY <1>15 DEF ClaimCancel, GoTo, TypeOK, WorkerPcs
    <3>4. todo' \in [Workers -> SUBSET Rows]
      BY <1>15, <3>1 DEF ClaimCancel, Drop, Keep, TypeOK
    <3> QED BY <1>15, <2>1, <3>2, <3>3, <3>4, UpdateType DEF ClaimCancel, TypeOK, deviceVars
  <2>2. CASE UNCHANGED <<dstate, revision, reason, bound, expired, receipt, pc>> /\ Drop(w, row)
    BY <1>15, <2>2 DEF ClaimCancel, Drop, Keep, TypeOK, deviceVars
  <2> QED BY <1>15, <2>1, <2>2 DEF ClaimCancel
<1>16. ASSUME NEW w \in Workers, NEW row \in todo[w], SendCancel(w, row) PROVE TypeOK'
  <2>1. cancels' \in [DeviceJobs -> Nat]
    <3>1. row.job \in DeviceJobs
      BY <1>16, <1>b DEF SendCancel, GoTo, Bindings, Polling, DeviceJobs
    <3> QED BY <1>16, <3>1, Bump DEF SendCancel, TypeOK
  <2> QED BY <1>16, <2>1 DEF SendCancel, GoTo, TypeOK, WorkerPcs, tableVars
<1>17. ASSUME NEW w \in Workers, NEW row \in todo[w], Query(w, row) PROVE TypeOK'
  <2>1. answer' \in [Workers -> Answers]
    <3>1. Known(row.job) => job[row.job] \in DeviceStates
      <4>1. row.job \in DeviceJobs
        BY <1>17, <1>b DEF Query, GoTo, Bindings, Polling, DeviceJobs
      <4> QED BY <4>1 DEF Known, TypeOK
    <3> QED BY <1>17, <3>1 DEF Query, TypeOK, Answers, QueryFailures
  <2>2. failures' \in 0..MaxFailures /\ pc' \in [Workers -> WorkerPcs]
    BY <1>17 DEF Query, GoTo, TypeOK, WorkerPcs
  <2> QED BY <1>17, <2>1, <2>2 DEF Query, TypeOK, tableVars, deviceVars
<1>18. ASSUME NEW w \in Workers, NEW row \in todo[w], Observe(w, row) PROVE TypeOK'
  <2>1. CASE query' = [query EXCEPT ![row.id] = answer[w]] /\ Update(row.id, "ACCEPTED", reason[row.id], bound[row.id])
             /\ answer[w] \in QueryFailures /\ UNCHANGED <<run, sample>>
    BY <1>18, <1>b, <2>1, UpdateType DEF Observe, GoTo, Drop, Keep, TypeOK, DeliveryStates, Answers, WorkerPcs, deviceVars
  <2>2. CASE UNCHANGED tableVars
    BY <1>18, <2>2 DEF Observe, GoTo, Drop, Keep, TypeOK, Answers, WorkerPcs, tableVars, deviceVars
  <2>3. CASE /\ answer[w] \in DeviceStates /\ sample' = [sample EXCEPT ![row.id] = answer[w]]
             /\ query' = [query EXCEPT ![row.id] = "ok"] /\ run' = run
             /\ Update(row.id, Verdict(answer[w]), reason[row.id], bound[row.id])
    <3>1. /\ row.id \in Deliveries /\ reason[row.id] \in Reasons /\ bound[row.id] \in DeviceJobs \cup {NoJob}
          /\ Verdict(answer[w]) \in DeliveryStates
      BY <1>a, <1>b DEF TypeOK, DeliveryStates
    <3>2. /\ query' \in [Deliveries -> QueryFailures \cup {"never", "ok"}]
          /\ sample' \in [Deliveries -> DeviceStates \cup {"none"}]
      BY <2>3, <3>1 DEF TypeOK
    <3>3. pc' \in [Workers -> WorkerPcs] /\ todo' \in [Workers -> SUBSET Rows] /\ answer' \in [Workers -> Answers]
      BY <1>18 DEF Observe, GoTo, Drop, Keep, TypeOK, WorkerPcs, Answers
    <3> QED BY <1>18, <2>3, <3>1, <3>2, <3>3, UpdateType DEF Observe, TypeOK, deviceVars
  <2> QED BY <1>18, <2>1, <2>2, <2>3 DEF Observe, NoteFailure, tableVars
<1>19. ASSUME NEW w \in Workers, WorkerCrash(w) PROVE TypeOK'
  BY <1>19 DEF WorkerCrash, Keep, TypeOK, WorkerPcs, Answers, tableVars, deviceVars
<1>20. ASSUME NEW d \in Deliveries, Expire(d) PROVE TypeOK'
  BY <1>20 DEF Expire, TypeOK, deviceVars, workerVars
<1>21. ASSUME NEW d \in Deliveries, Arrive(d) \/ PrintOn(d) \/ Forget(d) PROVE TypeOK'
  <2>1. CASE Arrive(d)
    BY <2>1 DEF Arrive, TypeOK, WirePlaces, DeviceJobs, DeviceStates, tableVars, workerVars
  <2>2. CASE PrintOn(d)
    BY <2>2 DEF PrintOn, TypeOK, DeviceJobs, DeviceStates, JobEnds, tableVars, workerVars
  <2>3. CASE Forget(d)
    BY <2>3 DEF Forget, TypeOK, tableVars, workerVars
  <2> QED BY <1>21, <2>1, <2>2, <2>3
<1>22. ASSUME NEW w \in Workers, NEW row \in todo[w], Finish(w, row) PROVE TypeOK'
  <2>1. CASE Update(row.id, answer[w], ReasonOf(answer[w]), IF answer[w] = "ACCEPTED" THEN row.id ELSE NoJob)
    <3>1. answer[w] \in DeliveryStates /\ ReasonOf(answer[w]) \in Reasons
      BY <1>22 DEF Finish, StillSending, GoTo, Bindings, DeliveryStates, ReasonOf, Reasons
    <3>2. row.id \in Deliveries /\ row.id \in DeviceJobs
      BY <1>b DEF DeviceJobs
    <3>3. pc' \in [Workers -> WorkerPcs] /\ todo' \in [Workers -> SUBSET Rows] /\ answer' \in [Workers -> Answers]
      BY <1>22, <2>1 DEF Finish, GoTo, Keep, TypeOK, WorkerPcs, Answers
    <3> QED BY <1>22, <2>1, <3>1, <3>2, <3>3, UpdateType DEF Finish, TypeOK, deviceVars
  <2>2. CASE UNCHANGED <<dstate, revision, reason, bound, expired, receipt>>
    BY <1>22, <2>2 DEF Finish, GoTo, Keep, TypeOK, WorkerPcs, Answers, deviceVars
  <2> QED BY <1>22, <2>1, <2>2 DEF Finish
<1>23. CASE UNCHANGED vars
  BY <1>23 DEF vars, TypeOK
<1> QED
  BY <1>1, <1>2, <1>3, <1>4, <1>5, <1>6, <1>7, <1>8, <1>9, <1>10, <1>11, <1>12, <1>13, <1>14,
     <1>15, <1>16, <1>17, <1>18, <1>19, <1>20, <1>21, <1>22, <1>23
  DEF Next, Clients, Printer, WorkerStep, RowStep
-----------------------------------------------------------------------------
(* What a process knows of its delivery                                    *)

(* At the start nobody knows of a job and none is bound. *)
LEMMA InitBindings == Init => Bindings
BY DEF Init, Bindings, Polling

(* A row is only ever bound to the job its own document became, and a worker
   that polls holds a bound row. *)
LEMMA BindingsStep == TypeOK /\ Bindings /\ [Next]_vars => Bindings'
<1> SUFFICES ASSUME TypeOK, Bindings, [Next]_vars PROVE Bindings'
  OBVIOUS
<1>a. ASSUME NEW w \in Workers, NEW row \in todo[w] PROVE row \in Rows /\ row.id \in Deliveries
  BY <1>a DEF TypeOK, Rows
<1>1. ASSUME NEW d \in Deliveries, Enqueue(d) PROVE Bindings'
  BY <1>1, <1>a DEF Enqueue, deviceVars, workerVars, Bindings, Polling, TypeOK
<1>2. ASSUME NEW d \in Deliveries, RequestCancel(d) PROVE Bindings'
  BY <1>2, <1>a DEF RequestCancel, Update, deviceVars, workerVars, Bindings, Polling, TypeOK
<1>3. ASSUME NEW a \in Admins, NEW d \in Deliveries, NEW j \in DeviceJobs, Inquire(a, d, j) PROVE Bindings'
  <2>1. j = d /\ Verdict(job[j]) \in {"COMPLETED", "CANCELLED", "ABORTED", "ACCEPTED"}
    BY <1>3 DEF Inquire, NamedAfter, Verdict
  <2> QED BY <1>3, <2>1 DEF Inquire, tableVars, deviceVars, workerVars, Bindings, TypeOK
<1>4. ASSUME NEW a \in Admins, Reconcile(a) PROVE Bindings'
  BY <1>4, <1>a DEF Reconcile, Matches, Update, deviceVars, workerVars, Bindings, Polling, TypeOK
<1>5. ASSUME NEW w \in Workers, ListExpired(w) PROVE Bindings'
  BY <1>5, <1>a DEF ListExpired, GoTo, Keep, tableVars, deviceVars, Bindings, Polling, TypeOK
<1>6. ASSUME NEW w \in Workers, TakeNext(w) PROVE Bindings'
  BY <1>6, <1>a DEF TakeNext, GoTo, Keep, tableVars, deviceVars, Bindings, Polling, TypeOK
<1>7. ASSUME NEW w \in Workers, PrepareFails(w) PROVE Bindings'
  BY <1>7, <1>a DEF PrepareFails, GoTo, tableVars, deviceVars, Bindings, Polling, TypeOK
<1>8. ASSUME NEW w \in Workers, ListAccepted(w) PROVE Bindings'
  <2>1. \A row \in {Row(d) : d \in Listed} : row.job = row.id
    <3>1. Listed \subseteq In("ACCEPTED")
      BY DEF Listed
    <3>2. \A d \in In("ACCEPTED") : Row(d).job = Row(d).id
      BY DEF In, Row, Bindings
    <3> QED BY <3>1, <3>2
  <2> QED BY <1>8, <2>1 DEF ListAccepted, GoTo, Keep, tableVars, deviceVars, Bindings, Polling, TypeOK
<1>9. ASSUME NEW w \in Workers, EndPass(w) PROVE Bindings'
  BY <1>9, <1>a DEF EndPass, GoTo, tableVars, deviceVars, Bindings, Polling, TypeOK
<1>10. ASSUME NEW w \in Workers, NEW row \in todo[w], Recover(w, row) PROVE Bindings'
  BY <1>10, <1>a DEF Recover, Recovered, Matches, Update, Drop, Keep, deviceVars, Bindings, Polling, TypeOK
<1>11. ASSUME NEW w \in Workers, NEW row \in todo[w], Claim(w, row) PROVE Bindings'
  BY <1>11, <1>a DEF Claim, Matches, Update, GoTo, Drop, Keep, deviceVars, Bindings, Polling, TypeOK
<1>12. ASSUME NEW w \in Workers, NEW row \in todo[w], Send(w, row) PROVE Bindings'
  BY <1>12, <1>a DEF Send, GoTo, tableVars, Bindings, Polling, TypeOK
<1>13. ASSUME NEW w \in Workers, NEW row \in todo[w], Replied(w, row) PROVE Bindings'
  BY <1>13, <1>a DEF Replied, Uncertain, GoTo, tableVars, deviceVars, Bindings, Polling, TypeOK
<1>14. ASSUME NEW w \in Workers, NEW row \in todo[w], Finish(w, row) PROVE Bindings'
  BY <1>14, <1>a DEF Finish, StillSending, Update, GoTo, Keep, deviceVars, Bindings, Polling, TypeOK
<1>15. ASSUME NEW w \in Workers, NEW row \in todo[w], Unregistered(w, row) PROVE Bindings'
  BY <1>15, <1>a DEF Unregistered, NoteFailure, Matches, Update, Drop, Keep, deviceVars, Bindings, Polling, TypeOK
<1>16. ASSUME NEW w \in Workers, NEW row \in todo[w], ClaimCancel(w, row) PROVE Bindings'
  BY <1>16, <1>a DEF ClaimCancel, Claimed, Matches, Update, GoTo, Drop, Keep, deviceVars, Bindings, Polling, TypeOK
<1>17. ASSUME NEW w \in Workers, NEW row \in todo[w], SendCancel(w, row) PROVE Bindings'
  BY <1>17, <1>a DEF SendCancel, GoTo, tableVars, Bindings, Polling, TypeOK
<1>18. ASSUME NEW w \in Workers, NEW row \in todo[w], Query(w, row) PROVE Bindings'
  <2>1. Known(row.job) => job[row.job] \in DeviceStates
    <3>1. row.job \in DeviceJobs
      BY <1>18, <1>a DEF Query, GoTo, Bindings, Polling, DeviceJobs
    <3> QED BY <3>1 DEF Known, TypeOK
  <2>2. answer'[w] \in DeviceStates \cup QueryFailures
    BY <1>18, <2>1 DEF Query, TypeOK, QueryFailures
  <2> QED BY <1>18, <2>2 DEF Query, GoTo, tableVars, deviceVars, Bindings, Polling, TypeOK
<1>19. ASSUME NEW w \in Workers, NEW row \in todo[w], Observe(w, row) PROVE Bindings'
  BY <1>19, <1>a DEF Observe, NoteFailure, Matches, Update, GoTo, Drop, Keep, tableVars, deviceVars, Bindings, Polling, TypeOK
<1>20. ASSUME NEW w \in Workers, WorkerCrash(w) PROVE Bindings'
  BY <1>20, <1>a DEF WorkerCrash, Keep, tableVars, deviceVars, Bindings, Polling, TypeOK
<1>21. ASSUME NEW d \in Deliveries, Expire(d) PROVE Bindings'
  BY <1>21, <1>a DEF Expire, deviceVars, workerVars, Bindings, Polling, TypeOK
<1>22. ASSUME NEW d \in Deliveries, Arrive(d) PROVE Bindings'
  BY <1>22, <1>a DEF Arrive, tableVars, workerVars, Bindings, Polling, TypeOK
<1>23. ASSUME NEW d \in Deliveries, PrintOn(d) PROVE Bindings'
  BY <1>23, <1>a DEF PrintOn, tableVars, workerVars, Bindings, Polling, TypeOK
<1>24. ASSUME NEW d \in Deliveries, Forget(d) PROVE Bindings'
  BY <1>24, <1>a DEF Forget, tableVars, workerVars, Bindings, Polling, TypeOK
<1>25. CASE UNCHANGED vars
  BY <1>25 DEF vars, Bindings
<1> QED
  BY <1>1, <1>2, <1>3, <1>4, <1>5, <1>6, <1>7, <1>8, <1>9, <1>10, <1>11, <1>12, <1>13, <1>14, <1>15, <1>16, <1>17, <1>18, <1>19, <1>20, <1>21, <1>22, <1>23, <1>24, <1>25
  DEF Next, Clients, Printer, WorkerStep, RowStep

(* Types and bindings need each other: a printer is only asked about bound *)
(* jobs, and only outcomes become states.                                   *)
LEMMA AlwaysBound == Spec => [](TypeOK /\ Bindings)
<1>1. Init => TypeOK /\ Bindings
  BY InitType, InitBindings
<1>2. TypeOK /\ Bindings /\ [Next]_vars => (TypeOK /\ Bindings)'
  BY TypeStep, BindingsStep
<1> QED BY <1>1, <1>2, PTL DEF Spec

(* Every variable of the table, the workers and the printer keeps its type. *)
THEOREM TypeCorrect == Spec => []TypeOK
BY AlwaysBound, PTL

-----------------------------------------------------------------------------
(* What a step does to the printer and the network                          *)

Sends(d) ==
  /\ wire[d] = "idle" /\ dstate[d] \in {"SENDING", "UNKNOWN"}
  /\ wire' = [wire EXCEPT ![d] = "inflight"]
  /\ sent' = [sent EXCEPT ![d] = @ + 1]
  /\ UNCHANGED job

(* An action leaves the printer and the network alone, or it sends, delivers,
   prints on, or loses sight of one delivery's document. *)
LEMMA DeviceSteps ==
  ASSUME TypeOK, SendersOwn, [Next]_vars
  PROVE  \/ UNCHANGED <<sent, wire, job>>
         \/ /\ \E d \in Deliveries : Sends(d) \/ Arrive(d) \/ PrintOn(d)
            /\ UNCHANGED <<dstate, revision, reason, bound, receipt, inquiry>>
<1> DEFINE Stays == UNCHANGED <<sent, wire, job>>
           Moves == /\ \E d \in Deliveries : Sends(d) \/ Arrive(d) \/ PrintOn(d)
                    /\ UNCHANGED <<dstate, revision, reason, bound, receipt, inquiry>>
<1> SUFFICES Stays \/ Moves
  OBVIOUS
<1>1. ASSUME NEW d \in Deliveries, Enqueue(d) PROVE Stays
  BY <1>1 DEF Enqueue, deviceVars
<1>2. ASSUME NEW d \in Deliveries, RequestCancel(d) PROVE Stays
  BY <1>2 DEF RequestCancel, deviceVars
<1>3. ASSUME NEW a \in Admins, NEW d \in Deliveries, NEW j \in DeviceJobs, Inquire(a, d, j) PROVE Stays
  BY <1>3 DEF Inquire, deviceVars
<1>4. ASSUME NEW a \in Admins, Reconcile(a) PROVE Stays
  BY <1>4 DEF Reconcile, deviceVars
<1>5. ASSUME NEW w \in Workers, ListExpired(w) PROVE Stays
  BY <1>5 DEF ListExpired, deviceVars
<1>6. ASSUME NEW w \in Workers, TakeNext(w) PROVE Stays
  BY <1>6 DEF TakeNext, deviceVars
<1>7. ASSUME NEW w \in Workers, PrepareFails(w) PROVE Stays
  BY <1>7 DEF PrepareFails, deviceVars
<1>8. ASSUME NEW w \in Workers, ListAccepted(w) PROVE Stays
  BY <1>8 DEF ListAccepted, deviceVars
<1>9. ASSUME NEW w \in Workers, EndPass(w) PROVE Stays
  BY <1>9 DEF EndPass, deviceVars
<1>10. ASSUME NEW w \in Workers, NEW row \in todo[w], Recover(w, row) PROVE Stays
  BY <1>10 DEF Recover, deviceVars
<1>11. ASSUME NEW w \in Workers, NEW row \in todo[w], Claim(w, row) PROVE Stays
  BY <1>11 DEF Claim, deviceVars
<1>12. ASSUME NEW w \in Workers, NEW row \in todo[w], Send(w, row) PROVE Moves
  <2>1. row.id \in Deliveries
    BY DEF TypeOK, Rows
  <2> QED BY <1>12, <2>1 DEF Send, Sends, GoTo, SendersOwn, tableVars
<1>13. ASSUME NEW w \in Workers, NEW row \in todo[w], Replied(w, row) PROVE Stays
  BY <1>13 DEF Replied, deviceVars
<1>14. ASSUME NEW w \in Workers, NEW row \in todo[w], Finish(w, row) PROVE Stays
  BY <1>14 DEF Finish, deviceVars
<1>15. ASSUME NEW w \in Workers, NEW row \in todo[w], Unregistered(w, row) PROVE Stays
  BY <1>15 DEF Unregistered, deviceVars
<1>16. ASSUME NEW w \in Workers, NEW row \in todo[w], ClaimCancel(w, row) PROVE Stays
  BY <1>16 DEF ClaimCancel, deviceVars
<1>17. ASSUME NEW w \in Workers, NEW row \in todo[w], SendCancel(w, row) PROVE Stays
  BY <1>17 DEF SendCancel, deviceVars
<1>18. ASSUME NEW w \in Workers, NEW row \in todo[w], Query(w, row) PROVE Stays
  BY <1>18 DEF Query, deviceVars
<1>19. ASSUME NEW w \in Workers, NEW row \in todo[w], Observe(w, row) PROVE Stays
  BY <1>19 DEF Observe, deviceVars
<1>20. ASSUME NEW w \in Workers, WorkerCrash(w) PROVE Stays
  BY <1>20 DEF WorkerCrash, deviceVars
<1>21. ASSUME NEW d \in Deliveries, Expire(d) PROVE Stays
  BY <1>21 DEF Expire, deviceVars
<1>22. ASSUME NEW d \in Deliveries, Arrive(d) PROVE Moves
  BY <1>22 DEF Arrive, tableVars
<1>23. ASSUME NEW d \in Deliveries, PrintOn(d) PROVE Moves
  BY <1>23 DEF PrintOn, tableVars
<1>24. ASSUME NEW d \in Deliveries, Forget(d) PROVE Stays
  BY <1>24 DEF Forget, deviceVars
<1>25. CASE UNCHANGED vars
  BY <1>25 DEF vars
<1> QED
  BY <1>1, <1>2, <1>3, <1>4, <1>5, <1>6, <1>7, <1>8, <1>9, <1>10, <1>11, <1>12, <1>13, <1>14, <1>15, <1>16, <1>17, <1>18, <1>19, <1>20, <1>21, <1>22, <1>23, <1>24, <1>25
  DEF Next, Clients, Printer, WorkerStep, RowStep

(* The network and the printer agree on what was sent, for only a worker that
   owns its claimed row sends. *)
LEMMA WiredStep == TypeOK /\ Wired /\ SendersOwn /\ [Next]_vars => Wired'
<1> SUFFICES ASSUME TypeOK, Wired, SendersOwn, [Next]_vars PROVE Wired'
  OBVIOUS
<1>1. CASE UNCHANGED <<sent, wire, job>>
  BY <1>1 DEF Wired
<1>2. ASSUME NEW d \in Deliveries, Sends(d) PROVE Wired'
  BY <1>2 DEF Sends, Wired, TypeOK
<1>3. ASSUME NEW d \in Deliveries, Arrive(d) PROVE Wired'
  BY <1>3 DEF Arrive, Wired, TypeOK, DeviceJobs
<1>4. ASSUME NEW d \in Deliveries, PrintOn(d) PROVE Wired'
  BY <1>4 DEF PrintOn, Wired, TypeOK, JobEnds, DeviceJobs
<1> QED BY <1>1, <1>2, <1>3, <1>4, DeviceSteps

(* A verdict that holds goes on to hold: ends are ends, and nothing is sent *)
(* of a delivery on which there is a verdict.                               *)
LEMMA VerdictsStay ==
  ASSUME TypeOK, Wired, SendersOwn, [Next]_vars, NEW d \in Deliveries, NEW v \in DeliveryStates \cup {"ABSENT"},
         VerdictHolds(d, v), v \in {"ACCEPTED", "COMPLETED", "ABORTED"} \/ wire[d] = "accepted" \/ dstate[d] \notin {"SENDING", "UNKNOWN"}
  PROVE  VerdictHolds(d, v)'
<1>1. CASE UNCHANGED <<sent, wire, job>>
  BY <1>1 DEF VerdictHolds
<1>2. ASSUME NEW e \in Deliveries, Sends(e) PROVE VerdictHolds(d, v)'
  BY <1>2 DEF Sends, VerdictHolds, TypeOK, Wired
<1>3. ASSUME NEW e \in Deliveries, Arrive(e) PROVE VerdictHolds(d, v)'
  BY <1>3 DEF Arrive, VerdictHolds, TypeOK, Wired, DeviceJobs
<1>4. ASSUME NEW e \in Deliveries, PrintOn(e) PROVE VerdictHolds(d, v)'
  BY <1>4 DEF PrintOn, VerdictHolds, TypeOK, JobEnds, DeviceJobs
<1> QED BY <1>1, <1>2, <1>3, <1>4, DeviceSteps

(* A job that exists never stops existing: it may only be forgotten. *)
LEMMA AcceptedStays ==
  ASSUME TypeOK, SendersOwn, [Next]_vars, NEW d \in Deliveries, wire[d] = "accepted"
  PROVE  wire'[d] = "accepted"
BY DeviceSteps DEF Sends, Arrive, PrintOn, TypeOK

-----------------------------------------------------------------------------
(* What a step does to a row                                                *)

Stays(d) ==
  <<dstate'[d], revision'[d], reason'[d], bound'[d], receipt'[d]>>
    = <<dstate[d], revision[d], reason[d], bound[d], receipt[d]>>

Begins(d) ==
  /\ dstate[d] = "ABSENT" /\ dstate'[d] = "QUEUED"
  /\ <<revision'[d], reason'[d], bound'[d], receipt'[d]>> = <<revision[d], reason[d], bound[d], receipt[d]>>

(* update_delivery: the moves there are, each with a verdict that holds. *)
Moves(d) ==
  /\ revision'[d] = revision[d] + 1
  /\ receipt'[d] = IF dstate'[d] \in Settled
                   THEN [state |-> dstate'[d], revision |-> revision'[d], job |-> bound'[d]]
                   ELSE receipt[d]
  /\ VerdictHolds(d, dstate'[d])
  /\ \/ /\ dstate[d] = "QUEUED" /\ dstate'[d] \in {"SENDING", "CANCELLED"}
        /\ reason'[d] \in {reason[d], "CANCELLED_BEFORE_SEND"}
     \/ /\ dstate[d] = "SENDING" /\ dstate'[d] \in {"ACCEPTED", "REJECTED", "UNKNOWN"}
        /\ reason'[d] \notin CancelReasons
     \/ /\ dstate[d] = "UNKNOWN" /\ dstate'[d] \in {"ACCEPTED", "COMPLETED", "CANCELLED", "ABORTED"}
        /\ reason'[d] \notin CancelReasons
     \/ /\ dstate[d] = "ACCEPTED" /\ dstate'[d] \in {"ACCEPTED", "COMPLETED", "CANCELLED", "ABORTED"}
        /\ \/ reason'[d] = reason[d]
           \/ reason[d] \notin CancelReasons /\ reason'[d] = "CANCEL_REQUESTED"
           \/ reason[d] = "CANCEL_REQUESTED" /\ reason'[d] = "CANCEL_DISPATCHING"

RowGoes(d) == Stays(d) \/ Begins(d) \/ Moves(d)

RowInv == TypeOK /\ Bindings /\ Wired /\ RowsHold /\ SendersOwn /\ AnswersHold /\ InquiriesHold /\ SnapshotsExact

(* An action leaves every row alone or moves one row the way RowGoes lists. *)
LEMMA RowSteps ==
  ASSUME RowInv, [Next]_vars
  PROVE  \A e \in Deliveries : RowGoes(e)
<1> USE DEF RowInv
<1>a. ASSUME NEW w \in Workers, NEW row \in todo[w] PROVE row \in Rows /\ row.id \in Deliveries
  BY <1>a DEF TypeOK, Rows
<1>b. ASSUME UNCHANGED <<dstate, revision, reason, bound, receipt>> PROVE \A e \in Deliveries : RowGoes(e)
  BY <1>b DEF RowGoes, Stays
<1>1. ASSUME NEW d \in Deliveries, Enqueue(d) PROVE \A e \in Deliveries : RowGoes(e)
  BY <1>1 DEF Enqueue, RowGoes, Stays, Begins, TypeOK
<1>2. ASSUME NEW d \in Deliveries, RequestCancel(d) PROVE \A e \in Deliveries : RowGoes(e)
  BY <1>2, <1>a DEF RequestCancel, Update, RowGoes, Stays, Moves, CancelReasons, RowsHold, VerdictHolds, TypeOK
<1>3. ASSUME NEW a \in Admins, NEW d \in Deliveries, NEW j \in DeviceJobs, Inquire(a, d, j) PROVE \A e \in Deliveries : RowGoes(e)
  BY <1>3, <1>b DEF Inquire, tableVars
<1>4. ASSUME NEW a \in Admins, Reconcile(a) PROVE \A e \in Deliveries : RowGoes(e)
  BY <1>4, <1>a DEF Reconcile, Matches, Update, RowGoes, Stays, Moves, CancelReasons, Bindings, InquiriesHold, TypeOK
<1>5. ASSUME NEW w \in Workers, ListExpired(w) PROVE \A e \in Deliveries : RowGoes(e)
  BY <1>5, <1>b DEF ListExpired, tableVars
<1>6. ASSUME NEW w \in Workers, TakeNext(w) PROVE \A e \in Deliveries : RowGoes(e)
  BY <1>6, <1>b DEF TakeNext, tableVars
<1>7. ASSUME NEW w \in Workers, PrepareFails(w) PROVE \A e \in Deliveries : RowGoes(e)
  BY <1>7, <1>b DEF PrepareFails, tableVars
<1>8. ASSUME NEW w \in Workers, ListAccepted(w) PROVE \A e \in Deliveries : RowGoes(e)
  BY <1>8, <1>b DEF ListAccepted, tableVars
<1>9. ASSUME NEW w \in Workers, EndPass(w) PROVE \A e \in Deliveries : RowGoes(e)
  BY <1>9, <1>b DEF EndPass, tableVars
<1>10. ASSUME NEW w \in Workers, NEW row \in todo[w], Recover(w, row) PROVE \A e \in Deliveries : RowGoes(e)
  BY <1>10, <1>a DEF Recover, Recovered, Matches, Update, RowGoes, Stays, Moves, CancelReasons, VerdictHolds, TypeOK
<1>11. ASSUME NEW w \in Workers, NEW row \in todo[w], Claim(w, row) PROVE \A e \in Deliveries : RowGoes(e)
  BY <1>11, <1>a DEF Claim, Matches, Update, RowGoes, Stays, Moves, RowsHold, VerdictHolds, TypeOK
<1>12. ASSUME NEW w \in Workers, NEW row \in todo[w], Send(w, row) PROVE \A e \in Deliveries : RowGoes(e)
  BY <1>12, <1>b DEF Send, tableVars
<1>13. ASSUME NEW w \in Workers, NEW row \in todo[w], Replied(w, row) PROVE \A e \in Deliveries : RowGoes(e)
  BY <1>13, <1>b DEF Replied, tableVars
<1>14. ASSUME NEW w \in Workers, NEW row \in todo[w], Finish(w, row) PROVE \A e \in Deliveries : RowGoes(e)
  BY <1>14, <1>a DEF Finish, StillSending, GoTo, Update, RowGoes, Stays, Moves, ReasonOf, CancelReasons, Bindings, SendersOwn, TypeOK
<1>15. ASSUME NEW w \in Workers, NEW row \in todo[w], Unregistered(w, row) PROVE \A e \in Deliveries : RowGoes(e)
  BY <1>15, <1>a DEF Unregistered, NoteFailure, Matches, Update, RowGoes, Stays, Moves, RowsHold, TypeOK
<1>16. ASSUME NEW w \in Workers, NEW row \in todo[w], ClaimCancel(w, row) PROVE \A e \in Deliveries : RowGoes(e)
  BY <1>16, <1>a DEF ClaimCancel, Matches, Update, RowGoes, Stays, Moves, CancelWanted, Dispatched, CancelReasons, RowsHold, SnapshotsExact, TypeOK
<1>17. ASSUME NEW w \in Workers, NEW row \in todo[w], SendCancel(w, row) PROVE \A e \in Deliveries : RowGoes(e)
  BY <1>17, <1>b DEF SendCancel, tableVars
<1>18. ASSUME NEW w \in Workers, NEW row \in todo[w], Query(w, row) PROVE \A e \in Deliveries : RowGoes(e)
  BY <1>18, <1>b DEF Query, tableVars
<1>19. ASSUME NEW w \in Workers, NEW row \in todo[w], Observe(w, row) PROVE \A e \in Deliveries : RowGoes(e)
  <2>1. CASE NoteFailure(row, answer[w])
    BY <2>1, <1>a DEF NoteFailure, Matches, Update, RowGoes, Stays, Moves, RowsHold, TypeOK
  <2>2. CASE UNCHANGED tableVars
    BY <2>2, <1>b DEF tableVars
  <2>3. CASE /\ answer[w] \in DeviceStates /\ Matches(row, "ACCEPTED")
             /\ Update(row.id, Verdict(answer[w]), reason[row.id], bound[row.id])
    <3>1. VerdictHolds(row.id, Verdict(answer[w]))
      BY <1>19, <1>a, <2>3 DEF Observe, GoTo, AnswersHold, RowsHold, VerdictHolds, Verdict, Matches, JobEnds
    <3>2. Verdict(answer[w]) \in {"ACCEPTED", "COMPLETED", "CANCELLED", "ABORTED"}
      BY DEF Verdict
    <3> QED BY <1>a, <2>3, <3>1, <3>2 DEF Matches, Update, RowGoes, Stays, Moves, TypeOK
  <2> QED BY <1>19, <2>1, <2>2, <2>3 DEF Observe
<1>20. ASSUME NEW w \in Workers, WorkerCrash(w) PROVE \A e \in Deliveries : RowGoes(e)
  BY <1>20, <1>b DEF WorkerCrash, tableVars
<1>21. ASSUME NEW d \in Deliveries, Expire(d) PROVE \A e \in Deliveries : RowGoes(e)
  BY <1>21, <1>b DEF Expire, tableVars
<1>22. ASSUME NEW d \in Deliveries, Arrive(d) PROVE \A e \in Deliveries : RowGoes(e)
  BY <1>22, <1>b DEF Arrive, tableVars
<1>23. ASSUME NEW d \in Deliveries, PrintOn(d) PROVE \A e \in Deliveries : RowGoes(e)
  BY <1>23, <1>b DEF PrintOn, tableVars
<1>24. ASSUME NEW d \in Deliveries, Forget(d) PROVE \A e \in Deliveries : RowGoes(e)
  BY <1>24, <1>b DEF Forget, tableVars
<1>25. CASE UNCHANGED vars
  BY <1>25, <1>b DEF vars
<1> QED
  BY <1>1, <1>2, <1>3, <1>4, <1>5, <1>6, <1>7, <1>8, <1>9, <1>10, <1>11, <1>12, <1>13, <1>14, <1>15, <1>16, <1>17, <1>18, <1>19, <1>20, <1>21, <1>22, <1>23, <1>24, <1>25
  DEF Next, Clients, Printer, WorkerStep, RowStep

(* What the rows say of the printer goes on to hold. *)
LEMMA RowsHoldStep == RowInv /\ [Next]_vars => RowsHold'
<1> SUFFICES ASSUME RowInv, [Next]_vars, NEW d \in Deliveries PROVE VerdictHolds(d, dstate[d])'
  BY DEF RowsHold
<1>1. RowGoes(d)
  BY RowSteps
<1>2. VerdictHolds(d, dstate[d]) /\ dstate[d] \in DeliveryStates \cup {"ABSENT"}
  BY DEF RowInv, RowsHold, TypeOK
<1>3. CASE dstate'[d] = dstate[d]
  <2>1. CASE dstate[d] \in {"SENDING", "UNKNOWN"}
    BY <1>3, <2>1 DEF VerdictHolds
  <2>2. CASE dstate[d] \notin {"SENDING", "UNKNOWN"}
    <3>1. PICK v \in DeliveryStates \cup {"ABSENT"} : v = dstate[d]
      BY <1>2
    <3>2. VerdictHolds(d, v)'
      BY <1>2, <2>2, <3>1, VerdictsStay DEF RowInv
    <3> QED BY <1>3, <3>1, <3>2 DEF VerdictHolds
  <2> QED BY <2>1, <2>2
<1>4. CASE dstate'[d] # dstate[d]
  <2>1. UNCHANGED <<sent, wire, job>>
    BY <1>4, DeviceSteps DEF RowInv
  <2>2. VerdictHolds(d, dstate'[d])
    BY <1>1, <1>2, <1>4 DEF RowGoes, Stays, Begins, Moves, VerdictHolds
  <2> QED BY <2>1, <2>2 DEF VerdictHolds
<1> QED BY <1>3, <1>4

(* An administrator's finding is still right when it is written, or its
   revision no longer matches. *)
LEMMA InquiriesStep == RowInv /\ [Next]_vars => InquiriesHold'
<1> SUFFICES ASSUME RowInv, [Next]_vars PROVE InquiriesHold'
  OBVIOUS
<1>1. ASSUME NEW a \in Admins, inquiry'[a] # NoInquiry, inquiry'[a] = inquiry[a]
      PROVE  wire'[inquiry[a].id] = "accepted" /\ VerdictHolds(inquiry[a].id, inquiry[a].next)'
  <2>1. PICK d \in Deliveries, v \in DeliveryStates : inquiry[a].id = d /\ inquiry[a].next = v
    BY <1>1 DEF RowInv, TypeOK, Inquiries
  <2>2. wire[d] = "accepted" /\ VerdictHolds(d, v)
    BY <1>1, <2>1 DEF RowInv, InquiriesHold
  <2>3. wire'[d] = "accepted" /\ VerdictHolds(d, v)'
    BY <2>2, VerdictsStay, AcceptedStays DEF RowInv
  <2> QED BY <1>1, <2>1, <2>3 DEF VerdictHolds
<1>2. ASSUME NEW a \in Admins, NEW d \in Deliveries, NEW j \in DeviceJobs, Inquire(a, d, j) PROVE InquiriesHold'
  <2>1. wire[d] = "accepted" /\ VerdictHolds(d, Verdict(job[d]))
    BY <1>2 DEF Inquire, NamedAfter, RowInv, Wired, VerdictHolds, Verdict
  <2>2. inquiry'[a].id = d /\ inquiry'[a].next = Verdict(job[d])
    BY <1>2 DEF Inquire, NamedAfter, RowInv, TypeOK
  <2>3. \A b \in Admins \ {a} : inquiry'[b] = inquiry[b]
    BY <1>2 DEF Inquire, RowInv, TypeOK
  <2>4. UNCHANGED <<wire, job>>
    BY <1>2 DEF Inquire, deviceVars
  <2> QED BY <1>1, <2>1, <2>2, <2>3, <2>4 DEF InquiriesHold, VerdictHolds
<1>3. ASSUME NEW a \in Admins, Reconcile(a) PROVE InquiriesHold'
  <2>1. \A b \in Admins : inquiry'[b] \in {inquiry[b], NoInquiry}
    BY <1>3 DEF Reconcile, RowInv, TypeOK
  <2> QED BY <1>1, <2>1 DEF InquiriesHold
<1>4. CASE UNCHANGED inquiry
  BY <1>1, <1>4 DEF InquiriesHold
<1>5. \/ UNCHANGED inquiry
      \/ \E a \in Admins : Reconcile(a) \/ \E d \in Deliveries, j \in DeviceJobs : Inquire(a, d, j)
  <2>1. ASSUME NEW w \in Workers, ListExpired(w) \/ TakeNext(w) \/ PrepareFails(w) \/ ListAccepted(w) \/ EndPass(w)
        PROVE  UNCHANGED inquiry
    BY <2>1 DEF ListExpired, TakeNext, PrepareFails, ListAccepted, EndPass
  <2>2. ASSUME NEW w \in Workers, NEW row \in todo[w],
               Recover(w, row) \/ Claim(w, row) \/ Send(w, row) \/ Replied(w, row) \/ Finish(w, row)
        PROVE  UNCHANGED inquiry
    BY <2>2 DEF Recover, Claim, Send, Replied, Finish
  <2>3. ASSUME NEW w \in Workers, NEW row \in todo[w],
               Unregistered(w, row) \/ ClaimCancel(w, row) \/ SendCancel(w, row) \/ Query(w, row) \/ Observe(w, row)
        PROVE  UNCHANGED inquiry
    BY <2>3 DEF Unregistered, ClaimCancel, SendCancel, Query, Observe
  <2>4. ASSUME NEW w \in Workers, WorkerCrash(w) PROVE UNCHANGED inquiry
    BY <2>4 DEF WorkerCrash
  <2>5. ASSUME NEW d \in Deliveries,
               Enqueue(d) \/ RequestCancel(d) \/ Expire(d) \/ Arrive(d) \/ PrintOn(d) \/ Forget(d)
        PROVE  UNCHANGED inquiry
    BY <2>5 DEF Enqueue, RequestCancel, Expire, Arrive, PrintOn, Forget
  <2> QED BY <2>1, <2>2, <2>3, <2>4, <2>5 DEF Next, Clients, Printer, WorkerStep, RowStep, vars
<1> QED BY <1>2, <1>3, <1>4, <1>5

(* A worker between claim and finish stays the only one that may send. *)
LEMMA SendersStep == RowInv /\ [Next]_vars => SendersOwn'
<1> SUFFICES ASSUME RowInv, [Next]_vars PROVE SendersOwn'
  OBVIOUS
<1>a. ASSUME NEW w \in Workers, NEW row \in todo[w] PROVE row \in Rows /\ row.id \in Deliveries /\ row.revision \in Nat
  BY <1>a DEF RowInv, TypeOK, Rows
<1>1. ASSUME NEW d \in Deliveries, Enqueue(d) PROVE SendersOwn'
  BY <1>1, <1>a DEF Enqueue, deviceVars, workerVars, SendersOwn, RowInv, Wired, RowsHold, Bindings, VerdictHolds, TypeOK
<1>2. ASSUME NEW d \in Deliveries, RequestCancel(d) PROVE SendersOwn'
  BY <1>2, <1>a DEF RequestCancel, Update, deviceVars, workerVars, SendersOwn, RowInv, Wired, RowsHold, Bindings, VerdictHolds, TypeOK
<1>3. ASSUME NEW a \in Admins, NEW d \in Deliveries, NEW j \in DeviceJobs, Inquire(a, d, j) PROVE SendersOwn'
  BY <1>3, <1>a DEF Inquire, tableVars, deviceVars, workerVars, SendersOwn, RowInv, Wired, RowsHold, Bindings, VerdictHolds, TypeOK
<1>4. ASSUME NEW a \in Admins, Reconcile(a) PROVE SendersOwn'
  <2>1. inquiry[a] # NoInquiry /\ wire[inquiry[a].id] = "accepted"
    BY <1>4 DEF Reconcile, RowInv, InquiriesHold
  <2>2. inquiry[a].next \in {"COMPLETED", "CANCELLED", "ABORTED", "ACCEPTED"}
    BY <2>1 DEF RowInv, Bindings
  <2> QED BY <1>4, <1>a, <2>1, <2>2 DEF Reconcile, Matches, Update, deviceVars, workerVars, SendersOwn, RowInv, VerdictHolds, TypeOK
<1>5. ASSUME NEW w \in Workers, ListExpired(w) PROVE SendersOwn'
  BY <1>5, <1>a DEF ListExpired, GoTo, Keep, tableVars, deviceVars, SendersOwn, RowInv, Wired, RowsHold, Bindings, VerdictHolds, TypeOK
<1>6. ASSUME NEW w \in Workers, TakeNext(w) PROVE SendersOwn'
  BY <1>6, <1>a DEF TakeNext, GoTo, Keep, tableVars, deviceVars, SendersOwn, RowInv, Wired, RowsHold, Bindings, VerdictHolds, TypeOK
<1>7. ASSUME NEW w \in Workers, PrepareFails(w) PROVE SendersOwn'
  BY <1>7, <1>a DEF PrepareFails, GoTo, tableVars, deviceVars, SendersOwn, RowInv, Wired, RowsHold, Bindings, VerdictHolds, TypeOK
<1>8. ASSUME NEW w \in Workers, ListAccepted(w) PROVE SendersOwn'
  BY <1>8, <1>a DEF ListAccepted, GoTo, Keep, tableVars, deviceVars, SendersOwn, RowInv, Wired, RowsHold, Bindings, VerdictHolds, TypeOK
<1>9. ASSUME NEW w \in Workers, EndPass(w) PROVE SendersOwn'
  BY <1>9, <1>a DEF EndPass, GoTo, tableVars, deviceVars, SendersOwn, RowInv, Wired, RowsHold, Bindings, VerdictHolds, TypeOK
<1>10. ASSUME NEW w \in Workers, NEW row \in todo[w], Recover(w, row) PROVE SendersOwn'
  BY <1>10, <1>a DEF Recover, Recovered, Matches, Update, Drop, Keep, deviceVars, SendersOwn, RowInv, Wired, RowsHold, Bindings, VerdictHolds, TypeOK
<1>11. ASSUME NEW w \in Workers, NEW row \in todo[w], Claim(w, row) PROVE SendersOwn'
  <2>1. todo[w] = {row}
    BY <1>11 DEF Claim, GoTo, RowInv, SendersOwn
  <2>2. CASE /\ Matches(row, "QUEUED") /\ GoTo(w, "claiming", "preparing")
             /\ Update(row.id, "SENDING", reason[row.id], bound[row.id])
             /\ run' = [run EXCEPT ![row.id] = w] /\ todo' = todo
    BY <1>11, <1>a, <2>1, <2>2 DEF Claim, Matches, Update, GoTo, deviceVars, SendersOwn, RowInv, RowsHold, VerdictHolds, TypeOK
  <2>3. CASE GoTo(w, "claiming", "listing") /\ Drop(w, row) /\ UNCHANGED <<dstate, revision, reason, run, bound, expired, receipt>>
    BY <1>11, <1>a, <2>3 DEF Claim, GoTo, Drop, Keep, deviceVars, SendersOwn, RowInv, VerdictHolds, TypeOK
  <2> QED BY <1>11, <2>2, <2>3 DEF Claim
<1>12. ASSUME NEW w \in Workers, NEW row \in todo[w], Send(w, row) PROVE SendersOwn'
  BY <1>12, <1>a DEF Send, GoTo, tableVars, SendersOwn, RowInv, Wired, RowsHold, Bindings, VerdictHolds, TypeOK
<1>13. ASSUME NEW w \in Workers, NEW row \in todo[w], Replied(w, row) PROVE SendersOwn'
  <2>1. todo[w] = {row} /\ pc[w] = "sent"
    BY <1>13 DEF Replied, GoTo, RowInv, SendersOwn
  <2>2. VerdictHolds(row.id, answer'[w])
    BY <1>13 DEF Replied, Uncertain, RowInv, TypeOK, VerdictHolds
  <2>3. \A v \in Workers \ {w} : answer'[v] = answer[v]
    BY <1>13 DEF Replied, RowInv, TypeOK
  <2> QED BY <1>13, <1>a, <2>1, <2>2, <2>3 DEF Replied, GoTo, tableVars, deviceVars, SendersOwn, RowInv, VerdictHolds, TypeOK
<1>14. ASSUME NEW w \in Workers, NEW row \in todo[w], Finish(w, row) PROVE SendersOwn'
  BY <1>14, <1>a DEF Finish, StillSending, Update, GoTo, Keep, deviceVars, SendersOwn, RowInv, Wired, RowsHold, Bindings, VerdictHolds, TypeOK
<1>15. ASSUME NEW w \in Workers, NEW row \in todo[w], Unregistered(w, row) PROVE SendersOwn'
  BY <1>15, <1>a DEF Unregistered, NoteFailure, Matches, Update, Drop, Keep, deviceVars, SendersOwn, RowInv, Wired, RowsHold, Bindings, VerdictHolds, TypeOK
<1>16. ASSUME NEW w \in Workers, NEW row \in todo[w], ClaimCancel(w, row) PROVE SendersOwn'
  BY <1>16, <1>a DEF ClaimCancel, Claimed, Matches, Update, GoTo, Drop, Keep, deviceVars, SendersOwn, RowInv, Wired, RowsHold, Bindings, VerdictHolds, TypeOK
<1>17. ASSUME NEW w \in Workers, NEW row \in todo[w], SendCancel(w, row) PROVE SendersOwn'
  BY <1>17, <1>a DEF SendCancel, GoTo, tableVars, SendersOwn, RowInv, Wired, RowsHold, Bindings, VerdictHolds, TypeOK
<1>18. ASSUME NEW w \in Workers, NEW row \in todo[w], Query(w, row) PROVE SendersOwn'
  BY <1>18, <1>a DEF Query, GoTo, tableVars, deviceVars, SendersOwn, RowInv, Wired, RowsHold, Bindings, VerdictHolds, TypeOK
<1>19. ASSUME NEW w \in Workers, NEW row \in todo[w], Observe(w, row) PROVE SendersOwn'
  <2>1. /\ \A d \in Deliveries : dstate'[d] = dstate[d] \/ (dstate[d] = "ACCEPTED" /\ dstate'[d] \notin {"ABSENT", "QUEUED"})
        /\ UNCHANGED <<run, wire, job>>
    BY <1>19, <1>a DEF Observe, NoteFailure, Matches, Update, Verdict, tableVars, deviceVars, RowInv, TypeOK
  <2>2. \A v \in Workers \ {w} : pc'[v] = pc[v] /\ todo'[v] = todo[v] /\ answer'[v] = answer[v]
    BY <1>19 DEF Observe, GoTo, Drop, Keep, RowInv, TypeOK
  <2>3. pc'[w] = "polling"
    BY <1>19 DEF Observe, GoTo, RowInv, TypeOK
  <2> QED BY <1>a, <2>1, <2>2, <2>3 DEF SendersOwn, RowInv, VerdictHolds
<1>20. ASSUME NEW w \in Workers, WorkerCrash(w) PROVE SendersOwn'
  BY <1>20, <1>a DEF WorkerCrash, Keep, tableVars, deviceVars, SendersOwn, RowInv, Wired, RowsHold, Bindings, VerdictHolds, TypeOK
<1>21. ASSUME NEW d \in Deliveries, Expire(d) PROVE SendersOwn'
  BY <1>21, <1>a DEF Expire, deviceVars, workerVars, SendersOwn, RowInv, Wired, RowsHold, Bindings, VerdictHolds, TypeOK
<1>22. ASSUME NEW d \in Deliveries, Arrive(d) PROVE SendersOwn'
  BY <1>22, <1>a DEF Arrive, tableVars, workerVars, SendersOwn, RowInv, Wired, RowsHold, Bindings, VerdictHolds, TypeOK
<1>23. ASSUME NEW d \in Deliveries, PrintOn(d) PROVE SendersOwn'
  BY <1>23, <1>a DEF PrintOn, tableVars, workerVars, SendersOwn, RowInv, Wired, RowsHold, Bindings, VerdictHolds, TypeOK
<1>24. ASSUME NEW d \in Deliveries, Forget(d) PROVE SendersOwn'
  BY <1>24, <1>a DEF Forget, tableVars, workerVars, SendersOwn, RowInv, Wired, RowsHold, Bindings, VerdictHolds, TypeOK
<1>25. CASE UNCHANGED vars
  BY <1>25, <1>a DEF vars, SendersOwn, RowInv, Wired, RowsHold, Bindings, VerdictHolds, TypeOK
<1> QED
  BY <1>1, <1>2, <1>3, <1>4, <1>5, <1>6, <1>7, <1>8, <1>9, <1>10, <1>11, <1>12, <1>13, <1>14, <1>15, <1>16, <1>17, <1>18, <1>19, <1>20, <1>21, <1>22, <1>23, <1>24, <1>25
  DEF Next, Clients, Printer, WorkerStep, RowStep

(* What a worker heard of a job is still right when it writes it. *)
LEMMA AnswersStep == RowInv /\ [Next]_vars => AnswersHold'
<1> SUFFICES ASSUME RowInv, [Next]_vars PROVE AnswersHold'
  OBVIOUS
<1>a. ASSUME NEW w \in Workers, NEW row \in todo[w] PROVE row \in Rows /\ row.id \in Deliveries /\ row.revision \in Nat
  BY <1>a DEF RowInv, TypeOK, Rows
<1>1. ASSUME NEW d \in Deliveries, Enqueue(d) PROVE AnswersHold'
  BY <1>1, <1>a DEF Enqueue, deviceVars, workerVars, AnswersHold, RowInv, Bindings, Polling, First, JobEnds, TypeOK, DeviceJobs
<1>2. ASSUME NEW d \in Deliveries, RequestCancel(d) PROVE AnswersHold'
  BY <1>2, <1>a DEF RequestCancel, Update, deviceVars, workerVars, AnswersHold, RowInv, Bindings, Polling, First, JobEnds, TypeOK, DeviceJobs
<1>3. ASSUME NEW a \in Admins, NEW d \in Deliveries, NEW j \in DeviceJobs, Inquire(a, d, j) PROVE AnswersHold'
  BY <1>3, <1>a DEF Inquire, tableVars, deviceVars, workerVars, AnswersHold, RowInv, Bindings, Polling, First, JobEnds, TypeOK, DeviceJobs
<1>4. ASSUME NEW a \in Admins, Reconcile(a) PROVE AnswersHold'
  BY <1>4, <1>a DEF Reconcile, Matches, Update, deviceVars, workerVars, AnswersHold, RowInv, Bindings, Polling, First, JobEnds, TypeOK, DeviceJobs
<1>5. ASSUME NEW w \in Workers, ListExpired(w) PROVE AnswersHold'
  BY <1>5, <1>a DEF ListExpired, GoTo, Keep, tableVars, deviceVars, AnswersHold, RowInv, Bindings, Polling, First, JobEnds, TypeOK, DeviceJobs
<1>6. ASSUME NEW w \in Workers, TakeNext(w) PROVE AnswersHold'
  BY <1>6, <1>a DEF TakeNext, GoTo, Keep, tableVars, deviceVars, AnswersHold, RowInv, Bindings, Polling, First, JobEnds, TypeOK, DeviceJobs
<1>7. ASSUME NEW w \in Workers, PrepareFails(w) PROVE AnswersHold'
  BY <1>7, <1>a DEF PrepareFails, GoTo, tableVars, deviceVars, AnswersHold, RowInv, Bindings, Polling, First, JobEnds, TypeOK, DeviceJobs
<1>8. ASSUME NEW w \in Workers, ListAccepted(w) PROVE AnswersHold'
  BY <1>8, <1>a DEF ListAccepted, GoTo, Keep, tableVars, deviceVars, AnswersHold, RowInv, Bindings, Polling, First, JobEnds, TypeOK, DeviceJobs
<1>9. ASSUME NEW w \in Workers, EndPass(w) PROVE AnswersHold'
  BY <1>9, <1>a DEF EndPass, GoTo, tableVars, deviceVars, AnswersHold, RowInv, Bindings, Polling, First, JobEnds, TypeOK, DeviceJobs
<1>10. ASSUME NEW w \in Workers, NEW row \in todo[w], Recover(w, row) PROVE AnswersHold'
  BY <1>10, <1>a DEF Recover, Recovered, Matches, Update, Drop, Keep, deviceVars, AnswersHold, RowInv, Bindings, Polling, First, JobEnds, TypeOK, DeviceJobs
<1>11. ASSUME NEW w \in Workers, NEW row \in todo[w], Claim(w, row) PROVE AnswersHold'
  BY <1>11, <1>a DEF Claim, Matches, Update, GoTo, Drop, Keep, deviceVars, AnswersHold, RowInv, Bindings, Polling, First, JobEnds, TypeOK, DeviceJobs
<1>12. ASSUME NEW w \in Workers, NEW row \in todo[w], Send(w, row) PROVE AnswersHold'
  BY <1>12, <1>a DEF Send, GoTo, tableVars, AnswersHold, RowInv, Bindings, Polling, First, JobEnds, TypeOK, DeviceJobs
<1>13. ASSUME NEW w \in Workers, NEW row \in todo[w], Replied(w, row) PROVE AnswersHold'
  BY <1>13, <1>a DEF Replied, Uncertain, GoTo, tableVars, deviceVars, AnswersHold, RowInv, Bindings, Polling, First, JobEnds, TypeOK, DeviceJobs
<1>14. ASSUME NEW w \in Workers, NEW row \in todo[w], Finish(w, row) PROVE AnswersHold'
  BY <1>14, <1>a DEF Finish, StillSending, Update, GoTo, Keep, deviceVars, AnswersHold, RowInv, Bindings, Polling, First, JobEnds, TypeOK, DeviceJobs
<1>15. ASSUME NEW w \in Workers, NEW row \in todo[w], Unregistered(w, row) PROVE AnswersHold'
  BY <1>15, <1>a DEF Unregistered, NoteFailure, Matches, Update, Drop, Keep, deviceVars, AnswersHold, RowInv, Bindings, Polling, First, JobEnds, TypeOK, DeviceJobs
<1>16. ASSUME NEW w \in Workers, NEW row \in todo[w], ClaimCancel(w, row) PROVE AnswersHold'
  BY <1>16, <1>a DEF ClaimCancel, Claimed, Matches, Update, GoTo, Drop, Keep, deviceVars, AnswersHold, RowInv, Bindings, Polling, First, JobEnds, TypeOK, DeviceJobs
<1>17. ASSUME NEW w \in Workers, NEW row \in todo[w], SendCancel(w, row) PROVE AnswersHold'
  BY <1>17, <1>a DEF SendCancel, GoTo, tableVars, AnswersHold, RowInv, Bindings, Polling, First, JobEnds, TypeOK, DeviceJobs
<1>18. ASSUME NEW w \in Workers, NEW row \in todo[w], Query(w, row) PROVE AnswersHold'
  <2>1. \A other \in todo[w] : First(w, other) => other.id = row.id
    <3> SUFFICES ASSUME NEW other \in todo[w], First(w, other) PROVE other.id = row.id
      OBVIOUS
    <3>1. row.id <= other.id /\ other.id <= row.id
      BY <1>18 DEF Query, First
    <3>2. row.id \in Nat /\ other.id \in Nat
      BY <1>a, DeliveryAssumption
    <3> QED BY <3>1, <3>2
  <2>2. answer'[w] \in JobEnds => job[row.id] = answer'[w]
    BY <1>18 DEF Query, GoTo, RowInv, Bindings, Polling, JobEnds, TypeOK
  <2>3. \A v \in Workers \ {w} : answer'[v] = answer[v] /\ pc'[v] = pc[v]
    BY <1>18 DEF Query, GoTo, RowInv, TypeOK
  <2>4. UNCHANGED <<todo, job>>
    BY <1>18 DEF Query, deviceVars
  <2> QED BY <2>1, <2>2, <2>3, <2>4 DEF AnswersHold, RowInv, First
<1>19. ASSUME NEW w \in Workers, NEW row \in todo[w], Observe(w, row) PROVE AnswersHold'
  BY <1>19, <1>a DEF Observe, NoteFailure, Matches, Update, GoTo, Drop, Keep, tableVars, deviceVars, AnswersHold, RowInv, Bindings, Polling, First, JobEnds, TypeOK, DeviceJobs
<1>20. ASSUME NEW w \in Workers, WorkerCrash(w) PROVE AnswersHold'
  BY <1>20, <1>a DEF WorkerCrash, Keep, tableVars, deviceVars, AnswersHold, RowInv, Bindings, Polling, First, JobEnds, TypeOK, DeviceJobs
<1>21. ASSUME NEW d \in Deliveries, Expire(d) PROVE AnswersHold'
  BY <1>21, <1>a DEF Expire, deviceVars, workerVars, AnswersHold, RowInv, Bindings, Polling, First, JobEnds, TypeOK, DeviceJobs
<1>22. ASSUME NEW d \in Deliveries, Arrive(d) PROVE AnswersHold'
  BY <1>22, <1>a DEF Arrive, tableVars, workerVars, AnswersHold, Wired, RowInv, First, JobEnds, TypeOK, DeviceJobs
<1>23. ASSUME NEW d \in Deliveries, PrintOn(d) PROVE AnswersHold'
  BY <1>23, <1>a DEF PrintOn, tableVars, workerVars, AnswersHold, RowInv, Bindings, Polling, First, JobEnds, TypeOK, DeviceJobs
<1>24. ASSUME NEW d \in Deliveries, Forget(d) PROVE AnswersHold'
  BY <1>24, <1>a DEF Forget, tableVars, workerVars, AnswersHold, RowInv, Bindings, Polling, First, JobEnds, TypeOK, DeviceJobs
<1>25. CASE UNCHANGED vars
  BY <1>25, <1>a DEF vars, AnswersHold, RowInv, Bindings, Polling, First, JobEnds, TypeOK, DeviceJobs
<1> QED
  BY <1>1, <1>2, <1>3, <1>4, <1>5, <1>6, <1>7, <1>8, <1>9, <1>10, <1>11, <1>12, <1>13, <1>14, <1>15, <1>16, <1>17, <1>18, <1>19, <1>20, <1>21, <1>22, <1>23, <1>24, <1>25
  DEF Next, Clients, Printer, WorkerStep, RowStep

(* A listed row at the revision of its delivery is that row. *)
LEMMA SnapshotsStep == RowInv /\ [Next]_vars => SnapshotsExact'
<1> SUFFICES ASSUME RowInv, [Next]_vars PROVE SnapshotsExact'
  OBVIOUS
<1>a. ASSUME NEW w \in Workers, NEW row \in todo[w] PROVE row \in Rows /\ row.id \in Deliveries /\ row.revision \in Nat
  BY <1>a DEF RowInv, TypeOK, Rows
<1>b. \A d \in Deliveries : Row(d).id = d /\ Row(d).reason = reason[d] /\ Row(d).revision = revision[d] /\ revision[d] \in Nat
  BY DEF Row, RowInv, TypeOK
<1>1. ASSUME NEW d \in Deliveries, Enqueue(d) PROVE SnapshotsExact'
  BY <1>1, <1>a DEF Enqueue, deviceVars, workerVars, SnapshotsExact, RowInv, TypeOK, Row
<1>2. ASSUME NEW d \in Deliveries, RequestCancel(d) PROVE SnapshotsExact'
  BY <1>2, <1>a DEF RequestCancel, Update, deviceVars, workerVars, SnapshotsExact, RowInv, TypeOK, Row
<1>3. ASSUME NEW a \in Admins, NEW d \in Deliveries, NEW j \in DeviceJobs, Inquire(a, d, j) PROVE SnapshotsExact'
  BY <1>3, <1>a DEF Inquire, tableVars, deviceVars, workerVars, SnapshotsExact, RowInv, TypeOK, Row
<1>4. ASSUME NEW a \in Admins, Reconcile(a) PROVE SnapshotsExact'
  BY <1>4, <1>a DEF Reconcile, Matches, Update, deviceVars, workerVars, SnapshotsExact, RowInv, TypeOK, Row
<1>5. ASSUME NEW w \in Workers, ListExpired(w) PROVE SnapshotsExact'
  <2>1. \A row \in todo'[w] : row \in todo[w] \/ \E d \in Deliveries : row = Row(d)
    BY <1>5 DEF ListExpired, Keep, Overdue, In, RowInv, TypeOK
  <2>2. \A v \in Workers \ {w} : todo'[v] = todo[v]
    BY <1>5 DEF ListExpired, Keep, RowInv, TypeOK
  <2>3. UNCHANGED <<revision, reason>>
    BY <1>5 DEF ListExpired, tableVars
  <2> QED BY <1>b, <2>1, <2>2, <2>3 DEF SnapshotsExact, RowInv
<1>6. ASSUME NEW w \in Workers, TakeNext(w) PROVE SnapshotsExact'
  <2>1. \A row \in todo'[w] : row \in todo[w] \/ \E d \in Deliveries : row = Row(d)
    BY <1>6 DEF TakeNext, Keep, Queued, In, RowInv, TypeOK
  <2>2. \A v \in Workers \ {w} : todo'[v] = todo[v]
    BY <1>6 DEF TakeNext, Keep, RowInv, TypeOK
  <2>3. UNCHANGED <<revision, reason>>
    BY <1>6 DEF TakeNext, tableVars
  <2> QED BY <1>b, <2>1, <2>2, <2>3 DEF SnapshotsExact, RowInv
<1>7. ASSUME NEW w \in Workers, PrepareFails(w) PROVE SnapshotsExact'
  BY <1>7, <1>a DEF PrepareFails, GoTo, tableVars, deviceVars, SnapshotsExact, RowInv, TypeOK, Row
<1>8. ASSUME NEW w \in Workers, ListAccepted(w) PROVE SnapshotsExact'
  <2>1. \A row \in todo'[w] : row \in todo[w] \/ \E d \in Deliveries : row = Row(d)
    BY <1>8 DEF ListAccepted, Keep, Listed, In, RowInv, TypeOK
  <2>2. \A v \in Workers \ {w} : todo'[v] = todo[v]
    BY <1>8 DEF ListAccepted, Keep, RowInv, TypeOK
  <2>3. UNCHANGED <<revision, reason>>
    BY <1>8 DEF ListAccepted, tableVars
  <2> QED BY <1>b, <2>1, <2>2, <2>3 DEF SnapshotsExact, RowInv
<1>9. ASSUME NEW w \in Workers, EndPass(w) PROVE SnapshotsExact'
  BY <1>9, <1>a DEF EndPass, GoTo, tableVars, deviceVars, SnapshotsExact, RowInv, TypeOK, Row
<1>10. ASSUME NEW w \in Workers, NEW row \in todo[w], Recover(w, row) PROVE SnapshotsExact'
  BY <1>10, <1>a DEF Recover, Recovered, Matches, Update, Drop, Keep, deviceVars, SnapshotsExact, RowInv, TypeOK, Row
<1>11. ASSUME NEW w \in Workers, NEW row \in todo[w], Claim(w, row) PROVE SnapshotsExact'
  BY <1>11, <1>a DEF Claim, Matches, Update, GoTo, Drop, Keep, deviceVars, SnapshotsExact, RowInv, TypeOK, Row
<1>12. ASSUME NEW w \in Workers, NEW row \in todo[w], Send(w, row) PROVE SnapshotsExact'
  BY <1>12, <1>a DEF Send, GoTo, tableVars, SnapshotsExact, RowInv, TypeOK, Row
<1>13. ASSUME NEW w \in Workers, NEW row \in todo[w], Replied(w, row) PROVE SnapshotsExact'
  BY <1>13, <1>a DEF Replied, Uncertain, GoTo, tableVars, deviceVars, SnapshotsExact, RowInv, TypeOK, Row
<1>14. ASSUME NEW w \in Workers, NEW row \in todo[w], Finish(w, row) PROVE SnapshotsExact'
  BY <1>14, <1>a DEF Finish, StillSending, Update, GoTo, Keep, deviceVars, SnapshotsExact, RowInv, TypeOK, Row
<1>15. ASSUME NEW w \in Workers, NEW row \in todo[w], Unregistered(w, row) PROVE SnapshotsExact'
  BY <1>15, <1>a DEF Unregistered, NoteFailure, Matches, Update, Drop, Keep, deviceVars, SnapshotsExact, RowInv, TypeOK, Row
<1>16. ASSUME NEW w \in Workers, NEW row \in todo[w], ClaimCancel(w, row) PROVE SnapshotsExact'
  BY <1>16, <1>a DEF ClaimCancel, Claimed, Matches, Update, GoTo, Drop, Keep, deviceVars, SnapshotsExact, RowInv, TypeOK, Row
<1>17. ASSUME NEW w \in Workers, NEW row \in todo[w], SendCancel(w, row) PROVE SnapshotsExact'
  BY <1>17, <1>a DEF SendCancel, GoTo, tableVars, SnapshotsExact, RowInv, TypeOK, Row
<1>18. ASSUME NEW w \in Workers, NEW row \in todo[w], Query(w, row) PROVE SnapshotsExact'
  BY <1>18, <1>a DEF Query, GoTo, tableVars, deviceVars, SnapshotsExact, RowInv, TypeOK, Row
<1>19. ASSUME NEW w \in Workers, NEW row \in todo[w], Observe(w, row) PROVE SnapshotsExact'
  BY <1>19, <1>a DEF Observe, NoteFailure, Matches, Update, GoTo, Drop, Keep, tableVars, deviceVars, SnapshotsExact, RowInv, TypeOK, Row
<1>20. ASSUME NEW w \in Workers, WorkerCrash(w) PROVE SnapshotsExact'
  BY <1>20, <1>a DEF WorkerCrash, Keep, tableVars, deviceVars, SnapshotsExact, RowInv, TypeOK, Row
<1>21. ASSUME NEW d \in Deliveries, Expire(d) PROVE SnapshotsExact'
  BY <1>21, <1>a DEF Expire, deviceVars, workerVars, SnapshotsExact, RowInv, TypeOK, Row
<1>22. ASSUME NEW d \in Deliveries, Arrive(d) PROVE SnapshotsExact'
  BY <1>22, <1>a DEF Arrive, tableVars, workerVars, SnapshotsExact, RowInv, TypeOK, Row
<1>23. ASSUME NEW d \in Deliveries, PrintOn(d) PROVE SnapshotsExact'
  BY <1>23, <1>a DEF PrintOn, tableVars, workerVars, SnapshotsExact, RowInv, TypeOK, Row
<1>24. ASSUME NEW d \in Deliveries, Forget(d) PROVE SnapshotsExact'
  BY <1>24, <1>a DEF Forget, tableVars, workerVars, SnapshotsExact, RowInv, TypeOK, Row
<1>25. CASE UNCHANGED vars
  BY <1>25, <1>a DEF vars, SnapshotsExact, RowInv, TypeOK, Row
<1> QED
  BY <1>1, <1>2, <1>3, <1>4, <1>5, <1>6, <1>7, <1>8, <1>9, <1>10, <1>11, <1>12, <1>13, <1>14, <1>15, <1>16, <1>17, <1>18, <1>19, <1>20, <1>21, <1>22, <1>23, <1>24, <1>25
  DEF Next, Clients, Printer, WorkerStep, RowStep

-----------------------------------------------------------------------------
(* Cancels                                                                  *)

CancelInv == CancelsClaimed /\ CancelledOnceAndAsked

(* The reason of a row goes from none over the request to the dispatch of a *)
(* cancel, and stays there.                                                 *)
LEMMA ReasonSteps ==
  ASSUME RowInv, CancelsClaimed, [Next]_vars, NEW d \in Deliveries
  PROVE  /\ reason'[d] \in CancelReasons => dstate'[d] \in {"ACCEPTED", "COMPLETED", "CANCELLED", "ABORTED"}
         /\ reason[d] = "CANCEL_DISPATCHING" => reason'[d] = "CANCEL_DISPATCHING"
<1>1. RowGoes(d)
  BY RowSteps
<1>2. reason[d] \in CancelReasons => dstate[d] \in {"ACCEPTED", "COMPLETED", "CANCELLED", "ABORTED"}
  BY DEF CancelsClaimed
<1> QED BY <1>1, <1>2 DEF RowGoes, Stays, Begins, Moves, CancelReasons

(* A Cancel-Job goes out only from the claim that dispatched it. *)
LEMMA CancelStep == RowInv /\ CancelInv /\ [Next]_vars => CancelInv'
<1> SUFFICES ASSUME RowInv, CancelInv, [Next]_vars PROVE CancelInv'
  OBVIOUS
<1>a. ASSUME NEW w \in Workers, NEW row \in todo[w] PROVE row \in Rows /\ row.id \in Deliveries /\ row.id \in Nat
  <2>1. row \in Rows /\ row.id \in Deliveries
    BY <1>a DEF RowInv, TypeOK, Rows
  <2> QED BY <2>1, DeliveryAssumption
<1>b. \A d \in Deliveries :
        /\ reason'[d] \in CancelReasons => dstate'[d] \in {"ACCEPTED", "COMPLETED", "CANCELLED", "ABORTED"}
        /\ reason[d] = "CANCEL_DISPATCHING" => reason'[d] = "CANCEL_DISPATCHING"
  BY ReasonSteps DEF CancelInv
(* A step that neither starts nor sends a cancel. *)
<1>c. ASSUME UNCHANGED cancels,
             \A w \in Workers : pc'[w] = "cancelling" => pc[w] = "cancelling" /\ todo'[w] = todo[w]
      PROVE  CancelInv'
  BY <1>a, <1>b, <1>c DEF CancelInv, CancelsClaimed, CancelledOnceAndAsked, First
<1>1. ASSUME NEW d \in Deliveries, Enqueue(d) PROVE CancelInv'
  BY <1>1, <1>c DEF Enqueue, deviceVars, workerVars, RowInv, TypeOK
<1>2. ASSUME NEW d \in Deliveries, RequestCancel(d) PROVE CancelInv'
  BY <1>2, <1>c DEF RequestCancel, deviceVars, workerVars, RowInv, TypeOK
<1>3. ASSUME NEW a \in Admins, NEW d \in Deliveries, NEW j \in DeviceJobs, Inquire(a, d, j) PROVE CancelInv'
  BY <1>3, <1>c DEF Inquire, deviceVars, workerVars, RowInv, TypeOK
<1>4. ASSUME NEW a \in Admins, Reconcile(a) PROVE CancelInv'
  BY <1>4, <1>c DEF Reconcile, deviceVars, workerVars, RowInv, TypeOK
<1>5. ASSUME NEW w \in Workers, ListExpired(w) PROVE CancelInv'
  BY <1>5, <1>c DEF ListExpired, GoTo, Keep, deviceVars, RowInv, TypeOK
<1>6. ASSUME NEW w \in Workers, TakeNext(w) PROVE CancelInv'
  BY <1>6, <1>c DEF TakeNext, GoTo, Keep, deviceVars, RowInv, TypeOK
<1>7. ASSUME NEW w \in Workers, PrepareFails(w) PROVE CancelInv'
  BY <1>7, <1>c DEF PrepareFails, GoTo, deviceVars, RowInv, TypeOK
<1>8. ASSUME NEW w \in Workers, ListAccepted(w) PROVE CancelInv'
  BY <1>8, <1>c DEF ListAccepted, GoTo, Keep, deviceVars, RowInv, TypeOK
<1>9. ASSUME NEW w \in Workers, EndPass(w) PROVE CancelInv'
  BY <1>9, <1>c DEF EndPass, GoTo, deviceVars, RowInv, TypeOK
<1>10. ASSUME NEW w \in Workers, NEW row \in todo[w], Recover(w, row) PROVE CancelInv'
  BY <1>10, <1>c DEF Recover, Recovered, Drop, Keep, deviceVars, RowInv, TypeOK
<1>11. ASSUME NEW w \in Workers, NEW row \in todo[w], Claim(w, row) PROVE CancelInv'
  BY <1>11, <1>c DEF Claim, GoTo, Drop, Keep, deviceVars, RowInv, TypeOK
<1>12. ASSUME NEW w \in Workers, NEW row \in todo[w], Send(w, row) PROVE CancelInv'
  BY <1>12, <1>c DEF Send, GoTo, RowInv, TypeOK
<1>13. ASSUME NEW w \in Workers, NEW row \in todo[w], Replied(w, row) PROVE CancelInv'
  BY <1>13, <1>c DEF Replied, Uncertain, GoTo, deviceVars, RowInv, TypeOK
<1>14. ASSUME NEW w \in Workers, NEW row \in todo[w], Finish(w, row) PROVE CancelInv'
  BY <1>14, <1>c DEF Finish, StillSending, GoTo, Keep, deviceVars, RowInv, TypeOK
<1>15. ASSUME NEW w \in Workers, NEW row \in todo[w], Unregistered(w, row) PROVE CancelInv'
  BY <1>15, <1>c DEF Unregistered, NoteFailure, Drop, Keep, deviceVars, RowInv, TypeOK
<1>16. ASSUME NEW w \in Workers, NEW row \in todo[w], ClaimCancel(w, row) PROVE CancelInv'
  <2>1. CASE pc[w] = "polling" /\ UNCHANGED pc
    BY <1>16, <1>c, <2>1 DEF ClaimCancel, Drop, Keep, deviceVars, RowInv, TypeOK
  <2>2. CASE /\ Matches(row, "ACCEPTED") /\ GoTo(w, "polling", "cancelling")
             /\ Update(row.id, "ACCEPTED", Dispatched, bound[row.id])
             /\ Keep(w, (todo[w] \ {row}) \cup {Claimed(row)})
    <3>1. reason[row.id] = "CANCEL_REQUESTED" /\ reason'[row.id] = "CANCEL_DISPATCHING"
      BY <1>16, <1>a, <2>2 DEF ClaimCancel, CancelWanted, Matches, Update, Dispatched, RowInv, SnapshotsExact, TypeOK
    <3>2. cancels[row.id] = 0 /\ UNCHANGED cancels
      BY <1>16, <1>a, <3>1 DEF ClaimCancel, deviceVars, CancelInv, CancelledOnceAndAsked, RowInv, TypeOK, DeviceJobs
    <3>3. \A other \in todo'[w] : First(w, other)' => other.id = row.id
      <4> SUFFICES ASSUME NEW other \in todo'[w], First(w, other)' PROVE other.id = row.id
        OBVIOUS
      <4>1. todo'[w] = (todo[w] \ {row}) \cup {Claimed(row)}
        BY <2>2 DEF Keep, RowInv, TypeOK
      <4>2. Claimed(row).id = row.id /\ Claimed(row) \in todo'[w]
        BY <4>1 DEF Claimed
      <4>3. other.id <= row.id
        BY <4>2 DEF First
      <4>4. row.id <= other.id /\ other.id \in Nat
        BY <1>16, <1>a, <4>1, <4>2 DEF ClaimCancel, First
      <4> QED BY <1>a, <4>3, <4>4
    <3>4. \A v \in Workers \ {w} : pc'[v] = pc[v] /\ todo'[v] = todo[v]
      BY <2>2 DEF GoTo, Keep, RowInv, TypeOK
    <3>5. \A v \in Workers \ {w} : \A other \in todo[v] : pc[v] = "cancelling" /\ First(v, other) => other.id # row.id
      BY <3>1 DEF CancelInv, CancelsClaimed
    <3> QED BY <1>a, <1>b, <3>1, <3>2, <3>3, <3>4, <3>5 DEF CancelInv, CancelsClaimed, CancelledOnceAndAsked, First
  <2> QED BY <1>16, <2>1, <2>2 DEF ClaimCancel
<1>17. ASSUME NEW w \in Workers, NEW row \in todo[w], SendCancel(w, row) PROVE CancelInv'
  <2>1. row.job = row.id /\ reason[row.id] = "CANCEL_DISPATCHING" /\ cancels[row.id] = 0
    BY <1>17 DEF SendCancel, GoTo, RowInv, Bindings, Polling, CancelInv, CancelsClaimed
  <2>2. cancels' = [cancels EXCEPT ![row.id] = 1]
    BY <1>17, <1>a, <2>1 DEF SendCancel, RowInv, TypeOK
  <2>3. /\ pc'[w] # "cancelling" /\ UNCHANGED <<todo, reason>>
        /\ \A v \in Workers \ {w} : pc'[v] = pc[v]
    BY <1>17 DEF SendCancel, GoTo, tableVars, RowInv, TypeOK
  <2>4. \A v \in Workers \ {w} : \A other \in todo[v] : pc[v] = "cancelling" /\ First(v, other) => other.id # row.id
    BY <1>17 DEF SendCancel, GoTo, CancelInv, CancelsClaimed
  <2>5. CancelledOnceAndAsked'
    BY <1>a, <2>1, <2>2, <2>3, DeliveryAssumption DEF CancelInv, CancelledOnceAndAsked, RowInv, TypeOK, DeviceJobs
  <2>6. CancelsClaimed'
    BY <1>a, <1>b, <2>1, <2>2, <2>3, <2>4 DEF CancelInv, CancelsClaimed, First, RowInv, TypeOK, DeviceJobs
  <2> QED BY <2>5, <2>6 DEF CancelInv
<1>18. ASSUME NEW w \in Workers, NEW row \in todo[w], Query(w, row) PROVE CancelInv'
  BY <1>18, <1>c DEF Query, GoTo, deviceVars, RowInv, TypeOK
<1>19. ASSUME NEW w \in Workers, NEW row \in todo[w], Observe(w, row) PROVE CancelInv'
  BY <1>19, <1>c DEF Observe, NoteFailure, GoTo, Drop, Keep, deviceVars, RowInv, TypeOK
<1>20. ASSUME NEW w \in Workers, WorkerCrash(w) PROVE CancelInv'
  BY <1>20, <1>c DEF WorkerCrash, Keep, deviceVars, RowInv, TypeOK
<1>21. ASSUME NEW d \in Deliveries, Expire(d) PROVE CancelInv'
  BY <1>21, <1>c DEF Expire, deviceVars, workerVars, RowInv, TypeOK
<1>22. ASSUME NEW d \in Deliveries, Arrive(d) PROVE CancelInv'
  BY <1>22, <1>c DEF Arrive, workerVars, RowInv, TypeOK
<1>23. ASSUME NEW d \in Deliveries, PrintOn(d) PROVE CancelInv'
  BY <1>23, <1>c DEF PrintOn, workerVars, RowInv, TypeOK
<1>24. ASSUME NEW d \in Deliveries, Forget(d) PROVE CancelInv'
  BY <1>24, <1>c DEF Forget, workerVars, RowInv, TypeOK
<1>25. CASE UNCHANGED vars
  BY <1>25, <1>c DEF vars
<1> QED
  BY <1>1, <1>2, <1>3, <1>4, <1>5, <1>6, <1>7, <1>8, <1>9, <1>10, <1>11, <1>12, <1>13, <1>14, <1>15, <1>16, <1>17, <1>18, <1>19, <1>20, <1>21, <1>22, <1>23, <1>24, <1>25
  DEF Next, Clients, Printer, WorkerStep, RowStep

-----------------------------------------------------------------------------
(* The invariant                                                            *)

(* The receipt is written with the settling update and never after it. *)
LEMMA ReceiptsStep ==
  RowInv /\ ReceiptMatchesDelivery /\ Bindings' /\ [Next]_vars => ReceiptMatchesDelivery'
<1> SUFFICES ASSUME RowInv, ReceiptMatchesDelivery, Bindings', [Next]_vars, NEW d \in Deliveries
    PROVE /\ bound'[d] \in {NoJob, d}
          /\ IF dstate'[d] \in Settled
             THEN receipt'[d] = [state |-> dstate'[d], revision |-> revision'[d], job |-> bound'[d]]
             ELSE receipt'[d] = NoReceipt
  BY DEF ReceiptMatchesDelivery
<1>1. bound'[d] \in {NoJob, d}
  BY DEF Bindings
<1>2. RowGoes(d)
  BY RowSteps
<1>3. CASE Stays(d)
  BY <1>1, <1>3 DEF Stays, ReceiptMatchesDelivery
<1>4. CASE Begins(d)
  BY <1>1, <1>4 DEF Begins, ReceiptMatchesDelivery, Settled
<1>5. CASE Moves(d)
  BY <1>1, <1>5 DEF Moves, ReceiptMatchesDelivery, Settled
<1> QED BY <1>2, <1>3, <1>4, <1>5 DEF RowGoes

(* The invariant holds at the start. *)
LEMMA InitInv == Init => IInv
<1> SUFFICES ASSUME Init PROVE IInv
  OBVIOUS
<1>1. TypeOK /\ Bindings
  BY InitType, InitBindings
<1>2. Wired /\ RowsHold /\ ReceiptMatchesDelivery
  BY DEF Init, Wired, RowsHold, VerdictHolds, ReceiptMatchesDelivery, Settled, DeviceJobs
<1>3. SendersOwn /\ AnswersHold /\ InquiriesHold /\ SnapshotsExact
  BY DEF Init, SendersOwn, AnswersHold, InquiriesHold, SnapshotsExact
<1>4. CancelsClaimed /\ CancelledOnceAndAsked
  BY DeliveryAssumption DEF Init, CancelsClaimed, CancelledOnceAndAsked, CancelReasons, DeviceJobs
<1> QED BY <1>1, <1>2, <1>3, <1>4 DEF IInv

(* Every step keeps the invariant, layer by layer. *)
LEMMA InvStep == IInv /\ [Next]_vars => IInv'
<1> SUFFICES ASSUME IInv, [Next]_vars PROVE IInv'
  OBVIOUS
<1>1. RowInv /\ CancelInv /\ ReceiptMatchesDelivery
  BY DEF IInv, RowInv, CancelInv
<1>2. TypeOK' /\ Bindings'
  BY TypeStep, BindingsStep DEF IInv
<1>3. Wired' /\ RowsHold' /\ SendersOwn'
  BY <1>1, WiredStep, RowsHoldStep, SendersStep DEF IInv
<1>4. AnswersHold' /\ InquiriesHold' /\ SnapshotsExact'
  BY <1>1, AnswersStep, InquiriesStep, SnapshotsStep
<1>5. CancelInv' /\ ReceiptMatchesDelivery'
  BY <1>1, <1>2, CancelStep, ReceiptsStep
<1> QED BY <1>2, <1>3, <1>4, <1>5 DEF IInv, CancelInv

(* The inductive invariant of the workers, the table and the printer. *)
THEOREM DeliveryInvariant == Spec => []IInv
BY InitInv, InvStep, PTL DEF Spec

-----------------------------------------------------------------------------
(* What it is for                                                           *)

(* No document is handed to a printer twice, whatever worker dies, hangs or *)
(* races, and however late an answer comes (claim_delivery, finish_delivery,*)
(* recover_delivery_sends).                                                  *)
THEOREM NeverSentTwice == Spec => []SentAtMostOnce
<1>1. IInv => SentAtMostOnce
  BY DEF IInv, Wired, SentAtMostOnce
<1> QED BY <1>1, DeliveryInvariant, PTL

(* Cancel-Job goes out at most once, on request, and never for somebody     *)
(* else's job (claim_delivery_cancel).                                      *)
THEOREM CancelledOnce == Spec => []CancelledOnceAndAsked
BY DeliveryInvariant, PTL DEF IInv

(* A row never says of the printer what is not so (the verdicts of          *)
(* finish_delivery, observe_delivery_device_progress, reconcile_delivery).  *)
THEOREM OutcomesAreTrue == Spec => []OutcomeIsTrue
<1>1. IInv => OutcomeIsTrue
  <2> SUFFICES ASSUME IInv, NEW d \in Deliveries
      PROVE  /\ dstate[d] = "COMPLETED" => job[d] = "completed"
             /\ dstate[d] = "ABORTED" => job[d] = "aborted"
             /\ dstate[d] = "CANCELLED" => job[d] = "cancelled" \/ sent[d] = 0
             /\ dstate[d] = "ACCEPTED" => job[d] # "none"
             /\ dstate[d] = "REJECTED" => job[d] = "none" /\ wire[d] # "inflight"
    BY DEF OutcomeIsTrue
  <2>1. VerdictHolds(d, dstate[d])
    BY DEF IInv, RowsHold
  <2>2. (sent[d] = 0 <=> wire[d] = "idle") /\ (job[d] # "none" <=> wire[d] = "accepted")
    BY DEF IInv, Wired
  <2> QED BY <2>1, <2>2 DEF VerdictHolds
<1> QED BY <1>1, DeliveryInvariant, PTL

(* Every settled delivery, and no other, has its receipt, of its own job    *)
(* (delivery_receipt::store in the transaction of update_delivery).         *)
THEOREM ReceiptsMatch == Spec => []ReceiptMatchesDelivery
BY DeliveryInvariant, PTL DEF IInv

(* The invariant contains the layers the step lemmas rest on. *)
LEMMA InvIsRowInv == IInv => RowInv
BY DEF IInv, RowInv

(* A claimed delivery never becomes sendable again and a settled one never  *)
(* changes, whoever holds an old row (update_delivery).                     *)
THEOREM NoDeliveryGoesBack == Spec => NoWayBack
<1> DEFINE A == \A d \in Deliveries :
       /\ dstate[d] \notin {"ABSENT", "QUEUED"} => dstate'[d] \notin {"ABSENT", "QUEUED"}
       /\ dstate[d] \in Settled =>
            <<dstate'[d], revision'[d], reason'[d], bound'[d], receipt'[d]>>
              = <<dstate[d], revision[d], reason[d], bound[d], receipt[d]>>
<1>1. IInv /\ [Next]_vars => A
  <2> SUFFICES ASSUME RowInv, [Next]_vars, NEW d \in Deliveries
      PROVE  /\ dstate[d] \notin {"ABSENT", "QUEUED"} => dstate'[d] \notin {"ABSENT", "QUEUED"}
             /\ dstate[d] \in Settled =>
                  <<dstate'[d], revision'[d], reason'[d], bound'[d], receipt'[d]>>
                    = <<dstate[d], revision[d], reason[d], bound[d], receipt[d]>>
    BY InvIsRowInv
  <2>1. RowGoes(d)
    BY RowSteps
  <2> QED BY <2>1 DEF RowGoes, Stays, Begins, Moves, Settled
<1>2. IInv /\ [Next]_vars => [A]_vars
  BY <1>1
<1> QED BY <1>2, DeliveryInvariant, PTL DEF Spec, NoWayBack

(* delivery.rs against pipeline.rs: whatever workers, administrators and     *)
(* cancel requests do, the state of a delivery moves the way the pipeline    *)
(* module takes for granted.                                                 *)
THEOREM DeliveriesAsPipelinesSee == Spec => DeliveriesMoveAsSeen
<1> DEFINE A == \A d \in Deliveries : dstate'[d] # dstate[d] =>
                 <<dstate[d], dstate'[d]>> \in DeliveryMoves \cup {<<"ABSENT", "QUEUED">>}
<1>1. IInv /\ [Next]_vars => A
  <2> SUFFICES ASSUME RowInv, [Next]_vars, NEW d \in Deliveries, dstate'[d] # dstate[d]
      PROVE  <<dstate[d], dstate'[d]>> \in DeliveryMoves \cup {<<"ABSENT", "QUEUED">>}
    BY InvIsRowInv
  <2>1. RowGoes(d)
    BY RowSteps
  <2> QED BY <2>1 DEF RowGoes, Stays, Begins, Moves, DeliveryMoves
<1>2. IInv /\ [Next]_vars => [A]_vars
  BY <1>1
<1> QED BY <1>2, DeliveryInvariant, PTL DEF Spec, DeliveriesMoveAsSeen

-----------------------------------------------------------------------------
(* Refinement                                                               *)

(* A step changes the state of one delivery at most. *)
LEMMA OneRowAtATime ==
  ASSUME TypeOK, [Next]_vars
  PROVE  \A d, e \in Deliveries : dstate'[d] # dstate[d] /\ dstate'[e] # dstate[e] => d = e
<1> DEFINE OneRow == \A d, e \in Deliveries : dstate'[d] # dstate[d] /\ dstate'[e] # dstate[e] => d = e
<1>1. ASSUME NEW d \in Deliveries, Enqueue(d) PROVE OneRow
  BY <1>1 DEF Enqueue, TypeOK
<1>2. ASSUME NEW d \in Deliveries, RequestCancel(d) PROVE OneRow
  BY <1>2 DEF RequestCancel, Update, TypeOK
<1>3. ASSUME NEW a \in Admins, NEW d \in Deliveries, NEW j \in DeviceJobs, Inquire(a, d, j) PROVE OneRow
  BY <1>3 DEF Inquire, tableVars
<1>4. ASSUME NEW a \in Admins, Reconcile(a) PROVE OneRow
  BY <1>4 DEF Reconcile, Update, TypeOK
<1>5. ASSUME NEW w \in Workers, ListExpired(w) PROVE OneRow
  BY <1>5 DEF ListExpired, tableVars
<1>6. ASSUME NEW w \in Workers, TakeNext(w) PROVE OneRow
  BY <1>6 DEF TakeNext, tableVars
<1>7. ASSUME NEW w \in Workers, PrepareFails(w) PROVE OneRow
  BY <1>7 DEF PrepareFails, tableVars
<1>8. ASSUME NEW w \in Workers, ListAccepted(w) PROVE OneRow
  BY <1>8 DEF ListAccepted, tableVars
<1>9. ASSUME NEW w \in Workers, EndPass(w) PROVE OneRow
  BY <1>9 DEF EndPass, tableVars
<1>10. ASSUME NEW w \in Workers, NEW row \in todo[w], Recover(w, row) PROVE OneRow
  BY <1>10 DEF Recover, Update, TypeOK
<1>11. ASSUME NEW w \in Workers, NEW row \in todo[w], Claim(w, row) PROVE OneRow
  BY <1>11 DEF Claim, Update, TypeOK
<1>12. ASSUME NEW w \in Workers, NEW row \in todo[w], Send(w, row) PROVE OneRow
  BY <1>12 DEF Send, tableVars
<1>13. ASSUME NEW w \in Workers, NEW row \in todo[w], Replied(w, row) PROVE OneRow
  BY <1>13 DEF Replied, tableVars
<1>14. ASSUME NEW w \in Workers, NEW row \in todo[w], Finish(w, row) PROVE OneRow
  BY <1>14 DEF Finish, Update, TypeOK
<1>15. ASSUME NEW w \in Workers, NEW row \in todo[w], Unregistered(w, row) PROVE OneRow
  BY <1>15 DEF Unregistered, NoteFailure, Update, TypeOK
<1>16. ASSUME NEW w \in Workers, NEW row \in todo[w], ClaimCancel(w, row) PROVE OneRow
  BY <1>16 DEF ClaimCancel, Update, TypeOK
<1>17. ASSUME NEW w \in Workers, NEW row \in todo[w], SendCancel(w, row) PROVE OneRow
  BY <1>17 DEF SendCancel, tableVars
<1>18. ASSUME NEW w \in Workers, NEW row \in todo[w], Query(w, row) PROVE OneRow
  BY <1>18 DEF Query, tableVars
<1>19. ASSUME NEW w \in Workers, NEW row \in todo[w], Observe(w, row) PROVE OneRow
  BY <1>19 DEF Observe, NoteFailure, Update, tableVars, TypeOK
<1>20. ASSUME NEW w \in Workers, WorkerCrash(w) PROVE OneRow
  BY <1>20 DEF WorkerCrash, tableVars
<1>21. ASSUME NEW d \in Deliveries, Expire(d) PROVE OneRow
  BY <1>21 DEF Expire, tableVars
<1>22. ASSUME NEW d \in Deliveries, Arrive(d) PROVE OneRow
  BY <1>22 DEF Arrive, tableVars
<1>23. ASSUME NEW d \in Deliveries, PrintOn(d) PROVE OneRow
  BY <1>23 DEF PrintOn, tableVars
<1>24. ASSUME NEW d \in Deliveries, Forget(d) PROVE OneRow
  BY <1>24 DEF Forget, tableVars
<1>25. CASE UNCHANGED vars
  BY <1>25 DEF vars
<1> QED
  BY <1>1, <1>2, <1>3, <1>4, <1>5, <1>6, <1>7, <1>8, <1>9, <1>10, <1>11, <1>12, <1>13, <1>14, <1>15, <1>16, <1>17, <1>18, <1>19, <1>20, <1>21, <1>22, <1>23, <1>24, <1>25
  DEF Next, Clients, Printer, WorkerStep, RowStep

(* Every step is a step of the promise, or none of its business. *)
LEMMA PromiseStep ==
  ASSUME IInv, [Next]_vars
  PROVE  [Promise!Next]_(Promise!promiseVars)
<1> DEFINE Unseen == sent' = sent /\ Begun' = Begun /\ Outcome' = Outcome
<1>a. RowInv /\ TypeOK /\ SendersOwn /\ Wired
  BY DEF IInv, RowInv
<1>b. ASSUME Unseen PROVE UNCHANGED Promise!promiseVars
  BY <1>b DEF Promise!promiseVars
<1>1. CASE UNCHANGED <<sent, wire, job>> /\ \A d \in Deliveries : dstate'[d] = dstate[d]
  BY <1>1, <1>b DEF Begun, Outcome
<1>2. ASSUME UNCHANGED <<sent, wire, job>>, NEW d \in Deliveries, dstate'[d] # dstate[d]
      PROVE  Unseen \/ Promise!Next
  <2>1. \A e \in Deliveries \ {d} : dstate'[e] = dstate[e]
    BY <1>2, <1>a, OneRowAtATime
  <2>2. sent' = sent /\ Begun' = Begun
    BY <1>2 DEF Begun
  <2>3. RowGoes(d)
    BY <1>a, RowSteps
  <2>4. CASE dstate'[d] \notin Settled
    <3>1. dstate[d] \notin Settled
      BY <1>2, <2>3, <2>4 DEF RowGoes, Stays, Begins, Moves, Settled
    <3>2. Outcome' = Outcome
      BY <2>1, <2>4, <3>1 DEF Outcome
    <3> QED BY <2>2, <3>2
  <2>5. CASE dstate'[d] \in Settled
    <3>1. Moves(d)
      BY <1>2, <2>3, <2>5 DEF RowGoes, Stays, Begins, Settled
    <3>2. dstate[d] \notin Settled /\ VerdictHolds(d, dstate'[d])
      BY <3>1 DEF Moves, Settled
    <3>3. Outcome[d] = "open" /\ Outcome' = [Outcome EXCEPT ![d] = dstate'[d]]
      <4>1. Outcome[d] = "open"
        BY <3>2 DEF Outcome
      <4>2. Outcome' = [e \in Deliveries |-> IF e = d THEN dstate'[d] ELSE Outcome[e]]
        BY <2>1, <2>5 DEF Outcome
      <4> QED BY <4>1, <4>2 DEF Outcome
    <3>4. /\ dstate'[d] \in {"COMPLETED", "ABORTED"} => d \in Begun
          /\ dstate'[d] = "REJECTED" => d \notin Begun
          /\ dstate'[d] = "CANCELLED" => (sent[d] = 1 <=> d \in Begun)
      BY <1>a, <3>2 DEF VerdictHolds, Wired, Begun, TypeOK
    <3>5. dstate'[d] \in Promise!Verdicts
      BY <2>5 DEF Promise!Verdicts, Settled
    <3>6. Promise!Settle(d, dstate'[d])
      BY <2>2, <3>3, <3>4 DEF Promise!Settle
    <3> QED BY <3>5, <3>6 DEF Promise!Next
  <2> QED BY <2>4, <2>5
<1>3. ASSUME NEW d \in Deliveries, Sends(d), UNCHANGED dstate PROVE Promise!Next
  <2>1. sent[d] = 0 /\ sent' = [sent EXCEPT ![d] = 1]
    <3>1. sent[d] = 0
      BY <1>3, <1>a DEF Sends, Wired
    <3>2. sent[d] + 1 = 1
      BY <3>1
    <3> QED BY <1>3, <3>1, <3>2 DEF Sends
  <2>2. Outcome[d] = "open" /\ Outcome' = Outcome /\ Begun' = Begun
    BY <1>3 DEF Sends, Outcome, Begun, Settled
  <2>3. Promise!Hand(d)
    BY <2>1, <2>2 DEF Promise!Hand
  <2> QED BY <2>3 DEF Promise!Next
<1>4. ASSUME NEW d \in Deliveries, Arrive(d), UNCHANGED dstate PROVE Unseen \/ Promise!Next
  <2>1. Outcome' = Outcome /\ sent' = sent
    BY <1>4 DEF Arrive, Outcome
  <2>2. CASE job' = job
    BY <2>1, <2>2 DEF Begun
  <2>3. CASE job' = [job EXCEPT ![d] = "pending"]
    <3>1. sent[d] = 1 /\ d \notin Begun
      BY <1>4, <1>a DEF Arrive, Wired, Begun, TypeOK
    <3>2. Begun' = Begun \cup {d}
      BY <2>3, <1>a DEF Begun, TypeOK, DeviceJobs
    <3>3. Outcome[d] = "open"
      <4>1. VerdictHolds(d, dstate[d])
        BY <1>a DEF RowInv, RowsHold
      <4> QED BY <1>4, <4>1, <1>a DEF Arrive, Outcome, VerdictHolds, Wired, Settled
    <3>4. Promise!Begin(d)
      BY <2>1, <3>1, <3>2, <3>3 DEF Promise!Begin
    <3> QED BY <3>4 DEF Promise!Next
  <2> QED BY <1>4, <2>2, <2>3 DEF Arrive
<1>5. ASSUME NEW d \in Deliveries, PrintOn(d), UNCHANGED dstate PROVE Unseen
  BY <1>5, <1>a DEF PrintOn, Outcome, Begun, TypeOK, DeviceJobs, JobEnds
<1>6. CASE UNCHANGED <<sent, wire, job>>
  BY <1>1, <1>2, <1>6, <1>b
<1> QED BY <1>3, <1>4, <1>5, <1>6, <1>a, <1>b, DeviceSteps

(* The workers, the table and an unreliable printer implement the safety of *)
(* what a delivery promises.                                                *)
THEOREM DeliveryKeepsPromise == Spec => KeepsPromise
<1>1. Init => Promise!Init
  BY DEF Init, Promise!Init, Begun, Outcome, Settled, DeviceJobs
<1>2. IInv /\ [Next]_vars => [Promise!Next]_(Promise!promiseVars)
  BY PromiseStep
<1> QED BY <1>1, <1>2, DeliveryInvariant, PTL DEF Spec, KeepsPromise, Promise!Spec

=============================================================================
