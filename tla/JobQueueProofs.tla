--------------------------- MODULE JobQueueProofs ---------------------------
(***************************************************************************)
(* Theorems of JobQueue, for any number of jobs, runs, clients and pages.  *)
(***************************************************************************)
EXTENDS JobQueue, TLAPS

USE JobQueueAssumption, NoReceiptAssumption
USE DEF Actors, JobOf, GoTo, WorkerAt, DispatcherAt, DispatcherGoes,
        jobVars, rowVars, leaseVars, fileVars, workerVars, dispatcherVars

(* What the table allows, as the steps below use it. *)
LEMMA AllowedFacts ==
  ASSUME NEW from, NEW next, Allowed(from, next)
  PROVE  /\ from \in JobStates \ Terminal
         /\ next \in JobStates
         /\ next = "RIPPING" => from = "QUEUED"
         /\ next = "QUEUED" \/ next = "HELD" => from \notin Processing
         /\ next \in Processing \ {"RIPPING"} => from \in Processing
         /\ next = "COMPLETED" => from \in Processing \ {"RIPPING"}
         /\ from \in Processing => next \in Processing \cup Terminal
BY DEF Allowed, Forward, JobStates, Terminal, Processing

-----------------------------------------------------------------------------
(* The type invariant.                                                      *)

LEMMA InitType == Init => TypeOK
BY DEF Init, TypeOK, RowStates, Errors, WorkerPcs, DispatcherPcs, Operations, Snapshots, Nothing

(* The effect of the writers' common transaction on the types. *)
LEMMA MoveType ==
  ASSUME TypeOK, NEW a \in Actors, NEW next, NEW err \in Errors, NEW arts \in SUBSET Jobs,
         MayMove(a, next), Move(a, next, err, arts)
  PROVE  /\ JobOf(a) \in Jobs
         /\ state' \in [Jobs -> RowStates]
         /\ revision' \in [Jobs -> Nat]
         /\ owner' \in [Jobs -> Runs \cup {NoRun}]
         /\ error' \in [Jobs -> Errors]
         /\ receipt' \in [Jobs -> Receipts \cup {NoReceipt}]
         /\ artifacts' \subseteq Jobs
  <1>1. next \in JobStates /\ seen[a].state \in JobStates
    BY AllowedFacts DEF MayMove
  <1>2. seen[a] # Nothing(NoJob)
    BY <1>1 DEF Nothing, JobStates
  <1>3. seen[a] \in [job : Jobs, state : RowStates, revision : Nat, owner : Runs \cup {NoRun}]
    BY <1>2 DEF TypeOK, Snapshots
  <1>4. receipt' \in [Jobs -> Receipts \cup {NoReceipt}]
    BY <1>1 DEF TypeOK, Move, ReceiptsAfter, Receipts
  <1>5. seen[a].job \in Jobs /\ seen[a].revision + 1 \in Nat /\ seen[a].owner \in Runs \cup {NoRun}
    BY <1>3
  <1>6. next \in RowStates
    BY <1>1 DEF RowStates
  <1> QED
    BY <1>4, <1>5, <1>6 DEF TypeOK, Move

LEMMA NextType ==
  ASSUME TypeOK, Assigned, [Next]_vars
  PROVE  TypeOK' /\ Assigned'
  <1>1. ASSUME NEW j \in Jobs, Submit(j)
       PROVE  TypeOK' /\ Assigned'
      BY <1>1 DEF TypeOK, Assigned, Submit, RowStates, JobStates
  <1>2. ASSUME NEW j \in Jobs, Expire(j)
       PROVE  TypeOK' /\ Assigned'
      BY <1>2 DEF TypeOK, Assigned, Expire
  <1>3. ASSUME NEW r \in Runs, Renew(r)
       PROVE  TypeOK' /\ Assigned'
      BY <1>3 DEF TypeOK, Assigned, Renew
  <1>4. ASSUME NEW r \in Runs, HeartbeatStops(r)
       PROVE  TypeOK' /\ Assigned'
      BY <1>4 DEF TypeOK, Assigned, HeartbeatStops
  <1>5. ASSUME NEW r \in Runs, WorkerCrash(r)
       PROVE  TypeOK' /\ Assigned'
      BY <1>5 DEF TypeOK, Assigned, WorkerCrash, Exit, Snapshots, Nothing, WorkerPcs
  <1>6. ASSUME NEW r \in Runs, NEW j \in Jobs, StartManually(r, j)
       PROVE  TypeOK' /\ Assigned'
      BY <1>6 DEF TypeOK, Assigned, StartManually, Launch, Snapshots, Nothing, RowStates, WorkerPcs
  <1>7. CASE DispatcherCrash
      BY <1>7 DEF TypeOK, Assigned, DispatcherCrash, DispatcherForgets, Snapshots, Nothing, DispatcherPcs
  <1>8. ASSUME NEW c \in Clients, NEW op \in Operations \ {"NONE"}, NEW j \in Jobs, Request(c, op, j)
       PROVE  TypeOK' /\ Assigned'
      BY <1>8 DEF TypeOK, Assigned, Request, Exists, Read, Snapshots, RowStates, Operations
  <1>9. ASSUME NEW c \in Clients, Control(c)
       PROVE  TypeOK' /\ Assigned'
      BY <1>9, MoveType DEF TypeOK, Assigned, Control, EndRequest, Snapshots, Nothing, Errors, Operations
  <1>10. ASSUME NEW c \in Clients, Delete(c)
       PROVE  TypeOK' /\ Assigned'
      BY <1>10 DEF TypeOK, Assigned, Delete, EndRequest, RevisionMatches, Exists, RowStates, Snapshots, Nothing, Operations
  <1>11. ASSUME NEW c \in Clients, Refuse(c)
       PROVE  TypeOK' /\ Assigned'
      BY <1>11 DEF TypeOK, Assigned, Refuse, EndRequest, Snapshots, Nothing, Operations
  <1>12. ASSUME NEW r \in Runs, Load(r)
       PROVE  TypeOK' /\ Assigned'
      BY <1>12 DEF TypeOK, Assigned, Load, Exit, Read, Snapshots, Nothing, WorkerPcs, RowStates
  <1>13. ASSUME NEW r \in Runs, Claim(r)
       PROVE  TypeOK' /\ Assigned'
      BY <1>13 DEF TypeOK, Assigned, Claim, Snapshots, Nothing, RowStates, JobStates, Errors, WorkerPcs
  <1>14. ASSUME NEW r \in Runs, ClaimConflict(r)
       PROVE  TypeOK' /\ Assigned'
      BY <1>14 DEF TypeOK, Assigned, ClaimConflict, Exit, Snapshots, Nothing, WorkerPcs
  <1>15. ASSUME NEW r \in Runs, RenderPage(r)
       PROVE  TypeOK' /\ Assigned'
      BY <1>15 DEF TypeOK, Assigned, RenderPage, PagesLeft
  <1>16. ASSUME NEW r \in Runs, RenderEnds(r)
       PROVE  TypeOK' /\ Assigned'
      BY <1>16 DEF TypeOK, Assigned, RenderEnds, WorkerPcs
  <1>17. ASSUME NEW r \in Runs, Reread(r)
       PROVE  TypeOK' /\ Assigned'
      BY <1>17 DEF TypeOK, Assigned, Reread, Exit, Exists, Read, Snapshots, Nothing, WorkerPcs, RowStates
  <1>18. ASSUME NEW r \in Runs, VerifyPage(r)
       PROVE  TypeOK' /\ Assigned'
      BY <1>18 DEF TypeOK, Assigned, VerifyPage, PagesLeft
  <1>19. ASSUME NEW r \in Runs, RecordValidation(r)
       PROVE  TypeOK' /\ Assigned'
      BY <1>19 DEF TypeOK, Assigned, RecordValidation, WorkerPcs
  <1>20. ASSUME NEW r \in Runs, RecordAnalysis(r)
       PROVE  TypeOK' /\ Assigned'
      BY <1>20 DEF TypeOK, Assigned, RecordAnalysis, WorkerPcs
  <1>21. ASSUME NEW r \in Runs, Publish(r)
       PROVE  TypeOK' /\ Assigned'
      BY <1>21 DEF TypeOK, Assigned, Publish, WorkerPcs
  <1>22. ASSUME NEW r \in Runs, SpoolFails(r)
       PROVE  TypeOK' /\ Assigned'
      BY <1>22 DEF TypeOK, Assigned, SpoolFails, WorkerPcs
  <1>23. ASSUME NEW r \in Runs, ToSpooling(r)
       PROVE  TypeOK' /\ Assigned'
      BY <1>23, MoveType DEF TypeOK, Assigned, ToSpooling, Snapshots, Nothing, WorkerPcs, Errors, RowStates, JobStates
  <1>24. ASSUME NEW r \in Runs, Complete(r)
       PROVE  TypeOK' /\ Assigned'
      BY <1>24, MoveType DEF TypeOK, Assigned, Complete, CanComplete, WorkerPcs, Errors
  <1>25. ASSUME NEW r \in Runs, Fail(r)
       PROVE  TypeOK' /\ Assigned'
      BY <1>25, MoveType DEF TypeOK, Assigned, Fail, FailureOf, WorkerPcs, Errors
  <1>26. ASSUME NEW r \in Runs, WriteConflict(r)
       PROVE  TypeOK' /\ Assigned'
      BY <1>26 DEF TypeOK, Assigned, WriteConflict, Exit, Snapshots, Nothing, WorkerPcs
  <1>27. ASSUME NEW r \in Runs, Clear(r)
       PROVE  TypeOK' /\ Assigned'
      BY <1>27 DEF TypeOK, Assigned, Clear, Exit, ClearLease, Snapshots, Nothing, WorkerPcs
  <1>28. CASE StartDispatcher
      BY <1>28 DEF TypeOK, Assigned, StartDispatcher, DispatcherPcs
  <1>29. CASE RecoverExpired
      BY <1>29 DEF TypeOK, Assigned, RecoverExpired, Lost, RevisionsAfter, ReceiptsAfter, Receipts, RowStates, JobStates, Terminal, Errors, DispatcherPcs
  <1>30. CASE PickNothing
      BY <1>30 DEF TypeOK, Assigned, PickNothing, DispatcherPcs
  <1>31. CASE ChildExited
      BY <1>31 DEF TypeOK, Assigned, ChildExited, DispatcherPcs
  <1>32. CASE CheckChild
      BY <1>32 DEF TypeOK, Assigned, CheckChild, EndRound, DispatcherForgets, Exists, Read, Snapshots, Nothing, RowStates, DispatcherPcs
  <1>33. CASE FailChild
      BY <1>33, MoveType DEF TypeOK, Assigned, FailChild, Snapshots, Nothing, DispatcherPcs, Errors, RowStates, JobStates
  <1>34. CASE FailChildConflict
      BY <1>34 DEF TypeOK, Assigned, FailChildConflict, DispatcherForgets, Exists, Read, Snapshots, Nothing, RowStates, DispatcherPcs
  <1>35. CASE ClearChild
      BY <1>35 DEF TypeOK, Assigned, ClearChild, EndRound, DispatcherForgets, ClearLease, Snapshots, Nothing, DispatcherPcs
  <1>36. ASSUME NEW r \in Runs, NEW j \in Jobs, PickAndSpawn(r, j)
       PROVE  TypeOK' /\ Assigned'
      BY <1>36 DEF TypeOK, Assigned, PickAndSpawn, Launch, Fresh, Snapshots, Nothing, RowStates, WorkerPcs, DispatcherPcs
  <1>37. CASE UNCHANGED vars
      BY <1>37 DEF TypeOK, Assigned, vars
  <1> QED
    BY <1>1, <1>2, <1>3, <1>4, <1>5, <1>6, <1>7, <1>8, <1>9, <1>10, <1>11, <1>12, <1>13, <1>14, <1>15, <1>16, <1>17, <1>18, <1>19, <1>20, <1>21, <1>22, <1>23, <1>24, <1>25, <1>26, <1>27, <1>28, <1>29, <1>30, <1>31, <1>32, <1>33, <1>34, <1>35, <1>36, <1>37 DEF Next, Environment, ClientStep, WorkerStep, DispatcherStep

(* Every variable keeps its type and every process at work knows its job, *)
(* whatever the numbers of jobs, runs, requests, pages and crashes.         *)
THEOREM TypeCorrect == Spec => [](TypeOK /\ Assigned)
  <1>1. Init => TypeOK /\ Assigned
    BY InitType DEF Init, Assigned
  <1>2. TypeOK /\ Assigned /\ [Next]_vars => TypeOK' /\ Assigned'
    BY NextType
  <1> QED
    BY <1>1, <1>2, PTL DEF Spec

-----------------------------------------------------------------------------
(* The compare-and-set.                                                     *)

LEMMA SnapshotExactAt ==
  ASSUME SnapshotsExact, NEW a \in Actors, seen[a].state # "ABSENT", RevisionMatches(a)
  PROVE  /\ seen[a].state = state[JobOf(a)]
         /\ seen[a].revision = revision[JobOf(a)]
         /\ seen[a].owner = owner[JobOf(a)]
  <1>1. seen[a] = Read(JobOf(a))
    BY DEF SnapshotsExact
  <1> QED
    BY <1>1 DEF Read

(* A write that passes the check finds the row exactly as it was read: it  *)
(* is applied to a job that has not ended, and it keeps the owner.          *)
LEMMA MoveFacts ==
  ASSUME TypeOK, SnapshotsExact, NEW a \in Actors, NEW next, NEW err, NEW arts,
         MayMove(a, next), Move(a, next, err, arts)
  PROVE  /\ JobOf(a) \in Jobs
         /\ next \in JobStates
         /\ Allowed(state[JobOf(a)], next)
         /\ seen[a].state = state[JobOf(a)]
         /\ seen[a].revision = revision[JobOf(a)]
         /\ seen[a].owner = owner[JobOf(a)]
         /\ state' = [state EXCEPT ![JobOf(a)] = next]
         /\ revision' = [revision EXCEPT ![JobOf(a)] = revision[JobOf(a)] + 1]
         /\ owner' = owner
         /\ error' = [error EXCEPT ![JobOf(a)] = err]
         /\ receipt' = ReceiptsAfter({JobOf(a)}, next, arts)
         /\ artifacts' = arts
  <1>1. next \in JobStates /\ seen[a].state \in JobStates
    BY AllowedFacts DEF MayMove
  <1>2. seen[a] # Nothing(NoJob)
    BY <1>1 DEF Nothing, JobStates
  <1>3. JobOf(a) \in Jobs
    BY <1>2 DEF TypeOK, Snapshots
  <1>4. /\ seen[a].state = state[JobOf(a)]
        /\ seen[a].revision = revision[JobOf(a)]
        /\ seen[a].owner = owner[JobOf(a)]
    BY <1>1, SnapshotExactAt DEF MayMove, JobStates
  <1> QED
    BY <1>1, <1>3, <1>4 DEF TypeOK, MayMove, Move

(* Which actions write the row of a job at all. *)
LEMMA RowWriters ==
  ASSUME [Next]_vars
  PROVE  \/ UNCHANGED <<state, revision, owner, error, accepted, receipt, artifacts>>
         \/ \E j \in Jobs : Submit(j)
         \/ \E c \in Clients : Control(c) \/ Delete(c)
         \/ \E r \in Runs : Claim(r) \/ ToSpooling(r) \/ Complete(r) \/ Fail(r)
         \/ RecoverExpired \/ FailChild
  <1>1. Environment => \/ UNCHANGED <<state, revision, owner, error, accepted, receipt, artifacts>>
                       \/ \E j \in Jobs : Submit(j)
    BY DEF Environment, Expire, Renew, HeartbeatStops, WorkerCrash, StartManually, DispatcherCrash
  <1>2. ASSUME NEW c \in Clients, ClientStep(c)
        PROVE  \/ UNCHANGED <<state, revision, owner, error, accepted, receipt, artifacts>>
               \/ Control(c) \/ Delete(c)
    BY <1>2 DEF ClientStep, Request, Refuse, EndRequest
  <1>3. ASSUME NEW r \in Runs, WorkerStep(r)
        PROVE  \/ UNCHANGED <<state, revision, owner, error, accepted, receipt, artifacts>>
               \/ Claim(r) \/ ToSpooling(r) \/ Complete(r) \/ Fail(r)
    BY <1>3 DEF WorkerStep, Load, ClaimConflict, RenderPage, RenderEnds, Reread, VerifyPage,
                RecordValidation, RecordAnalysis, Publish, SpoolFails, WriteConflict, Clear
  <1>4. DispatcherStep => \/ UNCHANGED <<state, revision, owner, error, accepted, receipt, artifacts>>
                          \/ RecoverExpired \/ FailChild
    BY DEF DispatcherStep, StartDispatcher, PickNothing, ChildExited, CheckChild,
           FailChildConflict, ClearChild, PickAndSpawn
  <1> QED
    BY <1>1, <1>2, <1>3, <1>4 DEF Next, vars

(* A write of a job that has not ended yet: who writes, and what for. *)
Moved(a, next, err) ==
  /\ MayMove(a, next)
  /\ Move(a, next, err, IF next = "COMPLETED" THEN artifacts \cup {JobOf(a)} ELSE artifacts)
  /\ accepted' = accepted
  /\ next # "RIPPING"
  /\ next \in Processing => a \in Runs /\ pc[a] = "published"
  /\ next = "COMPLETED" => a \in Runs /\ pc[a] = "spooling"
  /\ err = "WORKER_EXIT" => a = Dispatcher /\ dpc = "fail"

LEMMA RowSteps ==
  ASSUME [Next]_vars
  PROVE  \/ UNCHANGED <<state, revision, owner, error, accepted, receipt, artifacts>>
         \/ \E j \in Jobs : Submit(j)
         \/ \E a \in Actors, next \in JobStates, err \in Errors : Moved(a, next, err)
         \/ \E r \in Runs : Claim(r)
         \/ \E c \in Clients : Delete(c)
         \/ RecoverExpired
  <1>1. ASSUME NEW c \in Clients, Control(c)
        PROVE  \E next \in JobStates : Moved(c, next, "NONE")
    BY <1>1 DEF Control, Moved, NextState, EndRequest, JobStates, Processing
  <1>2. ASSUME NEW r \in Runs, ToSpooling(r)
        PROVE  Moved(r, "SPOOLING", "NONE")
    BY <1>2 DEF ToSpooling, Moved, Processing
  <1>3. ASSUME NEW r \in Runs, Complete(r)
        PROVE  Moved(r, "COMPLETED", "NONE")
    BY <1>3 DEF Complete, CanComplete, Moved, Processing
  <1>4. ASSUME NEW r \in Runs, Fail(r)
        PROVE  \E err \in Errors : Moved(r, "FAILED", err)
    BY <1>4 DEF Fail, FailureOf, Moved, Errors, Processing
  <1>5. ASSUME FailChild
        PROVE  Moved(Dispatcher, "FAILED", "WORKER_EXIT")
    BY <1>5 DEF FailChild, Moved, Processing
  <1> QED
    BY RowWriters, <1>1, <1>2, <1>3, <1>4, <1>5 DEF JobStates, Errors

(* All that can happen to a row in one step: nothing, its insertion, its   *)
(* deletion, a checked transition, or a claim.                              *)
Kept(j) ==
  /\ revision'[j] = revision[j] /\ owner'[j] = owner[j]
  /\ error'[j] = error[j] /\ receipt'[j] = receipt[j]
  /\ j \in artifacts' <=> j \in artifacts

Inserted(j) ==
  /\ state[j] = "ABSENT" /\ state'[j] = "QUEUED" /\ Kept(j)
  /\ j \in accepted => j \in accepted'

Deleted(j) ==
  state[j] \in Terminal /\ state'[j] = "DELETED" /\ Kept(j) /\ accepted' = accepted

Advanced(j) ==
  /\ Allowed(state[j], state'[j])
  /\ state'[j] # "RIPPING"
  /\ state'[j] \in Processing => \E r \in Runs : pc[r] = "published" /\ JobOf(r) = j
  /\ state'[j] = "COMPLETED" => \E r \in Runs : pc[r] = "spooling" /\ JobOf(r) = j
  /\ revision'[j] = revision[j] + 1
  /\ owner'[j] = owner[j]
  /\ error'[j] = "WORKER_EXIT" => j = JobOf(Dispatcher) /\ dpc = "fail"
  /\ accepted' = accepted
  /\ receipt'[j] = IF j \in accepted /\ state'[j] \in Terminal
                   THEN [state |-> state'[j], revision |-> revision'[j],
                         artifacts |-> j \in artifacts']
                   ELSE receipt[j]
  /\ j \in artifacts' <=> j \in artifacts \/ state'[j] = "COMPLETED"

Claimed(r, j) ==
  /\ Claim(r) /\ JobOf(r) = j
  /\ state[j] = "QUEUED" /\ state'[j] = "RIPPING"
  /\ revision'[j] = revision[j] + 1
  /\ owner'[j] = r /\ error'[j] = "NONE" /\ receipt'[j] = receipt[j]
  /\ accepted' = accepted /\ artifacts' = artifacts

RowStep(j) ==
  \/ state'[j] = state[j] /\ Kept(j) /\ (j \in accepted' <=> j \in accepted)
  \/ Inserted(j) \/ Deleted(j) \/ Advanced(j)
  \/ \E r \in Runs : Claimed(r, j)

LEMMA NextRow ==
  ASSUME TypeOK, Assigned, SnapshotsExact, [Next]_vars, NEW j \in Jobs
  PROVE  RowStep(j)
  <1>1. CASE UNCHANGED <<state, revision, owner, error, accepted, receipt, artifacts>>
    BY <1>1 DEF RowStep, Kept
  <1>2. ASSUME NEW k \in Jobs, Submit(k)
        PROVE  RowStep(j)
    BY <1>2 DEF RowStep, Kept, Inserted, Submit, TypeOK
  <1>3. ASSUME NEW a \in Actors, NEW next \in JobStates, NEW err \in Errors, Moved(a, next, err)
        PROVE  RowStep(j)
    <2> DEFINE arts == IF next = "COMPLETED" THEN artifacts \cup {JobOf(a)} ELSE artifacts
    <2>1. /\ JobOf(a) \in Jobs
          /\ state' = [state EXCEPT ![JobOf(a)] = next]
          /\ revision' = [revision EXCEPT ![JobOf(a)] = revision[JobOf(a)] + 1]
          /\ owner' = owner
          /\ error' = [error EXCEPT ![JobOf(a)] = err]
          /\ receipt' = ReceiptsAfter({JobOf(a)}, next, arts)
          /\ artifacts' = arts
          /\ Allowed(state[JobOf(a)], next)
      <3>1. MayMove(a, next) /\ Move(a, next, err, arts)
        BY <1>3 DEF Moved
      <3> HIDE DEF arts
      <3> QED
        BY <3>1, MoveFacts
    <2>2. CASE j = JobOf(a)
      <3>1. state'[j] = next /\ revision'[j] = revision[j] + 1 /\ owner'[j] = owner[j] /\ error'[j] = err
        BY <2>1, <2>2 DEF TypeOK
      <3>2. receipt'[j] = IF j \in accepted /\ next \in Terminal
                          THEN [state |-> next, revision |-> revision[j] + 1, artifacts |-> j \in arts]
                          ELSE receipt[j]
        BY <2>1, <2>2 DEF ReceiptsAfter
      <3> QED
        BY <1>3, <2>1, <2>2, <3>1, <3>2 DEF RowStep, Advanced, Moved
    <2>3. CASE j # JobOf(a)
      BY <1>3, <2>1, <2>3 DEF RowStep, Kept, Moved, ReceiptsAfter, TypeOK
    <2> QED
      BY <2>2, <2>3
  <1>4. ASSUME NEW r \in Runs, Claim(r)
        PROVE  RowStep(j)
    <2>1. seen[r].state = "QUEUED" /\ RevisionMatches(r)
      BY <1>4, AllowedFacts DEF Claim, MayMove
    <2>2. state[JobOf(r)] = "QUEUED" /\ revision[JobOf(r)] = seen[r].revision
      BY <2>1, SnapshotExactAt
    <2> QED
      BY <1>4, <2>2 DEF Claim, RowStep, Kept, Claimed, TypeOK
  <1>5. ASSUME NEW c \in Clients, Delete(c)
        PROVE  RowStep(j)
    <2>1. seen[c].state \in Terminal /\ RevisionMatches(c)
      BY <1>5 DEF Delete
    <2>2. state[JobOf(c)] \in Terminal
      BY <2>1, SnapshotExactAt DEF Terminal
    <2> QED
      BY <1>5, <2>2 DEF Delete, EndRequest, RowStep, Kept, Deleted, TypeOK
  <1>6. CASE RecoverExpired
    <2> DEFINE lost == {k \in ExpiredLeases : Lost(k)}
    <2>1. CASE j \in lost
      <3>1. Allowed(state[j], "FAILED")
        BY <2>1 DEF ExpiredLeases, Exists, Lost, Allowed
      <3> QED
        BY <1>6, <2>1, <3>1 DEF RecoverExpired, RevisionsAfter, ReceiptsAfter, RowStep, Advanced,
                               Processing, TypeOK
    <2>2. CASE j \notin lost
      BY <1>6, <2>2 DEF RecoverExpired, RevisionsAfter, ReceiptsAfter, RowStep, Kept
    <2> QED
      BY <2>1, <2>2
  <1> QED
    BY <1>1, <1>2, <1>3, <1>4, <1>5, <1>6, RowSteps

(* All that can happen to what a process remembers in one step. *)
SeenStep(a) ==
  \/ seen'[a] = seen[a]
  \/ seen'[a].state = "ABSENT"
  \/ \E j \in Jobs : /\ seen'[a] = [job |-> j, state |-> state'[j],
                                   revision |-> revision'[j], owner |-> owner'[j]]
                     /\ state'[j] \in JobStates

LEMMA NextSeen ==
  ASSUME TypeOK, Assigned, SnapshotsExact, [Next]_vars, NEW a \in Actors
  PROVE  SeenStep(a)
  <1> USE DEF TypeOK, Assigned, SeenStep, Read, Nothing
  <1>1. CASE Environment
    BY <1>1 DEF Environment, Submit, Expire, Renew, HeartbeatStops, WorkerCrash, Exit,
                StartManually, Launch, DispatcherCrash, DispatcherForgets
  <1>2. ASSUME NEW c \in Clients, ClientStep(c)
        PROVE  SeenStep(a)
    BY <1>2 DEF ClientStep, Request, Control, Delete, Refuse, EndRequest, Exists
  <1>3. ASSUME NEW r \in Runs, Load(r) \/ Reread(r)
        PROVE  SeenStep(a)
    BY <1>3 DEF Load, Reread, Exit, Exists, JobStates
  <1>4. ASSUME NEW r \in Runs, ToSpooling(r)
        PROVE  SeenStep(a)
    <2>1. /\ JobOf(r) \in Jobs
          /\ seen[r].revision = revision[JobOf(r)]
          /\ seen[r].owner = owner[JobOf(r)]
          /\ state' = [state EXCEPT ![JobOf(r)] = "SPOOLING"]
          /\ revision' = [revision EXCEPT ![JobOf(r)] = revision[JobOf(r)] + 1]
          /\ owner' = owner
      BY <1>4, MoveFacts DEF ToSpooling
    <2>2. seen[r] \in [job : Jobs, state : RowStates, revision : Nat, owner : Runs \cup {NoRun}]
      BY <2>1 DEF Snapshots
    <2> QED
      BY <1>4, <2>1, <2>2 DEF ToSpooling, JobStates
  <1>5. ASSUME NEW r \in Runs, WorkerStep(r), ~(Load(r) \/ Reread(r) \/ ToSpooling(r))
        PROVE  SeenStep(a)
    BY <1>5 DEF WorkerStep, Claim, ClaimConflict, RenderPage, RenderEnds, VerifyPage,
                RecordValidation, RecordAnalysis, Publish, SpoolFails, Complete, Fail,
                WriteConflict, Clear, Exit
  <1>6. ASSUME FailChild
        PROVE  SeenStep(a)
    <2>1. /\ JobOf(Dispatcher) \in Jobs
          /\ seen[Dispatcher].revision = revision[JobOf(Dispatcher)]
          /\ seen[Dispatcher].owner = owner[JobOf(Dispatcher)]
          /\ state' = [state EXCEPT ![JobOf(Dispatcher)] = "FAILED"]
          /\ revision' = [revision EXCEPT ![JobOf(Dispatcher)] = revision[JobOf(Dispatcher)] + 1]
          /\ owner' = owner
      BY <1>6, MoveFacts DEF FailChild
    <2>2. seen[Dispatcher] \in [job : Jobs, state : RowStates, revision : Nat, owner : Runs \cup {NoRun}]
      BY <2>1 DEF Snapshots
    <2> QED
      BY <1>6, <2>1, <2>2 DEF FailChild, JobStates
  <1>7. CASE DispatcherStep /\ ~FailChild
    BY <1>7 DEF DispatcherStep, StartDispatcher, RecoverExpired, PickNothing, ChildExited,
                CheckChild, FailChildConflict, ClearChild, PickAndSpawn, Launch, EndRound,
                DispatcherForgets, Exists
  <1>8. CASE UNCHANGED vars
    BY <1>8 DEF vars
  <1> QED
    BY <1>1, <1>2, <1>3, <1>4, <1>5, <1>6, <1>7, <1>8 DEF Next

LEMMA NextSnapshots ==
  ASSUME TypeOK, Assigned, SnapshotsBehind, SnapshotsExact, [Next]_vars
  PROVE  SnapshotsBehind' /\ SnapshotsExact'
  <1> SUFFICES ASSUME NEW a \in Actors, seen'[a].state # "ABSENT"
               PROVE  /\ state'[seen'[a].job] # "ABSENT"
                      /\ seen'[a].revision <= revision'[seen'[a].job]
                      /\ RevisionMatches(a)' => seen'[a] = Read(JobOf(a))'
    BY DEF SnapshotsBehind, SnapshotsExact
  <1>1. CASE seen'[a] = seen[a]
    <2> DEFINE j == seen[a].job
    <2>1. seen[a] # Nothing(NoJob)
      BY <1>1 DEF Nothing
    <2>2. j \in Jobs /\ revision[j] \in Nat /\ seen[a].revision \in Nat
      BY <2>1 DEF TypeOK, Snapshots
    <2>3. state[j] # "ABSENT" /\ seen[a].revision <= revision[j]
      BY <1>1 DEF SnapshotsBehind
    <2>4. RowStep(j)
      BY <2>2, NextRow
    <2>5. CASE <<state'[j], revision'[j], owner'[j]>> = <<state[j], revision[j], owner[j]>>
      BY <1>1, <2>3, <2>5 DEF SnapshotsExact, RevisionMatches, Exists, Read
    <2>6. CASE state'[j] = "DELETED" /\ revision'[j] = revision[j]
      BY <1>1, <2>3, <2>6 DEF RevisionMatches, Exists, JobStates
    <2>7. CASE state'[j] \in JobStates /\ revision'[j] = revision[j] + 1
      BY <1>1, <2>2, <2>3, <2>7 DEF RevisionMatches, JobStates
    <2>8. \A from, next : Allowed(from, next) => next \in JobStates
      BY AllowedFacts
    <2> QED
      BY <2>3, <2>4, <2>5, <2>6, <2>7, <2>8 DEF RowStep, Kept, Inserted, Deleted, Advanced, Claimed, JobStates
  <1>2. ASSUME NEW j \in Jobs, state'[j] \in JobStates,
               seen'[a] = [job |-> j, state |-> state'[j], revision |-> revision'[j], owner |-> owner'[j]]
        PROVE  /\ state'[seen'[a].job] # "ABSENT"
               /\ seen'[a].revision <= revision'[seen'[a].job]
               /\ RevisionMatches(a)' => seen'[a] = Read(JobOf(a))'
    BY <1>2, NextType DEF Read, JobStates, TypeOK
  <1> QED
    BY <1>1, <1>2, NextSeen DEF SeenStep

(* Revisions only grow and every write moves one, so a process that can    *)
(* still write finds the row as it read it.                                 *)
THEOREM SnapshotsStayExact == Spec => []SnapshotsExact
  <1>1. Init => SnapshotsBehind /\ SnapshotsExact
    BY DEF Init, SnapshotsBehind, SnapshotsExact, Nothing
  <1>2. TypeOK /\ Assigned /\ SnapshotsBehind /\ SnapshotsExact /\ [Next]_vars
          => SnapshotsBehind' /\ SnapshotsExact'
    BY NextSnapshots
  <1> QED
    BY <1>1, <1>2, TypeCorrect, PTL DEF Spec

-----------------------------------------------------------------------------
(* Outcomes.                                                                *)

(* No snapshot, however old, changes a job that has ended: what a writer   *)
(* may do to it passes the table on the state it read, and that state is    *)
(* the row's.                                                               *)
THEOREM OutcomesAreFinal == Spec => TerminalIsFinal
  <1> DEFINE Final ==
        \A j \in Jobs :
          state[j] \in Terminal =>
            /\ state'[j] \in {state[j], "DELETED"}
            /\ <<revision'[j], owner'[j], error'[j], receipt'[j]>>
                 = <<revision[j], owner[j], error[j], receipt[j]>>
  <1>1. TypeOK /\ Assigned /\ SnapshotsExact /\ [Next]_vars => [Final]_vars
    <2> SUFFICES ASSUME TypeOK, Assigned, SnapshotsExact, [Next]_vars,
                        NEW j \in Jobs, state[j] \in Terminal
                 PROVE  /\ state'[j] \in {state[j], "DELETED"}
                        /\ revision'[j] = revision[j] /\ owner'[j] = owner[j]
                        /\ error'[j] = error[j] /\ receipt'[j] = receipt[j]
      OBVIOUS
    <2>1. RowStep(j)
      BY NextRow
    <2>2. ~Advanced(j)
      BY AllowedFacts DEF Advanced
    <2> QED
      BY <2>1, <2>2 DEF RowStep, Kept, Inserted, Deleted, Claimed, Terminal
  <1> QED
    BY <1>1, TypeCorrect, SnapshotsStayExact, PTL DEF Spec, TerminalIsFinal

OutcomeInv == OwnedOnceClaimed /\ ArtifactsOfCompleted /\ ReceiptMatchesOutcome

LEMMA NextOutcome ==
  ASSUME TypeOK, Assigned, SnapshotsExact, OutcomeInv, [Next]_vars
  PROVE  OutcomeInv'
  <1> SUFFICES ASSUME NEW j \in Jobs
               PROVE  /\ owner'[j] # NoRun => state'[j] \in Processing \cup Terminal \cup {"DELETED"}
                      /\ j \in artifacts' => state'[j] \in {"COMPLETED", "DELETED"}
                      /\ (receipt'[j] # NoReceipt)
                           <=> (j \in accepted' /\ state'[j] \in Terminal \cup {"DELETED"})
                      /\ receipt'[j] # NoReceipt =>
                           /\ receipt'[j].revision = revision'[j]
                           /\ state'[j] # "DELETED" => receipt'[j].state = state'[j]
                           /\ receipt'[j].artifacts = (receipt'[j].state = "COMPLETED")
    BY NextType DEF OutcomeInv, OwnedOnceClaimed, ArtifactsOfCompleted, ReceiptMatchesOutcome, TypeOK
  <1>1. /\ owner[j] # NoRun => state[j] \in Processing \cup Terminal \cup {"DELETED"}
        /\ j \in artifacts => state[j] \in {"COMPLETED", "DELETED"}
        /\ (receipt[j] # NoReceipt)
             <=> (j \in accepted /\ state[j] \in Terminal \cup {"DELETED"})
        /\ receipt[j] # NoReceipt =>
             /\ receipt[j].revision = revision[j]
             /\ state[j] # "DELETED" => receipt[j].state = state[j]
             /\ receipt[j].artifacts = (receipt[j].state = "COMPLETED")
    BY DEF OutcomeInv, OwnedOnceClaimed, ArtifactsOfCompleted, ReceiptMatchesOutcome
  <1>2. CASE state'[j] = state[j] /\ Kept(j) /\ (j \in accepted' <=> j \in accepted)
    BY <1>1, <1>2 DEF Kept
  <1>3. CASE Inserted(j)
    BY <1>1, <1>3 DEF Inserted, Kept, Terminal, Processing
  <1>4. CASE Deleted(j)
    BY <1>1, <1>4 DEF Deleted, Kept, Terminal
  <1>5. CASE Advanced(j)
    <2>1. state[j] \in JobStates \ Terminal /\ state'[j] \in JobStates
      BY <1>5, AllowedFacts DEF Advanced
    <2>2. state[j] \in Processing => state'[j] \in Processing \cup Terminal
      BY <1>5, AllowedFacts DEF Advanced
    <2>3. receipt[j] = NoReceipt /\ j \notin artifacts
      BY <1>1, <2>1 DEF Terminal, JobStates
    <2>4. state'[j] = "COMPLETED" <=> j \in artifacts'
      BY <1>5, <2>3 DEF Advanced
    <2>5. [state |-> state'[j], revision |-> revision'[j], artifacts |-> j \in artifacts'] # NoReceipt
      <3>1. revision'[j] \in Nat
        BY NextType DEF TypeOK
      <3>2. (j \in artifacts') \in BOOLEAN
        OBVIOUS
      <3>3. [state |-> state'[j], revision |-> revision'[j], artifacts |-> j \in artifacts'] \in Receipts
        BY <2>1, <3>1, <3>2 DEF Receipts
      <3> QED
        BY <3>3
    <2> QED
      BY <1>1, <1>5, <2>1, <2>2, <2>3, <2>4, <2>5 DEF Advanced, Terminal, JobStates
  <1>6. ASSUME NEW r \in Runs, Claimed(r, j)
        PROVE  /\ owner'[j] # NoRun => state'[j] \in Processing \cup Terminal \cup {"DELETED"}
               /\ j \in artifacts' => state'[j] \in {"COMPLETED", "DELETED"}
               /\ (receipt'[j] # NoReceipt)
                    <=> (j \in accepted' /\ state'[j] \in Terminal \cup {"DELETED"})
               /\ receipt'[j] # NoReceipt =>
                    /\ receipt'[j].revision = revision'[j]
                    /\ state'[j] # "DELETED" => receipt'[j].state = state'[j]
                    /\ receipt'[j].artifacts = (receipt'[j].state = "COMPLETED")
    BY <1>1, <1>6 DEF Claimed, Terminal, Processing
  <1> QED
    BY <1>2, <1>3, <1>4, <1>5, <1>6, NextRow DEF RowStep

(* Ownership, artifacts and receipts follow the state of the row. *)
THEOREM OutcomeInvariant == Spec => []OutcomeInv
  <1>1. Init => OutcomeInv
    BY DEF Init, OutcomeInv, OwnedOnceClaimed, ArtifactsOfCompleted, ReceiptMatchesOutcome
  <1>2. TypeOK /\ Assigned /\ SnapshotsExact /\ OutcomeInv /\ [Next]_vars => OutcomeInv'
    BY NextOutcome
  <1> QED
    BY <1>1, <1>2, TypeCorrect, SnapshotsStayExact, PTL DEF Spec

(* A receipt exists exactly for the accepted jobs that have ended, and it  *)
(* tells what the row tells.                                                *)
THEOREM ReceiptsTellOutcome == Spec => []ReceiptMatchesOutcome
  BY OutcomeInvariant, PTL DEF OutcomeInv

-----------------------------------------------------------------------------
(* Workers.                                                                 *)

Stages == {"validated", "analysed", "published", "spooling"}

(* How one worker moves in one step. *)
WorkerMove(r) ==
  \/ pc'[r] = pc[r] /\ (pc[r] # "gone" => seen'[r].job = JobOf(r))
  \/ pc'[r] \in {"gone", "starting"}
  \/ /\ seen'[r].job = JobOf(r)
     /\ \/ pc'[r] = "loaded"
        \/ Claim(r)
        \/ /\ Working(r) /\ pc'[r] \notin Stages
           /\ pc'[r] = "clearing" => state[JobOf(r)] = "CANCELLED" \/ Complete(r) \/ Fail(r)
        \/ RecordValidation(r) \/ RecordAnalysis(r) \/ Publish(r) \/ ToSpooling(r)

LEMMA NextWorker ==
  ASSUME TypeOK, Assigned, [Next]_vars, NEW r \in Runs
  PROVE  WorkerMove(r)
  <1> USE DEF TypeOK, WorkerMove, Working
  <1>1. CASE Environment
    BY <1>1 DEF Environment, Submit, Expire, Renew, HeartbeatStops, WorkerCrash, Exit,
                StartManually, Launch, DispatcherCrash, DispatcherForgets
  <1>2. ASSUME NEW c \in Clients, ClientStep(c)
        PROVE  WorkerMove(r)
    BY <1>2 DEF ClientStep, Request, Control, Delete, Refuse, EndRequest
  <1>3. ASSUME NEW q \in Runs \ {r}, WorkerStep(q)
        PROVE  pc'[r] = pc[r] /\ seen'[r] = seen[r]
    BY <1>3 DEF WorkerStep, Load, Claim, ClaimConflict, RenderPage, RenderEnds, Reread, VerifyPage,
                RecordValidation, RecordAnalysis, Publish, SpoolFails, ToSpooling, Complete, Fail,
                WriteConflict, Clear, Exit
  <1>4. CASE Load(r) \/ Reread(r)
    BY <1>4 DEF Load, Reread, Exit, Read, Stages
  <1>5. CASE ClaimConflict(r) \/ WriteConflict(r) \/ Clear(r)
    BY <1>5 DEF ClaimConflict, WriteConflict, Clear, Exit
  <1>6. CASE RenderPage(r) \/ RenderEnds(r) \/ VerifyPage(r) \/ SpoolFails(r) \/ Complete(r) \/ Fail(r)
    BY <1>6 DEF RenderPage, RenderEnds, VerifyPage, SpoolFails, Complete, Fail, Stages
  <1>7. CASE Claim(r) \/ RecordValidation(r) \/ RecordAnalysis(r) \/ Publish(r)
    BY <1>7 DEF Claim, RecordValidation, RecordAnalysis, Publish
  <1>8. CASE ToSpooling(r)
    <2>1. seen[r] # Nothing(NoJob)
      BY <1>8, AllowedFacts DEF ToSpooling, MayMove, Nothing, JobStates
    <2> QED
      BY <1>8, <2>1 DEF ToSpooling, Snapshots
  <1>9. CASE DispatcherStep
    BY <1>9 DEF DispatcherStep, StartDispatcher, RecoverExpired, PickNothing, ChildExited, CheckChild,
                FailChild, FailChildConflict, ClearChild, PickAndSpawn, Launch, EndRound, DispatcherForgets
  <1>10. CASE UNCHANGED vars
    BY <1>10 DEF vars
  <1> QED
    BY <1>1, <1>2, <1>3, <1>4, <1>5, <1>6, <1>7, <1>8, <1>9, <1>10 DEF Next, WorkerStep

LEMMA NextOneWorker ==
  ASSUME TypeOK, Assigned, SnapshotsExact, OwnedOnceClaimed, OneWorkerPerJob, [Next]_vars
  PROVE  OneWorkerPerJob'
  <1> SUFFICES ASSUME NEW r \in Runs, Working(r)'
               PROVE  owner'[seen'[r].job] = r
    BY DEF OneWorkerPerJob
  <1>1. WorkerMove(r)
    BY NextWorker
  <1>2. CASE Working(r) /\ seen'[r].job = JobOf(r)
    <2> DEFINE j == JobOf(r)
    <2>1. j \in Jobs /\ owner[j] = r
      BY <1>2 DEF Assigned, OneWorkerPerJob, Working
    <2>2. RowStep(j)
      BY <2>1, NextRow
    <2>3. state[j] # "QUEUED"
      BY <2>1 DEF OwnedOnceClaimed, Processing, Terminal
    <2> QED
      BY <1>2, <2>1, <2>2, <2>3 DEF RowStep, Kept, Inserted, Deleted, Advanced, Claimed
  <1>3. CASE Claim(r)
    BY <1>3 DEF Claim, Assigned, TypeOK
  <1> QED
    BY <1>1, <1>2, <1>3 DEF WorkerMove, Working, RecordValidation, RecordAnalysis, Publish, ToSpooling

(* Whatever races for a job, one process at most works on it: the owner. *)
THEOREM OneWorkerAtMost == Spec => []OneWorkerPerJob
  <1>1. Init => OneWorkerPerJob
    BY DEF Init, OneWorkerPerJob, Working
  <1>2. TypeOK /\ Assigned /\ SnapshotsExact /\ OutcomeInv /\ OneWorkerPerJob /\ [Next]_vars
          => OneWorkerPerJob'
    BY NextOneWorker DEF OutcomeInv
  <1> QED
    BY <1>1, <1>2, TypeCorrect, SnapshotsStayExact, OutcomeInvariant, PTL DEF Spec

-----------------------------------------------------------------------------
(* Evidence.                                                                *)

(* Evidence is never taken back, and pages are verified only by the worker *)
(* that owns the job.                                                       *)
LEMMA EvidenceGrows ==
  ASSUME TypeOK, Assigned, [Next]_vars, NEW j \in Jobs
  PROVE  /\ j \in raster => j \in raster'
         /\ j \in analysed => j \in analysed'
         /\ validation'[j] = validation[j] \/ validation[j] = NoRun
         /\ \/ verified'[j] = verified[j]
            \/ /\ state[j] = "RIPPING"
               /\ \E r \in Runs : pc[r] = "verifying" /\ JobOf(r) = j /\ VerifyPage(r)
  <1> USE DEF TypeOK
  <1>1. CASE Environment
    BY <1>1 DEF Environment, Submit, Expire, Renew, HeartbeatStops, WorkerCrash,
                StartManually, DispatcherCrash
  <1>2. ASSUME NEW c \in Clients, ClientStep(c)
        PROVE  UNCHANGED <<raster, analysed, validation, verified>>
    BY <1>2 DEF ClientStep, Request, Control, Delete, Refuse, EndRequest
  <1>3. ASSUME NEW r \in Runs, VerifyPage(r)
        PROVE  /\ UNCHANGED <<raster, analysed, validation>>
               /\ \/ verified'[j] = verified[j]
                  \/ state[j] = "RIPPING" /\ pc[r] = "verifying" /\ JobOf(r) = j
    BY <1>3 DEF VerifyPage, Holds
  <1>4. ASSUME NEW r \in Runs, RecordValidation(r) \/ RecordAnalysis(r) \/ Publish(r)
        PROVE  /\ j \in raster => j \in raster'
               /\ j \in analysed => j \in analysed'
               /\ validation'[j] = validation[j] \/ validation[j] = NoRun
               /\ verified' = verified
    BY <1>4 DEF RecordValidation, RecordAnalysis, Publish
  <1>5. ASSUME NEW r \in Runs, WorkerStep(r),
               ~(VerifyPage(r) \/ RecordValidation(r) \/ RecordAnalysis(r) \/ Publish(r))
        PROVE  UNCHANGED <<raster, analysed, validation, verified>>
    BY <1>5 DEF WorkerStep, Load, Claim, ClaimConflict, RenderPage, RenderEnds, Reread,
                SpoolFails, ToSpooling, Complete, Fail, WriteConflict, Clear
  <1>6. CASE DispatcherStep
    BY <1>6 DEF DispatcherStep, StartDispatcher, RecoverExpired, PickNothing, ChildExited, CheckChild,
                FailChild, FailChildConflict, ClearChild, PickAndSpawn
  <1>7. CASE UNCHANGED vars
    BY <1>7 DEF vars
  <1> QED
    BY <1>1, <1>2, <1>3, <1>4, <1>5, <1>6, <1>7 DEF Next, WorkerStep

Evidenced(r, j, stage) ==
  /\ stage \in Stages => validation[j] = r /\ verified[j] = Pages[j]
  /\ stage \in {"analysed", "published", "spooling"} => j \in analysed
  /\ stage \in {"published", "spooling"} => j \in raster

LEMMA NextEvidence ==
  ASSUME TypeOK, Assigned, OneWorkerPerJob, EvidenceInOrder, [Next]_vars
  PROVE  EvidenceInOrder'
  <1> SUFFICES ASSUME NEW r \in Runs, pc'[r] \in Stages
               PROVE  Evidenced(r, JobOf(r), pc[r])'
    BY DEF EvidenceInOrder, Evidenced, Stages
  <1>1. WorkerMove(r)
    BY NextWorker
  <1>2. ASSUME NEW j \in Jobs, j = JobOf(r), NEW stage, Working(r), pc[r] # "verifying",
               Evidenced(r, j, stage)
        PROVE  /\ stage \in Stages => validation'[j] = r /\ verified'[j] = Pages[j]
               /\ stage \in {"analysed", "published", "spooling"} => j \in analysed'
               /\ stage \in {"published", "spooling"} => j \in raster'
    <2>1. \A q \in Runs : pc[q] = "verifying" /\ JobOf(q) = j => q = r
      BY <1>2 DEF OneWorkerPerJob, Working
    <2> QED
      BY <1>2, <2>1, EvidenceGrows DEF Evidenced, Stages
  <1>3. CASE pc'[r] = pc[r]
    <2>1. JobOf(r) \in Jobs /\ seen'[r].job = JobOf(r) /\ Working(r) /\ pc[r] # "verifying"
      BY <1>1, <1>3 DEF Assigned, Stages, Working, WorkerMove, Claim, RecordValidation, RecordAnalysis,
                        Publish, ToSpooling, TypeOK
    <2>2. Evidenced(r, JobOf(r), pc[r])
      BY DEF EvidenceInOrder, Evidenced, Stages
    <2> QED
      BY <1>2, <1>3, <2>1, <2>2 DEF Evidenced
  <1>4. CASE RecordValidation(r) /\ seen'[r].job = JobOf(r)
    BY <1>4 DEF RecordValidation, Assigned, Evidenced, TypeOK
  <1>5. CASE RecordAnalysis(r) /\ seen'[r].job = JobOf(r)
    BY <1>5 DEF RecordAnalysis, Assigned, EvidenceInOrder, Evidenced, TypeOK
  <1>6. CASE Publish(r) /\ seen'[r].job = JobOf(r)
    BY <1>6 DEF Publish, Assigned, EvidenceInOrder, Evidenced, TypeOK
  <1>7. CASE ToSpooling(r) /\ seen'[r].job = JobOf(r)
    BY <1>7 DEF ToSpooling, Assigned, EvidenceInOrder, Evidenced, TypeOK
  <1> QED
    BY <1>1, <1>3, <1>4, <1>5, <1>6, <1>7 DEF WorkerMove, Claim, Stages, TypeOK

EvidenceInv == OneWorkerPerJob /\ EvidenceInOrder /\ CompletedIsPublished

LEMMA NextCompleted ==
  ASSUME TypeOK, Assigned, SnapshotsExact, EvidenceInv, [Next]_vars
  PROVE  CompletedIsPublished'
  <1> USE DEF EvidenceInv
  <1> SUFFICES ASSUME NEW j \in Jobs, state'[j] = "COMPLETED"
               PROVE  /\ j \in raster' /\ j \in artifacts' /\ j \in analysed'
                      /\ owner'[j] # NoRun /\ validation'[j] = owner'[j]
                      /\ verified'[j] = Pages[j]
    BY DEF CompletedIsPublished
  <1>1. CASE state'[j] = state[j] /\ Kept(j)
    BY <1>1, EvidenceGrows DEF Kept, CompletedIsPublished
  <1>2. CASE Advanced(j)
    <2>1. PICK r \in Runs : pc[r] = "spooling" /\ JobOf(r) = j
      BY <1>2 DEF Advanced
    <2>2. owner[j] = r /\ validation[j] = r /\ verified[j] = Pages[j] /\ j \in analysed /\ j \in raster
      BY <2>1 DEF OneWorkerPerJob, Working, EvidenceInOrder
    <2>3. state[j] # "RIPPING"
      BY <1>2, AllowedFacts DEF Advanced
    <2> QED
      BY <1>2, <2>2, <2>3, EvidenceGrows DEF Advanced
  <1> QED
    BY <1>1, <1>2, NextRow DEF RowStep, Inserted, Deleted, Claimed

(* COMPLETED is never said without the evidence and the published raster. *)
THEOREM CompletedMeansPublished == Spec => []CompletedIsPublished
  <1>1. Init => EvidenceInv
    BY DEF Init, EvidenceInv, OneWorkerPerJob, Working, EvidenceInOrder, CompletedIsPublished
  <1>2. TypeOK /\ Assigned /\ SnapshotsExact /\ OutcomeInv /\ EvidenceInv /\ [Next]_vars => EvidenceInv'
    BY NextOneWorker, NextEvidence, NextCompleted DEF EvidenceInv, OutcomeInv
  <1>3. Spec => []EvidenceInv
    BY <1>1, <1>2, TypeCorrect, SnapshotsStayExact, OutcomeInvariant, PTL DEF Spec
  <1> QED
    BY <1>3, PTL DEF EvidenceInv

-----------------------------------------------------------------------------
(* Leases and reconciliation.                                               *)

LEMMA GoneStays ==
  ASSUME TypeOK, [Next]_vars, NEW r \in Runs, pc[r] = "gone", ~Fresh(r)
  PROVE  pc'[r] = "gone"
  <1> USE DEF TypeOK
  <1>1. CASE Environment
    BY <1>1 DEF Environment, Submit, Expire, Renew, HeartbeatStops, WorkerCrash, Exit,
                StartManually, Launch, DispatcherCrash
  <1>2. ASSUME NEW c \in Clients, ClientStep(c)
        PROVE  pc'[r] = "gone"
    BY <1>2 DEF ClientStep, Request, Control, Delete, Refuse, EndRequest
  <1>3. ASSUME NEW q \in Runs, WorkerStep(q)
        PROVE  pc'[r] = "gone"
    BY <1>3 DEF WorkerStep, Load, Claim, ClaimConflict, RenderPage, RenderEnds, Reread, VerifyPage,
                RecordValidation, RecordAnalysis, Publish, SpoolFails, ToSpooling, Complete, Fail,
                WriteConflict, Clear, Exit
  <1>4. CASE DispatcherStep
    BY <1>4 DEF DispatcherStep, StartDispatcher, RecoverExpired, PickNothing, ChildExited, CheckChild,
                FailChild, FailChildConflict, ClearChild, PickAndSpawn, Launch
  <1>5. CASE UNCHANGED vars
    BY <1>5 DEF vars
  <1> QED
    BY <1>1, <1>2, <1>3, <1>4, <1>5 DEF Next

(* How the dispatcher moves in one step. *)
DispatcherMove ==
  \/ UNCHANGED <<dpc, child>> /\ seen'[Dispatcher] = seen[Dispatcher]
  \/ dpc' \notin {"check", "fail", "clear"}
  \/ ChildExited \/ CheckChild \/ FailChild \/ FailChildConflict

LEMMA NextDispatcher ==
  ASSUME TypeOK, [Next]_vars
  PROVE  DispatcherMove
  <1> USE DEF TypeOK, DispatcherMove
  <1>1. CASE Environment
    BY <1>1 DEF Environment, Submit, Expire, Renew, HeartbeatStops, WorkerCrash, Exit,
                StartManually, DispatcherCrash
  <1>2. ASSUME NEW c \in Clients, ClientStep(c)
        PROVE  DispatcherMove
    BY <1>2 DEF ClientStep, Request, Control, Delete, Refuse, EndRequest
  <1>3. ASSUME NEW r \in Runs, WorkerStep(r)
        PROVE  DispatcherMove
    BY <1>3 DEF WorkerStep, Load, Claim, ClaimConflict, RenderPage, RenderEnds, Reread, VerifyPage,
                RecordValidation, RecordAnalysis, Publish, SpoolFails, ToSpooling, Complete, Fail,
                WriteConflict, Clear, Exit
  <1>4. CASE DispatcherStep
    BY <1>4 DEF DispatcherStep, StartDispatcher, RecoverExpired, PickNothing, ClearChild, EndRound, PickAndSpawn
  <1>5. CASE UNCHANGED vars
    BY <1>5 DEF vars
  <1> QED
    BY <1>1, <1>2, <1>3, <1>4, <1>5 DEF Next

(* The strengthening: what the reconciliation and every clearing of a      *)
(* lease rest on.                                                           *)
LeaseInv == ClearsOnlyEnded /\ ReconcilesTheDead /\ NoStrandedJob /\ WorkerExitIsTrue

LEMMA EndedStays ==
  ASSUME TypeOK, Assigned, SnapshotsExact, [Next]_vars, NEW j \in Jobs,
         state[j] \in Terminal \cup {"DELETED"}
  PROVE  state'[j] \in Terminal \cup {"DELETED"}
  <1>1. ~Advanced(j)
    BY AllowedFacts DEF Advanced, JobStates
  <1> QED
    BY <1>1, NextRow DEF RowStep, Inserted, Deleted, Claimed, Terminal

LEMMA NextReconciles ==
  ASSUME TypeOK, Assigned, SnapshotsExact, OwnedOnceClaimed, OneWorkerPerJob,
         ReconcilesTheDead, [Next]_vars
  PROVE  ReconcilesTheDead'
  <1>1. CASE UNCHANGED <<dpc, child>> /\ seen'[Dispatcher] = seen[Dispatcher]
    <2> DEFINE j == JobOf(Dispatcher)
    <2>1. dpc \in {"check", "fail"} => child \in Runs /\ pc[child] = "gone" /\ j \in Jobs
      BY DEF ReconcilesTheDead, Assigned
    <2>2. dpc \in {"check", "fail"} => pc'[child] = "gone"
      BY <2>1, GoneStays DEF Fresh
    <2>3. ASSUME dpc = "fail"
          PROVE  /\ owner'[j] = child
                 /\ state'[j] \in Processing => revision'[j] = seen[Dispatcher].revision
      <3>1. /\ j \in Jobs /\ child \in Runs /\ pc[child] = "gone" /\ owner[j] = child
            /\ state[j] \in Processing => revision[j] = seen[Dispatcher].revision
        BY <2>1, <2>3 DEF ReconcilesTheDead
      <3>2. state[j] # "QUEUED"
        BY <3>1 DEF OwnedOnceClaimed, Processing, Terminal
      <3>3. ~\E r \in Runs : pc[r] = "published" /\ JobOf(r) = j
        BY <3>1 DEF OneWorkerPerJob, Working
      <3> QED
        BY <3>1, <3>2, <3>3, NextRow
           DEF RowStep, Kept, Inserted, Deleted, Advanced, Claimed, Processing
    <2> QED
      BY <1>1, <2>2, <2>3 DEF ReconcilesTheDead
  <1>2. CASE dpc' \notin {"check", "fail"}
    BY <1>2 DEF ReconcilesTheDead
  <1>3. CASE ChildExited
    BY <1>3 DEF ChildExited, ChildGone, ReconcilesTheDead
  <1>4. CASE CheckChild
    BY <1>4 DEF CheckChild, ChildOwns, ReconcilesTheDead, EndRound, DispatcherForgets, Read, TypeOK
  <1>5. CASE FailChild \/ FailChildConflict
    BY <1>5 DEF FailChild, FailChildConflict, ReconcilesTheDead
  <1> QED
    BY <1>1, <1>2, <1>3, <1>4, <1>5, NextDispatcher DEF DispatcherMove

LEMMA NextClears ==
  ASSUME TypeOK, Assigned, SnapshotsExact, OwnedOnceClaimed, ReconcilesTheDead,
         ClearsOnlyEnded, [Next]_vars
  PROVE  ClearsOnlyEnded'
  <1> DEFINE Ended(s) == s \in Terminal \cup {"DELETED"}
  <1>1. ASSUME NEW r \in Runs, pc'[r] = "clearing"
        PROVE  Ended(state'[seen'[r].job])
    <2>1. WorkerMove(r)
      BY NextWorker
    <2>2. CASE pc[r] = "clearing" /\ seen'[r].job = JobOf(r)
      BY <2>2, EndedStays DEF ClearsOnlyEnded, Assigned
    <2>3. CASE state[JobOf(r)] = "CANCELLED" /\ pc[r] # "gone" /\ seen'[r].job = JobOf(r)
      BY <2>3, EndedStays DEF Assigned, Terminal
    <2>4. CASE Complete(r)
      <3>1. JobOf(r) \in Jobs /\ state' = [state EXCEPT ![JobOf(r)] = "COMPLETED"]
        BY <2>4, MoveFacts DEF Complete, CanComplete
      <3> QED
        BY <2>4, <3>1 DEF Complete, Terminal, TypeOK
    <2>5. CASE Fail(r)
      <3>1. JobOf(r) \in Jobs /\ state' = [state EXCEPT ![JobOf(r)] = "FAILED"]
        BY <2>5, MoveFacts DEF Fail
      <3> QED
        BY <2>5, <3>1 DEF Fail, Terminal, TypeOK
    <2> QED
      BY <1>1, <2>1, <2>2, <2>3, <2>4, <2>5 DEF WorkerMove, Working, TypeOK, Claim, RecordValidation,
         RecordAnalysis, Publish, ToSpooling
  <1>2. ASSUME dpc' = "clear"
        PROVE  Ended(state'[seen'[Dispatcher].job])
    <2> DEFINE j == JobOf(Dispatcher)
    <2>1. CASE UNCHANGED dpc /\ seen'[Dispatcher] = seen[Dispatcher]
      BY <1>2, <2>1, EndedStays DEF ClearsOnlyEnded, Assigned
    <2>2. CASE ChildExited
      BY <1>2, <2>2 DEF ChildExited
    <2>3. CASE CheckChild
      <3>1. /\ j \in Jobs /\ child \in Runs /\ owner[j] = child /\ state[j] \notin Processing
            /\ state' = state /\ seen'[Dispatcher].job = j
        BY <1>2, <2>3 DEF CheckChild, ChildOwns, Assigned, EndRound, Read, TypeOK
      <3> QED
        BY <3>1 DEF OwnedOnceClaimed
    <2>4. CASE FailChild
      <3>1. j \in Jobs /\ state' = [state EXCEPT ![j] = "FAILED"]
        BY <2>4, MoveFacts DEF FailChild
      <3>2. seen[Dispatcher] # Nothing(NoJob)
        BY <2>4, AllowedFacts DEF FailChild, MayMove, Nothing, JobStates
      <3>3. seen'[Dispatcher].job = j
        BY <2>4, <3>2 DEF FailChild, TypeOK, Snapshots
      <3> QED
        BY <3>1, <3>3 DEF Terminal, TypeOK
    <2>5. CASE FailChildConflict
      <3>1. /\ Exists(j) /\ ~MayMove(Dispatcher, "FAILED") /\ dpc = "fail"
            /\ state' = state /\ seen'[Dispatcher].job = j
        BY <1>2, <2>5 DEF FailChildConflict, Read, TypeOK
      <3>2. j \in Jobs /\ child \in Runs /\ owner[j] = child /\ seen[Dispatcher].state \in Processing
        BY <3>1 DEF Assigned, ReconcilesTheDead
      <3>3. Allowed(seen[Dispatcher].state, "FAILED")
        BY <3>2 DEF Allowed, JobStates, Terminal, Processing
      <3>4. state[j] \notin Processing
        BY <3>1, <3>3 DEF MayMove, RevisionMatches, ReconcilesTheDead
      <3> QED
        BY <3>1, <3>2, <3>4 DEF OwnedOnceClaimed
    <2> QED
      BY <1>2, <2>1, <2>2, <2>3, <2>4, <2>5, NextDispatcher DEF DispatcherMove
  <1> QED
    BY <1>1, <1>2 DEF ClearsOnlyEnded

(* All that can happen to a lease in one step. *)
LeaseStep(j) ==
  \/ lease'[j] = lease[j]
  \/ \E r \in Runs : Claim(r) /\ JobOf(r) = j
  \/ \E r \in Runs : pc[r] = "clearing" /\ JobOf(r) = j
  \/ dpc = "clear" /\ JobOf(Dispatcher) = j
  \/ RecoverExpired /\ j \in ExpiredLeases

LEMMA NextLease ==
  ASSUME TypeOK, [Next]_vars, NEW j \in Jobs
  PROVE  LeaseStep(j)
  <1> USE DEF TypeOK, LeaseStep
  <1>1. CASE Environment
    BY <1>1 DEF Environment, Submit, Expire, Renew, HeartbeatStops, WorkerCrash,
                StartManually, DispatcherCrash
  <1>2. ASSUME NEW c \in Clients, ClientStep(c)
        PROVE  lease' = lease
    BY <1>2 DEF ClientStep, Request, Control, Delete, Refuse, EndRequest
  <1>3. ASSUME NEW r \in Runs, Claim(r) \/ Clear(r)
        PROVE  LeaseStep(j)
    BY <1>3 DEF Claim, Clear, ClearLease
  <1>4. ASSUME NEW r \in Runs, WorkerStep(r), ~(Claim(r) \/ Clear(r))
        PROVE  lease' = lease
    BY <1>4 DEF WorkerStep, Load, ClaimConflict, RenderPage, RenderEnds, Reread, VerifyPage,
                RecordValidation, RecordAnalysis, Publish, SpoolFails, ToSpooling, Complete, Fail,
                WriteConflict
  <1>5. CASE RecoverExpired \/ ClearChild
    BY <1>5 DEF RecoverExpired, ClearChild, ClearLease
  <1>6. CASE DispatcherStep /\ ~(RecoverExpired \/ ClearChild)
    BY <1>6 DEF DispatcherStep, StartDispatcher, PickNothing, ChildExited, CheckChild,
                FailChild, FailChildConflict, PickAndSpawn
  <1>7. CASE UNCHANGED vars
    BY <1>7 DEF vars
  <1> QED
    BY <1>1, <1>2, <1>3, <1>4, <1>5, <1>6, <1>7 DEF Next

LEMMA NextStranded ==
  ASSUME TypeOK, Assigned, SnapshotsExact, ClearsOnlyEnded, NoStrandedJob, [Next]_vars
  PROVE  NoStrandedJob'
  <1> SUFFICES ASSUME NEW j \in Jobs, state'[j] \in Processing
               PROVE  owner'[j] # NoRun /\ lease'[j] = owner'[j]
    BY DEF NoStrandedJob
  <1>1. CASE \E r \in Runs : Claimed(r, j)
    BY <1>1 DEF Claimed, Claim, TypeOK
  <1>2. CASE state[j] \in Processing /\ owner'[j] = owner[j]
    <2>1. owner[j] # NoRun /\ lease[j] = owner[j] /\ state[j] \notin Terminal \cup {"DELETED"}
      BY <1>2 DEF NoStrandedJob, Processing, Terminal
    <2>2. CASE RecoverExpired /\ j \in ExpiredLeases
      BY <2>1, <2>2 DEF RecoverExpired, Lost, Processing
    <2>3. ASSUME NEW r \in Runs, Claim(r), JobOf(r) = j
          PROVE  owner'[j] # NoRun /\ lease'[j] = owner'[j]
      BY <2>3 DEF Claim, TypeOK
    <2> QED
      BY <1>2, <2>1, <2>2, <2>3, NextLease DEF LeaseStep, ClearsOnlyEnded
  <1>3. CASE Advanced(j)
    BY <1>2, <1>3, AllowedFacts DEF Advanced
  <1> QED
    BY <1>1, <1>2, <1>3, NextRow DEF RowStep, Kept, Inserted, Deleted, Processing

LEMMA NextWorkerExit ==
  ASSUME TypeOK, Assigned, SnapshotsExact, ReconcilesTheDead, WorkerExitIsTrue, [Next]_vars
  PROVE  WorkerExitIsTrue'
  <1> SUFFICES ASSUME NEW j \in Jobs, error'[j] = "WORKER_EXIT"
               PROVE  owner'[j] # NoRun /\ pc'[owner'[j]] = "gone"
    BY DEF WorkerExitIsTrue
  <1>1. ~\E r \in Runs : Claimed(r, j)
    BY DEF Claimed
  <1>2. owner'[j] = owner[j]
    BY <1>1, NextRow DEF RowStep, Kept, Inserted, Deleted, Advanced
  <1>3. owner[j] \in Runs /\ pc[owner[j]] = "gone"
    <2>1. CASE error[j] = "WORKER_EXIT"
      BY <2>1 DEF WorkerExitIsTrue, TypeOK
    <2>2. CASE error[j] # "WORKER_EXIT"
      <3>1. j = JobOf(Dispatcher) /\ dpc = "fail"
        BY <1>1, <2>2, NextRow DEF RowStep, Kept, Inserted, Deleted, Advanced
      <3> QED
        BY <3>1 DEF ReconcilesTheDead, Assigned
    <2> QED
      BY <2>1, <2>2
  <1>4. ~Fresh(owner[j])
    BY DEF Fresh
  <1> QED
    BY <1>2, <1>3, <1>4, GoneStays

LEMMA NextLeaseInv ==
  ASSUME TypeOK, Assigned, SnapshotsExact, OutcomeInv, OneWorkerPerJob, LeaseInv, [Next]_vars
  PROVE  LeaseInv'
  <1>1. /\ ClearsOnlyEnded /\ ReconcilesTheDead /\ NoStrandedJob /\ WorkerExitIsTrue
        /\ OwnedOnceClaimed
    BY DEF LeaseInv, OutcomeInv
  <1>2. ClearsOnlyEnded'
    BY <1>1, NextClears
  <1>3. ReconcilesTheDead'
    BY <1>1, NextReconciles
  <1>4. NoStrandedJob' /\ WorkerExitIsTrue'
    BY <1>1, NextStranded, NextWorkerExit
  <1> QED
    BY <1>2, <1>3, <1>4 DEF LeaseInv

(* Leases and reconciliation hold each other up: a lease is cleared only   *)
(* of a job that has ended, because the dispatcher reconciles only the dead *)
(* and whoever clears has ended the job first.                              *)
THEOREM LeaseInvariant == Spec => []LeaseInv
  <1>1. Init => LeaseInv
    BY DEF Init, LeaseInv, ClearsOnlyEnded, ReconcilesTheDead, NoStrandedJob, WorkerExitIsTrue,
           Processing
  <1>2. TypeOK /\ Assigned /\ SnapshotsExact /\ OutcomeInv /\ OneWorkerPerJob /\ LeaseInv /\ [Next]_vars
          => LeaseInv'
    BY NextLeaseInv
  <1> QED
    BY <1>1, <1>2, TypeCorrect, SnapshotsStayExact, OutcomeInvariant, OneWorkerAtMost, PTL DEF Spec

(* No crash, expiry, conflict or recovery leaves a job in RIPPING or       *)
(* SPOOLING without the lease by which recovery will find it.               *)
THEOREM NoJobStranded == Spec => []NoStrandedJob
  BY LeaseInvariant, PTL DEF LeaseInv

(* A job that failed with WORKER_EXIT has no worker any more. *)
THEOREM WorkerExitIsTold == Spec => []WorkerExitIsTrue
  BY LeaseInvariant, PTL DEF LeaseInv

-----------------------------------------------------------------------------
(* Refinement.                                                              *)

(* The row a step of one process writes. *)
OthersKept(j) ==
  \A k \in Jobs \ {j} :
    /\ state'[k] = state[k] /\ receipt'[k] = receipt[k]
    /\ k \in accepted' <=> k \in accepted

LEMMA OneRowAtATime ==
  ASSUME TypeOK, Assigned, SnapshotsExact, [Next]_vars
  PROVE  \/ UNCHANGED <<state, receipt, accepted>>
         \/ \E j \in Jobs : OthersKept(j)
         \/ RecoverExpired
  <1>1. ASSUME NEW j \in Jobs, Submit(j)
        PROVE  OthersKept(j)
    BY <1>1 DEF Submit, TypeOK, OthersKept
  <1>2. ASSUME NEW a \in Actors, NEW next \in JobStates, NEW err \in Errors, Moved(a, next, err)
        PROVE  JobOf(a) \in Jobs /\ OthersKept(JobOf(a))
    <2>1. JobOf(a) \in Jobs
      BY <1>2, MoveFacts DEF Moved
    <2> QED
      BY <1>2, <2>1 DEF Moved, Move, ReceiptsAfter, TypeOK, OthersKept
  <1>3. ASSUME NEW r \in Runs, Claim(r)
        PROVE  JobOf(r) \in Jobs /\ OthersKept(JobOf(r))
    BY <1>3 DEF Claim, Assigned, TypeOK, OthersKept
  <1>4. ASSUME NEW c \in Clients, Delete(c)
        PROVE  JobOf(c) \in Jobs /\ OthersKept(JobOf(c))
    BY <1>4 DEF Delete, EndRequest, Assigned, TypeOK, OthersKept
  <1> QED
    BY <1>1, <1>2, <1>3, <1>4, RowSteps

(* What one row's step is to the submitter of its job. *)
Stutters(j) ==
  /\ Phase'[j] = Phase[j] /\ Recorded'[j] = Recorded[j]
  /\ j \in accepted' <=> j \in accepted
Waits(j) ==
  /\ Phase[j] = "absent" /\ Phase'[j] = "waiting" /\ Recorded'[j] = Recorded[j]
  /\ j \in accepted => j \in accepted'
GoesOn(j) ==
  /\ accepted' = accepted /\ Recorded'[j] = Recorded[j]
  /\ \/ Phase[j] = "waiting" /\ Phase'[j] = "running"
     \/ Phase[j] \in Terminal /\ Phase'[j] = "removed"
Ends(j) ==
  /\ accepted' = accepted /\ Phase'[j] \in Terminal
  /\ Phase[j] = "running" \/ (Phase[j] = "waiting" /\ Phase'[j] # "COMPLETED")
  /\ Recorded'[j] = IF j \in accepted THEN Phase'[j] ELSE Recorded[j]

LEMMA OneRowStep ==
  ASSUME TypeOK, Assigned, SnapshotsExact, OutcomeInv, [Next]_vars, NEW j \in Jobs
  PROVE  Stutters(j) \/ Waits(j) \/ GoesOn(j) \/ Ends(j)
  <1> USE DEF Phase, PhaseOf, Recorded
  <1>1. CASE state'[j] = state[j] /\ Kept(j) /\ (j \in accepted' <=> j \in accepted)
    BY <1>1 DEF Kept, Stutters
  <1>2. CASE Inserted(j)
    BY <1>2 DEF Inserted, Kept, Waits, Processing, Terminal
  <1>3. CASE Deleted(j)
    BY <1>3 DEF Deleted, Kept, GoesOn, Processing, Terminal
  <1>4. CASE \E r \in Runs : Claimed(r, j)
    BY <1>4 DEF Claimed, GoesOn, Processing, Terminal
  <1>5. CASE Advanced(j)
    <2>1. /\ state[j] \in JobStates \ Terminal /\ state'[j] \in JobStates
          /\ state[j] \in Processing => state'[j] \in Processing \cup Terminal
          /\ state'[j] \in Processing => state[j] \in Processing
          /\ state'[j] = "COMPLETED" => state[j] \in Processing
      BY <1>5, AllowedFacts DEF Advanced
    <2>2. CASE state'[j] \in Terminal
      <3>1. (receipt'[j] # NoReceipt) <=> j \in accepted
        BY <1>5, <2>2, NextOutcome DEF Advanced, OutcomeInv, ReceiptMatchesOutcome
      <3>2. receipt'[j] = IF j \in accepted
                          THEN [state |-> state'[j], revision |-> revision'[j],
                                artifacts |-> j \in artifacts']
                          ELSE receipt[j]
        BY <1>5, <2>2 DEF Advanced
      <3> QED
        BY <1>5, <2>1, <2>2, <3>1, <3>2 DEF Advanced, Ends, JobStates, Processing, Terminal
    <2>3. CASE state'[j] \notin Terminal
      BY <1>5, <2>1, <2>3 DEF Advanced, Stutters, JobStates, Processing, Terminal
    <2> QED
      BY <2>2, <2>3
  <1> QED
    BY <1>1, <1>2, <1>3, <1>4, <1>5, NextRow DEF RowStep

LEMMA LifecycleStep ==
  ASSUME TypeOK, Assigned, SnapshotsExact, OutcomeInv, [Next]_vars
  PROVE  [Lifecycle!Next]_(Lifecycle!lifecycleVars)
  <1> USE DEF Lifecycle!lifecycleVars
  <1>1. CASE UNCHANGED <<state, receipt, accepted>>
    BY <1>1 DEF Phase, Recorded
  <1>2. ASSUME NEW j \in Jobs, OthersKept(j)
        PROVE  [Lifecycle!Next]_(Lifecycle!lifecycleVars)
    <2>1. /\ DOMAIN Phase = Jobs /\ DOMAIN Phase' = Jobs
          /\ DOMAIN Recorded = Jobs /\ DOMAIN Recorded' = Jobs
          /\ Phase = [k \in Jobs |-> Phase[k]] /\ Phase' = [k \in Jobs |-> Phase'[k]]
          /\ Recorded = [k \in Jobs |-> Recorded[k]] /\ Recorded' = [k \in Jobs |-> Recorded'[k]]
      BY DEF Phase, Recorded
    <2>2. \A k \in Jobs \ {j} : /\ Phase'[k] = Phase[k] /\ Recorded'[k] = Recorded[k]
                                /\ k \in accepted' <=> k \in accepted
      BY <1>2 DEF OthersKept, Phase, Recorded
    <2>3. accepted \subseteq Jobs /\ accepted' \subseteq Jobs
      BY NextType DEF TypeOK
    <2>4. CASE Stutters(j)
      <3>1. accepted' = accepted
        BY <2>2, <2>3, <2>4 DEF Stutters
      <3>2. Phase' = Phase /\ Recorded' = Recorded
        BY <2>1, <2>2, <2>4 DEF Stutters
      <3> QED
        BY <3>1, <3>2
    <2>5. CASE Waits(j)
      <3>1. accepted' \in {accepted, accepted \cup {j}}
        BY <2>2, <2>3, <2>5 DEF Waits
      <3>2. Phase' = [Phase EXCEPT ![j] = "waiting"] /\ Recorded' = Recorded
        BY <2>1, <2>2, <2>5 DEF Waits
      <3>3. Lifecycle!Submit(j)
        BY <2>5, <3>1, <3>2 DEF Waits, Lifecycle!Submit
      <3> QED
        BY <3>3 DEF Lifecycle!Next
    <2>6. CASE GoesOn(j)
      <3>1. Phase' = [Phase EXCEPT ![j] = Phase'[j]] /\ Recorded' = Recorded
        BY <2>1, <2>2, <2>6 DEF GoesOn
      <3>2. Lifecycle!Start(j) \/ Lifecycle!Remove(j)
        BY <2>6, <3>1 DEF GoesOn, Lifecycle!Start, Lifecycle!Remove, Lifecycle!Outcomes, Terminal
      <3> QED
        BY <3>2 DEF Lifecycle!Next
    <2>7. CASE Ends(j)
      <3>1. /\ Phase' = [k \in Jobs |-> IF k \in {j} THEN Phase'[j] ELSE Phase[k]]
            /\ Recorded' = [k \in Jobs |-> IF k \in {j} \cap accepted THEN Phase'[j] ELSE Recorded[k]]
        BY <2>1, <2>2, <2>7 DEF Ends
      <3>2. Lifecycle!End({j}, Phase'[j])
        BY <2>7, <3>1 DEF Ends, Lifecycle!End
      <3>3. Phase'[j] \in Lifecycle!Outcomes /\ {j} \in SUBSET Jobs
        BY <2>7 DEF Ends, Terminal, Lifecycle!Outcomes
      <3> QED
        BY <3>2, <3>3 DEF Lifecycle!Next
    <2> QED
      BY <2>4, <2>5, <2>6, <2>7, OneRowStep
  <1>3. CASE RecoverExpired
    <2> DEFINE lost == {j \in ExpiredLeases : Lost(j)}
    <2>1. lost \in SUBSET Jobs /\ accepted' = accepted
      BY <1>3 DEF ExpiredLeases, RecoverExpired
    <2>2. \A j \in lost : Phase[j] \in {"running", "waiting"}
      BY DEF ExpiredLeases, Exists, Lost, Phase, PhaseOf, JobStates
    <2>3. Phase' = [j \in Jobs |-> IF j \in lost THEN "FAILED" ELSE Phase[j]]
      BY <1>3 DEF RecoverExpired, Phase, PhaseOf, Processing, Terminal
    <2>4. \A j \in lost \cap accepted : receipt'[j] # NoReceipt
      BY <1>3, <2>1, NextOutcome DEF OutcomeInv, ReceiptMatchesOutcome, RecoverExpired, Terminal
    <2>5. Recorded' = [j \in Jobs |-> IF j \in lost \cap accepted THEN "FAILED" ELSE Recorded[j]]
      BY <1>3, <2>1, <2>4 DEF RecoverExpired, ReceiptsAfter, Recorded, Terminal
    <2>6. Lifecycle!End(lost, "FAILED")
      BY <2>1, <2>2, <2>3, <2>5 DEF Lifecycle!End
    <2> QED
      BY <2>1, <2>6 DEF Lifecycle!Next, Lifecycle!Outcomes
  <1> QED
    BY <1>1, <1>2, <1>3, OneRowAtATime

(* What a submitter sees of the queue is a behaviour of JobLifecycle: a job *)
(* runs at most once, ends at most once, and its receipt appears with its   *)
(* outcome, whatever the processes below do.                                *)
THEOREM QueueKeepsLifecycle == Spec => KeepsLifecycle
  <1>1. Init => Lifecycle!Init
    <2> SUFFICES ASSUME Init PROVE Lifecycle!Init
      OBVIOUS
    <2>1. Phase = [j \in Jobs |-> "absent"]
      <3>1. \A j \in Jobs : state[j] = "ABSENT"
        BY DEF Init
      <3>2. PhaseOf("ABSENT") = "absent"
        BY DEF PhaseOf, Processing, Terminal
      <3> QED
        BY <3>1, <3>2 DEF Phase
    <2>2. Recorded = [j \in Jobs |-> "none"] /\ accepted = {}
      BY DEF Init, Recorded
    <2> QED
      BY <2>1, <2>2 DEF Lifecycle!Init
  <1>2. TypeOK /\ Assigned /\ SnapshotsExact /\ OutcomeInv /\ [Next]_vars
          => [Lifecycle!Next]_(Lifecycle!lifecycleVars)
    BY LifecycleStep
  <1> QED
    BY <1>1, <1>2, TypeCorrect, SnapshotsStayExact, OutcomeInvariant, PTL
       DEF Spec, KeepsLifecycle, Lifecycle!Safety
=============================================================================
