--------------------------- MODULE PipelineProofs ---------------------------
(* Proofs about follow-on pipelines, for any number of pipelines, workers,  *)
(* cancel requests, approvals, failing reads and crashes, and any length of *)
(* a pass.                                                                  *)
EXTENDS Pipeline, TLAPS

-----------------------------------------------------------------------------
(* What advance does, whichever way it returns                              *)

StartsColor(w) ==
  LET p == value[w].id IN
  /\ job[p] = "COMPLETED" /\ p \in Colored /\ color[p] = "NONE"
  /\ color' = [color EXCEPT ![p] = "QUEUED"]
  /\ delivery' = delivery

StartsDelivery(w) ==
  LET p == value[w].id IN
  /\ ReadyToPrint(p) /\ Approved(value[w]) /\ delivery[p] = "NONE"
  /\ delivery' = [delivery EXCEPT ![p] = "QUEUED"]
  /\ color' = color

Concludes(w) ==
  \E next \in States, why \in Reasons :
    /\ result' = [result EXCEPT ![w] = [state |-> next, reason |-> why]]
    /\ next = "COMPLETED" => delivery[value[w].id] = "COMPLETED"
    /\ next = "CANCELLED" => delivery[value[w].id] = "CANCELLED"

Returned(w) ==
  /\ pc[w] \in {"reading", "checking", "preparing"}
  /\ pc' = [pc EXCEPT ![w] = "writing"]
  /\ Concludes(w)
  /\ StartsColor(w) \/ StartsDelivery(w) \/ UNCHANGED <<color, delivery>>
  /\ misreads' \in 0..MaxMisreads
  /\ UNCHANGED <<row, job, grant, lapsed, lock, todo, stage, value, crashes>>

AdvanceEnds(w) ==
  \/ Refused(w) \/ Follow(w) \/ WaitForRip(w) \/ RipEnded(w) \/ Invalid(w)
  \/ StartColor(w) \/ WaitForColor(w) \/ ColorFailed(w)
  \/ FindDelivery(w) \/ WaitForApproval(w) \/ Enqueue(w)

(* Whichever way advance returns, it has done at most one of the two things *)
(* it may do, and its verdict COMPLETED or CANCELLED is the delivery's.     *)
LEMMA AdvanceReturns ==
  ASSUME TypeOK, ReadingsHold, NEW w \in Workers, AdvanceEnds(w)
  PROVE  Returned(w)
<1> DEFINE p == value[w].id
<1> USE PipelineAssumption
<1>0. ASSUME NEW from \in {"reading", "checking", "preparing"}, NEW next \in States, NEW why \in Reasons,
             Returns(w, from, next, why),
             next = "COMPLETED" => delivery[p] = "COMPLETED",
             next = "CANCELLED" => delivery[p] = "CANCELLED",
             StartsColor(w) \/ StartsDelivery(w) \/ UNCHANGED <<color, delivery>>,
             misreads' \in 0..MaxMisreads
      PROVE  Returned(w)
  BY <1>0 DEF Returned, Concludes, Returns, GoTo, approvalVars
<1>m. /\ misreads \in 0..MaxMisreads
      /\ SeesNoDelivery(p) => misreads' \in 0..MaxMisreads
  BY DEF TypeOK, SeesNoDelivery
<1>p. pc[w] \in {"reading", "checking", "preparing"} => p \in Pipelines /\ delivery[p] \in DeliveryStates
  BY DEF ReadingsHold, Advancing, Values, TypeOK
<1>s. /\ {"BLOCKED", "RIP", "FAILED", "COLOR", "DELIVERY", "WAITING_APPROVAL"} \subseteq States
      /\ Reasons \ {"CANCELLED_BEFORE_DELIVERY"} \subseteq Reasons
  BY DEF States, Terminal, Paused, Active
<1>1. CASE Refused(w)
  BY <1>0, <1>1, <1>m, <1>s DEF Refused, Reasons
<1>2. CASE Follow(w)
  <2>1. /\ Followed(delivery[p]) \in States
        /\ Followed(delivery[p]) = "COMPLETED" => delivery[p] = "COMPLETED"
        /\ Followed(delivery[p]) = "CANCELLED" => delivery[p] = "CANCELLED"
    BY DEF Followed, States, Terminal, Active
  <2> QED BY <1>0, <1>2, <1>m, <2>1 DEF Follow, Reasons
<1>3. CASE WaitForRip(w)
  BY <1>0, <1>3, <1>m, <1>s DEF WaitForRip, Reasons
<1>4. CASE RipEnded(w)
  BY <1>0, <1>4, <1>m, <1>s DEF RipEnded, Reasons
<1>5. CASE Invalid(w)
  BY <1>0, <1>5, <1>m, <1>s DEF Invalid, Reasons
<1>6. CASE StartColor(w)
  BY <1>0, <1>6, <1>m, <1>s DEF StartColor, StartsColor, Reasons
<1>7. CASE WaitForColor(w)
  BY <1>0, <1>7, <1>m, <1>s DEF WaitForColor, Reasons
<1>8. CASE ColorFailed(w)
  BY <1>0, <1>8, <1>m, <1>s DEF ColorFailed, Reasons
<1>9. CASE FindDelivery(w)
  BY <1>0, <1>9, <1>m, <1>s DEF FindDelivery, Reasons
<1>10. CASE WaitForApproval(w)
  BY <1>0, <1>10, <1>m, <1>s DEF WaitForApproval, Reasons
<1>11. CASE Enqueue(w)
  <2>1. CASE /\ ReadyToPrint(p) /\ Approved(value[w])
             /\ delivery' = [delivery EXCEPT ![p] = IF @ = "NONE" THEN "QUEUED" ELSE @]
             /\ Returns(w, "preparing", "DELIVERY", "NONE")
    <3>1. CASE delivery[p] = "NONE"
      <4>1. StartsDelivery(w)
        BY <1>11, <2>1, <3>1 DEF Enqueue, StartsDelivery
      <4> QED BY <1>0, <1>11, <1>m, <1>s, <2>1, <4>1 DEF Enqueue, Reasons
    <3>2. CASE delivery[p] # "NONE"
      <4>1. delivery' = delivery
        BY <2>1, <3>2 DEF TypeOK
      <4> QED BY <1>0, <1>11, <1>m, <1>s, <2>1, <4>1 DEF Enqueue, Reasons
    <3> QED BY <3>1, <3>2
  <2>2. CASE Returns(w, "preparing", "FAILED", "state_conflict") /\ delivery' = delivery
    BY <1>0, <1>11, <1>m, <1>s, <2>2 DEF Enqueue, Reasons
  <2> QED BY <1>11, <2>1, <2>2 DEF Enqueue
<1> QED BY <1>1, <1>2, <1>3, <1>4, <1>5, <1>6, <1>7, <1>8, <1>9, <1>10, <1>11 DEF AdvanceEnds

-----------------------------------------------------------------------------
(* Types                                                                    *)

(* The empty tables are well typed. *)
LEMMA InitType == Init => TypeOK
BY PipelineAssumption
DEF Init, TypeOK, Rows, States, Active, Reasons, ColorStates, DeliveryStates, WorkerPcs, CancelStages, Agents

(* What a process reads of a pipeline is a value. *)
LEMMA ReadType == ASSUME TypeOK, NEW p \in Pipelines PROVE Read(p) \in Values
BY DEF TypeOK, Rows, Read, Values

(* update_pipeline writes a row. *)
LEMMA UpdateType ==
  ASSUME TypeOK, NEW v \in Values, NEW next \in States, NEW why \in Reasons,
         NEW approval \in Approvals \cup {NoApproval}, Update(v, next, why, approval)
  PROVE  row' \in [Pipelines -> Rows]
<1>1. [state |-> next, reason |-> why, revision |-> v.revision + 1, approval |-> approval] \in Rows
  BY DEF Values, Rows
<1> QED BY <1>1 DEF TypeOK, Update, Values

(* Each action keeps the types. *)
LEMMA TypeStep ==
  ASSUME TypeOK, ReadingsHold, ClosingsHold, [Next]_vars
  PROVE  TypeOK'
<1> USE PipelineAssumption
<1>1. ASSUME NEW p \in Pipelines, Create(p) PROVE TypeOK'
  <2>1. row' \in [Pipelines -> Rows]
    BY <1>1 DEF Create, TypeOK, Rows, States, Active
  <2> QED BY <1>1, <2>1 DEF Create, childVars, approvalVars, agentVars, TypeOK
<1>2. ASSUME NEW p \in Pipelines, NEW a \in Approvals \cup {NoApproval}, Resume(p, a) PROVE TypeOK'
  <2>1. row' \in [Pipelines -> Rows]
    BY <1>2, ReadType, UpdateType DEF Resume, States, Active, Reasons
  <2> QED BY <1>2, <2>1 DEF Resume, childVars, approvalVars, agentVars, TypeOK
<1>3. ASSUME NEW w \in Workers, StartPass(w) PROVE TypeOK'
  <2>1. Listed \subseteq Pipelines
    BY DEF Listed, ActivePipelines
  <2> QED BY <1>3, <2>1 DEF StartPass, GoTo, childVars, approvalVars, TypeOK, Agents, WorkerPcs
<1>4. ASSUME NEW w \in Workers, ReadRow(w) PROVE TypeOK'
  <2>1. PICK p \in todo[w] : value' = [value EXCEPT ![w] = Read(p)] /\ todo' = [todo EXCEPT ![w] = @ \ {p}]
    BY <1>4 DEF ReadRow
  <2>2. p \in Pipelines
    BY DEF TypeOK
  <2>3. value' \in [Agents -> Values \cup {NoValue}]
    BY <2>1, <2>2, ReadType DEF TypeOK, Agents
  <2>4. todo' \in [Workers -> SUBSET Pipelines]
    BY <2>1 DEF TypeOK
  <2> QED BY <1>4, <2>3, <2>4 DEF ReadRow, GoTo, childVars, approvalVars, TypeOK, WorkerPcs
<1>5. ASSUME NEW w \in Workers, EndPass(w) PROVE TypeOK'
  BY <1>5 DEF EndPass, GoTo, WorkerPcs, childVars, approvalVars, agentVars, TypeOK
<1>6. ASSUME NEW w \in Workers, SeeNoDelivery(w) PROVE TypeOK'
  BY <1>6 DEF SeeNoDelivery, SeesNoDelivery, GoTo, childVars, approvalVars, TypeOK, WorkerPcs
<1>7. ASSUME NEW w \in Workers, Prepare(w) PROVE TypeOK'
  BY <1>7 DEF Prepare, SeesNoDelivery, GoTo, childVars, approvalVars, TypeOK, WorkerPcs
<1>8. ASSUME NEW w \in Workers, AdvanceEnds(w) PROVE TypeOK'
  <2>1. Returned(w)
    BY <1>8, AdvanceReturns
  <2>2. pc' \in [Workers -> WorkerPcs]
    BY <2>1 DEF Returned, TypeOK, WorkerPcs
  <2>3. result' \in [Workers -> [state : States, reason : Reasons]]
    <3>1. PICK next \in States, why \in Reasons : result' = [result EXCEPT ![w] = [state |-> next, reason |-> why]]
      BY <2>1 DEF Returned, Concludes
    <3> QED BY <3>1 DEF TypeOK
  <2>4. color' \in [Pipelines -> ColorStates] /\ delivery' \in [Pipelines -> DeliveryStates]
    BY <2>1 DEF Returned, StartsColor, StartsDelivery, TypeOK, ColorStates, ColorPending,
       DeliveryStates
  <2> QED BY <2>1, <2>2, <2>3, <2>4 DEF Returned, TypeOK
<1>9. ASSUME NEW w \in Workers, Write(w) PROVE TypeOK'
  <2>1. value[w] \in Values /\ value[w].approval \in Approvals \cup {NoApproval}
    BY <1>9 DEF Write, GoTo, ReadingsHold, Advancing, Values
  <2>2. result[w].state \in States /\ result[w].reason \in Reasons
    BY DEF TypeOK
  <2>3. row' \in [Pipelines -> Rows]
    BY <1>9, <2>1, <2>2, UpdateType DEF Write, TypeOK
  <2> QED BY <1>9, <2>3 DEF Write, GoTo, childVars, approvalVars, TypeOK, WorkerPcs
<1>10. ASSUME NEW w \in Workers, WorkerCrash(w) PROVE TypeOK'
  <2>1. crashes' \in 0..MaxCrashes
    BY <1>10 DEF WorkerCrash, TypeOK
  <2>2. pc' \in [Workers -> WorkerPcs] /\ todo' \in [Workers -> SUBSET Pipelines]
    BY <1>10 DEF WorkerCrash, TypeOK, WorkerPcs
  <2>3. value' \in [Agents -> Values \cup {NoValue}]
    BY <1>10 DEF WorkerCrash, TypeOK
  <2> QED BY <1>10, <2>1, <2>2, <2>3 DEF WorkerCrash, childVars, approvalVars, TypeOK
<1>11. ASSUME NEW c \in Cancels, NEW p \in Pipelines, BeginCancel(c, p) PROVE TypeOK'
  <2>1. value' \in [Agents -> Values \cup {NoValue}]
    BY <1>11, ReadType DEF BeginCancel, TypeOK
  <2> QED BY <1>11, <2>1 DEF BeginCancel, childVars, approvalVars, TypeOK, Agents, CancelStages
<1>12. ASSUME NEW c \in Cancels, CloseColor(c) PROVE TypeOK'
  <2>1. color' \in [Pipelines -> ColorStates]
    BY <1>12 DEF CloseColor, TypeOK, ColorStates
  <2> QED BY <1>12, <2>1 DEF CloseColor, approvalVars, TypeOK, CancelStages
<1>13. ASSUME NEW c \in Cancels, WriteCancelled(c) PROVE TypeOK'
  <2>1. value[c] \in Values
    BY <1>13 DEF WriteCancelled, ClosingsHold, Closing
  <2>2. row' \in [Pipelines -> Rows]
    BY <1>13, <2>1, UpdateType DEF WriteCancelled, TypeOK, States, Terminal, Reasons
  <2> QED BY <1>13, <2>2 DEF WriteCancelled, Answered, childVars, approvalVars, TypeOK, CancelStages
<1>14. ASSUME NEW c \in Cancels, GiveUpCancel(c) PROVE TypeOK'
  BY <1>14 DEF GiveUpCancel, Answered, CancelStages, childVars, approvalVars, agentVars, TypeOK
<1>15. ASSUME NEW p \in Pipelines, JobEnds(p) PROVE TypeOK'
  BY <1>15 DEF JobEnds, JobOutcomes, childVars, approvalVars, agentVars, TypeOK
<1>16. ASSUME NEW p \in Pipelines, DeleteJob(p) PROVE TypeOK'
  BY <1>16 DEF DeleteJob, childVars, approvalVars, agentVars, TypeOK
<1>17. ASSUME NEW p \in Pipelines, ColorGoes(p) PROVE TypeOK'
  BY <1>17 DEF ColorGoes, childVars, approvalVars, agentVars, TypeOK
<1>18. ASSUME NEW p \in Pipelines, DeliveryGoes(p) PROVE TypeOK'
  BY <1>18 DEF DeliveryGoes, childVars, approvalVars, agentVars, TypeOK
<1>19. ASSUME NEW a \in Approvals, NEW p \in Pipelines, Grant(a, p) PROVE TypeOK'
  BY <1>19 DEF Grant, childVars, approvalVars, agentVars, TypeOK
<1>20. ASSUME NEW a \in Approvals, Lapse(a) PROVE TypeOK'
  BY <1>20 DEF Lapse, childVars, approvalVars, agentVars, TypeOK
<1>21. CASE UNCHANGED vars
  BY <1>21 DEF vars, agentVars, TypeOK
<1> QED
  BY <1>1, <1>2, <1>3, <1>4, <1>5, <1>6, <1>7, <1>8, <1>9, <1>10, <1>11, <1>12, <1>13, <1>14,
     <1>15, <1>16, <1>17, <1>18, <1>19, <1>20, <1>21
  DEF Next, WorkerStep, AdvanceEnds, CancelStep

-----------------------------------------------------------------------------
(* The lock                                                                 *)

(* The lock has one holder: the process that is in its critical section. *)
LEMMA LockStep ==
  ASSUME TypeOK, ReadingsHold, LockHeld, [Next]_vars
  PROVE  LockHeld'
<1> USE PipelineAssumption
<1>1. ASSUME NEW p \in Pipelines, Create(p) PROVE LockHeld'
  BY <1>1 DEF Create, childVars, approvalVars, agentVars, TypeOK, LockHeld, Closing, Agents
<1>2. ASSUME NEW p \in Pipelines, NEW a \in Approvals \cup {NoApproval}, Resume(p, a) PROVE LockHeld'
  BY <1>2 DEF Resume, Update, Read, childVars, approvalVars, agentVars, TypeOK, LockHeld, Closing,
     Agents
<1>3. ASSUME NEW w \in Workers, StartPass(w) PROVE LockHeld'
  BY <1>3 DEF StartPass, GoTo, LockFree, childVars, approvalVars, agentVars, TypeOK, LockHeld,
     Closing, Agents
<1>4. ASSUME NEW w \in Workers, ReadRow(w) PROVE LockHeld'
  BY <1>4 DEF ReadRow, GoTo, childVars, approvalVars, agentVars, TypeOK, LockHeld, Closing, Agents
<1>5. ASSUME NEW w \in Workers, EndPass(w) PROVE LockHeld'
  BY <1>5 DEF EndPass, GoTo, childVars, approvalVars, agentVars, TypeOK, LockHeld, Closing, Agents
<1>6. ASSUME NEW w \in Workers, SeeNoDelivery(w) PROVE LockHeld'
  BY <1>6 DEF SeeNoDelivery, GoTo, childVars, approvalVars, agentVars, TypeOK, LockHeld, Closing,
     Agents
<1>7. ASSUME NEW w \in Workers, Prepare(w) PROVE LockHeld'
  BY <1>7 DEF Prepare, GoTo, childVars, approvalVars, agentVars, TypeOK, LockHeld, Closing, Agents
<1>8. ASSUME NEW w \in Workers, AdvanceEnds(w) PROVE LockHeld'
  BY <1>8, AdvanceReturns DEF Returned, StartsColor, StartsDelivery, Concludes, childVars,
     approvalVars, agentVars, TypeOK, LockHeld, Closing, Agents
<1>9. ASSUME NEW w \in Workers, Write(w) PROVE LockHeld'
  BY <1>9 DEF Write, GoTo, Update, childVars, approvalVars, agentVars, TypeOK, LockHeld, Closing,
     Agents
<1>10. ASSUME NEW w \in Workers, WorkerCrash(w) PROVE LockHeld'
  BY <1>10 DEF WorkerCrash, childVars, approvalVars, agentVars, TypeOK, LockHeld, Closing, Agents
<1>11. ASSUME NEW c \in Cancels, NEW p \in Pipelines, BeginCancel(c, p) PROVE LockHeld'
  BY <1>11 DEF BeginCancel, LockFree, childVars, approvalVars, agentVars, TypeOK, LockHeld,
     Closing, Agents
<1>12. ASSUME NEW c \in Cancels, CloseColor(c) PROVE LockHeld'
  BY <1>12 DEF CloseColor, childVars, approvalVars, agentVars, TypeOK, LockHeld, Closing, Agents
<1>13. ASSUME NEW c \in Cancels, WriteCancelled(c) PROVE LockHeld'
  BY <1>13 DEF WriteCancelled, Answered, Update, childVars, approvalVars, agentVars, TypeOK,
     LockHeld, Closing, Agents
<1>14. ASSUME NEW c \in Cancels, GiveUpCancel(c) PROVE LockHeld'
  BY <1>14 DEF GiveUpCancel, Answered, childVars, approvalVars, agentVars, TypeOK, LockHeld,
     Closing, Agents
<1>15. ASSUME NEW p \in Pipelines, JobEnds(p) PROVE LockHeld'
  BY <1>15 DEF JobEnds, childVars, approvalVars, agentVars, TypeOK, LockHeld, Closing, Agents
<1>16. ASSUME NEW p \in Pipelines, DeleteJob(p) PROVE LockHeld'
  BY <1>16 DEF DeleteJob, childVars, approvalVars, agentVars, TypeOK, LockHeld, Closing, Agents
<1>17. ASSUME NEW p \in Pipelines, ColorGoes(p) PROVE LockHeld'
  BY <1>17 DEF ColorGoes, childVars, approvalVars, agentVars, TypeOK, LockHeld, Closing, Agents
<1>18. ASSUME NEW p \in Pipelines, DeliveryGoes(p) PROVE LockHeld'
  BY <1>18 DEF DeliveryGoes, childVars, approvalVars, agentVars, TypeOK, LockHeld, Closing, Agents
<1>19. ASSUME NEW a \in Approvals, NEW p \in Pipelines, Grant(a, p) PROVE LockHeld'
  BY <1>19 DEF Grant, childVars, approvalVars, agentVars, TypeOK, LockHeld, Closing, Agents
<1>20. ASSUME NEW a \in Approvals, Lapse(a) PROVE LockHeld'
  BY <1>20 DEF Lapse, childVars, approvalVars, agentVars, TypeOK, LockHeld, Closing, Agents
<1>21. CASE UNCHANGED vars
  BY <1>21 DEF vars, agentVars, TypeOK, LockHeld, Closing, Agents
<1> QED
  BY <1>1, <1>2, <1>3, <1>4, <1>5, <1>6, <1>7, <1>8, <1>9, <1>10, <1>11, <1>12, <1>13, <1>14,
     <1>15, <1>16, <1>17, <1>18, <1>19, <1>20, <1>21
  DEF Next, WorkerStep, AdvanceEnds, CancelStep

-----------------------------------------------------------------------------
(* What the others do                                                       *)

(* Only a pending color attempt moves. *)
LEMMA ColorWorks ==
  ASSUME NEW p \in Pipelines, ColorGoes(p)
  PROVE  /\ color[p] \in ColorPending
         /\ \E next \in ColorStates \ {"NONE"} : color' = [color EXCEPT ![p] = next]
         /\ UNCHANGED <<row, job, delivery, grant, lapsed, lock, pc, todo, result, stage, value, misreads, crashes>>
BY DEF ColorGoes, ColorMoves, ColorPending, approvalVars, agentVars

(* A delivery that has ended does not move, and none disappears. *)
LEMMA DeliveryWorks ==
  ASSUME NEW p \in Pipelines, DeliveryGoes(p)
  PROVE  /\ delivery[p] \notin DeliveryEnds \cup {"NONE"}
         /\ \E next \in DeliveryStates \ {"NONE"} : delivery' = [delivery EXCEPT ![p] = next]
         /\ UNCHANGED <<row, job, color, grant, lapsed, lock, pc, todo, result, stage, value, misreads, crashes>>
BY DEF DeliveryGoes, DeliveryMoves, DeliveryEnds, approvalVars, agentVars

(* The row that a worker holds the reading of is in its table and active.   *)
LEMMA Holding ==
  ASSUME TypeOK, LockHeld, ReadingsHold, NEW w \in Workers, Advancing(w)
  PROVE  /\ value[w].id \in Pipelines
         /\ row[value[w].id].state = value[w].state
         /\ row[value[w].id].state \in Active
         /\ Matches(value[w])
         /\ lock = w
         /\ \A x \in Workers \ {w} : pc[x] = "idle"
         /\ \A c \in Cancels : ~Closing(c)
<1>1. value[w] \in Values /\ value[w] = Read(value[w].id) /\ value[w].state \in Active
  BY DEF ReadingsHold
<1>2. value[w].id \in Pipelines
  BY <1>1 DEF Values
<1>3. lock = w
  BY DEF LockHeld, Advancing
<1> QED BY <1>1, <1>2, <1>3, PipelineAssumption DEF Read, Matches, LockHeld

LEMMA ReturnedHolds ==
  ASSUME NEW w \in Workers, Returned(w)
  PROVE  Advancing(w)
BY DEF Returned, Advancing

(* Rows that no worker can hold may change. *)
LEMMA ReadingsKept ==
  ASSUME TypeOK, ReadingsHold, UNCHANGED <<pc, todo>>, \A w \in Workers : value'[w] = value[w],
         \A q \in Pipelines : row[q].state \in Active => row'[q] = row[q]
  PROVE  ReadingsHold'
<1> SUFFICES ASSUME NEW w \in Workers
    PROVE  /\ pc'[w] # "idle" => \A p \in todo'[w] : row'[p].state \in Active
           /\ Advancing(w)' =>
                /\ value'[w] \in Values /\ value'[w] = Read(value[w].id)'
                /\ value'[w].state \in Active /\ value'[w].id \notin todo'[w]
  BY DEF ReadingsHold
<1>1. pc[w] # "idle" => \A p \in todo[w] : row[p].state \in Active
  BY DEF ReadingsHold
<1>2. Advancing(w) =>
        /\ value[w] \in Values /\ value[w] = Read(value[w].id)
        /\ value[w].state \in Active /\ value[w].id \notin todo[w] /\ value[w].id \in Pipelines
  BY DEF ReadingsHold, Values
<1>3. Advancing(w) => row[value[w].id].state \in Active
  BY <1>2 DEF Read
<1>4. Advancing(w) => row'[value[w].id] = row[value[w].id]
  BY <1>2, <1>3
<1>5. Advancing(w)' => Advancing(w)
  BY DEF Advancing
<1>6. pc'[w] # "idle" => \A p \in todo'[w] : row'[p].state \in Active
  BY <1>1 DEF TypeOK
<1> QED BY <1>2, <1>4, <1>5, <1>6 DEF Read

(* Whoever works on a pipeline reads it right, as long as it has the lock. *)
LEMMA ReadingsStep ==
  ASSUME TypeOK, LockHeld, ReadingsHold, ClosingsHold, [Next]_vars
  PROVE  ReadingsHold'
<1> USE PipelineAssumption
<1>1. ASSUME NEW p \in Pipelines, Create(p) PROVE ReadingsHold'
  <2>1. \A q \in Pipelines : row[q].state \in Active => row'[q] = row[q]
    BY <1>1 DEF Create, TypeOK, Active
  <2> QED BY <1>1, <2>1, ReadingsKept DEF Create, agentVars
<1>2. ASSUME NEW p \in Pipelines, NEW a \in Approvals \cup {NoApproval}, Resume(p, a) PROVE ReadingsHold'
  <2>1. \A q \in Pipelines : row[q].state \in Active => row'[q] = row[q]
    BY <1>2 DEF Resume, Update, Read, TypeOK, Active, Paused
  <2> QED BY <1>2, <2>1, ReadingsKept DEF Resume, agentVars
<1>3. ASSUME NEW w \in Workers, StartPass(w) PROVE ReadingsHold'
  <2>1. \A p \in Listed : row[p].state \in Active
    BY DEF Listed, ActivePipelines
  <2>2. \A x \in Workers : pc[x] = "idle"
    BY <1>3 DEF StartPass, LockFree, LockHeld
  <2>3. pc' = [x \in Workers |-> IF x = w THEN "passing" ELSE "idle"]
    BY <1>3, <2>2 DEF StartPass, GoTo, TypeOK
  <2>4. row' = row /\ todo'[w] = Listed
    BY <1>3 DEF StartPass, TypeOK
  <2> QED BY <2>1, <2>3, <2>4 DEF ReadingsHold, Advancing
<1>4. ASSUME NEW w \in Workers, ReadRow(w) PROVE ReadingsHold'
  <2>1. PICK p \in todo[w] : value' = [value EXCEPT ![w] = Read(p)] /\ todo' = [todo EXCEPT ![w] = @ \ {p}]
    BY <1>4 DEF ReadRow
  <2>2. p \in Pipelines /\ row[p].state \in Active /\ \A q \in todo[w] : row[q].state \in Active
    BY <1>4 DEF ReadRow, GoTo, ReadingsHold, TypeOK
  <2>3. /\ value'[w] = Read(p) /\ Read(p) \in Values /\ todo'[w] = todo[w] \ {p}
        /\ row' = row /\ pc' = [pc EXCEPT ![w] = "reading"]
    BY <1>4, <2>1, <2>2, ReadType DEF ReadRow, GoTo, TypeOK, Agents
  <2>4. \A x \in Workers \ {w} : pc'[x] = "idle"
    <3>1. pc[w] = "passing" /\ lock = w
      BY <1>4 DEF ReadRow, GoTo, LockHeld
    <3> QED BY <2>3, <3>1 DEF LockHeld, TypeOK
  <2>5. Read(p).id = p /\ Read(p).state = row[p].state /\ Read(p)' = Read(p)
    BY <2>3 DEF Read
  <2>6. ASSUME NEW x \in Workers
        PROVE  /\ pc'[x] # "idle" => \A q \in todo'[x] : row'[q].state \in Active
               /\ Advancing(x)' =>
                    /\ value'[x] \in Values /\ value'[x] = Read(value[x].id)'
                    /\ value'[x].state \in Active /\ value'[x].id \notin todo'[x]
    <3>1. CASE x = w
      BY <2>2, <2>3, <2>5, <3>1
    <3>2. CASE x # w
      BY <2>4, <3>2 DEF Advancing
    <3> QED BY <3>1, <3>2
  <2> QED BY <2>6 DEF ReadingsHold
<1>5. ASSUME NEW w \in Workers, EndPass(w) PROVE ReadingsHold'
  BY <1>5 DEF EndPass, GoTo, childVars, approvalVars, agentVars, TypeOK, LockHeld, ReadingsHold,
     Advancing, Closing, Read, Agents
<1>6. ASSUME NEW w \in Workers, SeeNoDelivery(w) PROVE ReadingsHold'
  BY <1>6 DEF SeeNoDelivery, GoTo, childVars, approvalVars, agentVars, TypeOK, LockHeld,
     ReadingsHold, Advancing, Closing, Read, Agents
<1>7. ASSUME NEW w \in Workers, Prepare(w) PROVE ReadingsHold'
  BY <1>7 DEF Prepare, GoTo, childVars, approvalVars, agentVars, TypeOK, LockHeld, ReadingsHold,
     Advancing, Closing, Read, Agents
<1>8. ASSUME NEW w \in Workers, AdvanceEnds(w) PROVE ReadingsHold'
  BY <1>8, AdvanceReturns DEF Returned, StartsColor, StartsDelivery, Concludes, childVars,
     approvalVars, agentVars, TypeOK, LockHeld, ReadingsHold, Advancing, Closing, Read, Agents
<1>9. ASSUME NEW w \in Workers, Write(w) PROVE ReadingsHold'
  BY <1>9 DEF Write, GoTo, Update, childVars, approvalVars, agentVars, TypeOK, LockHeld,
     ReadingsHold, Advancing, Closing, Read, Agents
<1>10. ASSUME NEW w \in Workers, WorkerCrash(w) PROVE ReadingsHold'
  BY <1>10 DEF WorkerCrash, childVars, approvalVars, agentVars, TypeOK, LockHeld, ReadingsHold,
     Advancing, Closing, Read, Agents
<1>11. ASSUME NEW c \in Cancels, NEW p \in Pipelines, BeginCancel(c, p) PROVE ReadingsHold'
  BY <1>11 DEF BeginCancel, LockFree, childVars, approvalVars, agentVars, TypeOK, LockHeld,
     ReadingsHold, Advancing, Closing, Read, Agents
<1>12. ASSUME NEW c \in Cancels, CloseColor(c) PROVE ReadingsHold'
  BY <1>12 DEF CloseColor, childVars, approvalVars, agentVars, TypeOK, LockHeld, ReadingsHold,
     Advancing, Closing, Read, Agents
<1>13. ASSUME NEW c \in Cancels, WriteCancelled(c) PROVE ReadingsHold'
  BY <1>13 DEF WriteCancelled, Answered, Update, childVars, approvalVars, agentVars, TypeOK,
     LockHeld, ReadingsHold, Advancing, Closing, Read, Agents
<1>14. ASSUME NEW c \in Cancels, GiveUpCancel(c) PROVE ReadingsHold'
  BY <1>14 DEF GiveUpCancel, Answered, childVars, approvalVars, agentVars, TypeOK, LockHeld,
     ReadingsHold, Advancing, Closing, Read, Agents
<1>15. ASSUME NEW p \in Pipelines, JobEnds(p) PROVE ReadingsHold'
  BY <1>15 DEF JobEnds, childVars, approvalVars, agentVars, TypeOK, LockHeld, ReadingsHold,
     Advancing, Closing, Read, Agents
<1>16. ASSUME NEW p \in Pipelines, DeleteJob(p) PROVE ReadingsHold'
  BY <1>16 DEF DeleteJob, childVars, approvalVars, agentVars, TypeOK, LockHeld, ReadingsHold,
     Advancing, Closing, Read, Agents
<1>17. ASSUME NEW p \in Pipelines, ColorGoes(p) PROVE ReadingsHold'
  BY <1>17 DEF ColorGoes, childVars, approvalVars, agentVars, TypeOK, LockHeld, ReadingsHold,
     Advancing, Closing, Read, Agents
<1>18. ASSUME NEW p \in Pipelines, DeliveryGoes(p) PROVE ReadingsHold'
  BY <1>18 DEF DeliveryGoes, childVars, approvalVars, agentVars, TypeOK, LockHeld, ReadingsHold,
     Advancing, Closing, Read, Agents
<1>19. ASSUME NEW a \in Approvals, NEW p \in Pipelines, Grant(a, p) PROVE ReadingsHold'
  BY <1>19 DEF Grant, childVars, approvalVars, agentVars, TypeOK, LockHeld, ReadingsHold,
     Advancing, Closing, Read, Agents
<1>20. ASSUME NEW a \in Approvals, Lapse(a) PROVE ReadingsHold'
  BY <1>20 DEF Lapse, childVars, approvalVars, agentVars, TypeOK, LockHeld, ReadingsHold,
     Advancing, Closing, Read, Agents
<1>21. CASE UNCHANGED vars
  BY <1>21 DEF vars, agentVars, TypeOK, LockHeld, ReadingsHold, Advancing, Closing, Read, Agents
<1> QED
  BY <1>1, <1>2, <1>3, <1>4, <1>5, <1>6, <1>7, <1>8, <1>9, <1>10, <1>11, <1>12, <1>13, <1>14,
     <1>15, <1>16, <1>17, <1>18, <1>19, <1>20, <1>21
  DEF Next, WorkerStep, AdvanceEnds, CancelStep

(* A verdict that waits to be written stays true. *)
LEMMA VerdictsStep ==
  ASSUME TypeOK, LockHeld, ReadingsHold, VerdictsHold, [Next]_vars
  PROVE  VerdictsHold'
<1> USE PipelineAssumption
<1>1. ASSUME NEW p \in Pipelines, Create(p) PROVE VerdictsHold'
  BY <1>1 DEF Create, childVars, approvalVars, agentVars, TypeOK, LockHeld, ReadingsHold,
     VerdictsHold, Advancing, Agents
<1>2. ASSUME NEW p \in Pipelines, NEW a \in Approvals \cup {NoApproval}, Resume(p, a) PROVE VerdictsHold'
  BY <1>2 DEF Resume, Update, Read, childVars, approvalVars, agentVars, TypeOK, LockHeld,
     ReadingsHold, VerdictsHold, Advancing, Agents
<1>3. ASSUME NEW w \in Workers, StartPass(w) PROVE VerdictsHold'
  BY <1>3 DEF StartPass, GoTo, LockFree, childVars, approvalVars, agentVars, TypeOK, LockHeld,
     ReadingsHold, VerdictsHold, Advancing, Agents
<1>4. ASSUME NEW w \in Workers, ReadRow(w) PROVE VerdictsHold'
  BY <1>4 DEF ReadRow, GoTo, childVars, approvalVars, agentVars, TypeOK, LockHeld, ReadingsHold,
     VerdictsHold, Advancing, Agents
<1>5. ASSUME NEW w \in Workers, EndPass(w) PROVE VerdictsHold'
  BY <1>5 DEF EndPass, GoTo, childVars, approvalVars, agentVars, TypeOK, LockHeld, ReadingsHold,
     VerdictsHold, Advancing, Agents
<1>6. ASSUME NEW w \in Workers, SeeNoDelivery(w) PROVE VerdictsHold'
  BY <1>6 DEF SeeNoDelivery, GoTo, childVars, approvalVars, agentVars, TypeOK, LockHeld,
     ReadingsHold, VerdictsHold, Advancing, Agents
<1>7. ASSUME NEW w \in Workers, Prepare(w) PROVE VerdictsHold'
  BY <1>7 DEF Prepare, GoTo, childVars, approvalVars, agentVars, TypeOK, LockHeld, ReadingsHold,
     VerdictsHold, Advancing, Agents
<1>8. ASSUME NEW w \in Workers, AdvanceEnds(w) PROVE VerdictsHold'
  <2>1. Returned(w)
    BY <1>8, AdvanceReturns
  <2>2. PICK next \in States, why \in Reasons :
          /\ result' = [result EXCEPT ![w] = [state |-> next, reason |-> why]]
          /\ next = "COMPLETED" => delivery[value[w].id] = "COMPLETED"
          /\ next = "CANCELLED" => delivery[value[w].id] = "CANCELLED"
    BY <2>1 DEF Returned, Concludes
  <2>3. /\ result'[w].state = next
        /\ delivery[value[w].id] # "NONE" => delivery' = delivery
        /\ value' = value
    BY <2>1, <2>2 DEF Returned, StartsColor, StartsDelivery, TypeOK
  <2>4. \A x \in Workers \ {w} : pc'[x] # "writing"
    BY <2>1, ReturnedHolds, Holding DEF Returned, TypeOK
  <2> QED BY <2>2, <2>3, <2>4 DEF VerdictsHold
<1>9. ASSUME NEW w \in Workers, Write(w) PROVE VerdictsHold'
  BY <1>9 DEF Write, GoTo, Update, childVars, approvalVars, agentVars, TypeOK, LockHeld,
     ReadingsHold, VerdictsHold, Advancing, Agents
<1>10. ASSUME NEW w \in Workers, WorkerCrash(w) PROVE VerdictsHold'
  BY <1>10 DEF WorkerCrash, childVars, approvalVars, agentVars, TypeOK, LockHeld, ReadingsHold,
     VerdictsHold, Advancing, Agents
<1>11. ASSUME NEW c \in Cancels, NEW p \in Pipelines, BeginCancel(c, p) PROVE VerdictsHold'
  BY <1>11 DEF BeginCancel, LockFree, childVars, approvalVars, agentVars, TypeOK, LockHeld,
     ReadingsHold, VerdictsHold, Advancing, Agents
<1>12. ASSUME NEW c \in Cancels, CloseColor(c) PROVE VerdictsHold'
  BY <1>12 DEF CloseColor, childVars, approvalVars, agentVars, TypeOK, LockHeld, ReadingsHold,
     VerdictsHold, Advancing, Agents
<1>13. ASSUME NEW c \in Cancels, WriteCancelled(c) PROVE VerdictsHold'
  BY <1>13 DEF WriteCancelled, Answered, Update, childVars, approvalVars, agentVars, TypeOK,
     LockHeld, ReadingsHold, VerdictsHold, Advancing, Agents
<1>14. ASSUME NEW c \in Cancels, GiveUpCancel(c) PROVE VerdictsHold'
  BY <1>14 DEF GiveUpCancel, Answered, childVars, approvalVars, agentVars, TypeOK, LockHeld,
     ReadingsHold, VerdictsHold, Advancing, Agents
<1>15. ASSUME NEW p \in Pipelines, JobEnds(p) PROVE VerdictsHold'
  BY <1>15 DEF JobEnds, childVars, approvalVars, agentVars, TypeOK, LockHeld, ReadingsHold,
     VerdictsHold, Advancing, Agents
<1>16. ASSUME NEW p \in Pipelines, DeleteJob(p) PROVE VerdictsHold'
  BY <1>16 DEF DeleteJob, childVars, approvalVars, agentVars, TypeOK, LockHeld, ReadingsHold,
     VerdictsHold, Advancing, Agents
<1>17. ASSUME NEW p \in Pipelines, ColorGoes(p) PROVE VerdictsHold'
  BY <1>17 DEF ColorGoes, childVars, approvalVars, agentVars, TypeOK, LockHeld, ReadingsHold,
     VerdictsHold, Advancing, Agents
<1>18. ASSUME NEW p \in Pipelines, DeliveryGoes(p) PROVE VerdictsHold'
  <2>1. \A q \in Pipelines : delivery[q] \in {"COMPLETED", "CANCELLED"} => delivery'[q] = delivery[q]
    BY <1>18, DeliveryWorks DEF TypeOK, DeliveryEnds
  <2>2. UNCHANGED <<pc, result, value>>
    BY <1>18, DeliveryWorks
  <2>3. ASSUME NEW x \in Workers, pc'[x] = "writing"
        PROVE  /\ result'[x].state = "COMPLETED" => delivery'[value'[x].id] = "COMPLETED"
               /\ result'[x].state = "CANCELLED" => delivery'[value'[x].id] = "CANCELLED"
    <3>1. value[x].id \in Pipelines
      BY <2>2, <2>3, Holding DEF Advancing
    <3> QED BY <2>1, <2>2, <2>3, <3>1 DEF VerdictsHold
  <2> QED BY <2>3 DEF VerdictsHold
<1>19. ASSUME NEW a \in Approvals, NEW p \in Pipelines, Grant(a, p) PROVE VerdictsHold'
  BY <1>19 DEF Grant, childVars, approvalVars, agentVars, TypeOK, LockHeld, ReadingsHold,
     VerdictsHold, Advancing, Agents
<1>20. ASSUME NEW a \in Approvals, Lapse(a) PROVE VerdictsHold'
  BY <1>20 DEF Lapse, childVars, approvalVars, agentVars, TypeOK, LockHeld, ReadingsHold,
     VerdictsHold, Advancing, Agents
<1>21. CASE UNCHANGED vars
  BY <1>21 DEF vars, agentVars, TypeOK, LockHeld, ReadingsHold, VerdictsHold, Advancing, Agents
<1> QED
  BY <1>1, <1>2, <1>3, <1>4, <1>5, <1>6, <1>7, <1>8, <1>9, <1>10, <1>11, <1>12, <1>13, <1>14,
     <1>15, <1>16, <1>17, <1>18, <1>19, <1>20, <1>21
  DEF Next, WorkerStep, AdvanceEnds, CancelStep

(* A cancel request goes on while its pipeline stays open and childless.    *)
LEMMA ClosingsKept ==
  ASSUME ClosingsHold, UNCHANGED <<stage, value>>,
         \A q \in Pipelines : Open(q) => Open(q)',
         \A q \in Pipelines : delivery[q] = "NONE" => delivery'[q] = "NONE",
         \A q \in Pipelines : color[q] \notin ColorPending => color'[q] \notin ColorPending
  PROVE  ClosingsHold'
<1> SUFFICES ASSUME NEW c \in Cancels, Closing(c)
    PROVE  /\ value[c] \in Values
           /\ Open(value[c].id)'
           /\ delivery'[value[c].id] = "NONE"
           /\ stage[c] = "writing" => color'[value[c].id] \notin ColorPending
  BY DEF ClosingsHold, Closing, Open
<1>1. value[c].id \in Pipelines
  BY DEF ClosingsHold, Values
<1> QED BY <1>1 DEF ClosingsHold

(* Under a cancel request nothing is created and nothing is ended. *)
LEMMA ClosingsStep ==
  ASSUME TypeOK, LockHeld, ReadingsHold, ClosingsHold, [Next]_vars
  PROVE  ClosingsHold'
<1> USE PipelineAssumption
<1>1. ASSUME NEW p \in Pipelines, Create(p) PROVE ClosingsHold'
  <2>1. \A q \in Pipelines : Open(q) => Open(q)'
    BY <1>1 DEF Create, Open, TypeOK, Active, Paused, Rows
  <2> QED BY <1>1, <2>1, ClosingsKept DEF Create, childVars, agentVars
<1>2. ASSUME NEW p \in Pipelines, NEW a \in Approvals \cup {NoApproval}, Resume(p, a) PROVE ClosingsHold'
  <2>1. \A q \in Pipelines : Open(q) => Open(q)'
    BY <1>2 DEF Resume, Update, Read, Open, TypeOK, Active, Paused
  <2> QED BY <1>2, <2>1, ClosingsKept DEF Resume, childVars, agentVars
<1>3. ASSUME NEW w \in Workers, StartPass(w) PROVE ClosingsHold'
  BY <1>3 DEF StartPass, GoTo, LockFree, childVars, approvalVars, agentVars, TypeOK, LockHeld,
     ReadingsHold, ClosingsHold, Closing, Open, Agents
<1>4. ASSUME NEW w \in Workers, ReadRow(w) PROVE ClosingsHold'
  BY <1>4 DEF ReadRow, GoTo, childVars, approvalVars, agentVars, TypeOK, LockHeld, ReadingsHold,
     ClosingsHold, Closing, Open, Agents
<1>5. ASSUME NEW w \in Workers, EndPass(w) PROVE ClosingsHold'
  BY <1>5 DEF EndPass, GoTo, childVars, approvalVars, agentVars, TypeOK, LockHeld, ReadingsHold,
     ClosingsHold, Closing, Open, Agents
<1>6. ASSUME NEW w \in Workers, SeeNoDelivery(w) PROVE ClosingsHold'
  BY <1>6 DEF SeeNoDelivery, GoTo, childVars, approvalVars, agentVars, TypeOK, LockHeld,
     ReadingsHold, ClosingsHold, Closing, Open, Agents
<1>7. ASSUME NEW w \in Workers, Prepare(w) PROVE ClosingsHold'
  BY <1>7 DEF Prepare, GoTo, childVars, approvalVars, agentVars, TypeOK, LockHeld, ReadingsHold,
     ClosingsHold, Closing, Open, Agents
<1>8. ASSUME NEW w \in Workers, AdvanceEnds(w) PROVE ClosingsHold'
  BY <1>8, AdvanceReturns DEF Returned, StartsColor, StartsDelivery, Concludes, childVars,
     approvalVars, agentVars, TypeOK, LockHeld, ReadingsHold, ClosingsHold, Closing, Open, Agents
<1>9. ASSUME NEW w \in Workers, Write(w) PROVE ClosingsHold'
  BY <1>9 DEF Write, GoTo, Update, childVars, approvalVars, agentVars, TypeOK, LockHeld,
     ReadingsHold, ClosingsHold, Closing, Open, Agents
<1>10. ASSUME NEW w \in Workers, WorkerCrash(w) PROVE ClosingsHold'
  BY <1>10 DEF WorkerCrash, childVars, approvalVars, agentVars, TypeOK, LockHeld, ReadingsHold,
     ClosingsHold, Closing, Open, Agents
<1>11. ASSUME NEW c \in Cancels, NEW p \in Pipelines, BeginCancel(c, p) PROVE ClosingsHold'
  <2>1. value'[c] = Read(p) /\ Read(p) \in Values /\ Read(p).id = p
    BY <1>11, ReadType DEF BeginCancel, TypeOK, Agents, Read
  <2>2. row[p].state \in Paused \cup Active
    BY <1>11 DEF BeginCancel, Cancellable, TypeOK, Rows, States
  <2>3. \A x \in Cancels \ {c} : ~Closing(x)'
    BY <1>11 DEF BeginCancel, LockFree, LockHeld, Closing, TypeOK
  <2>4. stage'[c] = "closing" /\ row' = row /\ delivery' = delivery /\ color' = color
    BY <1>11 DEF BeginCancel, TypeOK, childVars
  <2> QED BY <1>11, <2>1, <2>2, <2>3, <2>4 DEF ClosingsHold, Open, BeginCancel
<1>12. ASSUME NEW c \in Cancels, CloseColor(c) PROVE ClosingsHold'
  <2>1. /\ value' = value /\ row' = row /\ delivery' = delivery
        /\ stage' = [stage EXCEPT ![c] = "writing"] /\ Closing(c)
    BY <1>12 DEF CloseColor, Closing
  <2>2. \A x \in Cancels \ {c} : ~Closing(x)'
    BY <2>1 DEF LockHeld, Closing, TypeOK
  <2>3. value[c] \in Values /\ value[c].id \in Pipelines /\ Open(value[c].id) /\ delivery[value[c].id] = "NONE"
    BY <2>1 DEF ClosingsHold, Values
  <2>4. color'[value[c].id] \notin ColorPending
    BY <1>12, <2>3 DEF CloseColor, ColorPending, TypeOK
  <2> QED BY <2>1, <2>2, <2>3, <2>4 DEF ClosingsHold, Open
<1>13. ASSUME NEW c \in Cancels, WriteCancelled(c) PROVE ClosingsHold'
  BY <1>13 DEF WriteCancelled, Answered, Update, childVars, approvalVars, agentVars, TypeOK,
     LockHeld, ReadingsHold, ClosingsHold, Closing, Open, Agents
<1>14. ASSUME NEW c \in Cancels, GiveUpCancel(c) PROVE ClosingsHold'
  BY <1>14 DEF GiveUpCancel, Answered, childVars, approvalVars, agentVars, TypeOK, LockHeld,
     ReadingsHold, ClosingsHold, Closing, Open, Agents
<1>15. ASSUME NEW p \in Pipelines, JobEnds(p) PROVE ClosingsHold'
  BY <1>15 DEF JobEnds, childVars, approvalVars, agentVars, TypeOK, LockHeld, ReadingsHold,
     ClosingsHold, Closing, Open, Agents
<1>16. ASSUME NEW p \in Pipelines, DeleteJob(p) PROVE ClosingsHold'
  BY <1>16 DEF DeleteJob, childVars, approvalVars, agentVars, TypeOK, LockHeld, ReadingsHold,
     ClosingsHold, Closing, Open, Agents
<1>17. ASSUME NEW p \in Pipelines, ColorGoes(p) PROVE ClosingsHold'
  <2>1. \A q \in Pipelines : color[q] \notin ColorPending => color'[q] \notin ColorPending
    BY <1>17, ColorWorks DEF TypeOK
  <2>2. UNCHANGED <<stage, value, row, delivery>>
    BY <1>17, ColorWorks
  <2> QED BY <2>1, <2>2, ClosingsKept DEF Open
<1>18. ASSUME NEW p \in Pipelines, DeliveryGoes(p) PROVE ClosingsHold'
  <2>1. \A q \in Pipelines : delivery[q] = "NONE" => delivery'[q] = "NONE"
    BY <1>18, DeliveryWorks DEF TypeOK
  <2>2. UNCHANGED <<stage, value, row, color>>
    BY <1>18, DeliveryWorks
  <2> QED BY <2>1, <2>2, ClosingsKept DEF Open
<1>19. ASSUME NEW a \in Approvals, NEW p \in Pipelines, Grant(a, p) PROVE ClosingsHold'
  BY <1>19 DEF Grant, childVars, approvalVars, agentVars, TypeOK, LockHeld, ReadingsHold,
     ClosingsHold, Closing, Open, Agents
<1>20. ASSUME NEW a \in Approvals, Lapse(a) PROVE ClosingsHold'
  BY <1>20 DEF Lapse, childVars, approvalVars, agentVars, TypeOK, LockHeld, ReadingsHold,
     ClosingsHold, Closing, Open, Agents
<1>21. CASE UNCHANGED vars
  BY <1>21 DEF vars, agentVars, TypeOK, LockHeld, ReadingsHold, ClosingsHold, Closing, Open, Agents
<1> QED
  BY <1>1, <1>2, <1>3, <1>4, <1>5, <1>6, <1>7, <1>8, <1>9, <1>10, <1>11, <1>12, <1>13, <1>14,
     <1>15, <1>16, <1>17, <1>18, <1>19, <1>20, <1>21
  DEF Next, WorkerStep, AdvanceEnds, CancelStep

(* A delivery's color attempt is done and stays so. *)
LEMMA ColorFirstStep ==
  ASSUME TypeOK, ReadingsHold, ColorComesFirst, [Next]_vars
  PROVE  ColorComesFirst'
<1> USE PipelineAssumption
<1>1. ASSUME NEW p \in Pipelines, Create(p) PROVE ColorComesFirst'
  BY <1>1 DEF Create, childVars, approvalVars, agentVars, TypeOK, ColorComesFirst
<1>2. ASSUME NEW p \in Pipelines, NEW a \in Approvals \cup {NoApproval}, Resume(p, a) PROVE ColorComesFirst'
  BY <1>2 DEF Resume, Update, Read, childVars, approvalVars, agentVars, TypeOK, ColorComesFirst
<1>3. ASSUME NEW w \in Workers, StartPass(w) PROVE ColorComesFirst'
  BY <1>3 DEF StartPass, GoTo, LockFree, childVars, approvalVars, agentVars, TypeOK, ColorComesFirst
<1>4. ASSUME NEW w \in Workers, ReadRow(w) PROVE ColorComesFirst'
  BY <1>4 DEF ReadRow, GoTo, childVars, approvalVars, agentVars, TypeOK, ColorComesFirst
<1>5. ASSUME NEW w \in Workers, EndPass(w) PROVE ColorComesFirst'
  BY <1>5 DEF EndPass, GoTo, childVars, approvalVars, agentVars, TypeOK, ColorComesFirst
<1>6. ASSUME NEW w \in Workers, SeeNoDelivery(w) PROVE ColorComesFirst'
  BY <1>6 DEF SeeNoDelivery, GoTo, childVars, approvalVars, agentVars, TypeOK, ColorComesFirst
<1>7. ASSUME NEW w \in Workers, Prepare(w) PROVE ColorComesFirst'
  BY <1>7 DEF Prepare, GoTo, childVars, approvalVars, agentVars, TypeOK, ColorComesFirst
<1>8. ASSUME NEW w \in Workers, AdvanceEnds(w) PROVE ColorComesFirst'
  <2>1. Returned(w)
    BY <1>8, AdvanceReturns
  <2>2. CASE StartsColor(w)
    BY <2>2 DEF StartsColor, ColorComesFirst, TypeOK
  <2>3. CASE StartsDelivery(w)
    BY <2>3 DEF StartsDelivery, ReadyToPrint, ColorComesFirst, TypeOK
  <2> QED BY <2>1, <2>2, <2>3 DEF Returned, ColorComesFirst
<1>9. ASSUME NEW w \in Workers, Write(w) PROVE ColorComesFirst'
  BY <1>9 DEF Write, GoTo, Update, childVars, approvalVars, agentVars, TypeOK, ColorComesFirst
<1>10. ASSUME NEW w \in Workers, WorkerCrash(w) PROVE ColorComesFirst'
  BY <1>10 DEF WorkerCrash, childVars, approvalVars, agentVars, TypeOK, ColorComesFirst
<1>11. ASSUME NEW c \in Cancels, NEW p \in Pipelines, BeginCancel(c, p) PROVE ColorComesFirst'
  BY <1>11 DEF BeginCancel, LockFree, childVars, approvalVars, agentVars, TypeOK, ColorComesFirst
<1>12. ASSUME NEW c \in Cancels, CloseColor(c) PROVE ColorComesFirst'

  BY <1>12 DEF CloseColor, ColorComesFirst, TypeOK
<1>13. ASSUME NEW c \in Cancels, WriteCancelled(c) PROVE ColorComesFirst'
  BY <1>13 DEF WriteCancelled, Answered, Update, childVars, approvalVars, agentVars, TypeOK,
     ColorComesFirst
<1>14. ASSUME NEW c \in Cancels, GiveUpCancel(c) PROVE ColorComesFirst'
  BY <1>14 DEF GiveUpCancel, Answered, childVars, approvalVars, agentVars, TypeOK, ColorComesFirst
<1>15. ASSUME NEW p \in Pipelines, JobEnds(p) PROVE ColorComesFirst'
  BY <1>15 DEF JobEnds, childVars, approvalVars, agentVars, TypeOK, ColorComesFirst
<1>16. ASSUME NEW p \in Pipelines, DeleteJob(p) PROVE ColorComesFirst'
  BY <1>16 DEF DeleteJob, childVars, approvalVars, agentVars, TypeOK, ColorComesFirst
<1>17. ASSUME NEW p \in Pipelines, ColorGoes(p) PROVE ColorComesFirst'
  BY <1>17, ColorWorks DEF ColorComesFirst, TypeOK, ColorPending
<1>18. ASSUME NEW p \in Pipelines, DeliveryGoes(p) PROVE ColorComesFirst'
  BY <1>18, DeliveryWorks DEF ColorComesFirst, TypeOK, DeliveryEnds
<1>19. ASSUME NEW a \in Approvals, NEW p \in Pipelines, Grant(a, p) PROVE ColorComesFirst'
  BY <1>19 DEF Grant, childVars, approvalVars, agentVars, TypeOK, ColorComesFirst
<1>20. ASSUME NEW a \in Approvals, Lapse(a) PROVE ColorComesFirst'
  BY <1>20 DEF Lapse, childVars, approvalVars, agentVars, TypeOK, ColorComesFirst
<1>21. CASE UNCHANGED vars
  BY <1>21 DEF vars, agentVars, TypeOK, ColorComesFirst
<1> QED
  BY <1>1, <1>2, <1>3, <1>4, <1>5, <1>6, <1>7, <1>8, <1>9, <1>10, <1>11, <1>12, <1>13, <1>14,
     <1>15, <1>16, <1>17, <1>18, <1>19, <1>20, <1>21
  DEF Next, WorkerStep, AdvanceEnds, CancelStep

(* The end of a pipeline is written when its children are at rest. *)
LEMMA QuietStep ==
  ASSUME TypeOK, LockHeld, ReadingsHold, VerdictsHold, ClosingsHold, ColorComesFirst, CancelledIsQuiet, [Next]_vars
  PROVE  CancelledIsQuiet'
<1> USE PipelineAssumption
<1>1. ASSUME NEW p \in Pipelines, Create(p) PROVE CancelledIsQuiet'
  BY <1>1 DEF Create, childVars, approvalVars, agentVars, TypeOK, CancelledIsQuiet
<1>2. ASSUME NEW p \in Pipelines, NEW a \in Approvals \cup {NoApproval}, Resume(p, a) PROVE CancelledIsQuiet'
  BY <1>2 DEF Resume, Update, Read, childVars, approvalVars, agentVars, TypeOK, CancelledIsQuiet
<1>3. ASSUME NEW w \in Workers, StartPass(w) PROVE CancelledIsQuiet'
  BY <1>3 DEF StartPass, GoTo, LockFree, childVars, approvalVars, agentVars, TypeOK,
     CancelledIsQuiet
<1>4. ASSUME NEW w \in Workers, ReadRow(w) PROVE CancelledIsQuiet'
  BY <1>4 DEF ReadRow, GoTo, childVars, approvalVars, agentVars, TypeOK, CancelledIsQuiet
<1>5. ASSUME NEW w \in Workers, EndPass(w) PROVE CancelledIsQuiet'
  BY <1>5 DEF EndPass, GoTo, childVars, approvalVars, agentVars, TypeOK, CancelledIsQuiet
<1>6. ASSUME NEW w \in Workers, SeeNoDelivery(w) PROVE CancelledIsQuiet'
  BY <1>6 DEF SeeNoDelivery, GoTo, childVars, approvalVars, agentVars, TypeOK, CancelledIsQuiet
<1>7. ASSUME NEW w \in Workers, Prepare(w) PROVE CancelledIsQuiet'
  BY <1>7 DEF Prepare, GoTo, childVars, approvalVars, agentVars, TypeOK, CancelledIsQuiet
<1>8. ASSUME NEW w \in Workers, AdvanceEnds(w) PROVE CancelledIsQuiet'
  <2>1. Returned(w)
    BY <1>8, AdvanceReturns
  <2>2. value[w].id \in Pipelines /\ row[value[w].id].state \in Active
    BY <2>1, ReturnedHolds, Holding
  <2>3. \A q \in Pipelines : row[q].state \notin Active => color'[q] = color[q] /\ delivery'[q] = delivery[q]
    BY <2>1, <2>2 DEF Returned, StartsColor, StartsDelivery, TypeOK
  <2> QED BY <2>1, <2>3 DEF Returned, CancelledIsQuiet, Active
<1>9. ASSUME NEW w \in Workers, Write(w) PROVE CancelledIsQuiet'
  <2>1. value[w].id \in Pipelines /\ UNCHANGED <<color, delivery>>
    BY <1>9, Holding DEF Write, GoTo, Advancing, childVars
  <2>2. \A q \in Pipelines : row'[q].state = "CANCELLED" => row[q].state = "CANCELLED" \/ (q = value[w].id /\ result[w].state = "CANCELLED")
    BY <1>9, <2>1 DEF Write, Update, TypeOK
  <2>3. result[w].state = "CANCELLED" => delivery[value[w].id] = "CANCELLED" /\ color[value[w].id] \notin ColorPending
    BY <1>9, <2>1 DEF Write, GoTo, VerdictsHold, ColorComesFirst, ColorPending
  <2> QED BY <2>1, <2>2, <2>3 DEF CancelledIsQuiet
<1>10. ASSUME NEW w \in Workers, WorkerCrash(w) PROVE CancelledIsQuiet'
  BY <1>10 DEF WorkerCrash, childVars, approvalVars, agentVars, TypeOK, CancelledIsQuiet
<1>11. ASSUME NEW c \in Cancels, NEW p \in Pipelines, BeginCancel(c, p) PROVE CancelledIsQuiet'
  BY <1>11 DEF BeginCancel, LockFree, childVars, approvalVars, agentVars, TypeOK, CancelledIsQuiet
<1>12. ASSUME NEW c \in Cancels, CloseColor(c) PROVE CancelledIsQuiet'
  BY <1>12 DEF CloseColor, CancelledIsQuiet, ColorPending, TypeOK
<1>13. ASSUME NEW c \in Cancels, WriteCancelled(c) PROVE CancelledIsQuiet'
  <2>1. /\ value[c].id \in Pipelines /\ UNCHANGED <<color, delivery>>
        /\ delivery[value[c].id] = "NONE" /\ color[value[c].id] \notin ColorPending
    BY <1>13 DEF WriteCancelled, ClosingsHold, Closing, Values, childVars
  <2>2. \A q \in Pipelines : row'[q].state = "CANCELLED" => row[q].state = "CANCELLED" \/ q = value[c].id
    BY <1>13, <2>1 DEF WriteCancelled, Update, TypeOK
  <2> QED BY <2>1, <2>2 DEF CancelledIsQuiet
<1>14. ASSUME NEW c \in Cancels, GiveUpCancel(c) PROVE CancelledIsQuiet'
  BY <1>14 DEF GiveUpCancel, Answered, childVars, approvalVars, agentVars, TypeOK, CancelledIsQuiet
<1>15. ASSUME NEW p \in Pipelines, JobEnds(p) PROVE CancelledIsQuiet'
  BY <1>15 DEF JobEnds, childVars, approvalVars, agentVars, TypeOK, CancelledIsQuiet
<1>16. ASSUME NEW p \in Pipelines, DeleteJob(p) PROVE CancelledIsQuiet'
  BY <1>16 DEF DeleteJob, childVars, approvalVars, agentVars, TypeOK, CancelledIsQuiet
<1>17. ASSUME NEW p \in Pipelines, ColorGoes(p) PROVE CancelledIsQuiet'
  BY <1>17, ColorWorks DEF CancelledIsQuiet, TypeOK, ColorPending
<1>18. ASSUME NEW p \in Pipelines, DeliveryGoes(p) PROVE CancelledIsQuiet'
  BY <1>18, DeliveryWorks DEF CancelledIsQuiet, TypeOK, DeliveryEnds
<1>19. ASSUME NEW a \in Approvals, NEW p \in Pipelines, Grant(a, p) PROVE CancelledIsQuiet'
  BY <1>19 DEF Grant, childVars, approvalVars, agentVars, TypeOK, CancelledIsQuiet
<1>20. ASSUME NEW a \in Approvals, Lapse(a) PROVE CancelledIsQuiet'
  BY <1>20 DEF Lapse, childVars, approvalVars, agentVars, TypeOK, CancelledIsQuiet
<1>21. CASE UNCHANGED vars
  BY <1>21 DEF vars, agentVars, TypeOK, CancelledIsQuiet
<1> QED
  BY <1>1, <1>2, <1>3, <1>4, <1>5, <1>6, <1>7, <1>8, <1>9, <1>10, <1>11, <1>12, <1>13, <1>14,
     <1>15, <1>16, <1>17, <1>18, <1>19, <1>20, <1>21
  DEF Next, WorkerStep, AdvanceEnds, CancelStep

(* COMPLETED is what the delivery says. *)
LEMMA PrintedStep ==
  ASSUME TypeOK, LockHeld, ReadingsHold, VerdictsHold, ClosingsHold, ColorComesFirst, CompletedIsPrinted, [Next]_vars
  PROVE  CompletedIsPrinted'
<1> USE PipelineAssumption
<1>1. ASSUME NEW p \in Pipelines, Create(p) PROVE CompletedIsPrinted'
  BY <1>1 DEF Create, childVars, approvalVars, agentVars, TypeOK, CompletedIsPrinted
<1>2. ASSUME NEW p \in Pipelines, NEW a \in Approvals \cup {NoApproval}, Resume(p, a) PROVE CompletedIsPrinted'
  BY <1>2 DEF Resume, Update, Read, childVars, approvalVars, agentVars, TypeOK, CompletedIsPrinted
<1>3. ASSUME NEW w \in Workers, StartPass(w) PROVE CompletedIsPrinted'
  BY <1>3 DEF StartPass, GoTo, LockFree, childVars, approvalVars, agentVars, TypeOK,
     CompletedIsPrinted
<1>4. ASSUME NEW w \in Workers, ReadRow(w) PROVE CompletedIsPrinted'
  BY <1>4 DEF ReadRow, GoTo, childVars, approvalVars, agentVars, TypeOK, CompletedIsPrinted
<1>5. ASSUME NEW w \in Workers, EndPass(w) PROVE CompletedIsPrinted'
  BY <1>5 DEF EndPass, GoTo, childVars, approvalVars, agentVars, TypeOK, CompletedIsPrinted
<1>6. ASSUME NEW w \in Workers, SeeNoDelivery(w) PROVE CompletedIsPrinted'
  BY <1>6 DEF SeeNoDelivery, GoTo, childVars, approvalVars, agentVars, TypeOK, CompletedIsPrinted
<1>7. ASSUME NEW w \in Workers, Prepare(w) PROVE CompletedIsPrinted'
  BY <1>7 DEF Prepare, GoTo, childVars, approvalVars, agentVars, TypeOK, CompletedIsPrinted
<1>8. ASSUME NEW w \in Workers, AdvanceEnds(w) PROVE CompletedIsPrinted'
  <2>1. Returned(w)
    BY <1>8, AdvanceReturns
  <2>2. value[w].id \in Pipelines /\ row[value[w].id].state \in Active
    BY <2>1, ReturnedHolds, Holding
  <2>3. \A q \in Pipelines : row[q].state \notin Active => color'[q] = color[q] /\ delivery'[q] = delivery[q]
    BY <2>1, <2>2 DEF Returned, StartsColor, StartsDelivery, TypeOK
  <2> QED BY <2>1, <2>3 DEF Returned, CompletedIsPrinted, Active
<1>9. ASSUME NEW w \in Workers, Write(w) PROVE CompletedIsPrinted'
  <2>1. value[w].id \in Pipelines /\ UNCHANGED <<color, delivery>>
    BY <1>9, Holding DEF Write, GoTo, Advancing, childVars
  <2>2. \A q \in Pipelines : row'[q].state = "COMPLETED" => row[q].state = "COMPLETED" \/ (q = value[w].id /\ result[w].state = "COMPLETED")
    BY <1>9, <2>1 DEF Write, Update, TypeOK
  <2>3. result[w].state = "COMPLETED" => delivery[value[w].id] = "COMPLETED" /\ (value[w].id \in Colored => color[value[w].id] = "COMPLETED")
    BY <1>9, <2>1 DEF Write, GoTo, VerdictsHold, ColorComesFirst, ColorPending
  <2> QED BY <2>1, <2>2, <2>3 DEF CompletedIsPrinted
<1>10. ASSUME NEW w \in Workers, WorkerCrash(w) PROVE CompletedIsPrinted'
  BY <1>10 DEF WorkerCrash, childVars, approvalVars, agentVars, TypeOK, CompletedIsPrinted
<1>11. ASSUME NEW c \in Cancels, NEW p \in Pipelines, BeginCancel(c, p) PROVE CompletedIsPrinted'
  BY <1>11 DEF BeginCancel, LockFree, childVars, approvalVars, agentVars, TypeOK, CompletedIsPrinted
<1>12. ASSUME NEW c \in Cancels, CloseColor(c) PROVE CompletedIsPrinted'
  BY <1>12 DEF CloseColor, CompletedIsPrinted, TypeOK
<1>13. ASSUME NEW c \in Cancels, WriteCancelled(c) PROVE CompletedIsPrinted'
  BY <1>13 DEF WriteCancelled, Answered, Update, childVars, approvalVars, agentVars, TypeOK,
     CompletedIsPrinted
<1>14. ASSUME NEW c \in Cancels, GiveUpCancel(c) PROVE CompletedIsPrinted'
  BY <1>14 DEF GiveUpCancel, Answered, childVars, approvalVars, agentVars, TypeOK,
     CompletedIsPrinted
<1>15. ASSUME NEW p \in Pipelines, JobEnds(p) PROVE CompletedIsPrinted'
  BY <1>15 DEF JobEnds, childVars, approvalVars, agentVars, TypeOK, CompletedIsPrinted
<1>16. ASSUME NEW p \in Pipelines, DeleteJob(p) PROVE CompletedIsPrinted'
  BY <1>16 DEF DeleteJob, childVars, approvalVars, agentVars, TypeOK, CompletedIsPrinted
<1>17. ASSUME NEW p \in Pipelines, ColorGoes(p) PROVE CompletedIsPrinted'
  BY <1>17, ColorWorks DEF CompletedIsPrinted, TypeOK, ColorPending
<1>18. ASSUME NEW p \in Pipelines, DeliveryGoes(p) PROVE CompletedIsPrinted'
  BY <1>18, DeliveryWorks DEF CompletedIsPrinted, TypeOK, DeliveryEnds
<1>19. ASSUME NEW a \in Approvals, NEW p \in Pipelines, Grant(a, p) PROVE CompletedIsPrinted'
  BY <1>19 DEF Grant, childVars, approvalVars, agentVars, TypeOK, CompletedIsPrinted
<1>20. ASSUME NEW a \in Approvals, Lapse(a) PROVE CompletedIsPrinted'
  BY <1>20 DEF Lapse, childVars, approvalVars, agentVars, TypeOK, CompletedIsPrinted
<1>21. CASE UNCHANGED vars
  BY <1>21 DEF vars, agentVars, TypeOK, CompletedIsPrinted
<1> QED
  BY <1>1, <1>2, <1>3, <1>4, <1>5, <1>6, <1>7, <1>8, <1>9, <1>10, <1>11, <1>12, <1>13, <1>14,
     <1>15, <1>16, <1>17, <1>18, <1>19, <1>20, <1>21
  DEF Next, WorkerStep, AdvanceEnds, CancelStep

-----------------------------------------------------------------------------
(* The source                                                               *)

JobsKept == \A p \in Pipelines : Open(p) \/ color[p] \in ColorPending => job[p] # "DELETED"

(* What a worker prepares is an open pipeline's, so its job is kept too.    *)
LEMMA JobsKeptSuffices ==
  ASSUME TypeOK, ReadingsHold, LockHeld, JobsKept
  PROVE  SourceKept
<1>1. ASSUME NEW w \in Workers, Advancing(w) PROVE job[value[w].id] # "DELETED"
  BY <1>1, Holding DEF JobsKept, Open
<1> QED BY <1>1 DEF SourceKept, JobsKept

(* The job of an open pipeline and of a pending color attempt is not deleted. *)
LEMMA JobsStep ==
  ASSUME TypeOK, LockHeld, ReadingsHold, ClosingsHold, JobsKept, [Next]_vars
  PROVE  JobsKept'
<1> USE PipelineAssumption
<1>1. ASSUME NEW p \in Pipelines, Create(p) PROVE JobsKept'
  BY <1>1 DEF Create, childVars, approvalVars, agentVars, TypeOK, JobsKept, Open
<1>2. ASSUME NEW p \in Pipelines, NEW a \in Approvals \cup {NoApproval}, Resume(p, a) PROVE JobsKept'
  BY <1>2 DEF Resume, Update, Read, childVars, approvalVars, agentVars, TypeOK, JobsKept, Open
<1>3. ASSUME NEW w \in Workers, StartPass(w) PROVE JobsKept'
  BY <1>3 DEF StartPass, GoTo, LockFree, childVars, approvalVars, agentVars, TypeOK, JobsKept, Open
<1>4. ASSUME NEW w \in Workers, ReadRow(w) PROVE JobsKept'
  BY <1>4 DEF ReadRow, GoTo, childVars, approvalVars, agentVars, TypeOK, JobsKept, Open
<1>5. ASSUME NEW w \in Workers, EndPass(w) PROVE JobsKept'
  BY <1>5 DEF EndPass, GoTo, childVars, approvalVars, agentVars, TypeOK, JobsKept, Open
<1>6. ASSUME NEW w \in Workers, SeeNoDelivery(w) PROVE JobsKept'
  BY <1>6 DEF SeeNoDelivery, GoTo, childVars, approvalVars, agentVars, TypeOK, JobsKept, Open
<1>7. ASSUME NEW w \in Workers, Prepare(w) PROVE JobsKept'
  BY <1>7 DEF Prepare, GoTo, childVars, approvalVars, agentVars, TypeOK, JobsKept, Open
<1>8. ASSUME NEW w \in Workers, AdvanceEnds(w) PROVE JobsKept'
  <2>1. Returned(w)
    BY <1>8, AdvanceReturns
  <2>2. \A q \in Pipelines : color'[q] \in ColorPending => color[q] \in ColorPending \/ job[q] = "COMPLETED"
    BY <2>1 DEF Returned, StartsColor, StartsDelivery, TypeOK
  <2> QED BY <2>1, <2>2 DEF Returned, JobsKept, Open
<1>9. ASSUME NEW w \in Workers, Write(w) PROVE JobsKept'
  <2>1. value[w].id \in Pipelines /\ Open(value[w].id) /\ UNCHANGED <<color, job>>
    BY <1>9, Holding DEF Write, GoTo, Advancing, childVars, Open
  <2>2. \A q \in Pipelines : row'[q] = row[q] \/ q = value[w].id
    BY <1>9, <2>1 DEF Write, Update, TypeOK
  <2> QED BY <2>1, <2>2 DEF JobsKept, Open
<1>10. ASSUME NEW w \in Workers, WorkerCrash(w) PROVE JobsKept'
  BY <1>10 DEF WorkerCrash, childVars, approvalVars, agentVars, TypeOK, JobsKept, Open
<1>11. ASSUME NEW c \in Cancels, NEW p \in Pipelines, BeginCancel(c, p) PROVE JobsKept'
  BY <1>11 DEF BeginCancel, LockFree, childVars, approvalVars, agentVars, TypeOK, JobsKept, Open
<1>12. ASSUME NEW c \in Cancels, CloseColor(c) PROVE JobsKept'
  <2>1. \A q \in Pipelines : color'[q] \in ColorPending => color[q] \in ColorPending
    BY <1>12 DEF CloseColor, TypeOK, ColorPending
  <2> QED BY <1>12, <2>1 DEF CloseColor, JobsKept, Open
<1>13. ASSUME NEW c \in Cancels, WriteCancelled(c) PROVE JobsKept'
  <2>1. value[c].id \in Pipelines /\ Open(value[c].id) /\ UNCHANGED <<color, job>>
    BY <1>13 DEF WriteCancelled, ClosingsHold, Closing, Values, childVars
  <2>2. \A q \in Pipelines : row'[q] = row[q] \/ q = value[c].id
    BY <1>13, <2>1 DEF WriteCancelled, Update, TypeOK
  <2> QED BY <2>1, <2>2 DEF JobsKept, Open
<1>14. ASSUME NEW c \in Cancels, GiveUpCancel(c) PROVE JobsKept'
  BY <1>14 DEF GiveUpCancel, Answered, childVars, approvalVars, agentVars, TypeOK, JobsKept, Open
<1>15. ASSUME NEW p \in Pipelines, JobEnds(p) PROVE JobsKept'
  BY <1>15 DEF JobEnds, JobOutcomes, JobsKept, Open, TypeOK
<1>16. ASSUME NEW p \in Pipelines, DeleteJob(p) PROVE JobsKept'
  BY <1>16 DEF DeleteJob, Deletable, JobsKept, Open, TypeOK, Terminal, Paused, Active
<1>17. ASSUME NEW p \in Pipelines, ColorGoes(p) PROVE JobsKept'
  <2>1. \A q \in Pipelines : color'[q] \in ColorPending => color[q] \in ColorPending
    BY <1>17, ColorWorks DEF TypeOK
  <2> QED BY <1>17, <2>1, ColorWorks DEF JobsKept, Open
<1>18. ASSUME NEW p \in Pipelines, DeliveryGoes(p) PROVE JobsKept'
  BY <1>18, DeliveryWorks DEF JobsKept, Open
<1>19. ASSUME NEW a \in Approvals, NEW p \in Pipelines, Grant(a, p) PROVE JobsKept'
  BY <1>19 DEF Grant, childVars, approvalVars, agentVars, TypeOK, JobsKept, Open
<1>20. ASSUME NEW a \in Approvals, Lapse(a) PROVE JobsKept'
  BY <1>20 DEF Lapse, childVars, approvalVars, agentVars, TypeOK, JobsKept, Open
<1>21. CASE UNCHANGED vars
  BY <1>21 DEF vars, agentVars, TypeOK, JobsKept, Open
<1> QED
  BY <1>1, <1>2, <1>3, <1>4, <1>5, <1>6, <1>7, <1>8, <1>9, <1>10, <1>11, <1>12, <1>13, <1>14,
     <1>15, <1>16, <1>17, <1>18, <1>19, <1>20, <1>21
  DEF Next, WorkerStep, AdvanceEnds, CancelStep


-----------------------------------------------------------------------------
(* The inductive invariant                                                  *)

(* Nothing is under way at the start. *)
LEMMA InitInv == Init => IInv
<1> SUFFICES ASSUME Init PROVE IInv
  OBVIOUS
<1>1. TypeOK
  BY InitType
<1>2. LockHeld
  BY PipelineAssumption DEF Init, LockHeld, Closing
<1>3. ReadingsHold /\ VerdictsHold /\ ClosingsHold
  BY DEF Init, ReadingsHold, VerdictsHold, ClosingsHold, Advancing, Closing
<1>4. ColorComesFirst /\ CancelledIsQuiet /\ CompletedIsPrinted
  BY DEF Init, ColorComesFirst, CancelledIsQuiet, CompletedIsPrinted
<1>5. SourceKept
  BY DEF Init, SourceKept, Advancing
<1> QED BY <1>1, <1>2, <1>3, <1>4, <1>5 DEF IInv

(* Every step keeps the parts together. *)
LEMMA InvStep == IInv /\ [Next]_vars => IInv'
<1> SUFFICES ASSUME IInv, [Next]_vars PROVE IInv'
  OBVIOUS
<1>1. TypeOK' /\ LockHeld' /\ ReadingsHold'
  BY TypeStep, LockStep, ReadingsStep DEF IInv
<1>2. VerdictsHold' /\ ClosingsHold' /\ ColorComesFirst'
  BY VerdictsStep, ClosingsStep, ColorFirstStep DEF IInv
<1>3. CancelledIsQuiet' /\ CompletedIsPrinted'
  BY QuietStep, PrintedStep DEF IInv
<1>4. SourceKept'
  <2>1. JobsKept
    BY DEF IInv, SourceKept, JobsKept
  <2>2. JobsKept'
    BY <2>1, JobsStep DEF IInv
  <2>3. \A w \in Workers : Advancing(w)' => job'[value'[w].id] # "DELETED"
    <3> SUFFICES ASSUME NEW w \in Workers, Advancing(w)' PROVE job'[value'[w].id] # "DELETED"
      OBVIOUS
    <3>1. /\ value'[w] \in Values /\ value'[w].state \in Active
          /\ value'[w] = Read(value[w].id)'
      BY <1>1 DEF ReadingsHold, Advancing
    <3>2. row'[value'[w].id].state \in Active
      BY <3>1 DEF Read
    <3> QED BY <2>2, <3>1, <3>2 DEF JobsKept, Open, Values
  <2> QED BY <2>2, <2>3 DEF SourceKept, JobsKept
<1> QED BY <1>1, <1>2, <1>3, <1>4 DEF IInv

(* Every variable of the tables, the lock, the workers and the requests     *)
(* keeps its type.                                                          *)
THEOREM TypeCorrect == Spec => []TypeOK
<1>1. IInv => TypeOK
  BY DEF IInv
<1> QED BY <1>1, InitInv, InvStep, PTL DEF Spec

(* Whatever a worker or a cancel request has read of a pipeline under the   *)
(* lock still holds when it writes, or its write is refused.                *)
THEOREM PipelineInvariant == Spec => []IInv
BY InitInv, InvStep, PTL DEF Spec

-----------------------------------------------------------------------------
(* What it is for                                                           *)

(* Nothing of a cancelled pipeline is waiting, running, printing or printed *)
(* (cancel and advance under pipeline-worker.lock).                         *)
THEOREM CancelledStaysQuiet == Spec => []CancelledIsQuiet
<1>1. IInv => CancelledIsQuiet
  BY DEF IInv
<1> QED BY <1>1, PipelineInvariant, PTL

(* A completed pipeline was printed, from its color attempt (advance).      *)
THEOREM CompletedWasPrinted == Spec => []CompletedIsPrinted
<1>1. IInv => CompletedIsPrinted
  BY DEF IInv
<1> QED BY <1>1, PipelineInvariant, PTL

(* No job is deleted under an open pipeline, a pending color attempt or a   *)
(* worker at work (Repository::delete).                                     *)
THEOREM SourceStays == Spec => []SourceKept
<1>1. IInv => SourceKept
  BY DEF IInv
<1> QED BY <1>1, PipelineInvariant, PTL

(* A color attempt or a delivery appears only through the advance of the    *)
(* worker that holds the lock.                                              *)
LEMMA ChildrenAppear ==
  ASSUME IInv, [Next]_vars, NEW p \in Pipelines,
         (color[p] = "NONE" /\ color'[p] # "NONE") \/ (delivery[p] = "NONE" /\ delivery'[p] # "NONE")
  PROVE  \E w \in Workers : /\ Returned(w) /\ value[w].id = p
                            /\ delivery[p] = "NONE" /\ delivery'[p] # "NONE" => StartsDelivery(w)
<1> DEFINE Goal == \E w \in Workers : /\ Returned(w) /\ value[w].id = p
                                      /\ delivery[p] = "NONE" /\ delivery'[p] # "NONE" => StartsDelivery(w)
<1> USE DEF IInv
<1>1. ASSUME NEW w \in Workers, AdvanceEnds(w) PROVE Goal
  <2>1. Returned(w)
    BY <1>1, AdvanceReturns
  <2>2. value[w].id \in Pipelines
    BY <2>1, ReturnedHolds, Holding
  <2>3. value[w].id = p /\ (delivery[p] = "NONE" /\ delivery'[p] # "NONE" => StartsDelivery(w))
    BY <2>1, <2>2 DEF Returned, StartsColor, StartsDelivery, TypeOK
  <2> QED BY <2>1, <2>3
<1>2. ASSUME NEW c \in Cancels, CloseColor(c) PROVE Goal
  BY <1>2 DEF CloseColor, TypeOK
<1>3. ASSUME NEW q \in Pipelines, ColorGoes(q) PROVE Goal
  BY <1>3, ColorWorks DEF TypeOK, ColorPending
<1>4. ASSUME NEW q \in Pipelines, DeliveryGoes(q) PROVE Goal
  BY <1>4, DeliveryWorks DEF TypeOK
<1>5. CASE UNCHANGED <<color, delivery>>
  BY <1>5
<1>6. \/ \E w \in Workers : AdvanceEnds(w)
      \/ \E c \in Cancels : CloseColor(c)
      \/ \E q \in Pipelines : ColorGoes(q) \/ DeliveryGoes(q)
      \/ UNCHANGED <<color, delivery>>
  BY DEF Next, WorkerStep, AdvanceEnds, CancelStep, Create, Resume, StartPass, ReadRow, EndPass,
     SeeNoDelivery,
         Prepare, Write, WorkerCrash, BeginCancel, WriteCancelled, GiveUpCancel, JobEnds, DeleteJob, Grant, Lapse,
         vars, childVars
<1> QED BY <1>1, <1>2, <1>3, <1>4, <1>5, <1>6

(* Children are created only for a pipeline that is active then, however    *)
(* long ago the worker read it (advance, under the lock).                   *)
THEOREM OnlyActiveHaveChildren == Spec => ChildrenOfActive
<1> DEFINE A == \A p \in Pipelines :
       (color[p] = "NONE" /\ color'[p] # "NONE") \/ (delivery[p] = "NONE" /\ delivery'[p] # "NONE")
         => row[p].state \in Active
<1>1. IInv /\ [Next]_vars => [A]_vars
  BY ChildrenAppear, ReturnedHolds, Holding DEF IInv
<1> QED BY <1>1, PipelineInvariant, PTL DEF Spec, ChildrenOfActive

(* Where approval is required, no delivery is created without one that was  *)
(* granted for the pipeline and is in force (enqueue_contract_delivery).    *)
THEOREM NothingPrintsUnapproved == Spec => PrintedWithApproval
<1> DEFINE A == \A p \in Pipelines : RequireApproval /\ delivery[p] = "NONE" /\ delivery'[p] # "NONE" =>
       \E a \in Approvals \ lapsed : grant[a] = p /\ row[p].approval = a
<1>1. IInv /\ [Next]_vars => A
  <2> SUFFICES ASSUME IInv, [Next]_vars, NEW p \in Pipelines,
                      RequireApproval, delivery[p] = "NONE", delivery'[p] # "NONE"
      PROVE  \E a \in Approvals \ lapsed : grant[a] = p /\ row[p].approval = a
    OBVIOUS
  <2>1. PICK w \in Workers : Returned(w) /\ value[w].id = p /\ StartsDelivery(w)
    BY ChildrenAppear
  <2>2. value[w] = Read(p)
    BY <2>1, ReturnedHolds DEF IInv, ReadingsHold
  <2>3. Approved(value[w])
    BY <2>1 DEF StartsDelivery
  <2> QED BY <2>1, <2>2, <2>3 DEF Approved, Read
<1>2. IInv /\ [Next]_vars => [A]_vars
  BY <1>1
<1> QED BY <1>2, PipelineInvariant, PTL DEF Spec, PrintedWithApproval

-----------------------------------------------------------------------------
(* Refinement                                                               *)

(* A write of a state that is no end, over an open row, is not seen.        *)
LEMMA OpenWrite ==
  ASSUME TypeOK, NEW p \in Pipelines, \A q \in Pipelines \ {p} : row'[q] = row[q],
         row[p].state \notin Terminal, row'[p].state \notin Terminal
  PROVE  ended' = ended
BY DEF ended

(* The write of an end over an open row ends the pipeline.                  *)
LEMMA EndWrite ==
  ASSUME TypeOK, NEW p \in Pipelines, \A q \in Pipelines \ {p} : row'[q] = row[q],
         row[p].state \notin Terminal, row'[p].state \in Terminal,
         row'[p].state = "COMPLETED" => delivery[p] = "COMPLETED",
         row'[p].state = "CANCELLED" => delivery[p] \in {"NONE", "CANCELLED"},
         delivery' = delivery
  PROVE  Promise!Next
<1> DEFINE verdict == row'[p].state
<1>1. child' = child
  BY DEF child
<1>2. ended[p] = "open"
  BY DEF ended
<1>3. ended' = [ended EXCEPT ![p] = verdict]
  BY DEF ended
<1>4. verdict = "COMPLETED" => child[p] = "printed"
  BY DEF child
<1>5. verdict = "CANCELLED" => child[p] \in {"none", "withdrawn"}
  BY DEF child
<1>6. Promise!End(p, verdict) /\ verdict \in Promise!Ends
  BY <1>1, <1>2, <1>3, <1>4, <1>5 DEF Promise!End, Promise!Ends, Terminal
<1> QED BY <1>6 DEF Promise!Next

(* Every step is a step of the promise, or none of its business.            *)
LEMMA PromiseStep ==
  ASSUME IInv, [Next]_vars
  PROVE  [Promise!Next]_(Promise!promiseVars)
<1> DEFINE Unseen == child' = child /\ ended' = ended
<1> USE DEF IInv
<1>a. ASSUME Unseen PROVE UNCHANGED Promise!promiseVars
  BY <1>a DEF Promise!promiseVars
<1>1. CASE UNCHANGED <<row, delivery>>
  BY <1>1, <1>a DEF child, ended
<1>2. ASSUME NEW p \in Pipelines, Create(p) PROVE Unseen
  <2>1. delivery' = delivery
    BY <1>2 DEF Create, childVars
  <2>2. /\ row'[p].state = "QUEUED" /\ row[p].state = "ABSENT"
        /\ \A q \in Pipelines \ {p} : row'[q] = row[q]
    BY <1>2 DEF Create, TypeOK, Rows
  <2> QED BY <2>1, <2>2, OpenWrite DEF child, Terminal
<1>3. ASSUME NEW p \in Pipelines, NEW a \in Approvals \cup {NoApproval}, Resume(p, a) PROVE Unseen
  <2>1. delivery' = delivery
    BY <1>3 DEF Resume, childVars
  <2>2. /\ row'[p].state = "QUEUED" /\ row[p].state \in Paused
        /\ \A q \in Pipelines \ {p} : row'[q] = row[q]
    BY <1>3 DEF Resume, Update, Read, TypeOK
  <2> QED BY <2>1, <2>2, OpenWrite DEF child, Terminal, Paused
<1>4. ASSUME NEW w \in Workers, AdvanceEnds(w) PROVE Unseen \/ Promise!Next
  <2> DEFINE p == value[w].id
  <2>1. Returned(w) /\ p \in Pipelines /\ row[p].state \in Active /\ row' = row
    BY <1>4, AdvanceReturns, ReturnedHolds, Holding DEF Returned
  <2>2. ended' = ended /\ ended[p] = "open"
    BY <2>1 DEF ended, Active, Terminal
  <2>3. CASE delivery' = delivery
    BY <2>2, <2>3 DEF child
  <2>4. CASE StartsDelivery(w)
    <3>1. delivery[p] = "NONE" /\ delivery' = [delivery EXCEPT ![p] = "QUEUED"]
      BY <2>4 DEF StartsDelivery
    <3>2. child[p] = "none"
      BY <2>1, <3>1 DEF child
    <3>3. child' = [child EXCEPT ![p] = "running"]
      BY <2>1, <3>1 DEF child, TypeOK
    <3>4. Promise!Deliver(p)
      BY <2>2, <3>2, <3>3 DEF Promise!Deliver
    <3> QED BY <2>1, <3>4 DEF Promise!Next
  <2> QED BY <2>1, <2>3, <2>4 DEF Returned, StartsColor
<1>5. ASSUME NEW w \in Workers, Write(w) PROVE Unseen \/ Promise!Next
  <2> DEFINE p == value[w].id
  <2>1. p \in Pipelines /\ row[p].state \in Active /\ delivery' = delivery
    BY <1>5, Holding DEF Write, GoTo, Advancing, childVars
  <2>2. CASE row' = row
    BY <2>1, <2>2 DEF child, ended
  <2>3. CASE Update(value[w], result[w].state, result[w].reason, value[w].approval)
    <3>1. row'[p].state = result[w].state /\ \A q \in Pipelines \ {p} : row'[q] = row[q]
      BY <2>1, <2>3 DEF Update, TypeOK
    <3>2. /\ result[w].state = "COMPLETED" => delivery[p] = "COMPLETED"
          /\ result[w].state = "CANCELLED" => delivery[p] = "CANCELLED"
      BY <1>5 DEF Write, GoTo, VerdictsHold
    <3>3. CASE result[w].state \in Terminal
      BY <2>1, <3>1, <3>2, <3>3, EndWrite DEF Active, Terminal
    <3>4. CASE result[w].state \notin Terminal
      <4>1. ended' = ended
        BY <2>1, <3>1, <3>4, OpenWrite DEF Active, Terminal
      <4> QED BY <2>1, <4>1 DEF child
    <3> QED BY <3>3, <3>4
  <2> QED BY <1>5, <2>2, <2>3 DEF Write
<1>6. ASSUME NEW c \in Cancels, WriteCancelled(c) PROVE Unseen \/ Promise!Next
  <2> DEFINE p == value[c].id
  <2>1. p \in Pipelines /\ Open(p) /\ delivery[p] = "NONE" /\ delivery' = delivery
    BY <1>6 DEF WriteCancelled, ClosingsHold, Closing, Values, childVars
  <2>2. CASE row' = row
    BY <2>1, <2>2 DEF child, ended
  <2>3. CASE Update(value[c], "CANCELLED", "CANCELLED_BEFORE_DELIVERY", NoApproval)
    <3>1. row'[p].state = "CANCELLED" /\ \A q \in Pipelines \ {p} : row'[q] = row[q]
      BY <2>1, <2>3 DEF Update, TypeOK
    <3> QED BY <2>1, <3>1, EndWrite DEF Open, Active, Paused, Terminal
  <2> QED BY <1>6, <2>2, <2>3 DEF WriteCancelled
<1>7. ASSUME NEW p \in Pipelines, DeliveryGoes(p) PROVE Unseen \/ Promise!Next
  <2>1. ended' = ended
    BY <1>7, DeliveryWorks DEF ended
  <2>2. PICK next \in DeliveryStates \ {"NONE"} : delivery' = [delivery EXCEPT ![p] = next]
    BY <1>7, DeliveryWorks
  <2>3. child[p] = "running"
    BY <1>7, DeliveryWorks DEF child, DeliveryEnds, TypeOK, DeliveryStates
  <2>4. /\ child' = [child EXCEPT ![p] = child'[p]]
        /\ child'[p] \in {"running", "printed", "withdrawn", "failed"}
    BY <2>2 DEF child, TypeOK
  <2>5. CASE child'[p] = "running"
    BY <2>1, <2>3, <2>4, <2>5 DEF child
  <2>6. CASE child'[p] # "running"
    <3>1. Promise!ChildEnds(p, child'[p]) /\ child'[p] \in Promise!Children \ {"none", "running"}
      BY <2>1, <2>3, <2>4, <2>6 DEF Promise!ChildEnds, Promise!Children
    <3> QED BY <3>1 DEF Promise!Next
  <2> QED BY <2>5, <2>6
<1>8. \/ UNCHANGED <<row, delivery>>
      \/ \E p \in Pipelines : Create(p) \/ DeliveryGoes(p) \/ \E a \in Approvals \cup {NoApproval} : Resume(p, a)
      \/ \E w \in Workers : AdvanceEnds(w) \/ Write(w)
      \/ \E c \in Cancels : WriteCancelled(c)
  BY DEF Next, WorkerStep, AdvanceEnds, CancelStep, StartPass, ReadRow, EndPass, SeeNoDelivery,
     Prepare,
         WorkerCrash, BeginCancel, CloseColor, GiveUpCancel, JobEnds, DeleteJob, ColorGoes, Grant, Lapse,
         vars, childVars
<1> QED BY <1>1, <1>2, <1>3, <1>4, <1>5, <1>6, <1>7, <1>8, <1>a

(* The workers, the cancel and resume requests and the lock implement the   *)
(* promise: one delivery, one end, and an end that is true.                 *)
THEOREM PipelineKeepsPromise == Spec => KeepsPromise
<1>1. Init => Promise!Init
  BY DEF Init, Promise!Init, child, ended, Terminal
<1>2. IInv /\ [Next]_vars => [Promise!Next]_(Promise!promiseVars)
  BY PromiseStep
<1> QED BY <1>1, <1>2, PipelineInvariant, PTL DEF Spec, KeepsPromise, Promise!Spec


=============================================================================
