----------------------------- MODULE QueueAging -----------------------------
(***************************************************************************)
(* The order in which the dispatcher serves queued jobs: next_queued_at.   *)
(* The effective priority of a job is its declared one plus one point per  *)
(* interval it has waited, up to the maximum; the oldest of the best goes  *)
(* first.                                                                   *)
(*                                                                         *)
(* A job's created_at is modelled by its age, now - created_at, which is   *)
(* negative after the clock went back.  Above MaxAge ages are not told      *)
(* apart: they stay above the largest age the score looks at, however far   *)
(* the clock still goes back.  What the order looks at beyond that is which *)
(* of two jobs has the smaller (created_at, id): `earlier'.                 *)
(***************************************************************************)
EXTENDS Integers

CONSTANTS
  Jobs,         \* job ids, in the order of their ids
  PriorityMax,  \* RIP_PRIORITY_MAX
  Aging,        \* RIP_PRIORITY_AGING_SECONDS
  MaxRollback   \* bound: how far, all in all, the clock goes back

ASSUME AgingAssumption ==
  /\ Jobs \subseteq Nat
  /\ PriorityMax \in Nat
  /\ Aging \in Nat \ {0}
  /\ MaxRollback \in Nat

VARIABLES
  waiting,   \* the jobs in QUEUED or HELD
  held,      \* those of them in HELD
  priority,  \* the declared priority of a job
  age,       \* now - created_at
  earlier,   \* pairs of waiting jobs, the smaller (created_at, id) first
  rollback   \* how far the clock went back so far

vars == <<waiting, held, priority, age, earlier, rollback>>

Queued == waiting \ held
OldEnough == PriorityMax * Aging
MaxAge == OldEnough + MaxRollback

Least(a, b) == IF a <= b THEN a ELSE b
Greatest(a, b) == IF a <= b THEN b ELSE a

(* MAX(0, MIN(PriorityMax * Aging, now - created_at)) *)
Waited(j) == Greatest(0, Least(OldEnough, age[j]))

(* Variant of Score, the age not limited. *)
ScoreWithoutLimit(j) == priority[j] + Waited(j) \div Aging

(* ORDER BY MIN(PriorityMax, priority + waited / Aging) DESC, ... *)
Score(j) == Least(PriorityMax, priority[j] + Waited(j) \div Aging)

TypeOK ==
  /\ waiting \subseteq Jobs
  /\ held \subseteq waiting
  /\ priority \in [Jobs -> 0..PriorityMax]
  /\ age \in [Jobs -> Int]
  /\ \A j \in waiting : age[j] <= MaxAge
  /\ earlier \subseteq waiting \X waiting
  /\ rollback \in 0..MaxRollback
  /\ \A j \in waiting : Score(j) \in 0..PriorityMax

(* Variant of Precedes, the newest first. *)
NewestFirst(j, k) == <<k, j>> \in earlier

(* ... created_at ASC, id ASC *)
Precedes(j, k) == <<j, k>> \in earlier

IsNext(j) == \A k \in Queued \ {j} : Score(j) > Score(k) \/ (Score(j) = Score(k) /\ Precedes(j, k))

-----------------------------------------------------------------------------
(* created_at of the new job is now: age 0. *)
Submit(j, p) ==
  /\ j \notin waiting
  /\ waiting' = waiting \cup {j}
  /\ priority' = [priority EXCEPT ![j] = p]
  /\ age' = [age EXCEPT ![j] = 0]
  /\ earlier' = earlier
       \cup {<<k, j>> : k \in {k \in waiting : age[k] > 0 \/ (age[k] = 0 /\ k < j)}}
       \cup {<<j, k>> : k \in {k \in waiting : age[k] < 0 \/ (age[k] = 0 /\ j < k)}}
  /\ UNCHANGED <<held, rollback>>

(* Neither hold nor release touches created_at: a held job grows older. *)
Hold(j) == j \in Queued /\ held' = held \cup {j} /\ UNCHANGED <<waiting, priority, age, earlier, rollback>>
Release(j) == j \in held /\ held' = held \ {j} /\ UNCHANGED <<waiting, priority, age, earlier, rollback>>

(* The job leaves the queue; its priority and age concern the order no more. *)
Leave(j) ==
  /\ waiting' = waiting \ {j}
  /\ held' = held \ {j}
  /\ priority' = [priority EXCEPT ![j] = 0]
  /\ age' = [age EXCEPT ![j] = 0]
  /\ earlier' = {pair \in earlier : j \notin {pair[1], pair[2]}}
  /\ UNCHANGED rollback

Cancel(j) == j \in waiting /\ Leave(j)

Dispatch(j) == j \in Queued /\ IsNext(j) /\ Leave(j)

(* A second passes. *)
Tick ==
  /\ age' = [j \in Jobs |-> IF j \in waiting THEN Least(MaxAge, age[j] + 1) ELSE age[j]]
  /\ UNCHANGED <<waiting, held, priority, earlier, rollback>>

ClockBack ==
  /\ rollback < MaxRollback
  /\ rollback' = rollback + 1
  /\ age' = [j \in Jobs |-> IF j \in waiting THEN age[j] - 1 ELSE age[j]]
  /\ UNCHANGED <<waiting, held, priority, earlier>>

Init ==
  /\ waiting = {}
  /\ held = {}
  /\ priority = [j \in Jobs |-> 0]
  /\ age = [j \in Jobs |-> 0]
  /\ earlier = {}
  /\ rollback = 0

Serve == \E j \in Jobs : Dispatch(j)

Next ==
  \/ \E j \in Jobs, p \in 0..PriorityMax : Submit(j, p)
  \/ \E j \in Jobs : Hold(j) \/ Release(j) \/ Cancel(j)
  \/ Serve \/ Tick \/ ClockBack

Spec == Init /\ [][Next]_vars

(* The dispatcher goes on and so does the clock. *)
FairSpec == Spec /\ WF_vars(Serve) /\ WF_vars(Tick)

-----------------------------------------------------------------------------
(* Properties                                                               *)

(* Once a job has waited for the points it lacks, no job that came later   *)
(* is dispatched before it, whatever its priority and however old it gets   *)
(* ("Old queued work eventually ties the highest priority; FIFO then        *)
(* prevents starvation by new arrivals").                                   *)
NoOvertakingOfAged ==
  [][\A j, k \in Jobs :
       /\ Dispatch(k)
       /\ j \in Queued \ {k}
       /\ age[j] >= (PriorityMax - priority[j]) * Aging
       => Precedes(k, j)]_vars

(* Under an endless stream of new jobs of the highest priority every queued *)
(* job is served, held or cancelled.                                        *)
QueuedIsServed == \A j \in Jobs : j \in Queued ~> j \notin Queued
=============================================================================
