---------------------------- MODULE JobLifecycle ----------------------------
(***************************************************************************)
(* What the job queue promises to whoever submits a job, with no process,  *)
(* lease, revision or crash in sight: the job waits, runs at most once,    *)
(* and ends at most once; the receipt, where one was promised, appears in  *)
(* the same step as the outcome and tells that outcome for ever; a job     *)
(* that runs does end.                                                      *)
(***************************************************************************)
CONSTANT Jobs

VARIABLES
  phase,     \* phase[j]: see Phases
  promised,  \* the jobs accepted with a receipt
  recorded   \* recorded[j]: the outcome on the result receipt, or "none"

lifecycleVars == <<phase, promised, recorded>>

Outcomes == {"COMPLETED", "CANCELLED", "FAILED"}
Phases == {"absent", "waiting", "running", "removed"} \cup Outcomes

Init ==
  /\ phase = [j \in Jobs |-> "absent"]
  /\ promised = {}
  /\ recorded = [j \in Jobs |-> "none"]

Submit(j) ==
  /\ phase[j] = "absent"
  /\ phase' = [phase EXCEPT ![j] = "waiting"]
  /\ promised' \in {promised, promised \cup {j}}
  /\ UNCHANGED recorded

Start(j) ==
  /\ phase[j] = "waiting"
  /\ phase' = [phase EXCEPT ![j] = "running"]
  /\ UNCHANGED <<promised, recorded>>

(* Some jobs end with one outcome; only running jobs are completed. *)
End(js, outcome) ==
  /\ \A j \in js : phase[j] = "running" \/ (phase[j] = "waiting" /\ outcome # "COMPLETED")
  /\ phase' = [j \in Jobs |-> IF j \in js THEN outcome ELSE phase[j]]
  /\ recorded' = [j \in Jobs |-> IF j \in js \cap promised THEN outcome ELSE recorded[j]]
  /\ UNCHANGED promised

Remove(j) ==
  /\ phase[j] \in Outcomes
  /\ phase' = [phase EXCEPT ![j] = "removed"]
  /\ UNCHANGED <<promised, recorded>>

Next ==
  \/ \E j \in Jobs : Submit(j) \/ Start(j) \/ Remove(j)
  \/ \E js \in SUBSET Jobs, outcome \in Outcomes : End(js, outcome)

Safety == Init /\ [][Next]_lifecycleVars

EndRunning(j) ==
  \E js \in SUBSET Jobs, outcome \in Outcomes :
    j \in js /\ phase[j] = "running" /\ End(js, outcome)

Spec == Safety /\ \A j \in Jobs : WF_lifecycleVars(EndRunning(j))
=============================================================================
