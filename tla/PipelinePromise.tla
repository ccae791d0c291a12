-------------------------- MODULE PipelinePromise --------------------------
(***************************************************************************)
(* What a follow-on pipeline promises its creator, with no worker, lock or *)
(* revision in sight: it hands its job to a printer at most once and only  *)
(* while it is open, it ends once, and it ends COMPLETED only if the device *)
(* printed and CANCELLED only if nothing was or will be printed.            *)
(***************************************************************************)
CONSTANT Pipelines

VARIABLES
  child, \* child[p]: what became of p's delivery
  ended  \* ended[p]: the final state of p, or "open"

promiseVars == <<child, ended>>

Children == {"none", "running", "printed", "withdrawn", "failed"}
Ends == {"COMPLETED", "FAILED", "CANCELLED"}

Init ==
  /\ child = [p \in Pipelines |-> "none"]
  /\ ended = [p \in Pipelines |-> "open"]

Deliver(p) ==
  /\ ended[p] = "open"
  /\ child[p] = "none"
  /\ child' = [child EXCEPT ![p] = "running"]
  /\ ended' = ended

ChildEnds(p, how) ==
  /\ child[p] = "running"
  /\ child' = [child EXCEPT ![p] = how]
  /\ ended' = ended

End(p, verdict) ==
  /\ ended[p] = "open"
  /\ verdict = "COMPLETED" => child[p] = "printed"
  /\ verdict = "CANCELLED" => child[p] \in {"none", "withdrawn"}
  /\ ended' = [ended EXCEPT ![p] = verdict]
  /\ child' = child

Next ==
  \E p \in Pipelines :
    \/ Deliver(p)
    \/ \E how \in Children \ {"none", "running"} : ChildEnds(p, how)
    \/ \E verdict \in Ends : End(p, verdict)

Spec == Init /\ [][Next]_promiseVars
=============================================================================
