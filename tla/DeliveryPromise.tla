-------------------------- MODULE DeliveryPromise --------------------------
(***************************************************************************)
(* What explicit printer delivery promises, with no worker, lease or       *)
(* network in sight: a document is handed to the printer at most once, the *)
(* printer begins it at most once and never after the delivery has been    *)
(* settled, and a delivery is settled once, with a verdict that does not   *)
(* contradict what was handed over and begun.                               *)
(***************************************************************************)
EXTENDS Naturals

CONSTANT Deliveries

VARIABLES
  handed,  \* handed[d]: how often d was handed to the printer
  begun,   \* the deliveries the printer has made a job of
  verdict  \* verdict[d]: the final state, or "open"

promiseVars == <<handed, begun, verdict>>

Verdicts == {"COMPLETED", "CANCELLED", "ABORTED", "REJECTED"}

Init ==
  /\ handed = [d \in Deliveries |-> 0]
  /\ begun = {}
  /\ verdict = [d \in Deliveries |-> "open"]

Hand(d) ==
  /\ verdict[d] = "open"
  /\ handed[d] = 0
  /\ handed' = [handed EXCEPT ![d] = 1]
  /\ UNCHANGED <<begun, verdict>>

Begin(d) ==
  /\ verdict[d] = "open"
  /\ handed[d] = 1
  /\ d \notin begun
  /\ begun' = begun \cup {d}
  /\ UNCHANGED <<handed, verdict>>

Settle(d, v) ==
  /\ verdict[d] = "open"
  /\ v \in {"COMPLETED", "ABORTED"} => d \in begun
  /\ v = "REJECTED" => d \notin begun
  /\ v = "CANCELLED" => (handed[d] = 1 <=> d \in begun)
  /\ verdict' = [verdict EXCEPT ![d] = v]
  /\ UNCHANGED <<handed, begun>>

Next == \E d \in Deliveries : Hand(d) \/ Begin(d) \/ \E v \in Verdicts : Settle(d, v)

Spec == Init /\ [][Next]_promiseVars
=============================================================================
