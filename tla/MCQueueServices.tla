---------------------------- MODULE MCQueueServices ----------------------------
(* One instance for TLC of the queue of jobs, of the audit evidence and of the  *)
(* snapshots of artifacts, which share no state: the first state chooses one of *)
(* them and only it takes steps.                                                *)
EXTENDS MCJobQueue, AuditEvidence, Snapshots

VARIABLE part

Start ==
  /\ part \in {"queue", "audit", "snapshots"}
  /\ Init /\ EvidenceInit /\ SnapInit
  /\ part # "audit" => provider = "plain"

Step ==
  \/ part = "queue" /\ Next /\ UNCHANGED <<part, evidenceVars, snapVars>>
  \/ part = "audit" /\ EvidenceNext /\ UNCHANGED <<part, vars, snapVars>>
  \/ part = "snapshots" /\ SnapNext /\ UNCHANGED <<part, vars, evidenceVars>>

PartsSpec == Start /\ [][Step]_<<part, vars, evidenceVars, snapVars>>
=============================================================================
