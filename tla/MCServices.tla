----------------------------- MODULE MCServices -----------------------------
(***************************************************************************)
(* One instance for TLC of the services that share no state with each      *)
(* other.  The first state chooses one of them, and only it takes steps:   *)
(* the run visits the states of each, and no interleaving of two.          *)
(***************************************************************************)
EXTENDS PrinterObservation, OperationApprovals, Admission,
        EventFeeds, RateLimit, McpSessions, Retention, PageSelection, TLC

VARIABLE service

Services == {"observation", "approvals", "admission", "events", "rate",
             "sessions", "artifacts", "pages"}

servicesVars == <<service, observationVars, opVars, admissionVars,
                  feedVars, rateVars, sessionVars, retentionVars, pageVars>>

(* A pipeline preflight is made for one request id. *)
RequestMap(p) == CHOOSE q \in Requests : TRUE

ServicesInit ==
  /\ service \in Services
  /\ ObservationInit /\ OpInit /\ AdmissionInit /\ FeedInit /\ RateInit
  /\ SessionInit /\ RetentionInit /\ PageInit

OthersStay(s) ==
  /\ UNCHANGED service
  /\ IF s = "observation" THEN TRUE ELSE UNCHANGED observationVars
  /\ IF s = "approvals" THEN TRUE ELSE UNCHANGED opVars
  /\ IF s = "admission" THEN TRUE ELSE UNCHANGED admissionVars
  /\ IF s = "events" THEN TRUE ELSE UNCHANGED feedVars
  /\ IF s = "rate" THEN TRUE ELSE UNCHANGED rateVars
  /\ IF s = "sessions" THEN TRUE ELSE UNCHANGED sessionVars
  /\ IF s = "artifacts" THEN TRUE ELSE UNCHANGED retentionVars
  /\ IF s = "pages" THEN TRUE ELSE UNCHANGED pageVars

ServicesNext ==
  \/ service = "observation" /\ ObservationNext /\ OthersStay("observation")
  \/ service = "approvals" /\ OpNext /\ OthersStay("approvals")
  \/ service = "admission" /\ AdmissionNext /\ OthersStay("admission")
  \/ service = "events" /\ FeedNext /\ OthersStay("events")
  \/ service = "rate" /\ RateNext /\ OthersStay("rate")
  \/ service = "sessions" /\ SessionNext /\ OthersStay("sessions")
  \/ service = "artifacts" /\ RetentionNext /\ OthersStay("artifacts")
  \/ service = "pages" /\ PageNext /\ OthersStay("pages")

ServicesSpec == ServicesInit /\ [][ServicesNext]_servicesVars
=============================================================================
