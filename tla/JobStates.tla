----------------------------- MODULE JobStates -----------------------------
(***************************************************************************)
(* The state machine of one print job: `JobState` of rip-core.  Every      *)
(* writer of the job table consults this table on the state it has READ,   *)
(* before it compares the revision it has read with the stored one.        *)
(***************************************************************************)

JobStates ==
  { "RECEIVED", "VALIDATING", "PREFLIGHT", "QUEUED", "RIPPING",
    "COLOR_PROCESSING", "HALFTONING", "SPOOLING", "PRINTING",
    "COMPLETED", "HELD", "CANCELLED", "FAILED" }

Terminal == { "COMPLETED", "CANCELLED", "FAILED" }

(* JobState::transition: the pairs of its `matches!`, and the two ends any *)
(* job that has not ended may meet.                                         *)
Forward ==
  { <<"RECEIVED", "VALIDATING">>,
    <<"VALIDATING", "PREFLIGHT">>, <<"VALIDATING", "QUEUED">>, <<"VALIDATING", "HELD">>,
    <<"PREFLIGHT", "QUEUED">>, <<"PREFLIGHT", "HELD">>,
    <<"QUEUED", "RIPPING">>, <<"QUEUED", "HELD">>,
    <<"HELD", "QUEUED">>,
    <<"RIPPING", "COLOR_PROCESSING">>, <<"RIPPING", "SPOOLING">>,
    <<"COLOR_PROCESSING", "HALFTONING">>, <<"COLOR_PROCESSING", "SPOOLING">>,
    <<"HALFTONING", "SPOOLING">>,
    <<"SPOOLING", "PRINTING">>, <<"SPOOLING", "COMPLETED">>,
    <<"PRINTING", "COMPLETED">> }

Allowed(from, next) ==
  \/ <<from, next>> \in Forward
  \/ from \in JobStates \ Terminal /\ next \in {"CANCELLED", "FAILED"}

(* The states in which a worker is using the job (reconcile_worker_exit). *)
Processing ==
  { "RIPPING", "COLOR_PROCESSING", "HALFTONING", "SPOOLING", "PRINTING" }
=============================================================================
