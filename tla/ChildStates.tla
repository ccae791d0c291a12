---------------------------- MODULE ChildStates ----------------------------
(* How the children of a pipeline change their states, as the pipeline and   *)
(* everyone else that reads their rows count on: the transitions the storage *)
(* accepts, without the ones that keep the state.                            *)

(* QUEUED to CANCELLED is a color attempt's own cancel request. *)
ColorMoves ==
  {<<"QUEUED", "RUNNING">>, <<"QUEUED", "CANCELLED">>,
   <<"RUNNING", "COMPLETED">>, <<"RUNNING", "FAILED">>}

(* From UNKNOWN only by an administrator's reconciliation. *)
DeliveryMoves ==
  {<<"QUEUED", "SENDING">>, <<"QUEUED", "CANCELLED">>}
  \cup {"SENDING"} \X {"ACCEPTED", "REJECTED", "UNKNOWN"}
  \cup {"UNKNOWN"} \X {"ACCEPTED", "COMPLETED", "CANCELLED", "ABORTED"}
  \cup {"ACCEPTED"} \X {"COMPLETED", "CANCELLED", "ABORTED"}
=============================================================================
