----------------------------- MODULE MCSchedules -----------------------------
(***************************************************************************)
(* One instance for TLC of four schedules that share no state: the order   *)
(* of the queue, the walk round the printers, the inspection worker and    *)
(* the color worker.  The first state chooses one of them and only it      *)
(* takes steps, under the fairness of its own specification.               *)
(***************************************************************************)
EXTENDS QueueAging, ObserverLoop, Inspection, ColorAttempt

VARIABLE schedules

Schedules == {"queue", "printers", "inspections", "colors"}

schedulesVars == <<schedules, vars, loop, inspectionVars, storeVars, colorVars>>

SchedulesInit ==
  /\ schedules \in Schedules
  /\ Init /\ LoopInit /\ InspectionInit /\ ColorAloneInit

OthersStay(s) ==
  /\ UNCHANGED schedules
  /\ IF s = "queue" THEN TRUE ELSE UNCHANGED vars
  /\ IF s = "printers" THEN TRUE ELSE UNCHANGED loop
  /\ IF s = "inspections" THEN TRUE ELSE UNCHANGED inspectionVars
  /\ IF s = "colors" THEN TRUE ELSE UNCHANGED <<storeVars, colorVars>>

SchedulesNext ==
  \/ schedules = "queue" /\ Next /\ OthersStay("queue")
  \/ schedules = "printers" /\ LoopNext /\ OthersStay("printers")
  \/ schedules = "inspections" /\ InspectionNext /\ OthersStay("inspections")
  \/ schedules = "colors" /\ ColorAloneNext /\ OthersStay("colors")

(* Only one schedule moves, so that a weakly fair choice between actions of *)
(* different ones is a weakly fair action of that one.                      *)
First ==
  \/ schedules = "queue" /\ Serve /\ OthersStay("queue")
  \/ schedules = "printers" /\ EverySecond /\ OthersStay("printers")
  \/ schedules = "inspections" /\ Inspector /\ OthersStay("inspections")
  \/ schedules = "colors" /\ ColorWorker /\ OthersStay("colors")

Second ==
  \/ schedules = "queue" /\ Tick /\ OthersStay("queue")
  \/ schedules = "printers" /\ Observed(0) /\ OthersStay("printers")
  \/ schedules = "colors" /\ (\E a \in Attempts : LeaseLapses(a)) /\ OthersStay("colors")

Third == schedules = "printers" /\ Observed(2) /\ OthersStay("printers")

SchedulesSpec ==
  /\ SchedulesInit /\ [][SchedulesNext]_schedulesVars
  /\ WF_schedulesVars(First) /\ WF_schedulesVars(Second) /\ WF_schedulesVars(Third)

----------------------------------------------------------------------------
(* printer_observer.rs run_until, when it is the one that moves. *)
PrintersObserved == schedules = "printers" => EveryPrinterObserved
=============================================================================
