-------------------------- MODULE RetentionProofs --------------------------
(* Proofs about what is left behind: color attempts and the retention of    *)
(* the artifacts of a job, for any number of jobs, attempts, dependents,    *)
(* pages, days and faults; containers and documents of inspections, for any *)
(* number of uploads, requests and failures.                                *)
EXTENDS Retention, Inspection, TLAPS

States == {"ABSENT", "QUEUED", "RUNNING"} \cup Terminal
AttemptRows == [job : SourceJobs \cup {NoAttempt}, state : States, revision : Nat, pages : 0..Total,
                lease : {"none", "live", "lapsed"}, at : 0..MaxDay]
WorkPcs == {"stage", "page", "convert", "record", "settle"}
ColorPcs == {"idle", "cleaning", "forget", "expiring", "expire", "claim"} \cup WorkPcs
Codes == {"none", "ok", "COLOR_CLEANUP_FAILED"} \cup PageErrors \cup SourceErrors \cup PublishErrors
Colorists == [pc : ColorPcs, a : Attempts \cup {NoAttempt}, todo : SUBSET Attempts, outcome : Codes]

(* A row that is there has a job. *)
RowsTyped ==
  /\ attempt \in [Attempts -> AttemptRows]
  /\ \A a \in Attempts : /\ attempt[a].state = "ABSENT" <=> attempt[a] = Absent
                         /\ attempt[a] # Absent => attempt[a].job \in SourceJobs

DisksTyped ==
  /\ cleanup \subseteq Attempts /\ containers \subseteq Attempts
  /\ stages \subseteq Attempts /\ outputs \subseteq Attempts
  /\ colorist \in Colorists /\ faults \in 0..MaxFaults

DependentRows ==
  {NoDependent} \cup [sort : {"delivery", "pipeline"}, job : SourceJobs, state : {"active", "ended"},
                      at : 0..MaxDay]
SweepPcs == {"idle", "stages", "uploads", "claim", "purge", "remove", "spool", "finish"}
Sweepers == [pc : SweepPcs, cutoff : 0..MaxDay, todo : SUBSET SourceJobs, j : SourceJobs \cup {NoAttempt}]

FamilyTyped ==
  /\ day \in 0..MaxDay
  /\ job \in [SourceJobs -> JobRows]
  /\ dir \in [SourceJobs -> {"none", "here", "trash", "gone"}]
  /\ uploading \subseteq SourceJobs
  /\ madeAt \in [SourceJobs -> 0..MaxDay]
  /\ dependent \in [Dependents -> DependentRows]
  /\ spool \subseteq Dependents /\ \A d \in spool : dependent[d].sort = "delivery"
  /\ hold \in [SourceJobs -> 0..MaxDay + MaxHold]
  /\ tombstone \in [SourceJobs -> {"none", "open", "finished"}]
  /\ sweeper \in Sweepers

Typed == RowsTyped /\ DisksTyped /\ FamilyTyped

(* What the color worker relies on: nobody else moves an attempt that it    *)
(* runs, and its directory and its output stay.                             *)
Work ==
  /\ colorist.pc \in {"forget", "expire", "claim"} \cup WorkPcs => colorist.a \in Attempts
  /\ colorist.pc \in {"expiring", "expire"} => \A a \in colorist.todo : attempt[a] # Absent
  /\ colorist.pc = "expire" => attempt[colorist.a] # Absent
  /\ colorist.pc \in WorkPcs => attempt[colorist.a].state = "RUNNING"
  /\ colorist.pc \in {"page", "convert", "record"} => colorist.a \in stages
  /\ colorist.pc = "settle" /\ colorist.outcome = "ok" => colorist.a \in outputs

PagesOfCompleted == \A a \in Attempts : attempt[a].state = "COMPLETED" =>
  attempt[a].pages = Total /\ (dir[attempt[a].job] = "here" => a \in outputs)

(* Where the directory of a job is. *)
Directories == \A j \in SourceJobs :
  /\ j \in uploading => job[j].row = "none" /\ dir[j] = "here" /\ tombstone[j] = "none"
  /\ job[j].row # "none" \/ tombstone[j] # "none" => dir[j] # "none"
  /\ job[j].row # "none" /\ tombstone[j] = "none" => dir[j] = "here"
  /\ dir[j] = "gone" => \A a \in AttemptsOf(j) : a \notin outputs

(* Attempts and dependents have a job that was inserted. *)
Families ==
  /\ \A a \in Attempts : attempt[a] # Absent => job[attempt[a].job].row \in {"ended", "deleted"}
  /\ \A d \in Dependents : dependent[d] # NoDependent => job[dependent[d].job].row # "none"

(* How far a purge is. *)
PurgePcs == {"remove", "spool", "finish"}
Sweeping ==
  /\ sweeper.pc \in {"purge"} \cup PurgePcs => \A j \in sweeper.todo : tombstone[j] # "none"
  /\ sweeper.pc \in PurgePcs => sweeper.j \in SourceJobs /\ tombstone[sweeper.j] # "none"
  /\ sweeper.pc = "remove" => dir[sweeper.j] \in {"trash", "gone"}
  /\ sweeper.pc \in {"spool", "finish"} => dir[sweeper.j] = "gone"
  /\ sweeper.pc = "finish" => DependentsOf(sweeper.j) \cap spool = {}

Family == Directories /\ Families /\ ClaimedIsQuiet /\ FinishedIsGone /\ Sweeping
RetentionInv == Typed /\ Work /\ PagesOfCompleted /\ Family

USE ColorAssumption, RetentionAssumption

----------------------------------------------------------------------------
LEMMA InitHolds == RetentionInit => RetentionInv
<1> SUFFICES ASSUME RetentionInit PROVE RetentionInv
  OBVIOUS
<1> USE DEF RetentionInit, ColorInit
<1>1. RowsTyped
  BY DEF RowsTyped, AttemptRows, States, Absent
<1>2. DisksTyped
  BY DEF DisksTyped, Colorists, ColorPcs, Codes, Idle
<1>3. FamilyTyped
  BY DEF FamilyTyped, JobRows, DependentRows, Sweepers, SweepPcs, NoSweep
<1>4. Work /\ PagesOfCompleted
  BY DEF Work, WorkPcs, Idle, PagesOfCompleted, Absent
<1>5. \A j \in SourceJobs : AttemptsOf(j) = {}
  BY DEF AttemptsOf
<1>6. Directories /\ Families /\ ClaimedIsQuiet /\ FinishedIsGone /\ Sweeping
  BY <1>5 DEF Directories, Families, ClaimedIsQuiet, FinishedIsGone, Sweeping, PurgePcs, NoSweep
<1> QED BY <1>1, <1>2, <1>3, <1>4, <1>6 DEF RetentionInv, Typed, Family

----------------------------------------------------------------------------
(* While an attempt is active its job is not being purged. *)
LEMMA ActiveIsKept ==
  ASSUME RetentionInv, NEW a \in Attempts, attempt[a] # Absent, Active(a)
  PROVE  /\ attempt[a].job \in SourceJobs /\ tombstone[attempt[a].job] = "none"
         /\ dir[attempt[a].job] = "here"
<1> DEFINE j == attempt[a].job
<1>1. j \in SourceJobs /\ a \in AttemptsOf(j)
  BY DEF RetentionInv, Typed, RowsTyped, AttemptsOf
<1>2. tombstone[j] = "none"
  BY <1>1 DEF RetentionInv, Family, ClaimedIsQuiet, Quiet, Typed, FamilyTyped
<1>3. job[j].row # "none"
  BY DEF RetentionInv, Family, Families
<1> HIDE DEF j
<1>4. dir[j] = "here"
  BY <1>1, <1>2, <1>3 DEF RetentionInv, Family, Directories
<1> QED BY <1>1, <1>2, <1>4 DEF j

(* One row of an attempt changes. *)
LEMMA RowGoes ==
  ASSUME RowsTyped, NEW a \in Attempts, NEW row \in AttemptRows, attempt' = [attempt EXCEPT ![a] = row],
         row.state # "ABSENT", row.job \in SourceJobs
  PROVE  /\ RowsTyped' /\ attempt'[a] = row /\ attempt'[a] # Absent
         /\ \A b \in Attempts : b # a => attempt'[b] = attempt[b]
<1>1. row # Absent
  BY DEF Absent
<1> QED BY <1>1 DEF RowsTyped

LEMMA UpdatedGoes ==
  ASSUME RowsTyped, NEW a \in Attempts, attempt[a] # Absent, day \in 0..MaxDay,
         NEW next \in States \ {"ABSENT"}, NEW pages \in 0..Total, attempt' = Updated(a, next, pages)
  PROVE  /\ RowsTyped' /\ attempt'[a] # Absent
         /\ attempt'[a].state = next /\ attempt'[a].pages = pages /\ attempt'[a].job = attempt[a].job
         /\ \A b \in Attempts : b # a => attempt'[b] = attempt[b]
<1> DEFINE lease == IF next = "RUNNING" THEN "live" ELSE "none"
           revision == attempt[a].revision + 1
           row == [attempt[a] EXCEPT !.state = next, !.pages = pages, !.at = day,
                     !.revision = revision, !.lease = lease]
<1>1. attempt[a] \in AttemptRows /\ attempt[a].job \in SourceJobs
  BY DEF RowsTyped
<1>2. attempt' = [attempt EXCEPT ![a] = row]
  BY <1>1 DEF Updated, RowsTyped, AttemptRows
<1>3. lease \in {"none", "live", "lapsed"} /\ revision \in Nat
  BY <1>1 DEF AttemptRows
<1> HIDE DEF lease, revision
<1>4. row \in AttemptRows
  BY <1>1, <1>3 DEF AttemptRows
<1>5. row.state = next /\ row.pages = pages /\ row.job = attempt[a].job
  BY <1>1 DEF AttemptRows
<1> HIDE DEF row
<1> QED BY <1>1, <1>2, <1>4, <1>5, RowGoes

----------------------------------------------------------------------------
(* What a step of the color subsystem does to the family of a job: an       *)
(* attempt starts only for a job that is complete, one that is over stays   *)
(* so, and only one that runs publishes.                                    *)
RowEffect(a) ==
  \/ /\ attempt[a] # Absent /\ attempt'[a] # Absent
     /\ attempt'[a].job = attempt[a].job /\ (Active(a)' => Active(a))
  \/ attempt[a] = Absent /\ attempt'[a] = Absent
  \/ attempt[a] = Absent /\ attempt'[a] # Absent /\ job[attempt'[a].job].row = "ended"

ColorEffect ==
  /\ UNCHANGED <<day, job, dir>>
  /\ RowsTyped' /\ DisksTyped' /\ Work' /\ PagesOfCompleted'
  /\ outputs \subseteq outputs' /\ \A a \in outputs' : a \in outputs \/ attempt[a].state = "RUNNING"
  /\ \A a \in Attempts : RowEffect(a)

LEMMA RowsStay ==
  ASSUME RetentionInv, UNCHANGED <<day, job, dir, attempt>>, DisksTyped', Work', cleanup' \subseteq cleanup,
         outputs \subseteq outputs', \A a \in outputs' : a \in outputs \/ attempt[a].state = "RUNNING"
  PROVE  ColorEffect
<1>1. RowsTyped' /\ PagesOfCompleted'
  BY DEF RetentionInv, Typed, RowsTyped, PagesOfCompleted
<1>2. \A a \in Attempts : RowEffect(a)
  BY DEF RowEffect, Active
<1> QED BY <1>1, <1>2 DEF ColorEffect

(* Clients and the clock. *)
LEMMA ClientsColor ==
  ASSUME RetentionInv, NEW a \in Attempts,
         (\E j \in SourceJobs : CreateColor(a, j)) \/ CancelColor(a) \/ LeaseLapses(a)
  PROVE  ColorEffect
<1> USE DEF RetentionInv, Typed
<1>1. UNCHANGED <<day, job, dir, cleanup, containers, stages, outputs, colorist, faults>>
  BY DEF CreateColor, CancelColor, LeaseLapses, storeVars, diskVars
<1>2. DisksTyped' /\ day \in 0..MaxDay
  BY <1>1 DEF DisksTyped, FamilyTyped
<1>3. ASSUME RowsTyped', \A b \in Attempts : b # a => attempt'[b] = attempt[b],
             attempt'[a] # Absent, RowEffect(a),
             attempt[a].state = "RUNNING" => attempt'[a].state = "RUNNING",
             attempt'[a].state = "COMPLETED" =>
               attempt[a].state = "COMPLETED" /\ attempt'[a].pages = attempt[a].pages /\ attempt'[a].job = attempt[a].job
      PROVE  ColorEffect
  <2>1. Work'
    BY <1>1, <1>3 DEF Work, DisksTyped, Colorists, WorkPcs
  <2>2. PagesOfCompleted'
    BY <1>1, <1>3 DEF PagesOfCompleted
  <2>3. \A b \in Attempts : RowEffect(b)
    BY <1>1, <1>3 DEF RowEffect, Active
  <2> QED BY <1>1, <1>2, <1>3, <2>1, <2>2, <2>3 DEF ColorEffect
<1>4. ASSUME NEW j \in SourceJobs, CreateColor(a, j)
      PROVE  ColorEffect
  <2> DEFINE row == [Absent EXCEPT !.job = j, !.state = "QUEUED", !.at = day]
  <2>0. attempt' = [attempt EXCEPT ![a] = row] /\ attempt[a] = Absent /\ job[j].row = "ended"
    BY <1>4 DEF CreateColor
  <2>4. row \in AttemptRows /\ row.state = "QUEUED" /\ row.job = j
    <3>1. Absent \in AttemptRows
      BY DEF Absent, AttemptRows, States
    <3> QED BY <1>2, <3>1 DEF AttemptRows, States
  <2> HIDE DEF row
  <2>1. /\ row \in AttemptRows /\ row.state = "QUEUED" /\ row.job = j
        /\ attempt' = [attempt EXCEPT ![a] = row] /\ attempt[a] = Absent /\ job[j].row = "ended"
    BY <2>0, <2>4
  <2>2. RowsTyped' /\ attempt'[a] = row /\ attempt'[a] # Absent /\ \A b \in Attempts : b # a => attempt'[b] = attempt[b]
    BY <2>1, RowGoes
  <2>3. attempt[a].state = "ABSENT"
    BY <2>1 DEF Absent
  <2> QED BY <1>3, <2>1, <2>2, <2>3 DEF RowEffect
<1>5. CASE CancelColor(a)
  <2>1. attempt[a].state = "QUEUED" /\ attempt[a] # Absent
    BY <1>5 DEF CancelColor, MayUpdate, ColorMoves, Absent
  <2>2. /\ RowsTyped' /\ attempt'[a] # Absent /\ attempt'[a].state = "CANCELLED"
        /\ attempt'[a].job = attempt[a].job /\ \A b \in Attempts : b # a => attempt'[b] = attempt[b]
    BY <1>2, <1>5, <2>1, UpdatedGoes DEF CancelColor, States, Terminal
  <2> QED BY <1>3, <2>1, <2>2 DEF RowEffect, Active
<1>6. CASE LeaseLapses(a)
  <2> DEFINE row == [attempt[a] EXCEPT !.lease = "lapsed"]
  <2>1. attempt[a] \in AttemptRows /\ attempt[a] # Absent /\ attempt[a].state # "ABSENT" /\ attempt[a].job \in SourceJobs
    BY <1>6 DEF LeaseLapses, Absent, RowsTyped
  <2>2. row \in AttemptRows /\ row.state = attempt[a].state /\ row.job = attempt[a].job /\ row.pages = attempt[a].pages
    BY <2>1 DEF AttemptRows
  <2>3. attempt' = [attempt EXCEPT ![a] = row]
    BY <1>6 DEF LeaseLapses
  <2> HIDE DEF row
  <2>4. RowsTyped' /\ attempt'[a] = row /\ attempt'[a] # Absent /\ \A b \in Attempts : b # a => attempt'[b] = attempt[b]
    BY <2>1, <2>2, <2>3, RowGoes
  <2> QED BY <1>1, <1>3, <2>1, <2>2, <2>4 DEF RowEffect, Active
<1> QED BY <1>4, <1>5, <1>6

(* The worker without the rows of the attempts. *)
QuietWork ==
  \/ BeginTick \/ CleanPending \/ ForgetCleanup \/ ListExpired \/ CleanExpired \/ PickColor
  \/ MakeStage \/ StartPage \/ EndPage \/ ColorCrash

LEMMA QuietWorkColor ==
  ASSUME RetentionInv, QuietWork
  PROVE  ColorEffect
<1> USE DEF RetentionInv, Typed
<1>1. UNCHANGED <<day, job, dir, attempt, outputs>> /\ cleanup' \subseteq cleanup
  BY DEF QuietWork, BeginTick, CleanPending, ForgetCleanup, ListExpired, CleanExpired, PickColor,
         MakeStage, StartPage, EndPage, ColorCrash, storeVars, rowVars, diskVars
<1> SUFFICES DisksTyped' /\ Work'
  BY <1>1, RowsStay
<1>2. colorist \in Colorists /\ faults \in 0..MaxFaults
  BY DEF DisksTyped
<1>3. ASSUME Fault PROVE faults' \in 0..MaxFaults
  BY <1>2, <1>3 DEF Fault
<1>4. ASSUME colorist' = Idle, faults' \in 0..MaxFaults, UNCHANGED stages,
             containers' \subseteq Attempts, UNCHANGED cleanup
      PROVE  DisksTyped' /\ Work'
  BY <1>1, <1>4 DEF DisksTyped, Work, WorkPcs, Idle, Colorists, ColorPcs, Codes
<1>5. CASE BeginTick
  BY <1>1, <1>2, <1>5 DEF BeginTick, DisksTyped, Work, WorkPcs, Idle, Colorists, ColorPcs, Codes, diskVars, rowVars
<1>6. ASSUME NEW a \in colorist.todo, NEW pc \in {"forget", "expire"}, RemoveContainers(a, pc),
             UNCHANGED <<cleanup, stages>>,
             pc = "expire" => \A b \in colorist.todo : attempt[b] # Absent
      PROVE  DisksTyped' /\ Work'
  <2>1. a \in Attempts /\ colorist' = [colorist EXCEPT !.pc = pc, !.a = a, !.todo = colorist.todo \ {a}]
    BY <1>2, <1>6 DEF RemoveContainers, Colorists
  <2>2. /\ colorist' \in Colorists /\ colorist'.pc = pc /\ colorist'.a = a
        /\ colorist'.todo = colorist.todo \ {a}
    BY <1>2, <2>1 DEF Colorists, ColorPcs
  <2>3. DisksTyped'
    BY <1>1, <1>6, <2>2 DEF RemoveContainers, DisksTyped
  <2> QED BY <1>1, <1>6, <2>1, <2>2, <2>3 DEF Work, WorkPcs
<1>7. CASE CleanPending
  BY <1>1, <1>2, <1>3, <1>4, <1>6, <1>7 DEF CleanPending, Ends, rowVars, DisksTyped
<1>8. CASE CleanExpired
  BY <1>1, <1>2, <1>3, <1>4, <1>6, <1>8 DEF CleanExpired, Ends, rowVars, DisksTyped, At, Work
<1>9. ASSUME NEW pc \in {"cleaning", "expiring"}, colorist'.pc = pc, colorist' \in Colorists,
             faults' = faults, UNCHANGED <<stages, containers>>,
             pc = "expiring" => \A b \in colorist'.todo : attempt[b] # Absent
      PROVE  DisksTyped' /\ Work'
  BY <1>1, <1>9 DEF DisksTyped, Work, WorkPcs
<1>10. CASE ForgetCleanup
  <2>1. colorist' \in Colorists /\ colorist'.pc = "cleaning"
    BY <1>2, <1>10 DEF ForgetCleanup, Goes, Colorists, ColorPcs
  <2> QED BY <1>9, <1>10, <2>1 DEF ForgetCleanup, diskVars
<1>11. CASE ListExpired
  <2> DEFINE lapsed == {a \in Attempts : attempt[a].lease = "lapsed"}
  <2>1. colorist' \in Colorists /\ colorist'.pc = "expiring" /\ colorist'.todo = lapsed
    BY <1>2, <1>11 DEF ListExpired, Colorists, ColorPcs
  <2>2. \A b \in lapsed : attempt[b] # Absent
    BY DEF Absent
  <2> QED BY <1>9, <1>11, <2>1, <2>2 DEF ListExpired, diskVars
<1>12. CASE PickColor
  <2>1. CASE Ends
    BY <1>1, <1>2, <1>4, <1>12, <2>1 DEF PickColor, Ends, diskVars, rowVars, DisksTyped
  <2>2. ASSUME NEW a \in NextInLine, colorist' = [colorist EXCEPT !.pc = "claim", !.a = a]
        PROVE  DisksTyped' /\ Work'
    <3>1. a \in Attempts
      BY <2>2 DEF NextInLine, Waiting
    <3>2. colorist' \in Colorists /\ colorist'.pc = "claim" /\ colorist'.a = a
      BY <1>2, <2>2, <3>1 DEF Colorists, ColorPcs
    <3> QED BY <1>1, <1>12, <3>1, <3>2 DEF PickColor, diskVars, rowVars, DisksTyped, Work, WorkPcs
  <2> QED BY <1>12, <2>1, <2>2 DEF PickColor
<1>13. ASSUME colorist.pc \in WorkPcs \ {"settle"}, colorist' \in Colorists, colorist'.a = colorist.a,
              colorist'.pc \in WorkPcs,
              colorist'.pc \in {"page", "convert", "record"} => colorist.a \in stages',
              ~(colorist'.pc = "settle" /\ colorist'.outcome = "ok"),
              stages' \subseteq Attempts, containers' \subseteq Attempts, faults' \in 0..MaxFaults,
              UNCHANGED cleanup
       PROVE  DisksTyped' /\ Work'
  BY <1>1, <1>13 DEF DisksTyped, Work, WorkPcs
<1>14. ASSUME NEW code \in Codes, Outcome(code)
       PROVE  /\ colorist' \in Colorists /\ colorist'.a = colorist.a
              /\ colorist'.pc = "settle" /\ colorist'.outcome = code
  BY <1>2, <1>14 DEF Outcome, Colorists, ColorPcs, WorkPcs
<1>15. ASSUME NEW pc \in WorkPcs, Goes(pc)
       PROVE  colorist' \in Colorists /\ colorist'.a = colorist.a /\ colorist'.pc = pc
  BY <1>2, <1>15 DEF Goes, Colorists, ColorPcs
<1>16. /\ "ok" \notin PageErrors \cup SourceErrors \cup PublishErrors \cup {"COLOR_CLEANUP_FAILED"}
       /\ PageErrors \cup SourceErrors \cup PublishErrors \cup {"COLOR_CLEANUP_FAILED"} \subseteq Codes
  BY DEF PageErrors, SourceErrors, PublishErrors, Codes
<1>17. CASE MakeStage
  <2>1. colorist.pc = "stage" /\ colorist.a \in Attempts /\ UNCHANGED <<containers, faults, cleanup>>
    BY <1>17 DEF MakeStage, At, Work, WorkPcs, rowVars
  <2>2. CASE stages' = stages \cup {colorist.a} /\ Goes("page")
    BY <1>2, <1>13, <1>15, <2>1, <2>2 DEF WorkPcs, DisksTyped
  <2>3. CASE Outcome("COLOR_ARTIFACT_FAILED") /\ UNCHANGED stages
    BY <1>2, <1>13, <1>14, <2>1, <2>3 DEF WorkPcs, DisksTyped, Codes, SourceErrors
  <2> QED BY <1>17, <2>2, <2>3 DEF MakeStage
<1>18. CASE StartPage
  <2>1. /\ colorist.pc = "page" /\ colorist.a \in Attempts /\ colorist.a \in stages
        /\ UNCHANGED <<faults, cleanup>>
    BY <1>18 DEF StartPage, At, Work, WorkPcs, rowVars
  <2>2. ASSUME NEW code \in SourceErrors, Abandons(code), UNCHANGED containers
        PROVE  DisksTyped' /\ Work'
    <3>1. Outcome(code) /\ stages' = stages \ {colorist.a} /\ code \in Codes /\ code # "ok"
      BY <1>16, <2>2 DEF Abandons
    <3>2. stages' \subseteq Attempts /\ containers' \subseteq Attempts
      BY <2>2, <3>1 DEF DisksTyped
    <3> QED BY <1>2, <1>13, <1>14, <2>1, <3>1, <3>2 DEF WorkPcs
  <2>3. CASE containers' = containers \cup {colorist.a} /\ Goes("convert") /\ UNCHANGED stages
    BY <1>2, <1>13, <1>15, <2>1, <2>3 DEF WorkPcs, DisksTyped
  <2> QED BY <1>18, <2>2, <2>3 DEF StartPage
<1>19. CASE EndPage
  <2>1. /\ colorist.pc = "convert" /\ colorist.a \in Attempts /\ colorist.a \in stages
        /\ UNCHANGED cleanup
    BY <1>19 DEF EndPage, At, Work, WorkPcs, rowVars
  <2>2. faults' \in 0..MaxFaults /\ containers' \subseteq Attempts
    BY <1>2, <1>3, <1>19 DEF EndPage, DisksTyped
  <2>3. ASSUME NEW code \in PageErrors \cup {"COLOR_CLEANUP_FAILED"}, Abandons(code)
        PROVE  DisksTyped' /\ Work'
    <3>1. Outcome(code) /\ stages' = stages \ {colorist.a} /\ code \in Codes /\ code # "ok"
      BY <1>16, <2>3 DEF Abandons
    <3>2. stages' \subseteq Attempts
      BY <3>1 DEF DisksTyped
    <3> QED BY <1>13, <1>14, <2>1, <2>2, <3>1, <3>2 DEF WorkPcs
  <2>4. CASE Goes("record") /\ UNCHANGED stages
    BY <1>13, <1>15, <2>1, <2>2, <2>4 DEF WorkPcs, DisksTyped
  <2> QED BY <1>19, <2>3, <2>4 DEF EndPage
<1>20. CASE ColorCrash
  BY <1>1, <1>3, <1>4, <1>20 DEF ColorCrash, Ends, diskVars, rowVars, DisksTyped
<1> QED BY <1>5, <1>7, <1>8, <1>10, <1>11, <1>12, <1>17, <1>18, <1>19, <1>20 DEF QuietWork

(* The worker on the row of one attempt. *)
LEMMA RowWorkColor ==
  ASSUME RetentionInv, FailExpired \/ ClaimColor \/ RecordPage \/ SettleColor
  PROVE  ColorEffect
<1> USE DEF RetentionInv, Typed
<1> DEFINE a == colorist.a
<1>1. /\ UNCHANGED <<day, job, dir, outputs, containers, faults>>
      /\ colorist \in Colorists /\ faults \in 0..MaxFaults /\ day \in 0..MaxDay
  BY DEF FailExpired, ClaimColor, RecordPage, SettleColor, storeVars, diskVars, DisksTyped, FamilyTyped
<1>2. a \in Attempts
  BY DEF FailExpired, ClaimColor, RecordPage, SettleColor, At, Work, WorkPcs
<1>3. ASSUME NEW next \in States \ {"ABSENT"}, NEW pages \in 0..Total, attempt[a] # Absent,
             attempt' = Updated(a, next, pages), next \in {"QUEUED", "RUNNING"} => Active(a),
             cleanup' \subseteq cleanup \cup {a}, a \in cleanup' => Active(a),
             next = "COMPLETED" => pages = Total /\ a \in outputs,
             colorist' \in Colorists, stages' \subseteq Attempts, Work'
      PROVE  ColorEffect
  <2>1. /\ RowsTyped' /\ attempt'[a] # Absent
        /\ attempt'[a].state = next /\ attempt'[a].pages = pages /\ attempt'[a].job = attempt[a].job
        /\ \A b \in Attempts : b # a => attempt'[b] = attempt[b]
    BY <1>1, <1>2, <1>3, UpdatedGoes
  <2>2. DisksTyped'
    BY <1>1, <1>2, <1>3 DEF DisksTyped
  <2>3. PagesOfCompleted'
    BY <1>1, <1>3, <2>1 DEF PagesOfCompleted
  <2>4. \A b \in Attempts : RowEffect(b)
    <3> SUFFICES ASSUME NEW b \in Attempts PROVE RowEffect(b)
      OBVIOUS
    <3>1. CASE b = a
      BY <1>3, <2>1, <3>1 DEF RowEffect, Active
    <3>2. CASE b # a
      BY <1>3, <2>1, <3>2 DEF RowEffect, Active
    <3> QED BY <3>1, <3>2
  <2> QED BY <1>1, <1>3, <2>1, <2>2, <2>3, <2>4 DEF ColorEffect
<1>4. ASSUME UNCHANGED <<attempt, cleanup>>, DisksTyped', Work'
      PROVE  ColorEffect
  BY <1>1, <1>4, RowsStay
<1>5. ASSUME colorist' = Idle PROVE Work' /\ colorist' \in Colorists
  BY <1>5 DEF Work, WorkPcs, Idle, Colorists, ColorPcs, Codes
<1>6. attempt[a].state # "ABSENT" => attempt[a] # Absent /\ attempt[a].pages \in 0..Total
  BY <1>2 DEF RowsTyped, AttemptRows, Absent
<1>7. CASE FailExpired
  <2>1. attempt[a] # Absent /\ attempt[a].pages \in 0..Total /\ colorist.pc = "expire"
    BY <1>2, <1>7 DEF FailExpired, At, Work, RowsTyped, AttemptRows
  <2>2. /\ colorist' \in Colorists /\ colorist'.pc = "expiring" /\ colorist'.todo = colorist.todo
        /\ colorist'.a = a
    BY <1>1, <1>7 DEF FailExpired, Goes, Colorists, ColorPcs
  <2>3. \A b \in Attempts : attempt[b] # Absent => attempt'[b] # Absent
    <3>1. /\ attempt'[a] # Absent
          /\ \A b \in Attempts : b # a => attempt'[b] = attempt[b]
      BY <1>1, <1>2, <1>7, <2>1, UpdatedGoes DEF FailExpired, States, Terminal
    <3> QED BY <3>1
  <2>4. Work'
    BY <1>1, <2>1, <2>2, <2>3 DEF Work, WorkPcs, Colorists
  <2>5. UNCHANGED <<stages, cleanup>> /\ stages \subseteq Attempts /\ attempt' = Updated(a, "FAILED", attempt[a].pages)
    BY <1>7 DEF FailExpired, diskVars, DisksTyped
  <2>6. a \in cleanup => Active(a)
    BY DEF Active
  <2> QED BY <1>3, <2>1, <2>2, <2>4, <2>5, <2>6 DEF States, Terminal
<1>8. CASE ClaimColor
  <2>1. UNCHANGED <<stages, cleanup>> /\ stages \subseteq Attempts
    BY <1>8 DEF ClaimColor, diskVars, DisksTyped
  <2>2. CASE Ends /\ UNCHANGED attempt
    BY <1>1, <1>4, <1>5, <2>1, <2>2 DEF Ends, DisksTyped
  <2>3. CASE MayUpdate(a, 0, "RUNNING", 0) /\ attempt' = Updated(a, "RUNNING", 0) /\ Goes("stage")
    <3>1. attempt[a].state \in {"QUEUED", "RUNNING"} /\ attempt[a] # Absent
      BY <2>3, <1>6 DEF MayUpdate, ColorMoves
    <3>2. colorist' \in Colorists /\ colorist'.pc = "stage" /\ colorist'.a = a
      BY <1>1, <2>3 DEF Goes, Colorists, ColorPcs, WorkPcs
    <3>3. attempt'[a].state = "RUNNING"
      BY <1>1, <1>2, <2>3, <3>1, UpdatedGoes DEF States
    <3>4. Work'
      BY <1>2, <3>2, <3>3 DEF Work, WorkPcs
    <3>5. Active(a)
      BY <3>1 DEF Active
    <3> QED BY <1>3, <2>1, <2>3, <3>1, <3>2, <3>4, <3>5 DEF States
  <2> QED BY <1>8, <2>2, <2>3 DEF ClaimColor
<1>9. CASE RecordPage
  <2>1. /\ colorist.pc = "record" /\ UNCHANGED cleanup /\ attempt[a].state = "RUNNING" /\ a \in stages
        /\ stages \subseteq Attempts
    BY <1>9 DEF RecordPage, At, Work, WorkPcs, DisksTyped
  <2> DEFINE done == attempt[a].pages + 1
  <2>2. CASE Abandons("COLOR_ARTIFACT_FAILED") /\ UNCHANGED attempt
    <3>1. /\ colorist' \in Colorists /\ colorist'.pc = "settle" /\ colorist'.a = a
          /\ colorist'.outcome # "ok" /\ stages' \subseteq Attempts
      BY <1>1, <2>1, <2>2 DEF Abandons, Outcome, Colorists, ColorPcs, WorkPcs, Codes, PublishErrors
    <3>2. DisksTyped' /\ Work'
      BY <1>1, <1>2, <2>1, <2>2, <3>1 DEF DisksTyped, Work, WorkPcs
    <3> QED BY <1>4, <2>1, <2>2, <3>2
  <2>3. CASE /\ MayUpdate(a, attempt[a].revision, "RUNNING", done)
             /\ attempt' = Updated(a, "RUNNING", done) /\ Goes("page") /\ UNCHANGED stages
    <3>1. attempt[a] # Absent /\ done \in 0..Total
      BY <1>6, <2>1, <2>3 DEF MayUpdate
    <3>2. colorist' \in Colorists /\ colorist'.pc = "page" /\ colorist'.a = a
      BY <1>1, <2>3 DEF Goes, Colorists, ColorPcs, WorkPcs
    <3> HIDE DEF done
    <3>3. attempt'[a].state = "RUNNING"
      BY <1>1, <1>2, <2>3, <3>1, UpdatedGoes DEF States
    <3>4. Work'
      BY <1>2, <2>1, <2>3, <3>2, <3>3 DEF Work, WorkPcs
    <3>5. Active(a)
      BY <2>1 DEF Active
    <3> QED BY <1>3, <2>1, <2>3, <3>1, <3>2, <3>4, <3>5 DEF States
  <2> QED BY <1>9, <2>2, <2>3 DEF RecordPage
<1>10. CASE SettleColor
  <2>1. /\ colorist.pc = "settle" /\ UNCHANGED stages /\ attempt[a].state = "RUNNING"
        /\ stages \subseteq Attempts /\ attempt[a] # Absent /\ attempt[a].pages \in 0..Total
    BY <1>6, <1>10 DEF SettleColor, At, Work, WorkPcs, DisksTyped, diskVars
  <2>2. Work' /\ colorist' \in Colorists
    BY <1>5, <1>10 DEF SettleColor, Ends
  <2>3. CASE UNCHANGED rowVars
    BY <1>1, <1>4, <2>1, <2>2, <2>3 DEF rowVars, DisksTyped
  <2> DEFINE next == IF colorist.outcome = "ok" THEN "COMPLETED" ELSE "FAILED"
  <2>4. CASE /\ MayUpdate(a, attempt[a].revision, next, attempt[a].pages)
             /\ attempt' = Updated(a, next, attempt[a].pages)
             /\ cleanup' = CleanupAfter(a, colorist.outcome)
    <3>1. next \in States \ {"ABSENT"} /\ next \notin {"QUEUED", "RUNNING"}
      BY DEF States, Terminal
    <3>2. next = "COMPLETED" => attempt[a].pages = Total /\ a \in outputs
      BY <2>1, <2>4 DEF MayUpdate, Work
    <3>3. cleanup' \subseteq cleanup \cup {a} /\ Active(a)
      BY <2>1, <2>4 DEF CleanupAfter, Active
    <3> HIDE DEF next
    <3> QED BY <1>3, <2>1, <2>2, <2>4, <3>1, <3>2, <3>3
  <2> QED BY <1>10, <2>3, <2>4 DEF SettleColor
<1> QED BY <1>7, <1>8, <1>9, <1>10

(* The output is published into a directory that is there already. *)
LEMMA PublishColorColor ==
  ASSUME RetentionInv, PublishColor
  PROVE  ColorEffect
<1> USE DEF RetentionInv, Typed
<1> DEFINE a == colorist.a
<1>1. /\ UNCHANGED <<day, job, attempt, cleanup, containers, faults>>
      /\ colorist \in Colorists /\ colorist.pc = "page"
      /\ a \in Attempts /\ attempt[a].state = "RUNNING" /\ a \in stages
  BY DEF PublishColor, At, rowVars, DisksTyped, Work, WorkPcs
<1>2. attempt[a] # Absent /\ Active(a)
  BY <1>1 DEF Absent, Active
<1>3. dir[attempt[a].job] = "here" /\ dir \in [SourceJobs -> {"none", "here", "trash", "gone"}]
  BY <1>1, <1>2, ActiveIsKept DEF FamilyTyped
<1>4. ASSUME NEW code \in Codes, Abandons(code)
      PROVE  /\ colorist' \in Colorists /\ colorist'.a = a /\ colorist'.pc = "settle"
             /\ colorist'.outcome = code /\ stages' \subseteq Attempts
  BY <1>1, <1>4 DEF Abandons, Outcome, Colorists, ColorPcs, WorkPcs, DisksTyped
<1>5. dir' = dir
  BY <1>3 DEF PublishColor
<1>6. CASE outputs' = outputs \cup {a} /\ Abandons("ok")
  <2>1. DisksTyped' /\ Work'
    BY <1>1, <1>4, <1>6 DEF DisksTyped, Work, WorkPcs, Codes
  <2> QED BY <1>1, <1>5, <1>6, <2>1, RowsStay
<1>7. CASE (\E code \in PublishErrors : Abandons(code)) /\ UNCHANGED outputs
  <2>1. PICK code \in PublishErrors : Abandons(code)
    BY <1>7
  <2>2. code \in Codes /\ code # "ok"
    BY DEF PublishErrors, Codes
  <2>3. DisksTyped' /\ Work'
    BY <1>1, <1>4, <1>7, <2>1, <2>2 DEF DisksTyped, Work, WorkPcs
  <2> QED BY <1>1, <1>5, <1>7, <2>3, RowsStay
<1> QED BY <1>6, <1>7 DEF PublishColor

LEMMA ColorSteps ==
  ASSUME RetentionInv, ColorNext
  PROVE  ColorEffect
BY ClientsColor, QuietWorkColor, RowWorkColor, PublishColorColor DEF ColorNext, ColorWorker, QuietWork

LEMMA ColorKeeps ==
  ASSUME RetentionInv, ColorEffect, UNCHANGED familyVars
  PROVE  RetentionInv'
<1> USE DEF ColorEffect, familyVars
<1>1. Typed'
  BY DEF RetentionInv, Typed, FamilyTyped
<1>2. \A j \in SourceJobs : DependentsOf(j)' = DependentsOf(j)
  BY DEF DependentsOf
(* An attempt of the job of a purge was one before, and is not active. *)
<1>3. ASSUME NEW j \in SourceJobs, job[j].row # "ended", NEW a \in AttemptsOf(j)'
      PROVE  a \in AttemptsOf(j) /\ (Active(a)' => Active(a))
  BY <1>3 DEF AttemptsOf, RowEffect
<1>4. ClaimedIsQuiet'
  <2> SUFFICES ASSUME NEW j \in SourceJobs, tombstone[j] # "none"
               PROVE  /\ Quiet(j)' /\ hold[j] <= day
                      /\ job[j].row = "deleted" \/ (job[j].row = "none" /\ j \notin uploading)
    BY DEF ClaimedIsQuiet
  <2>1. /\ Quiet(j) /\ hold[j] <= day
        /\ job[j].row = "deleted" \/ (job[j].row = "none" /\ j \notin uploading)
    BY DEF RetentionInv, Family, ClaimedIsQuiet
  <2>2. Quiet(j)'
    BY <1>2, <1>3, <2>1 DEF Quiet, Ended
  <2> QED BY <2>1, <2>2
(* Only the output of an attempt that runs is new, and its directory is here. *)
<1>5. ASSUME NEW j \in SourceJobs, dir[j] = "gone", NEW a \in AttemptsOf(j)'
      PROVE  a \notin outputs'
  <2>1. CASE a \in AttemptsOf(j)
    <3>1. a \notin outputs
      BY <1>5, <2>1 DEF RetentionInv, Family, Directories
    <3>2. ASSUME attempt[a].state = "RUNNING" PROVE FALSE
      BY <1>5, <2>1, <3>2, ActiveIsKept DEF AttemptsOf, Active
    <3> QED BY <3>1, <3>2
  <2>2. CASE a \notin AttemptsOf(j)
    <3>1. a \in Attempts /\ attempt[a] = Absent /\ job[j].row = "ended"
      BY <1>5, <2>2 DEF AttemptsOf, RowEffect
    <3>2. tombstone[j] = "none"
      BY <3>1 DEF RetentionInv, Family, ClaimedIsQuiet, Typed, FamilyTyped
    <3>3. dir[j] = "here"
      BY <3>1, <3>2 DEF RetentionInv, Family, Directories
    <3> QED BY <1>5, <3>3
  <2> QED BY <2>1, <2>2
<1>6. Directories'
  BY <1>5 DEF RetentionInv, Family, Directories
<1>7. FinishedIsGone'
  BY <1>2, <1>5 DEF RetentionInv, Family, FinishedIsGone
<1>8. Families'
  BY DEF RetentionInv, Family, Families, RowEffect
<1>9. Sweeping'
  <2>1. sweeper.pc \in PurgePcs => sweeper.j \in SourceJobs
    BY DEF RetentionInv, Family, Sweeping
  <2> QED BY <1>2, <2>1 DEF RetentionInv, Family, Sweeping, PurgePcs
<1> QED BY <1>1, <1>4, <1>6, <1>7, <1>8, <1>9 DEF RetentionInv, Family

----------------------------------------------------------------------------
(* The steps of everyone else leave the attempts and their disks alone. *)
AttemptsStay == UNCHANGED <<attempt, cleanup, containers, stages, outputs, colorist>>

LEMMA ColorStays ==
  ASSUME RetentionInv, AttemptsStay, faults' \in 0..MaxFaults,
         \A j \in SourceJobs : dir'[j] = "here" => dir[j] = "here" \/ job[j].row = "none"
  PROVE  /\ RowsTyped' /\ DisksTyped' /\ Work' /\ PagesOfCompleted'
         /\ \A j \in SourceJobs : AttemptsOf(j)' = AttemptsOf(j)
         /\ \A a \in Attempts : Active(a)' <=> Active(a)
<1> USE DEF AttemptsStay
<1>1. RowsTyped' /\ DisksTyped' /\ Work'
  BY DEF RetentionInv, Typed, RowsTyped, DisksTyped, Work
<1>2. \A j \in SourceJobs : AttemptsOf(j)' = AttemptsOf(j)
  BY DEF AttemptsOf
<1>3. \A a \in Attempts : Active(a)' <=> Active(a)
  BY DEF Active
<1>4. PagesOfCompleted'
  <2> SUFFICES ASSUME NEW a \in Attempts, attempt[a].state = "COMPLETED"
               PROVE  attempt[a].pages = Total /\ (dir'[attempt[a].job] = "here" => a \in outputs)
    BY DEF PagesOfCompleted
  <2>1. attempt[a].pages = Total /\ (dir[attempt[a].job] = "here" => a \in outputs)
    BY DEF RetentionInv, PagesOfCompleted
  <2>2. attempt[a] # Absent
    BY DEF Absent
  <2>3. attempt[a].job \in SourceJobs /\ job[attempt[a].job].row # "none"
    BY <2>2 DEF RetentionInv, Typed, RowsTyped, Family, Families
  <2> QED BY <2>1, <2>3
<1> QED BY <1>1, <1>2, <1>3, <1>4

(* Uploads. *)
LEMMA UploadSteps ==
  ASSUME RetentionInv, NEW j \in SourceJobs,
         BeginUpload(j) \/ RegisterUpload(j) \/ RefuseUpload(j) \/ UploadCrash(j)
  PROVE  RetentionInv'
<1> USE DEF OnlyUploads, NotSweeping
<1>1. /\ AttemptsStay /\ UNCHANGED <<day, spool, hold, tombstone, sweeper>>
      /\ tombstone[j] = "none" /\ job[j].row = "none"
  BY DEF BeginUpload, RegisterUpload, RefuseUpload, UploadCrash, AttemptsStay, rowVars, diskVars,
         RetentionInv, Family, Directories
<1>2. /\ day \in 0..MaxDay /\ job \in [SourceJobs -> JobRows]
      /\ dir \in [SourceJobs -> {"none", "here", "trash", "gone"}]
      /\ uploading \subseteq SourceJobs /\ madeAt \in [SourceJobs -> 0..MaxDay]
      /\ dependent \in [Dependents -> DependentRows] /\ faults \in 0..MaxFaults
      /\ spool \subseteq Dependents /\ \A d \in spool : dependent[d].sort = "delivery"
  BY DEF RetentionInv, Typed, FamilyTyped, DisksTyped
<1>3. faults' \in 0..MaxFaults
  BY <1>2 DEF BeginUpload, RegisterUpload, RefuseUpload, UploadCrash, Fault
<1>4. \A i \in SourceJobs : dir'[i] = "here" => dir[i] = "here" \/ job[i].row = "none"
  BY <1>1, <1>2 DEF BeginUpload, RegisterUpload, RefuseUpload, UploadCrash
<1>5. /\ RowsTyped' /\ DisksTyped' /\ Work' /\ PagesOfCompleted'
      /\ \A i \in SourceJobs : AttemptsOf(i)' = AttemptsOf(i)
      /\ \A a \in Attempts : Active(a)' <=> Active(a)
  BY <1>1, <1>3, <1>4, ColorStays
(* No attempt has the job yet. *)
<1>6. AttemptsOf(j) = {} /\ DependentsOf(j) = {}
  BY <1>1 DEF AttemptsOf, DependentsOf, RetentionInv, Family, Families
<1>7. ASSUME FamilyTyped', Directories', Families',
             \A i \in SourceJobs \ {j} : DependentsOf(i)' = DependentsOf(i) /\ dir'[i] = dir[i] /\ job'[i] = job[i],
             \A d \in Dependents : dependent[d] # NoDependent => dependent'[d] = dependent[d],
             uploading' \subseteq uploading \cup {j}
      PROVE  RetentionInv'
  <2>1. ClaimedIsQuiet'
    <3> SUFFICES ASSUME NEW i \in SourceJobs, tombstone[i] # "none"
                 PROVE  /\ Quiet(i)' /\ hold[i] <= day
                        /\ job'[i].row = "deleted" \/ (job'[i].row = "none" /\ i \notin uploading')
      BY <1>1 DEF ClaimedIsQuiet
    <3>1. i # j /\ Quiet(i) /\ hold[i] <= day
      BY <1>1 DEF RetentionInv, Family, ClaimedIsQuiet
    <3>2. job[i].row = "deleted" \/ (job[i].row = "none" /\ i \notin uploading)
      BY DEF RetentionInv, Family, ClaimedIsQuiet
    <3>3. \A d \in DependentsOf(i)' : Ended(d)'
      BY <1>7, <3>1 DEF Quiet, Ended, DependentsOf
    <3>4. Quiet(i)'
      BY <1>1, <1>5, <3>1, <3>3 DEF Quiet, AttemptsOf
    <3> QED BY <1>7, <3>1, <3>2, <3>4
  <2>2. FinishedIsGone'
    BY <1>1, <1>5, <1>7 DEF RetentionInv, Family, FinishedIsGone, AttemptsStay
  <2>3. Sweeping'
    <3>1. sweeper.pc \in PurgePcs => sweeper.j \in SourceJobs \ {j}
      BY <1>1 DEF RetentionInv, Family, Sweeping
    <3> QED BY <1>1, <1>7, <3>1 DEF RetentionInv, Family, Sweeping, PurgePcs
  <2> QED BY <1>5, <1>7, <2>1, <2>2, <2>3 DEF RetentionInv, Typed, Family
<1>8. ASSUME UNCHANGED <<job, dependent>>, uploading' \subseteq uploading \cup {j},
             madeAt' \in [SourceJobs -> 0..MaxDay], NEW to \in {"here", "gone"},
             dir' = [dir EXCEPT ![j] = to],
             j \in uploading' => to = "here"
      PROVE  RetentionInv'
  <2>1. FamilyTyped'
    BY <1>1, <1>2, <1>8 DEF FamilyTyped, RetentionInv, Typed
  <2>2. Directories'
    <3> SUFFICES ASSUME NEW i \in SourceJobs
                 PROVE  /\ i \in uploading' => job[i].row = "none" /\ dir'[i] = "here" /\ tombstone[i] = "none"
                        /\ job[i].row # "none" \/ tombstone[i] # "none" => dir'[i] # "none"
                        /\ job[i].row # "none" /\ tombstone[i] = "none" => dir'[i] = "here"
                        /\ dir'[i] = "gone" => \A a \in AttemptsOf(i) : a \notin outputs
      BY <1>1, <1>5, <1>8 DEF Directories, AttemptsStay
    <3>1. CASE i = j
      BY <1>1, <1>2, <1>6, <1>8, <3>1
    <3>2. CASE i # j
      BY <1>2, <1>8, <3>2 DEF RetentionInv, Family, Directories
    <3> QED BY <3>1, <3>2
  <2>3. Families'
    BY <1>1, <1>8 DEF RetentionInv, Family, Families, AttemptsStay
  <2> QED BY <1>2, <1>7, <1>8, <2>1, <2>2, <2>3 DEF DependentsOf
<1>9. CASE BeginUpload(j)
  <2>1. madeAt' \in [SourceJobs -> 0..MaxDay]
    BY <1>2, <1>9 DEF BeginUpload
  <2> QED BY <1>8, <1>9, <2>1 DEF BeginUpload
<1>10. CASE RefuseUpload(j)
  BY <1>2, <1>8, <1>10 DEF RefuseUpload
<1>11. CASE UploadCrash(j)
  <2>1. dir' = [dir EXCEPT ![j] = "here"]
    BY <1>2, <1>11 DEF UploadCrash, RetentionInv, Family, Directories
  <2> QED BY <1>2, <1>8, <1>11, <2>1 DEF UploadCrash
<1>12. CASE RegisterUpload(j)
  <2> DEFINE row == [row |-> "running", at |-> day, leased |-> TRUE]
  <2>1. row \in JobRows /\ row.row = "running"
    BY <1>2 DEF JobRows
  <2>2. /\ job' = [job EXCEPT ![j] = row] /\ uploading' = uploading \ {j} /\ j \in uploading
        /\ UNCHANGED <<dir, madeAt>>
    BY <1>12 DEF RegisterUpload
  <2> HIDE DEF row
  <2>3. job' \in [SourceJobs -> JobRows] /\ job'[j].row = "running" /\ \A i \in SourceJobs \ {j} : job'[i] = job[i]
    BY <1>2, <2>1, <2>2
  <2>4. /\ dependent' \in [Dependents -> DependentRows]
        /\ \A d \in Dependents :
             \/ dependent'[d] = dependent[d]
             \/ dependent[d] = NoDependent /\ dependent'[d] = Starts("pipeline", j)
    <3>1. Starts("pipeline", j) \in DependentRows
      BY <1>2 DEF Starts, DependentRows
    <3> QED BY <1>2, <1>12, <3>1 DEF RegisterUpload
  <2>5. Starts("pipeline", j).job = j
    BY DEF Starts
  <2>6. \A d \in spool : dependent'[d] = dependent[d]
    BY <1>2, <2>4 DEF NoDependent
  <2>7. FamilyTyped'
    BY <1>1, <1>2, <2>2, <2>3, <2>4, <2>6 DEF FamilyTyped, RetentionInv, Typed
  <2>8. Directories'
    BY <1>1, <1>5, <2>2, <2>3 DEF RetentionInv, Family, Directories, AttemptsStay
  <2>9. Families'
    <3>1. \A a \in Attempts : attempt[a] # Absent => attempt[a].job \in SourceJobs \ {j}
      BY <1>1 DEF RetentionInv, Typed, RowsTyped, Family, Families
    <3>2. \A d \in Dependents : dependent[d] # NoDependent => dependent[d].job \in SourceJobs
      BY <1>2 DEF DependentRows
    <3>3. \A d \in Dependents : dependent'[d] # NoDependent => job'[dependent'[d].job].row # "none"
      BY <2>3, <2>4, <2>5, <3>2 DEF RetentionInv, Family, Families
    <3> QED BY <1>1, <2>3, <3>1, <3>3 DEF RetentionInv, Family, Families, AttemptsStay
  <2>10. \A i \in SourceJobs \ {j} : DependentsOf(i)' = DependentsOf(i)
    BY <2>4, <2>5 DEF DependentsOf
  <2> QED BY <1>7, <2>2, <2>3, <2>4, <2>7, <2>8, <2>9, <2>10
<1> QED BY <1>9, <1>10, <1>11, <1>12

(* Steps that touch neither the rows nor the disks of a family. *)
LEMMA FamilyStays ==
  ASSUME RetentionInv, RowsTyped', DisksTyped', Work', FamilyTyped', Sweeping', day' >= day,
         UNCHANGED <<job, dir, attempt, cleanup, outputs, uploading, dependent, spool, hold, tombstone>>
  PROVE  RetentionInv'
<1>1. \A j \in SourceJobs : Quiet(j)' = Quiet(j) /\ AttemptsOf(j)' = AttemptsOf(j) /\ DependentsOf(j)' = DependentsOf(j)
  BY DEF Quiet, AttemptsOf, DependentsOf, Active, Ended
<1>2. ClaimedIsQuiet'
  <2>1. \A j \in SourceJobs : hold[j] <= day => hold[j] <= day'
    BY DEF RetentionInv, Typed, FamilyTyped
  <2> QED BY <1>1, <2>1 DEF RetentionInv, Family, ClaimedIsQuiet
<1>3. FinishedIsGone' /\ Directories'
  BY <1>1 DEF RetentionInv, Family, FinishedIsGone, Directories
<1>4. Families' /\ PagesOfCompleted'
  BY DEF RetentionInv, Family, Families, PagesOfCompleted
<1> QED BY <1>2, <1>3, <1>4 DEF RetentionInv, Typed, Family

(* The row of a job that is not being purged moves on. *)
LEMMA JobSteps ==
  ASSUME RetentionInv, NEW j \in SourceJobs, JobEnds(j) \/ ReleaseJob(j) \/ DeleteJob(j)
  PROVE  RetentionInv'
<1>1. /\ AttemptsStay /\ UNCHANGED <<day, dir, faults, uploading, dependent, spool, hold, tombstone, sweeper>>
      /\ job \in [SourceJobs -> JobRows] /\ day \in 0..MaxDay /\ madeAt \in [SourceJobs -> 0..MaxDay]
      /\ faults \in 0..MaxFaults
  BY DEF JobEnds, ReleaseJob, DeleteJob, AttemptsStay, colorVars, familyVars, NotSweeping,
         RetentionInv, Typed, DisksTyped, FamilyTyped
<1>2. /\ RowsTyped' /\ DisksTyped' /\ Work' /\ PagesOfCompleted'
      /\ \A i \in SourceJobs : AttemptsOf(i)' = AttemptsOf(i)
      /\ \A a \in Attempts : Active(a)' <=> Active(a)
  BY <1>1, ColorStays
<1>3. madeAt' \in [SourceJobs -> 0..MaxDay]
  BY <1>1 DEF JobEnds, ReleaseJob, DeleteJob, familyVars
<1>4. PICK row \in JobRows :
        /\ job' = [job EXCEPT ![j] = row]
        /\ \/ job[j].row \in {"running", "ended"} /\ row.row \in {"ended", "deleted"}
           \/ job[j].row \in {"ended", "deleted"} /\ row.row = job[j].row
  <2>1. job[j] \in JobRows
    BY <1>1
  <2>2. CASE JobEnds(j)
    <3> DEFINE row == [job[j] EXCEPT !.row = "ended", !.at = day]
    <3>0. day \in Nat
      BY <1>1
    <3>1. row \in JobRows /\ row.row = "ended"
      BY <2>1, <3>0 DEF JobRows
    <3>2. job' = [job EXCEPT ![j] = row] /\ job[j].row = "running"
      BY <2>2 DEF JobEnds
    <3> HIDE DEF row
    <3> QED BY <3>1, <3>2
  <2>3. CASE ReleaseJob(j)
    <3> DEFINE row == [job[j] EXCEPT !.leased = FALSE]
    <3>1. row \in JobRows /\ row.row = job[j].row
      BY <1>1, <2>1 DEF JobRows
    <3>2. job' = [job EXCEPT ![j] = row] /\ job[j].row \in {"ended", "deleted"}
      BY <2>3 DEF ReleaseJob
    <3> HIDE DEF row
    <3> QED BY <3>1, <3>2
  <2>4. CASE DeleteJob(j)
    <3> DEFINE row == [job[j] EXCEPT !.row = "deleted"]
    <3>1. row \in JobRows /\ row.row = "deleted"
      BY <1>1, <2>1 DEF JobRows
    <3>2. job' = [job EXCEPT ![j] = row] /\ job[j].row = "ended"
      BY <2>4 DEF DeleteJob
    <3> HIDE DEF row
    <3> QED BY <3>1, <3>2
  <2> QED BY <2>2, <2>3, <2>4
<1>5. /\ job' \in [SourceJobs -> JobRows] /\ job'[j] = row /\ \A i \in SourceJobs \ {j} : job'[i] = job[i]
      /\ \A i \in SourceJobs : /\ job[i].row = "none" <=> job'[i].row = "none"
                               /\ job[i].row = "deleted" => job'[i].row = "deleted"
                               /\ job[i].row \in {"ended", "deleted"} => job'[i].row \in {"ended", "deleted"}
  <2>1. job' \in [SourceJobs -> JobRows] /\ job'[j] = row /\ \A i \in SourceJobs \ {j} : job'[i] = job[i]
    BY <1>1, <1>4
  <2> QED BY <1>4, <2>1
<1>6. FamilyTyped'
  BY <1>1, <1>3, <1>5 DEF RetentionInv, Typed, FamilyTyped
<1>7. Directories'
  BY <1>1, <1>2, <1>5 DEF RetentionInv, Family, Directories, AttemptsStay
<1>8. Families'
  <2>1. \A a \in Attempts : attempt[a] # Absent => attempt[a].job \in SourceJobs
    BY DEF RetentionInv, Typed, RowsTyped
  <2>2. \A d \in Dependents : dependent[d] # NoDependent => dependent[d].job \in SourceJobs
    BY DEF RetentionInv, Typed, FamilyTyped, DependentRows
  <2> QED BY <1>1, <1>5, <2>1, <2>2 DEF RetentionInv, Family, Families, AttemptsStay
<1>9. \A i \in SourceJobs : Quiet(i)' = Quiet(i) /\ DependentsOf(i)' = DependentsOf(i)
  BY <1>1, <1>2 DEF Quiet, DependentsOf, Ended, AttemptsOf
<1>10. ClaimedIsQuiet' /\ FinishedIsGone' /\ Sweeping'
  <2>1. ClaimedIsQuiet'
    BY <1>1, <1>5, <1>9 DEF RetentionInv, Family, ClaimedIsQuiet
  <2>2. FinishedIsGone'
    BY <1>1, <1>2, <1>9 DEF RetentionInv, Family, FinishedIsGone, AttemptsStay
  <2>3. sweeper.pc \in PurgePcs => sweeper.j \in SourceJobs
    BY DEF RetentionInv, Family, Sweeping
  <2>4. Sweeping'
    BY <1>1, <1>9, <2>3 DEF RetentionInv, Family, Sweeping, PurgePcs
  <2> QED BY <2>1, <2>2, <2>4
<1> QED BY <1>2, <1>6, <1>7, <1>8, <1>10 DEF RetentionInv, Typed, Family

(* Deliveries start only for a job that is there, and end. *)
LEMMA DependentSteps ==
  ASSUME RetentionInv, NEW d \in Dependents, (\E j \in SourceJobs : StartDelivery(d, j)) \/ EndDependent(d)
  PROVE  RetentionInv'
<1>1. /\ AttemptsStay /\ UNCHANGED <<day, job, dir, faults, uploading, madeAt, hold, tombstone, sweeper>>
      /\ day \in 0..MaxDay /\ faults \in 0..MaxFaults
      /\ dependent \in [Dependents -> DependentRows] /\ spool \subseteq Dependents
      /\ \A e \in spool : dependent[e].sort = "delivery"
  BY DEF StartDelivery, EndDependent, AttemptsStay, colorVars, NotSweeping,
         RetentionInv, Typed, DisksTyped, FamilyTyped
<1>2. /\ RowsTyped' /\ DisksTyped' /\ Work' /\ PagesOfCompleted'
      /\ \A i \in SourceJobs : AttemptsOf(i)' = AttemptsOf(i)
      /\ \A a \in Attempts : Active(a)' <=> Active(a)
  BY <1>1, ColorStays
<1>3. PICK row \in DependentRows :
        /\ dependent' = [dependent EXCEPT ![d] = row] /\ row # NoDependent
        /\ \/ /\ dependent[d] = NoDependent /\ row.sort = "delivery"
              /\ job[row.job].row = "ended" /\ spool' = spool \cup {d}
           \/ /\ dependent[d] # NoDependent /\ row.job = dependent[d].job /\ row.sort = dependent[d].sort
              /\ row.state = "ended" /\ spool' = spool
  <2>1. ASSUME NEW j \in SourceJobs, StartDelivery(d, j)
        PROVE  /\ Starts("delivery", j) \in DependentRows /\ Starts("delivery", j) # NoDependent
               /\ dependent' = [dependent EXCEPT ![d] = Starts("delivery", j)]
               /\ dependent[d] = NoDependent /\ Starts("delivery", j).sort = "delivery"
               /\ job[Starts("delivery", j).job].row = "ended" /\ spool' = spool \cup {d}
    BY <1>1, <2>1 DEF StartDelivery, Starts, DependentRows, NoDependent
  <2>2. CASE EndDependent(d)
    <3> DEFINE row == [dependent[d] EXCEPT !.state = "ended", !.at = day]
    <3>1. /\ dependent[d] # NoDependent
          /\ dependent[d] \in [sort : {"delivery", "pipeline"}, job : SourceJobs, state : {"active", "ended"}, at : 0..MaxDay]
      BY <1>1, <2>2 DEF EndDependent, NoDependent, DependentRows
    <3>2. /\ row \in [sort : {"delivery", "pipeline"}, job : SourceJobs, state : {"active", "ended"}, at : 0..MaxDay]
          /\ row.job = dependent[d].job /\ row.sort = dependent[d].sort /\ row.state = "ended"
      BY <1>1, <3>1
    <3>3. dependent' = [dependent EXCEPT ![d] = row] /\ spool' = spool
      BY <2>2 DEF EndDependent
    <3>4. row \in DependentRows /\ row # NoDependent
      BY <3>2 DEF DependentRows, NoDependent
    <3> HIDE DEF row
    <3> QED BY <3>1, <3>2, <3>3, <3>4
  <2> QED BY <2>1, <2>2
<1>4. /\ dependent' \in [Dependents -> DependentRows] /\ dependent'[d] = row
      /\ \A e \in Dependents \ {d} : dependent'[e] = dependent[e]
  BY <1>1, <1>3
<1>5. row.job \in SourceJobs
  BY <1>3 DEF DependentRows
<1>6. spool' \subseteq Dependents /\ \A e \in spool' : dependent'[e].sort = "delivery"
  BY <1>1, <1>3, <1>4
<1>7. FamilyTyped'
  BY <1>1, <1>4, <1>6 DEF RetentionInv, Typed, FamilyTyped
<1>8. Directories'
  BY <1>1, <1>2 DEF RetentionInv, Family, Directories, AttemptsStay
<1>9. Families'
  BY <1>1, <1>3, <1>4 DEF RetentionInv, Family, Families, AttemptsStay
(* A job that is being purged has no new one. *)
<1>10. ASSUME NEW i \in SourceJobs, tombstone[i] # "none"
       PROVE  /\ DependentsOf(i)' = DependentsOf(i) /\ spool' \cap DependentsOf(i) = spool \cap DependentsOf(i)
              /\ Quiet(i)'
  <2>1. Quiet(i) /\ job[i].row # "ended"
    BY <1>10 DEF RetentionInv, Family, ClaimedIsQuiet
  <2>2. DependentsOf(i)' = DependentsOf(i)
    BY <1>3, <1>4, <2>1 DEF DependentsOf
  <2>3. spool' \cap DependentsOf(i) = spool \cap DependentsOf(i)
    BY <1>3, <2>1 DEF DependentsOf
  <2>4. \A e \in DependentsOf(i) : Ended(e)'
    BY <1>3, <1>4, <2>1 DEF Quiet, Ended, DependentsOf
  <2>5. Quiet(i)'
    BY <1>2, <2>1, <2>2, <2>4 DEF Quiet, AttemptsOf
  <2> QED BY <2>2, <2>3, <2>5
<1>11. ClaimedIsQuiet'
  BY <1>1, <1>10 DEF RetentionInv, Family, ClaimedIsQuiet
<1>12. FinishedIsGone'
  BY <1>1, <1>2, <1>10 DEF RetentionInv, Family, FinishedIsGone, AttemptsStay
<1>13. Sweeping'
  <2>1. sweeper.pc \in PurgePcs => sweeper.j \in SourceJobs /\ tombstone[sweeper.j] # "none"
    BY DEF RetentionInv, Family, Sweeping
  <2> QED BY <1>1, <1>10, <2>1 DEF RetentionInv, Family, Sweeping, PurgePcs
<1> QED BY <1>2, <1>7, <1>8, <1>9, <1>11, <1>12, <1>13 DEF RetentionInv, Typed, Family

(* A hold is extended for a job that is not being purged. *)
LEMMA HoldSteps ==
  ASSUME RetentionInv, NEW j \in SourceJobs, NEW until \in 1..day + MaxHold, ExtendHold(j, until)
  PROVE  RetentionInv'
<1>1. /\ AttemptsStay
      /\ UNCHANGED <<day, job, dir, faults, uploading, madeAt, dependent, spool, tombstone, sweeper>>
      /\ day \in 0..MaxDay /\ faults \in 0..MaxFaults /\ hold \in [SourceJobs -> 0..MaxDay + MaxHold]
      /\ hold' = [hold EXCEPT ![j] = until] /\ tombstone[j] = "none"
  BY DEF ExtendHold, AttemptsStay, colorVars, NotSweeping, RetentionInv, Typed, DisksTyped, FamilyTyped
<1>2. /\ RowsTyped' /\ DisksTyped' /\ Work' /\ PagesOfCompleted'
      /\ \A i \in SourceJobs : AttemptsOf(i)' = AttemptsOf(i)
      /\ \A a \in Attempts : Active(a)' <=> Active(a)
  BY <1>1, ColorStays
<1>3. until \in 0..MaxDay + MaxHold
  BY <1>1
<1>4. hold' \in [SourceJobs -> 0..MaxDay + MaxHold] /\ \A i \in SourceJobs \ {j} : hold'[i] = hold[i]
  BY <1>1, <1>3
<1>5. FamilyTyped'
  BY <1>1, <1>4 DEF RetentionInv, Typed, FamilyTyped
<1>6. Directories' /\ Families'
  BY <1>1, <1>2 DEF RetentionInv, Family, Directories, Families, AttemptsStay
<1>7. \A i \in SourceJobs : Quiet(i)' = Quiet(i) /\ DependentsOf(i)' = DependentsOf(i)
  BY <1>1, <1>2 DEF Quiet, DependentsOf, Ended, AttemptsOf
<1>8. ClaimedIsQuiet'
  BY <1>1, <1>4, <1>7 DEF RetentionInv, Family, ClaimedIsQuiet
<1>9. FinishedIsGone'
  BY <1>1, <1>2, <1>7 DEF RetentionInv, Family, FinishedIsGone, AttemptsStay
<1>10. sweeper.pc \in PurgePcs => sweeper.j \in SourceJobs
  BY DEF RetentionInv, Family, Sweeping
<1>11. Sweeping'
  BY <1>1, <1>7, <1>10 DEF RetentionInv, Family, Sweeping, PurgePcs
<1> QED BY <1>2, <1>5, <1>6, <1>8, <1>9, <1>11 DEF RetentionInv, Typed, Family

LEMMA DaySteps ==
  ASSUME RetentionInv, NextDay
  PROVE  RetentionInv'
<1>1. /\ AttemptsStay /\ UNCHANGED <<job, dir, faults>> /\ UNCHANGED familyVars
      /\ day \in 0..MaxDay /\ day < MaxDay /\ day' = day + 1 /\ faults \in 0..MaxFaults
  BY DEF NextDay, AttemptsStay, colorVars, RetentionInv, Typed, DisksTyped, FamilyTyped
<1>2. RowsTyped' /\ DisksTyped' /\ Work'
  BY <1>1, ColorStays
<1>3. day' \in 0..MaxDay /\ day' >= day
  BY <1>1
<1>4. FamilyTyped'
  BY <1>1, <1>3 DEF RetentionInv, Typed, FamilyTyped, familyVars
<1>5. sweeper.pc \in PurgePcs => sweeper.j \in SourceJobs
  BY DEF RetentionInv, Family, Sweeping
<1>6. Sweeping'
  BY <1>1, <1>5 DEF RetentionInv, Family, Sweeping, PurgePcs, DependentsOf, familyVars
<1> QED BY <1>1, <1>2, <1>3, <1>4, <1>6, FamilyStays DEF familyVars, AttemptsStay

----------------------------------------------------------------------------
(* What every step of the sweep leaves alone, and who runs. *)
LEMMA SweepLeaves ==
  ASSUME RetentionInv, Sweep \/ SweepFails
  PROVE  /\ UNCHANGED <<day, attempt, cleanup, containers, colorist, uploading, madeAt, dependent, hold>>
         /\ faults' \in 0..MaxFaults
         /\ \A j \in SourceJobs : AttemptsOf(j)' = AttemptsOf(j) /\ DependentsOf(j)' = DependentsOf(j) /\ Quiet(j)' = Quiet(j)
<1>1. UNCHANGED <<day, attempt, cleanup, containers, colorist, uploading, madeAt, dependent, hold>>
  BY DEF Sweep, SweepFails, BeginSweep, SweepStages, SweepUploads, ClaimRetention, ListPending, MoveToTrash,
         RemoveTrash, RemoveSpool, FinishRetention, EndSweep, OnlySweep, rowVars, diskVars
<1>2. faults \in 0..MaxFaults
  BY DEF RetentionInv, Typed, DisksTyped
<1>3. faults' \in 0..MaxFaults
  <2>1. CASE Sweep
    BY <1>2, <2>1 DEF Sweep, BeginSweep, SweepStages, SweepUploads, ClaimRetention, ListPending, MoveToTrash,
           RemoveTrash, RemoveSpool, FinishRetention, EndSweep, OnlySweep
  <2>2. CASE SweepFails
    BY <1>2, <2>2 DEF SweepFails, Fault
  <2> QED BY <2>1, <2>2
<1>4. \A j \in SourceJobs : AttemptsOf(j)' = AttemptsOf(j) /\ DependentsOf(j)' = DependentsOf(j) /\ Quiet(j)' = Quiet(j)
  BY <1>1 DEF AttemptsOf, DependentsOf, Quiet, Active, Ended
<1> QED BY <1>1, <1>3, <1>4

(* The process alone moves, or drops stages that nobody writes to. *)
LEMMA SweeperSteps ==
  ASSUME RetentionInv, BeginSweep \/ SweepStages \/ ListPending \/ EndSweep \/ SweepFails
  PROVE  RetentionInv'
<1>1. /\ UNCHANGED <<day, attempt, cleanup, containers, colorist, uploading, madeAt, dependent, hold>>
      /\ faults' \in 0..MaxFaults
  BY SweepLeaves DEF Sweep
<1>2. UNCHANGED <<job, dir, outputs, spool, tombstone>>
  BY DEF BeginSweep, SweepStages, ListPending, EndSweep, SweepFails, diskVars
<1>3. stages' \subseteq stages /\ (colorist.a \in stages => colorist.a \in stages')
  BY DEF BeginSweep, SweepStages, ListPending, EndSweep, SweepFails, diskVars, Abandoned
<1>4. RowsTyped' /\ DisksTyped' /\ Work'
  BY <1>1, <1>2, <1>3 DEF RetentionInv, Typed, RowsTyped, DisksTyped, Work
<1>5. sweeper \in Sweepers /\ day \in 0..MaxDay
  BY DEF RetentionInv, Typed, FamilyTyped
<1>6. /\ sweeper' \in Sweepers /\ sweeper'.pc \notin PurgePcs
      /\ sweeper'.pc = "purge" => \A j \in sweeper'.todo : tombstone[j] # "none"
  <2>1. NoSweep \in Sweepers /\ NoSweep.pc = "idle"
    BY DEF NoSweep, Sweepers, SweepPcs
  <2>2. CASE BeginSweep
    <3> DEFINE todo == {j \in SourceJobs : Candidate(j, day - 1)}
    <3>1. todo \subseteq SourceJobs /\ day - 1 \in 0..MaxDay
      BY <1>5, <2>2 DEF BeginSweep
    <3>2. sweeper' = [NoSweep EXCEPT !.pc = "stages", !.cutoff = day - 1, !.todo = todo]
      BY <2>2 DEF BeginSweep
    <3> HIDE DEF todo
    <3>3. sweeper' \in Sweepers /\ sweeper'.pc = "stages"
      BY <2>1, <3>1, <3>2 DEF Sweepers, SweepPcs
    <3> QED BY <3>3 DEF PurgePcs
  <2>3. CASE SweepStages
    BY <1>5, <2>3 DEF SweepStages, Sweepers, SweepPcs, PurgePcs
  <2>4. CASE ListPending
    <3> DEFINE open == {j \in SourceJobs : tombstone[j] = "open"}
    <3>1. sweeper' = [sweeper EXCEPT !.pc = "purge", !.todo = open] /\ open \subseteq SourceJobs
      BY <2>4 DEF ListPending
    <3>2. \A j \in open : tombstone[j] # "none"
      OBVIOUS
    <3> HIDE DEF open
    <3>3. sweeper' \in Sweepers /\ sweeper'.pc = "purge" /\ sweeper'.todo = open
      BY <1>5, <3>1 DEF Sweepers, SweepPcs
    <3> QED BY <3>2, <3>3 DEF PurgePcs
  <2>5. CASE EndSweep \/ SweepFails
    BY <2>1, <2>5 DEF EndSweep, SweepFails, PurgePcs
  <2> QED BY <2>2, <2>3, <2>4, <2>5
<1>7. FamilyTyped'
  BY <1>1, <1>2, <1>6 DEF RetentionInv, Typed, FamilyTyped
<1>8. Sweeping'
  BY <1>2, <1>6 DEF Sweeping, PurgePcs
<1>9. day' >= day
  BY <1>1, <1>5
<1> QED BY <1>1, <1>2, <1>4, <1>7, <1>8, <1>9, FamilyStays

(* A job gets its tombstone: its uploads are over, and nothing of it runs. *)
LEMMA ClaimSteps ==
  ASSUME RetentionInv, SweepUploads \/ ClaimRetention
  PROVE  RetentionInv'
<1>1. /\ UNCHANGED <<day, attempt, cleanup, containers, colorist, uploading, madeAt, dependent, hold>>
      /\ faults' \in 0..MaxFaults
      /\ \A j \in SourceJobs : /\ AttemptsOf(j)' = AttemptsOf(j) /\ DependentsOf(j)' = DependentsOf(j)
                               /\ Quiet(j)' = Quiet(j)
  BY SweepLeaves DEF Sweep
<1>2. UNCHANGED <<dir, stages, outputs, spool>> /\ AttemptsStay
  BY <1>1 DEF SweepUploads, ClaimRetention, diskVars, AttemptsStay
<1>3. RowsTyped' /\ DisksTyped' /\ Work' /\ PagesOfCompleted'
  <2>1. \A j \in SourceJobs : dir'[j] = "here" => dir[j] = "here" \/ job[j].row = "none"
    BY <1>2
  <2> QED BY <1>1, <1>2, <2>1, ColorStays
<1>4. /\ sweeper \in Sweepers /\ day \in 0..MaxDay /\ job \in [SourceJobs -> JobRows]
      /\ hold \in [SourceJobs -> 0..MaxDay + MaxHold]
      /\ tombstone \in [SourceJobs -> {"none", "open", "finished"}]
  BY DEF RetentionInv, Typed, FamilyTyped
<1>5. sweeper' \in Sweepers /\ sweeper'.pc = "claim"
  <2>1. CASE SweepUploads
    BY <1>4, <2>1 DEF SweepUploads, Sweepers, SweepPcs
  <2>2. CASE ClaimRetention
    <3>1. PICK j \in sweeper.todo : sweeper' = [sweeper EXCEPT !.todo = @ \ {j}]
      BY <2>2 DEF ClaimRetention
    <3>2. sweeper.pc = "claim"
      BY <2>2 DEF ClaimRetention, SweeperAt
    <3> QED BY <1>4, <3>1, <3>2 DEF Sweepers
  <2> QED BY <2>1, <2>2
(* The rows: one that was ended or deleted is deleted, or none changes. *)
<1>6. /\ job' \in [SourceJobs -> JobRows] /\ tombstone' \in [SourceJobs -> {"none", "open", "finished"}]
      /\ \A j \in SourceJobs :
           \/ job'[j].row = job[j].row /\ tombstone'[j] = tombstone[j]
           \/ /\ tombstone'[j] = "open" /\ Quiet(j) /\ hold[j] <= day /\ dir[j] # "none"
              /\ \/ job'[j].row = "deleted" /\ job[j].row \in {"ended", "deleted"}
                 \/ job'[j].row = "none" /\ job[j].row = "none" /\ j \notin uploading
  <2>1. CASE SweepUploads
    <3>1. job' = job /\ tombstone' = [j \in SourceJobs |-> IF Unregistered(j) THEN "open" ELSE tombstone[j]]
      BY <2>1 DEF SweepUploads
    <3>2. ASSUME NEW j \in SourceJobs, Unregistered(j)
          PROVE  Quiet(j) /\ hold[j] <= day /\ dir[j] # "none" /\ job[j].row = "none" /\ j \notin uploading
      <4>1. AttemptsOf(j) = {} /\ DependentsOf(j) = {}
        BY <3>2 DEF Unregistered, AttemptsOf, DependentsOf, RetentionInv, Family, Families
      <4> QED BY <1>4, <3>2, <4>1 DEF Unregistered, Quiet
    <3> QED BY <1>4, <3>1, <3>2
  <2>2. CASE ClaimRetention
    <3>1. CASE UNCHANGED <<job, tombstone>>
      BY <1>4, <3>1
    <3>2. CASE \E j \in sweeper.todo : /\ Candidate(j, sweeper.cutoff)
                                       /\ job' = [job EXCEPT ![j].row = "deleted"]
                                       /\ tombstone' = [tombstone EXCEPT ![j] = "open"]
      <4>1. PICK j \in sweeper.todo : /\ Candidate(j, sweeper.cutoff)
                                      /\ job' = [job EXCEPT ![j].row = "deleted"]
                                      /\ tombstone' = [tombstone EXCEPT ![j] = "open"]
        BY <3>2
      <4>2. j \in SourceJobs /\ job[j] \in JobRows
        BY <1>4 DEF Sweepers
      <4> DEFINE row == [job[j] EXCEPT !.row = "deleted"]
      <4>3. row \in JobRows /\ row.row = "deleted" /\ job' = [job EXCEPT ![j] = row]
        BY <4>1, <4>2 DEF JobRows
      <4> HIDE DEF row
      <4>4. job' \in [SourceJobs -> JobRows] /\ job'[j].row = "deleted" /\ \A i \in SourceJobs \ {j} : job'[i] = job[i]
        BY <1>4, <4>2, <4>3
      <4>5. /\ tombstone' \in [SourceJobs -> {"none", "open", "finished"}]
            /\ tombstone'[j] = "open" /\ \A i \in SourceJobs \ {j} : tombstone'[i] = tombstone[i]
        BY <1>4, <4>1, <4>2
      <4>6. Quiet(j) /\ hold[j] <= day /\ job[j].row \in {"ended", "deleted"}
        BY <4>1 DEF Candidate, Guard, Row, Orphan
      <4>7. dir[j] # "none"
        BY <4>2, <4>6 DEF RetentionInv, Family, Directories
      <4> QED BY <4>2, <4>4, <4>5, <4>6, <4>7
    <3> QED BY <2>2, <3>1, <3>2 DEF ClaimRetention
  <2> QED BY <2>1, <2>2
<1>7. FamilyTyped'
  BY <1>1, <1>2, <1>5, <1>6 DEF RetentionInv, Typed, FamilyTyped
<1>8. Directories'
  <2> SUFFICES ASSUME NEW j \in SourceJobs
               PROVE  /\ j \in uploading => job'[j].row = "none" /\ dir[j] = "here" /\ tombstone'[j] = "none"
                      /\ job'[j].row # "none" \/ tombstone'[j] # "none" => dir[j] # "none"
                      /\ job'[j].row # "none" /\ tombstone'[j] = "none" => dir[j] = "here"
                      /\ dir[j] = "gone" => \A a \in AttemptsOf(j) : a \notin outputs
    BY <1>1, <1>2 DEF Directories
  <2> QED BY <1>6 DEF RetentionInv, Family, Directories
<1>9. Families'
  <2>1. \A a \in Attempts : attempt[a] # Absent => attempt[a].job \in SourceJobs
    BY DEF RetentionInv, Typed, RowsTyped
  <2>2. \A d \in Dependents : dependent[d] # NoDependent => dependent[d].job \in SourceJobs
    BY DEF RetentionInv, Typed, FamilyTyped, DependentRows
  <2>3. \A j \in SourceJobs : /\ job[j].row \in {"ended", "deleted"} => job'[j].row \in {"ended", "deleted"}
                              /\ job[j].row # "none" => job'[j].row # "none"
    BY <1>6
  <2> QED BY <1>1, <2>1, <2>2, <2>3 DEF RetentionInv, Family, Families
<1>10. ClaimedIsQuiet'
  BY <1>1, <1>6 DEF RetentionInv, Family, ClaimedIsQuiet
<1>11. FinishedIsGone'
  BY <1>1, <1>2, <1>6 DEF RetentionInv, Family, FinishedIsGone
<1>12. Sweeping'
  BY <1>5 DEF Sweeping, PurgePcs
<1> QED BY <1>3, <1>7, <1>8, <1>9, <1>10, <1>11, <1>12 DEF RetentionInv, Typed, Family

(* What the four steps of a purge share. *)
Purge == MoveToTrash \/ RemoveTrash \/ RemoveSpool \/ FinishRetention

LEMMA PurgeLeaves ==
  ASSUME RetentionInv, Purge
  PROVE  /\ UNCHANGED <<day, job, attempt, cleanup, containers, stages, colorist, uploading, madeAt, dependent, hold>>
         /\ faults' \in 0..MaxFaults /\ RowsTyped' /\ Families'
         /\ \A j \in SourceJobs : /\ AttemptsOf(j)' = AttemptsOf(j) /\ DependentsOf(j)' = DependentsOf(j)
                                  /\ Quiet(j)' = Quiet(j)
         /\ sweeper \in Sweepers /\ dir \in [SourceJobs -> {"none", "here", "trash", "gone"}]
         /\ tombstone \in [SourceJobs -> {"none", "open", "finished"}]
         /\ spool \subseteq Dependents /\ outputs \subseteq Attempts
<1>1. Sweep
  BY DEF Purge, Sweep
<1>2. UNCHANGED <<job, stages>>
  BY DEF Purge, MoveToTrash, RemoveTrash, RemoveSpool, FinishRetention, diskVars
<1> QED BY <1>1, <1>2, SweepLeaves DEF RetentionInv, Typed, RowsTyped, DisksTyped, FamilyTyped, Family, Families

(* The directory of a job with a tombstone goes, and then its outputs with it. *)
LEMMA DirectoryGoes ==
  ASSUME RetentionInv, MoveToTrash \/ RemoveTrash
  PROVE  RetentionInv'
<1>1. Purge /\ UNCHANGED <<spool, tombstone>>
  BY DEF Purge, MoveToTrash, RemoveTrash
<1>2. PICK j \in SourceJobs, to \in {"trash", "gone"} :
        /\ tombstone[j] # "none" /\ dir[j] # "none" /\ dir' = [dir EXCEPT ![j] = to]
        /\ dir[j] = "gone" => to = "gone"
        /\ \/ to = "gone" /\ outputs' \subseteq outputs /\ outputs \ AttemptsOf(j) \subseteq outputs'
              /\ \A a \in AttemptsOf(j) : a \notin outputs'
           \/ outputs' = outputs /\ (to = "gone" => dir[j] = "gone")
        /\ sweeper' \in Sweepers /\ sweeper'.todo \subseteq sweeper.todo /\ sweeper'.j = j
        /\ \/ sweeper'.pc = "remove"
           \/ sweeper'.pc = "spool" /\ to = "gone"
        /\ sweeper.pc \in {"purge", "remove"}
  <2>1. /\ sweeper \in Sweepers /\ dir \in [SourceJobs -> {"none", "here", "trash", "gone"}]
        /\ tombstone \in [SourceJobs -> {"none", "open", "finished"}]
    BY <1>1, PurgeLeaves
  <2>2. CASE MoveToTrash
    <3>1. PICK j \in sweeper.todo :
            /\ dir' = [dir EXCEPT ![j] = IF dir[j] = "here" THEN "trash" ELSE dir[j]]
            /\ sweeper' = [sweeper EXCEPT !.pc = "remove", !.j = j, !.todo = sweeper.todo \ {j}]
            /\ sweeper.pc = "purge"
      BY <2>2 DEF MoveToTrash, SweeperAt
    <3>2. j \in SourceJobs /\ tombstone[j] # "none"
      BY <2>1, <3>1 DEF RetentionInv, Family, Sweeping, Sweepers
    <3>3. dir[j] \in {"here", "trash", "gone"}
      BY <2>1, <3>2 DEF RetentionInv, Family, Directories
    <3>4. /\ sweeper' \in Sweepers /\ sweeper'.pc = "remove" /\ sweeper'.j = j
          /\ sweeper'.todo = sweeper.todo \ {j}
      BY <2>1, <3>1, <3>2 DEF Sweepers, SweepPcs
    <3>5. outputs' = outputs
      BY <2>2 DEF MoveToTrash, diskVars
    <3> DEFINE to == IF dir[j] = "here" THEN "trash" ELSE dir[j]
    <3>6. to \in {"trash", "gone"} /\ dir' = [dir EXCEPT ![j] = to] /\ (dir[j] = "gone" <=> to = "gone")
      BY <3>1, <3>3
    <3> HIDE DEF to
    <3> QED BY <3>1, <3>2, <3>3, <3>4, <3>5, <3>6
  <2>3. CASE RemoveTrash
    <3> DEFINE j == sweeper.j
    <3>1. sweeper.pc = "remove" /\ j \in SourceJobs /\ tombstone[j] # "none" /\ dir[j] \in {"trash", "gone"}
      BY <2>3 DEF RemoveTrash, SweeperAt, RetentionInv, Family, Sweeping, PurgePcs
    <3>2. dir' = [dir EXCEPT ![j] = "gone"]
      BY <2>1, <2>3, <3>1 DEF RemoveTrash
    <3>3. /\ sweeper' \in Sweepers /\ sweeper'.pc = "spool" /\ sweeper'.j = j
          /\ sweeper'.todo = sweeper.todo
      BY <2>1, <2>3 DEF RemoveTrash, Sweepers, SweepPcs
    <3>4. /\ outputs' \subseteq outputs /\ outputs \ AttemptsOf(j) \subseteq outputs'
          /\ \A a \in AttemptsOf(j) : a \notin outputs'
      <4>1. dir[j] = "gone" => \A a \in AttemptsOf(j) : a \notin outputs
        BY <3>1 DEF RetentionInv, Family, Directories
      <4> QED BY <2>3, <3>1, <4>1 DEF RemoveTrash
    <3> HIDE DEF j
    <3> QED BY <3>1, <3>2, <3>3, <3>4
  <2> QED BY <2>2, <2>3
<1>3. /\ UNCHANGED <<day, job, attempt, cleanup, containers, stages, colorist, uploading, madeAt, dependent, hold>>
      /\ faults' \in 0..MaxFaults /\ RowsTyped' /\ Families'
      /\ \A i \in SourceJobs : /\ AttemptsOf(i)' = AttemptsOf(i) /\ DependentsOf(i)' = DependentsOf(i)
                               /\ Quiet(i)' = Quiet(i)
      /\ dir \in [SourceJobs -> {"none", "here", "trash", "gone"}] /\ outputs \subseteq Attempts
  BY <1>1, PurgeLeaves
<1>4. /\ dir' \in [SourceJobs -> {"none", "here", "trash", "gone"}] /\ dir'[j] = to
      /\ \A i \in SourceJobs \ {j} : dir'[i] = dir[i]
  BY <1>2, <1>3
<1>5. outputs' \subseteq outputs
  BY <1>2
<1>6. \A a \in Attempts : attempt[a] # Absent => attempt[a].job \in SourceJobs
  BY DEF RetentionInv, Typed, RowsTyped
(* An attempt of another job keeps its output. *)
<1>7. \A a \in Attempts : attempt[a] # Absent /\ attempt[a].job # j /\ a \in outputs => a \in outputs'
  BY <1>2 DEF AttemptsOf
<1>8. Typed'
  <2>1. DisksTyped'
    BY <1>3, <1>5 DEF RetentionInv, Typed, DisksTyped
  <2>2. FamilyTyped'
    BY <1>1, <1>2, <1>3, <1>4 DEF RetentionInv, Typed, FamilyTyped
  <2> QED BY <1>3, <2>1, <2>2 DEF Typed
<1>9. Work'
  <2>1. ASSUME colorist.pc = "settle", colorist.outcome = "ok"
        PROVE  colorist.a \in outputs'
    <3>1. colorist.a \in Attempts /\ attempt[colorist.a].state = "RUNNING" /\ colorist.a \in outputs
      BY <2>1 DEF RetentionInv, Work, WorkPcs
    <3>2. attempt[colorist.a] # Absent /\ Active(colorist.a)
      BY <3>1 DEF Absent, Active
    <3>3. tombstone[attempt[colorist.a].job] = "none"
      BY <3>1, <3>2, ActiveIsKept
    <3> QED BY <1>2, <1>7, <3>1, <3>2, <3>3
  <2> QED BY <1>3, <2>1 DEF RetentionInv, Work
<1>10. PagesOfCompleted'
  <2> SUFFICES ASSUME NEW a \in Attempts, attempt[a].state = "COMPLETED"
               PROVE  attempt[a].pages = Total /\ (dir'[attempt[a].job] = "here" => a \in outputs')
    BY <1>3 DEF PagesOfCompleted
  <2>1. attempt[a] # Absent /\ attempt[a].pages = Total /\ (dir[attempt[a].job] = "here" => a \in outputs)
    BY DEF Absent, RetentionInv, PagesOfCompleted
  <2> QED BY <1>4, <1>6, <1>7, <2>1
<1>11. Directories'
  <2> SUFFICES ASSUME NEW i \in SourceJobs
               PROVE  /\ i \in uploading => job[i].row = "none" /\ dir'[i] = "here" /\ tombstone[i] = "none"
                      /\ job[i].row # "none" \/ tombstone[i] # "none" => dir'[i] # "none"
                      /\ job[i].row # "none" /\ tombstone[i] = "none" => dir'[i] = "here"
                      /\ dir'[i] = "gone" => \A a \in AttemptsOf(i) : a \notin outputs'
    BY <1>1, <1>3 DEF Directories
  <2>1. /\ i \in uploading => job[i].row = "none" /\ dir[i] = "here" /\ tombstone[i] = "none"
        /\ job[i].row # "none" \/ tombstone[i] # "none" => dir[i] # "none"
        /\ job[i].row # "none" /\ tombstone[i] = "none" => dir[i] = "here"
        /\ dir[i] = "gone" => \A a \in AttemptsOf(i) : a \notin outputs
    BY DEF RetentionInv, Family, Directories
  <2>2. CASE i # j
    BY <1>4, <1>5, <2>1, <2>2
  <2>3. CASE i = j
    <3>1. to = "gone" => \A a \in AttemptsOf(i) : a \notin outputs'
      BY <1>2, <2>1, <2>3
    <3> QED BY <1>2, <1>4, <2>1, <2>3, <3>1
  <2> QED BY <2>2, <2>3
<1>12. ClaimedIsQuiet'
  BY <1>1, <1>3 DEF RetentionInv, Family, ClaimedIsQuiet
<1>13. FinishedIsGone'
  <2> SUFFICES ASSUME NEW i \in SourceJobs, tombstone[i] = "finished"
               PROVE  /\ dir'[i] = "gone" /\ (\A a \in AttemptsOf(i) : a \notin outputs')
                      /\ DependentsOf(i) \cap spool = {}
    BY <1>1, <1>3 DEF FinishedIsGone
  <2>1. /\ dir[i] = "gone" /\ (\A a \in AttemptsOf(i) : a \notin outputs)
        /\ DependentsOf(i) \cap spool = {}
    BY DEF RetentionInv, Family, FinishedIsGone
  <2> QED BY <1>2, <1>4, <1>5, <2>1
<1>14. Sweeping'
  BY <1>1, <1>2, <1>4 DEF RetentionInv, Family, Sweeping, PurgePcs
<1> QED BY <1>3, <1>8, <1>9, <1>10, <1>11, <1>12, <1>13, <1>14 DEF RetentionInv, Family

(* With the directory gone, the spool of the ended deliveries, which are    *)
(* all of them, and then the tombstone is finished.                         *)
LEMMA PurgeFinishes ==
  ASSUME RetentionInv, RemoveSpool \/ FinishRetention
  PROVE  RetentionInv'
<1> DEFINE j == sweeper.j
<1>1. /\ UNCHANGED <<job, dir, outputs>> /\ sweeper.pc \in {"spool", "finish"}
      /\ spool' \subseteq spool
      /\ \/ sweeper.pc = "spool" /\ sweeper' = [sweeper EXCEPT !.pc = "finish"] /\ UNCHANGED tombstone
         \/ /\ sweeper.pc = "finish" /\ sweeper' = [sweeper EXCEPT !.pc = "purge"]
            /\ tombstone' = [tombstone EXCEPT ![j] = "finished"]
      /\ RemoveSpool => spool' = spool \ {d \in DependentsOf(j) : Ended(d)}
      /\ FinishRetention => sweeper.pc = "finish"
  BY DEF RemoveSpool, FinishRetention, SweeperAt, diskVars
<1>2. /\ UNCHANGED <<day, job, attempt, cleanup, containers, stages, colorist, uploading, madeAt, dependent, hold>>
      /\ faults' \in 0..MaxFaults /\ RowsTyped' /\ Families'
      /\ \A i \in SourceJobs : /\ AttemptsOf(i)' = AttemptsOf(i) /\ DependentsOf(i)' = DependentsOf(i)
                               /\ Quiet(i)' = Quiet(i)
      /\ sweeper \in Sweepers /\ tombstone \in [SourceJobs -> {"none", "open", "finished"}]
  BY PurgeLeaves DEF Purge
<1>3. j \in SourceJobs /\ tombstone[j] # "none" /\ dir[j] = "gone"
  BY <1>1 DEF RetentionInv, Family, Sweeping, PurgePcs
<1>4. sweeper' \in Sweepers /\ sweeper'.j = j /\ sweeper'.todo = sweeper.todo
  BY <1>1, <1>2 DEF Sweepers, SweepPcs
<1> HIDE DEF j
<1>5. /\ tombstone' \in [SourceJobs -> {"none", "open", "finished"}]
      /\ \A i \in SourceJobs : tombstone'[i] = "none" <=> tombstone[i] = "none"
      /\ \A i \in SourceJobs \ {j} : tombstone'[i] = tombstone[i]
  BY <1>1, <1>2, <1>3
<1>6. Typed'
  <2>1. DisksTyped'
    BY <1>1, <1>2 DEF RetentionInv, Typed, DisksTyped
  <2>2. FamilyTyped'
    BY <1>1, <1>2, <1>4, <1>5 DEF RetentionInv, Typed, FamilyTyped
  <2> QED BY <1>2, <2>1, <2>2 DEF Typed
<1>7. Work' /\ PagesOfCompleted' /\ Directories'
  BY <1>1, <1>2, <1>5 DEF RetentionInv, Family, Work, PagesOfCompleted, Directories
<1>8. ClaimedIsQuiet'
  BY <1>1, <1>2, <1>5 DEF RetentionInv, Family, ClaimedIsQuiet
<1>9. RemoveSpool \/ FinishRetention => DependentsOf(j) \cap spool' = {}
  <2>1. CASE RemoveSpool
    <3>1. \A d \in DependentsOf(j) : Ended(d)
      BY <1>3 DEF RetentionInv, Family, ClaimedIsQuiet, Quiet
    <3> QED BY <1>1, <2>1, <3>1
  <2>2. CASE FinishRetention
    <3>1. DependentsOf(j) \cap spool = {}
      BY <1>1, <2>2 DEF RetentionInv, Family, Sweeping, j
    <3> QED BY <1>1, <3>1
  <2> QED BY <2>1, <2>2
<1>10. FinishedIsGone'
  <2> SUFFICES ASSUME NEW i \in SourceJobs, tombstone'[i] = "finished"
               PROVE  /\ dir[i] = "gone" /\ (\A a \in AttemptsOf(i) : a \notin outputs)
                      /\ DependentsOf(i) \cap spool' = {}
    BY <1>1, <1>2 DEF FinishedIsGone
  <2>1. CASE i = j
    BY <1>3, <1>9, <2>1 DEF RetentionInv, Family, Directories
  <2>2. CASE i # j
    BY <1>1, <1>5, <2>2 DEF RetentionInv, Family, FinishedIsGone
  <2> QED BY <2>1, <2>2
<1>11. Sweeping'
  <2>1. CASE sweeper' = [sweeper EXCEPT !.pc = "finish"] /\ sweeper.pc = "spool" /\ UNCHANGED tombstone
    <3>1. sweeper'.pc = "finish" /\ \A i \in sweeper.todo : tombstone[i] # "none"
      BY <1>2, <2>1 DEF Sweepers, RetentionInv, Family, Sweeping, PurgePcs
    <3> QED BY <1>1, <1>2, <1>3, <1>4, <1>9, <2>1, <3>1 DEF Sweeping, PurgePcs
  <2>2. CASE sweeper' = [sweeper EXCEPT !.pc = "purge"] /\ sweeper.pc = "finish"
    <3>1. sweeper'.pc = "purge" /\ \A i \in sweeper.todo : tombstone[i] # "none" /\ i \in SourceJobs
      BY <1>2, <2>2 DEF Sweepers, RetentionInv, Family, Sweeping, PurgePcs
    <3> QED BY <1>4, <1>5, <3>1 DEF Sweeping, PurgePcs
  <2> QED BY <1>1, <2>1, <2>2
<1> QED BY <1>2, <1>6, <1>7, <1>8, <1>10, <1>11 DEF RetentionInv, Family

----------------------------------------------------------------------------
LEMMA NextKeeps == RetentionInv /\ [RetentionNext]_retentionVars => RetentionInv'
<1> SUFFICES ASSUME RetentionInv, [RetentionNext]_retentionVars PROVE RetentionInv'
  OBVIOUS
<1>1. CASE ColorNext /\ UNCHANGED familyVars
  BY <1>1, ColorSteps, ColorKeeps
<1>2. ASSUME NEW j \in SourceJobs, BeginUpload(j) \/ RegisterUpload(j) \/ RefuseUpload(j) \/ UploadCrash(j)
      PROVE  RetentionInv'
  BY <1>2, UploadSteps
<1>3. ASSUME NEW j \in SourceJobs, JobEnds(j) \/ ReleaseJob(j) \/ DeleteJob(j)
      PROVE  RetentionInv'
  BY <1>3, JobSteps
<1>4. ASSUME NEW d \in Dependents, (\E j \in SourceJobs : StartDelivery(d, j)) \/ EndDependent(d)
      PROVE  RetentionInv'
  BY <1>4, DependentSteps
<1>5. ASSUME NEW j \in SourceJobs, NEW until \in 1..day + MaxHold, ExtendHold(j, until)
      PROVE  RetentionInv'
  BY <1>5, HoldSteps
<1>6. CASE NextDay
  BY <1>6, DaySteps
<1>7. CASE Sweep \/ SweepFails
  BY <1>7, SweeperSteps, ClaimSteps, DirectoryGoes, PurgeFinishes DEF Sweep
<1>8. CASE UNCHANGED retentionVars
  <2> USE <1>8 DEF retentionVars
  <2>1. /\ AttemptsStay /\ UNCHANGED <<day, job, dir, faults>> /\ UNCHANGED familyVars
        /\ day \in 0..MaxDay /\ faults \in 0..MaxFaults
    BY DEF AttemptsStay, familyVars, RetentionInv, Typed, DisksTyped, FamilyTyped
  <2>2. RowsTyped' /\ DisksTyped' /\ Work'
    BY <2>1, ColorStays
  <2>3. FamilyTyped' /\ day' >= day
    BY DEF RetentionInv, Typed, FamilyTyped
  <2>4. Sweeping'
    BY DEF RetentionInv, Family, Sweeping, DependentsOf
  <2> QED BY <2>2, <2>3, <2>4, FamilyStays
<1> QED BY <1>1, <1>2, <1>3, <1>4, <1>5, <1>6, <1>7, <1>8 DEF RetentionNext

(* The inductive invariant of uploads, jobs, deliveries, holds, color        *)
(* attempts and the maintenance process (retention.rs, maintenance.rs,       *)
(* color.rs), whatever crashes and failed removals happen.                   *)
THEOREM RetentionInvariant == RetentionSpec => []RetentionInv
BY InitHolds, NextKeeps, PTL DEF RetentionSpec

(* The types of the rows, the disk and the two processes. *)
THEOREM TypeCorrect == RetentionSpec => []RetentionTypeOK
<1>1. RetentionInv => RetentionTypeOK
  <2> SUFFICES ASSUME RetentionInv PROVE RetentionTypeOK
    OBVIOUS
  <2>1. ASSUME NEW a \in Attempts, attempt[a] # Absent
        PROVE  attempt[a] \in [job : SourceJobs, state : {"QUEUED", "RUNNING"} \cup Terminal, revision : Nat,
                               pages : 0..Total, lease : {"none", "live", "lapsed"}, at : 0..MaxDay]
    BY <2>1 DEF RetentionInv, Typed, RowsTyped, AttemptRows, States
  <2>2. ColorTypeOK
    BY <2>1 DEF ColorTypeOK, RetentionInv, Typed, DisksTyped, FamilyTyped, Colorists
  <2> QED BY <2>2 DEF RetentionTypeOK, RetentionInv, Typed, FamilyTyped, DependentRows, Sweepers
<1> QED BY <1>1, RetentionInvariant, PTL

(* color.rs verified_page: every page of a COMPLETED attempt is published    *)
(* and stays as long as the directory of its job.                            *)
THEOREM PagesStay == RetentionSpec => []PagesAreKept
<1>1. RetentionInv => PagesAreKept
  BY DEF RetentionInv, PagesOfCompleted, PagesAreKept
<1> QED BY <1>1, RetentionInvariant, PTL

(* retention.rs and maintenance.rs: neither a purge nor a sweep takes what   *)
(* is in use or held, and a purge that was finished, perhaps after crashes,  *)
(* was complete.                                                             *)
THEOREM PurgesAreSafe == RetentionSpec => []PurgeIsSafe
<1>1. RetentionInv => PurgeIsSafe
  BY DEF RetentionInv, Work, Family, StageIsLeft, PurgeIsSafe
<1> QED BY <1>1, RetentionInvariant, PTL

-----------------------------------------------------------------------------
(* What an attempt promises.  A worker fails the attempts whose lease ran   *)
(* out long after it listed them, so it matters that they run still.        *)
Leased ==
  /\ \A a \in Attempts : attempt[a].lease # "none" => attempt[a].state = "RUNNING"
  /\ colorist.pc \in {"expiring", "expire"} => \A a \in colorist.todo : attempt[a].state = "RUNNING"
  /\ colorist.pc = "expire" => attempt[colorist.a].state = "RUNNING" /\ colorist.a \notin colorist.todo

ColorInv == RetentionInv /\ Leased

(* What a step does to the row of one attempt. *)
RowMoves(a, old, new) ==
  /\ attempt[a].state = old
  /\ StateOf' = [StateOf EXCEPT ![a] = new]
  /\ attempt'[a].lease # "none" => new = "RUNNING"
  /\ \A b \in Attempts \ {a} : attempt'[b] = attempt[b]

LEMMA RowWritten ==
  ASSUME RowsTyped, NEW a \in Attempts, NEW row, attempt' = [attempt EXCEPT ![a] = row],
         row.lease # "none" => row.state = "RUNNING"
  PROVE  RowMoves(a, attempt[a].state, row.state)
<1>1. /\ attempt \in [Attempts -> AttemptRows] /\ attempt'[a] = row
      /\ \A b \in Attempts \ {a} : attempt'[b] = attempt[b]
  BY DEF RowsTyped
<1>2. StateOf' = [StateOf EXCEPT ![a] = row.state]
  BY <1>1 DEF StateOf
<1> QED BY <1>1, <1>2 DEF RowMoves

LEMMA RowUpdated ==
  ASSUME RowsTyped, NEW a \in Attempts, NEW next, NEW pages, attempt' = Updated(a, next, pages)
  PROVE  RowMoves(a, attempt[a].state, next)
<1> DEFINE row == [attempt[a] EXCEPT !.state = next, !.pages = pages, !.at = day,
                     !.revision = attempt[a].revision + 1,
                     !.lease = IF next = "RUNNING" THEN "live" ELSE "none"]
<1>1. attempt[a] \in AttemptRows
  BY DEF RowsTyped
<1>2. attempt' = [attempt EXCEPT ![a] = row]
  BY <1>1 DEF Updated, RowsTyped, AttemptRows
<1>3. row.state = next /\ (row.lease # "none" => next = "RUNNING")
  BY <1>1 DEF AttemptRows
<1> HIDE DEF row
<1> QED BY <1>2, <1>3, RowWritten

(* The steps of the color subsystem, as the promise knows them. *)
Asks(a) == RowMoves(a, "ABSENT", "QUEUED") /\ UNCHANGED outputs /\ a \notin Purged'
Moves(a) ==
  /\ \/ RowMoves(a, "QUEUED", "CANCELLED") \/ RowMoves(a, "QUEUED", "RUNNING")
     \/ RowMoves(a, "RUNNING", "RUNNING") \/ RowMoves(a, "RUNNING", "FAILED")
     \/ a \in outputs /\ RowMoves(a, "RUNNING", "COMPLETED")
  /\ UNCHANGED outputs
Publishes(a) ==
  /\ attempt[a].state = "RUNNING" /\ a \notin outputs /\ outputs' = outputs \cup {a}
  /\ UNCHANGED attempt
Rests == UNCHANGED <<attempt, outputs>>

LEMMA ColorMovesOn ==
  ASSUME ColorInv, ColorNext
  PROVE  Rests \/ \E a \in Attempts : Asks(a) \/ Moves(a) \/ Publishes(a)
<1> USE DEF ColorInv, RetentionInv, Typed
<1> DEFINE w == colorist.a
<1>1. ASSUME NEW a \in Attempts, NEW j \in SourceJobs, CreateColor(a, j) PROVE Asks(a)
  <2> DEFINE row == [Absent EXCEPT !.job = j, !.state = "QUEUED", !.at = day]
  <2>1. /\ attempt' = [attempt EXCEPT ![a] = row] /\ attempt[a].state = "ABSENT" /\ job[j].row = "ended"
        /\ UNCHANGED <<dir, outputs>>
    BY <1>1 DEF CreateColor, Absent, diskVars, storeVars
  <2>2. row.state = "QUEUED" /\ row.lease = "none" /\ row.job = j
    BY DEF Absent
  <2> HIDE DEF row
  <2>3. RowMoves(a, "ABSENT", "QUEUED") /\ attempt'[a] = row
    BY <2>1, <2>2, RowWritten DEF RowsTyped
  <2>4. tombstone[j] = "none"
    BY <2>1 DEF Family, ClaimedIsQuiet, FamilyTyped
  <2>5. dir[j] = "here"
    BY <2>1, <2>4 DEF Family, Directories
  <2> QED BY <2>1, <2>2, <2>3, <2>5 DEF Asks, Purged
<1>2. ASSUME NEW a \in Attempts, CancelColor(a) PROVE Moves(a)
  <2>1. attempt[a].state = "QUEUED" /\ attempt' = Updated(a, "CANCELLED", 0) /\ UNCHANGED outputs
    BY <1>2 DEF CancelColor, MayUpdate, ColorMoves, diskVars
  <2> QED BY <2>1, RowUpdated DEF Moves
<1>3. ASSUME NEW a \in Attempts, LeaseLapses(a) PROVE Moves(a)
  <2> DEFINE row == [attempt[a] EXCEPT !.lease = "lapsed"]
  <2>1. attempt[a].state = "RUNNING" /\ attempt' = [attempt EXCEPT ![a] = row] /\ UNCHANGED outputs
    BY <1>3 DEF LeaseLapses, Leased, diskVars
  <2>2. row.state = attempt[a].state
    BY DEF RowsTyped, AttemptRows
  <2> HIDE DEF row
  <2> QED BY <2>1, <2>2, RowWritten DEF Moves
<1>4. QuietWork => Rests
  BY DEF QuietWork, BeginTick, CleanPending, ForgetCleanup, ListExpired, CleanExpired, PickColor,
         MakeStage, StartPage, EndPage, ColorCrash, rowVars, diskVars, Rests
<1>5. ASSUME FailExpired \/ ClaimColor \/ RecordPage \/ SettleColor
      PROVE  w \in Attempts /\ (Rests \/ Moves(w))
  <2>1. w \in Attempts /\ UNCHANGED outputs
    BY <1>5 DEF FailExpired, ClaimColor, RecordPage, SettleColor, At, Work, WorkPcs, diskVars
  <2>2. CASE FailExpired
    <3>1. attempt[w].state = "RUNNING" /\ attempt' = Updated(w, "FAILED", attempt[w].pages)
      BY <2>2 DEF FailExpired, At, Leased
    <3> QED BY <2>1, <3>1, RowUpdated DEF Moves
  <2>3. ASSUME NEW revision, NEW next \in {"RUNNING", "COMPLETED", "FAILED"}, NEW pages,
               MayUpdate(w, revision, next, pages), attempt' = Updated(w, next, pages),
               next = "COMPLETED" => w \in outputs
        PROVE  Moves(w)
    <3>1. <<attempt[w].state, next>> \in ColorMoves \cup {<<"RUNNING", "RUNNING">>}
      BY <2>3 DEF MayUpdate
    <3>2. /\ attempt[w].state \in {"QUEUED", "RUNNING"}
          /\ attempt[w].state = "QUEUED" => next = "RUNNING"
      BY <2>3, <3>1 DEF ColorMoves
    <3>3. RowMoves(w, attempt[w].state, next)
      BY <2>1, <2>3, RowUpdated
    <3> QED BY <2>1, <2>3, <3>2, <3>3 DEF Moves
  <2>4. CASE ClaimColor
    BY <2>1, <2>3, <2>4 DEF ClaimColor, Rests
  <2>5. CASE RecordPage
    BY <2>1, <2>3, <2>5 DEF RecordPage, Rests
  <2>6. CASE SettleColor
    BY <2>1, <2>3, <2>6 DEF SettleColor, At, Work, Rests, rowVars
  <2> QED BY <1>5, <2>1, <2>2, <2>4, <2>5, <2>6
<1>6. PublishColor => w \in Attempts /\ (Rests \/ Publishes(w))
  BY DEF PublishColor, At, Work, WorkPcs, rowVars, Rests, Publishes
<1> QED BY <1>1, <1>2, <1>3, <1>4, <1>5, <1>6 DEF ColorNext, ColorWorker, QuietWork

LEMMA StateIs == ASSUME RowsTyped PROVE \A a \in Attempts : StateOf[a] = attempt[a].state
BY DEF StateOf

LEMMA LeasedColor ==
  ASSUME ColorInv, ColorNext, RowsTyped'
  PROVE  Leased'
<1> USE DEF ColorInv, RetentionInv, Typed
<1>1. /\ \A a \in Attempts : attempt'[a].lease # "none" => attempt'[a].state = "RUNNING"
      /\ \/ Rests
         \/ \E a \in Attempts : \A b \in Attempts \ {a} : attempt'[b] = attempt[b]
  <2>1. CASE Rests
    BY <2>1 DEF Rests, Leased
  <2>2. ASSUME NEW a \in Attempts, Publishes(a)
        PROVE  Rests \/ UNCHANGED attempt
    BY <2>2 DEF Publishes
  <2>3. ASSUME NEW a \in Attempts, NEW old, NEW new, RowMoves(a, old, new)
        PROVE  /\ \A b \in Attempts : attempt'[b].lease # "none" => attempt'[b].state = "RUNNING"
               /\ \A b \in Attempts \ {a} : attempt'[b] = attempt[b]
    <3>1. attempt'[a].state = new
      BY <2>3 DEF RowMoves, StateOf
    <3> QED BY <2>3, <3>1 DEF RowMoves, Leased
  <2> QED BY <2>1, <2>2, <2>3, ColorMovesOn DEF Leased, Asks, Moves
<1>2. ASSUME NEW a \in Attempts, (\E j \in SourceJobs : CreateColor(a, j)) \/ CancelColor(a) \/ LeaseLapses(a)
      PROVE  Leased'
  <2>1. UNCHANGED colorist
    BY <1>2 DEF CreateColor, CancelColor, LeaseLapses
  <2>2. \A b \in Attempts : attempt[b].state = "RUNNING" => attempt'[b].state = "RUNNING"
    <3>1. ASSUME NEW row, attempt' = [attempt EXCEPT ![a] = row],
                 attempt[a].state = "RUNNING" => row.state = "RUNNING"
          PROVE  \A b \in Attempts : attempt[b].state = "RUNNING" => attempt'[b].state = "RUNNING"
      BY <3>1 DEF RowsTyped
    <3>2. CASE \E j \in SourceJobs : CreateColor(a, j)
      BY <3>1, <3>2 DEF CreateColor, Absent
    <3>3. CASE CancelColor(a)
      BY <3>1, <3>3 DEF CancelColor, Updated, MayUpdate, ColorMoves
    <3>4. CASE LeaseLapses(a)
      BY <3>1, <3>4 DEF LeaseLapses, RowsTyped, AttemptRows
    <3> QED BY <1>2, <3>2, <3>3, <3>4
  <2>3. colorist \in Colorists /\ (colorist.pc = "expire" => colorist.a \in Attempts)
    BY DEF DisksTyped, Work
  <2> QED BY <1>1, <2>1, <2>2, <2>3 DEF Leased, Colorists
<1>3. ASSUME colorist'.pc \notin {"expiring", "expire"} PROVE Leased'
  BY <1>1, <1>3 DEF Leased
<1>4. colorist \in Colorists
  BY DEF DisksTyped
<1>5. CASE ListExpired
  <2>1. /\ colorist'.pc = "expiring" /\ colorist'.todo = {a \in Attempts : attempt[a].lease = "lapsed"}
        /\ UNCHANGED attempt
    BY <1>4, <1>5 DEF ListExpired, rowVars, Colorists
  <2> QED BY <1>1, <2>1 DEF Leased
<1>6. CASE CleanExpired
  <2>1. CASE Ends
    BY <1>3, <2>1 DEF Ends, Idle
  <2>2. ASSUME NEW a \in colorist.todo, RemoveContainers(a, "expire") PROVE Leased'
    <3>1. /\ colorist'.pc = "expire" /\ colorist'.a = a /\ colorist'.todo = colorist.todo \ {a}
          /\ UNCHANGED attempt /\ colorist.pc = "expiring"
      BY <1>4, <1>6, <2>2 DEF RemoveContainers, Colorists, CleanExpired, At, rowVars
    <3> QED BY <1>1, <2>2, <3>1 DEF Leased
  <2> QED BY <1>6, <2>1, <2>2 DEF CleanExpired
<1>7. CASE FailExpired
  <2>1. /\ colorist.pc = "expire" /\ colorist'.pc = "expiring" /\ colorist'.todo = colorist.todo
        /\ colorist.a \in Attempts /\ attempt' = Updated(colorist.a, "FAILED", attempt[colorist.a].pages)
    BY <1>4, <1>7 DEF FailExpired, Goes, At, Colorists, Work
  <2>2. \A b \in Attempts \ {colorist.a} : attempt'[b] = attempt[b]
    BY <2>1, RowUpdated DEF RowMoves
  <2>3. colorist.todo \subseteq Attempts
    BY <1>4 DEF Colorists
  <2> QED BY <1>1, <2>1, <2>2, <2>3 DEF Leased
<1>8. CASE \/ BeginTick \/ CleanPending \/ ForgetCleanup \/ PickColor \/ ClaimColor \/ MakeStage \/ StartPage
           \/ EndPage \/ RecordPage \/ PublishColor \/ SettleColor \/ ColorCrash
  <2>1. ASSUME NEW pc, Goes(pc) PROVE colorist'.pc = pc
    BY <1>4, <2>1 DEF Goes, Colorists
  <2>2. ASSUME NEW code, Outcome(code) PROVE colorist'.pc = "settle"
    BY <1>4, <2>2 DEF Outcome, Colorists
  <2>3. ASSUME NEW a, RemoveContainers(a, "forget") PROVE colorist'.pc = "forget"
    BY <1>4, <2>3 DEF RemoveContainers, Colorists
  <2>4. Ends => colorist'.pc = "idle"
    BY DEF Ends, Idle
  <2>5. BeginTick \/ PickColor => colorist'.pc \in {"cleaning", "claim", "idle"}
    BY <1>4, <2>4 DEF BeginTick, PickColor, Idle, Colorists
  <2>6. CleanPending \/ ForgetCleanup \/ ClaimColor \/ SettleColor \/ ColorCrash =>
          colorist'.pc \in {"cleaning", "forget", "idle", "stage"}
    BY <2>1, <2>3, <2>4 DEF CleanPending, ForgetCleanup, ClaimColor, SettleColor, ColorCrash
  <2>7. MakeStage \/ StartPage \/ EndPage \/ RecordPage \/ PublishColor =>
          colorist'.pc \in {"page", "convert", "record", "settle"}
    BY <2>1, <2>2 DEF MakeStage, StartPage, EndPage, RecordPage, PublishColor, Abandons
  <2> QED BY <1>3, <1>8, <2>5, <2>6, <2>7
<1> QED BY <1>2, <1>5, <1>6, <1>7, <1>8 DEF ColorNext, ColorWorker

(* The family of a job, as the promise knows it. *)
LEMMA PurgedStays ==
  ASSUME RetentionInv, ColorNext, RetentionInv'
  PROVE  UNCHANGED Purged
<1>1. ColorEffect
  BY ColorSteps
<1>2. UNCHANGED <<job, dir>> /\ \A a \in Attempts : RowEffect(a)
  BY <1>1 DEF ColorEffect
<1>3. ASSUME NEW a \in Attempts PROVE a \in Purged <=> a \in Purged'
  <2>1. CASE attempt[a] = Absent /\ attempt'[a] # Absent /\ job[attempt'[a].job].row = "ended"
    <3>1. attempt'[a].job \in SourceJobs
      BY <2>1 DEF RetentionInv, Typed, RowsTyped
    <3>2. tombstone[attempt'[a].job] = "none"
      BY <2>1, <3>1 DEF RetentionInv, Typed, FamilyTyped, Family, ClaimedIsQuiet
    <3>3. dir[attempt'[a].job] = "here"
      BY <2>1, <3>1, <3>2 DEF RetentionInv, Family, Directories
    <3> QED BY <1>2, <2>1, <3>3 DEF Purged
  <2> QED BY <1>2, <2>1 DEF RowEffect, Purged
<1> QED BY <1>3 DEF Purged

(* The steps of everyone else: only a purge takes what can be read.         *)
FamilyQuiet == UNCHANGED <<attempt, outputs, dir, colorist>>

LEMMA PurgeMovesOn ==
  ASSUME RetentionInv, MoveToTrash \/ RemoveTrash
  PROVE  /\ UNCHANGED <<attempt, colorist>>
         /\ \/ UNCHANGED <<Readable, Purged>>
            \/ \E as \in SUBSET Promised!Over : Readable' = Readable \ as /\ Purged' = Purged \cup as
<1> USE DEF RetentionInv, Typed, Family
<1>1. UNCHANGED <<attempt, colorist>>
  BY DEF MoveToTrash, RemoveTrash, rowVars, OnlySweep
<1>2. CASE MoveToTrash
  <2>1. PICK j \in sweeper.todo : dir' = [dir EXCEPT ![j] = IF dir[j] = "here" THEN "trash" ELSE dir[j]]
    BY <1>2 DEF MoveToTrash
  <2>2. j \in SourceJobs /\ tombstone[j] # "none" /\ UNCHANGED outputs
    BY <1>2, <2>1 DEF MoveToTrash, SweeperAt, Sweeping, FamilyTyped, Sweepers, diskVars
  <2>3. dir[j] \in {"here", "trash", "gone"}
    BY <2>2 DEF Directories, FamilyTyped
  <2>4. AttemptsOf(j) \subseteq Promised!Over
    <3>1. \A a \in AttemptsOf(j) : attempt[a].state \notin {"ABSENT", "QUEUED", "RUNNING"}
      BY <2>2 DEF ClaimedIsQuiet, Quiet, Active, AttemptsOf, RowsTyped
    <3>2. \A a \in Attempts : attempt[a].state \in States
      BY DEF RowsTyped, AttemptRows
    <3> QED BY <3>1, <3>2, StateIs DEF AttemptsOf, Promised!Over, States, Terminal
  <2>5. Purged' = Purged \cup AttemptsOf(j)
    BY <1>1, <2>1, <2>2, <2>3 DEF Purged, AttemptsOf, FamilyTyped, RowsTyped
  <2>6. Readable' = Readable \ AttemptsOf(j)
    BY <2>2, <2>5 DEF Readable
  <2> QED BY <1>1, <2>4, <2>5, <2>6
<1>3. CASE RemoveTrash
  <2> DEFINE j == sweeper.j
  <2>1. j \in SourceJobs /\ dir' = [dir EXCEPT ![j] = IF dir[j] = "trash" THEN "gone" ELSE dir[j]]
    BY <1>3 DEF RemoveTrash, SweeperAt, Sweeping, PurgePcs
  <2>2. outputs' = IF dir[j] = "trash" THEN outputs \ AttemptsOf(j) ELSE outputs
    BY <1>3 DEF RemoveTrash
  <2> HIDE DEF j
  <2>3. Purged' = Purged
    BY <1>1, <2>1 DEF Purged, FamilyTyped, RowsTyped
  <2>4. dir[j] = "trash" => AttemptsOf(j) \subseteq Purged
    BY DEF AttemptsOf, Purged
  <2>5. Readable' = Readable
    BY <2>2, <2>3, <2>4 DEF Readable
  <2> QED BY <1>1, <2>3, <2>5
<1> QED BY <1>2, <1>3

LEMMA UploadMovesOn ==
  ASSUME RetentionInv, NEW j \in SourceJobs, BeginUpload(j) \/ RefuseUpload(j)
  PROVE  UNCHANGED <<attempt, colorist, Readable, Purged>>
<1> USE DEF RetentionInv, Typed, Family
<1>1. UNCHANGED <<attempt, colorist, outputs>> /\ \A i \in SourceJobs \ {j} : dir'[i] = dir[i]
  BY DEF BeginUpload, RefuseUpload, OnlyUploads, rowVars, diskVars, FamilyTyped
<1>2. job[j].row = "none"
  BY DEF BeginUpload, RefuseUpload, Directories
<1>3. \A a \in Attempts : attempt[a] # Absent => attempt[a].job \in SourceJobs \ {j}
  BY <1>2 DEF Families, RowsTyped
<1>4. UNCHANGED Purged
  BY <1>1, <1>3 DEF Purged
<1> QED BY <1>1, <1>4 DEF Readable

LEMMA OthersRest ==
  ASSUME \/ \E j \in SourceJobs : \/ RegisterUpload(j) \/ UploadCrash(j) \/ JobEnds(j) \/ ReleaseJob(j) \/ DeleteJob(j)
                                  \/ \E d \in Dependents : StartDelivery(d, j)
                                  \/ \E until \in 1..day + MaxHold : ExtendHold(j, until)
         \/ (\E d \in Dependents : EndDependent(d)) \/ NextDay \/ SweepFails
         \/ BeginSweep \/ SweepStages \/ SweepUploads \/ ClaimRetention \/ ListPending
         \/ RemoveSpool \/ FinishRetention \/ EndSweep \/ UNCHANGED retentionVars
  PROVE  FamilyQuiet
<1> USE DEF FamilyQuiet, rowVars, diskVars, colorVars, OnlyUploads, OnlySweep
<1>1. ASSUME NEW j \in SourceJobs, RegisterUpload(j) \/ UploadCrash(j) \/ JobEnds(j) \/ ReleaseJob(j) \/ DeleteJob(j)
      PROVE  FamilyQuiet
  BY <1>1 DEF RegisterUpload, UploadCrash, JobEnds, ReleaseJob, DeleteJob
<1>2. ASSUME NEW j \in SourceJobs, \/ \E d \in Dependents : StartDelivery(d, j)
                                  \/ \E until \in 1..day + MaxHold : ExtendHold(j, until)
      PROVE  FamilyQuiet
  BY <1>2 DEF StartDelivery, ExtendHold
<1>3. ASSUME NEW d \in Dependents, EndDependent(d) PROVE FamilyQuiet
  BY <1>3 DEF EndDependent
<1>4. NextDay \/ SweepFails \/ UNCHANGED retentionVars => FamilyQuiet
  BY DEF NextDay, SweepFails, retentionVars
<1>5. BeginSweep \/ SweepStages \/ SweepUploads \/ ClaimRetention \/ ListPending => FamilyQuiet
  BY DEF BeginSweep, SweepStages, SweepUploads, ClaimRetention, ListPending
<1>6. RemoveSpool \/ FinishRetention \/ EndSweep => FamilyQuiet
  BY DEF RemoveSpool, FinishRetention, EndSweep
<1> QED BY <1>1, <1>2, <1>3, <1>4, <1>5, <1>6

LEMMA ColorPromiseStep ==
  ColorInv /\ [RetentionNext]_retentionVars =>
    Leased' /\ [Promised!Next]_(Promised!promiseVars)
<1> SUFFICES ASSUME ColorInv, [RetentionNext]_retentionVars
             PROVE  Leased' /\ [Promised!Next]_(Promised!promiseVars)
  OBVIOUS
<1>1. RetentionInv /\ RetentionInv'
  BY NextKeeps DEF ColorInv
<1>2. CASE ColorNext
  <2>1. Leased' /\ UNCHANGED Purged
    BY <1>1, <1>2, LeasedColor, PurgedStays DEF RetentionInv, Typed
  <2>2. CASE Rests
    BY <2>1, <2>2 DEF Rests, StateOf, Readable, Promised!promiseVars
  <2>3. ASSUME NEW a \in Attempts, NEW old, NEW new, RowMoves(a, old, new), UNCHANGED outputs
        PROVE  /\ StateOf[a] = old /\ StateOf' = [StateOf EXCEPT ![a] = new]
               /\ UNCHANGED <<Readable, Purged>>
    BY <2>1, <2>3, StateIs DEF RowMoves, Readable, StateOf
  <2>4. ASSUME NEW a \in Attempts, Asks(a) PROVE Promised!Next
    <3>1. Promised!Ask(a)
      BY <2>1, <2>3, <2>4 DEF Asks, Promised!Ask, Promised!Move
    <3> QED BY <3>1 DEF Promised!Next
  <2>5. ASSUME NEW a \in Attempts, attempt[a].state = "RUNNING" PROVE a \notin Purged
    <3>1. attempt[a] # Absent
      BY <2>5 DEF Absent
    <3> QED BY <1>1, <2>5, <3>1, ActiveIsKept DEF Purged, Active
  <2>6. ASSUME NEW a \in Attempts, Moves(a) PROVE [Promised!Next]_(Promised!promiseVars)
    <3>1. CASE RowMoves(a, "QUEUED", "CANCELLED")
      BY <2>3, <2>6, <3>1 DEF Moves, Promised!Withdraw, Promised!Move, Promised!Next
    <3>2. CASE RowMoves(a, "QUEUED", "RUNNING")
      BY <2>3, <2>6, <3>2 DEF Moves, Promised!Begin, Promised!Move, Promised!Next
    <3>3. CASE RowMoves(a, "RUNNING", "RUNNING")
      <4>1. UNCHANGED outputs
        BY <2>6 DEF Moves
      <4>2. StateOf[a] = "RUNNING" /\ StateOf' = [StateOf EXCEPT ![a] = "RUNNING"] /\ UNCHANGED <<Readable, Purged>>
        BY <2>3, <3>3, <4>1
      <4>3. [StateOf EXCEPT ![a] = "RUNNING"] = StateOf
        BY <4>2 DEF StateOf
      <4> QED BY <4>2, <4>3 DEF Promised!promiseVars
    <3>4. CASE RowMoves(a, "RUNNING", "FAILED")
      BY <2>3, <2>6, <3>4 DEF Moves, Promised!Fail, Promised!Move, Promised!Next
    <3>5. CASE a \in outputs /\ RowMoves(a, "RUNNING", "COMPLETED")
      <4>1. a \in Readable
        BY <2>5, <3>5 DEF Readable, RowMoves
      <4>2. Promised!Complete(a)
        BY <2>3, <2>6, <3>5, <4>1 DEF Moves, Promised!Complete, Promised!Move
      <4> QED BY <4>2 DEF Promised!Next
    <3> QED BY <2>6, <3>1, <3>2, <3>3, <3>4, <3>5 DEF Moves
  <2>7. ASSUME NEW a \in Attempts, Publishes(a) PROVE Promised!Next
    <3>1. StateOf[a] = "RUNNING" /\ UNCHANGED StateOf
      BY <1>1, <2>7, StateIs DEF Publishes, RetentionInv, Typed, StateOf
    <3>2. a \notin Readable /\ Readable' = Readable \cup {a}
      BY <2>1, <2>5, <2>7 DEF Publishes, Readable
    <3>3. Promised!Publish(a)
      BY <2>1, <3>1, <3>2 DEF Promised!Publish
    <3> QED BY <3>3 DEF Promised!Next
  <2> QED BY <1>2, <2>1, <2>2, <2>4, <2>6, <2>7, ColorMovesOn
<1>3. ASSUME UNCHANGED <<attempt, colorist>> PROVE Leased' /\ UNCHANGED StateOf
  BY <1>3 DEF ColorInv, Leased, StateOf
<1>4. CASE MoveToTrash \/ RemoveTrash
  <2>1. Leased' /\ UNCHANGED StateOf
    BY <1>1, <1>3, <1>4, PurgeMovesOn
  <2>2. CASE UNCHANGED <<Readable, Purged>>
    BY <2>1, <2>2 DEF Promised!promiseVars
  <2>3. ASSUME NEW as \in SUBSET Promised!Over, Readable' = Readable \ as, Purged' = Purged \cup as
        PROVE  Promised!Next
    <3>1. Promised!Purge(as)
      BY <2>1, <2>3 DEF Promised!Purge
    <3> QED BY <3>1 DEF Promised!Next
  <2> QED BY <1>1, <1>4, <2>1, <2>2, <2>3, PurgeMovesOn
<1>5. ASSUME NEW j \in SourceJobs, BeginUpload(j) \/ RefuseUpload(j)
      PROVE  Leased' /\ UNCHANGED Promised!promiseVars
  <2>1. UNCHANGED <<attempt, colorist, Readable, Purged>>
    BY <1>1, <1>5, UploadMovesOn
  <2> QED BY <1>3, <2>1 DEF Promised!promiseVars
<1>6. CASE FamilyQuiet
  BY <1>3, <1>6 DEF FamilyQuiet, Readable, Purged, Promised!promiseVars
<1> QED BY <1>2, <1>4, <1>5, <1>6, OthersRest DEF RetentionNext, Sweep

LEMMA ColorBegins == RetentionInit => ColorInv /\ Promised!Init
<1> SUFFICES ASSUME RetentionInit PROVE ColorInv /\ Promised!Init
  OBVIOUS
<1>1. \A a \in Attempts : attempt[a] = Absent
  BY DEF RetentionInit, ColorInit
<1>2. Leased
  BY <1>1 DEF RetentionInit, ColorInit, Leased, Absent, Idle
<1>3. Purged = {} /\ Readable = {} /\ StateOf = [a \in Attempts |-> "ABSENT"]
  BY <1>1 DEF RetentionInit, ColorInit, Purged, Readable, StateOf, Absent
<1> QED BY <1>2, <1>3, InitHolds DEF ColorInv, Promised!Init

LEMMA PromiseKept ==
  ColorInv /\ [RetentionNext]_retentionVars => ColorInv' /\ [Promised!Next]_(Promised!promiseVars)
BY ColorPromiseStep, NextKeeps DEF ColorInv

LEMMA ColorAlways == RetentionSpec => []ColorInv
BY ColorBegins, PromiseKept, PTL DEF RetentionSpec

(* color.rs and maintenance.rs: the worker, its recovery and the maintenance *)
(* process together implement what an attempt promises: it begins once and   *)
(* ends once, publishes at most once, is COMPLETED only with its pages       *)
(* published, and loses them only to a purge of its whole family, which does *)
(* not come while it may still run and which no publication undoes.          *)
THEOREM ColorAttemptsKeepPromise == RetentionSpec => ColorKeepsPromise
BY ColorBegins, PromiseKept, PTL DEF RetentionSpec, ColorKeepsPromise, Promised!Spec

(* color.rs against pipeline.rs: whatever worker, recovery, cancel requests  *)
(* and purge do, the state of an attempt moves the way the pipeline module   *)
(* takes for granted.                                                        *)
THEOREM AttemptsAsPipelinesSee == RetentionSpec => AttemptsMoveAsSeen
<1> DEFINE Seen == \A a \in Attempts : attempt'[a].state # attempt[a].state =>
                    <<attempt[a].state, attempt'[a].state>> \in ColorMoves \cup {<<"ABSENT", "QUEUED">>}
<1>1. ASSUME ColorInv, [RetentionNext]_retentionVars PROVE [Seen]_colorVars
  <2>1. ASSUME UNCHANGED StateOf PROVE Seen
    BY <2>1 DEF StateOf
  <2>2. ASSUME [Promised!Next]_(Promised!promiseVars) PROVE Seen
    <3>1. ASSUME NEW a \in Attempts, NEW old, NEW new, Promised!Move(a, old, new),
                 <<old, new>> \in ColorMoves \cup {<<"ABSENT", "QUEUED">>}
          PROVE  Seen
      BY <3>1 DEF Promised!Move, StateOf
    <3>2. ASSUME NEW a \in Attempts,
                 \/ Promised!Ask(a) \/ Promised!Withdraw(a) \/ Promised!Begin(a)
                 \/ Promised!Fail(a) \/ Promised!Complete(a)
          PROVE  Seen
      BY <3>1, <3>2 DEF Promised!Ask, Promised!Withdraw, Promised!Begin, Promised!Fail,
         Promised!Complete, ColorMoves
    <3>3. ASSUME UNCHANGED Promised!promiseVars \/ (\E a \in Attempts : Promised!Publish(a))
                 \/ (\E as \in SUBSET Promised!Over : Promised!Purge(as))
          PROVE  UNCHANGED StateOf
      BY <3>3 DEF Promised!promiseVars, Promised!Publish, Promised!Purge
    <3> QED BY <2>1, <2>2, <3>2, <3>3 DEF Promised!Next
  <2> QED BY <1>1, <2>2, ColorPromiseStep
<1> QED BY <1>1, ColorAlways, PTL DEF RetentionSpec, AttemptsMoveAsSeen

-----------------------------------------------------------------------------
(* Inspections: what their worker may find, wherever the one before died.  *)

RequestStates == {"QUEUED", "RUNNING"} \cup InspectionEnds
Requests == [state : RequestStates, revision : Nat, dir : Submissions, cleanup : BOOLEAN]
WorkItems == [id : Inspections, state : RequestStates, revision : Nat, place : Nat]
AtRow == {"interrupted", "fail", "start", "inspect", "running", "settle", "clean", "remove", "finish"}
OnDisks == OnDisk \cup {[s |-> NoSubmission, at |-> "none"]}
InspectorTyped ==
  inspector \in [pc : AtRow \cup {"idle", "next", "orphans", "reclaim"}, todo : SUBSET WorkItems,
                 here : WorkItems \cup {NoRow}, report : BOOLEAN, dirs : SUBSET OnDisk, dir : OnDisks]

RequestsTyped ==
  /\ inspection \in [Inspections -> Requests \cup {NoInspection}]
  /\ order \in Seq(Inspections)
  /\ \A n \in DOMAIN order : inspection[order[n]] \in Requests
  /\ submission \in [Submissions -> [pc : {"idle", "over"} \cup Uploading, id : Inspections \cup {"none"}]]
  /\ \A s \in Submissions : submission[s].pc \in Uploading => submission[s].id \in Inspections
  /\ queueDir \in [Submissions -> {"none", "staging", "published", "gone"}]
  /\ sandboxes \subseteq Inspections /\ reports \subseteq Inspections

(* A directory that a row names has been handed over. *)
HandedOver ==
  \A i \in Inspections : inspection[i] \in Requests => submission[inspection[i].dir].pc = "over"

(* What the worker read of a row that had ended is so still. *)
EndedIn(i) == inspection[i] \in Requests /\ inspection[i].state \in InspectionEnds
ReadHolds(row) ==
  /\ inspection[row.id] \in Requests
  /\ row.state \in InspectionEnds => EndedIn(row.id)

StageHolds ==
  LET i == Here.id IN
  /\ \A row \in inspector.todo : ReadHolds(row)
  /\ inspector.pc \in AtRow => Here \in WorkItems /\ inspection[i] \in Requests
  /\ inspector.pc \in {"inspect", "running", "settle"} => inspection[i].state = "RUNNING"
  /\ inspector.report => inspector.pc \in {"settle", "clean", "remove", "finish"}
  /\ inspector.pc = "settle" /\ inspector.report => i \notin sandboxes
  /\ inspector.pc \in {"clean", "remove", "finish"} => EndedIn(i)
  /\ inspector.pc \in {"remove", "finish"} => i \notin sandboxes
  /\ inspector.pc = "finish" => queueDir[inspection[i].dir] = "gone"

InspectionInv == InspectorTyped /\ RequestsTyped /\ HandedOver /\ StageHolds /\ FinishedIsClean

LEMMA NoInspectionIs == NoInspection \notin Requests /\ NoInspection.dir = NoSubmission /\ ~NoInspection.cleanup
                        /\ NoInspection.state = "none" /\ NoSubmission \notin Submissions
BY InspectionAssumption DEF NoInspection, Requests, RequestStates, InspectionEnds

LEMMA RestingTyped ==
  /\ Resting \in [pc : AtRow \cup {"idle", "next", "orphans", "reclaim"}, todo : SUBSET WorkItems,
                  here : WorkItems \cup {NoRow}, report : BOOLEAN, dirs : SUBSET OnDisk, dir : OnDisks]
  /\ Resting.pc = "idle" /\ Resting.todo = {} /\ Resting.report = FALSE
BY DEF Resting, NoRow, OnDisks, AtRow

LEMMA InspectionInitInv == InspectionInit => InspectionInv
<1> SUFFICES ASSUME InspectionInit PROVE InspectionInv
  OBVIOUS
<1>1. InspectorTyped
  BY RestingTyped DEF InspectionInit, InspectorTyped
<1>2. RequestsTyped
  <2>1. NotSubmitted \in [pc : {"idle", "over"} \cup Uploading, id : Inspections \cup {"none"}]
        /\ NotSubmitted.pc \notin Uploading
    BY DEF NotSubmitted, Uploading
  <2> QED BY <2>1 DEF InspectionInit, RequestsTyped
<1>3. HandedOver /\ FinishedIsClean
  BY NoInspectionIs DEF InspectionInit, HandedOver, FinishedIsClean
<1>4. StageHolds
  BY RestingTyped DEF InspectionInit, StageHolds, AtRow
<1> QED BY <1>1, <1>2, <1>3, <1>4 DEF InspectionInv

(* A row that runs or waits is still to be cleaned up. *)
LEMMA OpenIsKept ==
  ASSUME InspectionInv, NEW i \in Inspections, inspection[i] \in Requests, ~EndedIn(i)
  PROVE  inspection[i].cleanup
BY NoInspectionIs DEF InspectionInv, FinishedIsClean, EndedIn, Requests

(* set_inspection_state at one row. *)
Moved(i, next) ==
  /\ inspection[i] \in Requests /\ ~EndedIn(i)
  /\ inspection' \in [Inspections -> Requests \cup {NoInspection}]
  /\ inspection'[i] \in Requests
  /\ inspection'[i].state = next /\ inspection'[i].dir = inspection[i].dir
  /\ inspection'[i].cleanup = inspection[i].cleanup
  /\ \A k \in Inspections : k # i => inspection'[k] = inspection[k]
  /\ reports' \subseteq Inspections /\ UNCHANGED order

LEMMA RequestWritten ==
  ASSUME NEW row \in Requests, NEW next \in RequestStates, NEW n \in Nat
  PROVE  LET written == [row EXCEPT !.state = next, !.revision = n] IN
         /\ written \in Requests /\ written.state = next /\ written.dir = row.dir
         /\ written.cleanup = row.cleanup
<1>1. [row EXCEPT !.state = next, !.revision = n] \in Requests
  BY DEF Requests
<1> QED BY <1>1 DEF Requests

LEMMA SetMoves ==
  ASSUME InspectionInv, NEW i \in Inspections, NEW revision, NEW next, MaySet(i, revision, next), Sets(i, next)
  PROVE  Moved(i, next) /\ (inspection[i].state = "QUEUED" \/ inspection[i].state = "RUNNING")
         /\ next \in RequestStates /\ <<inspection[i].state, next>> \in InspectionMoves
<1>1. /\ inspection \in [Inspections -> Requests \cup {NoInspection}] /\ reports \subseteq Inspections
      /\ <<inspection[i].state, next>> \in InspectionMoves
  BY DEF InspectionInv, RequestsTyped, MaySet
<1>2. /\ inspection[i].state \in {"QUEUED", "RUNNING"} /\ next \in RequestStates
  BY <1>1 DEF InspectionMoves, RequestStates, InspectionEnds
<1>3. inspection[i] \in Requests /\ ~EndedIn(i)
  BY <1>1, <1>2, NoInspectionIs DEF EndedIn, InspectionEnds
<1> DEFINE row == [inspection[i] EXCEPT !.state = next, !.revision = @ + 1]
<1>4. /\ row \in Requests /\ row.state = next /\ row.dir = inspection[i].dir
      /\ row.cleanup = inspection[i].cleanup
  <2>1. inspection[i].revision + 1 \in Nat
    BY <1>3 DEF Requests
  <2> DEFINE revised == inspection[i].revision + 1
             written == [inspection[i] EXCEPT !.state = next, !.revision = revised]
  <2>2. row = written
    BY <1>3 DEF Requests
  <2>3. \A n \in Nat : LET w == [inspection[i] EXCEPT !.state = next, !.revision = n] IN
          w \in Requests /\ w.state = next /\ w.dir = inspection[i].dir /\ w.cleanup = inspection[i].cleanup
    BY <1>2, <1>3, RequestWritten
  <2>4. revised \in Nat
    BY <2>1
  <2> HIDE DEF revised
  <2>5. /\ written \in Requests /\ written.state = next /\ written.dir = inspection[i].dir
        /\ written.cleanup = inspection[i].cleanup
    BY <2>3, <2>4
  <2> HIDE DEF row, written
  <2> QED BY <2>2, <2>5
<1>5. inspection' = [inspection EXCEPT ![i] = row] /\ reports' \subseteq Inspections /\ UNCHANGED order
  BY <1>1 DEF Sets
<1> HIDE DEF row
<1> QED BY <1>1, <1>2, <1>3, <1>4, <1>5 DEF Moved

(* Such a move disturbs nothing that is kept of other rows. *)
LEMMA MovedKeeps ==
  ASSUME InspectionInv, NEW i \in Inspections, NEW next, Moved(i, next),
         UNCHANGED <<submission, queueDir, sandboxes>>,
         i \in sandboxes => next \in {"RUNNING", "FAILED"}
  PROVE  /\ RequestsTyped' /\ HandedOver' /\ FinishedIsClean'
         /\ \A k \in Inspections : inspection[k] \in Requests => inspection'[k] \in Requests
         /\ \A k \in Inspections : EndedIn(k) => EndedIn(k)' /\ inspection'[k] = inspection[k]
         /\ \A row \in WorkItems : ReadHolds(row) => ReadHolds(row)'
<1>1. \A k \in Inspections : inspection[k] \in Requests => inspection'[k] \in Requests
  BY DEF Moved
<1>2. ASSUME NEW k \in Inspections, EndedIn(k) PROVE EndedIn(k)' /\ inspection'[k] = inspection[k]
  <2>1. k # i
    BY <1>2 DEF Moved
  <2> QED BY <1>2, <2>1 DEF Moved, EndedIn
<1>3. RequestsTyped'
  <2>1. \A n \in DOMAIN order : order[n] \in Inspections
    BY DEF InspectionInv, RequestsTyped
  <2> QED BY <1>1, <2>1 DEF InspectionInv, RequestsTyped, Moved
<1>4. HandedOver'
  <2> SUFFICES ASSUME NEW k \in Inspections, inspection'[k] \in Requests
               PROVE  submission[inspection'[k].dir].pc = "over"
    BY DEF HandedOver
  <2>1. inspection[k] \in Requests /\ inspection'[k].dir = inspection[k].dir
    BY DEF Moved
  <2> QED BY <2>1 DEF InspectionInv, HandedOver
<1>5. FinishedIsClean'
  <2> SUFFICES ASSUME NEW k \in Inspections
               PROVE  /\ k \in sandboxes => inspection'[k].cleanup /\ inspection'[k].state \in {"RUNNING", "FAILED"}
                      /\ inspection'[k].dir # NoSubmission /\ ~inspection'[k].cleanup =>
                           inspection'[k].state \in InspectionEnds /\ queueDir[inspection'[k].dir] = "gone"
    BY DEF FinishedIsClean
  <2>1. CASE k = i
    <3>1. inspection[i].cleanup
      BY OpenIsKept DEF Moved
    <3> QED BY <2>1, <3>1 DEF Moved
  <2>2. CASE k # i
    BY <2>2 DEF InspectionInv, FinishedIsClean, Moved
  <2> QED BY <2>1, <2>2
<1>6. \A row \in WorkItems : ReadHolds(row) => ReadHolds(row)'
  <2> SUFFICES ASSUME NEW row \in WorkItems, ReadHolds(row) PROVE ReadHolds(row)'
    OBVIOUS
  <2>1. row.id \in Inspections
    BY DEF WorkItems
  <2> QED BY <1>1, <1>2, <2>1 DEF ReadHolds
<1> QED BY <1>1, <1>2, <1>3, <1>4, <1>5, <1>6

-----------------------------------------------------------------------------
(* The steps of the clients. *)

(* A directory that was handed over is not touched by an upload. *)
LEMMA UploadKeeps ==
  ASSUME InspectionInv, NEW s \in Submissions, submission[s].pc # "over",
         UNCHANGED <<inspection, order, reports, sandboxes, inspector>>,
         submission' \in [Submissions -> [pc : {"idle", "over"} \cup Uploading, id : Inspections \cup {"none"}]],
         submission'[s].pc \in Uploading => submission'[s].id \in Inspections,
         queueDir' \in [Submissions -> {"none", "staging", "published", "gone"}],
         \A k \in Submissions : k # s => submission'[k] = submission[k] /\ queueDir'[k] = queueDir[k]
  PROVE  InspectionInv'
<1>1. ASSUME NEW i \in Inspections, inspection[i] \in Requests
      PROVE  inspection[i].dir \in Submissions /\ inspection[i].dir # s
  BY <1>1 DEF InspectionInv, HandedOver, Requests
<1>2. InspectorTyped'
  BY DEF InspectionInv, InspectorTyped
<1>3. RequestsTyped'
  BY DEF InspectionInv, RequestsTyped
<1>4. HandedOver'
  BY <1>1 DEF InspectionInv, HandedOver
<1>5. FinishedIsClean'
  <2>1. \A i \in Inspections : inspection[i].dir # NoSubmission => inspection[i] \in Requests
    BY NoInspectionIs DEF InspectionInv, RequestsTyped
  <2> QED BY <1>1, <2>1 DEF InspectionInv, FinishedIsClean
<1>6. StageHolds'
  <2>1. inspector.pc = "finish" => Here.id \in Inspections /\ inspection[Here.id] \in Requests
    BY DEF InspectionInv, StageHolds, AtRow, WorkItems
  <2>2. \A row : ReadHolds(row)' <=> ReadHolds(row)
    BY DEF ReadHolds, EndedIn
  <2>3. \A i : EndedIn(i)' <=> EndedIn(i)
    BY DEF EndedIn
  <2>4. Here' = Here
    BY DEF Here
  <2> QED BY <1>1, <2>1, <2>2, <2>3, <2>4 DEF InspectionInv, StageHolds
<1> QED BY <1>2, <1>3, <1>4, <1>5, <1>6 DEF InspectionInv

LEMMA UploadsInv ==
  ASSUME InspectionInv, NEW s \in Submissions,
         (\E i \in Inspections : BeginSubmission(s, i)) \/ PublishSubmission(s) \/ AbandonSubmission(s)
  PROVE  InspectionInv'
<1>1. /\ submission \in [Submissions -> [pc : {"idle", "over"} \cup Uploading, id : Inspections \cup {"none"}]]
      /\ submission[s].pc \in Uploading => submission[s].id \in Inspections
      /\ queueDir \in [Submissions -> {"none", "staging", "published", "gone"}]
  BY DEF InspectionInv, RequestsTyped
<1>2. submission[s].pc # "over" /\ UNCHANGED <<inspection, order, reports, sandboxes, inspector>>
  BY DEF BeginSubmission, PublishSubmission, AbandonSubmission, LockHeld, Uploading, NotSubmitted, rowsSame
<1>3. CASE \E i \in Inspections : BeginSubmission(s, i)
  <2>1. PICK i \in Inspections : BeginSubmission(s, i)
    BY <1>3
  <2>2. /\ submission' = [submission EXCEPT ![s] = [pc |-> "staging", id |-> i]]
        /\ queueDir' = [queueDir EXCEPT ![s] = "staging"]
    BY <2>1 DEF BeginSubmission
  <2>3. [pc |-> "staging", id |-> i] \in [pc : {"idle", "over"} \cup Uploading, id : Inspections \cup {"none"}]
    BY DEF Uploading
  <2> QED BY <1>1, <1>2, <2>2, <2>3, UploadKeeps
<1>4. CASE PublishSubmission(s)
  <2>1. /\ submission' = [submission EXCEPT ![s].pc = "published"] /\ submission[s].pc \in Uploading
        /\ queueDir' = [queueDir EXCEPT ![s] = "published"]
    BY <1>4 DEF PublishSubmission, Uploading
  <2>2. "published" \in Uploading
    BY DEF Uploading
  <2> QED BY <1>1, <1>2, <2>1, <2>2, UploadKeeps
<1>5. CASE AbandonSubmission(s)
  <2>1. submission' = [submission EXCEPT ![s].pc = "over"] /\ queueDir' = queueDir
    BY <1>5 DEF AbandonSubmission
  <2>2. "over" \notin Uploading
    BY DEF Uploading
  <2> QED BY <1>1, <1>2, <2>1, <2>2, UploadKeeps
<1> QED BY <1>3, <1>4, <1>5

LEMMA RegisterInv ==
  ASSUME InspectionInv, NEW s \in Submissions, RegisterSubmission(s)
  PROVE  InspectionInv'
<1> DEFINE i == submission[s].id
<1>1. /\ submission \in [Submissions -> [pc : {"idle", "over"} \cup Uploading, id : Inspections \cup {"none"}]]
      /\ queueDir \in [Submissions -> {"none", "staging", "published", "gone"}]
      /\ inspection \in [Inspections -> Requests \cup {NoInspection}]
      /\ order \in Seq(Inspections)
      /\ submission[s].pc = "published" /\ i \in Inspections /\ "over" \notin Uploading
      /\ submission' = [submission EXCEPT ![s].pc = "over"]
      /\ UNCHANGED <<reports, sandboxes, inspector, mishaps>>
  BY DEF InspectionInv, RequestsTyped, RegisterSubmission, Uploading
<1>2. CASE ~Admitted(i)
  <2>1. queueDir' = [queueDir EXCEPT ![s] = "gone"] /\ UNCHANGED <<inspection, order>>
    BY <1>2 DEF RegisterSubmission
  <2> QED BY <1>1, <2>1, UploadKeeps
<1>3. CASE Admitted(i)
  <2> DEFINE row == [state |-> "QUEUED", revision |-> 0, dir |-> s, cleanup |-> TRUE]
  <2>1. /\ inspection' = [inspection EXCEPT ![i] = row] /\ order' = Append(order, i) /\ UNCHANGED queueDir
        /\ inspection[i] = NoInspection
    BY <1>3 DEF RegisterSubmission, Admitted
  <2>2. row \in Requests /\ row.dir = s /\ row.cleanup /\ row.state = "QUEUED"
    BY DEF Requests, RequestStates
  <2> HIDE DEF row, i
  <2>3. /\ inspection'[i] = row /\ \A k \in Inspections : k # i => inspection'[k] = inspection[k]
        /\ inspection' \in [Inspections -> Requests \cup {NoInspection}]
    BY <1>1, <2>1, <2>2
  <2>4. \A k \in Inspections : inspection[k] \in Requests => k # i
    BY <2>1, NoInspectionIs
  <2>5. i \notin sandboxes
    BY <1>1, <2>1, NoInspectionIs DEF InspectionInv, FinishedIsClean
  <2>6. InspectorTyped'
    BY <1>1 DEF InspectionInv, InspectorTyped
  <2>7. RequestsTyped'
    <3>1. order' \in Seq(Inspections) /\ DOMAIN order' = 1..(Len(order) + 1) /\ Len(order) \in Nat
          /\ DOMAIN order = 1..Len(order)
          /\ \A n \in 1..(Len(order) + 1) : order'[n] = i \/ (n \in 1..Len(order) /\ order'[n] = order[n])
      BY <1>1, <2>1
    <3>2. \A n \in DOMAIN order' : inspection'[order'[n]] \in Requests
      <4> SUFFICES ASSUME NEW n \in 1..(Len(order) + 1) PROVE inspection'[order'[n]] \in Requests
        BY <3>1
      <4>1. CASE order'[n] = i
        BY <2>2, <2>3, <4>1
      <4>2. CASE n \in 1..Len(order) /\ order'[n] = order[n]
        <5>1. inspection[order[n]] \in Requests /\ order[n] \in Inspections
          BY <1>1, <3>1, <4>2 DEF InspectionInv, RequestsTyped
        <5> QED BY <2>3, <2>4, <4>2, <5>1
      <4> QED BY <3>1, <4>1, <4>2
    <3>3. /\ submission' \in [Submissions -> [pc : {"idle", "over"} \cup Uploading, id : Inspections \cup {"none"}]]
          /\ \A k \in Submissions : submission'[k].pc \in Uploading => submission'[k].id \in Inspections
      BY <1>1 DEF InspectionInv, RequestsTyped
    <3> QED BY <1>1, <2>1, <2>3, <3>1, <3>2, <3>3 DEF InspectionInv, RequestsTyped
  <2>8. HandedOver'
    <3> SUFFICES ASSUME NEW k \in Inspections, inspection'[k] \in Requests
                 PROVE  submission'[inspection'[k].dir].pc = "over"
      BY DEF HandedOver
    <3>1. submission'[s].pc = "over"
      BY <1>1
    <3>2. k # i => inspection[k].dir \in Submissions /\ submission[inspection[k].dir].pc = "over"
      BY <2>3 DEF InspectionInv, HandedOver, Requests
    <3> QED BY <1>1, <2>2, <2>3, <3>1, <3>2
  <2>9. FinishedIsClean'
    BY <1>1, <2>1, <2>2, <2>3, <2>5 DEF InspectionInv, FinishedIsClean
  <2>10. StageHolds'
    <3>1. \A k \in Inspections : inspection[k] \in Requests => inspection'[k] = inspection[k]
      BY <2>3, <2>4
    <3>2. \A k \in Inspections : EndedIn(k) => EndedIn(k)'
      BY <3>1 DEF EndedIn
    <3>3. \A item \in WorkItems : ReadHolds(item) => ReadHolds(item)'
      <4> SUFFICES ASSUME NEW item \in WorkItems, ReadHolds(item) PROVE ReadHolds(item)'
        OBVIOUS
      <4>1. item.id \in Inspections
        BY DEF WorkItems
      <4> QED BY <3>1, <3>2, <4>1 DEF ReadHolds
    <3>4. inspector.pc \in AtRow => Here.id \in Inspections /\ inspection[Here.id] \in Requests
      BY DEF InspectionInv, StageHolds, WorkItems
    <3>5. Here' = Here /\ inspector' = inspector /\ inspector.todo \subseteq WorkItems
      BY <1>1 DEF Here, InspectionInv, InspectorTyped
    <3> QED BY <1>1, <2>1, <3>1, <3>2, <3>3, <3>4, <3>5 DEF InspectionInv, StageHolds, AtRow
  <2> QED BY <2>6, <2>7, <2>8, <2>9, <2>10 DEF InspectionInv
<1> QED BY <1>2, <1>3

(* A cancel takes only a request that waits. *)
LEMMA CancelInspectionInv ==
  ASSUME InspectionInv, NEW i \in Inspections, CancelInspection(i)
  PROVE  InspectionInv'
<1>1. UNCHANGED <<submission, queueDir, sandboxes, inspector>>
  BY DEF CancelInspection
<1>2. Moved(i, "CANCELLED") /\ <<inspection[i].state, "CANCELLED">> \in InspectionMoves
  BY SetMoves DEF CancelInspection
<1>3. inspection[i].state = "QUEUED"
  BY <1>2 DEF InspectionMoves
<1>4. i \notin sandboxes
  BY <1>3 DEF InspectionInv, FinishedIsClean
<1>5. /\ RequestsTyped' /\ HandedOver' /\ FinishedIsClean'
      /\ \A k \in Inspections : inspection[k] \in Requests => inspection'[k] \in Requests
      /\ \A k \in Inspections : EndedIn(k) => EndedIn(k)' /\ inspection'[k] = inspection[k]
      /\ \A row \in WorkItems : ReadHolds(row) => ReadHolds(row)'
  BY <1>1, <1>2, <1>4, MovedKeeps
<1>6. InspectorTyped'
  BY <1>1 DEF InspectionInv, InspectorTyped
<1>7. StageHolds'
  <2>1. inspector.pc \in AtRow => Here.id \in Inspections /\ inspection[Here.id] \in Requests
    BY DEF InspectionInv, StageHolds, WorkItems
  <2>2. Here' = Here /\ inspector' = inspector /\ inspector.todo \subseteq WorkItems
    BY <1>1 DEF Here, InspectionInv, InspectorTyped
  <2>3. \A k \in Inspections : inspection[k].state = "RUNNING" => inspection'[k] = inspection[k]
    BY <1>2, <1>3 DEF Moved
  <2> QED BY <1>1, <1>5, <2>1, <2>2, <2>3 DEF InspectionInv, StageHolds, AtRow
<1> QED BY <1>5, <1>6, <1>7 DEF InspectionInv

-----------------------------------------------------------------------------
(* The steps of the worker. *)
InspectorPcs == AtRow \cup {"idle", "next", "orphans", "reclaim"}

LEMMA InspectorFields ==
  ASSUME InspectionInv
  PROVE  /\ inspector.pc \in InspectorPcs /\ inspector.todo \subseteq WorkItems
         /\ inspector.here \in WorkItems \cup {NoRow} /\ inspector.report \in BOOLEAN
         /\ inspector.dirs \subseteq OnDisk /\ inspector.dir \in OnDisks
BY DEF InspectionInv, InspectorTyped, InspectorPcs

(* A pass that ends forgets what it was about. *)
LEMMA RestHolds == inspector' = Resting => InspectorTyped' /\ StageHolds'
BY RestingTyped DEF InspectorTyped, StageHolds, AtRow

(* Containers go, documents go, or nothing does: the rows are as they were. *)
LEMMA FewerKeeps ==
  ASSUME InspectionInv, UNCHANGED <<inspection, order, reports, submission>>, sandboxes' \subseteq sandboxes,
         queueDir' \in [Submissions -> {"none", "staging", "published", "gone"}],
         \A s \in Submissions : queueDir[s] = "gone" => queueDir'[s] = "gone"
  PROVE  /\ RequestsTyped' /\ HandedOver' /\ FinishedIsClean'
         /\ \A row : ReadHolds(row)' <=> ReadHolds(row)
         /\ \A i : EndedIn(i)' <=> EndedIn(i)
<1>1. RequestsTyped'
  BY DEF InspectionInv, RequestsTyped
<1>2. HandedOver'
  BY DEF InspectionInv, HandedOver
<1>3. FinishedIsClean'
  <2>1. \A i \in Inspections : inspection[i].dir # NoSubmission => inspection[i].dir \in Submissions
    BY NoInspectionIs DEF InspectionInv, RequestsTyped, Requests
  <2> QED BY <2>1 DEF InspectionInv, FinishedIsClean
<1>4. (\A row : ReadHolds(row)' <=> ReadHolds(row)) /\ (\A i : EndedIn(i)' <=> EndedIn(i))
  BY DEF ReadHolds, EndedIn
<1> QED BY <1>1, <1>2, <1>3, <1>4

LEMMA PassEndsInv ==
  ASSUME InspectionInv, PassEnds, UNCHANGED <<inspection, order, reports, submission, queueDir, sandboxes>>
  PROVE  InspectionInv'
<1>1. InspectorTyped' /\ StageHolds'
  BY RestHolds DEF PassEnds
<1>2. queueDir' \in [Submissions -> {"none", "staging", "published", "gone"}]
  BY DEF InspectionInv, RequestsTyped
<1> QED BY <1>1, <1>2, FewerKeeps DEF InspectionInv

LEMMA ProceedsTyped ==
  ASSUME InspectionInv, NEW pc \in InspectorPcs, Proceeds(pc)
  PROVE  /\ InspectorTyped' /\ inspector'.pc = pc /\ inspector'.todo = inspector.todo /\ Here' = Here
         /\ inspector'.report = inspector.report
BY DEF InspectionInv, InspectorTyped, Proceeds, InspectorPcs, Here

LEMMA BeginPassInv == InspectionInv /\ BeginPass => InspectionInv'
<1> SUFFICES ASSUME InspectionInv, BeginPass PROVE InspectionInv'
  OBVIOUS
<1> DEFINE items == {[id |-> order[n], state |-> inspection[order[n]].state,
                      revision |-> inspection[order[n]].revision, place |-> n] : n \in ToClean}
<1>1. /\ inspector' = [Resting EXCEPT !.pc = "next", !.todo = items]
      /\ UNCHANGED <<inspection, order, reports, submission, queueDir, sandboxes>>
  BY DEF BeginPass, rowsSame
<1>2. ASSUME NEW item \in items PROVE item \in WorkItems /\ ReadHolds(item)
  <2>1. PICK n \in ToClean : item = [id |-> order[n], state |-> inspection[order[n]].state,
                                     revision |-> inspection[order[n]].revision, place |-> n]
    BY <1>2
  <2>2. n \in DOMAIN order /\ n \in Nat /\ order[n] \in Inspections /\ inspection[order[n]] \in Requests
    BY DEF ToClean, InspectionInv, RequestsTyped
  <2>3. item \in WorkItems
    BY <2>1, <2>2 DEF WorkItems, Requests
  <2> QED BY <2>1, <2>2, <2>3 DEF ReadHolds, EndedIn
<1> HIDE DEF items
<1>3. InspectorTyped' /\ inspector'.pc = "next" /\ inspector'.todo = items /\ inspector'.report = FALSE
  <2>1. items \subseteq WorkItems
    BY <1>2
  <2> QED BY <1>1, <2>1, RestingTyped DEF InspectorTyped, AtRow
<1>4. StageHolds'
  <2>1. \A item \in items : ReadHolds(item)'
    BY <1>1, <1>2 DEF ReadHolds, EndedIn
  <2> QED BY <1>3, <2>1 DEF StageHolds, AtRow
<1>5. queueDir' \in [Submissions -> {"none", "staging", "published", "gone"}]
  BY <1>1 DEF InspectionInv, RequestsTyped
<1> QED BY <1>1, <1>3, <1>4, <1>5, FewerKeeps DEF InspectionInv

LEMMA TakeRowInv == InspectionInv /\ TakeRow => InspectionInv'
<1> SUFFICES ASSUME InspectionInv, TakeRow PROVE InspectionInv'
  OBVIOUS
<1>1. PICK row \in inspector.todo :
        inspector' = [inspector EXCEPT !.todo = @ \ {row}, !.here = row,
          !.pc = CASE row.state = "RUNNING" -> "interrupted"
                   [] row.state = "QUEUED" -> "start"
                   [] OTHER -> "clean"]
  BY DEF TakeRow
<1>2. /\ inspector.pc = "next" /\ UNCHANGED <<inspection, order, reports, submission, queueDir, sandboxes>>
  BY DEF TakeRow, rowsSame, InspectorAt
<1>3. row \in WorkItems /\ inspection[row.id] \in Requests /\ (row.state \in InspectionEnds => EndedIn(row.id))
      /\ row.state \in RequestStates
  BY InspectorFields DEF InspectionInv, StageHolds, ReadHolds, WorkItems
<1> DEFINE pc == CASE row.state = "RUNNING" -> "interrupted" [] row.state = "QUEUED" -> "start" [] OTHER -> "clean"
<1>4. pc \in {"interrupted", "start", "clean"} /\ (pc = "clean" => row.state \in InspectionEnds)
  BY <1>3 DEF RequestStates
<1> HIDE DEF pc
<1>5. /\ InspectorTyped' /\ inspector'.pc = pc /\ inspector'.todo \subseteq inspector.todo /\ Here' = row
      /\ inspector'.report = inspector.report
  <2>1. inspector' = [inspector EXCEPT !.todo = @ \ {row}, !.here = row, !.pc = pc]
    BY <1>1 DEF pc
  <2>2. pc \in InspectorPcs
    BY <1>4 DEF InspectorPcs, AtRow
  <2> QED BY <1>3, <2>1, <2>2 DEF InspectionInv, InspectorTyped, InspectorPcs, Here
<1>6. inspector.report = FALSE
  BY <1>2, InspectorFields DEF InspectionInv, StageHolds
<1>7. StageHolds'
  <2>1. \A item \in inspector'.todo : ReadHolds(item)'
    BY <1>2, <1>5 DEF InspectionInv, StageHolds, ReadHolds, EndedIn
  <2>2. Here' \in WorkItems /\ inspection'[Here'.id] \in Requests
    BY <1>2, <1>3, <1>5
  <2>3. inspector'.pc = "clean" => EndedIn(row.id)'
    BY <1>2, <1>3, <1>4, <1>5 DEF EndedIn
  <2> QED BY <1>4, <1>5, <1>6, <2>1, <2>2, <2>3 DEF StageHolds
<1>8. queueDir' \in [Submissions -> {"none", "staging", "published", "gone"}]
  BY <1>2 DEF InspectionInv, RequestsTyped
<1> QED BY <1>2, <1>5, <1>7, <1>8, FewerKeeps DEF InspectionInv

(* The container of an interrupted or of an ended inspection goes. *)
LEMMA RemoveSandboxInv ==
  ASSUME InspectionInv, CleanInterrupted \/ CleanSandbox
  PROVE  InspectionInv'
<1> DEFINE i == Here.id
<1>1. UNCHANGED <<inspection, order, reports, submission, queueDir>>
  BY DEF CleanInterrupted, CleanSandbox, rowsSame
<1>2. queueDir' \in [Submissions -> {"none", "staging", "published", "gone"}]
  BY <1>1 DEF InspectionInv, RequestsTyped
<1>3. CASE PassEnds /\ UNCHANGED sandboxes
  BY <1>1, <1>3, PassEndsInv
<1>4. ASSUME NEW pc, pc \in {"fail", "remove"}, sandboxes' = sandboxes \ {i}, Proceeds(pc),
             inspector.pc = IF pc = "fail" THEN "interrupted" ELSE "clean"
      PROVE  InspectionInv'
  <2>1. /\ InspectorTyped' /\ inspector'.pc = pc /\ inspector'.todo = inspector.todo /\ Here' = Here
        /\ inspector'.report = inspector.report
    <3>1. pc \in InspectorPcs
      BY <1>4 DEF InspectorPcs, AtRow
    <3> QED BY <1>4, <3>1, ProceedsTyped
  <2>2. /\ RequestsTyped' /\ HandedOver' /\ FinishedIsClean'
        /\ \A row : ReadHolds(row)' <=> ReadHolds(row)
        /\ \A k : EndedIn(k)' <=> EndedIn(k)
    BY <1>1, <1>2, <1>4, FewerKeeps
  <2>3. i \notin sandboxes'
    BY <1>4
  <2>4. StageHolds'
    BY <1>1, <1>4, <2>1, <2>2, <2>3 DEF InspectionInv, StageHolds, AtRow
  <2> QED BY <2>1, <2>2, <2>4 DEF InspectionInv
<1>5. CASE CleanInterrupted
  <2>1. inspector.pc = "interrupted" /\ RemoveSandbox(i, "fail")
    BY <1>5 DEF CleanInterrupted, InspectorAt
  <2> QED BY <1>3, <1>4, <2>1 DEF RemoveSandbox
<1>6. CASE CleanSandbox
  <2>1. inspector.pc = "clean" /\ RemoveSandbox(i, "remove")
    BY <1>6 DEF CleanSandbox, InspectorAt
  <2> QED BY <1>3, <1>4, <2>1 DEF RemoveSandbox
<1> QED BY <1>5, <1>6

(* The worker sets the state of the row at hand. *)
LEMMA SetsInv ==
  ASSUME InspectionInv, UNCHANGED <<submission, queueDir, sandboxes>>,
         NEW next, Moved(Here.id, next), Here \in WorkItems,
         NEW pc \in {"inspect", "clean"}, Proceeds(pc),
         pc = "inspect" => next = "RUNNING" /\ inspector.report = FALSE,
         pc = "clean" => next \in InspectionEnds,
         Here.id \in sandboxes => next \in {"RUNNING", "FAILED"}
  PROVE  InspectionInv'
<1> DEFINE i == Here.id
<1>1. i \in Inspections
  BY DEF WorkItems
<1>2. /\ RequestsTyped' /\ HandedOver' /\ FinishedIsClean'
      /\ \A row \in WorkItems : ReadHolds(row) => ReadHolds(row)'
  BY <1>1, MovedKeeps
<1>3. /\ InspectorTyped' /\ inspector'.pc = pc /\ inspector'.todo = inspector.todo /\ Here' = Here
      /\ inspector'.report = inspector.report
  <2>1. pc \in InspectorPcs
    BY DEF InspectorPcs, AtRow
  <2> QED BY <2>1, ProceedsTyped
<1>4. inspection'[i] \in Requests /\ inspection'[i].state = next
  BY DEF Moved
<1>5. pc = "clean" => EndedIn(i)'
  BY <1>3, <1>4 DEF EndedIn
<1>6. \A row \in inspector.todo : ReadHolds(row)'
  BY <1>2, InspectorFields DEF InspectionInv, StageHolds
<1>7. StageHolds'
  BY <1>3, <1>4, <1>5, <1>6 DEF StageHolds
<1> QED BY <1>2, <1>3, <1>7 DEF InspectionInv

LEMMA SettingInv ==
  ASSUME InspectionInv, FailInterrupted \/ StartInspection \/ SettleInspection
  PROVE  InspectionInv'
<1> DEFINE i == Here.id
<1>1. UNCHANGED <<submission, queueDir, sandboxes>> /\ inspector.pc \in {"fail", "start", "settle"}
      /\ inspector.pc \in AtRow
  BY DEF FailInterrupted, StartInspection, SettleInspection, InspectorAt, AtRow
<1>2. Here \in WorkItems /\ i \in Inspections
  BY <1>1 DEF InspectionInv, StageHolds, WorkItems
<1>3. CASE PassEnds /\ rowsSame
  BY <1>1, <1>3, PassEndsInv DEF rowsSame
<1>4. CASE FailInterrupted
  <2>1. (MaySet(i, Here.revision, "FAILED") /\ Sets(i, "FAILED") /\ Proceeds("clean")) \/ (PassEnds /\ rowsSame)
    BY <1>4 DEF FailInterrupted
  <2>2. CASE MaySet(i, Here.revision, "FAILED") /\ Sets(i, "FAILED") /\ Proceeds("clean")
    <3>1. Moved(i, "FAILED")
      BY <1>2, <2>2, SetMoves
    <3>2. "FAILED" \in InspectionEnds
      BY DEF InspectionEnds
    <3> QED BY <1>1, <1>2, <2>2, <3>1, <3>2, SetsInv
  <2> QED BY <1>3, <2>1, <2>2
<1>5. CASE StartInspection
  <2>1. (MaySet(i, Here.revision, "RUNNING") /\ Sets(i, "RUNNING") /\ Proceeds("inspect")) \/ (PassEnds /\ rowsSame)
    BY <1>5 DEF StartInspection
  <2>2. CASE MaySet(i, Here.revision, "RUNNING") /\ Sets(i, "RUNNING") /\ Proceeds("inspect")
    <3>1. Moved(i, "RUNNING")
      BY <1>2, <2>2, SetMoves
    <3>2. inspector.report = FALSE
      <4>1. inspector.pc = "start"
        BY <1>5 DEF StartInspection, InspectorAt
      <4> QED BY <4>1, InspectorFields DEF InspectionInv, StageHolds
    <3> QED BY <1>1, <1>2, <2>2, <3>1, <3>2, SetsInv
  <2> QED BY <1>3, <2>1, <2>2
<1>6. CASE SettleInspection
  <2> DEFINE next == IF inspector.report THEN "COMPLETED" ELSE "FAILED"
  <2>1. (MaySet(i, Here.revision + 1, next) /\ Sets(i, next) /\ Proceeds("clean")) \/ (PassEnds /\ rowsSame)
    BY <1>6 DEF SettleInspection
  <2>2. CASE MaySet(i, Here.revision + 1, next) /\ Sets(i, next) /\ Proceeds("clean")
    <3>1. Moved(i, next)
      <4> HIDE DEF next
      <4> QED BY <1>2, <2>2, SetMoves
    <3>2. next \in InspectionEnds
      BY DEF InspectionEnds
    <3>3. i \in sandboxes => next = "FAILED"
      BY <1>6 DEF InspectionInv, StageHolds, SettleInspection, InspectorAt
    <3> HIDE DEF next
    <3> QED BY <1>1, <1>2, <2>2, <3>1, <3>2, <3>3, SetsInv
  <2> QED BY <1>3, <2>1, <2>2
<1> QED BY <1>4, <1>5, <1>6

LEMMA InspectInv == InspectionInv /\ Inspect => InspectionInv'
<1> SUFFICES ASSUME InspectionInv, Inspect PROVE InspectionInv'
  OBVIOUS
<1> DEFINE i == Here.id
<1>1. /\ inspector.pc = "inspect" /\ inspector.pc \in AtRow
      /\ UNCHANGED <<inspection, order, reports, submission, queueDir>>
      /\ \/ sandboxes' = sandboxes \cup {i} /\ Proceeds("running")
         \/ Proceeds("settle") /\ UNCHANGED sandboxes
  BY DEF Inspect, InspectorAt, AtRow, rowsSame
<1>2. Here \in WorkItems /\ i \in Inspections /\ inspection[i] \in Requests /\ inspection[i].state = "RUNNING"
  BY <1>1 DEF InspectionInv, StageHolds, WorkItems
<1>3. inspector.report = FALSE
  BY <1>1, InspectorFields DEF InspectionInv, StageHolds
<1>4. PICK pc \in {"running", "settle"} : Proceeds(pc)
  BY <1>1
<1>5. /\ InspectorTyped' /\ inspector'.pc = pc /\ inspector'.todo = inspector.todo /\ Here' = Here
      /\ inspector'.report = FALSE
  <2>1. pc \in InspectorPcs
    BY DEF InspectorPcs, AtRow
  <2> QED BY <1>3, <1>4, <2>1, ProceedsTyped
<1>6. inspection[i].cleanup
  <2>1. ~EndedIn(i)
    BY <1>2 DEF EndedIn, InspectionEnds
  <2> QED BY <1>2, <2>1, OpenIsKept
<1>7. RequestsTyped' /\ HandedOver'
  BY <1>1, <1>2 DEF InspectionInv, RequestsTyped, HandedOver
<1>8. FinishedIsClean'
  BY <1>1, <1>2, <1>6 DEF InspectionInv, FinishedIsClean
<1>9. StageHolds'
  <2>1. \A row : ReadHolds(row)' <=> ReadHolds(row)
    BY <1>1 DEF ReadHolds, EndedIn
  <2> QED BY <1>1, <1>2, <1>5, <2>1 DEF InspectionInv, StageHolds, AtRow
<1> QED BY <1>5, <1>7, <1>8, <1>9 DEF InspectionInv

(* A report is kept only of a container that is gone. *)
LEMMA EndSandboxInv == InspectionInv /\ EndSandbox => InspectionInv'
<1> SUFFICES ASSUME InspectionInv, EndSandbox PROVE InspectionInv'
  OBVIOUS
<1> DEFINE i == Here.id
<1>1. /\ inspector.pc = "running" /\ inspector.pc \in AtRow
      /\ UNCHANGED <<inspection, order, reports, submission, queueDir>>
  BY DEF EndSandbox, InspectorAt, AtRow, rowsSame
<1>2. \E report \in BOOLEAN :
        /\ inspector' = [inspector EXCEPT !.pc = "settle", !.report = report]
        /\ sandboxes' \subseteq sandboxes /\ (report => i \notin sandboxes')
  <2>1. inspector.report = FALSE
    BY <1>1, InspectorFields DEF InspectionInv, StageHolds
  <2>2. CASE sandboxes' = sandboxes \ {i} /\ \E report \in BOOLEAN :
               inspector' = [inspector EXCEPT !.pc = "settle", !.report = report]
    BY <2>2
  <2>3. CASE Proceeds("settle") /\ UNCHANGED sandboxes
    <3>1. inspector' = [inspector EXCEPT !.pc = "settle", !.report = FALSE]
      BY <2>1, <2>3 DEF Proceeds, InspectionInv, InspectorTyped
    <3> QED BY <2>3, <3>1
  <2> QED BY <2>2, <2>3 DEF EndSandbox
<1>3. PICK report \in BOOLEAN :
        /\ inspector' = [inspector EXCEPT !.pc = "settle", !.report = report]
        /\ sandboxes' \subseteq sandboxes /\ (report => i \notin sandboxes')
  BY <1>2
<1>4. /\ InspectorTyped' /\ inspector'.pc = "settle" /\ inspector'.todo = inspector.todo /\ Here' = Here
      /\ inspector'.report = report
  BY <1>3 DEF InspectionInv, InspectorTyped, AtRow, Here
<1>5. queueDir' \in [Submissions -> {"none", "staging", "published", "gone"}]
  BY <1>1 DEF InspectionInv, RequestsTyped
<1>6. /\ RequestsTyped' /\ HandedOver' /\ FinishedIsClean'
      /\ \A row : ReadHolds(row)' <=> ReadHolds(row)
  BY <1>1, <1>3, <1>5, FewerKeeps
<1>7. StageHolds'
  BY <1>1, <1>3, <1>4, <1>6 DEF InspectionInv, StageHolds
<1> QED BY <1>4, <1>6, <1>7 DEF InspectionInv

LEMMA RemoveSourceInv == InspectionInv /\ RemoveSource => InspectionInv'
<1> SUFFICES ASSUME InspectionInv, RemoveSource PROVE InspectionInv'
  OBVIOUS
<1> DEFINE i == Here.id
<1>1. /\ inspector.pc = "remove" /\ inspector.pc \in AtRow
      /\ UNCHANGED <<inspection, order, reports, submission, sandboxes>>
  BY DEF RemoveSource, InspectorAt, AtRow, rowsSame
<1>2. CASE PassEnds /\ UNCHANGED queueDir
  BY <1>1, <1>2, PassEndsInv
<1>3. CASE queueDir' = [queueDir EXCEPT ![inspection[i].dir] = "gone"] /\ Proceeds("finish")
  <2>1. Here \in WorkItems /\ EndedIn(i) /\ i \notin sandboxes /\ inspection[i].dir \in Submissions
    BY <1>1 DEF InspectionInv, StageHolds, Requests
  <2>2. /\ queueDir' \in [Submissions -> {"none", "staging", "published", "gone"}]
        /\ queueDir'[inspection[i].dir] = "gone"
        /\ \A s \in Submissions : queueDir[s] = "gone" => queueDir'[s] = "gone"
    BY <1>3, <2>1 DEF InspectionInv, RequestsTyped
  <2>3. /\ InspectorTyped' /\ inspector'.pc = "finish" /\ inspector'.todo = inspector.todo /\ Here' = Here
        /\ inspector'.report = inspector.report
    <3>1. "finish" \in InspectorPcs
      BY DEF InspectorPcs, AtRow
    <3> QED BY <1>3, <3>1, ProceedsTyped
  <2>4. /\ RequestsTyped' /\ HandedOver' /\ FinishedIsClean'
        /\ \A row : ReadHolds(row)' <=> ReadHolds(row)
        /\ \A k : EndedIn(k)' <=> EndedIn(k)
    BY <1>1, <2>2, FewerKeeps
  <2>5. StageHolds'
    BY <1>1, <2>1, <2>2, <2>3, <2>4 DEF InspectionInv, StageHolds, EndedIn
  <2> QED BY <2>3, <2>4, <2>5 DEF InspectionInv
<1> QED BY <1>2, <1>3 DEF RemoveSource

(* The flag goes when container and document are gone. *)
LEMMA FinishCleanupInv == InspectionInv /\ FinishCleanup => InspectionInv'
<1> SUFFICES ASSUME InspectionInv, FinishCleanup PROVE InspectionInv'
  OBVIOUS
<1> DEFINE i == Here.id
<1>1. /\ inspector.pc = "finish" /\ inspector.pc \in AtRow
      /\ UNCHANGED <<order, reports, submission, queueDir, sandboxes>>
  BY DEF FinishCleanup, InspectorAt, AtRow
<1>2. /\ Here \in WorkItems /\ i \in Inspections /\ EndedIn(i) /\ i \notin sandboxes
      /\ queueDir[inspection[i].dir] = "gone" /\ inspection[i] \in Requests
  BY <1>1 DEF InspectionInv, StageHolds, WorkItems, EndedIn
<1> DEFINE row == [inspection[i] EXCEPT !.cleanup = FALSE]
<1>3. inspection' = [inspection EXCEPT ![i] = row]
  BY <1>2 DEF FinishCleanup, EndedIn
<1>4. row \in Requests /\ row.state = inspection[i].state /\ row.dir = inspection[i].dir
  BY <1>2 DEF Requests
<1> HIDE DEF row
<1>5. /\ inspection' \in [Inspections -> Requests \cup {NoInspection}] /\ inspection'[i] = row
      /\ \A k \in Inspections : k # i => inspection'[k] = inspection[k]
  BY <1>2, <1>3, <1>4 DEF InspectionInv, RequestsTyped
<1>6. /\ \A k \in Inspections : inspection[k] \in Requests => inspection'[k] \in Requests
      /\ \A k \in Inspections : inspection'[k] \in Requests =>
           inspection[k] \in Requests /\ inspection'[k].dir = inspection[k].dir
      /\ \A k \in Inspections : inspection'[k].state = inspection[k].state
      /\ \A k \in Inspections : EndedIn(k) => EndedIn(k)'
  BY <1>2, <1>4, <1>5 DEF EndedIn
<1>7. RequestsTyped'
  <2>1. \A n \in DOMAIN order : order[n] \in Inspections
    BY DEF InspectionInv, RequestsTyped
  <2> QED BY <1>1, <1>5, <1>6, <2>1 DEF InspectionInv, RequestsTyped
<1>8. HandedOver'
  BY <1>1, <1>6 DEF InspectionInv, HandedOver
<1>9. FinishedIsClean'
  <2> SUFFICES ASSUME NEW k \in Inspections
               PROVE  /\ k \in sandboxes => inspection'[k].cleanup /\ inspection'[k].state \in {"RUNNING", "FAILED"}
                      /\ inspection'[k].dir # NoSubmission /\ ~inspection'[k].cleanup =>
                           inspection'[k].state \in InspectionEnds /\ queueDir[inspection'[k].dir] = "gone"
    BY <1>1 DEF FinishedIsClean
  <2>1. CASE k = i
    BY <1>2, <1>4, <1>5, <2>1 DEF EndedIn
  <2>2. CASE k # i
    BY <1>5, <2>2 DEF InspectionInv, FinishedIsClean
  <2> QED BY <2>1, <2>2
<1>10. \A item \in WorkItems : ReadHolds(item) => ReadHolds(item)'
  <2> SUFFICES ASSUME NEW item \in WorkItems, ReadHolds(item) PROVE ReadHolds(item)'
    OBVIOUS
  <2>1. item.id \in Inspections
    BY DEF WorkItems
  <2> QED BY <1>6, <2>1 DEF ReadHolds
<1>11. /\ InspectorTyped' /\ inspector'.pc = "next" /\ inspector'.todo \subseteq inspector.todo
       /\ inspector'.report = FALSE
  <2>1. PICK todo \in SUBSET inspector.todo : inspector' = [Resting EXCEPT !.pc = "next", !.todo = todo]
    BY DEF FinishCleanup
  <2>2. todo \subseteq WorkItems
    BY InspectorFields
  <2> QED BY <2>1, <2>2, RestingTyped DEF InspectorTyped, AtRow
<1>12. StageHolds'
  <2>1. \A item \in inspector'.todo : ReadHolds(item)'
    BY <1>10, <1>11, InspectorFields DEF InspectionInv, StageHolds
  <2> QED BY <1>11, <2>1 DEF StageHolds, AtRow
<1> QED BY <1>7, <1>8, <1>9, <1>11, <1>12 DEF InspectionInv

(* The reclaim keeps no row in hand. *)
LEMMA ReclaimInv ==
  ASSUME InspectionInv, ListDirectories \/ AskRegistered \/ Reclaim
  PROVE  InspectionInv'
<1>1. UNCHANGED <<inspection, order, reports, submission, sandboxes>>
  BY DEF ListDirectories, AskRegistered, Reclaim, rowsSame
<1>2. queueDir' \in [Submissions -> {"none", "staging", "published", "gone"}]
      /\ \A s \in Submissions : queueDir[s] = "gone" => queueDir'[s] = "gone"
  <2>1. queueDir' = queueDir \/ queueDir' = [queueDir EXCEPT ![inspector.dir.s] = "gone"]
    BY DEF ListDirectories, AskRegistered, Reclaim
  <2>2. queueDir \in [Submissions -> {"none", "staging", "published", "gone"}]
    BY DEF InspectionInv, RequestsTyped
  <2> QED BY <2>1, <2>2
<1>3. InspectorTyped' /\ inspector'.pc \in {"idle", "orphans", "reclaim"} /\ inspector'.report = FALSE
      /\ inspector'.todo \subseteq inspector.todo
  <2>1. CASE ListDirectories
    <3>1. PICK dirs \in SUBSET OnDisk : inspector' = [Resting EXCEPT !.pc = "orphans", !.dirs = dirs]
      BY <2>1 DEF ListDirectories
    <3> QED BY <3>1, RestingTyped DEF InspectorTyped
  <2>2. CASE AskRegistered \/ Reclaim
    <3>1. inspector.pc \in {"orphans", "reclaim"} /\ inspector.report = FALSE
      BY <2>2, InspectorFields DEF AskRegistered, Reclaim, InspectorAt, InspectionInv, StageHolds
    <3>2. CASE AskRegistered
      <4>1. PICK d \in inspector.dirs :
              inspector' = [inspector EXCEPT !.dirs = @ \ {d}, !.dir = d,
                              !.pc = IF Registered(d.s) THEN "orphans" ELSE "reclaim"]
        BY <3>2 DEF AskRegistered
      <4>2. d \in OnDisks
        BY InspectorFields DEF OnDisks
      <4> QED BY <3>1, <4>1, <4>2 DEF InspectionInv, InspectorTyped
    <3>3. CASE Reclaim
      <4>1. Proceeds("orphans") \/ inspector' = Resting
        BY <3>3 DEF Reclaim, PassEnds
      <4>2. "orphans" \in InspectorPcs
        BY DEF InspectorPcs
      <4>3. CASE Proceeds("orphans")
        BY <3>1, <4>2, <4>3, ProceedsTyped
      <4>4. CASE inspector' = Resting
        BY <4>4, RestHolds, RestingTyped
      <4> QED BY <4>1, <4>3, <4>4
    <3> QED BY <2>2, <3>2, <3>3
  <2> QED BY <2>1, <2>2
<1>4. /\ RequestsTyped' /\ HandedOver' /\ FinishedIsClean'
      /\ \A row : ReadHolds(row)' <=> ReadHolds(row)
  BY <1>1, <1>2, FewerKeeps
<1>5. StageHolds'
  BY <1>3, <1>4 DEF InspectionInv, StageHolds, AtRow
<1> QED BY <1>3, <1>4, <1>5 DEF InspectionInv

LEMMA InspectionNextInv == InspectionInv /\ [InspectionNext]_inspectionVars => InspectionInv'
<1> SUFFICES ASSUME InspectionInv, [InspectionNext]_inspectionVars PROVE InspectionInv'
  OBVIOUS
<1>1. CASE \E s \in Submissions : \/ \E i \in Inspections : BeginSubmission(s, i)
                                  \/ PublishSubmission(s) \/ RegisterSubmission(s) \/ AbandonSubmission(s)
  BY <1>1, UploadsInv, RegisterInv
<1>2. CASE \E i \in Inspections : CancelInspection(i)
  BY <1>2, CancelInspectionInv
<1>3. CASE BeginPass \/ TakeRow \/ CleanInterrupted \/ FailInterrupted \/ StartInspection \/ Inspect \/ EndSandbox
  BY <1>3, BeginPassInv, TakeRowInv, RemoveSandboxInv, SettingInv, InspectInv, EndSandboxInv
<1>4. CASE SettleInspection \/ CleanSandbox \/ RemoveSource \/ FinishCleanup
  BY <1>4, SettingInv, RemoveSandboxInv, RemoveSourceInv, FinishCleanupInv
<1>5. CASE ListDirectories \/ AskRegistered \/ Reclaim
  BY <1>5, ReclaimInv
<1>6. CASE EndPass \/ InspectorDies
  <2>1. PassEnds /\ UNCHANGED <<inspection, order, reports, submission, queueDir, sandboxes>>
    BY <1>6 DEF EndPass, InspectorDies, rowsSame
  <2> QED BY <2>1, PassEndsInv
<1>7. CASE UNCHANGED inspectionVars
  <2>1. UNCHANGED <<inspection, order, reports, submission, queueDir, sandboxes, inspector>>
    BY <1>7 DEF inspectionVars
  <2>2. (\A row : ReadHolds(row)' <=> ReadHolds(row)) /\ (\A i : EndedIn(i)' <=> EndedIn(i)) /\ Here' = Here
    BY <2>1 DEF ReadHolds, EndedIn, Here
  <2>3. StageHolds'
    BY <2>1, <2>2 DEF InspectionInv, StageHolds
  <2> QED BY <2>1, <2>3 DEF InspectionInv, InspectorTyped, RequestsTyped, HandedOver, FinishedIsClean
<1> QED BY <1>1, <1>2, <1>3, <1>4, <1>5, <1>6, <1>7 DEF InspectionNext, Inspector

(* tick, inspect_script, cleanup_inspection: for any number of inspections, *)
(* uploads, failures and crashes of the worker, a container is there only   *)
(* for an inspection that runs or failed and is yet to be cleaned up, and a *)
(* request is struck off only when it ended and left nothing behind.        *)
THEOREM InspectionsLeaveNothing == InspectionSpec => []FinishedIsClean
<1>1. InspectionSpec => []InspectionInv
  BY InspectionInitInv, InspectionNextInv, PTL DEF InspectionSpec
<1>2. InspectionInv => FinishedIsClean
  BY DEF InspectionInv
<1> QED BY <1>1, <1>2, PTL
=============================================================================
