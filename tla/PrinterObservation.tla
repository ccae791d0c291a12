------------------------- MODULE PrinterObservation -------------------------
(***************************************************************************)
(* What is known of one configured printer: the schedule row its observers *)
(* claim under a lease, the queries they and the clients of the API make,  *)
(* numbered when they begin, and the bounded history of what changed.      *)
(* Times are what is left of them: of the lease and until the next query   *)
(* is due.  Queries end in any order, late, or never.                      *)
(***************************************************************************)
EXTENDS Naturals, FiniteSets

CONSTANTS Observers, Clients, NoObserver,
          Reports,      \* digests of printer-state snapshots
          NoSnapshot,
          Lease,          \* LEASE_SECONDS
          Interval, MaxBackoff,
          MaxFailures,    \* the 16 at which failures stop counting
          Window,         \* retained events
          MaxQueries      \* bound on the queries made

ASSUME ObservationAssumption ==
  /\ NoObserver \notin Observers /\ NoSnapshot \notin Reports
  /\ Observers \cap Clients = {}
  /\ {Lease, Interval, MaxBackoff, Window, MaxQueries} \subseteq Nat \ {0}
  /\ MaxFailures \in Nat /\ Interval <= MaxBackoff

VARIABLES
  schedule,   \* row of printer_observer_schedule
  probe,      \* Observers and Clients -> the query in hand
  issued,     \* the number of the last query that began
  applied,    \* the number of the last query that was recorded
  latest,     \* body of printer_observations
  events,     \* retained rows of printer_observation_events
  pruned,     \* pruned_through
  contents,   \* digests in printer_observation_contents
  ended       \* what each query that ended reported, by its number

observationVars ==
  <<schedule, probe, issued, applied, latest, events, pruned, contents, ended>>

----------------------------------------------------------------------------
Probers == Observers \cup Clients
QueryFailure == {"UNAVAILABLE", "INVALID_RESPONSE", "CONFIGURATION_UNAVAILABLE"}
NoProbe == [pc |-> "idle", serial |-> 0, failures |-> 0, success |-> FALSE]
Unseen == [snapshot |-> NoSnapshot, failure |-> "none", revision |-> 0]
Numbers == {e.sequence : e \in events}
LastEvent == pruned + Cardinality(events)

ObservationTypeOK ==
  /\ schedule \in [run : Observers \cup {NoObserver}, lease : 0..Lease,
                   due : 0..MaxBackoff, failures : 0..MaxFailures]
  /\ probe \in [Probers -> [pc : {"idle", "claimed", "asking", "finish"}, serial : 0..MaxQueries,
                            failures : 0..MaxFailures, success : BOOLEAN]]
  /\ issued \in 0..MaxQueries /\ applied \in 0..issued
  /\ contents \subseteq Reports

ObservationInit ==
  /\ schedule = [run |-> NoObserver, lease |-> 0, due |-> 0, failures |-> 0]
  /\ probe = [p \in Probers |-> NoProbe]
  /\ issued = 0 /\ applied = 0 /\ pruned = 0
  /\ latest = Unseen
  /\ events = {} /\ contents = {}
  /\ ended = [n \in {} |-> Unseen]

----------------------------------------------------------------------------
RecordsSame == UNCHANGED <<applied, latest, events, pruned, contents, ended>>

(* claim_printer_observer: due, and no run that still has its lease. *)
ClaimObserver(o) ==
  /\ probe[o].pc = "idle"
  /\ schedule.due = 0 /\ (schedule.run = NoObserver \/ schedule.lease = 0)
  /\ schedule' = [schedule EXCEPT !.run = o, !.lease = Lease]
  /\ probe' = [probe EXCEPT ![o] = [NoProbe EXCEPT !.pc = "claimed", !.failures = schedule.failures]]
  /\ UNCHANGED issued /\ RecordsSame

(* begin_printer_query; a client of the API asks whenever it likes. *)
BeginQuery(p) ==
  /\ probe[p].pc = IF p \in Observers THEN "claimed" ELSE "idle"
  /\ issued < MaxQueries
  /\ issued' = issued + 1
  /\ probe' = [probe EXCEPT ![p].pc = "asking", ![p].serial = issued + 1]
  /\ UNCHANGED schedule /\ RecordsSame

(* The window: all but the last events go, and the contents only they needed. *)
Trimmed(all) == {e \in all : e.sequence + Window > LastEvent + 1}
Needed(kept, snapshot) == {e.snapshot : e \in kept} \cup {snapshot}

Kind(failure) ==
  CASE failure # "none" -> "QUERY_FAILED"
    [] failure = "none" /\ latest.failure # "none" -> "QUERY_RECOVERED"
    [] failure = "none" /\ latest.failure = "none" /\ latest.revision = 0 -> "FIRST_REPORT"
    [] OTHER -> "DEVICE_REPORT_CHANGED"

(* Variant of Late, whoever ends last is right. *)
Unnumbered(serial) == serial = 0

(* finish_printer_query: a query that began before the last one recorded is  *)
(* dropped; a change is an event.                                          *)
Late(serial) == serial <= applied

Record(serial, failure, snapshot) ==
  IF Late(serial) THEN UNCHANGED <<applied, latest, events, pruned, contents>>
  ELSE
    LET changed == latest.revision = 0 \/ latest.failure # failure \/ latest.snapshot # snapshot
        body == [snapshot |-> snapshot, failure |-> failure,
                 revision |-> latest.revision + IF changed THEN 1 ELSE 0]
        all == events \cup {[sequence |-> LastEvent + 1, snapshot |-> snapshot, kind |-> Kind(failure)]}
        known == contents \cup ({snapshot} \ {NoSnapshot}) IN
    /\ applied' = serial
    /\ latest' = body
    /\ IF changed
       THEN /\ events' = Trimmed(all)
            /\ pruned' = pruned + Cardinality(all) - Cardinality(Trimmed(all))
            /\ contents' = IF Trimmed(all) = all THEN known
                           ELSE known \cap Needed(Trimmed(all), snapshot)
       ELSE UNCHANGED <<events, pruned>> /\ contents' = known

EndQuery(p) ==
  LET serial == probe[p].serial IN
  /\ probe[p].pc = "asking"
  /\ \E failure \in QueryFailure \cup {"none"}, seen \in Reports :
       /\ Record(serial, failure, IF failure = "none" THEN seen ELSE latest.snapshot)
       /\ ended' = [n \in DOMAIN ended \cup {serial} |->
                      IF n = serial THEN [failure |-> failure, snapshot |-> seen] ELSE ended[n]]
       /\ probe' = [probe EXCEPT ![p] = IF p \in Clients THEN NoProbe
                      ELSE [@ EXCEPT !.pc = "finish", !.success = (failure = "none")]]
  /\ UNCHANGED <<schedule, issued>>

(* The process dies, or the row could not be written: the lease stays. *)
LoseProbe(p) ==
  /\ probe[p].pc # "idle"
  /\ probe' = [probe EXCEPT ![p] = NoProbe]
  /\ UNCHANGED <<schedule, issued>> /\ RecordsSame

(* finish_printer_observer: only for the run that still holds the lease. *)
Least(a, b) == IF a <= b THEN a ELSE b
FailuresAfter(o) == IF probe[o].success THEN 0 ELSE Least(probe[o].failures + 1, MaxFailures)
Delay(o) == IF probe[o].success THEN Interval
            ELSE Least(Interval * 2 ^ FailuresAfter(o), MaxBackoff)

FinishObserver(o) ==
  /\ probe[o].pc = "finish"
  /\ schedule' = IF schedule.run = o /\ schedule.lease > 0
                 THEN [run |-> NoObserver, lease |-> 0, due |-> Delay(o), failures |-> FailuresAfter(o)]
                 ELSE schedule
  /\ probe' = [probe EXCEPT ![o] = NoProbe]
  /\ UNCHANGED issued /\ RecordsSame

Second ==
  /\ schedule.lease > 0 \/ schedule.due > 0
  /\ schedule' = [schedule EXCEPT !.lease = IF @ > 0 THEN @ - 1 ELSE 0,
                                  !.due = IF @ > 0 THEN @ - 1 ELSE 0]
  /\ UNCHANGED <<probe, issued>> /\ RecordsSame

ObservationNext ==
  \/ \E o \in Observers : ClaimObserver(o) \/ FinishObserver(o)
  \/ \E p \in Probers : BeginQuery(p) \/ EndQuery(p) \/ LoseProbe(p)
  \/ Second

ObservationSpec == ObservationInit /\ [][ObservationNext]_observationVars

----------------------------------------------------------------------------
(* printer_observation.rs finish_printer_query: what is shown as the latest *)
(* report is that of the query that began last among those that ended, in  *)
(* whatever order they ended, and the last success stays with a failure.   *)
LatestWins ==
  IF DOMAIN ended = {} THEN applied = 0
  ELSE /\ applied \in DOMAIN ended /\ \A n \in DOMAIN ended : n <= applied
       /\ latest.failure = ended[applied].failure
       /\ latest.failure = "none" => latest.snapshot = ended[applied].snapshot

(* printer_observation.rs, the window: every event that was not pruned is  *)
(* retained, pruned_through tells the reader which are gone, and each of   *)
(* the retained ones, like the latest report, can still be resolved.       *)
HistoryIsHonest ==
  /\ Numbers = pruned + 1..LastEvent
  /\ Cardinality(events) <= Window
  /\ {e.snapshot : e \in events} \cup {latest.snapshot} \subseteq contents \cup {NoSnapshot}

(* printer_observation.rs finish_printer_query: the latest report and the  *)
(* history of changes are both right, however queries race and fail.       *)
ObservationIsTrue == LatestWins /\ HistoryIsHonest
=============================================================================
