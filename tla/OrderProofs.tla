----------------------------- MODULE OrderProofs ------------------------------
(***************************************************************************)
(* Proofs about what comes in order: the observations of the printers, for *)
(* any number of observers, clients and contents; the event streams, for   *)
(* any number of followers, any page and any length of the log; and the    *)
(* pages a job renders and a delivery sends, for any document and ranges.  *)
(***************************************************************************)
EXTENDS PrinterObservation, EventFeeds, PageSelection, TLAPS, FiniteSetTheorems, FunctionTheorems

-----------------------------------------------------------------------------
(* The latest observation of a printer and its history. *)

Failures == QueryFailure \cup {"none"}
MaybeReports == Reports \cup {NoSnapshot}
Probes == [pc : {"idle", "claimed", "asking", "finish"}, serial : Nat, failures : 0..MaxFailures, success : BOOLEAN]

RecordsTyped ==
  /\ probe \in [Probers -> Probes]
  /\ schedule = [run |-> schedule.run, lease |-> schedule.lease, due |-> schedule.due, failures |-> schedule.failures]
  /\ schedule.failures \in 0..MaxFailures
  /\ issued \in Nat /\ applied \in Nat
  /\ latest \in [snapshot : MaybeReports, failure : Failures, revision : Nat]
  /\ contents \subseteq Reports

(* Queries are numbered when they begin: each number is asked for once, and *)
(* no query that is still asked for has ended.                             *)
SerialsHold ==
  /\ DOMAIN ended \subseteq 1..issued
  /\ \A p \in Probers : probe[p].pc = "asking" =>
       probe[p].serial \in 1..issued /\ probe[p].serial \notin DOMAIN ended
  /\ \A p, q \in Probers : probe[p].pc = "asking" /\ probe[q].pc = "asking" /\ p # q =>
       probe[p].serial # probe[q].serial

(* Events are numbered from 1 without a gap, and what was pruned are the first of them. *)
EventsHold ==
  /\ IsFiniteSet(events) /\ pruned \in Nat
  /\ \A e \in events : e.sequence \in Nat
  /\ \A e, f \in events : e.sequence = f.sequence => e = f
  /\ HistoryIsHonest

ObservationInv == RecordsTyped /\ SerialsHold /\ LatestWins /\ EventsHold /\ latest.revision = LastEvent

LEMMA ObservationInitHolds == ObservationInit => ObservationInv
<1> SUFFICES ASSUME ObservationInit PROVE ObservationInv
  OBVIOUS
<1>1. RecordsTyped
  BY ObservationAssumption
     DEF ObservationInit, RecordsTyped, Probes, NoProbe, Unseen, Failures, MaybeReports
<1>2. SerialsHold /\ LatestWins
  BY DEF ObservationInit, SerialsHold, NoProbe, LatestWins
<1>3. events = {} /\ Cardinality(events) = 0 /\ IsFiniteSet(events) /\ pruned = 0 /\ LastEvent = 0
  BY FS_EmptySet DEF ObservationInit, LastEvent
<1>4. EventsHold
  BY <1>3, ObservationAssumption DEF EventsHold, HistoryIsHonest, Numbers, ObservationInit, Unseen
<1>5. latest.revision = LastEvent
  BY <1>3 DEF ObservationInit, Unseen
<1> QED BY <1>1, <1>2, <1>4, <1>5 DEF ObservationInv

(* Events with different numbers are as many as their numbers. *)
LEMMA AsManyAsNumbers ==
  ASSUME NEW kept, IsFiniteSet(kept), NEW numbers, numbers = {e.sequence : e \in kept},
         \A e, f \in kept : e.sequence = f.sequence => e = f
  PROVE  Cardinality(kept) = Cardinality(numbers)
<1> DEFINE number == [e \in kept |-> e.sequence]
<1>1. number \in [kept -> numbers]
  OBVIOUS
<1>2. \A e, f \in kept : number[e] = number[f] => e = f
  OBVIOUS
<1>3. \A n \in numbers : \E e \in kept : number[e] = n
  OBVIOUS
<1>4. number \in Bijection(kept, numbers)
  BY <1>1, <1>2, <1>3, Fun_IsBij
<1>5. ExistsBijection(kept, numbers)
  BY <1>4 DEF ExistsBijection
<1> QED BY <1>5, FS_Bijection

(* One event is added and the window moves: what is kept are the last      *)
(* events up to the new one, and as many as were dropped count as pruned.   *)
LEMMA WindowMoves ==
  ASSUME EventsHold, NEW event, event.sequence = LastEvent + 1,
         NEW all, all = events \cup {event},
         NEW through, through = pruned + Cardinality(all) - Cardinality(Trimmed(all))
  PROVE  /\ Trimmed(all) \subseteq all /\ IsFiniteSet(Trimmed(all))
         /\ through \in Nat /\ through >= pruned
         /\ \A e \in all : e.sequence \in Nat
         /\ \A e, f \in all : e.sequence = f.sequence => e = f
         /\ {e.sequence : e \in Trimmed(all)} = through + 1 .. LastEvent + 1
         /\ through + Cardinality(Trimmed(all)) = LastEvent + 1
         /\ Cardinality(Trimmed(all)) <= Window
<1> DEFINE kept == Trimmed(all)
           last == LastEvent + 1
           first == IF pruned + 1 > last + 1 - Window THEN pruned + 1 ELSE last + 1 - Window
<1>0. Window \in Nat /\ Window > 0
  BY ObservationAssumption
<1>1. /\ IsFiniteSet(events) /\ pruned \in Nat /\ Cardinality(events) \in Nat
      /\ LastEvent = pruned + Cardinality(events) /\ LastEvent \in Nat
      /\ Numbers = pruned + 1 .. LastEvent
  BY FS_CardinalityType DEF EventsHold, LastEvent, HistoryIsHonest
<1>2. event \notin events
  BY <1>1 DEF Numbers
<1>3. IsFiniteSet(all) /\ Cardinality(all) = Cardinality(events) + 1
  BY <1>1, <1>2, FS_AddElement
<1>4. \A e \in all : e.sequence \in Nat
  BY <1>1 DEF EventsHold
<1>5. \A e, f \in all : e.sequence = f.sequence => e = f
  BY <1>1 DEF EventsHold, Numbers
<1>6. kept \in SUBSET all
  BY DEF Trimmed
<1>7. IsFiniteSet(kept)
  BY <1>3, <1>6, FS_Subset
<1>8. {e.sequence : e \in all} = pruned + 1 .. last
  <2>1. {e.sequence : e \in all} = Numbers \cup {last}
    BY DEF Numbers
  <2> QED BY <1>1, <2>1
<1>9. {e.sequence : e \in kept} = first .. last
  <2>1. \A n : n \in {e.sequence : e \in kept} <=> n \in {e.sequence : e \in all} /\ n + Window > last
    BY DEF Trimmed
  <2>2. \A n : n \in first .. last <=> n \in pruned + 1 .. last /\ n + Window > last
    BY <1>0, <1>1
  <2> QED BY <1>8, <2>1, <2>2
<1>10. first \in Int /\ last \in Int /\ first <= last /\ first > pruned /\ last - first + 1 <= Window
  BY <1>0, <1>1
<1>11. Cardinality(kept) = last - first + 1
  <2>1. Cardinality(first .. last) = last - first + 1
    BY <1>10, FS_Interval
  <2> HIDE DEF kept
  <2>2. Cardinality(kept) = Cardinality(first .. last)
    BY <1>5, <1>6, <1>7, <1>9, AsManyAsNumbers
  <2> QED BY <2>1, <2>2
<1> HIDE DEF kept, first
<1>12. Cardinality(all) \in Nat /\ pruned + Cardinality(all) = last
  BY <1>1, <1>3
<1>13. through \in Nat /\ through >= pruned /\ through + 1 = first
  <2>1. through = pruned + Cardinality(all) - Cardinality(kept)
    BY DEF kept
  <2> HIDE DEF last
  <2>2. pruned \in Nat
    BY <1>1
  <2>3. through = last - (last - first + 1)
    BY <1>10, <1>11, <1>12, <2>1, <2>2
  <2>4. through = first - 1
    BY <1>10, <2>3
  <2> QED BY <1>10, <2>2, <2>4
<1>14. through + Cardinality(kept) = last /\ Cardinality(kept) <= Window
  BY <1>1, <1>10, <1>11, <1>13
<1> QED BY <1>4, <1>5, <1>6, <1>7, <1>9, <1>13, <1>14 DEF kept

LEMMA ProbeTyped ==
  ASSUME ObservationInv, NEW p \in Probers
  PROVE  probe[p] \in Probes
BY DEF ObservationInv, RecordsTyped

(* Steps that record nothing: the queries in hand and the schedule change. *)
LEMMA ProbesKeep ==
  ASSUME ObservationInv, RecordsSame, NEW p \in Probers, NEW row \in Probes,
         probe' = [probe EXCEPT ![p] = row],
         issued' \in Nat, issued' >= issued,
         row.pc = "asking" => row.serial = issued' /\ issued' = issued + 1,
         schedule' = [run |-> schedule'.run, lease |-> schedule'.lease,
                      due |-> schedule'.due, failures |-> schedule'.failures],
         schedule'.failures \in 0..MaxFailures
  PROVE  ObservationInv'
<1>1. UNCHANGED <<applied, latest, events, pruned, contents, ended>>
  BY DEF RecordsSame
<1>2. RecordsTyped'
  BY <1>1 DEF ObservationInv, RecordsTyped
<1>3. probe'[p] = row /\ \A q \in Probers : q # p => probe'[q] = probe[q]
  BY DEF ObservationInv, RecordsTyped
<1>4. SerialsHold'
  <2>1. issued \in Nat /\ DOMAIN ended \subseteq 1..issued
    BY DEF ObservationInv, RecordsTyped, SerialsHold
  <2>2. 1..issued \subseteq 1..issued'
    BY <2>1
  <2>3. row.pc = "asking" => row.serial \in 1..issued' /\ row.serial \notin 1..issued
    BY <2>1
  <2>4. \A q \in Probers : probe'[q].pc = "asking" =>
          probe'[q].serial \in 1..issued' /\ probe'[q].serial \notin DOMAIN ended
    BY <1>3, <2>1, <2>2, <2>3 DEF ObservationInv, SerialsHold
  <2>5. \A q, s \in Probers : probe'[q].pc = "asking" /\ probe'[s].pc = "asking" /\ q # s =>
          probe'[q].serial # probe'[s].serial
    BY <1>3, <2>3 DEF ObservationInv, SerialsHold
  <2> QED BY <1>1, <2>1, <2>2, <2>4, <2>5 DEF SerialsHold
<1>5. LatestWins' /\ EventsHold' /\ latest'.revision = LastEvent'
  BY <1>1 DEF ObservationInv, LatestWins, EventsHold, HistoryIsHonest, Numbers, LastEvent
<1> QED BY <1>2, <1>4, <1>5 DEF ObservationInv

LEMMA NoProbeTyped == NoProbe \in Probes /\ NoProbe.pc = "idle"
BY ObservationAssumption DEF NoProbe, Probes

LEMMA ScheduleTyped ==
  ASSUME ObservationInv
  PROVE  /\ schedule.failures \in 0..MaxFailures /\ issued \in Nat
         /\ schedule = [run |-> schedule.run, lease |-> schedule.lease,
                        due |-> schedule.due, failures |-> schedule.failures]
BY DEF ObservationInv, RecordsTyped

LEMMA ClaimKeeps ==
  ASSUME ObservationInv, NEW o \in Observers, ClaimObserver(o)
  PROVE  ObservationInv'
<1> DEFINE row == [NoProbe EXCEPT !.pc = "claimed", !.failures = schedule.failures]
<1>1. row \in Probes /\ row.pc = "claimed"
  BY NoProbeTyped, ScheduleTyped DEF Probes
<1>2. probe' = [probe EXCEPT ![o] = row] /\ issued' = issued /\ RecordsSame /\ o \in Probers
  BY DEF ClaimObserver, Probers
<1>3. schedule' = [schedule EXCEPT !.run = o, !.lease = Lease]
  BY DEF ClaimObserver
<1>4. schedule' = [run |-> o, lease |-> Lease, due |-> schedule.due, failures |-> schedule.failures]
  BY <1>3, ScheduleTyped
<1>5. /\ schedule'.failures \in 0..MaxFailures
      /\ schedule' = [run |-> schedule'.run, lease |-> schedule'.lease,
                      due |-> schedule'.due, failures |-> schedule'.failures]
  BY <1>4, ScheduleTyped
<1>6. issued' \in Nat /\ issued' >= issued
  BY <1>2, ScheduleTyped
<1> HIDE DEF row
<1> QED BY <1>1, <1>2, <1>5, <1>6, ProbesKeep

LEMMA BeginKeeps ==
  ASSUME ObservationInv, NEW p \in Probers, BeginQuery(p)
  PROVE  ObservationInv'
<1> DEFINE row == [probe[p] EXCEPT !.pc = "asking", !.serial = issued + 1]
<1>1. issued + 1 \in Nat /\ issued \in Nat
  BY ScheduleTyped
<1>2. row \in Probes /\ row.pc = "asking" /\ row.serial = issued + 1
  BY <1>1, ProbeTyped DEF Probes
<1>3. probe' = [probe EXCEPT ![p] = row] /\ issued' = issued + 1 /\ RecordsSame /\ schedule' = schedule
  BY DEF BeginQuery
<1>4. /\ schedule'.failures \in 0..MaxFailures
      /\ schedule' = [run |-> schedule'.run, lease |-> schedule'.lease,
                      due |-> schedule'.due, failures |-> schedule'.failures]
  BY <1>3, ScheduleTyped
<1>5. issued' \in Nat /\ issued' >= issued
  BY <1>1, <1>3
<1> HIDE DEF row
<1> QED BY <1>2, <1>3, <1>4, <1>5, ProbesKeep

LEMMA LoseKeeps ==
  ASSUME ObservationInv, NEW p \in Probers, LoseProbe(p)
  PROVE  ObservationInv'
<1>1. probe' = [probe EXCEPT ![p] = NoProbe] /\ issued' = issued /\ RecordsSame /\ schedule' = schedule
  BY DEF LoseProbe
<1>2. /\ schedule'.failures \in 0..MaxFailures /\ issued' \in Nat /\ issued' >= issued
      /\ schedule' = [run |-> schedule'.run, lease |-> schedule'.lease,
                      due |-> schedule'.due, failures |-> schedule'.failures]
  BY <1>1, ScheduleTyped
<1> QED BY <1>1, <1>2, NoProbeTyped, ProbesKeep

LEMMA FailuresTyped ==
  ASSUME ObservationInv, NEW o \in Observers
  PROVE  FailuresAfter(o) \in 0..MaxFailures
<1>1. o \in Probers
  BY DEF Probers
<1>2. probe[o].failures \in 0..MaxFailures
  BY <1>1, ProbeTyped DEF Probes
<1> QED BY <1>2, ObservationAssumption DEF FailuresAfter, Least

LEMMA FinishKeeps ==
  ASSUME ObservationInv, NEW o \in Observers, FinishObserver(o)
  PROVE  ObservationInv'
<1>1. probe' = [probe EXCEPT ![o] = NoProbe] /\ issued' = issued /\ RecordsSame /\ o \in Probers
  BY DEF FinishObserver, Probers
<1>2. \/ schedule' = schedule
      \/ schedule' = [run |-> NoObserver, lease |-> 0, due |-> Delay(o), failures |-> FailuresAfter(o)]
  BY DEF FinishObserver
<1>3. /\ schedule'.failures \in 0..MaxFailures /\ issued' \in Nat /\ issued' >= issued
      /\ schedule' = [run |-> schedule'.run, lease |-> schedule'.lease,
                      due |-> schedule'.due, failures |-> schedule'.failures]
  BY <1>1, <1>2, ScheduleTyped, FailuresTyped
<1> QED BY <1>1, <1>3, NoProbeTyped, ProbesKeep

LEMMA SecondKeeps == ObservationInv /\ Second => ObservationInv'
<1> SUFFICES ASSUME ObservationInv, Second PROVE ObservationInv'
  OBVIOUS
<1>1. UNCHANGED <<probe, issued, applied, latest, events, pruned, contents, ended>>
  BY DEF Second, RecordsSame
<1>2. PICK lease, due : schedule' = [schedule EXCEPT !.lease = lease, !.due = due]
  BY DEF Second
<1>3. /\ schedule'.failures \in 0..MaxFailures
      /\ schedule' = [run |-> schedule'.run, lease |-> schedule'.lease,
                      due |-> schedule'.due, failures |-> schedule'.failures]
  BY <1>2, ScheduleTyped
<1>4. RecordsTyped'
  BY <1>1, <1>3 DEF ObservationInv, RecordsTyped
<1>5. SerialsHold' /\ LatestWins' /\ EventsHold' /\ latest'.revision = LastEvent'
  BY <1>1 DEF ObservationInv, SerialsHold, LatestWins, EventsHold, HistoryIsHonest, Numbers, LastEvent
<1> QED BY <1>4, <1>5 DEF ObservationInv

(* What finish_printer_query records of an answer that is not late: the    *)
(* history stays whole and can be resolved.                                *)
LEMMA RecordKeepsHistory ==
  ASSUME ObservationInv, NEW serial \in Nat, NEW failure \in Failures, NEW snapshot \in MaybeReports,
         failure # "none" => snapshot = latest.snapshot,
         ~Late(serial), Record(serial, failure, snapshot)
  PROVE  /\ pruned' >= pruned /\ LastEvent' >= LastEvent
         /\ EventsHold' /\ latest'.revision = LastEvent'
         /\ latest' \in [snapshot : MaybeReports, failure : Failures, revision : Nat]
         /\ latest'.failure = failure /\ latest'.snapshot = snapshot
         /\ contents' \subseteq Reports
<1> DEFINE changed == latest.revision = 0 \/ latest.failure # failure \/ latest.snapshot # snapshot
           event == [sequence |-> LastEvent + 1, snapshot |-> snapshot, kind |-> Kind(failure)]
           all == events \cup {event}
           known == contents \cup ({snapshot} \ {NoSnapshot})
           body == [snapshot |-> snapshot, failure |-> failure,
                    revision |-> latest.revision + IF changed THEN 1 ELSE 0]
<1>0. /\ latest \in [snapshot : MaybeReports, failure : Failures, revision : Nat]
      /\ latest.revision \in Nat /\ contents \subseteq Reports
      /\ latest.revision = LastEvent /\ LastEvent \in Nat /\ EventsHold
      /\ {e.snapshot : e \in events} \cup {latest.snapshot} \subseteq contents \cup {NoSnapshot}
  BY DEF ObservationInv, RecordsTyped, EventsHold, HistoryIsHonest
<1>1. latest' = body
  BY DEF Record
<1>2. /\ latest' \in [snapshot : MaybeReports, failure : Failures, revision : Nat]
      /\ latest'.failure = failure /\ latest'.snapshot = snapshot
      /\ latest'.revision = latest.revision + IF changed THEN 1 ELSE 0
  <2> HIDE DEF changed
  <2> QED BY <1>0, <1>1
<1>3. known \subseteq Reports /\ snapshot \in known \cup {NoSnapshot} /\ contents \subseteq known
  BY <1>0 DEF MaybeReports
<1>4. CASE ~changed
  <2>1. UNCHANGED <<events, pruned>> /\ contents' = known
    BY <1>4 DEF Record
  <2>2. Numbers' = Numbers /\ LastEvent' = LastEvent
    BY <2>1 DEF Numbers, LastEvent
  <2>3. latest'.revision = LastEvent'
    BY <1>0, <1>2, <1>4, <2>2
  <2>4. EventsHold'
    <3> HIDE DEF changed
    <3> QED BY <1>0, <1>2, <1>3, <2>1, <2>2 DEF EventsHold, HistoryIsHonest
  <2> QED BY <1>0, <1>2, <1>3, <2>1, <2>2, <2>3, <2>4 DEF EventsHold
<1>5. CASE changed
  <2>1. /\ events' = Trimmed(all)
        /\ pruned' = pruned + Cardinality(all) - Cardinality(Trimmed(all))
        /\ contents' = IF Trimmed(all) = all THEN known ELSE known \cap Needed(Trimmed(all), snapshot)
    BY <1>5 DEF Record
  <2>2. event.sequence = LastEvent + 1 /\ event.snapshot = snapshot
    OBVIOUS
  <2> HIDE DEF event
  <2>3. /\ Trimmed(all) \subseteq all /\ IsFiniteSet(events') /\ pruned' \in Nat /\ pruned' >= pruned
        /\ \A e \in all : e.sequence \in Nat
        /\ \A e, f \in all : e.sequence = f.sequence => e = f
        /\ {e.sequence : e \in Trimmed(all)} = pruned' + 1 .. LastEvent + 1
        /\ pruned' + Cardinality(events') = LastEvent + 1 /\ Cardinality(events') <= Window
    BY <1>0, <2>1, <2>2, WindowMoves
  <2>4. LastEvent' = LastEvent + 1 /\ Numbers' = pruned' + 1 .. LastEvent'
    BY <2>1, <2>3 DEF LastEvent, Numbers
  <2>5. latest'.revision = LastEvent'
    BY <1>0, <1>2, <1>5, <2>4
  <2>6. {e.snapshot : e \in events'} \cup {latest'.snapshot} \subseteq contents' \cup {NoSnapshot}
    <3>1. {e.snapshot : e \in all} \cup {snapshot} \subseteq known \cup {NoSnapshot}
      BY <1>0, <1>3, <2>2
    <3> HIDE DEF all, known
    <3>2. {e.snapshot : e \in Trimmed(all)} \cup {snapshot} \subseteq known \cup {NoSnapshot}
      BY <2>3, <3>1
    <3> QED BY <1>2, <2>1, <3>2 DEF Needed
  <2>7. contents' \subseteq Reports
    <3> HIDE DEF all, known
    <3> QED BY <1>3, <2>1
  <2>8. EventsHold'
    <3>1. \A e \in events' : e \in all
      BY <2>1, <2>3
    <3> QED BY <2>3, <2>4, <2>6, <3>1 DEF EventsHold, HistoryIsHonest
  <2> QED BY <1>0, <1>2, <2>3, <2>4, <2>5, <2>7, <2>8
<1> QED BY <1>4, <1>5

LEMMA EndKeeps ==
  ASSUME ObservationInv, NEW p \in Probers, EndQuery(p)
  PROVE  ObservationInv'
<1> DEFINE serial == probe[p].serial
<1>1. PICK failure \in QueryFailure \cup {"none"}, seen \in Reports :
       /\ Record(serial, failure, IF failure = "none" THEN seen ELSE latest.snapshot)
       /\ ended' = [n \in DOMAIN ended \cup {serial} |->
                      IF n = serial THEN [failure |-> failure, snapshot |-> seen] ELSE ended[n]]
       /\ probe' = [probe EXCEPT ![p] = IF p \in Clients THEN NoProbe
                      ELSE [@ EXCEPT !.pc = "finish", !.success = (failure = "none")]]
  BY DEF EndQuery
<1> DEFINE snapshot == IF failure = "none" THEN seen ELSE latest.snapshot
           row == IF p \in Clients THEN NoProbe
                  ELSE [probe[p] EXCEPT !.pc = "finish", !.success = (failure = "none")]
<1>2. probe[p].pc = "asking" /\ UNCHANGED <<schedule, issued>>
  BY DEF EndQuery
<1>3. /\ serial \in 1..issued /\ serial \in Nat /\ serial > 0 /\ serial \notin DOMAIN ended
      /\ \A q \in Probers : probe[q].pc = "asking" /\ q # p => probe[q].serial # serial
      /\ issued \in Nat /\ applied \in Nat
  BY <1>2 DEF ObservationInv, SerialsHold, RecordsTyped
<1>4. row \in Probes /\ row.pc # "asking"
  <2>1. [probe[p] EXCEPT !.pc = "finish", !.success = (failure = "none")] \in Probes
        /\ [probe[p] EXCEPT !.pc = "finish", !.success = (failure = "none")].pc = "finish"
    BY ProbeTyped DEF Probes
  <2> QED BY <2>1, NoProbeTyped
<1>5. probe' = [probe EXCEPT ![p] = row]
  BY <1>1
<1>6. /\ probe'[p] = row /\ \A q \in Probers : q # p => probe'[q] = probe[q]
      /\ probe' \in [Probers -> Probes]
  <2> HIDE DEF row
  <2> QED BY <1>4, <1>5 DEF ObservationInv, RecordsTyped
<1>7. /\ DOMAIN ended' = DOMAIN ended \cup {serial}
      /\ ended'[serial] = [failure |-> failure, snapshot |-> seen]
      /\ \A n \in DOMAIN ended : ended'[n] = ended[n]
  BY <1>1, <1>3
<1>8. snapshot \in MaybeReports /\ failure \in Failures /\ (failure # "none" => snapshot = latest.snapshot)
  BY DEF MaybeReports, Failures, ObservationInv, RecordsTyped
<1>9. Record(serial, failure, snapshot)
  BY <1>1
<1> HIDE DEF row
<1>10. SerialsHold'
  <2>1. \A q \in Probers : probe'[q].pc = "asking" => q # p /\ probe'[q] = probe[q]
    BY <1>4, <1>6
  <2> HIDE DEF serial
  <2>2. DOMAIN ended' \subseteq 1..issued'
    BY <1>2, <1>3, <1>7 DEF ObservationInv, SerialsHold
  <2>3. \A q \in Probers : probe'[q].pc = "asking" =>
          probe'[q].serial \in 1..issued' /\ probe'[q].serial \notin DOMAIN ended'
    BY <1>2, <1>3, <1>7, <2>1 DEF ObservationInv, SerialsHold
  <2>4. \A q, s \in Probers : probe'[q].pc = "asking" /\ probe'[s].pc = "asking" /\ q # s =>
          probe'[q].serial # probe'[s].serial
    BY <2>1 DEF ObservationInv, SerialsHold
  <2> QED BY <2>2, <2>3, <2>4 DEF SerialsHold
<1> HIDE DEF serial, snapshot
<1>11. CASE Late(serial)
  <2>1. UNCHANGED <<applied, latest, events, pruned, contents>>
    BY <1>9, <1>11 DEF Record
  <2>2. RecordsTyped'
    BY <1>2, <1>6, <2>1 DEF ObservationInv, RecordsTyped
  <2>3. DOMAIN ended # {}
    BY <1>3, <1>11 DEF Late, ObservationInv, LatestWins
  <2>4. LatestWins'
    BY <1>3, <1>7, <1>11, <2>1, <2>3 DEF Late, ObservationInv, LatestWins
  <2>5. EventsHold' /\ latest'.revision = LastEvent'
    BY <2>1 DEF ObservationInv, EventsHold, HistoryIsHonest, Numbers, LastEvent
  <2> QED BY <1>10, <2>2, <2>4, <2>5 DEF ObservationInv
<1>12. CASE ~Late(serial)
  <2>1. /\ EventsHold' /\ latest'.revision = LastEvent'
        /\ latest' \in [snapshot : MaybeReports, failure : Failures, revision : Nat]
        /\ latest'.failure = failure /\ latest'.snapshot = snapshot
        /\ contents' \subseteq Reports
    BY <1>3, <1>8, <1>9, <1>12, RecordKeepsHistory
  <2>2. applied' = serial /\ applied < serial
    BY <1>3, <1>9, <1>12 DEF Record, Late
  <2>3. RecordsTyped'
    BY <1>2, <1>3, <1>6, <2>1, <2>2 DEF ObservationInv, RecordsTyped
  <2>4. LatestWins'
    <3>1. serial \in DOMAIN ended' /\ ended'[serial].failure = failure /\ ended'[serial].snapshot = seen
      BY <1>7
    <3>2. \A n \in DOMAIN ended' : n <= serial
      <4>1. \A n \in DOMAIN ended : n <= applied /\ n \in Nat
        BY <1>3 DEF ObservationInv, LatestWins, SerialsHold
      <4> QED BY <1>3, <1>7, <2>2, <4>1
    <3>3. failure = "none" => snapshot = seen
      BY DEF snapshot
    <3> QED BY <2>1, <2>2, <3>1, <3>2, <3>3 DEF LatestWins
  <2> QED BY <1>10, <2>1, <2>3, <2>4 DEF ObservationInv
<1> QED BY <1>11, <1>12

LEMMA ObservationStepKeeps == ObservationInv /\ [ObservationNext]_observationVars => ObservationInv'
<1>1. ObservationInv /\ UNCHANGED observationVars => ObservationInv'
  BY DEF ObservationInv, RecordsTyped, SerialsHold, LatestWins, EventsHold, HistoryIsHonest, Numbers,
         LastEvent, observationVars
<1> QED BY <1>1, ClaimKeeps, FinishKeeps, BeginKeeps, EndKeeps, LoseKeeps, SecondKeeps DEF ObservationNext

(* printer_observation.rs: for any number of observers, clients and reports *)
(* and any window, the latest report is that of the query that began last   *)
(* among those that ended, and the history is whole and can be resolved.    *)
THEOREM ObservationsAreTrue == ObservationSpec => []ObservationIsTrue
<1>1. ObservationSpec => []ObservationInv
  BY ObservationInitHolds, ObservationStepKeeps, PTL DEF ObservationSpec
<1>2. ObservationInv => ObservationIsTrue
  BY DEF ObservationInv, EventsHold, ObservationIsTrue
<1> QED BY <1>1, <1>2, PTL

(* printer_observation.rs: a reader that polls never sees the record of a   *)
(* printer go back: the query shown, its revision, the number of the last  *)
(* event and the mark of what was pruned only grow.                        *)
RecordMovesOn ==
  /\ applied' >= applied /\ latest'.revision >= latest.revision
  /\ LastEvent' >= LastEvent /\ pruned' >= pruned

(* No query, however late it ends, and no pruning takes the record of a     *)
(* printer back, for any number of observers and clients.                   *)
THEOREM RecordsMoveOn == ObservationSpec => [][RecordMovesOn]_observationVars
<1>1. ASSUME ObservationInv, ObservationNext PROVE RecordMovesOn
  <2>0. applied \in Nat /\ pruned \in Nat /\ LastEvent \in Nat /\ latest.revision = LastEvent
        /\ issued \in Nat
    BY <1>1, FS_CardinalityType DEF ObservationInv, RecordsTyped, EventsHold, LastEvent
  <2>1. CASE UNCHANGED <<applied, latest, events, pruned>>
    BY <2>0, <2>1 DEF RecordMovesOn, LastEvent
  <2>2. ASSUME NEW p \in Probers, EndQuery(p) PROVE RecordMovesOn
    <3>1. PICK failure \in QueryFailure \cup {"none"}, seen \in Reports :
            Record(probe[p].serial, failure, IF failure = "none" THEN seen ELSE latest.snapshot)
      BY <2>2 DEF EndQuery
    <3> DEFINE serial == probe[p].serial
               snapshot == IF failure = "none" THEN seen ELSE latest.snapshot
    <3>2. snapshot \in MaybeReports /\ failure \in Failures /\ (failure # "none" => snapshot = latest.snapshot)
      BY <1>1 DEF MaybeReports, Failures, ObservationInv, RecordsTyped
    <3>3. serial \in Nat
      BY <1>1, <2>0, <2>2 DEF EndQuery, ObservationInv, SerialsHold
    <3>4. Record(serial, failure, snapshot)
      BY <3>1
    <3> HIDE DEF serial, snapshot
    <3>5. CASE Late(serial)
      BY <2>1, <3>4, <3>5 DEF Record
    <3>6. CASE ~Late(serial)
      <4>1. pruned' >= pruned /\ LastEvent' >= LastEvent /\ latest'.revision = LastEvent'
        BY <1>1, <3>2, <3>3, <3>4, <3>6, RecordKeepsHistory
      <4>2. applied' = serial /\ applied < serial
        BY <2>0, <3>3, <3>4, <3>6 DEF Record, Late
      <4> QED BY <2>0, <3>3, <4>1, <4>2 DEF RecordMovesOn
    <3> QED BY <3>5, <3>6
  <2>3. UNCHANGED <<applied, latest, events, pruned>> \/ \E p \in Probers : EndQuery(p)
    BY <1>1 DEF ObservationNext, ClaimObserver, FinishObserver, BeginQuery, LoseProbe, Second, RecordsSame
  <2> QED BY <2>1, <2>2, <2>3
<1>2. ObservationInv /\ [ObservationNext]_observationVars => [RecordMovesOn]_observationVars
  BY <1>1
<1>3. ObservationSpec => []ObservationInv
  BY ObservationInitHolds, ObservationStepKeeps, PTL DEF ObservationSpec
<1> QED BY <1>2, <1>3, PTL DEF ObservationSpec

-----------------------------------------------------------------------------
(* The event log and the streams that read it. *)

LEMMA LeastNumber ==
  ASSUME NEW S \in SUBSET Nat, S # {}
  PROVE  \E least \in S : \A n \in S : least <= n
<1> DEFINE less == OpToRel(<, Nat)
<1>1. PICK least \in S : \A n \in S : <<n, least>> \notin less
  BY NatLessThanWellFounded, WFMin
<1>2. \A n \in S : ~(n < least)
  BY <1>1 DEF OpToRel
<1>3. \A n \in S : n \in Nat
  OBVIOUS
<1>4. \A n \in S : least <= n
  <2> SUFFICES ASSUME NEW n \in S PROVE least <= n
    OBVIOUS
  <2>1. n \in Nat /\ least \in Nat /\ ~(n < least)
    BY <1>2, <1>3
  <2> QED BY <2>1
<1> QED BY <1>4

Listing(numbers, q) == q \in [1..Cardinality(numbers) -> numbers] /\ Ascends(q)

(* Finitely many numbers can be listed in their order. *)
LEMMA CanBeListed ==
  ASSUME NEW last \in Nat, NEW numbers \in SUBSET (1..last)
  PROVE  \E q : Listing(numbers, q)
<1> DEFINE Bad == {n \in Nat : \E T \in SUBSET (1..last) : Cardinality(T) = n /\ \A q : ~Listing(T, q)}
<1>1. \A T \in SUBSET (1..last) : IsFiniteSet(T) /\ Cardinality(T) \in Nat
  <2>1. 1 \in Int /\ last \in Int
    OBVIOUS
  <2>2. IsFiniteSet(1..last)
    BY <2>1, FS_Interval
  <2> QED BY <2>2, FS_Subset, FS_CardinalityType
<1>2. SUFFICES ASSUME Bad # {} PROVE FALSE
  BY <1>1
<1>3. PICK n \in Bad : \A m \in Bad : n <= m
  BY <1>2, LeastNumber
<1>4. PICK T \in SUBSET (1..last) : Cardinality(T) = n /\ \A q : ~Listing(T, q)
  BY <1>3
<1>5. T # {}
  <2> SUFFICES ASSUME T = {} PROVE FALSE
    OBVIOUS
  <2>1. Cardinality(T) = 0
    BY FS_EmptySet
  <2>2. Listing(T, <<>>)
    BY <2>1 DEF Listing, Ascends
  <2> QED BY <1>4, <2>2
<1>6. PICK top \in T : \A m \in T : m <= top
  <2> DEFINE Above == {m \in Nat : \A x \in T : x <= m}
  <2>1. last \in Above
    OBVIOUS
  <2>2. PICK least \in Above : \A m \in Above : least <= m
    BY <2>1, LeastNumber
  <2>3. least \in T
    <3> SUFFICES ASSUME least \notin T PROVE FALSE
      OBVIOUS
    <3>1. \A x \in T : x \in Nat /\ x < least
      BY <2>2
    <3>2. least - 1 \in Above
      <4>1. least \in Nat /\ \E x \in T : x \in Nat /\ x < least
        BY <1>5, <2>2, <3>1
      <4>2. least - 1 \in Nat /\ \A x \in T : x <= least - 1
        BY <3>1, <4>1
      <4> QED BY <4>2
    <3> QED BY <2>2, <3>2
  <2> QED BY <2>2, <2>3
<1> DEFINE U == T \ {top}
<1>7. U \in SUBSET (1..last) /\ Cardinality(U) = n - 1 /\ n \in Nat /\ n > 0 /\ T \in SUBSET Nat
  <2>1. IsFiniteSet(T) /\ Cardinality(U) = Cardinality(T) - 1
    BY <1>1, FS_RemoveElement
  <2>2. Cardinality(U) \in Nat /\ U \in SUBSET (1..last)
    BY <1>1
  <2> QED BY <1>1, <1>4, <2>1, <2>2
<1>8. PICK q : Listing(U, q)
  <2>1. n - 1 \in Nat /\ n - 1 \notin Bad
    BY <1>3, <1>7
  <2> HIDE DEF U
  <2> QED BY <1>7, <2>1
<1> DEFINE p == [i \in 1..n |-> IF i = n THEN top ELSE q[i]]
<1>9. q \in [1..(n - 1) -> U] /\ Ascends(q)
  BY <1>7, <1>8 DEF Listing
<1>10. p \in [1..n -> T]
  <2>1. \A i \in 1..n : i = n \/ i \in 1..(n - 1)
    BY <1>7
  <2> QED BY <1>9, <2>1
<1>11. Ascends(p)
  <2> SUFFICES ASSUME NEW i \in 1..n, NEW k \in 1..n, i < k PROVE p[i] < p[k]
    BY DEF Ascends
  <2>1. i \in 1..(n - 1) /\ p[i] = q[i] /\ q[i] \in U
    BY <1>7, <1>9
  <2>2. CASE k = n
    <3>1. q[i] \in T /\ q[i] # top /\ q[i] \in Nat /\ top \in Nat /\ q[i] <= top
      BY <1>6, <1>7, <2>1
    <3> QED BY <2>1, <2>2, <3>1
  <2>3. CASE k # n
    <3>1. k \in 1..(n - 1) /\ p[k] = q[k]
      BY <1>7, <2>3
    <3> QED BY <1>9, <2>1, <3>1 DEF Ascends
  <2> QED BY <2>2, <2>3
<1>12. Listing(T, p)
  BY <1>4, <1>10, <1>11 DEF Listing
<1> QED BY <1>4, <1>12

(* Such a listing leaves no number out. *)
LEMMA ListsAll ==
  ASSUME NEW numbers \in SUBSET Nat, IsFiniteSet(numbers), NEW q, Listing(numbers, q)
  PROVE  \A n \in numbers : \E i \in DOMAIN q : q[i] = n
<1> DEFINE places == 1..Cardinality(numbers)
<1>1. Cardinality(numbers) \in Nat
  BY FS_CardinalityType
<1>2. q \in [places -> numbers] /\ \A i, k \in places : q[i] = q[k] => i = k
  <2>1. q \in [places -> numbers] /\ \A i, k \in places : i < k => q[i] < q[k]
    BY DEF Listing, Ascends
  <2>2. \A i \in places : q[i] \in Nat
    <3> HIDE DEF places
    <3> QED BY <2>1
  <2>3. \A i \in places : i \in Nat
    BY <1>1
  <2>4. ASSUME NEW i \in places, NEW k \in places, q[i] = q[k] PROVE i = k
    <3>1. ~(i < k) /\ ~(k < i)
      BY <2>1, <2>2, <2>4
    <3> QED BY <2>3, <3>1
  <2> QED BY <2>1, <2>4
<1>3. q \in Injection(places, numbers)
  BY <1>2, Fun_IsInj
<1>4. Cardinality(places) = Cardinality(numbers)
  BY <1>1, FS_Interval
<1>5. q \in Surjection(places, numbers)
  BY <1>3, <1>4, FS_Injection
<1> QED BY <1>5, Fun_SurjectionProperties

LEMMA ElementTyped ==
  ASSUME NEW S, NEW q \in Seq(S), NEW i \in DOMAIN q
  PROVE  q[i] \in S
OBVIOUS

(* A page: rows behind the cursor in their order, from the first on. *)
LEMMA PageIsNext ==
  ASSUME feed \in Seq(BOOLEAN), NEW after \in Nat
  PROVE  /\ Page(after) \in Seq(Behind(after)) /\ Ascends(Page(after)) /\ Len(Page(after)) <= PageLimit
         /\ \A i \in DOMAIN Page(after), n \in Behind(after) :
              n <= Page(after)[i] => \E k \in DOMAIN Page(after) : Page(after)[k] = n
<1> DEFINE numbers == Behind(after)
           rows == InOrder(numbers)
           size == IF Len(rows) < PageLimit THEN Len(rows) ELSE PageLimit
<1>1. Len(feed) \in Nat /\ numbers \in SUBSET (1..Len(feed))
  BY DEF Behind
<1>2. IsFiniteSet(numbers) /\ Cardinality(numbers) \in Nat /\ numbers \in SUBSET Nat
  <2>1. 1 \in Int /\ Len(feed) \in Int
    BY <1>1
  <2>2. IsFiniteSet(1..Len(feed))
    BY <2>1, FS_Interval
  <2> HIDE DEF numbers
  <2>3. IsFiniteSet(numbers) /\ Cardinality(numbers) \in Nat
    BY <1>1, <2>2, FS_Subset, FS_CardinalityType
  <2>4. 1..Len(feed) \in SUBSET Nat
    BY <1>1
  <2> QED BY <1>1, <2>3, <2>4
<1> HIDE DEF numbers
<1>3. Listing(numbers, rows)
  <2>1. \E q : Listing(numbers, q)
    BY <1>1, CanBeListed
  <2> QED BY <2>1 DEF Listing, InOrder
<1>4. \A n \in numbers : \E i \in DOMAIN rows : rows[i] = n
  <2> HIDE DEF rows
  <2> QED BY <1>2, <1>3, ListsAll
<1>5. Page(after) = SubSeq(rows, 1, size)
  BY DEF Page, numbers
<1> HIDE DEF rows
<1>6. rows \in Seq(numbers) /\ Len(rows) = Cardinality(numbers) /\ Ascends(rows)
  BY <1>2, <1>3 DEF Listing
<1>7. size \in 0..Len(rows) /\ size <= PageLimit /\ Len(rows) \in Nat /\ size \in Nat
  BY <1>6, FeedAssumption
<1> HIDE DEF size
<1>8. /\ Page(after) \in Seq(numbers) /\ Len(Page(after)) = size
      /\ \A i \in 1..size : Page(after)[i] = rows[i]
  BY <1>5, <1>6, <1>7
<1>9. DOMAIN Page(after) = 1..size /\ DOMAIN rows = 1..Len(rows)
  BY <1>6, <1>7, <1>8
<1>10. \A i \in 1..size : i \in DOMAIN rows
  BY <1>7, <1>9
<1>11. Ascends(Page(after))
  BY <1>6, <1>8, <1>9, <1>10 DEF Ascends
<1>12. ASSUME NEW i \in DOMAIN Page(after), NEW n \in numbers, n <= Page(after)[i]
       PROVE  \E k \in DOMAIN Page(after) : Page(after)[k] = n
  <2>1. PICK k \in DOMAIN rows : rows[k] = n
    BY <1>4
  <2>2. rows[k] <= rows[i] /\ rows[k] \in Nat /\ rows[i] \in Nat /\ i \in 1..size
    <3>1. i \in 1..size /\ i \in DOMAIN rows /\ Page(after)[i] = rows[i]
      BY <1>8, <1>9, <1>10
    <3>2. rows[i] \in numbers /\ rows[k] \in numbers
      BY <1>6, <2>1, <3>1, ElementTyped
    <3> QED BY <1>2, <1>12, <2>1, <3>1, <3>2
  <2>3. ~(i < k)
    BY <1>6, <1>9, <1>10, <2>2 DEF Ascends
  <2>4. k \in 1..size
    BY <1>7, <1>9, <2>2, <2>3
  <2> QED BY <1>8, <1>9, <2>1, <2>4
<1> QED BY <1>7, <1>8, <1>11, <1>12 DEF numbers

----------------------------------------------------------------------------
Elements(q) == {q[i] : i \in DOMAIN q}
Streams == [open : BOOLEAN, after : Nat, events : Seq(Nat), more : BOOLEAN, sent : Seq(Nat)]

LEMMA AppendedElements ==
  ASSUME NEW q \in Seq(Nat), NEW n \in Nat, Ascends(q), \A m \in Elements(q) : m < n
  PROVE  Append(q, n) \in Seq(Nat) /\ Elements(Append(q, n)) = Elements(q) \cup {n} /\ Ascends(Append(q, n))
<1> DEFINE p == Append(q, n)
<1>1. /\ p \in Seq(Nat) /\ Len(p) = Len(q) + 1 /\ Len(q) \in Nat /\ p[Len(q) + 1] = n
      /\ \A i \in 1..Len(q) : p[i] = q[i]
      /\ DOMAIN p = 1..(Len(q) + 1) /\ DOMAIN q = 1..Len(q)
  OBVIOUS
<1> HIDE DEF p
<1>2. \A i \in DOMAIN p : i \in DOMAIN q \/ i = Len(q) + 1
  BY <1>1
<1>3. Elements(p) = Elements(q) \cup {n}
  <2>1. \A m \in Elements(p) : m \in Elements(q) \cup {n}
    BY <1>1, <1>2 DEF Elements
  <2>2. \A m \in Elements(q) : m \in Elements(p)
    BY <1>1 DEF Elements
  <2>3. n \in Elements(p)
    BY <1>1 DEF Elements
  <2> QED BY <2>1, <2>2, <2>3
<1>4. Ascends(p)
  <2> SUFFICES ASSUME NEW i \in DOMAIN p, NEW k \in DOMAIN p, i < k PROVE p[i] < p[k]
    BY DEF Ascends
  <2>1. i \in DOMAIN q /\ p[i] = q[i] /\ q[i] \in Elements(q)
    BY <1>1, <1>2 DEF Elements
  <2>2. k \in DOMAIN q \/ k = Len(q) + 1
    BY <1>2
  <2> QED BY <1>1, <2>1, <2>2 DEF Ascends
<1> QED BY <1>1, <1>3, <1>4 DEF p

LEMMA TailElements ==
  ASSUME NEW q \in Seq(Nat), q # <<>>, Ascends(q)
  PROVE  /\ Head(q) \in Nat /\ Tail(q) \in Seq(Nat) /\ Ascends(Tail(q)) /\ Len(Tail(q)) = Len(q) - 1
         /\ Elements(q) = {Head(q)} \cup Elements(Tail(q))
         /\ \A m \in Elements(Tail(q)) : Head(q) < m
<1> DEFINE p == Tail(q)
<1>1. /\ p \in Seq(Nat) /\ Len(p) = Len(q) - 1 /\ Len(q) \in Nat /\ Len(q) > 0 /\ Head(q) = q[1] /\ Head(q) \in Nat
      /\ \A i \in 1..Len(p) : p[i] = q[i + 1]
      /\ DOMAIN p = 1..Len(p) /\ DOMAIN q = 1..Len(q)
  OBVIOUS
<1> HIDE DEF p
<1>2. \A i \in DOMAIN p : i \in Nat /\ i + 1 \in DOMAIN q /\ 1 < i + 1 /\ p[i] = q[i + 1]
  BY <1>1
<1>3. ASSUME NEW i \in DOMAIN q, i # 1 PROVE \E j \in DOMAIN p : p[j] = q[i]
  <2>1. i \in Nat /\ i - 1 \in 1..Len(p) /\ (i - 1) + 1 = i
    BY <1>1, <1>3
  <2>2. p[i - 1] = q[(i - 1) + 1] /\ i - 1 \in DOMAIN p
    BY <1>1, <2>1
  <2> QED BY <2>1, <2>2
<1>4. 1 \in DOMAIN q
  BY <1>1
<1>5. Elements(q) = {Head(q)} \cup Elements(p)
  <2>1. \A m \in Elements(p) : m \in Elements(q)
    BY <1>2 DEF Elements
  <2>2. \A m \in Elements(q) : m = Head(q) \/ m \in Elements(p)
    <3> SUFFICES ASSUME NEW i \in DOMAIN q PROVE q[i] = Head(q) \/ q[i] \in Elements(p)
      BY DEF Elements
    <3> QED BY <1>1, <1>3 DEF Elements
  <2>3. Head(q) \in Elements(q)
    BY <1>1, <1>4 DEF Elements
  <2> QED BY <2>1, <2>2, <2>3
<1>6. Ascends(p)
  <2> SUFFICES ASSUME NEW i \in DOMAIN p, NEW k \in DOMAIN p, i < k PROVE p[i] < p[k]
    BY DEF Ascends
  <2>1. i + 1 < k + 1
    <3>1. i \in Nat /\ k \in Nat
      BY <1>2
    <3> QED BY <3>1
  <2>2. q[i + 1] < q[k + 1]
    BY <1>2, <2>1 DEF Ascends
  <2> QED BY <1>2, <2>2
<1>7. ASSUME NEW m \in Elements(p) PROVE Head(q) < m
  <2>1. PICK i \in DOMAIN p : p[i] = m
    BY DEF Elements
  <2>2. q[1] < q[i + 1]
    BY <1>2, <1>4 DEF Ascends
  <2> QED BY <1>1, <1>2, <2>1, <2>2
<1> QED BY <1>1, <1>5, <1>6, <1>7 DEF p

LEMMA EmptyElements == Elements(<<>>) = {} /\ Ascends(<<>>) /\ <<>> \in Seq(Nat)
BY DEF Elements, Ascends

(* What a follower has, what is on its way to it, and what was read for it  *)
(* follow each other in the log and leave nothing out, up to the cursor    *)
(* and up to what was read.                                                *)
Follows(got, sent, read) ==
  /\ Ascends(got) /\ Ascends(sent) /\ Ascends(read)
  /\ Elements(got) \cup Elements(sent) \cup Elements(read) \subseteq Behind(0)
  /\ \A m \in Elements(got) : \A n \in Elements(sent) \cup Elements(read) : m < n
  /\ \A m \in Elements(sent), n \in Elements(read) : m < n
  /\ \A m \in Elements(got) \cup Elements(sent) \cup Elements(read), n \in Behind(0) :
       n <= m => n \in Elements(got) \cup Elements(sent) \cup Elements(read)

CursorHolds(got, sent, read, after) ==
  /\ after <= Len(feed)
  /\ \A m \in Elements(got) \cup Elements(sent) : m <= after
  /\ \A m \in Elements(read) : after < m
  /\ \A n \in Behind(0) : n <= after => n \in Elements(got) \cup Elements(sent)

FeedInv ==
  /\ feed \in Seq(BOOLEAN) /\ Len(feed) <= MaxEvents /\ imported \in 0..MaxEvents
  /\ received \in [Followers -> Seq(Nat)] /\ stream \in [Followers -> Streams]
  /\ \A f \in Followers :
       /\ Len(stream[f].events) <= PageLimit
       /\ ~stream[f].open => stream[f].events = <<>>
       /\ Follows(received[f], stream[f].sent, stream[f].events)
       /\ stream[f].open => CursorHolds(received[f], stream[f].sent, stream[f].events, stream[f].after)

LEMMA FeedInvImplies == FeedInv => FeedTypeOK /\ EachEventOnce
<1> SUFFICES ASSUME FeedInv PROVE FeedTypeOK /\ EachEventOnce
  OBVIOUS
<1>1. ASSUME NEW f \in Followers, NEW i \in DOMAIN received[f]
      PROVE  received[f][i] \in Behind(0) /\ received[f][i] \in DOMAIN feed
  BY DEF FeedInv, Follows, Elements, Behind
<1>2. ASSUME NEW f \in Followers, NEW i \in DOMAIN received[f], NEW n \in Behind(0), n <= received[f][i]
      PROVE  \E k \in DOMAIN received[f] : received[f][k] = n
  <2> DEFINE got == Elements(received[f])
             rest == Elements(stream[f].sent) \cup Elements(stream[f].events)
  <2>1. received[f][i] \in got
    BY DEF Elements
  <2>2. n \in got \cup rest /\ \A m \in rest : received[f][i] < m
    BY <1>2, <2>1 DEF FeedInv, Follows
  <2>3. n \in Nat /\ received[f][i] \in Nat
    BY <1>1 DEF Behind, FeedInv
  <2>4. n \in got
    BY <1>2, <2>2, <2>3
  <2> QED BY <2>4 DEF Elements
<1>3. \A f \in Followers : Ascends(received[f])
  BY DEF FeedInv, Follows
<1>4. FeedTypeOK
  BY <1>1 DEF FeedInv, FeedTypeOK, Streams
<1> QED BY <1>1, <1>2, <1>3, <1>4 DEF EachEventOnce

LEMMA FeedInitHolds == FeedInit => FeedInv
<1> SUFFICES ASSUME FeedInit PROVE FeedInv
  OBVIOUS
<1>1. NoStream \in Streams /\ NoStream.sent = <<>> /\ NoStream.events = <<>> /\ ~NoStream.open
  BY EmptyElements DEF NoStream, Streams
<1>2. Follows(<<>>, <<>>, <<>>)
  BY EmptyElements DEF Follows
<1>3. received \in [Followers -> Seq(Nat)] /\ stream \in [Followers -> Streams]
  BY <1>1, EmptyElements DEF FeedInit
<1>4. \A f \in Followers : received[f] = <<>> /\ stream[f] = NoStream
  BY DEF FeedInit
<1>5. feed \in Seq(BOOLEAN) /\ Len(feed) = 0 /\ imported = 0
  BY DEF FeedInit
<1> HIDE DEF FeedInit
<1>6. Len(NoStream.events) <= PageLimit
  BY <1>1, FeedAssumption
<1> QED BY <1>1, <1>2, <1>3, <1>4, <1>5, <1>6, FeedAssumption DEF FeedInv

(* The last of ascending numbers is the largest. *)
LEMMA LastIsLargest ==
  ASSUME NEW q \in Seq(Nat), q # <<>>, Ascends(q)
  PROVE  Last(q) \in Elements(q) /\ \A m \in Elements(q) : m <= Last(q)
<1>1. Len(q) \in Nat /\ Len(q) \in DOMAIN q /\ Last(q) = q[Len(q)] /\ DOMAIN q = 1..Len(q)
  BY DEF Last
<1>2. ASSUME NEW i \in DOMAIN q PROVE q[i] <= q[Len(q)]
  <2>1. q[i] \in Nat /\ q[Len(q)] \in Nat
    BY <1>1, ElementTyped
  <2>2. i = Len(q) \/ i < Len(q)
    BY <1>1
  <2>3. i < Len(q) => q[i] < q[Len(q)]
    BY <1>1 DEF Ascends
  <2> QED BY <2>1, <2>2, <2>3
<1> QED BY <1>1, <1>2 DEF Elements

LEMMA ElementsAreNumbers == ASSUME NEW q \in Seq(Nat) PROVE Elements(q) \in SUBSET Nat
BY ElementTyped DEF Elements

(* Events only come to the log. *)
LEMMA LogGrows ==
  ASSUME FeedInv, feed' \in Seq(BOOLEAN), Len(feed) <= Len(feed'), Len(feed') <= MaxEvents,
         \A n \in DOMAIN feed : feed'[n] = feed[n], imported' \in 0..MaxEvents,
         UNCHANGED <<received, stream>>
  PROVE  FeedInv'
<1>1. Len(feed) \in Nat /\ Len(feed') \in Nat /\ DOMAIN feed = 1..Len(feed) /\ DOMAIN feed' = 1..Len(feed')
  BY DEF FeedInv
<1>2. Behind(0) \subseteq Behind(0)'
  BY <1>1 DEF Behind
<1>3. \A n \in Behind(0)' : n <= Len(feed) => n \in Behind(0)
  BY <1>1 DEF Behind
<1>4. \A n \in Behind(0) : n \in Nat /\ n <= Len(feed)
  BY <1>1 DEF Behind
<1>5. \A n \in Behind(0)' : n \in Nat
  BY <1>1 DEF Behind
<1>6. ASSUME NEW got, NEW sent, NEW read, Follows(got, sent, read) PROVE Follows(got, sent, read)'
  <2>1. \A m \in Elements(got) \cup Elements(sent) \cup Elements(read), n \in Behind(0)' :
          n <= m => n \in Behind(0)
    <3> SUFFICES ASSUME NEW m \in Behind(0), NEW n \in Behind(0)', n <= m PROVE n \in Behind(0)
      BY <1>6 DEF Follows
    <3>1. n \in Nat /\ m \in Nat /\ m <= Len(feed)
      BY <1>4, <1>5
    <3> QED BY <1>1, <1>3, <3>1
  <2> QED BY <1>2, <1>6, <2>1 DEF Follows
<1>7. ASSUME NEW got, NEW sent, NEW read, NEW after \in Nat, CursorHolds(got, sent, read, after)
      PROVE  CursorHolds(got, sent, read, after)'
  <2>1. after <= Len(feed')
    BY <1>1, <1>7 DEF CursorHolds
  <2>2. ASSUME NEW n \in Behind(0)', n <= after PROVE n \in Behind(0)
    BY <1>1, <1>3, <1>5, <1>7, <2>2 DEF CursorHolds
  <2> QED BY <1>7, <2>1, <2>2 DEF CursorHolds
<1>8. \A f \in Followers : stream[f].after \in Nat
  BY DEF FeedInv, Streams
<1> QED BY <1>6, <1>7, <1>8 DEF FeedInv

(* A step of one follower. *)
LEMMA FollowerMoves ==
  ASSUME FeedInv, NEW f \in Followers, NEW got \in Seq(Nat), NEW row \in Streams,
         received' = [received EXCEPT ![f] = got], stream' = [stream EXCEPT ![f] = row],
         UNCHANGED <<feed, imported>>,
         Len(row.events) <= PageLimit, ~row.open => row.events = <<>>,
         Follows(got, row.sent, row.events),
         row.open => CursorHolds(got, row.sent, row.events, row.after)
  PROVE  FeedInv'
<1>1. received' \in [Followers -> Seq(Nat)] /\ stream' \in [Followers -> Streams]
  BY DEF FeedInv
<1>2. \A g \in Followers : /\ received'[g] = (IF g = f THEN got ELSE received[g])
                           /\ stream'[g] = (IF g = f THEN row ELSE stream[g])
  BY DEF FeedInv
<1>3. Behind(0)' = Behind(0) /\ Len(feed') = Len(feed)
  BY DEF Behind
<1>4. ASSUME NEW g \in Followers
      PROVE  /\ Len(stream'[g].events) <= PageLimit
             /\ ~stream'[g].open => stream'[g].events = <<>>
             /\ Follows(received'[g], stream'[g].sent, stream'[g].events)
             /\ stream'[g].open => CursorHolds(received'[g], stream'[g].sent, stream'[g].events, stream'[g].after)
  <2>1. CASE g = f
    BY <1>2, <2>1
  <2>2. CASE g # f
    BY <1>2, <2>2 DEF FeedInv
  <2> QED BY <2>1, <2>2
<1>5. ASSUME NEW g \in Followers
      PROVE  /\ Follows(received[g], stream[g].sent, stream[g].events)' 
             /\ stream'[g].open => CursorHolds(received[g], stream[g].sent, stream[g].events, stream[g].after)'
  BY <1>3, <1>4 DEF Follows, CursorHolds
<1> QED BY <1>1, <1>4, <1>5 DEF FeedInv

LEMMA RowFields ==
  ASSUME FeedInv, NEW f \in Followers
  PROVE  /\ received[f] \in Seq(Nat) /\ stream[f] \in Streams /\ feed \in Seq(BOOLEAN) /\ Len(feed) \in Nat
         /\ stream[f].events \in Seq(Nat) /\ stream[f].sent \in Seq(Nat) /\ stream[f].after \in Nat
         /\ stream[f].more \in BOOLEAN /\ stream[f].open \in BOOLEAN
         /\ received = [received EXCEPT ![f] = received[f]]
         /\ Follows(received[f], stream[f].sent, stream[f].events)
         /\ stream[f].open => CursorHolds(received[f], stream[f].sent, stream[f].events, stream[f].after)
         /\ ~stream[f].open => stream[f].events = <<>>
         /\ Len(stream[f].events) <= PageLimit
BY DEF FeedInv, Streams

LEMMA BehindIsNumbers ==
  ASSUME feed \in Seq(BOOLEAN), NEW after \in Nat
  PROVE  /\ Behind(after) \in SUBSET Nat /\ \A n \in Behind(after) : after < n /\ n <= Len(feed)
         /\ Behind(after) \subseteq Behind(0)
         /\ \A n \in Behind(0) : after < n => n \in Behind(after)
BY DEF Behind

(* A page read behind a true cursor follows what is on its way. *)
LEMMA PageFollows ==
  ASSUME feed \in Seq(BOOLEAN), NEW got \in Seq(Nat), NEW sent \in Seq(Nat), NEW after \in Nat,
         Follows(got, sent, <<>>), CursorHolds(got, sent, <<>>, after)
  PROVE  /\ Page(after) \in Seq(Nat) /\ Len(Page(after)) <= PageLimit
         /\ Follows(got, sent, Page(after)) /\ CursorHolds(got, sent, Page(after), after)
<1> DEFINE read == Page(after)
<1>1. /\ read \in Seq(Behind(after)) /\ Ascends(read) /\ Len(read) <= PageLimit
      /\ \A i \in DOMAIN read, n \in Behind(after) : n <= read[i] => \E k \in DOMAIN read : read[k] = n
  BY PageIsNext
<1>2. /\ Behind(after) \in SUBSET Nat /\ \A n \in Behind(after) : after < n /\ n <= Len(feed)
      /\ Behind(after) \subseteq Behind(0) /\ \A n \in Behind(0) : after < n => n \in Behind(after)
  BY BehindIsNumbers
<1>3. Behind(0) \in SUBSET Nat
  BY BehindIsNumbers
<1> HIDE DEF read
<1>4. Elements(read) \subseteq Behind(after)
  BY <1>1, ElementTyped DEF Elements
<1>5. \A m \in Elements(read), n \in Behind(after) : n <= m => n \in Elements(read)
  BY <1>1 DEF Elements
<1>6. read \in Seq(Nat)
  BY <1>1, <1>2
<1>7. Elements(got) \in SUBSET Nat /\ Elements(sent) \in SUBSET Nat
  BY ElementsAreNumbers
<1>8. \A m \in Elements(got) \cup Elements(sent), n \in Elements(read) : m < n
  <2> SUFFICES ASSUME NEW m \in Elements(got) \cup Elements(sent), NEW n \in Elements(read) PROVE m < n
    OBVIOUS
  <2>1. m <= after /\ after < n /\ m \in Nat /\ n \in Nat
    BY <1>2, <1>4, <1>7 DEF CursorHolds
  <2> QED BY <2>1
<1>9. ASSUME NEW m \in Elements(got) \cup Elements(sent) \cup Elements(read), NEW n \in Behind(0), n <= m
      PROVE  n \in Elements(got) \cup Elements(sent) \cup Elements(read)
  <2>1. CASE m \in Elements(got) \cup Elements(sent)
    BY <1>9, <2>1, EmptyElements DEF Follows
  <2>2. CASE m \in Elements(read) /\ n <= after
    BY <2>2 DEF CursorHolds
  <2>3. CASE m \in Elements(read) /\ ~(n <= after)
    <3>1. n \in Behind(after)
      BY <1>2, <1>3, <2>3
    <3> QED BY <1>5, <1>9, <2>3, <3>1
  <2> QED BY <2>1, <2>2, <2>3
<1>10. Follows(got, sent, read)
  <2>1. Ascends(got) /\ Ascends(sent) /\ Ascends(read)
    BY <1>1 DEF Follows
  <2>2. Elements(got) \cup Elements(sent) \cup Elements(read) \subseteq Behind(0)
    BY <1>2, <1>4 DEF Follows
  <2>3. \A m \in Elements(got), n \in Elements(sent) : m < n
    BY DEF Follows
  <2> QED BY <1>8, <1>9, <2>1, <2>2, <2>3 DEF Follows
<1>11. CursorHolds(got, sent, read, after)
  BY <1>2, <1>4 DEF CursorHolds
<1> QED BY <1>1, <1>6, <1>10, <1>11 DEF read

(* An earlier part of what follows leaves nothing out either. *)
LEMMA Cuts ==
  ASSUME NEW got \in Seq(Nat), NEW sent \in Seq(Nat), NEW read \in Seq(Nat), Follows(got, sent, read)
  PROVE  Follows(got, sent, <<>>) /\ Follows(got, <<>>, <<>>)
<1>1. /\ Elements(got) \in SUBSET Nat /\ Elements(sent) \in SUBSET Nat /\ Elements(read) \in SUBSET Nat
  BY ElementsAreNumbers
<1>2. ASSUME NEW m \in Elements(got) \cup Elements(sent), NEW n \in Elements(read) PROVE ~(n <= m)
  <2>1. m < n /\ m \in Nat /\ n \in Nat
    BY <1>1 DEF Follows
  <2> QED BY <2>1
<1>3. ASSUME NEW m \in Elements(got), NEW n \in Elements(sent) PROVE ~(n <= m)
  <2>1. m < n /\ m \in Nat /\ n \in Nat
    BY <1>1 DEF Follows
  <2> QED BY <2>1
<1>4. Follows(got, sent, <<>>)
  BY <1>2, EmptyElements DEF Follows
<1>5. Follows(got, <<>>, <<>>)
  BY <1>2, <1>3, EmptyElements DEF Follows
<1> QED BY <1>4, <1>5

LEMMA ConnectKeeps ==
  ASSUME FeedInv, NEW f \in Followers, Connect(f) PROVE FeedInv'
<1> DEFINE after == LastEventId(f)
           got == received[f]
           row == [open |-> TRUE, after |-> after, events |-> Page(after), more |-> HasMore(after), sent |-> <<>>]
<1>1. /\ got \in Seq(Nat) /\ feed \in Seq(BOOLEAN) /\ Len(feed) \in Nat /\ stream[f].events = <<>>
      /\ Follows(got, <<>>, <<>>) /\ received = [received EXCEPT ![f] = got]
  BY RowFields DEF Connect
<1>2. after \in Nat /\ CursorHolds(got, <<>>, <<>>, after)
  <2>1. CASE got = <<>>
    <3>1. after = 0
      BY <2>1 DEF LastEventId
    <3>2. \A n \in Behind(0) : ~(n <= 0)
      BY <1>1 DEF Behind
    <3> QED BY <1>1, <2>1, <3>1, <3>2, EmptyElements DEF CursorHolds
  <2>2. CASE got # <<>>
    <3>1. after = Last(got) /\ after \in Elements(got) /\ \A m \in Elements(got) : m <= after
      BY <1>1, <2>2, LastIsLargest DEF LastEventId, Follows
    <3>2. after \in Behind(0)
      BY <1>1, <3>1 DEF Follows
    <3>3. after \in Nat /\ after <= Len(feed)
      BY <1>1, <3>2, BehindIsNumbers
    <3>4. \A n \in Behind(0) : n <= after => n \in Elements(got)
      BY <1>1, <3>1, EmptyElements DEF Follows
    <3> QED BY <3>1, <3>3, <3>4, EmptyElements DEF CursorHolds
  <2> QED BY <2>1, <2>2
<1> HIDE DEF after, got
<1>3. /\ Page(after) \in Seq(Nat) /\ Len(Page(after)) <= PageLimit
      /\ Follows(got, <<>>, Page(after)) /\ CursorHolds(got, <<>>, Page(after), after)
  BY <1>1, <1>2, PageFollows, EmptyElements
<1>4. row \in Streams /\ row.open /\ row.events = Page(after) /\ row.sent = <<>> /\ row.after = after
  BY <1>2, <1>3, EmptyElements DEF Streams, HasMore
<1>5. stream' = [stream EXCEPT ![f] = row] /\ UNCHANGED <<feed, imported, received>>
  BY DEF Connect, after
<1> HIDE DEF row
<1> QED BY <1>1, <1>3, <1>4, <1>5, FollowerMoves

LEMMA ReadKeeps ==
  ASSUME FeedInv, NEW f \in Followers, ReadPage(f) PROVE FeedInv'
<1> DEFINE after == stream[f].after
           got == received[f]
           sent == stream[f].sent
           row == [stream[f] EXCEPT !.events = Page(after), !.more = HasMore(after)]
<1>1. /\ got \in Seq(Nat) /\ sent \in Seq(Nat) /\ after \in Nat /\ feed \in Seq(BOOLEAN) /\ stream[f] \in Streams
      /\ Follows(got, sent, <<>>) /\ CursorHolds(got, sent, <<>>, after)
      /\ received = [received EXCEPT ![f] = got] /\ stream[f].open
  BY RowFields DEF ReadPage
<1>2. /\ Page(after) \in Seq(Nat) /\ Len(Page(after)) <= PageLimit
      /\ Follows(got, sent, Page(after)) /\ CursorHolds(got, sent, Page(after), after)
  <2> HIDE DEF after, got, sent
  <2> QED BY <1>1, PageFollows
<1>3. row \in Streams /\ row.open /\ row.events = Page(after) /\ row.sent = sent /\ row.after = after
  <2>1. HasMore(after) \in BOOLEAN
    BY DEF HasMore
  <2> QED BY <1>1, <1>2, <2>1 DEF Streams
<1>4. stream' = [stream EXCEPT ![f] = row] /\ UNCHANGED <<feed, imported, received>>
  BY DEF ReadPage
<1> HIDE DEF row, after, got, sent
<1> QED BY <1>1, <1>2, <1>3, <1>4, FollowerMoves

LEMMA SendKeeps ==
  ASSUME FeedInv, NEW f \in Followers, SendEvent(f) PROVE FeedInv'
<1> DEFINE got == received[f]
           sent == stream[f].sent
           read == stream[f].events
           n == Head(read)
           row == [stream[f] EXCEPT !.events = Tail(@), !.after = Head(stream[f].events),
                                    !.sent = Append(@, Head(stream[f].events))]
<1>1. /\ got \in Seq(Nat) /\ sent \in Seq(Nat) /\ read \in Seq(Nat) /\ read # <<>> /\ stream[f] \in Streams
      /\ Follows(got, sent, read) /\ CursorHolds(got, sent, read, stream[f].after)
      /\ received = [received EXCEPT ![f] = got] /\ stream[f].open /\ Len(read) <= PageLimit
      /\ feed \in Seq(BOOLEAN)
  BY RowFields DEF SendEvent
<1>2. row \in Streams /\ row.open /\ row.events = Tail(read) /\ row.sent = Append(sent, n) /\ row.after = n
  <2>1. n \in Nat /\ Tail(read) \in Seq(Nat) /\ Append(sent, n) \in Seq(Nat)
    BY <1>1
  <2> QED BY <1>1, <2>1 DEF Streams
<1>3. stream' = [stream EXCEPT ![f] = row] /\ UNCHANGED <<feed, imported, received>>
  BY DEF SendEvent
<1> HIDE DEF got, sent, read, row
<1>4. /\ n \in Nat /\ Tail(read) \in Seq(Nat) /\ Ascends(Tail(read)) /\ Len(Tail(read)) = Len(read) - 1
      /\ Elements(read) = {n} \cup Elements(Tail(read)) /\ \A m \in Elements(Tail(read)) : n < m
  BY <1>1, TailElements DEF Follows
<1> HIDE DEF n
<1>5. /\ Append(sent, n) \in Seq(Nat) /\ Elements(Append(sent, n)) = Elements(sent) \cup {n}
      /\ Ascends(Append(sent, n))
  BY <1>1, <1>4, AppendedElements DEF Follows
<1>6. Follows(got, Append(sent, n), Tail(read))
  <2>1. Ascends(got)
    BY <1>1 DEF Follows
  <2>2. Elements(got) \cup Elements(Append(sent, n)) \cup Elements(Tail(read))
          = Elements(got) \cup Elements(sent) \cup Elements(read)
    BY <1>4, <1>5
  <2>3. /\ \A m \in Elements(got), x \in Elements(Append(sent, n)) \cup Elements(Tail(read)) : m < x
        /\ \A m \in Elements(Append(sent, n)), x \in Elements(Tail(read)) : m < x
    BY <1>1, <1>4, <1>5 DEF Follows
  <2> QED BY <1>1, <1>4, <1>5, <2>1, <2>2, <2>3 DEF Follows
<1>7. CursorHolds(got, Append(sent, n), Tail(read), n)
  <2>1. n \in Behind(0) /\ n <= Len(feed)
    BY <1>1, <1>4, BehindIsNumbers DEF Follows
  <2>2. \A m \in Elements(got) \cup Elements(Append(sent, n)) : m <= n
    <3>1. \A m \in Elements(got) \cup Elements(sent) : m < n /\ m \in Nat
      BY <1>1, <1>4, ElementsAreNumbers DEF Follows
    <3> QED BY <1>4, <1>5, <3>1
  <2>3. ASSUME NEW x \in Behind(0), x <= n PROVE x \in Elements(got) \cup Elements(Append(sent, n))
    <3>1. x \in Elements(got) \cup Elements(sent) \cup Elements(read)
      BY <1>1, <1>4, <2>3 DEF Follows
    <3>2. x \notin Elements(Tail(read))
      <4>1. x \in Nat
        BY <1>1, BehindIsNumbers
      <4> QED BY <1>4, <2>3, <4>1
    <3> QED BY <1>4, <1>5, <3>1, <3>2
  <2> QED BY <1>4, <2>1, <2>2, <2>3 DEF CursorHolds
<1>8. Len(Tail(read)) <= PageLimit
  BY <1>1, <1>4, FeedAssumption
<1> QED BY <1>1, <1>2, <1>3, <1>6, <1>7, <1>8, FollowerMoves

LEMMA ReceiveKeeps ==
  ASSUME FeedInv, NEW f \in Followers, ReceiveEvent(f) PROVE FeedInv'
<1> DEFINE got == received[f]
           sent == stream[f].sent
           read == stream[f].events
           n == Head(sent)
           row == [stream[f] EXCEPT !.sent = Tail(@)]
<1>1. /\ got \in Seq(Nat) /\ sent \in Seq(Nat) /\ read \in Seq(Nat) /\ sent # <<>> /\ stream[f] \in Streams
      /\ Follows(got, sent, read) /\ Len(read) <= PageLimit
      /\ stream[f].open => CursorHolds(got, sent, read, stream[f].after)
      /\ ~stream[f].open => read = <<>>
  BY RowFields DEF ReceiveEvent
<1>2. /\ row \in Streams /\ row.open = stream[f].open /\ row.events = read /\ row.sent = Tail(sent)
      /\ row.after = stream[f].after
  <2>1. Tail(sent) \in Seq(Nat)
    BY <1>1
  <2> QED BY <1>1, <2>1 DEF Streams
<1>3. /\ stream' = [stream EXCEPT ![f] = row] /\ received' = [received EXCEPT ![f] = Append(got, n)]
      /\ UNCHANGED <<feed, imported>>
  BY DEF ReceiveEvent
<1> HIDE DEF got, sent, read, row
<1>4. /\ n \in Nat /\ Tail(sent) \in Seq(Nat) /\ Ascends(Tail(sent))
      /\ Elements(sent) = {n} \cup Elements(Tail(sent)) /\ \A m \in Elements(Tail(sent)) : n < m
  BY <1>1, TailElements DEF Follows
<1> HIDE DEF n
<1>5. /\ Append(got, n) \in Seq(Nat) /\ Elements(Append(got, n)) = Elements(got) \cup {n}
      /\ Ascends(Append(got, n))
  BY <1>1, <1>4, AppendedElements DEF Follows
<1>6. Elements(Append(got, n)) \cup Elements(Tail(sent)) = Elements(got) \cup Elements(sent)
  BY <1>4, <1>5
<1>7. Follows(Append(got, n), Tail(sent), read)
  <2>1. Ascends(read)
    BY <1>1 DEF Follows
  <2>2. /\ \A m \in Elements(Append(got, n)), x \in Elements(Tail(sent)) \cup Elements(read) : m < x
        /\ \A m \in Elements(Tail(sent)), x \in Elements(read) : m < x
    BY <1>1, <1>4, <1>5 DEF Follows
  <2> QED BY <1>1, <1>4, <1>5, <1>6, <2>1, <2>2 DEF Follows
<1>8. row.open => CursorHolds(Append(got, n), Tail(sent), read, row.after)
  BY <1>1, <1>2, <1>6 DEF CursorHolds
<1> QED BY <1>1, <1>2, <1>3, <1>5, <1>7, <1>8, FollowerMoves

LEMMA StopKeeps ==
  ASSUME FeedInv, NEW f \in Followers, EndStream(f) \/ BreakStream(f) PROVE FeedInv'
<1> DEFINE got == received[f]
<1>1. /\ got \in Seq(Nat) /\ stream[f].sent \in Seq(Nat) /\ stream[f].events \in Seq(Nat)
      /\ Follows(got, stream[f].sent, stream[f].events) /\ received = [received EXCEPT ![f] = got]
  BY RowFields
<1>2. Follows(got, stream[f].sent, <<>>) /\ Follows(got, <<>>, <<>>)
  BY <1>1, Cuts
<1>3. PICK sent \in {stream[f].sent, <<>>} :
        stream' = [stream EXCEPT ![f] = [NoStream EXCEPT !.sent = sent]] /\ UNCHANGED <<feed, imported, received>>
  <2>1. NoStream = [NoStream EXCEPT !.sent = <<>>]
    BY DEF NoStream
  <2> QED BY <2>1 DEF EndStream, BreakStream
<1> DEFINE row == [NoStream EXCEPT !.sent = sent]
<1>4. row \in Streams /\ ~row.open /\ row.events = <<>> /\ row.sent = sent
  BY <1>1, <1>3, EmptyElements DEF NoStream, Streams
<1>5. Len(<<>>) <= PageLimit
  BY FeedAssumption
<1>6. stream' = [stream EXCEPT ![f] = row] /\ Follows(got, row.sent, row.events) /\ Len(row.events) <= PageLimit
  BY <1>2, <1>3, <1>4, <1>5
<1> HIDE DEF row, got
<1> QED BY <1>1, <1>3, <1>4, <1>6, FollowerMoves

LEMMA FeedStepKeeps == FeedInv /\ [FeedNext]_feedVars => FeedInv'
<1> SUFFICES ASSUME FeedInv, [FeedNext]_feedVars PROVE FeedInv'
  OBVIOUS
<1>1. CASE ImportHistory
  <2>1. PICK old \in {<<TRUE>>, <<FALSE, TRUE>>} : Len(old) <= MaxEvents /\ feed' = old /\ imported' = Len(old)
    BY <1>1 DEF ImportHistory
  <2>2. old \in Seq(BOOLEAN) /\ Len(old) \in Nat
    <3>1. <<TRUE>> \in Seq(BOOLEAN) /\ <<FALSE, TRUE>> \in Seq(BOOLEAN)
      OBVIOUS
    <3>2. old \in Seq(BOOLEAN)
      BY <2>1, <3>1
    <3> QED BY <3>2
  <2>3. feed = <<>> /\ UNCHANGED <<received, stream>>
    BY <1>1 DEF ImportHistory
  <2>4. Len(feed) <= Len(feed') /\ DOMAIN feed = {} /\ imported' \in 0..MaxEvents
    BY <2>1, <2>2, <2>3, FeedAssumption
  <2> QED BY <2>1, <2>2, <2>3, <2>4, LogGrows
<1>2. CASE AppendEvent
  <2>1. PICK mine \in BOOLEAN : feed' = Append(feed, mine)
    BY <1>2 DEF AppendEvent
  <2>2. feed \in Seq(BOOLEAN) /\ Len(feed) < MaxEvents /\ imported' \in 0..MaxEvents /\ UNCHANGED <<received, stream>>
    BY <1>2 DEF AppendEvent, FeedInv
  <2>3. /\ feed' \in Seq(BOOLEAN) /\ Len(feed) <= Len(feed') /\ Len(feed') <= MaxEvents
        /\ \A n \in DOMAIN feed : feed'[n] = feed[n]
    BY <2>1, <2>2, FeedAssumption
  <2> QED BY <2>2, <2>3, LogGrows
<1>3. ASSUME NEW f \in Followers,
             Connect(f) \/ SendEvent(f) \/ ReadPage(f) \/ ReceiveEvent(f) \/ EndStream(f) \/ BreakStream(f)
      PROVE  FeedInv'
  BY <1>3, ConnectKeeps, SendKeeps, ReadKeeps, ReceiveKeeps, StopKeeps
<1>4. CASE UNCHANGED feedVars
  <2>1. feed \in Seq(BOOLEAN) /\ Len(feed) <= MaxEvents /\ imported \in 0..MaxEvents /\ Len(feed) \in Nat
    BY DEF FeedInv
  <2> QED BY <1>4, <2>1, LogGrows DEF feedVars
<1> QED BY <1>1, <1>2, <1>3, <1>4 DEF FeedNext

(* unified_events.rs and event_stream.rs: for any number of followers, any  *)
(* page and any log, over lost and renewed streams and events that are      *)
(* recorded meanwhile, a client receives each event of its subject once, in *)
(* the order of the log and without a gap.                                  *)
THEOREM EventsComeOnce == FeedSpec => [](FeedTypeOK /\ EachEventOnce)
<1>1. FeedSpec => []FeedInv
  BY FeedInitHolds, FeedStepKeeps, PTL DEF FeedSpec
<1> QED BY <1>1, FeedInvImplies, PTL

-----------------------------------------------------------------------------
(* The pages that are asked for.                                           *)

(* A function on the first numbers whose value at each number is made from *)
(* the one before it.                                                      *)
Turns(S) == [S \X Nat -> S]
MadeInTurn(size, S, base, step, g) ==
  g \in [0..size -> S] /\ g[0] = base /\ \A n \in 1..size : g[n] = step[<<g[n - 1], n>>]

LEMMA ValuesInTurn ==
  ASSUME NEW size \in Nat, NEW S, NEW base \in S, NEW step \in Turns(S)
  PROVE  \E g : MadeInTurn(size, S, base, step, g)
<1> USE DEF MadeInTurn, Turns
<1> DEFINE Holds(g, m) == g \in [0..m -> S] /\ g[0] = base /\ \A n \in 1..m : g[n] = step[<<g[n - 1], n>>]
           Bad == {m \in Nat : \A g : ~Holds(g, m)}
<1>1. SUFFICES ASSUME Bad # {} PROVE FALSE
  <2>1. size \notin Bad => \E g : Holds(g, size)
    OBVIOUS
  <2> QED BY <2>1
<1>2. PICK m \in Bad : \A n \in Bad : m <= n
  BY <1>1, LeastNumber
<1>3. m \in Nat /\ \A g : ~Holds(g, m)
  BY <1>2
<1>4. CASE m = 0
  <2>1. Holds([n \in 0..0 |-> base], 0)
    OBVIOUS
  <2> QED BY <1>3, <1>4, <2>1
<1>5. CASE m # 0
  <2>1. m - 1 \in Nat /\ m - 1 \notin Bad
    <3>1. m - 1 \in Nat /\ ~(m <= m - 1)
      BY <1>3, <1>5
    <3> HIDE DEF Bad
    <3> QED BY <1>2, <3>1
  <2>2. PICK g : Holds(g, m - 1)
    BY <2>1
  <2> DEFINE h == [n \in 0..m |-> IF n = m THEN step[<<g[m - 1], m>>] ELSE g[n]]
  <2>3. \A n \in 0..m : n = m \/ n \in 0..(m - 1)
    BY <1>3
  <2>4. g[m - 1] \in S /\ step[<<g[m - 1], m>>] \in S
    <3>1. m - 1 \in 0..(m - 1) /\ g \in [0..(m - 1) -> S]
      BY <2>1, <2>2
    <3>2. g[m - 1] \in S
      BY <3>1
    <3> QED BY <1>3, <3>2
  <2>5. h \in [0..m -> S]
    BY <2>2, <2>3, <2>4
  <2>6. h[0] = base
    BY <1>3, <1>5, <2>2
  <2>7. ASSUME NEW n \in 1..m PROVE h[n] = step[<<h[n - 1], n>>]
    <3>1. n - 1 \in 0..m /\ n - 1 # m /\ h[n - 1] = g[n - 1] /\ n \in 0..m
      BY <1>3
    <3>2. CASE n = m
      BY <3>1, <3>2
    <3>3. CASE n # m
      <4>1. n \in 1..(m - 1)
        BY <1>3, <3>3
      <4> QED BY <2>2, <3>1, <3>3, <4>1
    <3> QED BY <3>2, <3>3
  <2> QED BY <1>3, <2>5, <2>6, <2>7
<1> QED BY <1>4, <1>5

(* What holds of a value made in turns if each turn keeps it. *)
LEMMA EachTurnKeeps ==
  ASSUME NEW size \in Nat, NEW Good \in SUBSET Nat, 0 \in Good,
         \A n \in 1..size : n - 1 \in Good => n \in Good
  PROVE  \A n \in 0..size : n \in Good
<1> DEFINE Bad == {n \in 0..size : n \notin Good}
<1>1. SUFFICES ASSUME Bad # {} PROVE FALSE
  OBVIOUS
<1>2. Bad \in SUBSET Nat
  OBVIOUS
<1>3. PICK m \in Bad : \A n \in Bad : m <= n
  BY <1>1, <1>2, LeastNumber
<1>4. m \in 1..size /\ m - 1 \in 0..size /\ ~(m <= m - 1)
  BY <1>3
<1>5. m - 1 \in Good
  BY <1>3, <1>4
<1> QED BY <1>3, <1>4, <1>5

----------------------------------------------------------------------------
LEMMA OneListing ==
  ASSUME NEW numbers \in SUBSET Nat, IsFiniteSet(numbers),
         NEW p, Listing(numbers, p), NEW q, Listing(numbers, q)
  PROVE  p = q
<1>0. \A b : Listing(numbers, b) => \A x \in numbers : \E k \in DOMAIN b : b[k] = x
  <2> SUFFICES ASSUME NEW b, Listing(numbers, b) PROVE \A x \in numbers : \E k \in DOMAIN b : b[k] = x
    OBVIOUS
  <2> QED BY ListsAll
<1> DEFINE size == Cardinality(numbers)
<1>1. size \in Nat
  BY FS_CardinalityType
<1>2. p \in [1..size -> numbers] /\ q \in [1..size -> numbers] /\ Ascends(p) /\ Ascends(q)
  BY DEF Listing
<1> HIDE DEF size
<1>3. \A i \in 1..size : i \in Nat /\ p[i] \in Nat /\ q[i] \in Nat /\ p[i] \in numbers /\ q[i] \in numbers
  <2> SUFFICES ASSUME NEW i \in 1..size PROVE i \in Nat /\ p[i] \in numbers /\ q[i] \in numbers
    OBVIOUS
  <2> QED BY <1>1, <1>2
<1> DEFINE Good == {n \in Nat : \A i \in 1..n : i <= size => p[i] = q[i]}
<1>4. ASSUME NEW n \in 1..size, n - 1 \in Good,
             NEW a \in [1..size -> numbers], NEW b \in [1..size -> numbers], {a, b} = {p, q}
      PROVE  ~(a[n] < b[n])
  <2> SUFFICES ASSUME a[n] < b[n] PROVE FALSE
    OBVIOUS
  <2>1. Listing(numbers, b) /\ Ascends(a) /\ Ascends(b) /\ DOMAIN b = 1..size /\ DOMAIN a = 1..size
    BY <1>2, <1>4 DEF Listing
  <2>2. a[n] \in numbers /\ a[n] \in Nat /\ b[n] \in Nat
    BY <1>3, <1>4
  <2>3. PICK k \in 1..size : b[k] = a[n]
    BY <1>0, <2>1, <2>2
  <2>4. k \in Nat /\ n \in Nat /\ k # n /\ ~(n < k)
    <3>1. k \in Nat /\ n \in Nat
      BY <1>1
    <3>2. n < k => b[n] < b[k]
      BY <2>1 DEF Ascends
    <3> QED BY <2>2, <2>3, <3>1, <3>2
  <2>5. k < n
    BY <2>4
  <2>6. k \in 1..(n - 1) /\ k <= size
    BY <1>1, <2>4, <2>5
  <2>7. p[k] = q[k]
    BY <1>4, <2>6
  <2>8. a[k] = a[n]
    BY <1>4, <2>3, <2>7
  <2>9. a[k] < a[n]
    BY <2>1, <2>5 DEF Ascends
  <2> QED BY <2>2, <2>8, <2>9
<1>5. \A n \in 1..size : n - 1 \in Good => n \in Good
  <2> SUFFICES ASSUME NEW n \in 1..size, n - 1 \in Good PROVE n \in Good
    OBVIOUS
  <2>1. ~(p[n] < q[n]) /\ ~(q[n] < p[n])
    <3> HIDE DEF Good
    <3> QED BY <1>2, <1>4
  <2>2. p[n] = q[n]
    BY <1>3, <2>1
  <2>3. \A i \in 1..n : i = n \/ i \in 1..(n - 1)
    BY <1>1
  <2> QED BY <1>1, <2>2, <2>3
<1>6. 0 \in Good /\ Good \in SUBSET Nat
  OBVIOUS
<1>7. \A n \in 0..size : n \in Good
  <2> HIDE DEF Good
  <2> QED BY <1>1, <1>5, <1>6, EachTurnKeeps
<1>8. \A i \in 1..size : p[i] = q[i]
  <2> SUFFICES ASSUME NEW i \in 1..size PROVE p[i] = q[i]
    OBVIOUS
  <2>1. size \in 0..size /\ i \in 1..size /\ i <= size
    BY <1>1
  <2> QED BY <1>7, <2>1
<1>9. p = [i \in 1..size |-> p[i]] /\ q = [i \in 1..size |-> q[i]]
  BY <1>2
<1> QED BY <1>8, <1>9

(* An ascending sequence is the ascending list of its elements. *)
LEMMA AscendingIs ==
  ASSUME NEW q \in Seq(Nat), Ascends(q)
  PROVE  Ascending(Elements(q)) = q
<1> DEFINE numbers == Elements(q)
           size == Len(q)
<1>1. size \in Nat /\ DOMAIN q = 1..size /\ numbers \in SUBSET Nat
  BY ElementsAreNumbers
<1>2. q \in [1..size -> numbers]
  <2>1. q = [i \in 1..size |-> q[i]]
    BY <1>1
  <2> QED BY <1>1, <2>1 DEF Elements
<1>3. \A i, k \in 1..size : q[i] = q[k] => i = k
  <2> SUFFICES ASSUME NEW i \in 1..size, NEW k \in 1..size, q[i] = q[k] PROVE i = k
    OBVIOUS
  <2>1. i \in Nat /\ k \in Nat /\ q[i] \in Nat /\ q[k] \in Nat
    BY <1>1, ElementTyped
  <2>2. ~(i < k) /\ ~(k < i)
    BY <1>1, <2>1 DEF Ascends
  <2> QED BY <2>1, <2>2
<1>4. IsFiniteSet(numbers) /\ Cardinality(numbers) = size
  <2>1. \A n \in numbers : \E i \in 1..size : q[i] = n
    BY <1>1 DEF Elements
  <2> HIDE DEF numbers, size
  <2>2. q \in Bijection(1..size, numbers)
    BY <1>2, <1>3, <2>1, Fun_IsBij
  <2>3. ExistsBijection(1..size, numbers)
    BY <2>2 DEF ExistsBijection
  <2>4. IsFiniteSet(1..size) /\ Cardinality(1..size) = size
    BY <1>1, FS_Interval
  <2> QED BY <2>3, <2>4, FS_Bijection
<1>5. Listing(numbers, q)
  BY <1>2, <1>4 DEF Listing
<1>6. Ascending(numbers) = CHOOSE p \in [1..Cardinality(numbers) -> numbers] : Ascends(p)
  BY DEF Ascending, Ascends
<1> HIDE DEF numbers
<1>7. Listing(numbers, Ascending(numbers))
  BY <1>5, <1>6 DEF Listing
<1>8. q = Ascending(numbers)
  BY <1>1, <1>4, <1>5, <1>7, OneListing
<1> QED BY <1>8 DEF numbers

LEMMA JoinedElements ==
  ASSUME NEW p \in Seq(Nat), NEW q \in Seq(Nat), Ascends(p), Ascends(q),
         \A m \in Elements(p), n \in Elements(q) : m < n
  PROVE  p \o q \in Seq(Nat) /\ Ascends(p \o q) /\ Elements(p \o q) = Elements(p) \cup Elements(q)
<1> DEFINE r == p \o q
<1>1. /\ r \in Seq(Nat) /\ Len(r) = Len(p) + Len(q) /\ Len(p) \in Nat /\ Len(q) \in Nat
      /\ \A i \in 1..Len(p) : r[i] = p[i]
      /\ \A i \in 1..Len(q) : r[Len(p) + i] = q[i]
      /\ DOMAIN r = 1..(Len(p) + Len(q)) /\ DOMAIN p = 1..Len(p) /\ DOMAIN q = 1..Len(q)
  OBVIOUS
<1> HIDE DEF r
<1>2. ASSUME NEW i \in DOMAIN r
      PROVE  \/ i \in DOMAIN p /\ r[i] = p[i]
             \/ \E j \in DOMAIN q : i = Len(p) + j /\ r[i] = q[j]
  <2>1. i \in Nat /\ (i <= Len(p) \/ i - Len(p) \in 1..Len(q)) /\ i >= 1
    BY <1>1
  <2>2. CASE i <= Len(p)
    BY <1>1, <2>1, <2>2
  <2>3. CASE i - Len(p) \in 1..Len(q)
    <3>1. PICK j \in 1..Len(q) : j = i - Len(p)
      BY <2>3
    <3>2. i = Len(p) + j
      BY <1>1, <2>1, <3>1
    <3> QED BY <1>1, <3>2
  <2> QED BY <2>1, <2>2, <2>3
<1>3. Elements(r) = Elements(p) \cup Elements(q)
  <2>1. \A m \in Elements(r) : m \in Elements(p) \cup Elements(q)
    BY <1>2 DEF Elements
  <2>2. \A i \in DOMAIN p : i \in DOMAIN r /\ r[i] = p[i]
    BY <1>1
  <2>3. \A i \in DOMAIN q : Len(p) + i \in DOMAIN r /\ r[Len(p) + i] = q[i]
    <3> SUFFICES ASSUME NEW i \in DOMAIN q PROVE Len(p) + i \in DOMAIN r /\ r[Len(p) + i] = q[i]
      OBVIOUS
    <3>1. i \in 1..Len(q) /\ Len(p) + i \in 1..(Len(p) + Len(q))
      BY <1>1
    <3> QED BY <1>1, <3>1
  <2>4. \A m \in Elements(p) \cup Elements(q) : m \in Elements(r)
    BY <2>2, <2>3 DEF Elements
  <2> QED BY <2>1, <2>4
<1>4. Ascends(r)
  <2> SUFFICES ASSUME NEW i \in DOMAIN r, NEW k \in DOMAIN r, i < k PROVE r[i] < r[k]
    BY DEF Ascends
  <2>1. i \in Nat /\ k \in Nat
    BY <1>1
  <2>2. CASE k \in DOMAIN p /\ r[k] = p[k]
    <3>1. i \in DOMAIN p /\ r[i] = p[i]
      BY <1>1, <2>1, <2>2
    <3> QED BY <2>2, <3>1 DEF Ascends
  <2>3. CASE \E j \in DOMAIN q : k = Len(p) + j /\ r[k] = q[j]
    <3>1. PICK j \in DOMAIN q : k = Len(p) + j /\ r[k] = q[j]
      BY <2>3
    <3>2. CASE i \in DOMAIN p /\ r[i] = p[i]
      BY <3>1, <3>2 DEF Elements
    <3>3. CASE \E h \in DOMAIN q : i = Len(p) + h /\ r[i] = q[h]
      <4>1. PICK h \in DOMAIN q : i = Len(p) + h /\ r[i] = q[h]
        BY <3>3
      <4>2. h < j
        BY <1>1, <3>1, <4>1
      <4> QED BY <3>1, <4>1, <4>2 DEF Ascends
    <3> QED BY <1>2, <3>2, <3>3
  <2> QED BY <1>2, <2>2, <2>3
<1> QED BY <1>1, <1>3, <1>4 DEF r

LEMMA FromIs ==
  ASSUME NEW first \in Nat, NEW last \in Nat
  PROVE  /\ From(first, last) \in Seq(Nat) /\ Ascends(From(first, last))
         /\ Elements(From(first, last)) = first..last
<1> DEFINE q == From(first, last)
<1>1. CASE last < first
  <2>1. q = <<>> /\ first..last = {}
    BY <1>1 DEF From
  <2> QED BY <2>1, EmptyElements
<1>2. CASE ~(last < first)
  <2> DEFINE size == last - first + 1
  <2>1. size \in Nat /\ q = [n \in 1..size |-> first + n - 1]
    BY <1>2 DEF From
  <2> HIDE DEF q
  <2>2. q \in Seq(Nat) /\ DOMAIN q = 1..size /\ \A n \in 1..size : q[n] = first + n - 1
    <3>1. \A n \in 1..size : first + n - 1 \in Nat
      OBVIOUS
    <3>2. q \in [1..size -> Nat]
      BY <2>1, <3>1
    <3> QED BY <2>1, <3>2
  <2>3. Ascends(q)
    BY <2>1, <2>2 DEF Ascends
  <2>4. \A m \in Elements(q) : m \in first..last
    BY <2>1, <2>2 DEF Elements
  <2>5. ASSUME NEW m \in first..last PROVE m \in Elements(q)
    <3>1. m - first + 1 \in 1..size /\ first + (m - first + 1) - 1 = m
      OBVIOUS
    <3> QED BY <2>2, <3>1 DEF Elements
  <2> QED BY <2>2, <2>3, <2>4, <2>5 DEF q
<1> QED BY <1>1, <1>2

LEMMA FromOne ==
  ASSUME NEW last \in Nat
  PROVE  Len(From(1, last)) = last /\ DOMAIN From(1, last) = 1..last /\ \A n \in 1..last : From(1, last)[n] = n
<1>1. CASE last = 0
  BY <1>1 DEF From
<1>2. CASE last # 0
  <2>1. From(1, last) = [n \in 1..last |-> 1 + n - 1]
    BY <1>2 DEF From
  <2> QED BY <2>1
<1> QED BY <1>1, <1>2

----------------------------------------------------------------------------
PagesOf(ranges) ==
  {p \in 1..MaxPosition : \E n \in DOMAIN ranges : ranges[n].first <= p /\ p <= ranges[n].last}

LEMMA RangeTyped ==
  ASSUME NEW range \in PageRange
  PROVE  /\ range.first \in Nat /\ range.last \in Nat
         /\ range.first \in 0..MaxPosition + 1 /\ range.last \in 0..MaxPosition + 1
BY PageAssumption DEF PageRange

(* Either the last range is extended or a new one follows. *)
LEMMA JoinedCases ==
  ASSUME NEW done \in Seq(PageRange), NEW range \in PageRange
  PROVE  LET next == Joined(done, range) IN
         /\ next \in Seq(PageRange)
         /\ \/ /\ done # <<>> /\ range.first = done[Len(done)].last + 1 /\ DOMAIN next = DOMAIN done
               /\ Len(next) = Len(done)
               /\ next[Len(done)].first = done[Len(done)].first /\ next[Len(done)].last = range.last
               /\ \A n \in DOMAIN done : n # Len(done) => next[n] = done[n]
            \/ next = Append(done, range)
<1> DEFINE size == Len(done)
<1>1. CASE done # <<>> /\ range.first = Last(done).last + 1
  <2>1. size \in Nat /\ size \in DOMAIN done /\ DOMAIN done = 1..size /\ Last(done) = done[size]
    BY <1>1 DEF Last
  <2> DEFINE longer == [done[size] EXCEPT !.last = range.last]
             next == [done EXCEPT ![size] = longer]
  <2>2. done[size] \in PageRange
    BY <2>1, ElementTyped
  <2>3. longer \in PageRange /\ longer.first = done[size].first /\ longer.last = range.last
    BY <2>2 DEF PageRange
  <2>4. Joined(done, range) = next
    BY <1>1 DEF Joined
  <2> HIDE DEF longer
  <2>5. /\ next \in Seq(PageRange) /\ DOMAIN next = DOMAIN done /\ Len(next) = size
        /\ next[size] = longer /\ \A n \in DOMAIN done : n # size => next[n] = done[n]
    BY <2>1, <2>3
  <2> HIDE DEF next
  <2> QED BY <1>1, <2>1, <2>3, <2>4, <2>5
<1>2. CASE ~(done # <<>> /\ range.first = Last(done).last + 1)
  <2>1. Joined(done, range) = Append(done, range)
    BY <1>2 DEF Joined
  <2> QED BY <2>1
<1> QED BY <1>1, <1>2

LEMMA JoinedKeeps ==
  ASSUME NEW maximum \in 0..MaxPosition, NEW done \in Seq(PageRange), WellFormed(done, maximum),
         NEW range \in PageRange,
         1 <= range.first, range.first <= range.last, range.last <= maximum,
         done # <<>> => range.first > Last(done).last,
         NEW next, next = Joined(done, range)
  PROVE  /\ next \in Seq(PageRange) /\ WellFormed(next, maximum)
         /\ next # <<>> /\ Last(next).last = range.last
         /\ PagesOf(next) = PagesOf(done) \cup (range.first..range.last)
<1> DEFINE size == Len(done)
<1>1. /\ maximum \in Nat /\ maximum <= MaxPosition /\ MaxPosition \in Nat
      /\ range.first \in Nat /\ range.last \in Nat /\ size \in Nat /\ DOMAIN done = 1..size
  BY PageAssumption, RangeTyped
<1>2. next \in Seq(PageRange)
  BY JoinedCases
<1>3. \A n \in 1..size : done[n].first \in Nat /\ done[n].last \in Nat
  <2> SUFFICES ASSUME NEW n \in 1..size PROVE done[n] \in PageRange
    BY RangeTyped
  <2> QED BY <1>1, ElementTyped
<1>4. range.first..range.last \subseteq 1..MaxPosition
  BY <1>1
<1>5. CASE /\ done # <<>> /\ range.first = done[size].last + 1 /\ DOMAIN next = DOMAIN done
           /\ Len(next) = size
           /\ next[size].first = done[size].first /\ next[size].last = range.last
           /\ \A n \in DOMAIN done : n # size => next[n] = done[n]
  <2>1. size \in 1..size /\ next # <<>> /\ Last(next) = next[size]
    BY <1>1, <1>5 DEF Last
  <2>2. WellFormed(next, maximum)
    <3> SUFFICES ASSUME NEW n \in 1..size
                 PROVE  /\ 1 <= next[n].first /\ next[n].first <= next[n].last /\ next[n].last <= maximum
                        /\ n > 1 => next[n].first > next[n - 1].last
      BY <1>1, <1>5 DEF WellFormed
    <3>1. /\ 1 <= done[n].first /\ done[n].first <= done[n].last /\ done[n].last <= maximum
          /\ n > 1 => done[n].first > done[n - 1].last
      BY <1>1 DEF WellFormed
    <3>2. next[n].first = done[n].first
      BY <1>1, <1>5
    <3>3. n > 1 => n - 1 \in 1..size /\ n - 1 # size
      BY <1>1
    <3>4. n > 1 => next[n - 1] = done[n - 1]
      BY <1>1, <1>5, <3>3
    <3>5. next[n].first <= next[n].last /\ next[n].last <= maximum
      <4>1. CASE n = size
        BY <1>1, <1>3, <1>5, <3>1, <4>1
      <4>2. CASE n # size
        BY <1>1, <1>5, <3>1, <4>2
      <4> QED BY <4>1, <4>2
    <3> QED BY <3>1, <3>2, <3>4, <3>5
  <2>3. \A p \in 1..MaxPosition : p \in PagesOf(next) <=> p \in PagesOf(done) \cup (range.first..range.last)
    <3> SUFFICES ASSUME NEW p \in 1..MaxPosition
                 PROVE  p \in PagesOf(next) <=> p \in PagesOf(done) \cup (range.first..range.last)
      OBVIOUS
    <3> DEFINE In(r) == r.first <= p /\ p <= r.last
    <3>1. \A n \in 1..size : n # size => (In(next[n]) <=> In(done[n]))
      BY <1>1, <1>5
    <3>2. In(next[size]) <=> In(done[size]) \/ p \in range.first..range.last
      <4>1. done[size].first <= done[size].last /\ done[size].first \in Nat /\ done[size].last \in Nat
        BY <1>1, <1>3, <2>1 DEF WellFormed
      <4> QED BY <1>1, <1>5, <4>1
    <3>3. p \in PagesOf(next) <=> \E n \in 1..size : In(next[n])
      BY <1>1, <1>5 DEF PagesOf
    <3>4. p \in PagesOf(done) <=> \E n \in 1..size : In(done[n])
      BY <1>1 DEF PagesOf
    <3> HIDE DEF In
    <3> QED BY <2>1, <3>1, <3>2, <3>3, <3>4
  <2>4. PagesOf(next) = PagesOf(done) \cup (range.first..range.last)
    BY <1>4, <2>3 DEF PagesOf
  <2> QED BY <1>2, <1>5, <2>1, <2>2, <2>4
<1>6. CASE next = Append(done, range)
  <2>1. /\ next # <<>> /\ Len(next) = size + 1 /\ DOMAIN next = 1..(size + 1) /\ next[size + 1] = range
        /\ \A n \in 1..size : next[n] = done[n]
    BY <1>1, <1>6
  <2>2. Last(next) = range
    BY <2>1 DEF Last
  <2>3. \A n \in 1..(size + 1) : n \in 1..size \/ n = size + 1
    BY <1>1
  <2>4. WellFormed(next, maximum)
    <3> SUFFICES ASSUME NEW n \in 1..(size + 1)
                 PROVE  /\ 1 <= next[n].first /\ next[n].first <= next[n].last /\ next[n].last <= maximum
                        /\ n > 1 => next[n].first > next[n - 1].last
      BY <2>1 DEF WellFormed
    <3>1. CASE n \in 1..size
      <4>1. n > 1 => n - 1 \in 1..size
        BY <1>1
      <4>2. next[n] = done[n] /\ (n > 1 => next[n - 1] = done[n - 1])
        BY <2>1, <3>1, <4>1
      <4> QED BY <1>1, <3>1, <4>2 DEF WellFormed
    <3>2. CASE n = size + 1
      <4>1. n > 1 => n - 1 = size /\ size \in 1..size /\ done # <<>>
        BY <1>1, <3>2
      <4>2. n > 1 => next[n - 1] = Last(done)
        BY <2>1, <4>1 DEF Last
      <4> QED BY <2>1, <3>2, <4>1, <4>2
    <3> QED BY <2>3, <3>1, <3>2
  <2>5. \A p \in 1..MaxPosition : p \in PagesOf(next) <=> p \in PagesOf(done) \cup (range.first..range.last)
    <3> SUFFICES ASSUME NEW p \in 1..MaxPosition
                 PROVE  p \in PagesOf(next) <=> p \in PagesOf(done) \cup (range.first..range.last)
      OBVIOUS
    <3> DEFINE In(r) == r.first <= p /\ p <= r.last
    <3>1. p \in PagesOf(next) <=> \E n \in 1..(size + 1) : In(next[n])
      BY <2>1 DEF PagesOf
    <3>2. p \in PagesOf(done) <=> \E n \in 1..size : In(done[n])
      BY <1>1 DEF PagesOf
    <3>3. In(range) <=> p \in range.first..range.last
      BY <1>1
    <3>4. size + 1 \in 1..(size + 1) /\ \A n \in 1..size : n \in 1..(size + 1)
      BY <1>1
    <3> HIDE DEF In
    <3> QED BY <2>1, <2>3, <3>1, <3>2, <3>3, <3>4
  <2>6. PagesOf(next) = PagesOf(done) \cup (range.first..range.last)
    BY <1>4, <2>5 DEF PagesOf
  <2> QED BY <1>2, <2>1, <2>2, <2>4, <2>6
<1> QED BY <1>5, <1>6, JoinedCases

LEMMA CanonicalInTurn ==
  ASSUME NEW ranges \in Seq(PageRange)
  PROVE  \E g : /\ g[0] = <<>> /\ \A n \in 1..Len(ranges) : g[n] = Joined(g[n - 1], ranges[n])
                /\ Canonical(ranges) = g[Len(ranges)]
<1> DEFINE size == Len(ranges)
           body(g) == [n \in 0..size |-> IF n = 0 THEN <<>> ELSE Joined(g[n - 1], ranges[n])]
           upTo == CHOOSE g : g = body(g)
           Base == Seq(PageRange)
           step == [x \in Base \X Nat |-> IF x[2] \in 1..size THEN Joined(x[1], ranges[x[2]]) ELSE <<>>]
<1>1. Canonical(ranges) = upTo[size]
  BY DEF Canonical
<1>2. size \in Nat /\ <<>> \in Base
  OBVIOUS
<1>3. step \in [Base \X Nat -> Base]
  <2>1. ASSUME NEW x \in Base \X Nat, x[2] \in 1..size PROVE Joined(x[1], ranges[x[2]]) \in Base
    <3>1. ranges[x[2]] \in PageRange
      BY <2>1, ElementTyped
    <3> QED BY <3>1, JoinedCases
  <2> QED BY <1>2, <2>1
<1> HIDE DEF Base, size
<1>4. \E g : MadeInTurn(size, Base, <<>>, step, g)
  <2> HIDE DEF step
  <2>1. step \in Turns(Base)
    BY <1>3 DEF Turns
  <2> QED BY <1>2, <2>1, ValuesInTurn
<1>5. \E g : g = body(g)
  <2>0. PICK g \in [0..size -> Base] : g[0] = <<>> /\ \A n \in 1..size : g[n] = step[<<g[n - 1], n>>]
    BY <1>4 DEF MadeInTurn
  <2>1. ASSUME NEW n \in 1..size PROVE g[n] = Joined(g[n - 1], ranges[n])
    <3>1. n - 1 \in 0..size /\ n \in Nat
      BY <1>2
    <3>2. <<g[n - 1], n>> \in Base \X Nat
      BY <2>0, <3>1
    <3> QED BY <2>0, <2>1, <3>2
  <2>2. \A n \in 0..size : n = 0 \/ (n \in 1..size /\ n # 0)
    BY <1>2
  <2>3. \A n \in 0..size : g[n] = (IF n = 0 THEN <<>> ELSE Joined(g[n - 1], ranges[n]))
    BY <2>0, <2>1, <2>2
  <2>4. g = [n \in 0..size |-> g[n]]
    BY <2>0
  <2>5. g = body(g)
    BY <2>3, <2>4
  <2> QED BY <2>5
<1>6. upTo = body(upTo)
  <2> HIDE DEF body
  <2> QED BY <1>5
<1> HIDE DEF upTo
<1>7. upTo[0] = <<>> /\ \A n \in 1..size : upTo[n] = Joined(upTo[n - 1], ranges[n])
  <2>1. 0 \in 0..size /\ \A n \in 1..size : n \in 0..size /\ n # 0
    BY <1>2
  <2> QED BY <1>6, <2>1
<1> QED BY <1>1, <1>7 DEF size

(* bounded: neighbours become one range, and no page is lost or won. *)
LEMMA CanonicalKeeps ==
  ASSUME NEW maximum \in 0..MaxPosition, NEW ranges \in Seq(PageRange), WellFormed(ranges, maximum)
  PROVE  /\ Canonical(ranges) \in Seq(PageRange) /\ WellFormed(Canonical(ranges), maximum)
         /\ PagesOf(Canonical(ranges)) = PagesOf(ranges)
         /\ Canonical(ranges) = <<>> <=> ranges = <<>>
<1> DEFINE size == Len(ranges)
           First(n) == {p \in 1..MaxPosition : \E k \in 1..n : ranges[k].first <= p /\ p <= ranges[k].last}
           Holds(c, n) == /\ c \in Seq(PageRange) /\ WellFormed(c, maximum) /\ PagesOf(c) = First(n)
                          /\ c = <<>> <=> n = 0
                          /\ n # 0 => Last(c).last = ranges[n].last
<1>1. PICK g : /\ g[0] = <<>> /\ \A n \in 1..size : g[n] = Joined(g[n - 1], ranges[n])
               /\ Canonical(ranges) = g[size]
  BY CanonicalInTurn
<1>2. size \in Nat /\ DOMAIN ranges = 1..size
  OBVIOUS
<1> DEFINE Good == {n \in Nat : Holds(g[n], n)}
<1>3. 0 \in Good
  <2>1. <<>> \in Seq(PageRange) /\ WellFormed(<<>>, maximum) /\ PagesOf(<<>>) = {}
    BY DEF WellFormed, PagesOf
  <2>2. First(0) = {}
    OBVIOUS
  <2> HIDE DEF First
  <2> QED BY <1>1, <2>1, <2>2
<1>4. ASSUME NEW n \in 1..size, n - 1 \in Good PROVE n \in Good
  <2> DEFINE done == g[n - 1]
             next == g[n]
             range == ranges[n]
  <2>1. n \in Nat /\ n - 1 \in Nat /\ n # 0
    BY <1>2
  <2>2. Holds(done, n - 1)
    BY <1>4
  <2>3. /\ range \in PageRange /\ 1 <= range.first /\ range.first <= range.last /\ range.last <= maximum
        /\ n > 1 => range.first > ranges[n - 1].last
    BY <1>2, ElementTyped DEF WellFormed
  <2>4. done # <<>> => range.first > Last(done).last
    BY <2>1, <2>2, <2>3
  <2>5. next = Joined(done, range)
    BY <1>1
  <2>6. First(n) = First(n - 1) \cup (range.first..range.last)
    <3>1. range.first \in Nat /\ range.last \in Nat /\ range.last <= MaxPosition
      BY <2>3, RangeTyped, PageAssumption
    <3>2. \A k \in 1..n : k \in 1..(n - 1) \/ k = n
      BY <2>1
    <3>3. n \in 1..n /\ \A k \in 1..(n - 1) : k \in 1..n
      BY <2>1
    <3>4. range.first..range.last \subseteq 1..MaxPosition
      BY <2>3, <3>1, PageAssumption
    <3>5. \A p \in 1..MaxPosition : p \in range.first..range.last <=> range.first <= p /\ p <= range.last
      BY <3>1, PageAssumption
    <3> QED BY <3>2, <3>3, <3>4, <3>5
  <2> HIDE DEF First, done, next, range
  <2>7. /\ next \in Seq(PageRange) /\ WellFormed(next, maximum) /\ next # <<>> /\ Last(next).last = range.last
        /\ PagesOf(next) = PagesOf(done) \cup (range.first..range.last)
    BY <2>2, <2>3, <2>4, <2>5, JoinedKeeps
  <2> QED BY <2>1, <2>2, <2>6, <2>7 DEF next, range
<1>5. \A n \in 0..size : n \in Good
  <2> HIDE DEF Good
  <2>1. Good \in SUBSET Nat
    BY DEF Good
  <2> QED BY <1>2, <1>3, <1>4, <2>1, EachTurnKeeps
<1>6. Holds(Canonical(ranges), size)
  <2>1. size \in 0..size
    BY <1>2
  <2> HIDE DEF Holds
  <2> QED BY <1>1, <1>5, <2>1
<1>7. First(size) = PagesOf(ranges)
  BY <1>2 DEF PagesOf
<1>8. ranges = <<>> <=> size = 0
  OBVIOUS
<1> HIDE DEF First
<1> QED BY <1>6, <1>7, <1>8

(* Concatenation in turn, with what the values are made of as hypothesis. *)
LEMMA FlattenedInTurn ==
  ASSUME NEW seqs \in Seq(Seq(Nat)), seqs # <<>>
  PROVE  \E g : /\ g[1] = seqs[1] /\ \A n \in 2..Len(seqs) : g[n] = g[n - 1] \o seqs[n]
                /\ FlattenSeq(seqs) = g[Len(seqs)]
<1> DEFINE size == Len(seqs)
           body(g) == [i \in 1..size |-> IF i = 1 THEN seqs[i] ELSE g[i - 1] \o seqs[i]]
           flatten == CHOOSE g : g = body(g)
           Base == Seq(Nat)
           step == [x \in Base \X Nat |-> IF x[2] \in 1..size THEN x[1] \o seqs[x[2]] ELSE <<>>]
<1>1. FlattenSeq(seqs) = flatten[size]
  <2>1. Len(seqs) # 0
    OBVIOUS
  <2> QED BY <2>1 DEF FlattenSeq
<1>2. size \in Nat /\ size >= 1 /\ <<>> \in Base /\ \A i \in 1..size : seqs[i] \in Base
  <2>1. size \in Nat /\ size # 0 /\ DOMAIN seqs = 1..size
    OBVIOUS
  <2> QED BY <2>1, ElementTyped
<1>3. step \in [Base \X Nat -> Base]
  <2>1. ASSUME NEW x \in Base \X Nat, x[2] \in 1..size PROVE x[1] \o seqs[x[2]] \in Base
    <3>1. seqs[x[2]] \in Base /\ x[1] \in Base
      BY <1>2, <2>1
    <3> QED BY <3>1
  <2> QED BY <1>2, <2>1
<1> HIDE DEF Base, size
<1>4. \E g : MadeInTurn(size, Base, <<>>, step, g)
  <2> HIDE DEF step
  <2>1. step \in Turns(Base)
    BY <1>3 DEF Turns
  <2> QED BY <1>2, <2>1, ValuesInTurn
<1>5. \E g : g = body(g)
  <2>0. PICK h \in [0..size -> Base] : h[0] = <<>> /\ \A n \in 1..size : h[n] = step[<<h[n - 1], n>>]
    BY <1>4 DEF MadeInTurn
  <2>1. ASSUME NEW n \in 1..size PROVE h[n - 1] \in Base /\ h[n] = h[n - 1] \o seqs[n]
    <3>1. n - 1 \in 0..size /\ n \in Nat
      BY <1>2
    <3>2. h[n - 1] \in Base /\ <<h[n - 1], n>> \in Base \X Nat
      BY <2>0, <3>1
    <3> QED BY <2>0, <2>1, <3>2
  <2>2. 1 \in 1..size /\ \A n \in 1..size : n # 1 => n - 1 \in 1..size
    BY <1>2
  <2>3. h[1] = seqs[1]
    <3>1. h[1] = <<>> \o seqs[1] /\ seqs[1] \in Seq(Nat)
      <4>1. h[1] = h[1 - 1] \o seqs[1] /\ seqs[1] \in Seq(Nat)
        BY <1>2, <2>1, <2>2 DEF Base
      <4>2. h[1 - 1] = <<>>
        BY <2>0
      <4> QED BY <4>1, <4>2
    <3> QED BY <3>1
  <2> DEFINE g == [i \in 1..size |-> h[i]]
  <2>4. \A n \in 1..size : g[n] = (IF n = 1 THEN seqs[n] ELSE g[n - 1] \o seqs[n])
    <3> SUFFICES ASSUME NEW n \in 1..size PROVE g[n] = (IF n = 1 THEN seqs[n] ELSE g[n - 1] \o seqs[n])
      OBVIOUS
    <3>1. g[n] = h[n] /\ (n # 1 => g[n - 1] = h[n - 1])
      BY <2>2
    <3> HIDE DEF g
    <3> QED BY <2>1, <2>3, <3>1
  <2>5. g = [i \in 1..size |-> g[i]]
    OBVIOUS
  <2>6. g = body(g)
    <3> HIDE DEF g
    <3> QED BY <2>4, <2>5
  <2> QED BY <2>6
<1>6. flatten = body(flatten)
  <2> HIDE DEF body
  <2> QED BY <1>5
<1> HIDE DEF flatten
<1>7. flatten[1] = seqs[1] /\ \A n \in 2..size : flatten[n] = flatten[n - 1] \o seqs[n]
  <2>1. 1 \in 1..size /\ \A n \in 2..size : n \in 1..size /\ n # 1
    BY <1>2
  <2> QED BY <1>6, <2>1
<1> QED BY <1>1, <1>7 DEF size

(* The pages of a range that a document of a total has. *)
LEMMA ClippedIs ==
  ASSUME NEW selection, selection.ipp \in BOOLEAN, NEW total \in 1..MaxPages,
         NEW range \in PageRange, 1 <= range.first, range.first <= range.last,
         ~selection.ipp => range.last <= total
  PROVE  LET part == Clipped(range, selection, total) IN
         /\ part \in Seq(Nat) /\ Ascends(part)
         /\ Elements(part) = {p \in 1..total : range.first <= p /\ p <= range.last}
<1>1. range.first \in Nat /\ range.last \in Nat /\ total \in Nat
  BY RangeTyped, PageAssumption
<1> DEFINE last == IF selection.ipp /\ range.last > total THEN total ELSE range.last
<1>2. last \in Nat /\ Clipped(range, selection, total) = From(range.first, last)
  BY <1>1 DEF Clipped
<1>3. range.first..last = {p \in 1..total : range.first <= p /\ p <= range.last}
  BY <1>1
<1> HIDE DEF last
<1> QED BY <1>1, <1>2, <1>3, FromIs

(* indices: what the ranges name of the document, in order and each once. *)
LEMMA IndicesAre ==
  ASSUME NEW selection, selection.ipp \in BOOLEAN, selection.ranges \in Seq(PageRange),
         WellFormed(selection.ranges, MaxPosition),
         NEW total, WithinBounds(selection, total)
  PROVE  /\ Indices(selection, total) \in Seq(Nat) /\ Ascends(Indices(selection, total))
         /\ Elements(Indices(selection, total)) = Named(selection.ranges) \cap (1..total)
<1> DEFINE ranges == selection.ranges
           size == Len(ranges)
           indices == Indices(selection, total)
<1>1. total \in 1..MaxPages /\ total \in Nat /\ total <= MaxPosition /\ 1..total \subseteq 1..MaxPosition
  BY PageAssumption DEF WithinBounds
<1>2. CASE IsAll(selection)
  <2>1. indices = From(1, total) /\ Named(ranges) = 1..MaxPosition
    BY <1>2 DEF Indices, IsAll, Named
  <2> QED BY <1>1, <2>1, FromIs
<1>3. CASE ~IsAll(selection)
  <2> DEFINE parts == [n \in DOMAIN ranges |-> Clipped(ranges[n], selection, total)]
             First(n) == {p \in 1..total : \E k \in 1..n : ranges[k].first <= p /\ p <= ranges[k].last}
             Holds(c, n) == /\ c \in Seq(Nat) /\ Ascends(c) /\ Elements(c) = First(n)
                            /\ \A m \in Elements(c) : m <= ranges[n].last
  <2>1. indices = FlattenSeq(parts)
    BY <1>3 DEF Indices
  <2>2. size \in Nat /\ size >= 1 /\ DOMAIN ranges = 1..size
    <3>1. size \in Nat /\ DOMAIN ranges = 1..size /\ size # 0
      BY <1>3 DEF IsAll
    <3> QED BY <3>1
  <2>3. ASSUME NEW n \in 1..size
        PROVE  /\ ranges[n].first \in Nat /\ ranges[n].last \in Nat
               /\ 1 <= ranges[n].first /\ ranges[n].first <= ranges[n].last
               /\ n > 1 => ranges[n].first > ranges[n - 1].last
               /\ parts[n] \in Seq(Nat) /\ Ascends(parts[n])
               /\ Elements(parts[n]) = {p \in 1..total : ranges[n].first <= p /\ p <= ranges[n].last}
    <3>1. ranges[n] \in PageRange
      BY <2>2, ElementTyped
    <3>2. /\ 1 <= ranges[n].first /\ ranges[n].first <= ranges[n].last
          /\ n > 1 => ranges[n].first > ranges[n - 1].last
          /\ ~selection.ipp => ranges[n].last <= total
      BY <2>2 DEF WellFormed, WithinBounds
    <3>3. parts[n] = Clipped(ranges[n], selection, total)
      BY <2>2
    <3> HIDE DEF parts, ranges
    <3> QED BY <1>1, <3>1, <3>2, <3>3, ClippedIs, RangeTyped
  <2>4. parts \in Seq(Seq(Nat)) /\ parts # <<>> /\ Len(parts) = size
    <3>1. parts \in [1..size -> Seq(Nat)]
      BY <2>2, <2>3
    <3> HIDE DEF parts
    <3> QED BY <2>2, <3>1
  <2>5. PICK g : /\ g[1] = parts[1] /\ \A n \in 2..size : g[n] = g[n - 1] \o parts[n]
                 /\ indices = g[size]
    <3> HIDE DEF parts
    <3> QED BY <2>1, <2>4, FlattenedInTurn
  <2> HIDE DEF parts, indices, size, ranges
  <2> DEFINE Good == {n \in Nat : n \in 1..size => Holds(g[n], n)}
  <2>6. 0 \in Good
    OBVIOUS
  <2>7. ASSUME NEW n \in 1..size, n - 1 \in Good PROVE n \in Good
    <3>1. n \in Nat /\ (n = 1 \/ (n \in 2..size /\ n - 1 \in 1..size)) /\ n > 0
      BY <2>2
    <3>2. CASE n = 1
      <4>1. First(1) = {p \in 1..total : ranges[1].first <= p /\ p <= ranges[1].last}
        OBVIOUS
      <4>2. Elements(parts[1]) = First(1) /\ \A m \in Elements(parts[1]) : m <= ranges[1].last
        BY <2>3, <3>2, <4>1
      <4>3. Holds(g[1], 1)
        <5> HIDE DEF First
        <5> QED BY <2>3, <2>5, <3>2, <4>2
      <4> HIDE DEF Holds
      <4> QED BY <3>2, <4>3
    <3>3. CASE n \in 2..size /\ n - 1 \in 1..size
      <4> DEFINE p == g[n - 1]
                 q == parts[n]
      <4>1. Holds(p, n - 1)
        BY <2>7, <3>3
      <4>2. q \in Seq(Nat) /\ Ascends(q) /\ g[n] = p \o q
        BY <2>3, <2>5, <3>3
      <4>3. \A m \in Elements(p), x \in Elements(q) : m < x /\ x <= ranges[n].last /\ m <= ranges[n].last
        <5>1. ranges[n].first > ranges[n - 1].last
          BY <2>3, <3>1, <3>3
        <5>2. \A m \in Elements(p) : m \in Nat /\ m <= ranges[n - 1].last
          BY <1>1, <4>1
        <5>3. \A x \in Elements(q) : x \in Nat /\ ranges[n].first <= x /\ x <= ranges[n].last
          <6>1. \A x \in Elements(q) : x \in 1..total /\ ranges[n].first <= x /\ x <= ranges[n].last
            BY <2>3
          <6>2. \A x \in 1..total : x \in Nat
            BY <1>1
          <6> QED BY <6>1, <6>2
        <5>4. /\ ranges[n - 1].last \in Nat /\ ranges[n].first \in Nat /\ ranges[n].last \in Nat
              /\ ranges[n].first <= ranges[n].last
          BY <2>3, <3>3
        <5> HIDE DEF Holds, p, q
        <5> QED BY <5>1, <5>2, <5>3, <5>4
      <4>4. First(n) = First(n - 1) \cup Elements(q)
        <5>1. \A k \in 1..n : k \in 1..(n - 1) \/ k = n
          BY <3>1
        <5>2. n \in 1..n /\ \A k \in 1..(n - 1) : k \in 1..n
          BY <3>1
        <5> QED BY <2>3, <5>1, <5>2
      <4>5. p \in Seq(Nat) /\ Ascends(p) /\ Elements(p) = First(n - 1)
        BY <4>1
      <4>6. \A m \in Elements(p) : m <= ranges[n].last
        <5>1. \A m \in Elements(p) : m \in Nat /\ m <= ranges[n - 1].last
          BY <1>1, <4>1
        <5>2. /\ ranges[n - 1].last \in Nat /\ ranges[n].first \in Nat /\ ranges[n].last \in Nat
              /\ ranges[n].first <= ranges[n].last /\ ranges[n].first > ranges[n - 1].last
          BY <2>3, <3>1, <3>3
        <5> HIDE DEF Holds, p
        <5> QED BY <5>1, <5>2
      <4>7. \A m \in Elements(q) : m <= ranges[n].last
        BY <2>3
      <4> HIDE DEF First, p, q
      <4>8. p \o q \in Seq(Nat) /\ Ascends(p \o q) /\ Elements(p \o q) = Elements(p) \cup Elements(q)
        BY <4>2, <4>3, <4>5, JoinedElements
      <4>9. Holds(g[n], n)
        BY <4>2, <4>4, <4>5, <4>6, <4>7, <4>8
      <4> HIDE DEF Holds
      <4> QED BY <3>1, <4>9
    <3> QED BY <3>1, <3>2, <3>3
  <2>8. \A n \in 0..size : n \in Good
    <3>1. Good \in SUBSET Nat
      OBVIOUS
    <3> HIDE DEF Good
    <3> QED BY <2>2, <2>6, <2>7, <3>1, EachTurnKeeps
  <2>9. Holds(indices, size)
    <3>1. size \in 0..size /\ size \in 1..size
      BY <2>2
    <3> HIDE DEF Holds
    <3> QED BY <2>5, <2>8, <3>1
  <2>10. First(size) = Named(ranges) \cap (1..total)
    <3>1. ranges # <<>>
      BY <1>3 DEF IsAll, ranges
    <3> QED BY <1>1, <2>2, <3>1 DEF Named
  <2> HIDE DEF First
  <2> QED BY <2>9, <2>10 DEF indices, ranges
<1> QED BY <1>2, <1>3

----------------------------------------------------------------------------
(* Where a job stands: what the inspection let through, what the           *)
(* interpreter announced, and what its last frame was compared with.       *)
Asked ==
  /\ manifest.ranges \in Seq(PageRange)
  /\ rendering # "none" =>
       /\ manifest.named = Named(manifest.ranges)
       /\ IF document.pdf THEN document.pages > 0 ELSE IsAll(manifest)

Accepted ==
  /\ rendering \in {"announcing", "streaming", "rendered", "completed"} /\ document.pdf =>
       WithinBounds(manifest, document.pages)
  /\ rendering \in {"none", "queued", "announcing"} \/ IsAll(manifest) => frames.announced = 0

Ended ==
  rendering \in {"rendered", "completed"} =>
    /\ document.pages > 0
    /\ IF IsAll(manifest) THEN frames.received = document.pages
       ELSE frames.announced = document.pages /\ frames.received = Len(Indices(manifest, document.pages))

Recorded ==
  /\ pageArtifacts = IF rendering = "completed" THEN Attributed ELSE <<>>
  /\ rendering = "completed" => MappingHolds(manifest, pageArtifacts) \/ frames.received = 0
  /\ rendering # "completed" => dispatch = NoDispatch

PageInv == PageTypeOK /\ Asked /\ Accepted /\ Ended /\ Recorded /\ PagesAsAsked

LEMMA PageInitInv == PageInit => PageInv
<1> SUFFICES ASSUME PageInit PROVE PageInv
  OBVIOUS
<1>1. MaxPages \in Nat /\ <<>> \in Seq([source : 0..MaxPages, of : 0..MaxPages]) /\ <<>> \in Seq(PageRange)
  BY PageAssumption
<1>2. WellFormed(<<>>, MaxPosition)
  BY DEF WellFormed
<1>3. PageTypeOK
  BY <1>1, <1>2 DEF PageInit, PageTypeOK, NoSelection, NoDispatch
<1> QED BY <1>1, <1>3 DEF PageInit, PageInv, Asked, Accepted, Ended, Recorded, PagesAsAsked, NoSelection, NoDispatch

(* Ranges that fit a document name only its pages. *)
LEMMA BoundedNamed ==
  ASSUME NEW ranges \in Seq(PageRange), ranges # <<>>, NEW total \in Nat,
         \A n \in DOMAIN ranges : ranges[n].last <= total
  PROVE  Named(ranges) \subseteq 1..total
<1>1. ASSUME NEW p \in Named(ranges) PROVE p \in 1..total
  <2>1. p \in 1..MaxPosition /\ \E n \in DOMAIN ranges : ranges[n].first <= p /\ p <= ranges[n].last
    BY <1>1 DEF Named
  <2>2. PICK n \in DOMAIN ranges : p <= ranges[n].last
    BY <2>1
  <2>3. ranges[n].last \in Nat /\ ranges[n].last <= total
    <3>1. ranges[n] \in PageRange
      BY ElementTyped
    <3> QED BY <3>1, RangeTyped
  <2>4. p \in Nat /\ p >= 1
    BY <2>1, PageAssumption
  <2> QED BY <2>2, <2>3, <2>4
<1> QED BY <1>1

(* source_mapping: what a job that ended has, and what its pages show. *)
LEMMA OutcomeIs ==
  ASSUME PageTypeOK, Asked, Accepted, Ended, rendering \in {"rendered", "completed"}
  PROVE  /\ Attributed \in Seq([source : 0..MaxPages, of : 0..MaxPages])
         /\ Len(Attributed) = frames.received
         /\ SourcePages(manifest, Attributed) = Shown
         /\ Shown \in Seq(Nat) /\ Ascends(Shown) /\ Len(Shown) = frames.received
         /\ Elements(Shown) = manifest.named \cap (1..document.pages)
         /\ Attributed # <<>> => SourceTotal(manifest, Attributed) = document.pages
         /\ manifest.ipp \/ manifest.named = 1..MaxPosition \/ manifest.named \subseteq 1..document.pages
<1> DEFINE pages == document.pages
           size == frames.received
           entry == [source : 0..MaxPages, of : 0..MaxPages]
<1>1. /\ pages \in 1..MaxPages /\ pages \in Nat /\ size \in 0..MaxPages /\ size \in Nat
      /\ MaxPages \in Nat /\ pages <= MaxPosition
  BY PageAssumption DEF PageTypeOK, Ended
<1>2. manifest.named = Named(manifest.ranges)
  BY DEF Asked
<1>3. Attributed = [n \in 1..size |-> Attributed[n]] /\ DOMAIN Attributed = 1..size
  BY DEF Attributed
<1>4. CASE IsAll(manifest)
  <2>1. frames.announced = 0 /\ size = pages
    BY <1>4 DEF Accepted, Ended
  <2>2. Attributed = [n \in 1..size |-> [source |-> 0, of |-> 0]]
    BY <2>1 DEF Attributed
  <2>3. Attributed \in [1..size -> entry]
    BY <1>1, <2>2
  <2>4. Attributed \in Seq(entry) /\ Len(Attributed) = size
    <3> HIDE DEF entry
    <3> QED BY <1>1, <1>3, <2>3
  <2> DEFINE q == From(1, pages)
  <2>5. q \in Seq(Nat) /\ Ascends(q) /\ Elements(q) = 1..pages
    BY <1>1, FromIs
  <2>6. Len(q) = pages /\ DOMAIN q = 1..pages /\ \A n \in 1..pages : q[n] = n
    BY <1>1, FromOne
  <2>7. manifest.named = 1..MaxPosition
    BY <1>2, <1>4 DEF IsAll, Named
  <2>8. manifest.named \cap (1..pages) = 1..pages
    <3>0. MaxPosition \in Nat
      BY PageAssumption
    <3>1. 1..pages \subseteq 1..MaxPosition
      BY <1>1, <3>0
    <3> QED BY <2>7, <3>1
  <2> HIDE DEF q
  <2>9. Shown = q
    BY <2>5, <2>8, AscendingIs DEF Shown
  <2>10. q = [n \in 1..size |-> n]
    <3>1. q = [n \in 1..pages |-> q[n]]
      BY <2>5, <2>6
    <3> QED BY <2>1, <2>6, <3>1
  <2>11. SourcePages(manifest, Attributed) = q
    BY <1>3, <1>4, <2>10 DEF SourcePages
  <2>12. SourceTotal(manifest, Attributed) = pages
    BY <1>4, <2>1, <2>4 DEF SourceTotal
  <2> QED BY <2>1, <2>4, <2>5, <2>6, <2>7, <2>8, <2>9, <2>11, <2>12
<1>5. CASE ~IsAll(manifest)
  <2>1. document.pdf /\ WithinBounds(manifest, pages) /\ frames.announced = pages
        /\ size = Len(Indices(manifest, pages))
    BY <1>5 DEF Asked, Accepted, Ended
  <2> DEFINE q == Indices(manifest, pages)
  <2>2. q \in Seq(Nat) /\ Ascends(q) /\ Elements(q) = manifest.named \cap (1..pages)
    BY <1>2, <2>1, IndicesAre DEF PageTypeOK, Asked
  <2>3. Attributed = [n \in 1..size |-> [source |-> q[n], of |-> pages]]
    BY <1>1, <2>1 DEF Attributed
  <2> HIDE DEF q
  <2>4. \A n \in 1..size : q[n] \in 1..pages
    <3>1. DOMAIN q = 1..size
      BY <2>1, <2>2 DEF q
    <3> QED BY <2>2, <3>1 DEF Elements
  <2>5. Attributed \in [1..size -> entry]
    <3>1. \A n \in 1..size : [source |-> q[n], of |-> pages] \in entry
      BY <1>1, <2>4
    <3> HIDE DEF entry
    <3> QED BY <2>3, <3>1
  <2>6. Attributed \in Seq(entry) /\ Len(Attributed) = size
    <3> HIDE DEF entry
    <3> QED BY <1>1, <1>3, <2>5
  <2>7. Shown = q
    BY <2>2, AscendingIs DEF Shown
  <2>8. SourcePages(manifest, Attributed) = q
    <3>1. \A n \in 1..size : Attributed[n].source = q[n]
      BY <2>3
    <3>2. q = [n \in 1..size |-> q[n]]
      BY <2>1, <2>2 DEF q
    <3>3. SourcePages(manifest, Attributed) = [n \in 1..size |-> Attributed[n].source]
      BY <1>3, <1>5 DEF SourcePages
    <3> QED BY <3>1, <3>2, <3>3
  <2>9. Attributed # <<>> => SourceTotal(manifest, Attributed) = pages
    <3> SUFFICES ASSUME Attributed # <<>> PROVE SourceTotal(manifest, Attributed) = pages
      OBVIOUS
    <3>1. 1 \in 1..size
      <4>1. size # 0
        <5> HIDE DEF entry
        <5> QED BY <2>6
      <4> QED BY <1>1, <4>1
    <3>2. Attributed[1].of = pages
      BY <2>3, <3>1
    <3> QED BY <1>5, <3>2 DEF SourceTotal
  <2>10. manifest.ipp \/ manifest.named \subseteq 1..pages
    <3> SUFFICES ASSUME ~manifest.ipp PROVE manifest.named \subseteq 1..pages
      OBVIOUS
    <3>1. \A n \in DOMAIN manifest.ranges : manifest.ranges[n].last <= pages
      BY <2>1 DEF WithinBounds
    <3>2. manifest.ranges \in Seq(PageRange) /\ manifest.ranges # <<>>
      BY <1>5 DEF Asked, IsAll
    <3> QED BY <1>1, <1>2, <3>1, <3>2, BoundedNamed
  <2> QED BY <2>1, <2>2, <2>6, <2>7, <2>8, <2>9, <2>10 DEF q
<1> QED BY <1>4, <1>5

LEMMA Widened ==
  ASSUME NEW ranges \in Seq(PageRange), NEW maximum \in {MaxPages, MaxPosition}, WellFormed(ranges, maximum)
  PROVE  WellFormed(ranges, MaxPosition)
<1>1. MaxPages \in Nat /\ MaxPosition \in Nat /\ MaxPages < MaxPosition
  BY PageAssumption
<1>2. \A n \in DOMAIN ranges : ranges[n].last \in Nat
  <2> SUFFICES ASSUME NEW n \in DOMAIN ranges PROVE ranges[n] \in PageRange
    BY RangeTyped
  <2> QED BY ElementTyped
<1> QED BY <1>1, <1>2 DEF WellFormed

(* prepare: what a delivery of a completed job sends, and when none goes. *)
LEMMA DispatchIs ==
  ASSUME PageInv, NEW ranges \in Seq(PageRange), PrepareDelivery(ranges)
  PROVE  /\ dispatch'.state \in {"sent", "refused"}
         /\ dispatch'.state = "sent" =>
              dispatch'.sent = Ascending(dispatch'.named \cap
                IF dispatch'.named = 1..MaxPosition THEN ToSet(Shown) ELSE 1..MaxPosition)
         /\ dispatch'.state = "refused" /\ Shown # <<>> =>
              dispatch'.named # 1..MaxPosition /\ ~(dispatch'.named \subseteq ToSet(Shown))
<1> DEFINE request == [ipp |-> FALSE, ranges |-> Canonical(ranges)]
           pages == document.pages
           mapping == SourcePages(manifest, pageArtifacts)
           total == SourceTotal(manifest, pageArtifacts)
           indices == DeliveryIndices(request, mapping, total)
           named == Named(ranges)
           goes == /\ MappingHolds(manifest, pageArtifacts) /\ WithinBounds(request, total)
                   /\ ~IsAll(request) => ToSet(Indices(request, total)) \subseteq ToSet(mapping)
<1>1. /\ rendering = "completed" /\ WellFormed(ranges, MaxPages)
      /\ dispatch' = IF goes THEN [state |-> "sent", named |-> named,
                                   sent |-> [n \in DOMAIN indices |-> Shown[indices[n]]]]
                     ELSE [state |-> "refused", named |-> named, sent |-> <<>>]
  BY DEF PrepareDelivery
<1>2. /\ pageArtifacts = Attributed
      /\ MappingHolds(manifest, pageArtifacts) \/ frames.received = 0
      /\ pages \in Nat /\ pages \in 1..MaxPages /\ frames.received \in Nat
  BY <1>1, PageAssumption DEF PageInv, Recorded, Ended, PageTypeOK
<1>3. /\ mapping = Shown /\ Shown \in Seq(Nat) /\ Ascends(Shown) /\ Len(Shown) = frames.received
      /\ Elements(Shown) = manifest.named \cap (1..pages)
      /\ pageArtifacts # <<>> => total = pages
  BY <1>1, <1>2, OutcomeIs DEF PageInv, Recorded
<1>4. Shown # <<>> => MappingHolds(manifest, pageArtifacts)
  BY <1>2, <1>3
<1>5. MappingHolds(manifest, pageArtifacts) => total = pages
  BY <1>3 DEF MappingHolds
<1>6. /\ request.ipp = FALSE /\ request.ranges \in Seq(PageRange) /\ WellFormed(request.ranges, MaxPages)
      /\ WellFormed(request.ranges, MaxPosition) /\ Named(request.ranges) = named
      /\ IsAll(request) <=> ranges = <<>>
      /\ request.ranges = Canonical(ranges)
  <2>1. MaxPages \in 0..MaxPosition /\ MaxPages \in Nat /\ MaxPosition \in Nat /\ MaxPages < MaxPosition
    BY PageAssumption
  <2>2. /\ Canonical(ranges) \in Seq(PageRange) /\ WellFormed(Canonical(ranges), MaxPages)
        /\ PagesOf(Canonical(ranges)) = PagesOf(ranges)
        /\ Canonical(ranges) = <<>> <=> ranges = <<>>
    BY <1>1, <2>1, CanonicalKeeps
  <2>3. Named(Canonical(ranges)) = named
    BY <2>2 DEF Named, PagesOf
  <2>4. WellFormed(Canonical(ranges), MaxPosition)
    BY <2>2, Widened
  <2> QED BY <2>2, <2>3, <2>4 DEF IsAll
<1>7. MaxPages \in Nat /\ MaxPosition \in Nat /\ MaxPages < MaxPosition /\ pages <= MaxPages /\ pages >= 1
  BY <1>2, PageAssumption
<1>8. ranges = <<>> => named = 1..MaxPosition
  BY DEF Named
<1>9. ranges # <<>> => named # 1..MaxPosition /\ named \subseteq 1..MaxPages
  <2> SUFFICES ASSUME ranges # <<>> PROVE named # 1..MaxPosition /\ named \subseteq 1..MaxPages
    OBVIOUS
  <2>1. \A n \in DOMAIN ranges : ranges[n].last <= MaxPages
    BY <1>1 DEF WellFormed
  <2>2. named \subseteq 1..MaxPages
    BY <1>7, <2>1, BoundedNamed
  <2>3. MaxPosition \in 1..MaxPosition /\ MaxPosition \notin 1..MaxPages
    BY <1>7
  <2> HIDE DEF named
  <2> QED BY <2>2, <2>3
<1>10. /\ ToSet(Shown) = Elements(Shown) /\ Elements(Shown) \subseteq 1..pages
       /\ Elements(Shown) \subseteq 1..MaxPosition
  <2>1. 1..pages \subseteq 1..MaxPosition
    BY <1>2, <1>7
  <2>2. ToSet(Shown) = Elements(Shown)
    BY DEF ToSet, Elements
  <2> QED BY <1>3, <2>1, <2>2
<1> DEFINE q == Indices(request, total)
<1>11. ASSUME WithinBounds(request, total), total = pages
       PROVE  /\ q \in Seq(Nat) /\ Ascends(q) /\ Elements(q) = named \cap (1..pages)
              /\ ToSet(q) = Elements(q)
  <2>1. q \in Seq(Nat) /\ Ascends(q) /\ Elements(q) = Named(request.ranges) \cap (1..total)
    <3>1. request.ipp \in BOOLEAN
      BY <1>6
    <3> HIDE DEF request, total
    <3> QED BY <1>6, <1>11, <3>1, IndicesAre
  <2> QED BY <1>6, <1>11, <2>1 DEF ToSet, Elements
<1> HIDE DEF request, mapping, total, named, q
<1>12. CASE goes
  <2>1. total = pages
    BY <1>5, <1>12
  <2>2. CASE ranges = <<>>
    <3>1. indices = From(1, Len(Shown))
      BY <1>3, <1>6, <2>2 DEF DeliveryIndices
    <3>2. Len(Shown) \in Nat /\ DOMAIN indices = 1..Len(Shown) /\ \A n \in 1..Len(Shown) : indices[n] = n
      <4>1. Len(Shown) \in Nat
        BY <1>3
      <4> HIDE DEF indices
      <4> QED BY <3>1, <4>1, FromOne
    <3> HIDE DEF indices
    <3>3. [n \in DOMAIN indices |-> Shown[indices[n]]] = Shown
      <4>1. Shown = [n \in 1..Len(Shown) |-> Shown[n]]
        BY <1>3
      <4> QED BY <3>2, <4>1
    <3>4. named \cap ToSet(Shown) = Elements(Shown)
      BY <1>8, <1>10, <2>2
    <3>5. Ascending(Elements(Shown)) = Shown
      BY <1>3, AscendingIs
    <3> QED BY <1>1, <1>8, <1>12, <2>2, <3>3, <3>4, <3>5
  <2>3. CASE ranges # <<>>
    <3>1. ~IsAll(request) /\ WithinBounds(request, total)
      BY <1>6, <1>12, <2>3
    <3>2. q \in Seq(Nat) /\ Ascends(q) /\ Elements(q) = named \cap (1..pages) /\ ToSet(q) = Elements(q)
      BY <1>11, <2>1, <3>1
    <3>3. Elements(q) \subseteq Elements(Shown)
      BY <1>3, <1>10, <1>12, <3>1, <3>2 DEF q
    <3>4. indices = [n \in DOMAIN q |-> CHOOSE i \in DOMAIN mapping : mapping[i] = q[n]]
      BY <3>1 DEF DeliveryIndices, q
    <3>5. ASSUME NEW n \in DOMAIN q PROVE Shown[indices[n]] = q[n]
      <4>1. q[n] \in Elements(Shown)
        BY <3>3 DEF Elements
      <4>2. \E i \in DOMAIN mapping : mapping[i] = q[n]
        BY <1>3, <4>1 DEF Elements
      <4>3. mapping[indices[n]] = q[n]
        BY <3>4, <4>2
      <4> QED BY <1>3, <4>3
    <3>6. DOMAIN indices = DOMAIN q
      BY <3>4
    <3> HIDE DEF indices
    <3>7. [n \in DOMAIN indices |-> Shown[indices[n]]] = q
      <4>1. q = [n \in DOMAIN q |-> q[n]]
        BY <3>2
      <4> QED BY <3>5, <3>6, <4>1
    <3>8. named \subseteq 1..pages
      <4>1. \A n \in DOMAIN request.ranges : request.ranges[n].last <= pages
        BY <1>6, <2>1, <3>1 DEF WithinBounds
      <4>2. request.ranges # <<>>
        BY <3>1 DEF IsAll
      <4> QED BY <1>2, <1>6, <4>1, <4>2, BoundedNamed
    <3>9. named \cap (1..MaxPosition) = Elements(q)
      <4>1. 1..pages \subseteq 1..MaxPosition
        BY <1>2, <1>7
      <4> QED BY <3>2, <3>8, <4>1
    <3>10. Ascending(Elements(q)) = q
      BY <3>2, AscendingIs
    <3> QED BY <1>1, <1>9, <1>12, <2>3, <3>7, <3>9, <3>10
  <2> QED BY <2>2, <2>3
<1>13. CASE ~goes
  <2> SUFFICES ASSUME Shown # <<>> PROVE named # 1..MaxPosition /\ ~(named \subseteq ToSet(Shown))
    BY <1>1, <1>13
  <2>1. MappingHolds(manifest, pageArtifacts) /\ total = pages
    BY <1>4, <1>5
  <2>2. ranges # <<>>
    <3> SUFFICES ASSUME ranges = <<>> PROVE FALSE
      OBVIOUS
    <3>1. IsAll(request)
      BY <1>6
    <3>2. WithinBounds(request, total)
      BY <1>2, <2>1, <3>1 DEF WithinBounds, IsAll
    <3> QED BY <1>13, <2>1, <3>1, <3>2
  <2>3. named # 1..MaxPosition
    BY <1>9, <2>2
  <2>4. CASE ~WithinBounds(request, total)
    <3>1. PICK n \in DOMAIN request.ranges : ~(request.ranges[n].last <= pages)
      BY <1>2, <2>1, <2>4 DEF WithinBounds
    <3>2. /\ request.ranges[n].last \in Nat /\ request.ranges[n].first \in Nat
          /\ 1 <= request.ranges[n].first /\ request.ranges[n].first <= request.ranges[n].last
          /\ request.ranges[n].last <= MaxPosition
      <4>1. request.ranges[n] \in PageRange
        BY <1>6, ElementTyped
      <4> QED BY <1>6, <4>1, RangeTyped DEF WellFormed
    <3>3. request.ranges[n].last \in 1..MaxPosition
      BY <1>7, <3>2
    <3>4. request.ranges[n].last \in named
      <4>1. request.ranges # <<>>
        BY <1>6, <2>2 DEF IsAll
      <4>2. request.ranges[n].last <= request.ranges[n].last
        BY <3>2
      <4> QED BY <1>6, <3>2, <3>3, <4>1, <4>2 DEF Named
    <3>5. request.ranges[n].last \notin 1..pages
      BY <1>2, <3>1, <3>2
    <3> QED BY <1>10, <2>3, <3>4, <3>5
  <2>5. CASE WithinBounds(request, total)
    <3>1. ~(ToSet(q) \subseteq ToSet(mapping))
      BY <1>13, <2>1, <2>5 DEF q
    <3>2. ToSet(q) \subseteq named
      BY <1>11, <2>1, <2>5
    <3> QED BY <1>3, <2>3, <3>1, <3>2
  <2> QED BY <2>4, <2>5
<1> QED BY <1>1, <1>12, <1>13

----------------------------------------------------------------------------
(* Until a job completes there is nothing to compare. *)
LEMMA NothingYet ==
  ASSUME rendering' # "completed", dispatch' = NoDispatch
  PROVE  PagesAsAsked'
BY DEF PagesAsAsked, NoDispatch

LEMMA AskPagesInv ==
  ASSUME PageInv, NEW ipp \in BOOLEAN, NEW pdf \in BOOLEAN, NEW ranges \in Seq(PageRange),
         AskPages(ipp, ranges, pdf)
  PROVE  PageInv'
<1>1. /\ rendering = "none" /\ rendering' = "queued" /\ dispatch' = NoDispatch
      /\ UNCHANGED <<frames, pageArtifacts, dispatch>> /\ pageArtifacts' = <<>>
      /\ ranges # <<>> => pdf
  BY DEF AskPages, PageInv, Recorded
<1>2. /\ manifest'.ipp = (ipp /\ ranges # <<>>) /\ manifest'.ranges = Canonical(ranges)
      /\ manifest'.named = Named(ranges)
  BY DEF AskPages
<1>3. PICK pages \in 1..MaxPages : document' = [pdf |-> pdf, pages |-> IF pdf THEN pages ELSE 0]
  BY DEF AskPages
<1>4. /\ document' \in [pdf : BOOLEAN, pages : 0..MaxPages] /\ document'.pdf = pdf
      /\ pdf => document'.pages > 0
  BY <1>3, PageAssumption
<1>5. /\ Canonical(ranges) \in Seq(PageRange) /\ WellFormed(Canonical(ranges), MaxPosition)
      /\ Named(Canonical(ranges)) = Named(ranges)
      /\ Canonical(ranges) = <<>> <=> ranges = <<>>
  <2>1. WellFormed(ranges, MaxPosition)
    BY Widened DEF AskPages
  <2>2. MaxPosition \in 0..MaxPosition
    BY PageAssumption
  <2> QED BY <2>1, <2>2, CanonicalKeeps DEF Named, PagesOf
<1>6. PageTypeOK'
  <2>1. manifest'.ipp \in BOOLEAN /\ WellFormed(manifest'.ranges, MaxPosition)
    BY <1>2, <1>5
  <2> QED BY <1>1, <1>4, <2>1 DEF PageInv, PageTypeOK
<1>7. Asked'
  BY <1>1, <1>2, <1>4, <1>5 DEF Asked, IsAll
<1>8. Accepted' /\ Ended'
  BY <1>1 DEF PageInv, Accepted, Ended
<1>9. Recorded'
  BY <1>1 DEF Recorded
<1> QED BY <1>1, <1>6, <1>7, <1>8, <1>9, NothingYet DEF PageInv

LEMMA RenderInv ==
  ASSUME PageInv, NEW n \in 0..MaxPages + 1, BeginRender \/ Announce(n) \/ ReceiveFrame(n)
  PROVE  PageInv'
<1>1. /\ rendering \in {"queued", "announcing", "streaming"}
      /\ rendering' \in {"announcing", "streaming", "failed"}
      /\ UNCHANGED <<manifest, document, pageArtifacts, dispatch>>
      /\ pageArtifacts = <<>> /\ dispatch = NoDispatch
  BY DEF BeginRender, Announce, ReceiveFrame, PageInv, Recorded
<1>2. Asked'
  BY <1>1 DEF PageInv, Asked, IsAll
<1>3. PageTypeOK' /\ Accepted'
  <2>0. n \in Nat /\ MaxPages \in Nat /\ n >= 0
    BY PageAssumption
  <2>1. CASE BeginRender
    BY <1>1, <2>1 DEF BeginRender, PageInv, PageTypeOK, Accepted, IsAll
  <2>2. CASE Announce(n)
    <3>1. /\ rendering = "announcing"
          /\ \/ frames' = frames
             \/ ~IsAll(manifest) /\ n \in 1..MaxPages /\ frames' = [frames EXCEPT !.announced = n]
      BY <2>2 DEF Announce, WithinBounds
    <3>2. frames' \in [announced : 0..MaxPages, received : 0..MaxPages]
      BY <2>0, <3>1 DEF PageInv, PageTypeOK
    <3>3. PageTypeOK'
      BY <1>1, <3>2 DEF PageInv, PageTypeOK
    <3>4. document.pdf => WithinBounds(manifest, document.pages)
      BY <3>1 DEF PageInv, Accepted
    <3>5. frames.announced = 0
      BY <3>1 DEF PageInv, Accepted
    <3>6. IsAll(manifest) => frames'.announced = 0
      BY <3>1, <3>5
    <3>7. rendering' # "announcing"
      BY <2>2 DEF Announce
    <3> QED BY <1>1, <3>3, <3>4, <3>6, <3>7 DEF Accepted
  <2>3. CASE ReceiveFrame(n)
    <3>1. /\ rendering = "streaming" /\ rendering' # "announcing"
          /\ \/ frames' = frames
             \/ n <= MaxPages /\ frames' = [frames EXCEPT !.received = n]
      BY <2>3 DEF ReceiveFrame
    <3>2. frames' \in [announced : 0..MaxPages, received : 0..MaxPages] /\ frames'.announced = frames.announced
      BY <2>0, <3>1 DEF PageInv, PageTypeOK
    <3>3. PageTypeOK'
      BY <1>1, <3>2 DEF PageInv, PageTypeOK
    <3>4. /\ document.pdf => WithinBounds(manifest, document.pages)
          /\ IsAll(manifest) => frames.announced = 0
      BY <3>1 DEF PageInv, Accepted
    <3> QED BY <1>1, <3>1, <3>2, <3>3, <3>4 DEF Accepted
  <2> QED BY <2>1, <2>2, <2>3
<1>4. Ended' /\ Recorded'
  BY <1>1 DEF Ended, Recorded
<1> QED BY <1>1, <1>2, <1>3, <1>4, NothingYet DEF PageInv

(* The comparison of the frames with the inspection. *)
LEMMA EndFramesInv == PageInv /\ EndFrames => PageInv'
<1> SUFFICES ASSUME PageInv, EndFrames PROVE PageInv'
  OBVIOUS
<1>1. /\ rendering = "streaming" /\ rendering' \in {"rendered", "failed"}
      /\ UNCHANGED <<manifest, frames, pageArtifacts, dispatch>>
      /\ pageArtifacts = <<>> /\ dispatch = NoDispatch
  BY DEF EndFrames, PageInv, Recorded
<1>2. /\ MaxPages \in Nat /\ frames.received \in 0..MaxPages /\ document.pages \in 0..MaxPages
      /\ frames.received \in Nat /\ document.pages \in Nat
  BY PageAssumption DEF PageInv, PageTypeOK
<1>3. /\ document' \in [pdf : BOOLEAN, pages : 0..MaxPages] /\ document'.pdf = document.pdf
      /\ document'.pages = IF document.pdf THEN document.pages ELSE frames.received
  BY <1>2 DEF EndFrames, PageInv, PageTypeOK
<1>4. PageTypeOK'
  BY <1>1, <1>3 DEF PageInv, PageTypeOK
<1>5. Asked'
  BY <1>1, <1>3 DEF PageInv, Asked, IsAll
<1>6. Accepted'
  BY <1>1, <1>3 DEF PageInv, Accepted
<1>7. Ended'
  <2> SUFFICES ASSUME rendering' = "rendered"
               PROVE  /\ document'.pages > 0
                      /\ IF IsAll(manifest) THEN frames.received = document'.pages
                         ELSE /\ frames.announced = document'.pages
                              /\ frames.received = Len(Indices(manifest, document'.pages))
    BY <1>1 DEF Ended
  <2>1. /\ IF IsAll(manifest) THEN frames.received > 0 ELSE frames.received = Expected
        /\ document.pdf => frames.received = Len(Indices(manifest, document.pages))
        /\ ~IsAll(manifest) => frames.announced = document.pages
    BY <1>1 DEF EndFrames
  <2>2. IF document.pdf THEN document.pages > 0 ELSE IsAll(manifest)
    BY <1>1 DEF PageInv, Asked
  <2>3. CASE IsAll(manifest)
    <3>1. document.pdf => frames.received = document.pages
      BY <1>2, <2>1, <2>3, FromOne DEF Indices
    <3> QED BY <1>3, <2>1, <2>2, <2>3, <3>1
  <2>4. CASE ~IsAll(manifest)
    BY <1>3, <2>1, <2>2, <2>4
  <2> QED BY <2>3, <2>4
<1>8. Recorded'
  BY <1>1 DEF Recorded
<1> QED BY <1>1, <1>4, <1>5, <1>6, <1>7, <1>8, NothingYet DEF PageInv

LEMMA CompletePagesInv == PageInv /\ CompletePages => PageInv'
<1> SUFFICES ASSUME PageInv, CompletePages PROVE PageInv'
  OBVIOUS
<1>1. /\ rendering = "rendered" /\ rendering' \in {"completed", "failed"}
      /\ UNCHANGED <<manifest, document, frames, dispatch>>
      /\ pageArtifacts = <<>> /\ dispatch = NoDispatch
      /\ pageArtifacts' = IF rendering' = "completed" THEN Attributed ELSE <<>>
      /\ rendering' = "completed" => MappingHolds(manifest, Attributed) \/ frames.received = 0
  BY DEF CompletePages, PageInv, Recorded
<1>2. /\ Attributed \in Seq([source : 0..MaxPages, of : 0..MaxPages])
      /\ SourcePages(manifest, Attributed) = Shown
      /\ manifest.ipp \/ manifest.named = 1..MaxPosition \/ manifest.named \subseteq 1..document.pages
  BY <1>1, OutcomeIs DEF PageInv
<1>3. PageTypeOK'
  BY <1>1, <1>2 DEF PageInv, PageTypeOK
<1>4. Asked' /\ Accepted' /\ Ended'
  BY <1>1 DEF PageInv, Asked, Accepted, Ended
<1>5. Attributed' = Attributed /\ Shown' = Shown
  BY <1>1 DEF Attributed, Shown
<1>6. Recorded'
  BY <1>1, <1>5 DEF Recorded
<1>7. PagesAsAsked'
  <2>1. dispatch'.state = "none"
    BY <1>1 DEF NoDispatch
  <2> QED BY <1>1, <1>2, <1>5, <2>1 DEF PagesAsAsked
<1> QED BY <1>3, <1>4, <1>6, <1>7 DEF PageInv

LEMMA PrepareDeliveryInv ==
  ASSUME PageInv, NEW ranges \in Seq(PageRange), PrepareDelivery(ranges)
  PROVE  PageInv'
<1>1. rendering = "completed" /\ UNCHANGED <<rendering, manifest, document, frames, pageArtifacts>>
  BY DEF PrepareDelivery
<1>2. Attributed' = Attributed /\ Shown' = Shown
  BY <1>1 DEF Attributed, Shown
<1>3. PageTypeOK'
  BY <1>1, DispatchIs DEF PageInv, PageTypeOK
<1>4. Asked' /\ Accepted' /\ Ended' /\ Recorded'
  BY <1>1, <1>2 DEF PageInv, Asked, Accepted, Ended, Recorded
<1>5. PagesAsAsked'
  BY <1>1, <1>2, DispatchIs DEF PageInv, PagesAsAsked
<1> QED BY <1>3, <1>4, <1>5 DEF PageInv

LEMMA PageNextInv == PageInv /\ [PageNext]_pageVars => PageInv'
<1> SUFFICES ASSUME PageInv, [PageNext]_pageVars PROVE PageInv'
  OBVIOUS
<1>1. BoundedSeq(PageRange, MaxRanges) \subseteq Seq(PageRange)
  BY PageAssumption DEF BoundedSeq, SeqOf
<1>2. CASE \E ranges \in BoundedSeq(PageRange, MaxRanges) : \E ipp, pdf \in BOOLEAN : AskPages(ipp, ranges, pdf)
  BY <1>1, <1>2, AskPagesInv
<1>3. CASE \E ranges \in BoundedSeq(PageRange, MaxRanges) : PrepareDelivery(ranges)
  BY <1>1, <1>3, PrepareDeliveryInv
<1>4. CASE BeginRender
  <2>1. 0 \in 0..MaxPages + 1
    BY PageAssumption
  <2> QED BY <1>4, <2>1, RenderInv
<1>5. CASE \E n \in 0..MaxPages + 1 : Announce(n) \/ ReceiveFrame(n)
  BY <1>5, RenderInv
<1>6. CASE EndFrames
  BY <1>6, EndFramesInv
<1>7. CASE CompletePages
  BY <1>7, CompletePagesInv
<1>8. CASE UNCHANGED pageVars
  <2>1. UNCHANGED <<rendering, manifest, document, frames, pageArtifacts, dispatch>>
    BY <1>8 DEF pageVars
  <2>2. Attributed' = Attributed /\ Shown' = Shown
    BY <2>1 DEF Attributed, Shown
  <2> QED BY <2>1, <2>2 DEF PageInv, PageTypeOK, Asked, Accepted, Ended, Recorded, PagesAsAsked
<1> QED BY <1>2, <1>3, <1>4, <1>5, <1>6, <1>7, <1>8 DEF PageNext

(* PageRanges, source_mapping and delivery_indices, for every size of       *)
(* document and every list of ranges: a completed job rendered the pages    *)
(* its ranges name in order and each once, a delivery sends those its own   *)
(* ranges name, and is refused only if one of them was not rendered.        *)
THEOREM PagesComeAsAsked == PageSpec => [](PageTypeOK /\ PagesAsAsked)
<1>1. PageSpec => []PageInv
  BY PageInitInv, PageNextInv, PTL DEF PageSpec
<1>2. PageInv => PageTypeOK /\ PagesAsAsked
  BY DEF PageInv
<1> QED BY <1>1, <1>2, PTL
===============================================================================
