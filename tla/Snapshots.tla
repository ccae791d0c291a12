----------------------------- MODULE Snapshots -----------------------------
(***************************************************************************)
(* Verified snapshots and what bounds them.  Readers (requests of the      *)
(* processes that share a data root) copy an artifact into a private file, *)
(* verify it and serve it.  A copy needs permits of its process, shared    *)
(* slots locked one after the other, and a reservation of the coordinator, *)
(* which never expires.  Messages to the coordinator may be late, repeated *)
(* or lost.  Sizes are in units, SlotUnits of them to a slot.              *)
(***************************************************************************)
EXTENDS Naturals, FiniteSetsExt

CONSTANTS Readers, NoReader,
          Reservations, NoReservation,  \* the fresh ids of reserve
          Slots,                        \* number of shared slots
          SlotUnits,                    \* SLOT
          Permits,                      \* units one process may hold
          Capacity,                     \* snapshot_budget.capacity, in slots
          MaxUnits                      \* bound on the size of an artifact

ASSUME SnapshotAssumption ==
  /\ NoReader \notin Readers /\ NoReservation \notin Reservations
  /\ {Slots, SlotUnits, Permits, Capacity, MaxUnits} \subseteq Nat \ {0}

VARIABLES
  reader,        \* Readers -> control state, size, locked slots, next slot, id
  reservation,   \* Reservations -> row of snapshot_reservations
  requested,     \* messages on their way to the coordinator
  answer,        \* Reservations -> what the coordinator answered to reserve
  snapshots      \* files in artifact-snapshots, by the id in their name

snapVars == <<reader, reservation, requested, answer, snapshots>>

----------------------------------------------------------------------------
Away == [pc |-> "away", units |-> 0, locks |-> {}, slot |-> 0, id |-> NoReservation]
Unknown == [state |-> "none", slots |-> 0]
Ceiling(units) == (units + SlotUnits - 1) \div SlotUnits     \* bytes.div_ceil(SLOT)
ReaderPcs == {"away", "locking", "reserving", "asking", "copying", "serving",
              "dropping", "freeing"}

SnapTypeOK ==
  /\ \A r \in Readers :
       /\ reader[r].pc \in ReaderPcs /\ reader[r].units \in 0..MaxUnits
       /\ reader[r].locks \subseteq 1..Slots /\ reader[r].slot \in 0..Slots
       /\ reader[r].id \in Reservations \cup {NoReservation}
  /\ \A i \in Reservations : reservation[i] = Unknown \/
       reservation[i] \in [state : {"HELD", "RELEASED"}, slots : 1..Ceiling(MaxUnits)]
  /\ requested \subseteq [op : {"reserve", "release"}, id : Reservations, slots : 1..Ceiling(MaxUnits)]
  /\ answer \in [Reservations -> {"none", "HELD", "RELEASED", "exhausted"}]
  /\ snapshots \subseteq Reservations

SnapInit ==
  /\ reader = [r \in Readers |-> Away]
  /\ reservation = [i \in Reservations |-> Unknown]
  /\ requested = {} /\ snapshots = {}
  /\ answer = [i \in Reservations |-> "none"]

(* SUM of the slots of the HELD rows: each slot of each of them counted once. *)
Held == {i \in Reservations : reservation[i].state = "HELD"}
HeldSlots == Cardinality(UNION {{i} \X (1..reservation[i].slots) : i \in Held})
PermitsUsed == MapThenSumSet(LAMBDA r : reader[r].units, Readers)
LockedSlots == UNION {reader[r].locks : r \in Readers}
InUse(i) == \E r \in Readers : reader[r].id = i
ReaderGoes(r, pc) == reader' = [reader EXCEPT ![r].pc = pc]
FreshId(i) == reservation[i] = Unknown /\ ~InUse(i) /\ \A m \in requested : m.id # i

----------------------------------------------------------------------------
(* content_snapshot: the permits, all or none. *)
BeginSnapshot(r, units) ==
  /\ reader[r].pc = "away"
  /\ PermitsUsed + units <= Permits
  /\ reader' = [reader EXCEPT ![r] = [Away EXCEPT !.pc = "locking", !.units = units]]
  /\ UNCHANGED <<reservation, requested, answer, snapshots>>

(* reserve_shared: try the slots in order and keep those that were free.   *)
(* Too few of them: all are given back and the request is refused.         *)
TrySlot(r) ==
  LET slot == reader[r].slot + 1
      locks == reader[r].locks \cup ({slot} \ LockedSlots)
      enough == Cardinality(locks) = Ceiling(reader[r].units) IN
  /\ reader[r].pc = "locking"
  /\ reader' = [reader EXCEPT ![r] =
       IF slot > Slots THEN Away
       ELSE [@ EXCEPT !.slot = slot, !.locks = locks,
                      !.pc = IF enough THEN "reserving" ELSE "locking"]]
  /\ UNCHANGED <<reservation, requested, answer, snapshots>>

(* Coordinator.reserve with a fresh id. *)
AskCoordinator(r, i) ==
  /\ reader[r].pc = "reserving" /\ FreshId(i)
  /\ requested' = requested \cup {[op |-> "reserve", id |-> i, slots |-> Ceiling(reader[r].units)]}
  /\ reader' = [reader EXCEPT ![r].pc = "asking", ![r].id = i]
  /\ UNCHANGED <<reservation, answer, snapshots>>

(* Variant of Exhausted, what is asked for not counted. *)
FullAlready(slots) == HeldSlots >= Capacity

Exhausted(slots) == HeldSlots + slots > Capacity

(* reserve_snapshot: a known id is answered with its row, whatever its state. *)
CoordinatorReserves(m) ==
  /\ m.op = "reserve"
  /\ IF reservation[m.id] # Unknown
     THEN /\ answer' = [answer EXCEPT ![m.id] = reservation[m.id].state]
          /\ UNCHANGED reservation
     ELSE IF Exhausted(m.slots)
     THEN /\ answer' = [answer EXCEPT ![m.id] = "exhausted"]
          /\ UNCHANGED reservation
     ELSE /\ reservation' = [reservation EXCEPT ![m.id] = [state |-> "HELD", slots |-> m.slots]]
          /\ answer' = [answer EXCEPT ![m.id] = "HELD"]

(* release_snapshot: of a known row, once. *)
CoordinatorReleases(m) ==
  /\ m.op = "release"
  /\ reservation' = IF reservation[m.id] = Unknown THEN reservation
                    ELSE [reservation EXCEPT ![m.id].state = "RELEASED"]
  /\ UNCHANGED answer

(* A message is handled once or repeated later, or is lost. *)
Coordinator ==
  /\ \E m \in requested :
       /\ CoordinatorReserves(m) \/ CoordinatorReleases(m)
       /\ \/ UNCHANGED requested
          \/ requested' = requested \ {m}
  /\ UNCHANGED <<reader, snapshots>>

LoseMessage ==
  /\ \E m \in requested : requested' = requested \ {m}
  /\ UNCHANGED <<reader, reservation, answer, snapshots>>

(* Only HELD opens the file; a refusal, or no answer in time, drops the    *)
(* request, and what the coordinator may have reserved for it stays.       *)
HearAnswer(r) ==
  /\ reader[r].pc = "asking"
  /\ \/ answer[reader[r].id] = "HELD" /\ ReaderGoes(r, "copying")
     \/ reader' = [reader EXCEPT ![r] = Away]
  /\ UNCHANGED <<reservation, requested, answer, snapshots>>

(* The file is made and locked, or cannot be.  The copy holds what was registered, or not. *)
CopySnapshot(r) ==
  /\ reader[r].pc = "copying"
  /\ \/ snapshots' = snapshots \cup {reader[r].id} /\ ReaderGoes(r, "serving")
     \/ ReaderGoes(r, "dropping") /\ UNCHANGED snapshots
  /\ UNCHANGED <<reservation, requested, answer>>

(* The body was sent, the digest differed or the client went; or the answer *)
(* is given without a body (the range was refused), and then the budget,   *)
(* the last of the locals, is dropped before the file.                     *)
EndServing(r) ==
  /\ reader[r].pc = "serving"
  /\ \/ ReaderGoes(r, "dropping")
     \/ reader' = [reader EXCEPT ![r].pc = "dropping", ![r].units = 0, ![r].locks = {}]
  /\ UNCHANGED <<reservation, requested, answer, snapshots>>

(* SnapshotFile::drop: the release is sent only when the file is gone. *)
DropSnapshot(r) ==
  LET i == reader[r].id IN
  /\ reader[r].pc = "dropping"
  /\ \/ /\ snapshots' = snapshots \ {i}
        /\ requested' = requested \cup {[op |-> "release", id |-> i, slots |-> reservation[i].slots]}
     \/ i \in snapshots /\ UNCHANGED <<snapshots, requested>>
  /\ reader' = [reader EXCEPT ![r].pc = "freeing", ![r].id = NoReservation]
  /\ UNCHANGED <<reservation, answer>>

(* SnapshotBudget is dropped after the file, unless it went before (EndServing). *)
FreeSlots(r) ==
  /\ reader[r].pc = "freeing"
  /\ reader' = [reader EXCEPT ![r] = Away]
  /\ UNCHANGED <<reservation, requested, answer, snapshots>>

(* The process dies: its locks are free, its files stay. *)
ProcessDies ==
  /\ \E r \in Readers : reader[r].pc # "away"
  /\ reader' = [r \in Readers |-> Away]
  /\ UNCHANGED <<reservation, requested, answer, snapshots>>

(* sweep_snapshots: files nobody holds the lock of, once they are old. *)
SweepSnapshot(i) ==
  /\ i \in snapshots /\ ~InUse(i)
  /\ snapshots' = snapshots \ {i}
  /\ UNCHANGED <<reader, reservation, requested, answer>>

(* reconcile: the operator confirms that the owner ended and left no file. *)
ReconcileReservation(i) ==
  /\ reservation[i].state = "HELD"
  /\ ~InUse(i) /\ i \notin snapshots
  /\ reservation' = [reservation EXCEPT ![i].state = "RELEASED"]
  /\ UNCHANGED <<reader, requested, answer, snapshots>>

SnapNext ==
  \/ \E r \in Readers :
       \/ \E units \in 1..MaxUnits : BeginSnapshot(r, units)
       \/ \E i \in Reservations : AskCoordinator(r, i)
       \/ TrySlot(r) \/ HearAnswer(r) \/ CopySnapshot(r)
       \/ EndServing(r) \/ DropSnapshot(r) \/ FreeSlots(r)
  \/ Coordinator \/ LoseMessage \/ ProcessDies
  \/ \E i \in Reservations : SweepSnapshot(i) \/ ReconcileReservation(i)

SnapSpec == SnapInit /\ [][SnapNext]_snapVars

----------------------------------------------------------------------------
(* budget.rs reserve_snapshot and artifacts.rs SnapshotFile: every file on *)
(* disk, also one a dead process or a failed unlink left, is paid for by a *)
(* reservation that is still held, and these never exceed the capacity,    *)
(* whatever was late, repeated or lost on the way to the coordinator.      *)
DiskIsPaidFor ==
  /\ \A i \in snapshots : reservation[i].state = "HELD"
  /\ HeldSlots <= Capacity
=============================================================================
