---------------------------- MODULE ObserverLoop ----------------------------
(***************************************************************************)
(* printer_observer.rs run_until: one process that keeps a bounded number  *)
(* of observations in flight and walks round the configured printers.      *)
(***************************************************************************)
EXTENDS Naturals, FiniteSets

CONSTANTS Count,         \* configured printers, numbered from 0
          Concurrency,   \* Config.concurrency
          Slow           \* printers whose observation may take forever

ASSUME LoopAssumption ==
  /\ {Count, Concurrency} \subseteq Nat \ {0}
  /\ Slow \subseteq 0..Count - 1 /\ Cardinality(Slow) < Concurrency

VARIABLES loop           \* cursor, scanned since the last tick, in flight

Printers == 0..Count - 1

LoopTypeOK == loop \in [cursor : Printers, scanned : 0..Count, flight : SUBSET Printers]

LoopInit == loop = [cursor |-> 0, scanned |-> Count, flight |-> {}]

(* The inner loop: to the next printer, one that is in flight is passed by. *)
OneMore(s) ==
  IF Cardinality(s.flight) = Concurrency \/ s.scanned = Count THEN s
  ELSE [cursor |-> (s.cursor + 1) % Count, scanned |-> s.scanned + 1,
        flight |-> s.flight \cup {s.cursor}]

Filled(start) ==
  LET after[n \in 0..Count] == IF n = 0 THEN start ELSE OneMore(after[n - 1]) IN after[Count]

(* Variant of EverySecond, always from the first printer. *)
FromTheFirst == loop' = Filled([loop EXCEPT !.scanned = 0, !.cursor = 0])

EverySecond == loop' = Filled([loop EXCEPT !.scanned = 0])

Observed(p) == p \in loop.flight /\ loop' = Filled([loop EXCEPT !.flight = @ \ {p}])

LoopNext == EverySecond \/ \E p \in Printers : Observed(p)

LoopSpec == LoopInit /\ [][LoopNext]_loop /\ WF_loop(EverySecond) /\ \A p \in Printers \ Slow : WF_loop(Observed(p))

(* printer_observer.rs run_until: slow peers are no barrier, every printer *)
(* is observed again and again.                                            *)
EveryPrinterObserved == \A p \in Printers : []<>(p \in loop.flight)
=============================================================================
