------------------------------ MODULE RateLimit ------------------------------
(***************************************************************************)
(* The request bucket of one identity at the MCP endpoint.  Credit is      *)
(* counted in ticks times requests per minute, so that no division is      *)
(* needed to refill it; a refused caller is told whole seconds to wait.    *)
(***************************************************************************)
EXTENDS Naturals, Sequences

CONSTANTS PerMinute, Burst,   \* RequestLimits
          Minute, SecondTicks,     \* lengths in ticks (nanoseconds in the code)
          MaxTicks, MaxWait   \* bounds on the clock and on one pause

ASSUME RateAssumption ==
  /\ {PerMinute, Burst, Minute, SecondTicks} \subseteq Nat \ {0} /\ {MaxTicks, MaxWait} \subseteq Nat

VARIABLES
  clock,      \* Instant::now
  bucket,     \* of the identity: none yet, or credit and time of the last request
  admits      \* the times of the requests admitted

rateVars == <<clock, bucket, admits>>

Full == Burst * Minute
NoBucket == [known |-> FALSE, updated |-> 0, credit |-> 0]

RateTypeOK ==
  /\ clock \in 0..MaxTicks /\ admits \in Seq(0..MaxTicks)
  /\ bucket \in [known : BOOLEAN, updated : 0..clock, credit : 0..Full]

RateInit == clock = 0 /\ bucket = NoBucket /\ admits = <<>>

(* The credit of the bucket at a time. *)
CreditAt(b, at) ==
  LET refilled == b.credit + (at - b.updated) * PerMinute IN
  IF ~b.known \/ refilled > Full THEN Full ELSE refilled

(* Variant of DivCeil, rounded down. *)
DivFloor(n, d) == n \div d

DivCeil(n, d) == (n + d - 1) \div d

(* The wait a refused caller is told, in seconds. *)
RetryAfter(credit) == DivCeil(DivCeil(Minute - credit, PerMinute), SecondTicks)

Admit ==
  LET credit == CreditAt(bucket, clock) IN
  /\ IF credit >= Minute
     THEN /\ bucket' = [known |-> TRUE, updated |-> clock, credit |-> credit - Minute]
          /\ admits' = Append(admits, clock)
     ELSE /\ bucket' = [known |-> TRUE, updated |-> clock, credit |-> credit]
          /\ UNCHANGED admits
  /\ UNCHANGED clock

Pause ==
  /\ \E ticks \in 1..MaxWait : clock + ticks <= MaxTicks /\ clock' = clock + ticks
  /\ UNCHANGED <<bucket, admits>>

RateNext == Admit \/ Pause

RateSpec == RateInit /\ [][RateNext]_rateVars

----------------------------------------------------------------------------
(* rate_limit.rs admit: in no stretch of time are more requests admitted   *)
(* than the burst and what the rate gives for that stretch; and the wait a *)
(* refused caller is told suffices, and one second less does not.          *)
RateIsKept ==
  /\ \A i, k \in DOMAIN admits : i <= k =>
       (k - i + 1) * Minute <= Full + PerMinute * (admits[k] - admits[i])
  /\ LET credit == CreditAt(bucket, clock)
         wait == RetryAfter(credit) IN
     credit < Minute =>
       /\ wait > 0 /\ CreditAt(bucket, clock + wait * SecondTicks) >= Minute
       /\ CreditAt(bucket, clock + (wait - 1) * SecondTicks) < Minute
=============================================================================
