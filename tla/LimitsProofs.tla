---------------------------- MODULE LimitsProofs ------------------------------
(***************************************************************************)
(* Proofs about what the server shares out: the places in the queue, for   *)
(* any number of jobs, any maximum priority and any aging interval; the    *)
(* disk behind the snapshots, for any number of readers, reservations and  *)
(* slots; and the requests of an identity, for any burst and any rate.     *)
(***************************************************************************)
EXTENDS QueueAging, RateLimit, Snapshots, TLAPS, FiniteSetTheorems

-----------------------------------------------------------------------------
(* The order of the queue. *)

(* Dividing by the interval keeps a lower bound of whole intervals. *)
LEMMA WholeIntervals ==
  ASSUME NEW a \in Nat, NEW n \in Nat, NEW b \in Nat \ {0}, a >= n * b
  PROVE  a \div b \in Nat /\ a \div b >= n
<1> DEFINE q == a \div b
<1>1. q \in Nat /\ a < b * (q + 1)
  OBVIOUS
<1> HIDE DEF q
<1>2. SUFFICES ASSUME q < n PROVE FALSE
  BY <1>1 DEF q
<1>3. PICK m \in Nat : n = (q + 1) + m
  <2>1. n - (q + 1) \in Nat /\ n = (q + 1) + (n - (q + 1))
    BY <1>1, <1>2
  <2> QED BY <2>1
<1>4. n * b = b * (q + 1) + m * b /\ m * b >= 0
  BY <1>1, <1>3
<1> QED BY <1>1, <1>4

(* Waiting earns points and never costs any: the points are a natural      *)
(* number, and the score lies between 0 and the maximum.                    *)
LEMMA ScoreInRange ==
  ASSUME NEW j \in Jobs, age[j] \in Int, priority[j] \in 0..PriorityMax
  PROVE  Waited(j) \in Nat /\ Waited(j) \div Aging \in Nat /\ Score(j) \in 0..PriorityMax
<1>1. OldEnough \in Nat
  BY AgingAssumption DEF OldEnough
<1>2. Waited(j) \in Nat
  BY <1>1 DEF Waited, Greatest, Least
<1>3. Waited(j) \div Aging \in Nat
  <2>1. Waited(j) >= 0 * Aging
    BY <1>2, AgingAssumption
  <2> QED BY <1>2, <2>1, WholeIntervals, AgingAssumption
<1> QED BY <1>2, <1>3, AgingAssumption DEF Score, Least

(* A job that has waited for the points it lacks has the maximum score. *)
LEMMA AgedHasMaximum ==
  ASSUME NEW j \in Jobs, age[j] \in Int, priority[j] \in 0..PriorityMax,
         age[j] >= (PriorityMax - priority[j]) * Aging
  PROVE  Score(j) = PriorityMax
<1> DEFINE lacking == PriorityMax - priority[j]
<1>1. lacking \in Nat /\ priority[j] \in Nat /\ PriorityMax = lacking + priority[j]
  BY AgingAssumption
<1>2. Waited(j) \in Nat /\ Waited(j) \div Aging \in Nat
  BY ScoreInRange
<1>3. OldEnough = lacking * Aging + priority[j] * Aging /\ priority[j] * Aging \in Nat
  BY <1>1, AgingAssumption DEF OldEnough
<1>4. lacking * Aging \in Nat
  BY <1>1, AgingAssumption
<1> HIDE DEF lacking
<1>5. age[j] >= lacking * Aging
  BY DEF lacking
<1>6. Waited(j) >= lacking * Aging
  BY <1>3, <1>4, <1>5 DEF Waited, Greatest, Least
<1>7. Waited(j) \div Aging >= lacking
  BY <1>1, <1>2, <1>6, WholeIntervals, AgingAssumption
<1> QED BY <1>1, <1>2, <1>7, AgingAssumption DEF Score, Least

-----------------------------------------------------------------------------
(* TypeOK without the conjunct on scores, which follows from the others.   *)
Typed ==
  /\ waiting \subseteq Jobs
  /\ held \subseteq waiting
  /\ priority \in [Jobs -> 0..PriorityMax]
  /\ age \in [Jobs -> Int]
  /\ \A j \in waiting : age[j] <= MaxAge
  /\ earlier \subseteq waiting \X waiting
  /\ rollback \in 0..MaxRollback

LEMMA TypedInitially == Init => Typed
BY AgingAssumption DEF Init, Typed

LEMMA TypedStep == Typed /\ [Next]_vars => Typed'
<1> SUFFICES ASSUME Typed, [Next]_vars PROVE Typed'
  OBVIOUS
<1>0. MaxAge \in Nat
  BY AgingAssumption DEF MaxAge, OldEnough
<1>1. ASSUME NEW j \in Jobs, NEW p \in 0..PriorityMax, Submit(j, p) PROVE Typed'
  BY <1>0, <1>1 DEF Typed, Submit
<1>2. ASSUME NEW j \in Jobs, Hold(j) PROVE Typed'
  BY <1>2 DEF Typed, Hold, Queued
<1>3. ASSUME NEW j \in Jobs, Release(j) PROVE Typed'
  BY <1>3 DEF Typed, Release
<1>4. ASSUME NEW j \in Jobs, Leave(j) PROVE Typed'
  BY <1>0, <1>4, AgingAssumption DEF Typed, Leave
<1>5. CASE Tick
  BY <1>0, <1>5 DEF Typed, Tick, Least
<1>6. CASE ClockBack
  BY <1>0, <1>6, AgingAssumption DEF Typed, ClockBack
<1>7. CASE UNCHANGED vars
  BY <1>7 DEF Typed, vars
<1> QED
  BY <1>1, <1>2, <1>3, <1>4, <1>5, <1>6, <1>7 DEF Next, Serve, Dispatch, Cancel

LEMMA TypedIsTypeOK == Typed => TypeOK
BY ScoreInRange DEF Typed, TypeOK

LEMMA AlwaysTyped == Spec => []Typed
BY TypedInitially, TypedStep, PTL DEF Spec

(* Whatever the clock does, every waiting job keeps a score within the     *)
(* range of priorities and a place in the order (next_queued_at).           *)
THEOREM QueueTypeCorrect == Spec => []TypeOK
BY AlwaysTyped, TypedIsTypeOK, PTL

(* No starvation by new arrivals: a job that has waited for the points it  *)
(* lacks is overtaken by no job that came later, whatever the load.         *)
THEOREM AgedNotOvertaken == Spec => NoOvertakingOfAged
<1>1. ASSUME Typed, NEW j \in Jobs, NEW k \in Jobs, Dispatch(k), j \in Queued \ {k},
             age[j] >= (PriorityMax - priority[j]) * Aging
      PROVE  Precedes(k, j)
  <2>1. Score(j) = PriorityMax
    BY <1>1, AgedHasMaximum DEF Typed
  <2>2. Score(k) \in 0..PriorityMax
    BY <1>1, ScoreInRange DEF Typed
  <2>3. Score(k) > Score(j) \/ (Score(k) = Score(j) /\ Precedes(k, j))
    BY <1>1 DEF Dispatch, IsNext
  <2> QED BY <2>1, <2>2, <2>3, AgingAssumption
<1> DEFINE A == \A j, k \in Jobs :
       /\ Dispatch(k)
       /\ j \in Queued \ {k}
       /\ age[j] >= (PriorityMax - priority[j]) * Aging
       => Precedes(k, j)
<1>2. Typed => A
  BY <1>1
<1> QED BY <1>2, AlwaysTyped, PTL DEF NoOvertakingOfAged

-----------------------------------------------------------------------------
(* The rate of an identity. *)

(* What the rate gives for the time since a request pays for it, for all    *)
(* that were admitted after it, and for the credit that is left.           *)
RateInv ==
  /\ clock \in 0..MaxTicks
  /\ admits \in Seq(0..MaxTicks)
  /\ bucket \in [known : BOOLEAN, updated : 0..MaxTicks, credit : 0..Full]
  /\ bucket.updated <= clock
  /\ ~bucket.known => admits = <<>>
  /\ \A i \in DOMAIN admits : /\ admits[i] <= bucket.updated
       /\ (Len(admits) - i + 1) * Minute + bucket.credit <= Full + PerMinute * (bucket.updated - admits[i])
  /\ \A i, k \in DOMAIN admits : i <= k =>
       (k - i + 1) * Minute <= Full + PerMinute * (admits[k] - admits[i])

LEMMA FullTyped == Full \in Nat /\ Minute <= Full /\ {PerMinute, Burst, Minute, SecondTicks} \subseteq Nat \ {0}
<1>1. {PerMinute, Burst, Minute, SecondTicks} \subseteq Nat \ {0}
  BY RateAssumption
<1>2. PICK rest \in Nat : Burst = rest + 1
  <2>1. Burst - 1 \in Nat /\ Burst = (Burst - 1) + 1
    BY <1>1
  <2> QED BY <2>1
<1>3. Burst * Minute = rest * Minute + Minute /\ rest * Minute >= 0
  BY <1>1, <1>2
<1> QED BY <1>1, <1>3 DEF Full

LEMMA ProductTyped ==
  ASSUME NEW a \in Nat, NEW b \in Nat
  PROVE  a * b \in Nat
OBVIOUS

LEMMA ProductOfSum ==
  ASSUME NEW a \in Nat, NEW b \in Nat, NEW m \in Nat
  PROVE  (a + b) * m = a * m + b * m /\ m * (a + b) = m * a + b * m
OBVIOUS

LEMMA ElementTyped ==
  ASSUME NEW S, NEW q \in Seq(S), NEW i \in DOMAIN q
  PROVE  q[i] \in S
OBVIOUS

(* An admitted request has a place in the sequence and a time up to now. *)
LEMMA AdmittedTyped ==
  ASSUME RateInv, NEW i \in DOMAIN admits
  PROVE  /\ i \in Nat /\ i <= Len(admits) /\ Len(admits) \in Nat /\ Len(admits) - i + 1 \in Nat
         /\ admits[i] \in Nat /\ admits[i] <= bucket.updated /\ admits[i] <= clock
         /\ bucket.known
<1>1. admits \in Seq(0..MaxTicks) /\ DOMAIN admits = 1..Len(admits) /\ Len(admits) \in Nat
  BY DEF RateInv
<1>2. admits[i] \in 0..MaxTicks
  BY <1>1, ElementTyped
<1>3. admits[i] \in Nat /\ i \in Nat /\ i <= Len(admits)
  BY <1>1, <1>2
<1>4. admits[i] <= bucket.updated /\ bucket.updated <= clock /\ bucket.updated \in 0..MaxTicks
      /\ clock \in 0..MaxTicks
  BY DEF RateInv
<1>5. bucket.known
  BY <1>1 DEF RateInv
<1> QED BY <1>1, <1>3, <1>4, <1>5

(* Division rounded up. *)
LEMMA DivCeilBounds ==
  ASSUME NEW n \in Nat, NEW d \in Nat \ {0}
  PROVE  /\ DivCeil(n, d) \in Nat /\ DivCeil(n, d) * d >= n /\ DivCeil(n, d) * d < n + d
         /\ n > 0 => DivCeil(n, d) > 0
<1> DEFINE q == (n + d - 1) \div d
<1>1. q \in Nat /\ d * q <= n + d - 1 /\ n + d - 1 < d * (q + 1)
  OBVIOUS
<1>2. DivCeil(n, d) = q
  BY DEF DivCeil
<1> HIDE DEF q
<1>3. d * (q + 1) = q * d + d /\ d * q = q * d
  BY <1>1
<1>4. n > 0 => q > 0
  <2> SUFFICES ASSUME n > 0, q = 0 PROVE FALSE
    BY <1>1
  <2> QED BY <1>1
<1> QED BY <1>1, <1>2, <1>3, <1>4

(* The credit at a later time is at most what it was and what the rate gave. *)
LEMMA CreditTyped ==
  ASSUME RateInv, NEW at \in Nat, at >= bucket.updated
  PROVE  /\ CreditAt(bucket, at) \in 0..Full
         /\ bucket.known => CreditAt(bucket, at) <= bucket.credit + (at - bucket.updated) * PerMinute
<1>1. bucket.credit \in Nat /\ at - bucket.updated \in Nat /\ bucket.updated \in Nat
  BY FullTyped, RateAssumption DEF RateInv
<1> DEFINE refilled == bucket.credit + (at - bucket.updated) * PerMinute
<1>2. refilled \in Nat
  BY <1>1, FullTyped
<1>3. CreditAt(bucket, at) = IF ~bucket.known \/ refilled > Full THEN Full ELSE refilled
  BY DEF CreditAt
<1> HIDE DEF refilled
<1>4. CreditAt(bucket, at) \in 0..Full /\ (bucket.known => CreditAt(bucket, at) <= refilled)
  BY <1>2, <1>3, FullTyped
<1> QED BY <1>4 DEF refilled

LEMMA RateInitHolds == RateInit => RateInv
BY FullTyped, RateAssumption DEF RateInit, RateInv, NoBucket

LEMMA CreditFormula ==
  ASSUME NEW at, bucket.known
  PROVE  CreditAt(bucket, at) = IF bucket.credit + (at - bucket.updated) * PerMinute > Full THEN Full
                                ELSE bucket.credit + (at - bucket.updated) * PerMinute
BY DEF CreditAt

(* The wait that is told ends when the credit for one request is there, *)
(* and a second earlier it is not. *)
LEMMA WaitSuffices ==
  ASSUME RateInv
  PROVE  LET credit == CreditAt(bucket, clock)
             wait == RetryAfter(credit) IN
         credit < Minute =>
           /\ wait > 0 /\ CreditAt(bucket, clock + wait * SecondTicks) >= Minute
           /\ CreditAt(bucket, clock + (wait - 1) * SecondTicks) < Minute
<1> DEFINE credit == CreditAt(bucket, clock)
           short == Minute - credit
           ticks == DivCeil(short, PerMinute)
           wait == DivCeil(ticks, SecondTicks)
<1> SUFFICES ASSUME credit < Minute
             PROVE  /\ wait > 0 /\ CreditAt(bucket, clock + wait * SecondTicks) >= Minute
                    /\ CreditAt(bucket, clock + (wait - 1) * SecondTicks) < Minute
  BY DEF RetryAfter
<1>0. /\ clock \in Nat /\ bucket.updated \in Nat /\ bucket.credit \in Nat /\ bucket.updated <= clock
      /\ clock - bucket.updated \in Nat
  BY FullTyped, RateAssumption DEF RateInv
<1>1. bucket.known /\ credit = bucket.credit + (clock - bucket.updated) * PerMinute /\ credit \in Nat
  <2>1. (clock - bucket.updated) * PerMinute \in Nat
    BY <1>0, FullTyped
  <2> QED BY <1>0, <2>1, FullTyped DEF CreditAt
<1> HIDE DEF credit
<1>2. short \in Nat /\ short > 0 /\ credit + short = Minute
  BY <1>1, FullTyped
<1> HIDE DEF short
<1>3. ticks \in Nat /\ ticks * PerMinute >= short /\ ticks * PerMinute < short + PerMinute /\ ticks > 0
  BY <1>2, FullTyped, DivCeilBounds
<1> HIDE DEF ticks
<1>4. wait \in Nat /\ wait * SecondTicks >= ticks /\ wait * SecondTicks < ticks + SecondTicks /\ wait > 0
  BY <1>3, FullTyped, DivCeilBounds
<1> HIDE DEF wait
<1> DEFINE long == wait * SecondTicks
           brief == (wait - 1) * SecondTicks
<1>5. long \in Nat /\ brief \in Nat /\ long >= ticks /\ brief <= ticks - 1
  <2>1. brief = wait * SecondTicks - SecondTicks
    BY <1>4, FullTyped
  <2>2. wait - 1 \in Nat
    BY <1>4
  <2>3. brief \in Nat
    BY <2>2, FullTyped
  <2>4. wait * SecondTicks \in Nat
    BY <1>4, FullTyped
  <2> QED BY <1>3, <1>4, <2>1, <2>3, <2>4, FullTyped
<1> HIDE DEF long, brief
<1>6. long * PerMinute >= short
  <2>1. PICK more \in Nat : long = ticks + more
    <3>1. long - ticks \in Nat /\ long = ticks + (long - ticks)
      BY <1>3, <1>5
    <3> QED BY <3>1
  <2>2. long * PerMinute = ticks * PerMinute + more * PerMinute /\ more * PerMinute >= 0
    BY <1>3, <2>1, FullTyped
  <2> QED BY <1>2, <1>3, <2>1, <2>2, FullTyped
<1>7. brief * PerMinute < short
  <2>1. PICK more \in Nat : ticks = brief + 1 + more
    <3>1. ticks - (brief + 1) \in Nat /\ ticks = brief + 1 + (ticks - (brief + 1))
      BY <1>3, <1>5
    <3> QED BY <3>1
  <2>2. ticks * PerMinute = brief * PerMinute + PerMinute + more * PerMinute /\ more * PerMinute >= 0
    BY <1>5, <2>1, FullTyped
  <2>3. ticks * PerMinute < short + PerMinute
    BY <1>3
  <2>4. brief * PerMinute \in Nat /\ more * PerMinute \in Nat
    BY <1>5, <2>1, FullTyped
  <2> QED BY <1>2, <2>2, <2>3, <2>4, FullTyped
<1>8. CreditAt(bucket, clock + long) >= Minute
  <2>0. PICK at \in Nat : at = clock + long
    BY <1>0, <1>5
  <2> DEFINE more == long * PerMinute
             refilled == bucket.credit + (at - bucket.updated) * PerMinute
  <2>1. more \in Nat
    BY <1>5, FullTyped, ProductTyped
  <2>2. CreditAt(bucket, at) = IF refilled > Full THEN Full ELSE refilled
    BY <1>1, CreditFormula
  <2>3. refilled = credit + more /\ (more >= short)
    <3>1. at - bucket.updated = (clock - bucket.updated) + long
      BY <1>0, <1>5, <2>0
    <3>2. ((clock - bucket.updated) + long) * PerMinute = (clock - bucket.updated) * PerMinute + long * PerMinute
      BY <1>0, <1>5, FullTyped, ProductOfSum
    <3>3. (clock - bucket.updated) * PerMinute \in Nat
      BY <1>0, FullTyped, ProductTyped
    <3> QED BY <1>0, <1>1, <1>6, <2>1, <3>1, <3>2, <3>3
  <2> HIDE DEF more, refilled
  <2> QED BY <1>1, <1>2, <2>0, <2>1, <2>2, <2>3, FullTyped
<1>9. CreditAt(bucket, clock + brief) < Minute
  <2>0. PICK at \in Nat : at = clock + brief
    BY <1>0, <1>5
  <2> DEFINE more == brief * PerMinute
             refilled == bucket.credit + (at - bucket.updated) * PerMinute
  <2>1. more \in Nat
    BY <1>5, FullTyped, ProductTyped
  <2>2. CreditAt(bucket, at) = IF refilled > Full THEN Full ELSE refilled
    BY <1>1, CreditFormula
  <2>3. refilled = credit + more /\ (more < short)
    <3>1. at - bucket.updated = (clock - bucket.updated) + brief
      BY <1>0, <1>5, <2>0
    <3>2. ((clock - bucket.updated) + brief) * PerMinute = (clock - bucket.updated) * PerMinute + brief * PerMinute
      BY <1>0, <1>5, FullTyped, ProductOfSum
    <3>3. (clock - bucket.updated) * PerMinute \in Nat
      BY <1>0, FullTyped, ProductTyped
    <3> QED BY <1>0, <1>1, <1>7, <2>1, <3>1, <3>2, <3>3
  <2> HIDE DEF more, refilled
  <2> QED BY <1>1, <1>2, <2>0, <2>1, <2>2, <2>3, FullTyped
<1> QED BY <1>4, <1>8, <1>9 DEF long, brief

LEMMA RateInvImplies == RateInv => RateTypeOK /\ RateIsKept
<1> SUFFICES ASSUME RateInv PROVE RateTypeOK /\ RateIsKept
  OBVIOUS
<1>1. RateTypeOK
  BY FullTyped, RateAssumption DEF RateInv, RateTypeOK
<1>2. RateIsKept
  BY WaitSuffices DEF RateInv, RateIsKept
<1> QED BY <1>1, <1>2

LEMMA AdmitKeeps == RateInv /\ Admit => RateInv'
<1> SUFFICES ASSUME RateInv, Admit PROVE RateInv'
  OBVIOUS
<1> DEFINE credit == CreditAt(bucket, clock)
           given == (clock - bucket.updated) * PerMinute
<1>0. /\ clock \in 0..MaxTicks /\ clock \in Nat /\ bucket.updated \in Nat /\ bucket.credit \in Nat
      /\ bucket.updated <= clock /\ admits \in Seq(0..MaxTicks) /\ Len(admits) \in Nat
      /\ clock - bucket.updated \in Nat
  BY FullTyped, RateAssumption DEF RateInv
<1>1. credit \in 0..Full /\ (bucket.known => credit <= bucket.credit + given)
  BY <1>0, CreditTyped
<1>2. given \in Nat
  BY <1>0, FullTyped
<1>3. \A i \in DOMAIN admits :
        (Len(admits) - i + 1) * Minute + credit <= Full + PerMinute * (clock - admits[i])
  <2> SUFFICES ASSUME NEW i \in DOMAIN admits
               PROVE  (Len(admits) - i + 1) * Minute + credit <= Full + PerMinute * (clock - admits[i])
    OBVIOUS
  <2>1. bucket.known
    BY AdmittedTyped
  <2>2. /\ admits[i] \in Nat /\ i \in Nat /\ i <= Len(admits) /\ admits[i] <= bucket.updated
        /\ Len(admits) - i + 1 \in Nat /\ bucket.updated - admits[i] \in Nat
    BY <1>0, AdmittedTyped
  <2>3. PerMinute * (clock - admits[i]) = PerMinute * (bucket.updated - admits[i]) + given
    <3>1. clock - admits[i] = (bucket.updated - admits[i]) + (clock - bucket.updated)
      BY <1>0, <2>2
    <3>2. PICK x \in Nat, y \in Nat : x = bucket.updated - admits[i] /\ y = clock - bucket.updated
      BY <1>0, <2>2
    <3>3. PerMinute * (x + y) = PerMinute * x + PerMinute * y /\ PerMinute * y = y * PerMinute
      BY ProductOfSum, FullTyped
    <3> QED BY <3>1, <3>2, <3>3
  <2>4. (Len(admits) - i + 1) * Minute + bucket.credit <= Full + PerMinute * (bucket.updated - admits[i])
    BY DEF RateInv
  <2>5. (Len(admits) - i + 1) * Minute \in Nat /\ PerMinute * (bucket.updated - admits[i]) \in Nat
    BY <2>2, FullTyped, ProductTyped
  <2> DEFINE owed == (Len(admits) - i + 1) * Minute
             paid == PerMinute * (bucket.updated - admits[i])
             all == PerMinute * (clock - admits[i])
  <2>6. credit \in Nat /\ credit <= bucket.credit + given
    BY <1>1, <2>1, FullTyped
  <2>7. owed + bucket.credit <= Full + paid /\ all = paid + given /\ owed \in Nat /\ paid \in Nat
    BY <2>3, <2>4, <2>5
  <2> HIDE DEF given, credit, owed, paid, all
  <2>8. owed + credit <= Full + all
    BY <1>0, <1>2, <2>6, <2>7, FullTyped
  <2> QED BY <2>8 DEF owed, all
<1> HIDE DEF given
<1>4. CASE credit >= Minute
  <2>1. /\ bucket' = [known |-> TRUE, updated |-> clock, credit |-> credit - Minute]
        /\ admits' = Append(admits, clock) /\ clock' = clock
    BY <1>4 DEF Admit
  <2> HIDE DEF credit
  <2>2. /\ admits' \in Seq(0..MaxTicks) /\ Len(admits') = Len(admits) + 1
        /\ \A i \in DOMAIN admits : admits'[i] = admits[i]
        /\ admits'[Len(admits')] = clock
        /\ \A i \in DOMAIN admits' : i \in DOMAIN admits \/ i = Len(admits')
    BY <1>0, <2>1
  <2>3. bucket' \in [known : BOOLEAN, updated : 0..MaxTicks, credit : 0..Full] /\ bucket'.known
        /\ bucket'.updated = clock /\ bucket'.credit = credit - Minute /\ credit - Minute \in Nat
    BY <1>0, <1>1, <1>4, <2>1, FullTyped
  <2>4. \A i \in DOMAIN admits' : /\ admits'[i] <= clock
          /\ (Len(admits') - i + 1) * Minute + (credit - Minute) <= Full + PerMinute * (clock - admits'[i])
    <3> SUFFICES ASSUME NEW i \in DOMAIN admits'
                 PROVE  /\ admits'[i] <= clock
                        /\ (Len(admits') - i + 1) * Minute + (credit - Minute)
                             <= Full + PerMinute * (clock - admits'[i])
      OBVIOUS
    <3>1. CASE i \in DOMAIN admits
      <4>1. /\ admits'[i] = admits[i] /\ admits[i] <= clock /\ i \in Nat /\ i <= Len(admits) /\ admits[i] \in Nat
            /\ Len(admits) - i + 1 \in Nat /\ clock - admits[i] \in Nat
        BY <1>0, <2>2, <3>1, AdmittedTyped
      <4>2. (Len(admits') - i + 1) * Minute = (Len(admits) - i + 1) * Minute + Minute
        <5>1. Len(admits') - i + 1 = (Len(admits) - i + 1) + 1 /\ Minute \in Nat
          BY <1>0, <2>2, <4>1, FullTyped
        <5>2. ((Len(admits) - i + 1) + 1) * Minute = (Len(admits) - i + 1) * Minute + 1 * Minute
          BY <4>1, <5>1, ProductOfSum
        <5> QED BY <5>1, <5>2
      <4>3. (Len(admits) - i + 1) * Minute \in Nat /\ PerMinute * (clock - admits[i]) \in Nat
        BY <4>1, FullTyped, ProductTyped
      <4>4. (Len(admits) - i + 1) * Minute + credit <= Full + PerMinute * (clock - admits[i])
        BY <1>3, <3>1
      <4>5. credit \in Nat /\ Minute \in Nat /\ Full \in Nat
        BY <1>1, FullTyped
      <4> QED BY <4>1, <4>2, <4>3, <4>4, <4>5
    <3>2. CASE i = Len(admits')
      <4>1. (Len(admits') - i + 1) * Minute = Minute /\ clock - admits'[i] = 0
        BY <1>0, <2>2, <3>2, FullTyped
      <4>2. PerMinute * (clock - admits'[i]) = 0
        BY <4>1, FullTyped
      <4> QED BY <1>0, <1>1, <2>2, <3>2, <4>1, <4>2, FullTyped
    <3> QED BY <2>2, <3>1, <3>2
  <2>5. \A i, k \in DOMAIN admits' : i <= k =>
          (k - i + 1) * Minute <= Full + PerMinute * (admits'[k] - admits'[i])
    <3> SUFFICES ASSUME NEW i \in DOMAIN admits', NEW k \in DOMAIN admits', i <= k
                 PROVE  (k - i + 1) * Minute <= Full + PerMinute * (admits'[k] - admits'[i])
      OBVIOUS
    <3>1. CASE k \in DOMAIN admits
      <4>1. i \in DOMAIN admits
        BY <1>0, <2>2, <3>1
      <4> QED BY <2>2, <3>1, <4>1 DEF RateInv
    <3>2. CASE k = Len(admits')
      <4>1. (k - i + 1) * Minute + (credit - Minute) <= Full + PerMinute * (clock - admits'[i])
        BY <2>4, <3>2
      <4>2. admits'[k] = clock
        BY <2>2, <3>2
      <4>3. admits'[i] \in Nat /\ admits'[i] <= clock /\ k - i + 1 \in Nat /\ clock - admits'[i] \in Nat
        <5>0. admits'[i] \in 0..MaxTicks
          BY <2>2, ElementTyped
        <5>1. admits'[i] \in 0..MaxTicks /\ k \in Nat /\ i \in Nat
          BY <2>2, <5>0
        <5>2. admits'[i] \in Nat /\ admits'[i] <= clock
          BY <2>4, <5>1
        <5> QED BY <1>0, <5>1, <5>2
      <4>4. (k - i + 1) * Minute \in Nat /\ PerMinute * (clock - admits'[i]) \in Nat
        BY <4>3, FullTyped, ProductTyped
      <4> QED BY <2>3, <4>1, <4>2, <4>4, FullTyped
    <3> QED BY <2>2, <3>1, <3>2
  <2>6. clock' \in 0..MaxTicks /\ bucket'.updated <= clock' /\ bucket'.known
    BY <1>0, <2>1, <2>3
  <2> QED BY <2>2, <2>3, <2>4, <2>5, <2>6 DEF RateInv
<1>5. CASE ~(credit >= Minute)
  <2>1. /\ bucket' = [known |-> TRUE, updated |-> clock, credit |-> credit]
        /\ admits' = admits /\ clock' = clock
    BY <1>5 DEF Admit
  <2> HIDE DEF credit
  <2>2. \A i \in DOMAIN admits : admits[i] <= clock
    BY <1>0, RateAssumption DEF RateInv
  <2>3. bucket' \in [known : BOOLEAN, updated : 0..MaxTicks, credit : 0..Full] /\ bucket'.known
        /\ bucket'.updated = clock /\ bucket'.credit = credit
    BY <1>0, <1>1, <2>1
  <2> QED BY <1>0, <1>3, <2>1, <2>2, <2>3 DEF RateInv
<1> QED BY <1>4, <1>5

LEMMA RateStepKeeps == RateInv /\ [RateNext]_rateVars => RateInv'
<1>1. RateInv /\ Pause => RateInv'
  <2> SUFFICES ASSUME RateInv, Pause PROVE RateInv'
    OBVIOUS
  <2>1. PICK ticks \in 1..MaxWait : clock + ticks <= MaxTicks /\ clock' = clock + ticks
    BY DEF Pause
  <2>2. clock' \in 0..MaxTicks /\ clock <= clock' /\ UNCHANGED <<bucket, admits>>
    BY <2>1, RateAssumption DEF RateInv, Pause
  <2>3. bucket.updated <= clock'
    BY <2>2, RateAssumption DEF RateInv
  <2> QED BY <2>2, <2>3 DEF RateInv
<1>2. RateInv /\ UNCHANGED rateVars => RateInv'
  BY DEF RateInv, rateVars
<1> QED BY <1>1, <1>2, AdmitKeeps DEF RateNext

(* rate_limit.rs admit: in no stretch of time are more requests admitted    *)
(* than the burst and what the rate gives, and the wait that is told is the *)
(* shortest that suffices, for any rate, burst and length of a second.      *)
THEOREM RatesAreKept == RateSpec => [](RateTypeOK /\ RateIsKept)
<1>1. RateSpec => []RateInv
  BY RateInitHolds, RateStepKeeps, PTL DEF RateSpec
<1> QED BY <1>1, RateInvImplies, PTL

-----------------------------------------------------------------------------
(* Snapshots and the distributed budget. *)

ReaderStates == [pc : ReaderPcs, units : 0..MaxUnits, locks : SUBSET (1..Slots), slot : 0..Slots,
                 id : Reservations \cup {NoReservation}]
Rows == [state : {"HELD", "RELEASED"}, slots : 1..Ceiling(MaxUnits)]
Messages == [op : {"reserve", "release"}, id : Reservations, slots : 1..Ceiling(MaxUnits)]

(* Before the file is dropped a reader has its permits. *)
Paying == {"locking", "reserving", "asking", "copying", "serving"}
USE DEF Paying

SnapTyped ==
  /\ reader \in [Readers -> ReaderStates]
  /\ \A r \in Readers : reader[r].pc \in Paying => reader[r].units # 0
  /\ reservation \in [Reservations -> Rows \cup {Unknown}]
  /\ requested \subseteq Messages
  /\ answer \in [Reservations -> {"none", "HELD", "RELEASED", "exhausted"}]
  /\ snapshots \subseteq Reservations

(* A reader that has an id is the only one with it, nobody was told yet to *)
(* release it, and its row is HELD from the answer to the drop of the file. *)
OwnersHold ==
  /\ \A r \in Readers : reader[r].id # NoReservation <=>
                          reader[r].pc \in {"asking", "copying", "serving", "dropping"}
  /\ \A r \in Readers : reader[r].id # NoReservation =>
       /\ reservation[reader[r].id].state # "RELEASED"
       /\ reader[r].pc # "asking" => reservation[reader[r].id].state = "HELD"
       /\ \A m \in requested : m.op = "release" => m.id # reader[r].id
  /\ \A r, s \in Readers : reader[r].id = reader[s].id /\ r # s => reader[r].id = NoReservation

(* Only rows that exist are answered HELD or released, and a release is on *)
(* its way only once the file is gone.                                     *)
MessagesHold ==
  /\ \A i \in Reservations : answer[i] = "HELD" => reservation[i] # Unknown
  /\ \A m \in requested : m.op = "release" => m.id \notin snapshots /\ reservation[m.id] # Unknown

FilesHold == \A i \in snapshots : reservation[i].state = "HELD"

HeldCells == UNION {{i} \X (1..reservation[i].slots) : i \in Held}
BudgetHolds == IsFiniteSet(HeldCells) /\ HeldSlots <= Capacity

SnapInv == SnapTyped /\ OwnersHold /\ MessagesHold /\ FilesHold /\ BudgetHolds

LEMMA SnapInvImplies == SnapInv => SnapTypeOK /\ DiskIsPaidFor
BY DEF SnapInv, SnapTyped, FilesHold, BudgetHolds, SnapTypeOK, DiskIsPaidFor, ReaderStates, Messages, Rows

(* An artifact of at least one unit takes at least one slot, and a larger one no fewer. *)
LEMMA CeilingInRange ==
  ASSUME NEW units \in 1..MaxUnits
  PROVE  Ceiling(units) \in 1..Ceiling(MaxUnits)
<1> DEFINE q == (units + SlotUnits - 1) \div SlotUnits
           t == (MaxUnits + SlotUnits - 1) \div SlotUnits
<1>0. SlotUnits \in Nat \ {0} /\ MaxUnits \in Nat \ {0} /\ units \in Nat \ {0}
  BY SnapshotAssumption
<1>1. q \in Nat /\ SlotUnits * q <= units + SlotUnits - 1 /\ units + SlotUnits - 1 < SlotUnits * (q + 1)
  BY <1>0
<1>2. t \in Nat /\ MaxUnits + SlotUnits - 1 < SlotUnits * (t + 1)
  BY <1>0
<1> HIDE DEF q, t
<1>3. q >= 1
  <2> SUFFICES ASSUME q = 0 PROVE FALSE
    BY <1>1
  <2> QED BY <1>0, <1>1
<1>4. q <= t
  <2> SUFFICES ASSUME ~(q <= t) PROVE FALSE
    OBVIOUS
  <2>1. q - (t + 1) \in Nat /\ q = (q - (t + 1)) + (t + 1)
    BY <1>1, <1>2
  <2>2. SlotUnits * q = SlotUnits * (q - (t + 1)) + SlotUnits * (t + 1)
    BY <1>0, <1>2, <2>1
  <2>3. SlotUnits * (q - (t + 1)) >= 0
    BY <1>0, <2>1
  <2> QED BY <1>0, <1>1, <1>2, <2>2, <2>3
<1> QED BY <1>1, <1>2, <1>3, <1>4 DEF Ceiling, q, t

LEMMA SnapInitHolds == SnapInit => SnapInv
<1> SUFFICES ASSUME SnapInit PROVE SnapInv
  OBVIOUS
<1>1. SnapTyped
  BY SnapshotAssumption DEF SnapInit, SnapTyped, Away, ReaderStates, ReaderPcs
<1>2. OwnersHold /\ MessagesHold /\ FilesHold
  BY SnapshotAssumption DEF SnapInit, OwnersHold, MessagesHold, FilesHold, Away
<1>3. Held = {}
  BY DEF SnapInit, Held, Unknown
<1>4. BudgetHolds
  BY <1>3, FS_EmptySet, SnapshotAssumption DEF BudgetHolds, HeldCells, HeldSlots
<1> QED BY <1>1, <1>2, <1>3, <1>4 DEF SnapInv

(* What is HELD only shrinks: the slots counted are a part of those before. *)
LEMMA FewerHeld ==
  ASSUME BudgetHolds, Held' \subseteq Held, \A i \in Held' : reservation'[i] = reservation[i]
  PROVE  BudgetHolds'
<1>1. HeldCells' \in SUBSET HeldCells
  BY DEF HeldCells
<1>2. IsFiniteSet(HeldCells') /\ Cardinality(HeldCells') <= Cardinality(HeldCells)
  BY <1>1, FS_Subset DEF BudgetHolds
<1>3. Cardinality(HeldCells) \in Nat /\ Cardinality(HeldCells') \in Nat
  BY <1>2, FS_CardinalityType DEF BudgetHolds
<1> QED BY <1>2, <1>3, SnapshotAssumption DEF BudgetHolds, HeldSlots, HeldCells

(* A reservation that the coordinator makes fits into the capacity. *)
LEMMA OneMoreHeld ==
  ASSUME BudgetHolds, NEW i \in Reservations, NEW slots \in Nat, ~Exhausted(slots),
         SnapTyped, reservation[i] = Unknown,
         reservation' = [reservation EXCEPT ![i] = [state |-> "HELD", slots |-> slots]]
  PROVE  BudgetHolds'
<1> DEFINE new == {i} \X (1..slots)
<1>1. IsFiniteSet(new) /\ Cardinality(new) = slots
  <2>1. IsFiniteSet(1..slots) /\ Cardinality(1..slots) = slots
    BY FS_Interval
  <2>2. IsFiniteSet({i}) /\ Cardinality({i}) = 1
    BY FS_Singleton
  <2>3. Cardinality(new) = 1 * slots /\ IsFiniteSet(new)
    BY <2>1, <2>2, FS_Product
  <2> QED BY <2>3
<1>2. HeldCells' = HeldCells \cup new
  <2>1. Held' = Held \cup {i} /\ i \notin Held
    BY DEF Held, SnapTyped, Unknown
  <2>2. \A h \in Held : reservation'[h].slots = reservation[h].slots
    BY <2>1 DEF SnapTyped
  <2>3. reservation'[i].slots = slots
    BY DEF SnapTyped
  <2> QED BY <2>1, <2>2, <2>3 DEF HeldCells
<1>3. /\ IsFiniteSet(HeldCells')
      /\ Cardinality(HeldCells') = Cardinality(HeldCells) + Cardinality(new) - Cardinality(HeldCells \cap new)
  BY <1>1, <1>2, FS_Union DEF BudgetHolds
<1>4. Cardinality(HeldCells \cap new) \in Nat /\ Cardinality(HeldCells) \in Nat
  BY <1>1, FS_CardinalityType, FS_Intersection DEF BudgetHolds
<1>5. Cardinality(HeldCells') <= Capacity
  BY <1>1, <1>3, <1>4, SnapshotAssumption DEF Exhausted, HeldSlots, HeldCells
<1> QED BY <1>3, <1>5 DEF BudgetHolds, HeldSlots, HeldCells

LEMMA ReaderIdTyped ==
  ASSUME SnapTyped, NEW r \in Readers
  PROVE  /\ reader[r] \in ReaderStates /\ reader[r].pc \in ReaderPcs
         /\ reader[r].id \in Reservations \cup {NoReservation}
         /\ DOMAIN reader = Readers
BY DEF SnapTyped, ReaderStates

(* Steps of one reader that leave the coordinator and the files alone and  *)
(* at most give the id back. *)
LEMMA ReaderStepKeeps ==
  ASSUME SnapInv, NEW r \in Readers, NEW row \in ReaderStates,
         reader' = [reader EXCEPT ![r] = row],
         row.pc \in Paying => row.units # 0,
         \/ row.id = NoReservation /\ row.pc \notin {"asking", "copying", "serving", "dropping"}
         \/ /\ row.id = reader[r].id /\ row.id # NoReservation
            /\ row.pc \in {"copying", "serving", "dropping"}
            /\ reservation[row.id].state = "HELD",
         UNCHANGED <<reservation, requested, answer>>,
         snapshots' \subseteq Reservations
  PROVE  SnapTyped' /\ OwnersHold' /\ BudgetHolds'
<1>1. SnapTyped'
  BY DEF SnapInv, SnapTyped
<1>2. reader'[r] = row /\ \A s \in Readers : s # r => reader'[s] = reader[s]
  BY DEF SnapInv, SnapTyped
<1>3. OwnersHold'
  <2>1. \A s \in Readers : reader'[s].id # NoReservation <=>
                          reader'[s].pc \in {"asking", "copying", "serving", "dropping"}
    BY <1>2 DEF SnapInv, OwnersHold
  <2>2. \A s \in Readers : reader'[s].id # NoReservation =>
          /\ reservation[reader'[s].id].state # "RELEASED"
          /\ reader'[s].pc # "asking" => reservation[reader'[s].id].state = "HELD"
          /\ \A m \in requested : m.op = "release" => m.id # reader'[s].id
    BY <1>2 DEF SnapInv, OwnersHold
  <2>3. \A s, t \in Readers : reader'[s].id = reader'[t].id /\ s # t => reader'[s].id = NoReservation
    BY <1>2 DEF SnapInv, OwnersHold
  <2> QED BY <2>1, <2>2, <2>3 DEF OwnersHold
<1>4. BudgetHolds'
  BY FewerHeld DEF SnapInv, Held
<1> QED BY <1>1, <1>3, <1>4

(* A step of the reader alone, which changes no row, message or file. *)
LEMMA ReaderAloneKeeps ==
  ASSUME SnapInv, NEW r \in Readers, NEW row \in ReaderStates,
         reader' = [reader EXCEPT ![r] = row],
         row.pc \in Paying => row.units # 0,
         \/ row.id = NoReservation /\ row.pc \notin {"asking", "copying", "serving", "dropping"}
         \/ /\ row.id = reader[r].id /\ row.id # NoReservation
            /\ row.pc \in {"copying", "serving", "dropping"}
            /\ reservation[row.id].state = "HELD",
         UNCHANGED <<reservation, requested, answer, snapshots>>
  PROVE  SnapInv'
<1>1. SnapTyped' /\ OwnersHold' /\ BudgetHolds'
  BY ReaderStepKeeps DEF SnapInv, SnapTyped
<1>2. MessagesHold' /\ FilesHold'
  BY DEF SnapInv, MessagesHold, FilesHold
<1> QED BY <1>1, <1>2 DEF SnapInv

LEMMA AwayTyped == Away \in ReaderStates /\ Away.id = NoReservation /\ Away.pc = "away"
BY SnapshotAssumption DEF Away, ReaderStates, ReaderPcs

LEMMA BeginKeeps ==
  ASSUME SnapInv, NEW r \in Readers, NEW units \in 1..MaxUnits, BeginSnapshot(r, units)
  PROVE  SnapInv'
<1> DEFINE row == [Away EXCEPT !.pc = "locking", !.units = units]
<1>1. units \in 0..MaxUnits /\ units # 0
  BY SnapshotAssumption
<1>2. row \in ReaderStates /\ row.pc = "locking" /\ row.units = units /\ row.id = Away.id
  BY <1>1, AwayTyped DEF ReaderStates, ReaderPcs
<1>3. reader' = [reader EXCEPT ![r] = row]
  BY DEF BeginSnapshot
<1> HIDE DEF row
<1> QED BY <1>1, <1>2, <1>3, AwayTyped, ReaderAloneKeeps DEF BeginSnapshot

LEMMA TryKeeps ==
  ASSUME SnapInv, NEW r \in Readers, TrySlot(r)
  PROVE  SnapInv'
<1> DEFINE slot == reader[r].slot + 1
           locks == reader[r].locks \cup ({slot} \ LockedSlots)
           pc == IF Cardinality(locks) = Ceiling(reader[r].units) THEN "reserving" ELSE "locking"
           row == [reader[r] EXCEPT !.slot = slot, !.locks = locks, !.pc = pc]
<1>0. reader[r] \in ReaderStates /\ reader[r].pc = "locking" /\ reader[r].units # 0
  BY ReaderIdTyped DEF SnapInv, TrySlot, SnapTyped
<1>1. CASE slot > Slots
  <2>1. reader' = [reader EXCEPT ![r] = Away]
    BY <1>1 DEF TrySlot
  <2> QED BY <2>1, AwayTyped, ReaderAloneKeeps DEF TrySlot
<1>2. CASE ~(slot > Slots)
  <2>1. slot \in 1..Slots /\ locks \in SUBSET (1..Slots)
    BY <1>0, <1>2, SnapshotAssumption DEF ReaderStates
  <2>2. pc \in {"reserving", "locking"}
    OBVIOUS
  <2>3. reader[r].id = NoReservation
    BY <1>0 DEF SnapInv, OwnersHold
  <2>4. reader' = [reader EXCEPT ![r] = row]
    BY <1>2 DEF TrySlot
  <2>5. row \in ReaderStates /\ row.pc = pc /\ row.id = reader[r].id /\ row.units = reader[r].units
    <3>1. slot \in 0..Slots
      BY <2>1, SnapshotAssumption
    <3> HIDE DEF slot, locks, pc
    <3> QED BY <1>0, <2>1, <2>2, <3>1 DEF ReaderStates, ReaderPcs
  <2> HIDE DEF row, pc
  <2> QED BY <1>0, <2>2, <2>3, <2>4, <2>5, ReaderAloneKeeps DEF TrySlot
<1> QED BY <1>1, <1>2

LEMMA AskKeeps ==
  ASSUME SnapInv, NEW r \in Readers, NEW i \in Reservations, AskCoordinator(r, i)
  PROVE  SnapInv'
<1> DEFINE message == [op |-> "reserve", id |-> i, slots |-> Ceiling(reader[r].units)]
           row == [reader[r] EXCEPT !.pc = "asking", !.id = i]
<1>0. /\ reader[r] \in ReaderStates /\ reader[r].pc = "reserving"
      /\ reader[r].units \in 1..MaxUnits /\ reader[r].units # 0
  BY ReaderIdTyped DEF SnapInv, AskCoordinator, SnapTyped, ReaderStates
<1>1. message \in Messages /\ message.op = "reserve"
  BY <1>0, CeilingInRange DEF Messages
<1>2. row \in ReaderStates /\ row.pc = "asking" /\ row.id = i /\ row.units = reader[r].units
  BY <1>0 DEF ReaderStates, ReaderPcs
<1>3. /\ reader'[r] = row /\ \A s \in Readers : s # r => reader'[s] = reader[s]
      /\ reader' \in [Readers -> ReaderStates]
      /\ i # NoReservation
  <2>1. reader' = [reader EXCEPT ![r] = row]
    BY DEF AskCoordinator
  <2> HIDE DEF row
  <2> QED BY <1>2, <2>1, SnapshotAssumption DEF SnapInv, SnapTyped
<1>4. requested' = requested \cup {message} /\ UNCHANGED <<reservation, answer, snapshots>>
  BY DEF AskCoordinator
<1>5. reservation[i] = Unknown /\ (\A s \in Readers : reader[s].id # i) /\ \A m \in requested : m.id # i
  BY DEF AskCoordinator, FreshId, InUse
<1> HIDE DEF message, row
<1>6. SnapTyped'
  BY <1>0, <1>1, <1>2, <1>3, <1>4 DEF SnapInv, SnapTyped
<1>7. OwnersHold'
  <2>1. \A s \in Readers : reader'[s].id # NoReservation <=>
                          reader'[s].pc \in {"asking", "copying", "serving", "dropping"}
    BY <1>2, <1>3 DEF SnapInv, OwnersHold
  <2>2. \A s \in Readers : reader'[s].id # NoReservation =>
          /\ reservation'[reader'[s].id].state # "RELEASED"
          /\ reader'[s].pc # "asking" => reservation'[reader'[s].id].state = "HELD"
          /\ \A m \in requested' : m.op = "release" => m.id # reader'[s].id
    BY <1>1, <1>2, <1>3, <1>4, <1>5 DEF SnapInv, OwnersHold, Unknown
  <2>3. \A s, t \in Readers : reader'[s].id = reader'[t].id /\ s # t => reader'[s].id = NoReservation
    BY <1>2, <1>3, <1>5 DEF SnapInv, OwnersHold
  <2> QED BY <2>1, <2>2, <2>3 DEF OwnersHold
<1>8. MessagesHold' /\ FilesHold'
  BY <1>1, <1>4 DEF SnapInv, MessagesHold, FilesHold
<1>9. BudgetHolds'
  BY <1>4, FewerHeld DEF SnapInv, Held
<1> QED BY <1>6, <1>7, <1>8, <1>9 DEF SnapInv

LEMMA CoordinatorKeeps == SnapInv /\ Coordinator => SnapInv'
<1> SUFFICES ASSUME SnapInv, Coordinator PROVE SnapInv'
  OBVIOUS
<1>1. PICK m \in requested :
        /\ CoordinatorReserves(m) \/ CoordinatorReleases(m)
        /\ UNCHANGED requested \/ requested' = requested \ {m}
  BY DEF Coordinator
<1>2. requested' \subseteq requested /\ UNCHANGED <<reader, snapshots>>
  BY <1>1 DEF Coordinator
<1>3. m.id \in Reservations /\ m.slots \in 1..Ceiling(MaxUnits) /\ m.slots \in Nat
  BY DEF SnapInv, SnapTyped, Messages
<1>4. CASE CoordinatorReserves(m) /\ reservation' = reservation
  <2>1. \/ answer' = [answer EXCEPT ![m.id] = reservation[m.id].state] /\ reservation[m.id] # Unknown
        \/ answer' = [answer EXCEPT ![m.id] = "exhausted"]
    <3>1. CASE reservation[m.id] # Unknown
      BY <3>1, <1>4 DEF CoordinatorReserves
    <3>2. CASE reservation[m.id] = Unknown /\ Exhausted(m.slots)
      BY <3>2, <1>4 DEF CoordinatorReserves
    <3>3. CASE reservation[m.id] = Unknown /\ ~Exhausted(m.slots)
      BY <3>3, <1>3, <1>4 DEF CoordinatorReserves, SnapInv, SnapTyped, Unknown
    <3> QED BY <3>1, <3>2, <3>3
  <2>2. /\ answer' \in [Reservations -> {"none", "HELD", "RELEASED", "exhausted"}]
        /\ \A i \in Reservations : answer'[i] = "HELD" => answer[i] = "HELD" \/ reservation[i] # Unknown
    BY <1>3, <2>1 DEF SnapInv, SnapTyped, Rows
  <2>3. SnapTyped'
    BY <1>2, <1>4, <2>2 DEF SnapInv, SnapTyped
  <2>4. OwnersHold' /\ MessagesHold' /\ FilesHold'
    BY <1>2, <1>4, <2>2 DEF SnapInv, OwnersHold, MessagesHold, FilesHold
  <2>5. BudgetHolds'
    BY <1>4, FewerHeld DEF SnapInv, Held
  <2> QED BY <2>3, <2>4, <2>5 DEF SnapInv
<1>5. CASE CoordinatorReserves(m) /\ reservation' # reservation
  <2>1. /\ reservation[m.id] = Unknown /\ ~Exhausted(m.slots)
        /\ reservation' = [reservation EXCEPT ![m.id] = [state |-> "HELD", slots |-> m.slots]]
        /\ answer' = [answer EXCEPT ![m.id] = "HELD"]
    BY <1>5 DEF CoordinatorReserves
  <2>2. BudgetHolds'
    BY <1>3, <2>1, OneMoreHeld DEF SnapInv
  <2>3. /\ reservation' \in [Reservations -> Rows \cup {Unknown}]
        /\ reservation'[m.id].state = "HELD" /\ reservation'[m.id] # Unknown
        /\ \A i \in Reservations : i # m.id => reservation'[i] = reservation[i]
    BY <1>3, <2>1 DEF SnapInv, SnapTyped, Rows, Unknown
  <2>4. /\ answer' \in [Reservations -> {"none", "HELD", "RELEASED", "exhausted"}]
        /\ \A i \in Reservations : i # m.id => answer'[i] = answer[i]
    BY <1>3, <2>1 DEF SnapInv, SnapTyped
  <2>5. SnapTyped'
    BY <1>2, <2>3, <2>4 DEF SnapInv, SnapTyped
  <2>6. OwnersHold'
    BY <1>2, <2>3, ReaderIdTyped DEF SnapInv, OwnersHold
  <2>7. MessagesHold'
    <3>1. \A i \in Reservations : answer'[i] = "HELD" => reservation'[i] # Unknown
      BY <2>3, <2>4 DEF SnapInv, MessagesHold
    <3>2. \A n \in requested' : n.op = "release" => n.id \notin snapshots' /\ reservation'[n.id] # Unknown
      BY <1>2, <2>3 DEF SnapInv, MessagesHold, SnapTyped, Messages
    <3> QED BY <3>1, <3>2 DEF MessagesHold
  <2>8. FilesHold'
    BY <1>2, <2>3 DEF SnapInv, FilesHold, SnapTyped
  <2> QED BY <2>2, <2>5, <2>6, <2>7, <2>8 DEF SnapInv
<1>6. CASE CoordinatorReleases(m)
  <2>1. m.op = "release" /\ answer' = answer /\ reservation[m.id] # Unknown /\ m.id \notin snapshots
    BY <1>6 DEF CoordinatorReleases, SnapInv, MessagesHold
  <2>2. reservation' = [reservation EXCEPT ![m.id].state = "RELEASED"]
    BY <1>6, <2>1 DEF CoordinatorReleases
  <2>3. /\ reservation' \in [Reservations -> Rows \cup {Unknown}]
        /\ reservation'[m.id].state = "RELEASED" /\ reservation'[m.id] # Unknown
        /\ \A i \in Reservations : i # m.id => reservation'[i] = reservation[i]
    <3>1. reservation[m.id] \in Rows
      BY <1>3, <2>1 DEF SnapInv, SnapTyped
    <3> QED BY <1>3, <2>2, <3>1 DEF SnapInv, SnapTyped, Rows, Unknown
  <2>4. SnapTyped'
    BY <1>2, <2>1, <2>3 DEF SnapInv, SnapTyped
  <2>5. \A r \in Readers : reader[r].id # NoReservation => reader[r].id # m.id
    BY <2>1 DEF SnapInv, OwnersHold
  <2>6. OwnersHold'
    BY <1>2, <2>3, <2>5, ReaderIdTyped DEF SnapInv, OwnersHold
  <2>7. MessagesHold'
    <3>1. \A i \in Reservations : answer'[i] = "HELD" => reservation'[i] # Unknown
      BY <2>1, <2>3 DEF SnapInv, MessagesHold
    <3>2. \A n \in requested' : n.op = "release" => n.id \notin snapshots' /\ reservation'[n.id] # Unknown
      BY <1>2, <2>3 DEF SnapInv, MessagesHold, SnapTyped, Messages
    <3> QED BY <3>1, <3>2 DEF MessagesHold
  <2>8. FilesHold'
    BY <1>2, <2>1, <2>3 DEF SnapInv, FilesHold, SnapTyped
  <2>9. BudgetHolds'
    BY <1>3, <2>3, FewerHeld DEF SnapInv, Held
  <2> QED BY <2>4, <2>6, <2>7, <2>8, <2>9 DEF SnapInv
<1> QED BY <1>1, <1>4, <1>5, <1>6

LEMMA LoseKeeps == SnapInv /\ LoseMessage => SnapInv'
<1> SUFFICES ASSUME SnapInv, LoseMessage PROVE SnapInv'
  OBVIOUS
<1>1. requested' \subseteq requested /\ UNCHANGED <<reader, reservation, answer, snapshots>>
  BY DEF LoseMessage
<1>2. SnapTyped' /\ OwnersHold' /\ MessagesHold' /\ FilesHold'
  BY <1>1 DEF SnapInv, SnapTyped, OwnersHold, MessagesHold, FilesHold
<1>3. BudgetHolds'
  BY <1>1, FewerHeld DEF SnapInv, Held
<1> QED BY <1>2, <1>3 DEF SnapInv

LEMMA HearKeeps ==
  ASSUME SnapInv, NEW r \in Readers, HearAnswer(r)
  PROVE  SnapInv'
<1>1. CASE answer[reader[r].id] = "HELD" /\ ReaderGoes(r, "copying")
  <2> DEFINE row == [reader[r] EXCEPT !.pc = "copying"]
  <2>1. reader[r].id # NoReservation /\ reader[r].id \in Reservations /\ reader[r] \in ReaderStates
        /\ reader[r].units # 0
    BY ReaderIdTyped DEF SnapInv, OwnersHold, SnapTyped, HearAnswer
  <2>2. reservation[reader[r].id].state = "HELD"
    BY <1>1, <2>1 DEF SnapInv, OwnersHold, MessagesHold, SnapTyped, Rows
  <2>3. row \in ReaderStates /\ row.pc = "copying" /\ row.id = reader[r].id /\ row.units = reader[r].units
    BY <2>1 DEF ReaderStates, ReaderPcs
  <2>4. reader' = [reader EXCEPT ![r] = row]
    BY <1>1 DEF ReaderGoes
  <2> HIDE DEF row
  <2> QED BY <2>1, <2>2, <2>3, <2>4, ReaderAloneKeeps DEF HearAnswer
<1>2. CASE reader' = [reader EXCEPT ![r] = Away]
  BY <1>2, AwayTyped, ReaderAloneKeeps DEF HearAnswer
<1> QED BY <1>1, <1>2 DEF HearAnswer

(* A reader that goes on with a file that is paid for. *)
LEMMA GoesOn ==
  ASSUME SnapInv, NEW r \in Readers, NEW pc \in {"serving", "dropping"},
         reader[r].pc \in {"copying", "serving"}, ReaderGoes(r, pc),
         UNCHANGED <<reservation, requested, answer>>,
         snapshots' = snapshots \cup {reader[r].id} \/ snapshots' = snapshots
  PROVE  SnapInv'
<1> DEFINE row == [reader[r] EXCEPT !.pc = pc]
<1>1. reader[r].id # NoReservation /\ reader[r].id \in Reservations /\ reader[r] \in ReaderStates
      /\ reader[r].units # 0 /\ reservation[reader[r].id].state = "HELD"
      /\ \A m \in requested : m.op = "release" => m.id # reader[r].id
  BY ReaderIdTyped DEF SnapInv, OwnersHold, SnapTyped
<1>2. row \in ReaderStates /\ row.pc = pc /\ row.id = reader[r].id /\ row.units = reader[r].units
  BY <1>1 DEF ReaderStates, ReaderPcs
<1>3. reader' = [reader EXCEPT ![r] = row]
  BY DEF ReaderGoes
<1> HIDE DEF row
<1>4. SnapTyped' /\ OwnersHold' /\ BudgetHolds'
  BY <1>1, <1>2, <1>3, ReaderStepKeeps DEF SnapInv, SnapTyped
<1>5. MessagesHold' /\ FilesHold'
  BY <1>1 DEF SnapInv, MessagesHold, FilesHold
<1> QED BY <1>4, <1>5 DEF SnapInv

(* An answer without a body: the permits and slots go before the file. *)
LEMMA RefusedKeeps ==
  ASSUME SnapInv, NEW r \in Readers, reader[r].pc = "serving",
         reader' = [reader EXCEPT ![r].pc = "dropping", ![r].units = 0, ![r].locks = {}],
         UNCHANGED <<reservation, requested, answer, snapshots>>
  PROVE  SnapInv'
<1> DEFINE row == [reader[r] EXCEPT !.pc = "dropping", !.units = 0, !.locks = {}]
<1>1. /\ reader[r] \in ReaderStates /\ reader[r].id # NoReservation
      /\ reservation[reader[r].id].state = "HELD"
  BY ReaderIdTyped DEF SnapInv, OwnersHold
<1>0. 0 \in 0..MaxUnits
  BY SnapshotAssumption
<1>2. row \in ReaderStates /\ row.pc = "dropping" /\ row.id = reader[r].id
  BY <1>0, <1>1 DEF ReaderStates, ReaderPcs
<1>3. reader' = [reader EXCEPT ![r] = row]
  OBVIOUS
<1> HIDE DEF row
<1> QED BY <1>1, <1>2, <1>3, ReaderAloneKeeps

LEMMA DropKeeps ==
  ASSUME SnapInv, NEW r \in Readers, DropSnapshot(r)
  PROVE  SnapInv'
<1> DEFINE i == reader[r].id
           row == [reader[r] EXCEPT !.pc = "freeing", !.id = NoReservation]
           message == [op |-> "release", id |-> i, slots |-> reservation[i].slots]
<1>1. /\ i # NoReservation /\ i \in Reservations /\ reader[r] \in ReaderStates
      /\ reservation[i].state = "HELD"
      /\ \A m \in requested : m.op = "release" => m.id # i
      /\ \A s \in Readers : s # r => reader[s].id # i
  BY ReaderIdTyped DEF SnapInv, OwnersHold, SnapTyped, DropSnapshot
<1>2. row \in ReaderStates /\ row.pc = "freeing" /\ row.id = NoReservation /\ row.units = reader[r].units
  BY <1>1 DEF ReaderStates, ReaderPcs
<1>3. reader' = [reader EXCEPT ![r] = row]
  BY DEF DropSnapshot
<1>4. UNCHANGED <<reservation, answer>>
  BY DEF DropSnapshot
<1> HIDE DEF row
<1>5. CASE i \in snapshots /\ UNCHANGED <<snapshots, requested>>
  BY <1>1, <1>2, <1>3, <1>4, <1>5, ReaderAloneKeeps
<1>6. CASE snapshots' = snapshots \ {i} /\ requested' = requested \cup {message}
  <2>1. message \in Messages /\ message.op = "release" /\ message.id = i /\ reservation[i] # Unknown
    BY <1>1 DEF SnapInv, SnapTyped, Messages, Rows, Unknown
  <2> HIDE DEF message
  <2>2. /\ reader'[r] = row /\ reader' \in [Readers -> ReaderStates]
        /\ \A s \in Readers : s # r => reader'[s] = reader[s]
    BY <1>2, <1>3 DEF SnapInv, SnapTyped
  <2>3. SnapTyped'
    BY <1>1, <1>2, <1>4, <1>6, <2>1, <2>2 DEF SnapInv, SnapTyped
  <2>4. OwnersHold'
    <3>1. \A s \in Readers : reader'[s].id # NoReservation <=>
                            reader'[s].pc \in {"asking", "copying", "serving", "dropping"}
      BY <1>2, <2>2 DEF SnapInv, OwnersHold
    <3>2. \A s \in Readers : reader'[s].id # NoReservation =>
            /\ reservation'[reader'[s].id].state # "RELEASED"
            /\ reader'[s].pc # "asking" => reservation'[reader'[s].id].state = "HELD"
            /\ \A m \in requested' : m.op = "release" => m.id # reader'[s].id
      BY <1>1, <1>2, <1>4, <1>6, <2>1, <2>2 DEF SnapInv, OwnersHold
    <3>3. \A s, t \in Readers : reader'[s].id = reader'[t].id /\ s # t => reader'[s].id = NoReservation
      BY <1>2, <2>2 DEF SnapInv, OwnersHold
    <3> QED BY <3>1, <3>2, <3>3 DEF OwnersHold
  <2>5. MessagesHold' /\ FilesHold'
    BY <1>1, <1>4, <1>6, <2>1 DEF SnapInv, MessagesHold, FilesHold
  <2>6. BudgetHolds'
    BY <1>4, FewerHeld DEF SnapInv, Held
  <2> QED BY <2>3, <2>4, <2>5, <2>6 DEF SnapInv
<1> QED BY <1>5, <1>6 DEF DropSnapshot

LEMMA DeathKeeps == SnapInv /\ ProcessDies => SnapInv'
<1> SUFFICES ASSUME SnapInv, ProcessDies PROVE SnapInv'
  OBVIOUS
<1>1. /\ reader' = [r \in Readers |-> Away] /\ UNCHANGED <<reservation, requested, answer, snapshots>>
  BY DEF ProcessDies
<1>2. SnapTyped' /\ OwnersHold' /\ MessagesHold' /\ FilesHold'
  BY <1>1, AwayTyped DEF SnapInv, SnapTyped, OwnersHold, MessagesHold, FilesHold
<1>3. BudgetHolds'
  BY <1>1, FewerHeld DEF SnapInv, Held
<1> QED BY <1>2, <1>3 DEF SnapInv

LEMMA SweepKeeps ==
  ASSUME SnapInv, NEW i \in Reservations, SweepSnapshot(i)
  PROVE  SnapInv'
<1>1. snapshots' \subseteq snapshots /\ UNCHANGED <<reader, reservation, requested, answer>>
  BY DEF SweepSnapshot
<1>2. SnapTyped' /\ OwnersHold' /\ MessagesHold' /\ FilesHold'
  BY <1>1 DEF SnapInv, SnapTyped, OwnersHold, MessagesHold, FilesHold
<1>3. BudgetHolds'
  BY <1>1, FewerHeld DEF SnapInv, Held
<1> QED BY <1>2, <1>3 DEF SnapInv

LEMMA ReconcileKeeps ==
  ASSUME SnapInv, NEW i \in Reservations, ReconcileReservation(i)
  PROVE  SnapInv'
<1>1. /\ reservation[i].state = "HELD" /\ i \notin snapshots /\ \A r \in Readers : reader[r].id # i
      /\ reservation' = [reservation EXCEPT ![i].state = "RELEASED"]
      /\ UNCHANGED <<reader, requested, answer, snapshots>>
  BY DEF ReconcileReservation, InUse
<1>2. /\ reservation' \in [Reservations -> Rows \cup {Unknown}]
      /\ reservation'[i].state = "RELEASED" /\ reservation'[i] # Unknown
      /\ \A j \in Reservations : j # i => reservation'[j] = reservation[j]
  <2>1. reservation[i] \in Rows
    BY <1>1 DEF SnapInv, SnapTyped, Unknown
  <2> QED BY <1>1, <2>1 DEF SnapInv, SnapTyped, Rows, Unknown
<1>3. SnapTyped'
  BY <1>1, <1>2 DEF SnapInv, SnapTyped
<1>4. OwnersHold'
  BY <1>1, <1>2, ReaderIdTyped DEF SnapInv, OwnersHold
<1>5. MessagesHold'
  <2>1. \A j \in Reservations : answer'[j] = "HELD" => reservation'[j] # Unknown
    BY <1>1, <1>2 DEF SnapInv, MessagesHold
  <2>2. \A n \in requested' : n.op = "release" => n.id \notin snapshots' /\ reservation'[n.id] # Unknown
    BY <1>1, <1>2 DEF SnapInv, MessagesHold, SnapTyped, Messages
  <2> QED BY <2>1, <2>2 DEF MessagesHold
<1>6. FilesHold'
  BY <1>1, <1>2 DEF SnapInv, FilesHold, SnapTyped
<1>7. BudgetHolds'
  BY <1>2, FewerHeld DEF SnapInv, Held
<1> QED BY <1>3, <1>4, <1>5, <1>6, <1>7 DEF SnapInv

LEMMA SnapStepKeeps == SnapInv /\ [SnapNext]_snapVars => SnapInv'
<1> SUFFICES ASSUME SnapInv, [SnapNext]_snapVars PROVE SnapInv'
  OBVIOUS
<1>1. CASE UNCHANGED snapVars
  <2>1. SnapTyped' /\ OwnersHold' /\ MessagesHold' /\ FilesHold'
    BY <1>1 DEF SnapInv, SnapTyped, OwnersHold, MessagesHold, FilesHold, snapVars
  <2>2. BudgetHolds'
    BY <1>1, FewerHeld DEF SnapInv, Held, snapVars
  <2> QED BY <2>1, <2>2 DEF SnapInv
<1>2. ASSUME NEW r \in Readers, NEW units \in 1..MaxUnits, BeginSnapshot(r, units) PROVE SnapInv'
  BY <1>2, BeginKeeps
<1>3. ASSUME NEW r \in Readers, NEW i \in Reservations, AskCoordinator(r, i) PROVE SnapInv'
  BY <1>3, AskKeeps
<1>4. ASSUME NEW r \in Readers, TrySlot(r) PROVE SnapInv'
  BY <1>4, TryKeeps
<1>5. ASSUME NEW r \in Readers, HearAnswer(r) PROVE SnapInv'
  BY <1>5, HearKeeps
<1>6. ASSUME NEW r \in Readers, CopySnapshot(r) PROVE SnapInv'
  BY <1>6, GoesOn DEF CopySnapshot
<1>7. ASSUME NEW r \in Readers, EndServing(r) PROVE SnapInv'
  BY <1>7, GoesOn, RefusedKeeps DEF EndServing
<1>8. ASSUME NEW r \in Readers, DropSnapshot(r) PROVE SnapInv'
  BY <1>8, DropKeeps
<1>9. ASSUME NEW r \in Readers, FreeSlots(r) PROVE SnapInv'
  BY <1>9, AwayTyped, ReaderAloneKeeps DEF FreeSlots
<1>10. CASE Coordinator \/ LoseMessage \/ ProcessDies
  BY <1>10, CoordinatorKeeps, LoseKeeps, DeathKeeps
<1>11. ASSUME NEW i \in Reservations, SweepSnapshot(i) \/ ReconcileReservation(i) PROVE SnapInv'
  BY <1>11, SweepKeeps, ReconcileKeeps
<1> QED BY <1>1, <1>2, <1>3, <1>4, <1>5, <1>6, <1>7, <1>8, <1>9, <1>10, <1>11 DEF SnapNext

(* budget.rs and artifacts.rs: every copy on disk is paid for by a held    *)
(* reservation and these never exceed the capacity, for any number of      *)
(* readers, reservations and slots and any artifact sizes.                 *)
THEOREM SnapshotsArePaidFor == SnapSpec => [](SnapTypeOK /\ DiskIsPaidFor)
<1>1. SnapSpec => []SnapInv
  BY SnapInitHolds, SnapStepKeeps, PTL DEF SnapSpec
<1> QED BY <1>1, SnapInvImplies, PTL

(* budget.rs reserve_snapshot: a row is never changed but from HELD to      *)
(* RELEASED, so a reservation that was given back is not taken again by a  *)
(* request that arrives late or twice.                                     *)
RowsOnlyEnd ==
  \A i \in Reservations : reservation[i] # Unknown /\ reservation'[i] # reservation[i] =>
    reservation[i].state = "HELD" /\ reservation'[i] = [reservation[i] EXCEPT !.state = "RELEASED"]

(* reserve, release and reconcile, in any order and any number: the rows of *)
(* the budget only end.                                                     *)
THEOREM ReservationsOnlyEnd == SnapSpec => [][RowsOnlyEnd]_snapVars
<1>1. ASSUME SnapInv, SnapNext PROVE RowsOnlyEnd
  <2>1. CASE UNCHANGED reservation
    BY <2>1 DEF RowsOnlyEnd
  <2>2. CASE Coordinator
    <3>1. PICK m \in requested : CoordinatorReserves(m) \/ CoordinatorReleases(m)
      BY <2>2 DEF Coordinator
    <3>2. CASE CoordinatorReserves(m)
      <4>1. UNCHANGED reservation
            \/ /\ reservation[m.id] = Unknown
               /\ reservation' = [reservation EXCEPT ![m.id] = [state |-> "HELD", slots |-> m.slots]]
        BY <3>2 DEF CoordinatorReserves
      <4> QED BY <1>1, <4>1 DEF RowsOnlyEnd, SnapInv, SnapTyped
    <3>3. CASE CoordinatorReleases(m)
      <4>1. UNCHANGED reservation \/ reservation' = [reservation EXCEPT ![m.id].state = "RELEASED"]
        BY <3>3 DEF CoordinatorReleases
      <4>2. \A i \in Reservations : reservation[i] # Unknown => reservation[i] \in Rows
        BY <1>1 DEF SnapInv, SnapTyped, Unknown
      <4> QED BY <1>1, <4>1, <4>2 DEF RowsOnlyEnd, SnapInv, SnapTyped, Rows
    <3> QED BY <3>1, <3>2, <3>3
  <2>3. ASSUME NEW i \in Reservations, ReconcileReservation(i) PROVE RowsOnlyEnd
    BY <1>1, <2>3 DEF ReconcileReservation, RowsOnlyEnd, SnapInv, SnapTyped
  <2>4. UNCHANGED reservation \/ Coordinator \/ \E i \in Reservations : ReconcileReservation(i)
    BY <1>1 DEF SnapNext, BeginSnapshot, AskCoordinator, TrySlot, HearAnswer, CopySnapshot, EndServing,
                DropSnapshot, FreeSlots, LoseMessage, ProcessDies, SweepSnapshot
  <2> QED BY <2>1, <2>2, <2>3, <2>4
<1>2. SnapInv /\ [SnapNext]_snapVars => [RowsOnlyEnd]_snapVars
  BY <1>1
<1>3. SnapSpec => []SnapInv
  BY SnapInitHolds, SnapStepKeeps, PTL DEF SnapSpec
<1> QED BY <1>2, <1>3, PTL DEF SnapSpec
=============================================================================
